--------------------------- MODULE Secret_proofs ---------------------------
(***************************************************************************)
(* A text typed into an EncryptedString comes back from it, and a file     *)
(* comes back from its pass-phrase, for every width of byte, table, hash   *)
(* and text.  In order: decryption undoes encryption; SHA-1 depends on the *)
(* message and not on how it was cut, and tells any two messages apart as  *)
(* long as nothing is known of its compression; the two Blowfish classes   *)
(* are one; EncryptedString; and the file.                                 *)
(***************************************************************************)
EXTENDS Secret, SequenceTheorems, FiniteSetTheorems, WellFoundedInduction, TLAPS

\* A word that is xored twice with the same word is what it was (Xor).
LEMMA XorUndone ==
  ASSUME NEW a \in Word, NEW b \in Word
  PROVE  Xor(a, b) \in Word /\ Xor(Xor(a, b), b) = a
  BY ByteAssumption DEF Word, Xor

\* The order in which two words are xored does not matter (Xor).
LEMMA XorCommutes ==
  ASSUME NEW a \in Word, NEW b \in Word, NEW c \in Word
  PROVE  Xor(Xor(a, b), c) = Xor(Xor(a, c), b)
  BY ByteAssumption DEF Word, Xor

\* The answer of the four boxes is a word (F of do_encrypt).
LEMMA FType ==
  ASSUME NEW k \in Key, NEW w \in Word
  PROVE  F(k, w) \in Word
<1>1. /\ k.s[1][w[1]] \in Word /\ k.s[2][w[2]] \in Word
      /\ k.s[3][w[3]] \in Word /\ k.s[4][w[4]] \in Word
  <2>1. w[1] \in Byte /\ w[2] \in Byte /\ w[3] \in Byte /\ w[4] \in Byte  BY DEF Word
  <2>2. k.s \in [1..4 -> [Byte -> Word]]  BY DEF Key, Boxes
  <2>3. k.s[1] \in [Byte -> Word] /\ k.s[2] \in [Byte -> Word]
        /\ k.s[3] \in [Byte -> Word] /\ k.s[4] \in [Byte -> Word]
    BY <2>2
  <2> QED  BY <2>1, <2>3
<1>2. Add(k.s[1][w[1]], k.s[2][w[2]]) \in Word  BY <1>1, AddAssumption
<1>3. Xor(Add(k.s[1][w[1]], k.s[2][w[2]]), k.s[3][w[3]]) \in Word  BY <1>1, <1>2, XorUndone
<1> QED  BY <1>1, <1>3, AddAssumption DEF F

-----------------------------------------------------------------------------
\* What undoing the rounds from i on leaves of the state v before them.
Mirror(k, v, i) == [l |-> Xor(v.r, k.p[i + 1]), r |-> Xor(v.l, k.p[i])]

\* One round gives two words again (R).
LEMMA RType ==
  ASSUME NEW k \in Key, NEW v \in Half, NEW i \in Slots
  PROVE  R(k, v, i) \in Half
<1>1. v.l \in Word /\ v.r \in Word /\ k.p[i] \in Word  BY DEF Half, Key
<1>2. Xor(v.l, k.p[i]) \in Word  BY <1>1, XorUndone
<1>3. Xor(v.r, F(k, Xor(v.l, k.p[i]))) \in Word  BY <1>1, <1>2, FType, XorUndone
<1> QED  BY <1>2, <1>3 DEF R, Swapped, Half

\* One round of decryption undoes the round of encryption two keys before:
\* the two cross the halves the same way (R, do_encrypt, do_decrypt).
LEMMA RUndone ==
  ASSUME NEW k \in Key, NEW v \in Half, NEW i \in 0..15
  PROVE  R(k, Mirror(k, R(k, v, i), i + 1), i + 2) = Mirror(k, v, i)
<1> DEFINE w == Xor(v.l, k.p[i])
           f == F(k, w)
<1>1. /\ v.l \in Word /\ v.r \in Word
      /\ k.p[i] \in Word /\ k.p[i + 1] \in Word /\ k.p[i + 2] \in Word
  BY DEF Half, Key, Slots
<1>2. w \in Word  BY <1>1, XorUndone
<1>3. f \in Word  BY <1>2, FType
<1>4. R(k, v, i) = [l |-> Xor(v.r, f), r |-> w]  BY DEF R, Swapped
<1>5. Mirror(k, R(k, v, i), i + 1)
        = [l |-> Xor(w, k.p[i + 2]), r |-> Xor(Xor(v.r, f), k.p[i + 1])]
  BY <1>4 DEF Mirror
<1>6. Xor(Xor(w, k.p[i + 2]), k.p[i + 2]) = w  BY <1>1, <1>2, XorUndone
<1>7. R(k, Mirror(k, R(k, v, i), i + 1), i + 2)
        = [l |-> Xor(Xor(Xor(v.r, f), k.p[i + 1]), f), r |-> w]
  BY <1>5, <1>6 DEF R, Swapped
<1>8. Xor(Xor(Xor(v.r, f), k.p[i + 1]), f) = Xor(v.r, k.p[i + 1])
  <2>1. Xor(Xor(v.r, f), k.p[i + 1]) = Xor(Xor(v.r, k.p[i + 1]), f)
    BY <1>1, <1>3, XorCommutes
  <2>2. Xor(v.r, k.p[i + 1]) \in Word  BY <1>1, XorUndone
  <2> QED  BY <2>1, <2>2, <1>3, XorUndone
<1> HIDE DEF w, f
<1> QED  BY <1>7, <1>8 DEF Mirror, w

\* Four rounds, and the four that undo them (do_encrypt, do_decrypt).
LEMMA FourUndone ==
  ASSUME NEW k \in Key, NEW v \in Half, NEW i \in 0..12
  PROVE  /\ FourUp(k, v, i) \in Half
         /\ FourDown(k, Mirror(k, FourUp(k, v, i), i + 4), i + 5) = Mirror(k, v, i)
<1>1. PICK a \in Half : a = R(k, v, i)  BY RType DEF Slots
<1>2. PICK b \in Half : b = R(k, a, i + 1)  BY RType DEF Slots
<1>3. PICK c \in Half : c = R(k, b, i + 2)  BY RType DEF Slots
<1>4. PICK d \in Half : d = R(k, c, i + 3)  BY RType DEF Slots
<1>5. FourUp(k, v, i) = d  BY <1>1, <1>2, <1>3, <1>4 DEF FourUp
<1>6. R(k, Mirror(k, d, i + 4), i + 5) = Mirror(k, c, i + 3)
  <2>1. R(k, Mirror(k, R(k, c, i + 3), (i + 3) + 1), (i + 3) + 2) = Mirror(k, c, i + 3)
    BY RUndone
  <2>2. (i + 3) + 1 = i + 4 /\ (i + 3) + 2 = i + 5  OBVIOUS
  <2> QED  BY <2>1, <2>2, <1>4
<1>7. R(k, Mirror(k, c, i + 3), i + 4) = Mirror(k, b, i + 2)
  <2>1. R(k, Mirror(k, R(k, b, i + 2), (i + 2) + 1), (i + 2) + 2) = Mirror(k, b, i + 2)
    BY RUndone
  <2>2. (i + 2) + 1 = i + 3 /\ (i + 2) + 2 = i + 4  OBVIOUS
  <2> QED  BY <2>1, <2>2, <1>3
<1>8. R(k, Mirror(k, b, i + 2), i + 3) = Mirror(k, a, i + 1)
  <2>1. R(k, Mirror(k, R(k, a, i + 1), (i + 1) + 1), (i + 1) + 2) = Mirror(k, a, i + 1)
    BY RUndone
  <2>2. (i + 1) + 1 = i + 2 /\ (i + 1) + 2 = i + 3  OBVIOUS
  <2> QED  BY <2>1, <2>2, <1>2
<1>9. R(k, Mirror(k, a, i + 1), i + 2) = Mirror(k, v, i)  BY RUndone, <1>1
<1>10. FourDown(k, Mirror(k, d, i + 4), i + 5)
         = R(k, R(k, R(k, R(k, Mirror(k, d, i + 4), i + 5), i + 4), i + 3), i + 2)
  <2>1. (i + 5) - 1 = i + 4 /\ (i + 5) - 2 = i + 3 /\ (i + 5) - 3 = i + 2  OBVIOUS
  <2> QED  BY <2>1 DEF FourDown
<1>11. FourDown(k, Mirror(k, d, i + 4), i + 5) = Mirror(k, v, i)
  BY <1>6, <1>7, <1>8, <1>9, <1>10
<1> QED  BY <1>5, <1>11

\* Decryption of two words undoes their encryption (do_encrypt, do_decrypt).
LEMMA DoDecryptUndoes ==
  ASSUME NEW k \in Key, NEW v \in Half
  PROVE  do_encrypt(k, v) \in Half /\ do_decrypt(k, do_encrypt(k, v)) = v
<1>1. PICK a \in Half : a = FourUp(k, v, 0)  BY FourUndone
<1>2. PICK b \in Half : b = FourUp(k, a, 4)  BY FourUndone
<1>3. PICK c \in Half : c = FourUp(k, b, 8)  BY FourUndone
<1>4. PICK d \in Half : d = FourUp(k, c, 12)  BY FourUndone
<1>5. Upwards(k, v) = d  BY <1>1, <1>2, <1>3, <1>4 DEF Upwards, With
<1>6. do_encrypt(k, v) = Mirror(k, d, 16)  BY <1>5 DEF do_encrypt, Crossed, Mirror
<1>7. Mirror(k, d, 16) \in Half
  <2>1. d.l \in Word /\ d.r \in Word /\ k.p[16] \in Word /\ k.p[17] \in Word
    BY DEF Half, Key, Slots
  <2>2. Xor(d.r, k.p[17]) \in Word /\ Xor(d.l, k.p[16]) \in Word  BY <2>1, XorUndone
  <2> QED  BY <2>2 DEF Mirror, Half
<1>8. FourDown(k, Mirror(k, d, 16), 17) = Mirror(k, c, 12)
  <2>1. FourDown(k, Mirror(k, FourUp(k, c, 12), 12 + 4), 12 + 5) = Mirror(k, c, 12)
    BY FourUndone
  <2> QED  BY <2>1, <1>4
<1>9. FourDown(k, Mirror(k, c, 12), 13) = Mirror(k, b, 8)
  <2>1. FourDown(k, Mirror(k, FourUp(k, b, 8), 8 + 4), 8 + 5) = Mirror(k, b, 8)
    BY FourUndone
  <2> QED  BY <2>1, <1>3
<1>10. FourDown(k, Mirror(k, b, 8), 9) = Mirror(k, a, 4)
  <2>1. FourDown(k, Mirror(k, FourUp(k, a, 4), 4 + 4), 4 + 5) = Mirror(k, a, 4)
    BY FourUndone
  <2> QED  BY <2>1, <1>2
<1>11. FourDown(k, Mirror(k, a, 4), 5) = Mirror(k, v, 0)
  <2>1. FourDown(k, Mirror(k, FourUp(k, v, 0), 0 + 4), 0 + 5) = Mirror(k, v, 0)
    BY FourUndone
  <2> QED  BY <2>1, <1>1
<1>12. Downwards(k, Mirror(k, d, 16)) = Mirror(k, v, 0)
  BY <1>8, <1>9, <1>10, <1>11 DEF Downwards, With
<1>13. Crossed(k, Mirror(k, v, 0), 1, 0) = v
  <2>1. v.l \in Word /\ v.r \in Word /\ k.p[0] \in Word /\ k.p[1] \in Word
    BY DEF Half, Key, Slots
  <2>2. Xor(Xor(v.l, k.p[0]), k.p[0]) = v.l /\ Xor(Xor(v.r, k.p[1]), k.p[1]) = v.r
    BY <2>1, XorUndone
  <2>3. v = [l |-> v.l, r |-> v.r]  BY DEF Half
  <2> QED  BY <2>2, <2>3 DEF Crossed, Mirror
<1> QED  BY <1>6, <1>7, <1>12, <1>13 DEF do_decrypt

-----------------------------------------------------------------------------
\* A block is two words, and swapping its bytes twice leaves it (swap).
LEMMA BlockHalves ==
  ASSUME NEW b \in Block
  PROVE  /\ Halves(b) \in Half /\ Bytes(Halves(b)) = b
         /\ swap(b) \in Block /\ swap(swap(b)) = b
  BY DEF Block, Half, Word, Halves, Bytes, swap

\* Two words are a block, and taking it apart gives them back.
LEMMA BytesOfHalves ==
  ASSUME NEW v \in Half
  PROVE  Bytes(v) \in Block /\ Halves(Bytes(v)) = v
<1>1. v.l \in Word /\ v.r \in Word /\ v = [l |-> v.l, r |-> v.r]  BY DEF Half
<1>2. Bytes(v) \in Block  BY <1>1 DEF Bytes, Block, Word
<1>3. v.l = <<v.l[1], v.l[2], v.l[3], v.l[4]>> /\ v.r = <<v.r[1], v.r[2], v.r[3], v.r[4]>>
  BY <1>1 DEF Word
<1>4. Halves(Bytes(v)) = [l |-> <<v.l[1], v.l[2], v.l[3], v.l[4]>>,
                          r |-> <<v.r[1], v.r[2], v.r[3], v.r[4]>>]
  BY DEF Halves, Bytes
<1> QED  BY <1>1, <1>2, <1>3, <1>4

\* A block that is xored twice with the same block is what it was (xormem).
LEMMA XorBlockUndone ==
  ASSUME NEW a \in Block, NEW b \in Block
  PROVE  XorBlock(a, b) \in Block /\ XorBlock(XorBlock(a, b), b) = a
<1> DEFINE h == [l |-> Xor(Halves(a).l, Halves(b).l), r |-> Xor(Halves(a).r, Halves(b).r)]
<1>1. /\ Halves(a).l \in Word /\ Halves(a).r \in Word
      /\ Halves(b).l \in Word /\ Halves(b).r \in Word
  BY BlockHalves DEF Half
<1>2. h \in Half  BY <1>1, XorUndone DEF Half
<1>3. XorBlock(a, b) = Bytes(h)  BY DEF XorBlock
<1>4. Halves(XorBlock(a, b)) = h /\ XorBlock(a, b) \in Block
  BY <1>2, <1>3, BytesOfHalves
<1>5. /\ Xor(h.l, Halves(b).l) = Halves(a).l
      /\ Xor(h.r, Halves(b).r) = Halves(a).r
  BY <1>1, XorUndone
<1>6. XorBlock(XorBlock(a, b), b) = Bytes([l |-> Halves(a).l, r |-> Halves(a).r])
  BY <1>4, <1>5 DEF XorBlock
<1>7. [l |-> Halves(a).l, r |-> Halves(a).r] = Halves(a)  BY BlockHalves DEF Half
<1> QED  BY <1>4, <1>6, <1>7, BlockHalves

\* Whoever has the key gets back the block that was encrypted, swaps and
\* all (BFProxy::encrypt, BFProxy::decrypt).
THEOREM DecryptUndoes ==
  ASSUME NEW k \in Key, NEW b \in Block
  PROVE  encrypt(k, b) \in Block /\ decrypt(k, encrypt(k, b)) = b
<1>1. PICK v \in Half : v = Halves(swap(b))  BY BlockHalves
<1>2. PICK e \in Half : e = do_encrypt(k, v)  BY DoDecryptUndoes
<1>3. do_decrypt(k, e) = v  BY <1>2, DoDecryptUndoes
<1>4. Bytes(e) \in Block /\ Halves(Bytes(e)) = e  BY BytesOfHalves
<1>5. encrypt(k, b) = swap(Bytes(e))  BY <1>1, <1>2 DEF encrypt
<1>6. swap(swap(Bytes(e))) = Bytes(e) /\ swap(Bytes(e)) \in Block  BY <1>4, BlockHalves
<1>7. decrypt(k, encrypt(k, b)) = swap(Bytes(v))
  BY <1>3, <1>4, <1>5, <1>6 DEF decrypt
<1>8. Bytes(v) = swap(b)  BY <1>1, BlockHalves
<1> QED  BY <1>5, <1>6, <1>7, <1>8, BlockHalves

\* Four rounds of decryption give two words, whatever they are given.
LEMMA FourDownType ==
  ASSUME NEW k \in Key, NEW v \in Half, NEW i \in {5, 9, 13, 17}
  PROVE  FourDown(k, v, i) \in Half
<1>1. PICK a \in Half : a = R(k, v, i)  BY RType DEF Slots
<1>2. PICK b \in Half : b = R(k, a, i - 1)  BY RType DEF Slots
<1>3. PICK c \in Half : c = R(k, b, i - 2)  BY RType DEF Slots
<1>4. PICK d \in Half : d = R(k, c, i - 3)  BY RType DEF Slots
<1> QED  BY <1>1, <1>2, <1>3, <1>4 DEF FourDown

\* Decryption gives a block under any key (BFProxy::decrypt).
LEMMA DecryptType ==
  ASSUME NEW k \in Key, NEW b \in Block
  PROVE  decrypt(k, b) \in Block
<1>1. PICK v \in Half : v = Halves(swap(b))  BY BlockHalves
<1>2. PICK w \in Half : w = FourDown(k, v, 17)  BY FourDownType
<1>3. PICK x \in Half : x = FourDown(k, w, 13)  BY FourDownType
<1>4. PICK y \in Half : y = FourDown(k, x, 9)  BY FourDownType
<1>5. PICK z \in Half : z = FourDown(k, y, 5)  BY FourDownType
<1>6. Downwards(k, v) = z  BY <1>2, <1>3, <1>4, <1>5 DEF Downwards, With
<1>7. Crossed(k, z, 1, 0) \in Half
  <2>1. z.l \in Word /\ z.r \in Word /\ k.p[0] \in Word /\ k.p[1] \in Word
    BY DEF Half, Key, Slots
  <2> QED  BY <2>1, XorUndone DEF Crossed, Half
<1>8. do_decrypt(k, v) \in Half  BY <1>6, <1>7 DEF do_decrypt
<1> QED  BY <1>1, <1>8, BytesOfHalves, BlockHalves DEF decrypt

-----------------------------------------------------------------------------
\* The encrypted block before block n.
Before(n) == IF n = 1 THEN iv ELSE file[n - 1]

\* What makes ReadsBack inductive: both ends hold the block before the next,
\* and each block of the file was made from the one before it.
Chain ==
  /\ Len(file) = Len(sent) /\ Len(got) <= Len(file)
  /\ wip = Before(Len(file) + 1)
  /\ rip = Before(Len(got) + 1)
  /\ \A n \in 1..Len(file) : file[n] = encrypt(wkey, XorBlock(sent[n], Before(n)))

\* Blocks are chained, and whoever has the key reads them as they were.
IInv == CbcTypeOK /\ Chain /\ ReadsBack

\* At first the file is empty.
LEMMA InitChain ==
  ASSUME NEW k \in Key, NEW ip \in Block, CbcInit(k, ip)
  PROVE  IInv
  BY DEF CbcInit, IInv, CbcTypeOK, Chain, Before, ReadsBack

\* A new file is empty.
LEMMA StartWriteChain ==
  ASSUME IInv, NEW k \in Key, NEW ip \in Block, StartWrite(k, ip)
  PROVE  IInv'
  BY DEF StartWrite, IInv, CbcTypeOK, Chain, Before, ReadsBack

\* Who starts reading has read nothing.
LEMMA StartReadChain ==
  ASSUME IInv, NEW k \in Key, StartRead(k)
  PROVE  IInv'
  BY DEF StartRead, IInv, CbcTypeOK, Chain, Before, ReadsBack

\* One block more is chained to the last (BFProxy, writeCBC).
LEMMA WriteBlockChain ==
  ASSUME IInv, NEW b \in Block, WriteBlock(b)
  PROVE  IInv'
<1> DEFINE c == Chained(b)
<1>1. c \in Block
  <2>1. XorBlock(b, wip) \in Block  BY XorBlockUndone DEF IInv, CbcTypeOK
  <2> QED  BY <2>1, DecryptUndoes DEF Chained, IInv, CbcTypeOK
<1>2. c = encrypt(wkey, XorBlock(b, wip))  BY DEF Chained
<1>3. /\ file' = Append(file, c) /\ wip' = c /\ sent' = Append(sent, b)
      /\ iv' = iv /\ wkey' = wkey /\ rkey' = rkey /\ rip' = rip /\ got' = got
  BY DEF WriteBlock
<1> HIDE DEF c
<1>4. /\ file \in Seq(Block) /\ sent \in Seq(Block) /\ got \in Seq(Block)
      /\ Len(file) = Len(sent) /\ Len(got) <= Len(file)
  BY DEF IInv, CbcTypeOK, Chain
<1>5. /\ Len(file') = Len(file) + 1 /\ Len(sent') = Len(sent) + 1
      /\ file'[Len(file) + 1] = c /\ sent'[Len(file) + 1] = b
      /\ \A n \in 1..Len(file) : file'[n] = file[n] /\ sent'[n] = sent[n]
  BY <1>1, <1>3, <1>4
<1>6. \A n \in 1..(Len(file) + 1) : Before(n)' = Before(n)
  BY <1>3, <1>4, <1>5 DEF Before
<1>7. CbcTypeOK'  BY <1>1, <1>3, <1>4 DEF IInv, CbcTypeOK
<1>8. Chain'
  <2>1. wip' = Before(Len(file) + 1)'
    <3>1. Len(file') + 1 # 1 /\ (Len(file') + 1) - 1 = Len(file) + 1  BY <1>4, <1>5
    <3> QED  BY <3>1, <1>3, <1>5 DEF Before
  <2>2. rip' = Before(Len(got) + 1)'
    <3>1. rip = IF Len(got) + 1 = 1 THEN iv ELSE file[(Len(got) + 1) - 1]
      BY DEF IInv, Chain, Before
    <3>2. Len(got) + 1 # 1 => (Len(got) + 1) - 1 \in 1..Len(file)  BY <1>4
    <3> QED  BY <3>1, <3>2, <1>3, <1>5 DEF Before
  <2>3. \A n \in 1..Len(file') : file'[n] = encrypt(wkey', XorBlock(sent'[n], Before(n)'))
    <3>1. TAKE n \in 1..Len(file')
    <3>2. CASE n = Len(file) + 1
      BY <3>2, <1>2, <1>3, <1>4, <1>5, <1>6 DEF IInv, Chain
    <3>3. CASE n # Len(file) + 1
      <4>1. n \in 1..Len(file)  BY <3>1, <3>3, <1>4, <1>5
      <4> QED  BY <4>1, <1>3, <1>4, <1>5, <1>6 DEF IInv, Chain
    <3> QED  BY <3>2, <3>3
  <2> QED  BY <2>1, <2>2, <2>3, <1>3, <1>4, <1>5 DEF Chain
<1>9. ReadsBack'
  BY <1>3, <1>4, <1>5 DEF IInv, ReadsBack
<1> QED  BY <1>7, <1>8, <1>9 DEF IInv

\* With the key of the writer a block is read as it was written (readCBC).
LEMMA ReadBlockChain ==
  ASSUME IInv, ReadBlock
  PROVE  IInv'
<1> DEFINE m == Len(got) + 1
           d == XorBlock(decrypt(rkey, file[m]), rip)
<1>1. /\ file \in Seq(Block) /\ sent \in Seq(Block) /\ got \in Seq(Block)
      /\ Len(file) = Len(sent) /\ Len(got) < Len(file)
      /\ rip \in Block /\ rkey \in Key /\ wkey \in Key
  BY DEF IInv, CbcTypeOK, Chain, ReadBlock
<1>2. m \in 1..Len(file) /\ file[m] \in Block /\ sent[m] \in Block  BY <1>1
<1>3. rkey = wkey => d = sent[m]
  <2> HAVE rkey = wkey
  <2>1. file[m] = encrypt(wkey, XorBlock(sent[m], rip))
    BY <1>1, <1>2 DEF IInv, Chain
  <2>2. XorBlock(sent[m], rip) \in Block  BY <1>1, <1>2, XorBlockUndone
  <2>3. decrypt(rkey, file[m]) = XorBlock(sent[m], rip)
    BY <1>1, <2>1, <2>2, DecryptUndoes
  <2> QED  BY <1>1, <1>2, <2>3, XorBlockUndone
<1>4. d \in Block  BY <1>1, <1>2, DecryptType, XorBlockUndone
<1>5. /\ got' = Append(got, d) /\ rip' = file[m]
      /\ file' = file /\ iv' = iv /\ wkey' = wkey /\ wip' = wip /\ rkey' = rkey /\ sent' = sent
  BY DEF ReadBlock
<1> HIDE DEF d
<1>6. /\ Len(got') = m /\ got'[m] = d
      /\ \A n \in 1..Len(got) : got'[n] = got[n]
  BY <1>1, <1>4, <1>5
<1>7. CbcTypeOK'  BY <1>1, <1>2, <1>4, <1>5 DEF IInv, CbcTypeOK
<1>8. Chain'
  <2>1. rip' = Before(Len(got) + 1)'
    <3>1. Len(got') + 1 # 1 /\ (Len(got') + 1) - 1 = m  BY <1>1, <1>6
    <3> QED  BY <3>1, <1>5 DEF Before
  <2>2. Len(got') <= Len(file')  BY <1>1, <1>5, <1>6
  <2>3. wip' = Before(Len(file) + 1)'  BY <1>5 DEF IInv, Chain, Before
  <2>4. \A n \in 1..Len(file') : file'[n] = encrypt(wkey', XorBlock(sent'[n], Before(n)'))
    BY <1>5 DEF IInv, Chain, Before
  <2> QED  BY <2>1, <2>2, <2>3, <2>4, <1>1, <1>5 DEF Chain
<1>9. ReadsBack'
  <2>1. SUFFICES ASSUME rkey' = wkey'
                 PROVE  /\ Len(got') <= Len(sent')
                        /\ \A n \in 1..Len(got') : got'[n] = sent'[n]
    BY DEF ReadsBack
  <2>2. rkey = wkey  BY <2>1, <1>5
  <2>3. \A n \in 1..Len(got) : got[n] = sent[n]  BY <2>2 DEF IInv, ReadsBack
  <2>4. \A n \in 1..Len(got') : got'[n] = sent'[n]
    <3>1. TAKE n \in 1..Len(got')
    <3>2. n = m \/ n \in 1..Len(got)  BY <3>1, <1>1, <1>6
    <3> QED  BY <3>2, <2>2, <2>3, <1>3, <1>5, <1>6
  <2> QED  BY <2>4, <1>1, <1>5, <1>6
<1> QED  BY <1>7, <1>8, <1>9 DEF IInv

\* However records are cut into blocks and whoever reads and writes, a reader
\* with the writer's key gets the blocks as they were given to the writer.
THEOREM CbcReadsBack == CbcSpec => []ReadsBack
<1>1. (\E k \in Key, ip \in Block : CbcInit(k, ip)) => IInv  BY InitChain
<1>2. IInv /\ [CbcNext]_cbcVars => IInv'
  <2> SUFFICES ASSUME IInv, [CbcNext]_cbcVars PROVE IInv'  OBVIOUS
  <2>1. ASSUME NEW k \in Key, NEW ip \in Block, StartWrite(k, ip) PROVE IInv'
    BY <2>1, StartWriteChain
  <2>2. ASSUME NEW b \in Block, WriteBlock(b) PROVE IInv'  BY <2>2, WriteBlockChain
  <2>3. ASSUME NEW k \in Key, StartRead(k) PROVE IInv'  BY <2>3, StartReadChain
  <2>4. CASE ReadBlock  BY <2>4, ReadBlockChain
  <2>5. CASE UNCHANGED cbcVars
    BY <2>5 DEF cbcVars, IInv, CbcTypeOK, Chain, Before, ReadsBack
  <2> QED  BY <2>1, <2>2, <2>3, <2>4, <2>5 DEF CbcNext
<1>3. IInv => ReadsBack  BY DEF IInv
<1> QED  BY <1>1, <1>2, <1>3, PTL DEF CbcSpec

-----------------------------------------------------------------------------
(* Messages in blocks: sequences, their parts, and how they are cut.       *)

\* A function on 1..n is a sequence of length n.
LEMMA FunctionIsSeq ==
  ASSUME NEW n \in Nat, NEW S, NEW s \in [1..n -> S]
  PROVE  s \in Seq(S) /\ Len(s) = n
  BY SeqDef, LenProperties

\* Whole numbers of blocks, in bytes.
LEMMA Times ==
  ASSUME NEW p \in Nat, NEW q \in Nat
  PROVE  /\ HashBlock * p \in Nat
         /\ HashBlock * (p + q) = (HashBlock * p) + (HashBlock * q)
         /\ p <= q => HashBlock * p <= HashBlock * q
         /\ p < q => (HashBlock * p) + HashBlock <= HashBlock * q
  BY HashAssumption

\* Whole blocks and a rest, from the number of bytes.
LEMMA WholeAndRest ==
  ASSUME NEW q \in Nat, NEW r \in Nat, r < HashBlock
  PROVE  ((HashBlock * q) + r) \div HashBlock = q /\ ((HashBlock * q) + r) % HashBlock = r
  BY HashAssumption

\* The number of bytes, from whole blocks and a rest.
LEMMA Divided ==
  ASSUME NEW n \in Nat
  PROVE  /\ n \div HashBlock \in Nat /\ n % HashBlock \in Nat /\ n % HashBlock < HashBlock
         /\ n = (HashBlock * (n \div HashBlock)) + (n % HashBlock)
  BY HashAssumption

\* c is a, and b after it.
Joins(a, b, c) ==
  /\ Len(c) = Len(a) + Len(b)
  /\ \A i \in 1..Len(a) : c[i] = a[i]
  /\ \A i \in 1..Len(b) : c[Len(a) + i] = b[i]

\* What \o makes of two sequences, element by element.
LEMMA Joined ==
  ASSUME NEW S, NEW a \in Seq(S), NEW b \in Seq(S)
  PROVE  a \o b \in Seq(S) /\ Joins(a, b, a \o b)
<1>1. Len(a) \in Nat /\ Len(b) \in Nat  BY LenProperties
<1>2. ASSUME NEW i \in 1..Len(b)
      PROVE  (a \o b)[Len(a) + i] = b[i]
  <2>1. Len(a) + i \in 1..(Len(a) + Len(b)) /\ ~ (Len(a) + i <= Len(a)) /\ Len(a) + i - Len(a) = i
    BY <1>1
  <2> QED  BY <2>1, ConcatProperties
<1>3. \A i \in 1..Len(a) : i \in 1..(Len(a) + Len(b)) /\ i <= Len(a)  BY <1>1
<1> QED  BY <1>2, <1>3, ConcatProperties DEF Joins

\* The n elements of s that follow the first m.
Part(s, m, n) == SubSeq(s, m + 1, m + n)

\* What SubSeq makes of a sequence, element by element.
LEMMA PartIs ==
  ASSUME NEW S, NEW s \in Seq(S), NEW m \in Nat, NEW n \in Nat, m + n <= Len(s)
  PROVE  /\ Part(s, m, n) \in Seq(S) /\ Len(Part(s, m, n)) = n
         /\ \A i \in 1..n : Part(s, m, n)[i] = s[m + i]
<1>1. PICK lo \in Nat, hi \in Nat : lo = m + 1 /\ hi = m + n  OBVIOUS
<1>2. \A i \in lo..hi : s[i] \in S  BY <1>1, LenProperties
<1>3. (IF lo <= hi THEN (hi - lo) + 1 ELSE 0) = n /\ (hi - lo) + 1 = n  BY <1>1
<1>4. SubSeq(s, lo, hi) \in Seq(S) /\ Len(SubSeq(s, lo, hi)) = n
      /\ \A i \in 1..n : SubSeq(s, lo, hi)[i] = s[lo + i - 1]
  BY <1>2, <1>3, SubSeqProperties
<1>5. \A i \in 1..n : lo + i - 1 = m + i  BY <1>1
<1>6. Part(s, m, n) = SubSeq(s, lo, hi)  BY <1>1 DEF Part
<1> QED  BY <1>4, <1>5, <1>6

\* The n-th block of a message, and all the whole blocks of it.
Chunk(m, n) == SubSeq(m, HashBlock * (n - 1) + 1, HashBlock * n)

Chunks(m) == [n \in 1..(Len(m) \div HashBlock) |-> Chunk(m, n)]

\* A block of a message, byte by byte.
LEMMA ChunkIs ==
  ASSUME NEW S, NEW m \in Seq(S), NEW n \in 1..(Len(m) \div HashBlock)
  PROVE  /\ Chunk(m, n) \in Seq(S) /\ Len(Chunk(m, n)) = HashBlock
         /\ \A j \in 1..HashBlock : Chunk(m, n)[j] = m[(HashBlock * (n - 1)) + j]
<1>1. PICK len \in Nat : len = Len(m)  BY LenProperties
<1>2. PICK q \in Nat : q = len \div HashBlock  BY <1>1, Divided
<1>3. PICK k \in Nat : k = n - 1 /\ n = k + 1 /\ k < q  BY <1>1, <1>2
<1>4. PICK at \in Nat : at = HashBlock * k  BY Times
<1>5. at + HashBlock <= HashBlock * q  BY <1>3, <1>4, Times
<1>6. HashBlock * q <= len
  <2>1. HashBlock * q \in Nat  BY Times
  <2> QED  BY <1>2, <2>1, Divided
<1>7. at + HashBlock <= Len(m)
  <2>1. HashBlock * q \in Nat /\ HashBlock \in Nat  BY Times, HashAssumption
  <2> QED  BY <1>1, <1>5, <1>6, <2>1
<1>8. HashBlock * n = at + HashBlock  BY <1>3, <1>4, HashAssumption
<1>9. Chunk(m, n) = Part(m, at, HashBlock)  BY <1>3, <1>4, <1>8 DEF Chunk, Part
<1>10. HashBlock \in Nat  BY HashAssumption
<1>11. /\ Part(m, at, HashBlock) \in Seq(S) /\ Len(Part(m, at, HashBlock)) = HashBlock
       /\ \A i \in 1..HashBlock : Part(m, at, HashBlock)[i] = m[at + i]
  BY <1>7, <1>10, PartIs
<1> QED  BY <1>3, <1>4, <1>9, <1>11

\* There are as many whole blocks as go into the message.
LEMMA ChunksAre ==
  ASSUME NEW S, NEW m \in Seq(S)
  PROVE  /\ Chunks(m) \in Seq(Seq(S)) /\ Len(Chunks(m)) = Len(m) \div HashBlock
         /\ \A n \in 1..(Len(m) \div HashBlock) : Chunks(m)[n] = Chunk(m, n)
<1>1. PICK q \in Nat : q = Len(m) \div HashBlock  BY LenProperties, Divided
<1>2. Chunks(m) \in [1..q -> Seq(S)]  BY <1>1, ChunkIs DEF Chunks
<1> QED  BY <1>1, <1>2, FunctionIsSeq DEF Chunks

\* What is left behind the whole blocks, byte by byte.
LEMMA RestIs ==
  ASSUME NEW S, NEW m \in Seq(S)
  PROVE  /\ Rest(m) \in Seq(S) /\ Len(Rest(m)) = Len(m) % HashBlock
         /\ Whole(m) \in Nat /\ Len(m) = Whole(m) + Len(Rest(m))
         /\ \A j \in 1..Len(Rest(m)) : Rest(m)[j] = m[Whole(m) + j]
<1>1. PICK len \in Nat : len = Len(m)  BY LenProperties
<1>2. PICK w \in Nat : w = Whole(m) /\ w = HashBlock * (len \div HashBlock)
  BY <1>1, Divided, Times DEF Whole
<1>3. PICK r \in Nat : r = len % HashBlock  BY Divided
<1>4. len = w + r  BY <1>2, <1>3, Divided
<1>5. Rest(m) = Part(m, w, r)  BY <1>1, <1>2, <1>4 DEF Rest, Part
<1>6. /\ Part(m, w, r) \in Seq(S) /\ Len(Part(m, w, r)) = r
      /\ \A i \in 1..r : Part(m, w, r)[i] = m[w + i]
  <2>1. w + r <= Len(m)  BY <1>1, <1>4
  <2> QED  BY <2>1, PartIs
<1> QED  BY <1>1, <1>2, <1>3, <1>4, <1>5, <1>6

\* Behind whole blocks a message is cut as it would be by itself.
LEMMA ChunksJoin ==
  ASSUME NEW S, NEW a \in Seq(S), NEW b \in Seq(S), NEW q \in Nat, Len(a) = HashBlock * q
  PROVE  Chunks(a \o b) = Chunks(a) \o Chunks(b) /\ Rest(a \o b) = Rest(b)
<1>1. PICK c \in Seq(S) : c = a \o b  BY Joined
<1>20. Joins(a, b, a \o b)  BY Joined
<1>21. Joins(a, b, c)  BY <1>1, <1>20
<1>2. PICK la \in Nat, lb \in Nat : la = Len(a) /\ lb = Len(b)  BY LenProperties
<1>3. la = HashBlock * q /\ la \div HashBlock = q
  <2>1. (HashBlock * q) + 0 = HashBlock * q  BY Times
  <2> QED  BY <1>2, <2>1, WholeAndRest, HashAssumption
<1>4. /\ Len(c) = la + lb /\ \A i \in 1..la : c[i] = a[i]
      /\ \A i \in 1..lb : c[la + i] = b[i]
  BY <1>2, <1>21 DEF Joins
<1>5. PICK p \in Nat, r \in Nat : p = lb \div HashBlock /\ r = lb % HashBlock
  BY Divided
<1>6. r < HashBlock /\ lb = (HashBlock * p) + r  BY <1>5, Divided
<1>7. (la + lb) \div HashBlock = q + p /\ (la + lb) % HashBlock = r
  <2>1. HashBlock * (q + p) = la + (HashBlock * p)  BY <1>3, Times
  <2>2. HashBlock * p \in Nat  BY Times
  <2>3. la + lb = (HashBlock * (q + p)) + r  BY <2>1, <2>2, <1>6
  <2> QED  BY <2>3, <1>6, WholeAndRest
<1>8. /\ Chunks(c) \in Seq(Seq(S)) /\ Len(Chunks(c)) = q + p
      /\ \A n \in 1..(q + p) : Chunks(c)[n] = Chunk(c, n)
  BY <1>4, <1>7, ChunksAre
<1>9. /\ Chunks(a) \in Seq(Seq(S)) /\ Len(Chunks(a)) = q
      /\ \A n \in 1..q : Chunks(a)[n] = Chunk(a, n)
  BY <1>2, <1>3, ChunksAre
<1>10. /\ Chunks(b) \in Seq(Seq(S)) /\ Len(Chunks(b)) = p
       /\ \A n \in 1..p : Chunks(b)[n] = Chunk(b, n)
  BY <1>2, <1>5, ChunksAre
<1>11. ASSUME NEW n \in 1..q PROVE Chunk(c, n) = Chunk(a, n)
  <2>1. n \in 1..(q + p)  OBVIOUS
  <2>2. /\ Chunk(c, n) \in Seq(S) /\ Len(Chunk(c, n)) = HashBlock
        /\ \A j \in 1..HashBlock : Chunk(c, n)[j] = c[(HashBlock * (n - 1)) + j]
    <3>1. n \in 1..(Len(c) \div HashBlock)  BY <2>1, <1>4, <1>7
    <3> QED  BY <3>1, ChunkIs
  <2>3. /\ Chunk(a, n) \in Seq(S) /\ Len(Chunk(a, n)) = HashBlock
        /\ \A j \in 1..HashBlock : Chunk(a, n)[j] = a[(HashBlock * (n - 1)) + j]
    BY <1>2, <1>3, ChunkIs
  <2>4. ASSUME NEW j \in 1..HashBlock PROVE (HashBlock * (n - 1)) + j \in 1..la
    <3>1. PICK k \in Nat : k = n - 1 /\ k < q  OBVIOUS
    <3>2. (HashBlock * k) + HashBlock <= la /\ HashBlock * k \in Nat  BY <3>1, <1>3, Times
    <3> QED  BY <3>1, <3>2, HashAssumption
  <2>5. \A j \in 1..HashBlock : Chunk(c, n)[j] = Chunk(a, n)[j]  BY <2>2, <2>3, <2>4, <1>4
  <2> QED  BY <2>2, <2>3, <2>5, SeqEqual
<1>12. ASSUME NEW k \in 1..p PROVE Chunk(c, q + k) = Chunk(b, k)
  <2>1. q + k \in 1..(q + p)  OBVIOUS
  <2>2. /\ Chunk(c, q + k) \in Seq(S) /\ Len(Chunk(c, q + k)) = HashBlock
        /\ \A j \in 1..HashBlock : Chunk(c, q + k)[j] = c[(HashBlock * ((q + k) - 1)) + j]
    <3>1. q + k \in 1..(Len(c) \div HashBlock)  BY <2>1, <1>4, <1>7
    <3> QED  BY <3>1, ChunkIs
  <2>3. /\ Chunk(b, k) \in Seq(S) /\ Len(Chunk(b, k)) = HashBlock
        /\ \A j \in 1..HashBlock : Chunk(b, k)[j] = b[(HashBlock * (k - 1)) + j]
    BY <1>2, <1>5, ChunkIs
  <2>4. PICK i \in Nat : i = k - 1 /\ i < p /\ (q + k) - 1 = q + i  OBVIOUS
  <2>5. PICK at \in Nat : at = HashBlock * i  BY Times
  <2>6. HashBlock * (q + i) = la + at  BY <2>5, <1>3, Times
  <2>7. at + HashBlock <= lb
    <3>1. at + HashBlock <= HashBlock * p /\ HashBlock * p \in Nat  BY <2>4, <2>5, Times
    <3> QED  BY <3>1, <1>6, HashAssumption
  <2>8. ASSUME NEW j \in 1..HashBlock PROVE Chunk(c, q + k)[j] = Chunk(b, k)[j]
    <3>1. at + j \in 1..lb /\ (la + at) + j = la + (at + j)  BY <2>7, HashAssumption
    <3>2. Chunk(c, q + k)[j] = c[(la + at) + j] /\ Chunk(b, k)[j] = b[at + j]
      BY <2>2, <2>3, <2>4, <2>5, <2>6
    <3> QED  BY <3>1, <3>2, <1>4
  <2> QED  BY <2>2, <2>3, <2>8, SeqEqual
<1>13. Chunks(c) = Chunks(a) \o Chunks(b)
  <2>1. PICK x \in Seq(Seq(S)) : x = Chunks(a) \o Chunks(b)  BY <1>9, <1>10, Joined
  <2>2. /\ Len(x) = q + p /\ \A n \in 1..q : x[n] = Chunk(a, n)
        /\ \A n \in 1..p : x[q + n] = Chunk(b, n)
    <3>1. Joins(Chunks(a), Chunks(b), x)  BY <2>1, <1>9, <1>10, Joined
    <3> QED  BY <3>1, <1>9, <1>10 DEF Joins
  <2>3. ASSUME NEW n \in 1..(q + p) PROVE Chunks(c)[n] = x[n]
    <3>1. CASE n <= q
      <4>1. n \in 1..q  BY <3>1
      <4> QED  BY <4>1, <2>2, <1>8, <1>11
    <3>2. CASE n > q
      <4>1. PICK k \in 1..p : n = q + k
        <5>1. n - q \in 1..p /\ n = q + (n - q)  BY <3>2
        <5> QED  BY <5>1
      <4> QED  BY <4>1, <2>2, <1>8, <1>12
    <3> QED  BY <3>1, <3>2
  <2> QED  BY <2>1, <2>2, <2>3, <1>8, SeqEqual
<1>14. Rest(c) = Rest(b)
  <2>1. /\ Rest(c) \in Seq(S) /\ Len(Rest(c)) = r
        /\ \A j \in 1..r : Rest(c)[j] = c[Whole(c) + j]
    <3>1. /\ Rest(c) \in Seq(S) /\ Len(Rest(c)) = Len(c) % HashBlock
          /\ \A j \in 1..Len(Rest(c)) : Rest(c)[j] = c[Whole(c) + j]
      BY RestIs
    <3>2. Len(Rest(c)) = r  BY <3>1, <1>4, <1>7
    <3> QED  BY <3>1, <3>2
  <2>2. /\ Rest(b) \in Seq(S) /\ Len(Rest(b)) = r
        /\ \A j \in 1..r : Rest(b)[j] = b[Whole(b) + j]
    BY <1>2, <1>5, RestIs
  <2>3. PICK wb \in Nat : wb = HashBlock * p /\ wb = Whole(b)  BY <1>2, <1>5, Times DEF Whole
  <2>4. Whole(c) = la + wb
    <3>1. Whole(c) = HashBlock * (q + p)  BY <1>4, <1>7 DEF Whole
    <3> QED  BY <3>1, <2>3, <1>3, Times
  <2>5. ASSUME NEW j \in 1..r PROVE Rest(c)[j] = Rest(b)[j]
    <3>1. wb + j \in 1..lb /\ (la + wb) + j = la + (wb + j)  BY <2>3, <1>6
    <3>2. Rest(c)[j] = c[(la + wb) + j] /\ Rest(b)[j] = b[wb + j]  BY <2>1, <2>2, <2>3, <2>4
    <3> QED  BY <3>1, <3>2, <1>4
  <2> QED  BY <2>1, <2>2, <2>5, SeqEqual
<1> QED  BY <1>1, <1>13, <1>14

\* A sequence is its first k elements and the others.
LEMMA PartsJoin ==
  ASSUME NEW S, NEW s \in Seq(S), NEW k \in 0..Len(s)
  PROVE  /\ Part(s, 0, k) \in Seq(S) /\ Len(Part(s, 0, k)) = k
         /\ Part(s, k, Len(s) - k) \in Seq(S) /\ Len(Part(s, k, Len(s) - k)) = Len(s) - k
         /\ s = Part(s, 0, k) \o Part(s, k, Len(s) - k)
<1>1. PICK n \in Nat : n = Len(s)  BY LenProperties
<1>2. PICK l \in Nat : l = n - k /\ k \in Nat /\ k + l = n
  <2>1. k \in 0..n  BY <1>1
  <2>2. n - k \in Nat /\ k \in Nat /\ k + (n - k) = n  BY <2>1
  <2> QED  BY <2>2
<1>3. PICK a \in Seq(S) : a = Part(s, 0, k) /\ Len(a) = k /\ \A i \in 1..k : a[i] = s[0 + i]
  <2>1. k \in Nat /\ 0 \in Nat /\ 0 + k <= Len(s)  BY <1>1, <1>2
  <2>2. /\ Part(s, 0, k) \in Seq(S) /\ Len(Part(s, 0, k)) = k
        /\ \A i \in 1..k : Part(s, 0, k)[i] = s[0 + i]
    BY <2>1, PartIs
  <2> QED  BY <2>2
<1>4. PICK b \in Seq(S) : b = Part(s, k, l) /\ Len(b) = l /\ \A i \in 1..l : b[i] = s[k + i]
  <2>1. k \in Nat /\ k + l <= Len(s)  BY <1>1, <1>2
  <2> QED  BY <2>1, PartIs
<1>5. PICK c \in Seq(S) : c = a \o b  BY Joined
<1>6. Joins(a, b, a \o b)  BY Joined
<1>7. Joins(a, b, c)  BY <1>5, <1>6
<1>8. Len(c) = n /\ (\A i \in 1..k : c[i] = s[i]) /\ \A i \in 1..l : c[k + i] = s[k + i]
  <2>1. /\ Len(c) = Len(a) + Len(b)
        /\ \A i \in 1..Len(a) : c[i] = a[i]
        /\ \A i \in 1..Len(b) : c[Len(a) + i] = b[i]
    BY <1>7 DEF Joins
  <2>2. \A i \in 1..k : 0 + i = i  BY <1>2
  <2>3. \A i \in 1..k : a[i] = s[i]  BY <2>2, <1>3
  <2>4. /\ Len(c) = k + l
        /\ \A i \in 1..k : c[i] = a[i]
        /\ \A i \in 1..l : c[k + i] = b[i]
    BY <2>1, <1>3, <1>4
  <2> QED  BY <2>3, <2>4, <1>2, <1>4
<1>9. ASSUME NEW i \in 1..n PROVE c[i] = s[i]
  <2>1. CASE i <= k  BY <2>1, <1>2, <1>8
  <2>2. CASE i > k
    <3>1. PICK j \in 1..l : i = k + j
      <4>1. i - k \in 1..l /\ i = k + (i - k)  BY <2>2, <1>2
      <4> QED  BY <4>1
    <3> QED  BY <3>1, <1>8
  <2> QED  BY <2>1, <2>2, <1>2
<1>10. c = s  BY <1>1, <1>8, <1>9, SeqEqual
<1> QED  BY <1>1, <1>2, <1>3, <1>4, <1>5, <1>10

\* Taken together twice, in whichever order.
Cat(s, t) == s \o t

\* Three sequences are joined in any grouping.
LEMMA CatAssoc ==
  ASSUME NEW S, NEW s \in Seq(S), NEW t \in Seq(S), NEW u \in Seq(S)
  PROVE  Cat(Cat(s, t), u) = Cat(s, Cat(t, u))
  BY DEF Cat

\* A message is whole blocks and its rest.
LEMMA FrontAndRest ==
  ASSUME NEW S, NEW m \in Seq(S)
  PROVE  \E a \in Seq(S) : Len(a) = HashBlock * (Len(m) \div HashBlock) /\ m = a \o Rest(m)
<1>1. PICK len \in Nat : len = Len(m)  BY LenProperties
<1>2. PICK w \in Nat : w = Whole(m) /\ w = HashBlock * (len \div HashBlock)
  BY <1>1, Divided, Times DEF Whole
<1>3. w \in 0..len  BY <1>1, <1>2, Divided
<1>4. Rest(m) = Part(m, w, len - w)  BY <1>1, <1>2, <1>3 DEF Rest, Part
<1>5. w \in 0..Len(m)  BY <1>1, <1>3
<1>6. Part(m, 0, w) \in Seq(S) /\ Len(Part(m, 0, w)) = w
      /\ m = Part(m, 0, w) \o Part(m, w, Len(m) - w)
  BY <1>5, PartsJoin
<1> QED  BY <1>1, <1>2, <1>4, <1>6

\* Less than a block is all rest.
LEMMA ShortHasNoChunk ==
  ASSUME NEW S, NEW m \in Seq(S), Len(m) < HashBlock
  PROVE  Chunks(m) = <<>> /\ Rest(m) = m /\ Len(m) \div HashBlock = 0
<1>1. PICK len \in Nat : len = Len(m) /\ len < HashBlock  BY LenProperties
<1>2. len \div HashBlock = 0 /\ HashBlock * 0 = 0
  <2>1. HashBlock * 0 = 0  BY HashAssumption
  <2>2. (HashBlock * 0) + len = len  BY <2>1
  <2> QED  BY <1>1, <2>1, <2>2, WholeAndRest
<1>3. Chunks(m) = [n \in 1..0 |-> Chunk(m, n)]  BY <1>1, <1>2 DEF Chunks
<1>4. [n \in 1..0 |-> Chunk(m, n)] = <<>>  OBVIOUS
<1>5. Rest(m) = SubSeq(m, 0 + 1, Len(m))  BY <1>1, <1>2 DEF Rest, Whole
<1>6. SubSeq(m, 1, Len(m)) = m  BY SubSeqFull
<1> QED  BY <1>1, <1>2, <1>3, <1>4, <1>5, <1>6

\* A block by itself leaves no rest.
LEMMA OneChunk ==
  ASSUME NEW S, NEW m \in Seq(S), Len(m) = HashBlock
  PROVE  Chunks(m) = <<m>> /\ Rest(m) = <<>>
<1>1. HashBlock \div HashBlock = 1 /\ HashBlock % HashBlock = 0 /\ HashBlock * 1 = HashBlock
  <2>1. HashBlock * 1 = HashBlock /\ (HashBlock * 1) + 0 = HashBlock  BY HashAssumption
  <2> QED  BY <2>1, WholeAndRest, HashAssumption
<1>2. Chunks(m) \in Seq(Seq(S)) /\ Len(Chunks(m)) = 1 /\ Chunks(m)[1] = Chunk(m, 1)
  <2>1. Chunks(m) \in Seq(Seq(S)) /\ Len(Chunks(m)) = Len(m) \div HashBlock
        /\ \A n \in 1..(Len(m) \div HashBlock) : Chunks(m)[n] = Chunk(m, n)
    BY ChunksAre
  <2> QED  BY <2>1, <1>1
<1>3. Chunk(m, 1) = SubSeq(m, 1, Len(m))
  <2>1. (HashBlock * (1 - 1)) + 1 = 1  BY HashAssumption
  <2> QED  BY <2>1, <1>1 DEF Chunk
<1>4. Chunk(m, 1) = m  BY <1>3, SubSeqFull
<1>5. <<m>> \in Seq(Seq(S)) /\ Len(<<m>>) = 1 /\ <<m>>[1] = m  OBVIOUS
<1>6. \A i \in 1..1 : Chunks(m)[i] = <<m>>[i]  BY <1>2, <1>4, <1>5
<1>7. Chunks(m) = <<m>>  BY <1>2, <1>5, <1>6, SeqEqual
<1>8. Rest(m) \in Seq(S) /\ Len(Rest(m)) = 0
  <2>1. Rest(m) \in Seq(S) /\ Len(Rest(m)) = Len(m) % HashBlock  BY RestIs
  <2> QED  BY <2>1, <1>1
<1>9. Rest(m) = <<>>  BY <1>8, EmptySeq
<1> QED  BY <1>7, <1>9

\* Nothing has no blocks and no rest.
LEMMA EmptyMessage == Chunks(<<>>) = <<>> /\ Rest(<<>>) = <<>> /\ Len(<<>>) \div HashBlock = 0
<1>1. <<>> \in Seq({}) /\ Len(<<>>) = 0  BY EmptySeq
<1>2. Len(<<>>) < HashBlock  BY <1>1, HashAssumption
<1> QED  BY <1>1, <1>2, ShortHasNoChunk

\* What is added stays below the end of the block.
LEMMA AddedWithin ==
  ASSUME NEW S, NEW m \in Seq(S), NEW d \in Seq(S), Len(Rest(m)) + Len(d) < HashBlock
  PROVE  /\ Chunks(m \o d) = Chunks(m) /\ Rest(m \o d) = Rest(m) \o d
         /\ Len(m \o d) \div HashBlock = Len(m) \div HashBlock
<1>1. PICK q \in Nat : q = Len(m) \div HashBlock  BY LenProperties, Divided
<1>2. PICK a \in Seq(S) : Len(a) = HashBlock * q /\ m = a \o Rest(m)  BY <1>1, FrontAndRest
<1>3. PICK r \in Seq(S) : r = Rest(m)  BY RestIs
<1>4. PICK x \in Seq(S) : x = r \o d  BY Joined
<1>5. Len(x) < HashBlock
  <2>1. Joins(r, d, x)  BY <1>4, Joined
  <2> QED  BY <2>1, <1>3 DEF Joins
<1>6. m \o d = a \o x
  <2>1. (a \o r) \o d = a \o (r \o d)
    <3>1. Cat(Cat(a, r), d) = Cat(a, Cat(r, d))  BY CatAssoc
    <3> QED  BY <3>1 DEF Cat
  <2> QED  BY <2>1, <1>2, <1>3, <1>4
<1>7. Chunks(m \o d) = Chunks(a) \o Chunks(x) /\ Rest(m \o d) = Rest(x)
  BY <1>2, <1>6, ChunksJoin
<1>8. Chunks(x) = <<>> /\ Rest(x) = x  BY <1>5, ShortHasNoChunk
<1>9. Len(r) < HashBlock
  <2>1. Len(r) = Len(m) % HashBlock /\ Len(m) \in Nat  BY <1>3, RestIs, LenProperties
  <2> QED  BY <2>1, Divided
<1>10. Chunks(m) = Chunks(a) \o Chunks(r)  BY <1>2, <1>3, ChunksJoin
<1>11. Chunks(r) = <<>>  BY <1>9, ShortHasNoChunk
<1>12. Chunks(m \o d) = Chunks(m)  BY <1>7, <1>8, <1>10, <1>11
<1>13. Chunks(m) \in Seq(Seq(S)) /\ Len(Chunks(m)) = Len(m) \div HashBlock  BY ChunksAre
<1>14. m \o d \in Seq(S)  BY Joined
<1>15. Len(Chunks(m \o d)) = Len(m \o d) \div HashBlock  BY <1>14, ChunksAre
<1> QED  BY <1>3, <1>4, <1>7, <1>8, <1>12, <1>13, <1>15

\* What is added fills the block, and perhaps some more.
AddsOver(m, b, d) ==
  /\ Chunks(m \o (b \o d)) = (Chunks(m) \o <<Rest(m) \o b>>) \o Chunks(d)
  /\ Rest(m \o (b \o d)) = Rest(d)
  /\ Len(m \o (b \o d)) \div HashBlock
       = (Len(m) \div HashBlock) + 1 + (Len(d) \div HashBlock)

\* What is added fills the block that was begun.
LEMMA AddedOver ==
  ASSUME NEW S, NEW m \in Seq(S), NEW b \in Seq(S), NEW d \in Seq(S),
         Len(Rest(m)) + Len(b) = HashBlock
  PROVE  AddsOver(m, b, d)
<1>1. PICK q \in Nat : q = Len(m) \div HashBlock  BY LenProperties, Divided
<1>2. PICK a \in Seq(S) : Len(a) = HashBlock * q /\ m = a \o Rest(m)  BY <1>1, FrontAndRest
<1>3. PICK r \in Seq(S) : r = Rest(m)  BY RestIs
<1>4. PICK x \in Seq(S) : x = r \o b  BY Joined
<1>5. Len(x) = HashBlock
  <2>1. Joins(r, b, x)  BY <1>4, Joined
  <2> QED  BY <2>1, <1>3 DEF Joins
<1>6. PICK y \in Seq(S) : y = x \o d  BY Joined
<1>7. m \o (b \o d) = a \o y
  <2>1. PICK bd \in Seq(S) : bd = b \o d  BY Joined
  <2>2. (a \o r) \o bd = a \o (r \o bd)
    <3>1. Cat(Cat(a, r), bd) = Cat(a, Cat(r, bd))  BY CatAssoc
    <3> QED  BY <3>1 DEF Cat
  <2>4. (r \o b) \o d = r \o (b \o d)
    <3>1. Cat(Cat(r, b), d) = Cat(r, Cat(b, d))  BY CatAssoc
    <3> QED  BY <3>1 DEF Cat
  <2>3. r \o bd = y  BY <2>1, <2>4, <1>4, <1>6
  <2> QED  BY <2>1, <2>2, <2>3, <1>2, <1>3
<1>8. Chunks(m \o (b \o d)) = Chunks(a) \o Chunks(y) /\ Rest(m \o (b \o d)) = Rest(y)
  BY SMTT(30), <1>2, <1>7, ChunksJoin
<1>9. Chunks(y) = Chunks(x) \o Chunks(d) /\ Rest(y) = Rest(d)
  <2>1. Len(x) = HashBlock * 1 /\ 1 \in Nat  BY <1>5, HashAssumption
  <2> QED  BY <2>1, <1>6, ChunksJoin
<1>10. Chunks(x) = <<x>>  BY <1>5, OneChunk
<1>11. Len(r) < HashBlock
  <2>1. Len(r) = Len(m) % HashBlock /\ Len(m) \in Nat  BY <1>3, RestIs, LenProperties
  <2> QED  BY <2>1, Divided
<1>12. Chunks(m) = Chunks(a) \o Chunks(r)  BY ZenonT(40), <1>2, <1>3, ChunksJoin
<1>13. Chunks(r) = <<>>  BY <1>11, ShortHasNoChunk
<1>14. PICK ca \in Seq(Seq(S)), cx \in Seq(Seq(S)), cd \in Seq(Seq(S)) :
         ca = Chunks(a) /\ cx = <<x>> /\ cd = Chunks(d)
  <2>1. <<x>> \in Seq(Seq(S))  OBVIOUS
  <2> QED  BY <2>1, ChunksAre
<1>15. Chunks(m) = ca  BY <1>12, <1>13, <1>14, ConcatEmptySeq
<1>16. Chunks(m \o (b \o d)) = ca \o (cx \o cd)  BY <1>8, <1>9, <1>10, <1>14
<1>17. Chunks(m \o (b \o d)) = (ca \o cx) \o cd
  <2>1. (ca \o cx) \o cd = ca \o (cx \o cd)
    <3>1. Cat(Cat(ca, cx), cd) = Cat(ca, Cat(cx, cd))  BY CatAssoc
    <3> QED  BY <3>1 DEF Cat
  <2> QED  BY <2>1, <1>16
<1>18. Len(Chunks(m \o (b \o d))) = (Len(ca) + Len(cx)) + Len(cd)
  <2>1. PICK z \in Seq(Seq(S)) : z = ca \o cx  BY Joined
  <2>2. Joins(ca, cx, z)  BY <2>1, Joined
  <2>3. Joins(z, cd, z \o cd)  BY Joined
  <2> QED  BY <2>1, <2>2, <2>3, <1>17 DEF Joins
<1>19. Len(ca) = Len(m) \div HashBlock /\ Len(cd) = Len(d) \div HashBlock
  BY <1>14, <1>15, ChunksAre
<1>20. Len(cx) = 1  BY <1>14
<1>21. m \o (b \o d) \in Seq(S)
  <2>1. b \o d \in Seq(S)  BY Joined
  <2> QED  BY <2>1, Joined
<1>22. Len(Chunks(m \o (b \o d))) = Len(m \o (b \o d)) \div HashBlock  BY <1>21, ChunksAre
<1> QED  BY <1>3, <1>4, <1>8, <1>9, <1>14, <1>15, <1>17, <1>18, <1>19, <1>20, <1>22 DEF AddsOver

-----------------------------------------------------------------------------
(* The two implementations of SHA-1 and what their contexts have taken.    *)

\* d is cut behind its i-th element.
Parted(d, i, x, y) ==
  /\ x = SubSeq(d, 1, i) /\ y = SubSeq(d, i + 1, Len(d))
  /\ Len(x) = i /\ Len(y) = Len(d) - i /\ d = x \o y

\* Every sequence can be cut behind each of its elements.
LEMMA CutInTwo ==
  ASSUME NEW S, NEW d \in Seq(S), NEW i \in 0..Len(d)
  PROVE  \E x \in Seq(S), y \in Seq(S) : Parted(d, i, x, y)
<1>1. PICK n \in Nat : n = Len(d)  BY LenProperties
<1>2. PICK k \in Nat, l \in Nat : k = i /\ l = n - k /\ k + l = n
  <2>1. i \in Nat /\ n - i \in Nat /\ i + (n - i) = n  BY <1>1
  <2> QED  BY <2>1
<1>3. /\ Part(d, 0, k) \in Seq(S) /\ Len(Part(d, 0, k)) = k
      /\ Part(d, k, l) \in Seq(S) /\ Len(Part(d, k, l)) = l
      /\ d = Part(d, 0, k) \o Part(d, k, l)
  <2>1. k \in 0..Len(d)  BY <1>1, <1>2
  <2>2. /\ Part(d, 0, k) \in Seq(S) /\ Len(Part(d, 0, k)) = k
        /\ Part(d, k, Len(d) - k) \in Seq(S) /\ Len(Part(d, k, Len(d) - k)) = Len(d) - k
        /\ d = Part(d, 0, k) \o Part(d, k, Len(d) - k)
    BY <2>1, PartsJoin
  <2>3. Len(d) - k = l  BY <1>1, <1>2
  <2> QED  BY <2>2, <2>3
<1>4. Part(d, 0, k) = SubSeq(d, 1, k)
  <2>1. 0 + 1 = 1 /\ 0 + k = k  OBVIOUS
  <2> QED  BY <2>1 DEF Part
<1>5. Part(d, k, l) = SubSeq(d, k + 1, n)  BY <1>2 DEF Part
<1> QED  BY <1>1, <1>2, <1>3, <1>4, <1>5 DEF Parted

\* The two contexts when they have taken m.
State(from, m) == [from |-> from, blocks |-> Chunks(m)]
Taken(from, m) == [h |-> State(from, m), buf |-> Rest(m), count |-> Len(m)]
Written(m) == [h |-> State("constants", m), buf |-> Rest(m), nblocks |-> Len(m) \div HashBlock]

\* A state that takes the whole blocks of d (SHA1Transform, sha1_block).
LEMMA AbsorbIs ==
  ASSUME NEW h, NEW d
  PROVE  Absorb(h, d) = [from |-> h.from, blocks |-> h.blocks \o Chunks(d)]
  BY DEF Absorb, Compress, Chunks, Chunk

\* What is left is less than a block.
LEMMA RestShort ==
  ASSUME NEW S, NEW m \in Seq(S)
  PROVE  Rest(m) \in Seq(S) /\ Len(Rest(m)) \in Nat /\ Len(Rest(m)) < HashBlock
<1>1. Rest(m) \in Seq(S) /\ Len(Rest(m)) = Len(m) % HashBlock /\ Len(m) \in Nat
  BY RestIs, LenProperties
<1> QED  BY <1>1, Divided

\* The length of two sequences joined.
LEMMA LenOfBoth ==
  ASSUME NEW S, NEW a \in Seq(S), NEW b \in Seq(S)
  PROVE  a \o b \in Seq(S) /\ Len(a \o b) = Len(a) + Len(b)
  BY Joined DEF Joins

\* c is a and b, one word for both facts.
Both(a, b, c) == c = a \o b /\ Len(c) = Len(a) + Len(b)

\* Any two sequences can be joined.
LEMMA BothOf ==
  ASSUME NEW S, NEW a \in Seq(S), NEW b \in Seq(S)
  PROVE  \E c \in Seq(S) : Both(a, b, c)
  BY LenOfBoth DEF Both

\* SHA1Update, of a context that has taken m: it has taken d as well, however
\* much of either there is.
LEMMA UpdateTaken ==
  ASSUME NEW S, NEW from, NEW m \in Seq(S), NEW d \in Seq(S)
  PROVE  SHA1Update(Taken(from, m), d) = Taken(from, m \o d)
<1>1. PICK r \in Seq(S) : r = Rest(m) /\ Len(r) \in Nat /\ Len(r) < HashBlock  BY RestShort
<1>2. PICK i \in Nat : i = HashBlock - Len(r) /\ Len(r) + i = HashBlock
  <2>1. HashBlock - Len(r) \in Nat /\ Len(r) + (HashBlock - Len(r)) = HashBlock
    BY <1>1, HashAssumption
  <2> QED  BY <2>1
<1>3. Len(m \o d) = Len(m) + Len(d)  BY LenOfBoth
<1>4. Len(d) \in Nat  BY LenProperties
<1> DEFINE ctx == Taken(from, m)
<1>5. ctx.h = State(from, m) /\ ctx.buf = r /\ ctx.count = Len(m)  BY <1>1 DEF Taken
<1> HIDE DEF ctx
<1>6. CASE Len(d) >= i
  <2>1. i \in 0..Len(d)  BY <1>4, <1>6
  <2>20. PICK x \in Seq(S), y \in Seq(S) : Parted(d, i, x, y)  BY <2>1, CutInTwo
  <2>2. /\ x = SubSeq(d, 1, i) /\ y = SubSeq(d, i + 1, Len(d))
        /\ Len(x) = i /\ Len(y) = Len(d) - i /\ d = x \o y
    BY <2>20 DEF Parted
  <2>3. Len(Rest(m)) + Len(x) = HashBlock  BY <1>1, <1>2, <2>2
  <2>4. /\ Chunks(m \o (x \o y)) = (Chunks(m) \o <<Rest(m) \o x>>) \o Chunks(y)
        /\ Rest(m \o (x \o y)) = Rest(y)
        /\ Len(m \o (x \o y)) \div HashBlock
             = (Len(m) \div HashBlock) + 1 + (Len(y) \div HashBlock)
    <3>1. AddsOver(m, x, y)  BY <2>3, AddedOver
    <3> QED  BY <3>1 DEF AddsOver
  <2>5. SHA1Update(ctx, d)
          = [h |-> Absorb(Compress(State(from, m), <<r \o x>>), y), buf |-> Rest(y),
             count |-> Len(m) + Len(d)]
    BY <1>2, <1>5, <1>6, <2>2 DEF SHA1Update
  <2>6. Absorb(Compress(State(from, m), <<r \o x>>), y)
          = [from |-> from, blocks |-> (Chunks(m) \o <<r \o x>>) \o Chunks(y)]
    BY AbsorbIs DEF Compress, State
  <2>7. SHA1Update(ctx, d)
          = [h |-> State(from, m \o d), buf |-> Rest(m \o d), count |-> Len(m \o d)]
    BY <2>2, <2>4, <2>5, <2>6, <1>1, <1>3 DEF State
  <2> QED  BY <2>7 DEF Taken, ctx
<1>7. CASE ~(Len(d) >= i)
  <2>1. Len(Rest(m)) + Len(d) < HashBlock  BY <1>1, <1>2, <1>4, <1>7
  <2>2. Chunks(m \o d) = Chunks(m) /\ Rest(m \o d) = Rest(m) \o d  BY <2>1, AddedWithin
  <2>3. SHA1Update(ctx, d) = [h |-> State(from, m), buf |-> r \o d, count |-> Len(m) + Len(d)]
    BY <1>2, <1>5, <1>7 DEF SHA1Update
  <2>4. SHA1Update(ctx, d)
          = [h |-> State(from, m \o d), buf |-> Rest(m \o d), count |-> Len(m \o d)]
    BY <2>2, <2>3, <1>1, <1>3 DEF State
  <2> QED  BY <2>4 DEF Taken, ctx
<1> QED  BY <1>6, <1>7

\* A full buffer goes into the state (the start and the end of sha1_write).
LEMMA FlushedIs ==
  ASSUME NEW h, NEW buf, NEW n
  PROVE  Flushed([h |-> h, buf |-> buf, nblocks |-> n])
           = IF Len(buf) = HashBlock
             THEN [h |-> Compress(h, <<buf>>), buf |-> <<>>, nblocks |-> n + 1]
             ELSE [h |-> h, buf |-> buf, nblocks |-> n]
  BY DEF Flushed

\* What sha1_write does when the first i of the bytes go into the buffer.
Fill(r, d) == IF r = <<>> THEN 0 ELSE IF Len(d) < HashBlock - Len(r) THEN Len(d) ELSE HashBlock - Len(r)

\* The buffer is made full (or not), and `more' is left of the data.
Topped(h, r, n, d, full, more) ==
  /\ Len(r) # HashBlock
  /\ full = Flushed([h |-> h, buf |-> r \o SubSeq(d, 1, Fill(r, d)), nblocks |-> n])
  /\ more = SubSeq(d, Fill(r, d) + 1, Len(d))

\* What is left of the data goes in as whole blocks and a rest.
After(full, more) ==
  [h |-> Absorb(full.h, more), buf |-> full.buf \o Rest(more),
   nblocks |-> full.nblocks + (Len(more) \div HashBlock)]

\* sha1_write in two steps, the buffer and what is left of the data.
LEMMA WriteIs ==
  ASSUME NEW h, NEW r, NEW n, NEW d, NEW full, NEW more, Topped(h, r, n, d, full, more)
  PROVE  sha1_write([h |-> h, buf |-> r, nblocks |-> n], d) = After(full, more)
<1> DEFINE ctx == [h |-> h, buf |-> r, nblocks |-> n]
<1>1. Flushed(ctx) = ctx  BY FlushedIs DEF Topped
<1>2. ctx.h = h /\ ctx.buf = r /\ ctx.nblocks = n  OBVIOUS
<1> HIDE DEF ctx
<1>3. sha1_write(ctx, d) = After(full, more)
  BY <1>1, <1>2 DEF sha1_write, Fill, Topped, After
<1> QED  BY <1>3 DEF ctx

\* What comes after whole blocks does not change how it is cut.
LEMMA AddedToWhole ==
  ASSUME NEW S, NEW m \in Seq(S), NEW d \in Seq(S), Rest(m) = <<>>
  PROVE  /\ Chunks(m \o d) = Chunks(m) \o Chunks(d) /\ Rest(m \o d) = Rest(d)
         /\ Len(m \o d) \div HashBlock = (Len(m) \div HashBlock) + (Len(d) \div HashBlock)
<1>1. PICK q \in Nat : q = Len(m) \div HashBlock  BY LenProperties, Divided
<1>2. PICK a \in Seq(S) : Len(a) = HashBlock * q /\ m = a \o Rest(m)  BY <1>1, FrontAndRest
<1>3. m = a
  <2>1. a \o <<>> = a  BY ConcatEmptySeq
  <2> QED  BY <2>1, <1>2
<1>4. Chunks(m \o d) = Chunks(m) \o Chunks(d) /\ Rest(m \o d) = Rest(d)
  BY <1>2, <1>3, ChunksJoin
<1>5. PICK x \in Seq(Seq(S)), y \in Seq(Seq(S)) : x = Chunks(m) /\ y = Chunks(d)  BY ChunksAre
<1>6. Len(x \o y) = Len(x) + Len(y)  BY LenOfBoth
<1>7. Len(x) = Len(m) \div HashBlock /\ Len(y) = Len(d) \div HashBlock  BY <1>5, ChunksAre
<1>8. m \o d \in Seq(S)  BY LenOfBoth
<1>9. Len(Chunks(m \o d)) = Len(m \o d) \div HashBlock  BY <1>8, ChunksAre
<1> QED  BY <1>4, <1>5, <1>6, <1>7, <1>9

\* sha1_write, of a context that has taken m: it has taken d as well.
LEMMA WriteWritten ==
  ASSUME NEW S, NEW m \in Seq(S), NEW d \in Seq(S)
  PROVE  sha1_write(Written(m), d) = Written(m \o d)
<1>1. PICK r \in Seq(S) : r = Rest(m) /\ Len(r) \in Nat /\ Len(r) < HashBlock  BY RestShort
<1>2. PICK i \in Nat : i = HashBlock - Len(r) /\ Len(r) + i = HashBlock
  <2>1. HashBlock - Len(r) \in Nat /\ Len(r) + (HashBlock - Len(r)) = HashBlock
    BY <1>1, HashAssumption
  <2> QED  BY <2>1
<1>3. Len(d) \in Nat /\ Len(r) # HashBlock  BY <1>1, LenProperties, HashAssumption
<1>4. PICK n : n = Len(m) \div HashBlock /\ n \in Nat  BY LenProperties, Divided
<1>5. Written(m) = [h |-> State("constants", m), buf |-> r, nblocks |-> n]
  BY <1>1, <1>4 DEF Written
<1>6. State("constants", m).from = "constants" /\ State("constants", m).blocks = Chunks(m)
  BY DEF State
<1>7. CASE r = <<>>
  <2>1. SubSeq(d, 1, 0) = <<>> /\ SubSeq(d, 0 + 1, Len(d)) = d  BY SubSeqEmpty, SubSeqFull
  <2>2. r \o <<>> = <<>> /\ Len(<<>>) # HashBlock  BY <1>7, HashAssumption
  <2>3. Flushed([h |-> State("constants", m), buf |-> <<>>, nblocks |-> n])
          = [h |-> State("constants", m), buf |-> <<>>, nblocks |-> n]
    BY <2>2, FlushedIs
  <2>4. sha1_write(Written(m), d)
          = [h |-> Absorb(State("constants", m), d), buf |-> <<>> \o Rest(d),
             nblocks |-> n + (Len(d) \div HashBlock)]
    <3>1. PICK full : full = Flushed([h |-> State("constants", m), buf |-> <<>>, nblocks |-> n])
      OBVIOUS
    <3>2. full.h = State("constants", m) /\ full.buf = <<>> /\ full.nblocks = n  BY <3>1, <2>3
    <3>3. Fill(<<>>, d) = 0  BY DEF Fill
    <3>4. <<>> \o <<>> = <<>>  BY <2>2, <1>7
    <3>5. Topped(State("constants", m), <<>>, n, d, full, d)
      BY <2>1, <2>2, <3>1, <3>3, <3>4 DEF Topped
    <3>6. sha1_write([h |-> State("constants", m), buf |-> <<>>, nblocks |-> n], d) = After(full, d)
      BY <3>5, WriteIs
    <3> QED  BY <3>2, <3>6, <1>5, <1>7 DEF After
  <2>5. <<>> \o Rest(d) = Rest(d)
    <3>1. PICK x \in Seq(S) : x = Rest(d)  BY RestIs
    <3>2. <<>> \o x = x  BY ConcatEmptySeq
    <3> QED  BY <3>1, <3>2
  <2>6. /\ Chunks(m \o d) = Chunks(m) \o Chunks(d) /\ Rest(m \o d) = Rest(d)
        /\ Len(m \o d) \div HashBlock = (Len(m) \div HashBlock) + (Len(d) \div HashBlock)
    BY ZenonT(40), <1>1, <1>7, AddedToWhole
  <2>7. Absorb(State("constants", m), d) = State("constants", m \o d)
    BY <2>6, <1>6, AbsorbIs DEF State
  <2> QED  BY <2>4, <2>5, <2>6, <2>7, <1>4 DEF Written
<1>8. CASE r # <<>> /\ Len(d) < i
  <2>1. SubSeq(d, 1, Len(d)) = d /\ SubSeq(d, Len(d) + 1, Len(d)) = <<>>
    BY <1>3, SubSeqEmpty, SubSeqFull
  <2>2. PICK x \in Seq(S) : x = r \o d /\ Len(x) = Len(r) + Len(d)  BY LenOfBoth
  <2>3. Len(x) # HashBlock  BY <2>2, <1>1, <1>2, <1>3, <1>8
  <2>4. Flushed([h |-> State("constants", m), buf |-> x, nblocks |-> n])
          = [h |-> State("constants", m), buf |-> x, nblocks |-> n]
    BY <2>3, FlushedIs
  <2>5. sha1_write(Written(m), d)
          = [h |-> Absorb(State("constants", m), <<>>), buf |-> x \o Rest(<<>>),
             nblocks |-> n + (Len(<<>>) \div HashBlock)]
    <3>1. PICK full : full = Flushed([h |-> State("constants", m), buf |-> x, nblocks |-> n])
      OBVIOUS
    <3>2. full.h = State("constants", m) /\ full.buf = x /\ full.nblocks = n  BY <3>1, <2>4
    <3>3. Fill(r, d) = Len(d)  BY <1>2, <1>8 DEF Fill
    <3>5. Topped(State("constants", m), r, n, d, full, <<>>)
      BY <2>1, <2>2, <3>1, <3>3, <1>3 DEF Topped
    <3>6. sha1_write([h |-> State("constants", m), buf |-> r, nblocks |-> n], d)
            = After(full, <<>>)
      BY <3>5, WriteIs
    <3> QED  BY <3>2, <3>6, <1>5 DEF After
  <2>6. x \o <<>> = x /\ Chunks(m) \o <<>> = Chunks(m)
    <3>1. PICK c \in Seq(Seq(S)) : c = Chunks(m)  BY ChunksAre
    <3>2. c \o <<>> = c  BY ConcatEmptySeq
    <3>3. x \o <<>> = x  BY ConcatEmptySeq
    <3> QED  BY <3>1, <3>2, <3>3
  <2>7. Len(Rest(m)) + Len(d) < HashBlock  BY <1>1, <1>2, <1>3, <1>8
  <2>8. /\ Chunks(m \o d) = Chunks(m) /\ Rest(m \o d) = Rest(m) \o d
        /\ Len(m \o d) \div HashBlock = Len(m) \div HashBlock
    BY <2>7, AddedWithin
  <2>9. Absorb(State("constants", m), <<>>) = State("constants", m \o d)
    BY <2>6, <2>8, <1>6, AbsorbIs, EmptyMessage DEF State
  <2>10. n + (Len(<<>>) \div HashBlock) = n  BY <1>4, EmptyMessage
  <2>11. x \o Rest(<<>>) = Rest(m \o d)  BY <2>2, <2>6, <2>8, <1>1, EmptyMessage
  <2> QED  BY <2>5, <2>8, <2>9, <2>10, <2>11, <1>4 DEF Written
<1>9. CASE r # <<>> /\ ~(Len(d) < i)
  <2>1. i \in 0..Len(d)  BY <1>3, <1>9
  <2>2. PICK x \in Seq(S), y \in Seq(S) : Parted(d, i, x, y)  BY <2>1, CutInTwo
  <2>3. /\ x = SubSeq(d, 1, i) /\ y = SubSeq(d, i + 1, Len(d))
        /\ Len(x) = i /\ Len(y) = Len(d) - i /\ d = x \o y
    BY <2>2 DEF Parted
  <2>4. PICK z \in Seq(S) : z = r \o x /\ Len(z) = HashBlock
    <3>1. r \o x \in Seq(S) /\ Len(r \o x) = Len(r) + Len(x)  BY LenOfBoth
    <3> QED  BY <3>1, <2>3, <1>2
  <2>5. Flushed([h |-> State("constants", m), buf |-> z, nblocks |-> n])
          = [h |-> Compress(State("constants", m), <<z>>), buf |-> <<>>, nblocks |-> n + 1]
    BY <2>4, FlushedIs
  <2>6. sha1_write(Written(m), d)
          = [h |-> Absorb(Compress(State("constants", m), <<z>>), y), buf |-> <<>> \o Rest(y),
             nblocks |-> (n + 1) + (Len(y) \div HashBlock)]
    <3>1. PICK full : full = Flushed([h |-> State("constants", m), buf |-> z, nblocks |-> n])
      OBVIOUS
    <3>2. full.h = Compress(State("constants", m), <<z>>) /\ full.buf = <<>> /\ full.nblocks = n + 1
      BY <3>1, <2>5
    <3>3. Fill(r, d) = i  BY <1>2, <1>9 DEF Fill
    <3>5. Topped(State("constants", m), r, n, d, full, y)
      BY <2>3, <2>4, <3>1, <3>3, <1>3 DEF Topped
    <3>6. sha1_write([h |-> State("constants", m), buf |-> r, nblocks |-> n], d)
            = After(full, y)
      BY <3>5, WriteIs
    <3> QED  BY <3>2, <3>6, <1>5 DEF After
  <2>7. <<>> \o Rest(y) = Rest(y)
    <3>1. PICK c \in Seq(S) : c = Rest(y)  BY RestIs
    <3>2. <<>> \o c = c  BY ConcatEmptySeq
    <3> QED  BY <3>1, <3>2
  <2>8. Len(Rest(m)) + Len(x) = HashBlock  BY <1>1, <1>2, <2>3
  <2>9. /\ Chunks(m \o (x \o y)) = (Chunks(m) \o <<Rest(m) \o x>>) \o Chunks(y)
        /\ Rest(m \o (x \o y)) = Rest(y)
        /\ Len(m \o (x \o y)) \div HashBlock
             = (Len(m) \div HashBlock) + 1 + (Len(y) \div HashBlock)
    <3>1. AddsOver(m, x, y)  BY <2>8, AddedOver
    <3> QED  BY <3>1 DEF AddsOver
  <2>10. Absorb(Compress(State("constants", m), <<z>>), y)
           = [from |-> "constants", blocks |-> (Chunks(m) \o <<z>>) \o Chunks(y)]
    BY <1>6, AbsorbIs DEF Compress
  <2> QED  BY <2>3, <2>4, <2>6, <2>7, <2>9, <2>10, <1>1, <1>4 DEF Written, State
<1> QED  BY <1>7, <1>8, <1>9

-----------------------------------------------------------------------------
(* Padding: one digest, whichever implementation ends it.                  *)

\* A set that holds whatever padding adds.
Pads(S) == 0 \in S /\ Mark \in S /\ \A n \in Nat : LengthBytes(n) \in [1..8 -> S]

\* How many zeros are put between the mark and the length.
ZerosFor(len) ==
  LET over == (len + 9) % HashBlock
  IN  IF over = 0 THEN 0 ELSE HashBlock - over

\* The padded message, with z zeros in it.
PaddedWith(m, z) == m \o <<Mark>> \o Zeros(z) \o LengthBytes(Len(m))

\* How a message is padded.
LEMMA PaddedIs ==
  ASSUME NEW m
  PROVE  Padded(m) = PaddedWith(m, ZerosFor(Len(m)))
  BY DEF Padded, PaddedWith, ZerosFor

\* Zeros, one by one.
LEMMA ZerosAre ==
  ASSUME NEW S, 0 \in S, NEW n \in Nat
  PROVE  Zeros(n) \in Seq(S) /\ Len(Zeros(n)) = n /\ \A i \in 1..n : Zeros(n)[i] = 0
<1>1. Zeros(n) \in [1..n -> S]  BY DEF Zeros
<1> QED  BY <1>1, FunctionIsSeq DEF Zeros

\* Zeros behind zeros.
LEMMA ZerosJoin ==
  ASSUME NEW a \in Nat, NEW b \in Nat
  PROVE  Zeros(a) \o Zeros(b) = Zeros(a + b)
<1>1. Zeros(a) \in Seq({0}) /\ Len(Zeros(a)) = a /\ \A i \in 1..a : Zeros(a)[i] = 0  BY ZerosAre
<1>2. Zeros(b) \in Seq({0}) /\ Len(Zeros(b)) = b /\ \A i \in 1..b : Zeros(b)[i] = 0  BY ZerosAre
<1>3. PICK c \in Seq({0}) : c = Zeros(a) \o Zeros(b) /\ Len(c) = a + b
  <2>1. PICK x \in Seq({0}), y \in Seq({0}) :
          x = Zeros(a) /\ y = Zeros(b) /\ Len(x) = a /\ Len(y) = b
    BY <1>1, <1>2
  <2>2. x \o y \in Seq({0}) /\ Len(x \o y) = Len(x) + Len(y)  BY LenOfBoth
  <2> QED  BY <2>1, <2>2
<1>4. PICK d \in Seq({0}) : d = Zeros(a + b) /\ Len(d) = a + b
  <2>1. a + b \in Nat  OBVIOUS
  <2> QED  BY <2>1, ZerosAre
<1>5. \A i \in 1..(a + b) : c[i] \in {0} /\ d[i] \in {0}  BY <1>3, <1>4, ElementOfSeq
<1>6. \A i \in 1..(a + b) : c[i] = d[i]  BY <1>5
<1> QED  BY <1>3, <1>4, <1>6, SeqEqual

\* The length takes eight bytes.
LEMMA LengthIs ==
  ASSUME NEW S, Pads(S), NEW n \in Nat
  PROVE  LengthBytes(n) \in Seq(S) /\ Len(LengthBytes(n)) = 8
<1>1. LengthBytes(n) \in [1..8 -> S] /\ 8 \in Nat  BY DEF Pads
<1> QED  BY <1>1, FunctionIsSeq

\* The mark takes one byte.
LEMMA MarkIs ==
  ASSUME NEW S, Pads(S)
  PROVE  <<Mark>> \in Seq(S) /\ Len(<<Mark>>) = 1
  BY DEF Pads

\* How many zeros there are to the end of the block or of the next.
LEMMA ZerosForIs ==
  ASSUME NEW q \in Nat, NEW r \in Nat, r < HashBlock, NEW len, len = (HashBlock * q) + r
  PROVE  /\ ZerosFor(len) \in Nat
         /\ r < HashBlock - 8 => ZerosFor(len) + 9 + r = HashBlock
         /\ ~(r < HashBlock - 8) => ZerosFor(len) + 9 + r = HashBlock + HashBlock
<1>1. HashBlock * q \in Nat /\ HashBlock * (q + 1) = (HashBlock * q) + HashBlock /\ q + 1 \in Nat
  BY HashAssumption
<1>2. HashBlock \in Nat /\ HashBlock > 8  BY HashAssumption
<1>3. CASE r + 9 < HashBlock
  <2>1. len + 9 = (HashBlock * q) + (r + 9) /\ r + 9 \in Nat  BY <1>1
  <2>2. (len + 9) % HashBlock = r + 9  BY <2>1, <1>3, WholeAndRest
  <2> QED  BY <2>2, <1>2, <1>3 DEF ZerosFor
<1>4. CASE r + 9 = HashBlock
  <2>1. len + 9 = (HashBlock * (q + 1)) + 0  BY <1>1, <1>4
  <2>2. (len + 9) % HashBlock = 0  BY <2>1, <1>1, <1>2, WholeAndRest
  <2> QED  BY <2>2, <1>2, <1>4 DEF ZerosFor
<1>5. CASE r + 9 > HashBlock
  <2>1. PICK k \in Nat : k = (r + 9) - HashBlock /\ k < HashBlock /\ k # 0
    <3>1. (r + 9) - HashBlock \in Nat /\ (r + 9) - HashBlock < HashBlock /\ (r + 9) - HashBlock # 0
      BY <1>2, <1>5
    <3> QED  BY <3>1
  <2>2. len + 9 = (HashBlock * (q + 1)) + k  BY <1>1, <1>2, <2>1
  <2>3. (len + 9) % HashBlock = k  BY <2>1, <2>2, <1>1, WholeAndRest
  <2> QED  BY <2>1, <2>3, <1>2, <1>5 DEF ZerosFor
<1> QED  BY <1>2, <1>3, <1>4, <1>5

\* Zeros that SHA1Final adds, from what the mark leaves in the buffer.
LEMMA ZerosAfterMark ==
  ASSUME NEW len \in Nat, NEW after, after = (len + 1) % HashBlock
  PROVE  ZerosFor(len) = IF after <= HashBlock - 8 THEN HashBlock - 8 - after
                         ELSE 2 * HashBlock - 8 - after
<1>1. PICK q \in Nat, r \in Nat : r < HashBlock /\ len = (HashBlock * q) + r
  BY Divided
<1>2. HashBlock \in Nat /\ HashBlock > 8  BY HashAssumption
<1>3. HashBlock * q \in Nat /\ HashBlock * (q + 1) = (HashBlock * q) + HashBlock /\ q + 1 \in Nat
  BY HashAssumption
<1>4. PICK z \in Nat : /\ z = ZerosFor(len)
                       /\ r < HashBlock - 8 => z + 9 + r = HashBlock
                       /\ ~(r < HashBlock - 8) => z + 9 + r = HashBlock + HashBlock
  BY <1>1, ZerosForIs
<1>5. CASE r + 1 < HashBlock
  <2>1. len + 1 = (HashBlock * q) + (r + 1) /\ r + 1 \in Nat  BY <1>1, <1>3
  <2>2. after = r + 1  BY <2>1, <1>5, WholeAndRest
  <2> QED  BY <2>2, <1>2, <1>4
<1>6. CASE r + 1 = HashBlock
  <2>1. len + 1 = (HashBlock * (q + 1)) + 0  BY <1>1, <1>3, <1>6
  <2>2. 0 \in Nat /\ 0 < HashBlock  BY <1>2
  <2>3. ((HashBlock * (q + 1)) + 0) % HashBlock = 0  BY <2>2, <1>3, WholeAndRest
  <2>4. after = 0  BY <2>1, <2>3
  <2> QED  BY <2>4, <1>2, <1>4, <1>6
<1> QED  BY <1>1, <1>2, <1>5, <1>6

\* The digest of a message, from its blocks once it is padded.
LEMMA DigestIs ==
  ASSUME NEW S, Pads(S), NEW from, NEW m \in Seq(S)
  PROVE  DigestOf(from, m) = State(from, Padded(m))
<1>1. PICK z \in Nat : z = ZerosFor(Len(m))
  <2>1. Len(m) \in Nat  BY LenProperties
  <2>2. PICK q \in Nat, r \in Nat : r < HashBlock /\ Len(m) = (HashBlock * q) + r
    BY <2>1, Divided
  <2> QED  BY <2>2, ZerosForIs
<1>2. Padded(m) \in Seq(S)
  <2>1. PICK a \in Seq(S) : a = m \o <<Mark>>  BY MarkIs, LenOfBoth
  <2>2. PICK y \in Seq(S) : y = Zeros(z)  BY ZerosAre DEF Pads
  <2>3. PICK l \in Seq(S) : l = LengthBytes(Len(m))  BY LengthIs, LenProperties
  <2>4. PICK b \in Seq(S) : b = a \o y  BY LenOfBoth
  <2>5. b \o l \in Seq(S)  BY LenOfBoth
  <2> QED  BY <2>1, <2>2, <2>3, <2>4, <2>5, <1>1, PaddedIs DEF PaddedWith
<1>3. PICK c \in Seq(Seq(S)) : c = Chunks(Padded(m))  BY <1>2, ChunksAre
<1>4. <<>> \o c = c  BY ConcatEmptySeq
<1> QED  BY <1>3, <1>4, AbsorbIs DEF DigestOf, State

\* SHA1Final, of a context that has taken m.
LEMMA FinalTaken ==
  ASSUME NEW S, Pads(S), NEW from, NEW m \in Seq(S)
  PROVE  SHA1Final(Taken(from, m)) = DigestOf(from, m)
<1>1. PICK a \in Seq(S) : a = m \o <<Mark>> /\ Len(a) = Len(m) + 1
  BY ZenonT(40), MarkIs, LenOfBoth
<1>2. SHA1Update(Taken(from, m), <<Mark>>) = Taken(from, a)
  <2>1. PICK k \in Seq(S) : k = <<Mark>>  BY MarkIs
  <2>2. SHA1Update(Taken(from, m), k) = Taken(from, m \o k)  BY UpdateTaken
  <2> QED  BY <2>1, <2>2, <1>1
<1>3. PICK len \in Nat : len = Len(m)  BY LenProperties
<1>4. Len(Taken(from, a).buf) = (len + 1) % HashBlock
  <2>1. Len(Rest(a)) = Len(a) % HashBlock  BY RestIs
  <2> QED  BY <2>1, <1>1, <1>3 DEF Taken
<1>5. PICK z \in Nat : z = ZerosFor(len)
  <2>2. PICK q \in Nat, r \in Nat : r < HashBlock /\ len = (HashBlock * q) + r
    BY Divided
  <2> QED  BY <2>2, ZerosForIs
<1>6. Taken(from, m).count = len  BY <1>3 DEF Taken
<1>7. PICK y \in Seq(S) : y = Zeros(z)  BY ZerosAre DEF Pads
<1>8. PICK l \in Seq(S) : l = LengthBytes(len)  BY LengthIs
<1>9. PICK b \in Seq(S) : b = a \o y  BY LenOfBoth
<1>10. SHA1Update(Taken(from, a), y) = Taken(from, b)  BY <1>9, UpdateTaken
<1>11. SHA1Update(Taken(from, b), l) = Taken(from, b \o l)  BY UpdateTaken
<1>12. SHA1Final(Taken(from, m)) = SHA1Update(SHA1Update(Taken(from, a), Zeros(z)), LengthBytes(len)).h
  <2>1. z = IF Len(Taken(from, a).buf) <= HashBlock - 8 THEN HashBlock - 8 - Len(Taken(from, a).buf)
            ELSE 2 * HashBlock - 8 - Len(Taken(from, a).buf)
    BY <1>4, <1>5, ZerosAfterMark
  <2> QED  BY <2>1, <1>2, <1>6 DEF SHA1Final
<1>13. SHA1Final(Taken(from, m)) = State(from, b \o l)
  BY <1>7, <1>8, <1>10, <1>11, <1>12 DEF Taken
<1>14. Padded(m) = b \o l  BY <1>1, <1>3, <1>5, <1>7, <1>8, <1>9, PaddedIs DEF PaddedWith
<1> QED  BY <1>13, <1>14, DigestIs

\* The one or two blocks that sha1_final adds to a state.
LastBlocks(r, length) ==
  LET marked == Append(r, Mark)
      room   == HashBlock - 8
  IN  IF Len(r) < room
      THEN <<marked \o Zeros(room - Len(marked)) \o length>>
      ELSE <<marked \o Zeros(HashBlock - Len(marked)), Zeros(room) \o length>>

\* One element and another.
LEMMA OneAndOne ==
  ASSUME NEW a, NEW b
  PROVE  <<a>> \o <<b>> = <<a, b>>
<1>1. PICK x \in Seq({a, b}) : x = <<a>> /\ Len(x) = 1 /\ x[1] = a
  <2>1. <<a>> \in Seq({a, b}) /\ Len(<<a>>) = 1 /\ <<a>>[1] = a  OBVIOUS
  <2> QED  BY <2>1
<1>2. PICK y \in Seq({a, b}) : y = <<b>> /\ Len(y) = 1 /\ y[1] = b
  <2>1. <<b>> \in Seq({a, b}) /\ Len(<<b>>) = 1 /\ <<b>>[1] = b  OBVIOUS
  <2> QED  BY <2>1
<1>3. PICK z \in Seq({a, b}) : z = <<a, b>> /\ Len(z) = 2 /\ z[1] = a /\ z[2] = b
  <2>1. <<a, b>> \in Seq({a, b}) /\ Len(<<a, b>>) = 2 /\ <<a, b>>[1] = a /\ <<a, b>>[2] = b
    OBVIOUS
  <2> QED  BY <2>1
<1>4. x \o y \in Seq({a, b}) /\ Joins(x, y, x \o y)  BY Joined
<1>5. PICK c \in Seq({a, b}) : c = x \o y  BY <1>4
<1>6. Joins(x, y, c)  BY <1>4, <1>5
<1>7. Len(c) = 2 /\ c[1] = a /\ c[2] = b
  <2>1. Len(c) = 1 + 1 /\ (\A i \in 1..1 : c[i] = x[i]) /\ \A i \in 1..1 : c[1 + i] = y[i]
    BY <1>1, <1>2, <1>6 DEF Joins
  <2>2. 1 \in 1..1  OBVIOUS
  <2>3. c[1] = x[1] /\ c[1 + 1] = y[1]  BY <2>1, <2>2
  <2> QED  BY <2>1, <2>3, <1>1, <1>2
<1>8. \A i \in 1..2 : c[i] = z[i]  BY <1>3, <1>7
<1>9. c = z  BY <1>3, <1>7, <1>8, SeqEqual
<1> QED  BY <1>1, <1>2, <1>3, <1>5, <1>9

\* sha1_final, from what is left in the buffer.
LEMMA FinalIs ==
  ASSUME NEW h, NEW r, NEW n, Len(r) # HashBlock
  PROVE  sha1_final([h |-> h, buf |-> r, nblocks |-> n])
           = Compress(h, LastBlocks(r, LengthBytes(n * HashBlock + Len(r))))
<1> DEFINE ctx == [h |-> h, buf |-> r, nblocks |-> n]
<1>1. Flushed(ctx) = ctx  BY FlushedIs
<1>2. ctx.h = h /\ ctx.buf = r /\ ctx.nblocks = n  OBVIOUS
<1> HIDE DEF ctx
<1>3. sha1_final(ctx) = Compress(h, LastBlocks(r, LengthBytes(n * HashBlock + Len(r))))
  BY <1>1, <1>2 DEF sha1_final, LastBlocks
<1> QED  BY <1>3 DEF ctx

\* The mark behind what is left in the buffer.
LEMMA MarkedIs ==
  ASSUME NEW S, Mark \in S, NEW r \in Seq(S)
  PROVE  /\ Append(r, Mark) = r \o <<Mark>> /\ Append(r, Mark) \in Seq(S)
         /\ Len(Append(r, Mark)) = Len(r) + 1
<1>1. PICK k : k = Mark /\ k \in S  OBVIOUS
<1>2. Append(r, k) = r \o <<k>>  OBVIOUS
<1> QED  BY <1>1, <1>2

\* sha1_final, of a context that has taken m.
LEMMA FinalWritten ==
  ASSUME NEW S, Pads(S), NEW m \in Seq(S)
  PROVE  sha1_final(Written(m)) = DigestOf("constants", m)
<1>1. PICK r \in Seq(S) : r = Rest(m) /\ Len(r) \in Nat /\ Len(r) < HashBlock  BY RestShort
<1>2. PICK len \in Nat, q \in Nat : len = Len(m) /\ q = len \div HashBlock
  BY LenProperties, Divided
<1>3. Len(r) = len % HashBlock  BY <1>1, <1>2, RestIs
<1>4. len = (HashBlock * q) + Len(r)  BY <1>2, <1>3, Divided
<1>5. PICK z \in Nat : /\ z = ZerosFor(len)
                       /\ Len(r) < HashBlock - 8 => z + 9 + Len(r) = HashBlock
                       /\ ~(Len(r) < HashBlock - 8) => z + 9 + Len(r) = HashBlock + HashBlock
  BY <1>1, <1>4, ZerosForIs
<1>6. HashBlock \in Nat /\ HashBlock > 8  BY HashAssumption
<1>7. PICK l \in Seq(S) : l = LengthBytes(len) /\ Len(l) = 8  BY LengthIs
<1>8. sha1_final(Written(m)) = Compress(State("constants", m), LastBlocks(r, l))
  <2>1. q * HashBlock + Len(r) = len  BY <1>4, HashAssumption
  <2>2. Written(m) = [h |-> State("constants", m), buf |-> r, nblocks |-> q]
    BY <1>1, <1>2 DEF Written
  <2>3. Len(r) # HashBlock  BY <1>1, <1>6
  <2>4. sha1_final([h |-> State("constants", m), buf |-> r, nblocks |-> q])
          = Compress(State("constants", m), LastBlocks(r, LengthBytes(q * HashBlock + Len(r))))
    BY <2>3, FinalIs
  <2> QED  BY <2>1, <2>2, <2>4, <1>7
<1>9. PICK k \in Seq(S) : k = <<Mark>> /\ Len(k) = 1  BY MarkIs
<1>10. PICK mk \in Seq(S) : mk = r \o k /\ mk = Append(r, Mark) /\ Len(mk) = Len(r) + 1
  BY <1>9, MarkedIs DEF Pads
<1>11. PICK y \in Seq(S) : y = Zeros(z) /\ Len(y) = z  BY ZerosAre DEF Pads
<1>12. PICK ky \in Seq(S) : ky = k \o y /\ Len(ky) = 1 + z
  <2>1. \E cc \in Seq(S) : Both(k, y, cc)  BY BothOf
  <2> QED  BY <2>1, <1>9, <1>11 DEF Both
<1>13. Padded(m) = m \o (ky \o l)
  <2>1. Padded(m) = ((m \o k) \o y) \o l
    BY <1>2, <1>5, <1>7, <1>9, <1>11, PaddedIs DEF PaddedWith
  <2>2. (m \o k) \o y = m \o ky
    <3>1. Cat(Cat(m, k), y) = Cat(m, Cat(k, y))  BY CatAssoc
    <3> QED  BY <3>1, <1>12 DEF Cat
  <2>3. (m \o ky) \o l = m \o (ky \o l)
    <3>1. Cat(Cat(m, ky), l) = Cat(m, Cat(ky, l))  BY CatAssoc
    <3> QED  BY <3>1 DEF Cat
  <2> QED  BY <2>1, <2>2, <2>3
<1>14. PICK c \in Seq(Seq(S)) : c = Chunks(m)  BY ChunksAre
<1>15. CASE Len(r) < HashBlock - 8
  <2>1. PICK t \in Seq(S) : t = ky \o l /\ Len(t) = (1 + z) + 8
    <3>1. \E cc \in Seq(S) : Both(ky, l, cc)  BY BothOf
    <3> QED  BY <3>1, <1>7, <1>12 DEF Both
  <2>2. Len(Rest(m)) + Len(t) = HashBlock  BY SMTT(30), <2>1, <1>1, <1>5, <1>6, <1>15
  <2>3. PICK e \in Seq(S) : e = <<>>  BY EmptySeq
  <2>4. AddsOver(m, t, e)  BY <2>2, AddedOver
  <2>5. t \o e = t  BY <2>3, ConcatEmptySeq
  <2>6. Chunks(Padded(m)) = (c \o <<r \o t>>) \o <<>>
    <3>1. Chunks(m \o (t \o e)) = (Chunks(m) \o <<Rest(m) \o t>>) \o Chunks(e)
      BY <2>4 DEF AddsOver
    <3>2. Padded(m) = m \o (t \o e)  BY <2>1, <2>5, <1>13
    <3> QED  BY <3>1, <3>2, <2>3, <1>1, <1>14, EmptyMessage
  <2>7. Chunks(Padded(m)) = c \o <<r \o t>>
    <3>1. PICK o \in Seq(S) : o = r \o t  BY LenOfBoth
    <3>2. <<o>> \in Seq(Seq(S))  OBVIOUS
    <3>3. c \o <<o>> \in Seq(Seq(S))  BY <3>2, LenOfBoth
    <3>4. (c \o <<o>>) \o <<>> = c \o <<o>>  BY <3>3, ConcatEmptySeq
    <3> QED  BY <3>1, <3>4, <2>6
  <2>8. LastBlocks(r, l) = <<(mk \o y) \o l>>
    <3>1. (HashBlock - 8) - Len(mk) = z  BY SMTT(30), <1>1, <1>5, <1>6, <1>10, <1>15
    <3> QED  BY <3>1, <1>10, <1>11, <1>15 DEF LastBlocks
  <2>9. (mk \o y) \o l = r \o t
    <3>1. mk \o y = r \o ky
      <4>1. Cat(Cat(r, k), y) = Cat(r, Cat(k, y))  BY CatAssoc
      <4> QED  BY <4>1, <1>10, <1>12 DEF Cat
    <3>2. (r \o ky) \o l = r \o (ky \o l)
      <4>1. Cat(Cat(r, ky), l) = Cat(r, Cat(ky, l))  BY CatAssoc
      <4> QED  BY <4>1 DEF Cat
    <3> QED  BY <3>1, <3>2, <2>1
  <2> QED  BY <2>7, <2>8, <2>9, <1>8, <1>14, DigestIs DEF Compress, State
<1>16. CASE ~(Len(r) < HashBlock - 8)
  <2>1. PICK u \in Nat, w \in Nat : /\ u = HashBlock - (Len(r) + 1) /\ w = HashBlock - 8 /\ u + w = z
    <3>1. /\ HashBlock - (Len(r) + 1) \in Nat /\ HashBlock - 8 \in Nat
          /\ (HashBlock - (Len(r) + 1)) + (HashBlock - 8) = z
      BY SMTT(30), <1>1, <1>5, <1>6, <1>16
    <3> QED  BY <3>1
  <2>2. PICK yu \in Seq(S) : yu = Zeros(u) /\ Len(yu) = u  BY ZerosAre DEF Pads
  <2>3. PICK yw \in Seq(S) : yw = Zeros(w) /\ Len(yw) = w  BY ZerosAre DEF Pads
  <2>4. y = yu \o yw  BY <2>1, <2>2, <2>3, <1>11, ZerosJoin
  <2>5. PICK b \in Seq(S) : b = k \o yu /\ Len(b) = 1 + u
    <3>1. \E cc \in Seq(S) : Both(k, yu, cc)  BY BothOf
    <3> QED  BY <3>1, <2>2, <1>9 DEF Both
  <2>6. PICK d \in Seq(S) : d = yw \o l /\ Len(d) = w + 8
    <3>1. \E cc \in Seq(S) : Both(yw, l, cc)  BY BothOf
    <3> QED  BY <3>1, <2>3, <1>7 DEF Both
  <2>7. ky \o l = b \o d
    <3>1. ky = b \o yw
      <4>1. Cat(Cat(k, yu), yw) = Cat(k, Cat(yu, yw))  BY CatAssoc
      <4> QED  BY <4>1, <2>4, <2>5, <1>12 DEF Cat
    <3>2. (b \o yw) \o l = b \o (yw \o l)
      <4>1. Cat(Cat(b, yw), l) = Cat(b, Cat(yw, l))  BY CatAssoc
      <4> QED  BY <4>1 DEF Cat
    <3> QED  BY <3>1, <3>2, <2>6
  <2>8. Len(Rest(m)) + Len(b) = HashBlock /\ Len(d) = HashBlock
    BY <2>1, <2>5, <2>6, <1>1, <1>6
  <2>9. AddsOver(m, b, d)  BY <2>8, AddedOver
  <2>10. Chunks(d) = <<d>>  BY <2>8, OneChunk
  <2>11. Chunks(Padded(m)) = (c \o <<r \o b>>) \o <<d>>
    BY <2>7, <2>9, <2>10, <1>1, <1>13, <1>14 DEF AddsOver
  <2>12. r \o b = mk \o yu
    <3>1. Cat(Cat(r, k), yu) = Cat(r, Cat(k, yu))  BY CatAssoc
    <3> QED  BY <3>1, <2>5, <1>10 DEF Cat
  <2>13. LastBlocks(r, l) = <<mk \o yu, d>>
    <3>1. HashBlock - Len(mk) = u  BY <2>1, <1>10
    <3> QED  BY <3>1, <2>1, <2>2, <2>3, <2>6, <1>10, <1>16 DEF LastBlocks
  <2>14. Chunks(Padded(m)) = c \o <<mk \o yu, d>>
    <3>1. PICK o \in Seq(S) : o = mk \o yu  BY LenOfBoth
    <3>2. PICK x1 \in Seq(Seq(S)), x2 \in Seq(Seq(S)) : x1 = <<o>> /\ x2 = <<d>>
      <4>1. <<o>> \in Seq(Seq(S)) /\ <<d>> \in Seq(Seq(S))  OBVIOUS
      <4> QED  BY <4>1
    <3>3. x1 \o x2 = <<o, d>>  BY <3>2, OneAndOne
    <3>4. (c \o x1) \o x2 = c \o (x1 \o x2)
      <4>1. Cat(Cat(c, x1), x2) = Cat(c, Cat(x1, x2))  BY CatAssoc
      <4> QED  BY <4>1 DEF Cat
    <3> QED  BY <3>1, <3>2, <3>3, <3>4, <2>11, <2>12
  <2> QED  BY <2>13, <2>14, <1>8, <1>14, DigestIs DEF Compress, State
<1> QED  BY <1>15, <1>16

-----------------------------------------------------------------------------
(* One digest, one message.                                                *)

\* Whole blocks are known from how they are cut.
LEMMA ChunksDetermine ==
  ASSUME NEW S, NEW x \in Seq(S), NEW y \in Seq(S), NEW p \in Nat, NEW q \in Nat,
         Len(x) = HashBlock * p, Len(y) = HashBlock * q, Chunks(x) = Chunks(y)
  PROVE  x = y
<1>1. HashBlock \in Nat /\ HashBlock > 8  BY HashAssumption
<1>2. Len(x) \div HashBlock = p /\ Len(y) \div HashBlock = q
  <2>0. HashBlock * p \in Nat /\ HashBlock * q \in Nat  BY Times
  <2>1. (HashBlock * p) + 0 = HashBlock * p /\ (HashBlock * q) + 0 = HashBlock * q  BY <2>0
  <2>2. 0 \in Nat /\ 0 < HashBlock  BY <1>1
  <2>3. ((HashBlock * p) + 0) \div HashBlock = p /\ ((HashBlock * q) + 0) \div HashBlock = q
    BY <2>2, WholeAndRest
  <2> QED  BY <2>1, <2>3
<1>3. Len(Chunks(x)) = p /\ \A n \in 1..p : Chunks(x)[n] = Chunk(x, n)
  BY <1>2, ChunksAre
<1>4. Len(Chunks(y)) = q /\ \A n \in 1..q : Chunks(y)[n] = Chunk(y, n)
  BY <1>2, ChunksAre
<1>5. p = q  BY <1>3, <1>4
<1>6. ASSUME NEW i \in 1..Len(x) PROVE x[i] = y[i]
  <2>1. PICK a \in Nat : a = i - 1 /\ a < Len(x)
    <3>1. Len(x) \in Nat  BY LenProperties
    <3>2. i - 1 \in Nat /\ i - 1 < Len(x)  BY <3>1
    <3> QED  BY <3>2
  <2>2. PICK k \in Nat, j \in Nat : j < HashBlock /\ a = (HashBlock * k) + j
    BY Divided
  <2>3. k < p
    <3>1. SUFFICES ASSUME p <= k PROVE FALSE  OBVIOUS
    <3>2. HashBlock * p <= HashBlock * k /\ HashBlock * k \in Nat /\ HashBlock * p \in Nat
      BY <3>1, Times
    <3> QED  BY <3>2, <2>1, <2>2
  <2>4. PICK n \in 1..p : n = k + 1
    <3>1. k + 1 \in 1..p  BY <2>3
    <3> QED  BY <3>1
  <2>5. PICK e \in 1..HashBlock : e = j + 1
    <3>1. j + 1 \in 1..HashBlock  BY <2>2, <1>1
    <3> QED  BY <3>1
  <2>6. n - 1 = k /\ (HashBlock * k) + e = i
    <3>1. HashBlock * k \in Nat  BY Times
    <3> QED  BY <3>1, <2>1, <2>2, <2>4, <2>5
  <2>7. Chunk(x, n)[e] = x[(HashBlock * (n - 1)) + e]
    <3>1. n \in 1..(Len(x) \div HashBlock)  BY <1>2
    <3> QED  BY <3>1, ChunkIs
  <2>8. Chunk(y, n)[e] = y[(HashBlock * (n - 1)) + e]
    <3>1. n \in 1..(Len(y) \div HashBlock)  BY <1>2, <1>5
    <3> QED  BY <3>1, ChunkIs
  <2>9. Chunk(x, n) = Chunk(y, n)  BY <1>3, <1>4, <1>5
  <2> QED  BY <2>6, <2>7, <2>8, <2>9
<1> QED  BY <1>5, <1>6, SeqEqual

\* A padded message: the message, the mark, zeros, and eight bytes more.
Shape(m, x) ==
  /\ Len(m) + 9 <= Len(x)
  /\ \A i \in 1..Len(m) : x[i] = m[i]
  /\ x[Len(m) + 1] = Mark
  /\ \A i \in (Len(m) + 2)..(Len(x) - 8) : x[i] = 0

\* A padded message has that shape, and is whole blocks.
LEMMA PaddedShape ==
  ASSUME NEW S, Pads(S), NEW m \in Seq(S)
  PROVE  /\ Padded(m) \in Seq(S) /\ Shape(m, Padded(m))
         /\ \E p \in Nat : Len(Padded(m)) = HashBlock * p
<1>1. PICK len \in Nat, q \in Nat, r \in Nat :
        len = Len(m) /\ r < HashBlock /\ len = (HashBlock * q) + r
  BY LenProperties, Divided
<1>2. PICK z \in Nat : /\ z = ZerosFor(len)
                       /\ r < HashBlock - 8 => z + 9 + r = HashBlock
                       /\ ~(r < HashBlock - 8) => z + 9 + r = HashBlock + HashBlock
  BY <1>1, ZerosForIs
<1>3. PICK k \in Seq(S) : k = <<Mark>> /\ Len(k) = 1 /\ k[1] = Mark
  <2>1. <<Mark>> \in Seq(S) /\ Len(<<Mark>>) = 1  BY MarkIs
  <2>2. <<Mark>>[1] = Mark  OBVIOUS
  <2> QED  BY <2>1, <2>2
<1>4. PICK y \in Seq(S) : y = Zeros(z) /\ Len(y) = z /\ \A i \in 1..z : y[i] = 0
  BY ZerosAre DEF Pads
<1>5. PICK l \in Seq(S) : l = LengthBytes(len) /\ Len(l) = 8  BY LengthIs
<1>6. PICK a \in Seq(S) : a = m \o k /\ Joins(m, k, a)  BY Joined
<1>7. PICK b \in Seq(S) : b = a \o y /\ Joins(a, y, b)  BY Joined
<1>8. PICK x \in Seq(S) : x = b \o l /\ Joins(b, l, x)  BY Joined
<1>9. x = Padded(m)
  BY <1>1, <1>2, <1>3, <1>4, <1>5, <1>6, <1>7, <1>8, PaddedIs DEF PaddedWith
<1>10. /\ Len(a) = len + 1 /\ \A i \in 1..len : a[i] = m[i]
       /\ a[len + 1] = Mark
  <2>1. /\ Len(a) = len + 1 /\ \A i \in 1..len : a[i] = m[i]
        /\ \A i \in 1..1 : a[len + i] = k[i]
    BY <1>1, <1>3, <1>6 DEF Joins
  <2>2. 1 \in 1..1  OBVIOUS
  <2> QED  BY <2>1, <2>2, <1>3
<1>11. /\ Len(b) = (len + 1) + z /\ \A i \in 1..(len + 1) : b[i] = a[i]
       /\ \A i \in 1..z : b[(len + 1) + i] = 0
  <2>1. /\ Len(b) = (len + 1) + z /\ \A i \in 1..(len + 1) : b[i] = a[i]
        /\ \A i \in 1..z : b[(len + 1) + i] = y[i]
    BY <1>4, <1>7, <1>10 DEF Joins
  <2> QED  BY <2>1, <1>4
<1>12. Len(x) = ((len + 1) + z) + 8 /\ \A i \in 1..((len + 1) + z) : x[i] = b[i]
  BY <1>5, <1>8, <1>11 DEF Joins
<1>13. Shape(m, x)
  <2>1. len + 9 <= Len(x)  BY <1>12
  <2>2. \A i \in 1..len : i \in 1..(len + 1) /\ i \in 1..((len + 1) + z)  OBVIOUS
  <2>3. \A i \in 1..len : x[i] = m[i]  BY <2>2, <1>10, <1>11, <1>12
  <2>4. x[len + 1] = Mark
    <3>1. len + 1 \in 1..(len + 1) /\ len + 1 \in 1..((len + 1) + z)  OBVIOUS
    <3> QED  BY <3>1, <1>10, <1>11, <1>12
  <2>5. ASSUME NEW i \in (len + 2)..(Len(x) - 8) PROVE x[i] = 0
    <3>1. PICK j \in 1..z : i = (len + 1) + j
      <4>1. i - (len + 1) \in 1..z /\ i = (len + 1) + (i - (len + 1))  BY <1>12
      <4> QED  BY <4>1
    <3>2. i \in 1..((len + 1) + z)  BY <3>1
    <3> QED  BY <3>1, <3>2, <1>11, <1>12
  <2> QED  BY <2>1, <2>3, <2>4, <2>5, <1>1 DEF Shape
<1>14. \E p \in Nat : Len(x) = HashBlock * p
  <2>1. HashBlock \in Nat  BY HashAssumption
  <2>2. /\ HashBlock * q \in Nat /\ HashBlock * (q + 1) = (HashBlock * q) + HashBlock
        /\ HashBlock * (q + 2) = ((HashBlock * q) + HashBlock) + HashBlock
    BY <2>1
  <2>4. q + 1 \in Nat /\ q + 2 \in Nat  OBVIOUS
  <2>5. PICK h \in Nat : h = HashBlock * q  BY <2>2
  <2>6. CASE r < HashBlock - 8
    <3>1. len = h + r  BY <1>1, <2>5
    <3>2. z + 9 + r = HashBlock  BY <1>2, <2>6
    <3>3. Len(x) = ((len + 1) + z) + 8  BY <1>12
    <3>4. Len(x) = h + HashBlock  BY <2>1, <3>1, <3>2, <3>3
    <3> QED  BY <3>4, <2>2, <2>5, <2>4
  <2>7. CASE ~(r < HashBlock - 8)
    <3>1. len = h + r  BY <1>1, <2>5
    <3>2. z + 9 + r = HashBlock + HashBlock  BY <1>2, <2>7
    <3>3. Len(x) = ((len + 1) + z) + 8  BY <1>12
    <3>4. Len(x) = (h + HashBlock) + HashBlock  BY <2>1, <3>1, <3>2, <3>3
    <3> QED  BY <3>4, <2>2, <2>5, <2>4
  <2> QED  BY <2>6, <2>7
<1> QED  BY <1>9, <1>13, <1>14

\* The message is found again: the mark is the last byte before the length that
\* is not zero.
LEMMA ShapeDetermines ==
  ASSUME NEW S, NEW t \in Seq(S), NEW u \in Seq(S), NEW x \in Seq(S), Mark # 0,
         Shape(t, x), Shape(u, x)
  PROVE  t = u
<1>1. PICK n \in Nat, k \in Nat, l \in Nat : n = Len(t) /\ k = Len(u) /\ l = Len(x)
  BY LenProperties
<1>2. n = k
  <2>1. CASE n < k
    <3>1. k + 1 \in (n + 2)..(l - 8)  BY <2>1, <1>1 DEF Shape
    <3> QED  BY <3>1, <1>1 DEF Shape
  <2>2. CASE k < n
    <3>1. n + 1 \in (k + 2)..(l - 8)  BY <2>2, <1>1 DEF Shape
    <3> QED  BY <3>1, <1>1 DEF Shape
  <2> QED  BY <2>1, <2>2
<1>3. \A i \in 1..n : t[i] = u[i]  BY <1>1, <1>2 DEF Shape
<1> QED  BY <1>1, <1>2, <1>3, SeqEqual

\* Two messages have one digest only if they are the same: padding loses
\* nothing, and what a block does to a state is left open.
LEMMA DigestDetermines ==
  ASSUME NEW S, Pads(S), NEW from, NEW t \in Seq(S), NEW u \in Seq(S),
         DigestOf(from, t) = DigestOf(from, u)
  PROVE  t = u
<1>1. Mark # 0
  <2>1. Radix \in Nat /\ Radix > 1  BY HashAssumption
  <2>2. Radix \div 2 >= 1  BY <2>1
  <2> QED  BY <2>2 DEF Mark
<1>2. State(from, Padded(t)) = State(from, Padded(u))  BY DigestIs
<1>3. Chunks(Padded(t)) = Chunks(Padded(u))
  <2>1. State(from, Padded(t)).blocks = State(from, Padded(u)).blocks  BY <1>2
  <2> QED  BY <2>1 DEF State
<1>4. PICK x \in Seq(S), p \in Nat : x = Padded(t) /\ Shape(t, x) /\ Len(x) = HashBlock * p
  BY PaddedShape
<1>5. PICK y \in Seq(S), q \in Nat : y = Padded(u) /\ Shape(u, y) /\ Len(y) = HashBlock * q
  BY PaddedShape
<1>6. Chunks(x) = Chunks(y)  BY <1>3, <1>4, <1>5
<1>7. x = y  BY <1>4, <1>5, <1>6, ChunksDetermine
<1> QED  BY <1>1, <1>4, <1>5, <1>7, ShapeDetermines

-----------------------------------------------------------------------------
(* Step by step: what a function defined from its last value comes to.     *)

\* A set that 0 is in, and the next of each number in it, has every number in it.
LEMMA SetInduction ==
  ASSUME NEW S, 0 \in S, \A n \in Nat : n \in S => n + 1 \in S
  PROVE  Nat \subseteq S
<1> SUFFICES ASSUME NEW m \in Nat, m \notin S PROVE FALSE
  OBVIOUS
<1> DEFINE T == {n \in Nat : n \notin S}
           Less == OpToRel(<, Nat)
<1>1. IsWellFoundedOn(Less, Nat)
  BY NatLessThanWellFounded DEF OpToRel
<1>2. T \subseteq Nat /\ T # {}
  OBVIOUS
<1> HIDE DEF Less
<1>3. PICK x \in T : \A y \in T : ~ (<<y, x>> \in Less)
  BY <1>1, <1>2, WFMin
<1>4. x # 0
  BY <1>3
<1>5. x - 1 \in Nat /\ x - 1 < x
  BY <1>4
<1>6. <<x - 1, x>> \in Less
  BY <1>5, <1>3 DEF Less, OpToRel
<1> QED BY <1>3, <1>5, <1>6

\* The values that `step' gives one after the other, from b.
Steps(n, X) == [(1..n) \X X -> X]
\* f is the values from b on: m-th after m steps.
Iterates(f, n, X, b, step) ==
  f \in [0..n -> X] /\ f[0] = b /\ \A m \in 1..n : f[m] = step[<<m, f[m - 1]>>]

\* There are such values, however many steps are taken.
LEMMA Iteration ==
  ASSUME NEW n \in Nat, NEW X, NEW b \in X, NEW step \in Steps(n, X)
  PROVE  \E f : Iterates(f, n, X, b, step)
<1> USE DEF Steps
<1> DEFINE Good(k, f) == f[0] = b /\ \A m \in 1..k : f[m] = step[<<m, f[m - 1]>>]
           D == {k \in Nat : k <= n => \E f \in [0..k -> X] : Good(k, f)}
<1>1. 0 \in D
  <2>1. [i \in 0..0 |-> b] \in [0..0 -> X] /\ Good(0, [i \in 0..0 |-> b])
    OBVIOUS
  <2> QED BY <2>1
<1>2. ASSUME NEW k \in Nat, k \in D PROVE k + 1 \in D
  <2> SUFFICES ASSUME k + 1 <= n PROVE \E f \in [0..k + 1 -> X] : Good(k + 1, f)
    OBVIOUS
  <2>1. PICK f \in [0..k -> X] : Good(k, f)
    BY <1>2
  <2> DEFINE g == [i \in 0..k + 1 |-> IF i = k + 1 THEN step[<<k + 1, f[k]>>] ELSE f[i]]
  <2>2. f[k] \in X /\ k + 1 \in 1..n
    BY <2>1
  <2>3. step[<<k + 1, f[k]>>] \in X
    BY <2>2
  <2>4. g \in [0..k + 1 -> X]
    BY <2>3, <2>1
  <2>5. Good(k + 1, g)
    <3>1. g[0] = b
      BY <2>1
    <3>2. ASSUME NEW m \in 1..k + 1 PROVE g[m] = step[<<m, g[m - 1]>>]
      <4>1. CASE m = k + 1
        <5>1. g[m - 1] = f[k] /\ g[k + 1] = step[<<k + 1, f[k]>>]
          BY <4>1
        <5> HIDE DEF g
        <5> QED BY <5>1, <4>1
      <4>2. CASE m # k + 1
        <5>1. m \in 1..k /\ g[m] = f[m] /\ g[m - 1] = f[m - 1]
          BY <4>2
        <5> QED BY <5>1, <2>1
      <4> QED BY <4>1, <4>2
    <3> QED BY <3>1, <3>2
  <2> QED BY <2>4, <2>5
<1> HIDE DEF D
<1>3. n \in D
  BY <1>1, <1>2, SetInduction
<1> QED BY <1>3 DEF D, Iterates

\* What starts in a set and does not leave it in one step is in it.
LEMMA StaysIn ==
  ASSUME NEW N \in Nat, NEW h, NEW X, h[0] \in X, \A m \in 1..N : h[m - 1] \in X => h[m] \in X
  PROVE  \A m \in 0..N : h[m] \in X
<1> DEFINE D == {n \in Nat : n <= N => h[n] \in X}
<1>1. 0 \in D
  OBVIOUS
<1>2. ASSUME NEW n \in Nat, n \in D PROVE n + 1 \in D
  <2> SUFFICES ASSUME n + 1 <= N PROVE h[n + 1] \in X
    OBVIOUS
  <2>1. n + 1 \in 1..N /\ (n + 1) - 1 = n /\ h[n] \in X
    BY <1>2
  <2> QED BY <2>1
<1> HIDE DEF D
<1>3. \A n \in 0..N : n \in D
  BY <1>1, <1>2, SetInduction
<1> QED BY <1>3 DEF D

-----------------------------------------------------------------------------
(* The two Blowfish classes are one cipher.                                *)

\* Three words are xored in any grouping.
LEMMA XorGroups ==
  ASSUME NEW a \in Word, NEW b \in Word, NEW c \in Word
  PROVE  Xor(a, Xor(b, c)) = Xor(Xor(a, b), c)
  BY ByteAssumption DEF Word, Xor

\* A state of BlowFish where Blowfish has v: its left half is xored already
\* with the word of round i.
Ahead(k, v, i) == [l |-> Xor(v.l, k.p[i]), r |-> v.r]

\* One round of either class (R, ROUND).
LEMMA RoundsAgree ==
  ASSUME NEW k \in Key, NEW v \in Half, NEW i \in 0..15
  PROVE  R(k, v, i) \in Half /\ ROUND(k, Ahead(k, v, i), i + 1) = Ahead(k, R(k, v, i), i + 1)
<1>1. PICK a \in Word, b \in Word, p \in Word, q \in Word :
        a = v.l /\ b = v.r /\ p = k.p[i] /\ q = k.p[i + 1]
  BY DEF Half, Key, Slots
<1>2. PICK w \in Word : w = Xor(a, p)  BY XorUndone
<1>3. PICK f \in Word : f = F(k, w)  BY FType
<1>4. R(k, v, i) = [l |-> Xor(b, f), r |-> w]  BY <1>1, <1>2, <1>3 DEF R, Swapped
<1>5. Ahead(k, R(k, v, i), i + 1) = [l |-> Xor(Xor(b, f), q), r |-> w]
  BY <1>1, <1>4 DEF Ahead
<1>6. Ahead(k, v, i) = [l |-> w, r |-> b]  BY <1>1, <1>2 DEF Ahead
<1>7. ROUND(k, Ahead(k, v, i), i + 1) = [l |-> Xor(b, Xor(f, q)), r |-> w]
  BY <1>1, <1>3, <1>6 DEF ROUND
<1>8. Xor(b, Xor(f, q)) = Xor(Xor(b, f), q)  BY XorGroups
<1>9. R(k, v, i) \in Half
  <2>1. i \in Slots  BY DEF Slots
  <2> QED  BY <2>1, RType
<1> QED  BY <1>5, <1>7, <1>8, <1>9

\* Four rounds of either class (FourUp, FourRounds).
LEMMA FourAgree ==
  ASSUME NEW k \in Key, NEW v \in Half, NEW i \in {0, 4, 8, 12}
  PROVE  /\ FourUp(k, v, i) \in Half
         /\ FourRounds(k, Ahead(k, v, i), i + 1) = Ahead(k, FourUp(k, v, i), i + 4)
<1>1. PICK a \in Half : /\ a = R(k, v, i)
                        /\ ROUND(k, Ahead(k, v, i), i + 1) = Ahead(k, a, i + 1)
  <2>1. i \in 0..15  OBVIOUS
  <2> QED  BY <2>1, RoundsAgree
<1>2. PICK b \in Half : /\ b = R(k, a, i + 1)
                        /\ ROUND(k, Ahead(k, a, i + 1), i + 2) = Ahead(k, b, i + 2)
  <2>1. i + 1 \in 0..15 /\ (i + 1) + 1 = i + 2  OBVIOUS
  <2>2. R(k, a, i + 1) \in Half
        /\ ROUND(k, Ahead(k, a, i + 1), (i + 1) + 1) = Ahead(k, R(k, a, i + 1), (i + 1) + 1)
    BY <2>1, RoundsAgree
  <2> QED  BY <2>1, <2>2
<1>3. PICK c \in Half : /\ c = R(k, b, i + 2)
                        /\ ROUND(k, Ahead(k, b, i + 2), i + 3) = Ahead(k, c, i + 3)
  <2>1. i + 2 \in 0..15 /\ (i + 2) + 1 = i + 3  OBVIOUS
  <2>2. R(k, b, i + 2) \in Half
        /\ ROUND(k, Ahead(k, b, i + 2), (i + 2) + 1) = Ahead(k, R(k, b, i + 2), (i + 2) + 1)
    BY <2>1, RoundsAgree
  <2> QED  BY <2>1, <2>2
<1>4. PICK d \in Half : /\ d = R(k, c, i + 3)
                        /\ ROUND(k, Ahead(k, c, i + 3), i + 4) = Ahead(k, d, i + 4)
  <2>1. i + 3 \in 0..15 /\ (i + 3) + 1 = i + 4  OBVIOUS
  <2>2. R(k, c, i + 3) \in Half
        /\ ROUND(k, Ahead(k, c, i + 3), (i + 3) + 1) = Ahead(k, R(k, c, i + 3), (i + 3) + 1)
    BY <2>1, RoundsAgree
  <2> QED  BY <2>1, <2>2
<1>5. FourUp(k, v, i) = d  BY <1>1, <1>2, <1>3, <1>4 DEF FourUp
<1>6. FourRounds(k, Ahead(k, v, i), i + 1) = Ahead(k, d, i + 4)
  <2>1. (i + 1) + 1 = i + 2 /\ (i + 1) + 2 = i + 3 /\ (i + 1) + 3 = i + 4  OBVIOUS
  <2> QED  BY <2>1, <1>1, <1>2, <1>3, <1>4 DEF FourRounds
<1> QED  BY <1>5, <1>6

\* The two classes are one cipher (do_encrypt, Blowfish_encipher).
LEMMA CiphersAgree ==
  ASSUME NEW k \in Key, NEW v \in Half
  PROVE  Blowfish_encipher(k, v) = do_encrypt(k, v)
<1>1. PICK a \in Half : a = FourUp(k, v, 0) /\ FourRounds(k, Ahead(k, v, 0), 1) = Ahead(k, a, 4)
  <2>1. 0 + 1 = 1 /\ 0 + 4 = 4  OBVIOUS
  <2>2. FourUp(k, v, 0) \in Half
        /\ FourRounds(k, Ahead(k, v, 0), 0 + 1) = Ahead(k, FourUp(k, v, 0), 0 + 4)  BY FourAgree
  <2> QED  BY <2>1, <2>2
<1>2. PICK b \in Half : b = FourUp(k, a, 4) /\ FourRounds(k, Ahead(k, a, 4), 5) = Ahead(k, b, 8)
  <2>1. 4 + 1 = 5 /\ 4 + 4 = 8  OBVIOUS
  <2>2. FourUp(k, a, 4) \in Half
        /\ FourRounds(k, Ahead(k, a, 4), 4 + 1) = Ahead(k, FourUp(k, a, 4), 4 + 4)  BY FourAgree
  <2> QED  BY <2>1, <2>2
<1>3. PICK c \in Half : c = FourUp(k, b, 8) /\ FourRounds(k, Ahead(k, b, 8), 9) = Ahead(k, c, 12)
  <2>1. 8 + 1 = 9 /\ 8 + 4 = 12  OBVIOUS
  <2>2. FourUp(k, b, 8) \in Half
        /\ FourRounds(k, Ahead(k, b, 8), 8 + 1) = Ahead(k, FourUp(k, b, 8), 8 + 4)  BY FourAgree
  <2> QED  BY <2>1, <2>2
<1>4. PICK d \in Half : d = FourUp(k, c, 12) /\ FourRounds(k, Ahead(k, c, 12), 13) = Ahead(k, d, 16)
  <2>1. 12 + 1 = 13 /\ 12 + 4 = 16  OBVIOUS
  <2>2. FourUp(k, c, 12) \in Half
        /\ FourRounds(k, Ahead(k, c, 12), 12 + 1) = Ahead(k, FourUp(k, c, 12), 12 + 4)  BY FourAgree
  <2> QED  BY <2>1, <2>2
<1>5. Upwards(k, v) = d  BY <1>1, <1>2, <1>3, <1>4 DEF Upwards, With
<1>6. do_encrypt(k, v) = [l |-> Xor(d.r, k.p[17]), r |-> Xor(d.l, k.p[16])]
  BY <1>5 DEF do_encrypt, Crossed
<1>7. Blowfish_encipher(k, v) = [l |-> Xor(Ahead(k, d, 16).r, k.p[17]), r |-> Ahead(k, d, 16).l]
  BY <1>1, <1>2, <1>3, <1>4 DEF Blowfish_encipher, With, Ahead
<1> QED  BY <1>6, <1>7 DEF Ahead

\* The two classes encrypt a block alike (BFProxy::encrypt, BlowFish::Encrypt).
LEMMA BlocksAgree ==
  ASSUME NEW k \in Key, NEW b \in Block
  PROVE  PwsEncrypt(k, b) = encrypt(k, b)
<1>1. Halves(swap(b)) \in Half  BY BlockHalves
<1> QED  BY <1>1, CiphersAgree DEF PwsEncrypt, encrypt

-----------------------------------------------------------------------------
(* Key schedule and stirring.                                              *)

\* A function that follows the steps is the function of the steps, and there
\* is one only.
LEMMA Followed ==
  ASSUME NEW n \in Nat, NEW X, NEW b \in X, NEW step \in Steps(n, X),
         NEW h, NEW e, h = [m \in 0..n |-> e[m]], h[0] = b,
         \A m \in 1..n : h[m - 1] \in X => h[m] = step[<<m, h[m - 1]>>]
  PROVE  Iterates(h, n, X, b, step)
<1>1. ASSUME NEW m \in 1..n, h[m - 1] \in X PROVE h[m] = step[<<m, h[m - 1]>>] /\ h[m] \in X
  <2>1. h[m] = step[<<m, h[m - 1]>>]  BY <1>1
  <2>2. <<m, h[m - 1]>> \in (1..n) \X X  BY <1>1
  <2> QED  BY <2>1, <2>2 DEF Steps
<1>2. \A m \in 0..n : h[m] \in X  BY <1>1, StaysIn
<1>3. h \in [0..n -> X]  BY <1>2
<1>4. ASSUME NEW m \in 1..n PROVE h[m] = step[<<m, h[m - 1]>>]
  <2>1. m - 1 \in 0..n  OBVIOUS
  <2> QED  BY <2>1, <1>1, <1>2
<1> QED  BY <1>3, <1>4 DEF Iterates

\* There is one such function only.
LEMMA IteratesOne ==
  ASSUME NEW n \in Nat, NEW X, NEW b \in X, NEW step \in Steps(n, X), NEW f, NEW g,
         Iterates(f, n, X, b, step), Iterates(g, n, X, b, step)
  PROVE  f = g
<1>1. \A m \in 0..n : f[m] = g[m]
  <2> DEFINE D == {m \in Nat : m <= n => f[m] = g[m]}
  <2>1. 0 \in D  BY DEF Iterates
  <2>2. ASSUME NEW m \in Nat, m \in D PROVE m + 1 \in D
    <3>1. SUFFICES ASSUME m + 1 <= n PROVE f[m + 1] = g[m + 1]  OBVIOUS
    <3>2. m + 1 \in 1..n /\ (m + 1) - 1 = m /\ f[m] = g[m]  BY <2>2, <3>1
    <3> QED  BY <3>2 DEF Iterates
  <2> HIDE DEF D
  <2>3. \A m \in 0..n : m \in D  BY <2>1, <2>2, SetInduction
  <2> QED  BY <2>3 DEF D
<1>2. f \in [0..n -> X] /\ g \in [0..n -> X]  BY DEF Iterates
<1> QED  BY <1>1, <1>2

-----------------------------------------------------------------------------
\* The answer before and the tables so far.
Acc == [v : Half, k : Key]

\* The tables keep their form, whatever word goes where (do_bf_setkey).
LEMMA PairType ==
  ASSUME NEW acc \in Acc, NEW v \in Half, NEW n \in Nat
  PROVE  Pair(acc, n, v) \in Acc
<1>1. PICK p \in [Slots -> Word], s \in Boxes : acc.k = [p |-> p, s |-> s]
  <2>1. acc.k.p \in [Slots -> Word] /\ acc.k.s \in Boxes /\ acc.k = [p |-> acc.k.p, s |-> acc.k.s]
    BY DEF Acc, Key
  <2> QED  BY <2>1
<1>2. PICK l \in Word, r \in Word : l = v.l /\ r = v.r  BY DEF Half
<1>3. PairP(acc, n, v) \in Acc
  <2>1. [p EXCEPT ![2 * n - 2] = l, ![2 * n - 1] = r] \in [Slots -> Word]  OBVIOUS
  <2>2. PairP(acc, n, v)
          = [v |-> v, k |-> [p |-> [p EXCEPT ![2 * n - 2] = l, ![2 * n - 1] = r], s |-> s]]
    BY <1>1, <1>2 DEF PairP
  <2> QED  BY <2>1, <2>2 DEF Acc, Key
<1>4. PairS(acc, n - 9, v) \in Acc
  <2> DEFINE pairs == Cardinality(Byte) \div 2
             box   == ((n - 9) - 1) \div pairs + 1
             x     == 2 * (((n - 9) - 1) % pairs)
             after == [s EXCEPT ![box] = [@ EXCEPT ![x] = l, ![x + 1] = r]]
  <2>1. PairS(acc, n - 9, v) = [v |-> v, k |-> [p |-> p, s |-> after]]
    BY <1>1, <1>2 DEF PairS
  <2> HIDE DEF box, x
  <2>2. after \in Boxes
    <3>1. s \in [1..4 -> [Byte -> Word]]  BY DEF Boxes
    <3>2. \A b \in 1..4 : [s[b] EXCEPT ![x] = l, ![x + 1] = r] \in [Byte -> Word]
      BY <3>1
    <3> QED  BY <3>1, <3>2 DEF Boxes
  <2> HIDE DEF after
  <2> QED  BY <2>1, <2>2 DEF Acc, Key
<1> QED  BY <1>3, <1>4 DEF Pair

\* How many pairs of words a key schedule makes, from what it starts, and how it
\* makes the next pair (do_bf_setkey).
ScheduleSteps == 9 + 2 * Cardinality(Byte)

ScheduleStart(bytes) == [v |-> [l |-> ZeroWord, r |-> ZeroWord], k |-> Laid(bytes)]

ScheduleStep ==
  [x \in (1..ScheduleSteps) \X Acc |-> Pair(x[2], x[1], do_encrypt(x[2].k, x[2].v))]

\* The steps of a key schedule keep the tables.
LEMMA StepsType == ScheduleSteps \in Nat /\ ScheduleStep \in Steps(ScheduleSteps, Acc)
<1>1. ScheduleSteps \in Nat
  <2>1. Cardinality(Byte) \in Nat  BY ByteAssumption, FS_CardinalityType
  <2> QED  BY <2>1 DEF ScheduleSteps
<1>2. ASSUME NEW n \in 1..ScheduleSteps, NEW acc \in Acc
      PROVE  Pair(acc, n, do_encrypt(acc.k, acc.v)) \in Acc
  <2>1. acc.k \in Key /\ acc.v \in Half /\ n \in Nat  BY <1>1 DEF Acc
  <2> QED  BY <2>1, DoDecryptUndoes, PairType
<1> QED  BY <1>1, <1>2 DEF Steps, ScheduleStep

\* The key laid over ps, however short or long it is (do_bf_setkey).
LEMMA StartType ==
  ASSUME NEW bytes \in Seq(Byte), bytes # <<>>
  PROVE  ScheduleStart(bytes) \in Acc
<1>1. PICK n \in Nat : n = Len(bytes) /\ n > 0
  <2>1. Len(bytes) \in Nat /\ Len(bytes) # 0  BY LenProperties, EmptySeq
  <2> QED  BY <2>1
<1>2. ASSUME NEW i \in Nat PROVE KeyByte(bytes, i) \in Byte
  <2>1. (i % n) + 1 \in 1..n  BY <1>1
  <2>2. bytes[(i % n) + 1] \in Byte  BY <1>1, <2>1
  <2> QED  BY <1>1, <2>2 DEF KeyByte
<1>3. ASSUME NEW i \in Slots PROVE Xor(PTable[i], KeyWord(bytes, i)) \in Word
  <2>1. 4 * i \in Nat /\ 4 * i + 1 \in Nat /\ 4 * i + 2 \in Nat /\ 4 * i + 3 \in Nat
    BY DEF Slots
  <2>2. KeyWord(bytes, i) \in Word  BY <2>1, <1>2 DEF KeyWord, Word
  <2> QED  BY <2>2, TableAssumption, XorUndone
<1>4. Laid(bytes) \in Key  BY <1>3, TableAssumption DEF Laid, Key
<1>5. [l |-> ZeroWord, r |-> ZeroWord] \in Half  BY ByteAssumption DEF ZeroWord, Word, Half
<1> QED  BY <1>4, <1>5 DEF ScheduleStart, Acc

\* The key schedule of Blowfish, step by step (do_bf_setkey).
LEMMA KeyUnfolds ==
  ASSUME NEW bytes \in Seq(Byte), bytes # <<>>
  PROVE  \E h : /\ Iterates(h, ScheduleSteps, Acc, ScheduleStart(bytes), ScheduleStep)
               /\ bf_setkey(bytes) = h[ScheduleSteps].k
<1> DEFINE start == [v |-> [l |-> ZeroWord, r |-> ZeroWord], k |-> With(bytes, Laid)]
           Q(e) == e = [m \in 0..ScheduleSteps |->
                        IF m = 0 THEN start
                        ELSE With(e[m - 1], LAMBDA a : Pair(a, m, do_encrypt(a.k, a.v)))]
           h == CHOOSE e : Q(e)
<1>1. bf_setkey(bytes) = h[ScheduleSteps].k
  BY DEF bf_setkey, Scheduled, ScheduleSteps
<1>0. start = ScheduleStart(bytes)  BY DEF With, ScheduleStart
<1> HIDE DEF start
<1>2. ScheduleStart(bytes) \in Acc /\ ScheduleSteps \in Nat /\ ScheduleStep \in Steps(ScheduleSteps, Acc)
  BY StartType, StepsType
<1>3. ASSUME NEW m \in 1..ScheduleSteps, NEW a \in Acc
      PROVE  Pair(a, m, do_encrypt(a.k, a.v)) = ScheduleStep[<<m, a>>]
  <2>1. <<m, a>> \in (1..ScheduleSteps) \X Acc  OBVIOUS
  <2>2. ScheduleStep[<<m, a>>] = Pair(a, m, do_encrypt(a.k, a.v))
    BY <2>1 DEF ScheduleStep
  <2> QED  BY <2>2
<1>4. Q(h)
  <2>1. PICK f : Iterates(f, ScheduleSteps, Acc, ScheduleStart(bytes), ScheduleStep)
    BY <1>2, Iteration
  <2>2. f \in [0..ScheduleSteps -> Acc] /\ f[0] = ScheduleStart(bytes)
        /\ \A m \in 1..ScheduleSteps : f[m] = ScheduleStep[<<m, f[m - 1]>>]
    BY <2>1 DEF Iterates
  <2>3. ASSUME NEW m \in 0..ScheduleSteps, m # 0
        PROVE  f[m] = With(f[m - 1], LAMBDA a : Pair(a, m, do_encrypt(a.k, a.v)))
    <3>1. m \in 1..ScheduleSteps /\ m - 1 \in 0..ScheduleSteps  BY <1>2, <2>3
    <3>2. f[m - 1] \in Acc  BY <2>2, <3>1
    <3> QED  BY ZenonT(40), <3>1, <3>2, <2>2, <1>3 DEF With
  <2>4. Q(f)  BY <1>0, <2>2, <2>3
  <2> HIDE DEF Q
  <2> QED  BY <2>4
<1> HIDE DEF h
<1>5. h[0] = ScheduleStart(bytes)  BY <1>2, <1>4, <1>0
<1>6. ASSUME NEW m \in 1..ScheduleSteps, h[m - 1] \in Acc
      PROVE  h[m] = ScheduleStep[<<m, h[m - 1]>>]
  <2>1. m \in 0..ScheduleSteps /\ m # 0  BY <1>2
  <2>2. h[m] = Pair(h[m - 1], m, do_encrypt(h[m - 1].k, h[m - 1].v))  BY <1>4, <2>1 DEF With
  <2> QED  BY <2>2, <1>3, <1>6
<1>7. h = [m \in 0..ScheduleSteps |-> h[m]]  BY <1>4
<1>8. Iterates(h, ScheduleSteps, Acc, ScheduleStart(bytes), ScheduleStep)
  <2> HIDE DEF Q
  <2> QED  BY <1>2, <1>5, <1>6, <1>7, Followed
<1> QED  BY <1>1, <1>8

\* The key schedule of BlowFish takes the same steps (InitializeBlowfish).
LEMMA PwsKeyUnfolds ==
  ASSUME NEW bytes \in Seq(Byte), bytes # <<>>
  PROVE  \E h : /\ Iterates(h, ScheduleSteps, Acc, ScheduleStart(bytes), ScheduleStep)
               /\ InitializeBlowfish(bytes) = h[ScheduleSteps].k
<1> DEFINE start == [v |-> [l |-> ZeroWord, r |-> ZeroWord], k |-> With(bytes, Laid)]
           Q(e) == e = [m \in 0..ScheduleSteps |->
                        IF m = 0 THEN start
                        ELSE With(e[m - 1], LAMBDA a : Pair(a, m, Blowfish_encipher(a.k, a.v)))]
           h == CHOOSE e : Q(e)
<1>1. InitializeBlowfish(bytes) = h[ScheduleSteps].k
  BY DEF InitializeBlowfish, Scheduled, ScheduleSteps
<1>0. start = ScheduleStart(bytes)  BY DEF With, ScheduleStart
<1> HIDE DEF start
<1>2. ScheduleStart(bytes) \in Acc /\ ScheduleSteps \in Nat /\ ScheduleStep \in Steps(ScheduleSteps, Acc)
  BY StartType, StepsType
<1>3. ASSUME NEW m \in 1..ScheduleSteps, NEW a \in Acc
      PROVE  Pair(a, m, Blowfish_encipher(a.k, a.v)) = ScheduleStep[<<m, a>>]
  <2>1. <<m, a>> \in (1..ScheduleSteps) \X Acc  OBVIOUS
  <2>2. ScheduleStep[<<m, a>>] = Pair(a, m, do_encrypt(a.k, a.v))
    BY <2>1 DEF ScheduleStep
  <2>3. Blowfish_encipher(a.k, a.v) = do_encrypt(a.k, a.v)
    BY CiphersAgree DEF Acc
  <2> QED  BY <2>2, <2>3
<1>4. Q(h)
  <2>1. PICK f : Iterates(f, ScheduleSteps, Acc, ScheduleStart(bytes), ScheduleStep)
    BY <1>2, Iteration
  <2>2. f \in [0..ScheduleSteps -> Acc] /\ f[0] = ScheduleStart(bytes)
        /\ \A m \in 1..ScheduleSteps : f[m] = ScheduleStep[<<m, f[m - 1]>>]
    BY <2>1 DEF Iterates
  <2>3. ASSUME NEW m \in 0..ScheduleSteps, m # 0
        PROVE  f[m] = With(f[m - 1], LAMBDA a : Pair(a, m, Blowfish_encipher(a.k, a.v)))
    <3>1. m \in 1..ScheduleSteps /\ m - 1 \in 0..ScheduleSteps  BY <1>2, <2>3
    <3>2. f[m - 1] \in Acc  BY <2>2, <3>1
    <3> QED  BY ZenonT(40), <3>1, <3>2, <2>2, <1>3 DEF With
  <2>4. Q(f)  BY <1>0, <2>2, <2>3
  <2> HIDE DEF Q
  <2> QED  BY <2>4
<1> HIDE DEF h
<1>5. h[0] = ScheduleStart(bytes)  BY <1>2, <1>4, <1>0
<1>6. ASSUME NEW m \in 1..ScheduleSteps, h[m - 1] \in Acc
      PROVE  h[m] = ScheduleStep[<<m, h[m - 1]>>]
  <2>1. m \in 0..ScheduleSteps /\ m # 0  BY <1>2
  <2>2. h[m] = Pair(h[m - 1], m, Blowfish_encipher(h[m - 1].k, h[m - 1].v))  BY <1>4, <2>1 DEF With
  <2> QED  BY <2>2, <1>3, <1>6
<1>7. h = [m \in 0..ScheduleSteps |-> h[m]]  BY <1>4
<1>8. Iterates(h, ScheduleSteps, Acc, ScheduleStart(bytes), ScheduleStep)
  <2> HIDE DEF Q
  <2> QED  BY <1>2, <1>5, <1>6, <1>7, Followed
<1> QED  BY <1>1, <1>8

\* One key schedule, whichever class makes it, and it gives a key.
LEMMA KeysAgree ==
  ASSUME NEW bytes \in Seq(Byte), bytes # <<>>
  PROVE  bf_setkey(bytes) \in Key /\ InitializeBlowfish(bytes) = bf_setkey(bytes)
<1> DEFINE It(h) == Iterates(h, ScheduleSteps, Acc, ScheduleStart(bytes), ScheduleStep)
<1>1. PICK g : It(g) /\ bf_setkey(bytes) = g[ScheduleSteps].k  BY KeyUnfolds
<1>2. PICK h : It(h) /\ InitializeBlowfish(bytes) = h[ScheduleSteps].k  BY PwsKeyUnfolds
<1>3. ScheduleStart(bytes) \in Acc /\ ScheduleSteps \in Nat /\ ScheduleStep \in Steps(ScheduleSteps, Acc)
  BY StartType, StepsType
<1>4. g = h  BY <1>1, <1>2, <1>3, IteratesOne
<1>5. g[ScheduleSteps] \in Acc
  <2>1. ScheduleSteps \in 0..ScheduleSteps  BY <1>3
  <2> QED  BY <2>1, <1>1 DEF Iterates
<1> QED  BY <1>1, <1>2, <1>4, <1>5 DEF Acc

\* One more encryption of the check value.
StirStep(k) == [x \in (1..Stirs) \X Block |-> encrypt(k, x[2])]

\* The steps of the stirring keep the block.
LEMMA StirType ==
  ASSUME NEW k \in Key
  PROVE  Stirs \in Nat /\ StirStep(k) \in Steps(Stirs, Block)
  BY SecretAssumption, DecryptUndoes DEF Steps, StirStep

\* The stirring of a check value, step by step (GenRandhash).
LEMMA StirUnfolds ==
  ASSUME NEW k \in Key, NEW stuff, SubSeq(stuff, 1, 8) \in Block
  PROVE  \E h : /\ Iterates(h, Stirs, Block, SubSeq(stuff, 1, 8), StirStep(k))
               /\ Stirred(k, stuff, encrypt) = h[Stirs] \o SubSeq(stuff, 9, 10)
<1> DEFINE b == SubSeq(stuff, 1, 8)
           Q(e) == e = [m \in 0..Stirs |-> IF m = 0 THEN b ELSE With(e[m - 1], LAMBDA x : encrypt(k, x))]
           h == CHOOSE e : Q(e)
<1>1. Stirred(k, stuff, encrypt) = h[Stirs] \o SubSeq(stuff, 9, 10)
  BY DEF Stirred
<1>2. Stirs \in Nat /\ StirStep(k) \in Steps(Stirs, Block)  BY StirType
<1>3. ASSUME NEW m \in 1..Stirs, NEW x \in Block
      PROVE  encrypt(k, x) = StirStep(k)[<<m, x>>]
  <2>1. StirStep(k)[<<m, x>>] = encrypt(k, x)  BY DEF StirStep
  <2> QED  BY <2>1
<1> HIDE DEF b
<1>4. Q(h)
  <2>1. PICK f : Iterates(f, Stirs, Block, b, StirStep(k))  BY <1>2, Iteration DEF b
  <2>2. f \in [0..Stirs -> Block] /\ f[0] = b
        /\ \A m \in 1..Stirs : f[m] = StirStep(k)[<<m, f[m - 1]>>]
    BY <2>1 DEF Iterates
  <2>3. ASSUME NEW m \in 0..Stirs, m # 0
        PROVE  f[m] = With(f[m - 1], LAMBDA x : encrypt(k, x))
    <3>1. m \in 1..Stirs /\ m - 1 \in 0..Stirs  BY <1>2, <2>3
    <3>2. f[m - 1] \in Block  BY <2>2, <3>1
    <3> QED  BY ZenonT(40), <3>1, <3>2, <2>2, <1>3 DEF With
  <2>4. Q(f)  BY <2>2, <2>3
  <2> HIDE DEF Q
  <2> QED  BY <2>4
<1> HIDE DEF h
<1>5. h[0] = b  BY <1>2, <1>4
<1>6. ASSUME NEW m \in 1..Stirs, h[m - 1] \in Block
      PROVE  h[m] = StirStep(k)[<<m, h[m - 1]>>]
  <2>1. m \in 0..Stirs /\ m # 0  BY <1>2
  <2>2. h[m] = encrypt(k, h[m - 1])  BY <1>4, <2>1 DEF With
  <2> QED  BY <2>2, <1>3, <1>6
<1>7. h = [m \in 0..Stirs |-> h[m]]  BY <1>4
<1>8. Iterates(h, Stirs, Block, b, StirStep(k))
  <2> HIDE DEF Q
  <2>1. b \in Block  BY DEF b
  <2> QED  BY <2>1, <1>2, <1>5, <1>6, <1>7, Followed
<1> QED  BY <1>1, <1>8 DEF b

\* The other class stirs alike.
LEMMA PwsStirUnfolds ==
  ASSUME NEW k \in Key, NEW stuff, SubSeq(stuff, 1, 8) \in Block
  PROVE  \E h : /\ Iterates(h, Stirs, Block, SubSeq(stuff, 1, 8), StirStep(k))
               /\ Stirred(k, stuff, PwsEncrypt) = h[Stirs] \o SubSeq(stuff, 9, 10)
<1> DEFINE b == SubSeq(stuff, 1, 8)
           Q(e) == e = [m \in 0..Stirs |-> IF m = 0 THEN b ELSE With(e[m - 1], LAMBDA x : PwsEncrypt(k, x))]
           h == CHOOSE e : Q(e)
<1>1. Stirred(k, stuff, PwsEncrypt) = h[Stirs] \o SubSeq(stuff, 9, 10)
  BY DEF Stirred
<1>2. Stirs \in Nat /\ StirStep(k) \in Steps(Stirs, Block)  BY StirType
<1>3. ASSUME NEW m \in 1..Stirs, NEW x \in Block
      PROVE  PwsEncrypt(k, x) = StirStep(k)[<<m, x>>]
  <2>1. StirStep(k)[<<m, x>>] = encrypt(k, x)  BY DEF StirStep
  <2>2. PwsEncrypt(k, x) = encrypt(k, x)  BY BlocksAgree
  <2> QED  BY <2>1, <2>2
<1> HIDE DEF b
<1>4. Q(h)
  <2>1. PICK f : Iterates(f, Stirs, Block, b, StirStep(k))  BY <1>2, Iteration DEF b
  <2>2. f \in [0..Stirs -> Block] /\ f[0] = b
        /\ \A m \in 1..Stirs : f[m] = StirStep(k)[<<m, f[m - 1]>>]
    BY <2>1 DEF Iterates
  <2>3. ASSUME NEW m \in 0..Stirs, m # 0
        PROVE  f[m] = With(f[m - 1], LAMBDA x : PwsEncrypt(k, x))
    <3>1. m \in 1..Stirs /\ m - 1 \in 0..Stirs  BY <1>2, <2>3
    <3>2. f[m - 1] \in Block  BY <2>2, <3>1
    <3> QED  BY ZenonT(40), <3>1, <3>2, <2>2, <1>3 DEF With
  <2>4. Q(f)  BY <2>2, <2>3
  <2> HIDE DEF Q
  <2> QED  BY <2>4
<1> HIDE DEF h
<1>5. h[0] = b  BY <1>2, <1>4
<1>6. ASSUME NEW m \in 1..Stirs, h[m - 1] \in Block
      PROVE  h[m] = StirStep(k)[<<m, h[m - 1]>>]
  <2>1. m \in 0..Stirs /\ m # 0  BY <1>2
  <2>2. h[m] = PwsEncrypt(k, h[m - 1])  BY <1>4, <2>1 DEF With
  <2> QED  BY <2>2, <1>3, <1>6
<1>7. h = [m \in 0..Stirs |-> h[m]]  BY <1>4
<1>8. Iterates(h, Stirs, Block, b, StirStep(k))
  <2> HIDE DEF Q
  <2>1. b \in Block  BY DEF b
  <2> QED  BY <2>1, <1>2, <1>5, <1>6, <1>7, Followed
<1> QED  BY <1>1, <1>8 DEF b

\* Whichever class stirs, the outcome is the same: a block, and the two bytes
\* that are left alone (GenRandhash).
LEMMA StirsAgree ==
  ASSUME NEW k \in Key, NEW stuff, SubSeq(stuff, 1, 8) \in Block
  PROVE  /\ Stirred(k, stuff, PwsEncrypt) = Stirred(k, stuff, encrypt)
         /\ \E x \in Block : Stirred(k, stuff, encrypt) = x \o SubSeq(stuff, 9, 10)
<1> DEFINE It(h) == Iterates(h, Stirs, Block, SubSeq(stuff, 1, 8), StirStep(k))
<1>1. PICK g : It(g) /\ Stirred(k, stuff, encrypt) = g[Stirs] \o SubSeq(stuff, 9, 10)
  BY StirUnfolds
<1>2. PICK h : It(h) /\ Stirred(k, stuff, PwsEncrypt) = h[Stirs] \o SubSeq(stuff, 9, 10)
  BY PwsStirUnfolds
<1>3. Stirs \in Nat /\ StirStep(k) \in Steps(Stirs, Block)  BY StirType
<1>4. g = h  BY <1>1, <1>2, <1>3, IteratesOne
<1>5. g[Stirs] \in Block
  <2>1. Stirs \in 0..Stirs  BY <1>3
  <2> QED  BY <2>1, <1>1 DEF Iterates
<1> QED  BY <1>1, <1>2, <1>4, <1>5

-----------------------------------------------------------------------------
(* Texts in blocks, and EncryptedString.                                   *)

\* Eight bytes in a row are a block, and a block is eight bytes in a row.
LEMMA Eight ==
  ASSUME NEW S, NEW f \in [1..8 -> S]
  PROVE  f = <<f[1], f[2], f[3], f[4], f[5], f[6], f[7], f[8]>>
<1>1. PICK a1 \in S, a2 \in S, a3 \in S, a4 \in S, a5 \in S, a6 \in S, a7 \in S, a8 \in S :
        /\ a1 = f[1] /\ a2 = f[2] /\ a3 = f[3] /\ a4 = f[4]
        /\ a5 = f[5] /\ a6 = f[6] /\ a7 = f[7] /\ a8 = f[8]
  OBVIOUS
<1>2. PICK g : g = <<a1, a2, a3, a4, a5, a6, a7, a8>>  OBVIOUS
<1>3. /\ g \in Seq(S) /\ Len(g) = 8
      /\ g[1] = a1 /\ g[2] = a2 /\ g[3] = a3 /\ g[4] = a4
      /\ g[5] = a5 /\ g[6] = a6 /\ g[7] = a7 /\ g[8] = a8
  BY <1>2
<1>4. f \in Seq(S) /\ Len(f) = 8  BY FunctionIsSeq
<1>5. \A i \in 1..8 : i = 1 \/ i = 2 \/ i = 3 \/ i = 4 \/ i = 5 \/ i = 6 \/ i = 7 \/ i = 8
  OBVIOUS
<1>6. \A i \in 1..8 : f[i] = g[i]  BY <1>1, <1>3, <1>5
<1>7. f = g  BY <1>3, <1>4, <1>6, SeqEqual
<1> QED  BY <1>1, <1>2, <1>7

\* Eight bytes given by their places are a block.
LEMMA EightAreABlock ==
  ASSUME NEW f \in [1..8 -> Byte]
  PROVE  f \in Block
<1>1. <<f[1], f[2], f[3], f[4], f[5], f[6], f[7], f[8]>> \in Block  BY DEF Block
<1> QED  BY <1>1, Eight

\* A block is a sequence of eight bytes.
LEMMA BlockIsEight ==
  ASSUME NEW b \in Block
  PROVE  b \in Seq(Byte) /\ Len(b) = 8
<1>1. PICK a1 \in Byte, a2 \in Byte, a3 \in Byte, a4 \in Byte,
           a5 \in Byte, a6 \in Byte, a7 \in Byte, a8 \in Byte :
        b = <<a1, a2, a3, a4, a5, a6, a7, a8>>
  BY DEF Block
<1> QED  BY <1>1

\* How many blocks n bytes take.
BlockCount(n) == IF n = 0 THEN 1 ELSE (n + 7) \div 8

\* No more blocks than are needed.
LEMMA CountIs ==
  ASSUME NEW n \in Nat
  PROVE  /\ BlockCount(n) \in Nat /\ BlockCount(n) > 0
         /\ 8 * BlockCount(n) <= n + 8 /\ n <= 8 * BlockCount(n)
  BY DEF BlockCount

\* A text in blocks: its bytes in their order, then zeros (xormem, writeCBC).
LEMMA BlocksAre ==
  ASSUME NEW t \in Seq(Byte)
  PROVE  /\ BlocksOf(t) \in Seq(Block) /\ Len(BlocksOf(t)) = BlockCount(Len(t))
         /\ \A n \in 1..BlockCount(Len(t)), j \in 1..8 :
              8 * (n - 1) + j <= Len(t) => BlocksOf(t)[n][j] = t[8 * (n - 1) + j]
<1>1. PICK len \in Nat : len = Len(t)  BY LenProperties
<1>2. PICK z \in Seq(Byte) : z = Zeros(8) /\ Len(z) = 8
  <2>1. 0 \in Byte  BY ByteAssumption
  <2>2. 8 \in Nat  OBVIOUS
  <2>3. Zeros(8) \in Seq(Byte) /\ Len(Zeros(8)) = 8  BY <2>1, <2>2, ZerosAre
  <2> QED  BY <2>3
<1>3. PICK f \in Seq(Byte) : f = t \o Zeros(8) /\ Len(f) = len + 8
                             /\ \A i \in 1..len : f[i] = t[i]
  <2>1. t \o z \in Seq(Byte) /\ Joins(t, z, t \o z)  BY Joined
  <2> QED  BY <2>1, <1>1, <1>2 DEF Joins
<1>4. PICK c \in Nat : c = BlockCount(len) /\ c > 0 /\ 8 * c <= len + 8 /\ len <= 8 * c
  BY CountIs
<1>5. (IF t = <<>> THEN 1 ELSE (Len(t) + 7) \div 8) = c
  <2>1. t = <<>> <=> len = 0  BY <1>1, EmptySeq
  <2> QED  BY <2>1, <1>1, <1>4 DEF BlockCount
<1>6. BlocksOf(t) = [n \in 1..c |-> SubSeq(f, 8 * n - 7, 8 * n)]
  BY <1>3, <1>5 DEF BlocksOf
<1>7. ASSUME NEW n \in 1..c
      PROVE  /\ SubSeq(f, 8 * n - 7, 8 * n) \in [1..8 -> Byte]
             /\ \A j \in 1..8 : SubSeq(f, 8 * n - 7, 8 * n)[j] = f[8 * (n - 1) + j]
  <2>1. PICK at \in Nat : at = 8 * (n - 1) /\ at + 8 <= len + 8 /\ 8 * n - 7 = at + 1 /\ 8 * n = at + 8
    <3>1. 8 * (n - 1) \in Nat /\ 8 * (n - 1) + 8 <= len + 8 /\ 8 * n - 7 = 8 * (n - 1) + 1
          /\ 8 * n = 8 * (n - 1) + 8
      BY <1>4
    <3> QED  BY <3>1
  <2>2. /\ Part(f, at, 8) \in Seq(Byte) /\ Len(Part(f, at, 8)) = 8
        /\ \A i \in 1..8 : Part(f, at, 8)[i] = f[at + i]
    <3>1. 8 \in Nat /\ at + 8 <= Len(f)  BY <2>1, <1>3
    <3> QED  BY <3>1, PartIs
  <2>3. Part(f, at, 8) \in [1..8 -> Byte]  BY <2>2, LenProperties
  <2> QED  BY <2>1, <2>2, <2>3 DEF Part
<1>8. BlocksOf(t) \in [1..c -> Block]  BY <1>6, <1>7, EightAreABlock
<1>9. BlocksOf(t) \in Seq(Block) /\ Len(BlocksOf(t)) = c  BY <1>8, FunctionIsSeq
<1>10. ASSUME NEW n \in 1..c, NEW j \in 1..8, 8 * (n - 1) + j <= len
       PROVE  BlocksOf(t)[n][j] = t[8 * (n - 1) + j]
  <2>1. 8 * (n - 1) + j \in 1..len  BY <1>10
  <2>2. BlocksOf(t)[n] = SubSeq(f, 8 * n - 7, 8 * n)  BY <1>6
  <2> QED  BY <2>1, <2>2, <1>3, <1>7
<1> QED  BY <1>1, <1>4, <1>9, <1>10

\* From bytes to blocks and back (EncryptedString::get, readCBC).
LEMMA BytesBack ==
  ASSUME NEW t \in Seq(Byte)
  PROVE  BytesOf(BlocksOf(t), Len(t)) = t
<1>1. PICK len \in Nat : len = Len(t)  BY LenProperties
<1>2. PICK c \in Nat : c = BlockCount(len) /\ len <= 8 * c  BY CountIs
<1>3. ASSUME NEW i \in 1..len
      PROVE  BlocksOf(t)[((i - 1) \div 8) + 1][((i - 1) % 8) + 1] = t[i]
  <2>1. PICK n \in 1..c, j \in 1..8 : /\ n = ((i - 1) \div 8) + 1 /\ j = ((i - 1) % 8) + 1
                                      /\ 8 * (n - 1) + j = i
    <3>1. ((i - 1) \div 8) + 1 \in 1..c /\ ((i - 1) % 8) + 1 \in 1..8
          /\ 8 * ((((i - 1) \div 8) + 1) - 1) + (((i - 1) % 8) + 1) = i
      BY <1>2
    <3> QED  BY <3>1
  <2>2. BlocksOf(t)[n][j] = t[8 * (n - 1) + j]
    <3>1. n \in 1..BlockCount(Len(t)) /\ 8 * (n - 1) + j <= Len(t)  BY <2>1, <1>1, <1>2
    <3>2. \A k \in 1..BlockCount(Len(t)), e \in 1..8 :
            8 * (k - 1) + e <= Len(t) => BlocksOf(t)[k][e] = t[8 * (k - 1) + e]
      BY BlocksAre
    <3> QED  BY <3>1, <3>2
  <2> QED  BY <2>1, <2>2
<1>4. BytesOf(BlocksOf(t), len) = [i \in 1..len |-> t[i]]  BY <1>3 DEF BytesOf
<1>5. t = [i \in 1..len |-> t[i]]  BY <1>1, LenProperties
<1> QED  BY <1>1, <1>4, <1>5

\* The key of EncryptedString is a key.
LEMMA AlgorType == algor \in Key
  BY SecretAssumption, KeysAgree DEF algor

\* One block more, encrypted with the one before it.
SealStep(blocks) ==
  [x \in (1..Len(blocks)) \X Block |-> encrypt(algor, XorBlock(blocks[x[1]], x[2]))]

\* The encrypted blocks, each made from the one before it (EncryptedString::set).
LEMMA SealUnfolds ==
  ASSUME NEW cbc \in Block, NEW blocks \in Seq(Block)
  PROVE  \E e : /\ Iterates(e, Len(blocks), Block, cbc, SealStep(blocks))
               /\ Sealed(cbc, blocks) = [n \in 1..Len(blocks) |-> e[n]]
               /\ \A n \in 1..Len(blocks) : /\ e[n] = encrypt(algor, XorBlock(blocks[n], e[n - 1]))
                                           /\ e[n] \in Block /\ e[n - 1] \in Block
<1>1. PICK len \in Nat : len = Len(blocks)  BY LenProperties
<1> DEFINE Q(g) == g = [n \in 1..len |-> encrypt(algor, XorBlock(blocks[n], IF n = 1 THEN cbc ELSE g[n - 1]))]
           h == CHOOSE g : Q(g)
           step == SealStep(blocks)
<1>2. Sealed(cbc, blocks) = h  BY <1>1 DEF Sealed
<1>3. ASSUME NEW n \in 1..len, NEW x \in Block
      PROVE  /\ step[<<n, x>>] = encrypt(algor, XorBlock(blocks[n], x))
             /\ encrypt(algor, XorBlock(blocks[n], x)) \in Block
  <2>1. blocks[n] \in Block  BY <1>1
  <2>2. XorBlock(blocks[n], x) \in Block  BY <2>1, XorBlockUndone
  <2>3. encrypt(algor, XorBlock(blocks[n], x)) \in Block  BY <2>2, AlgorType, DecryptUndoes
  <2> QED  BY <2>3, <1>1 DEF SealStep
<1>4. step \in Steps(len, Block)  BY <1>1, <1>3 DEF Steps, SealStep
<1> HIDE DEF step
<1>5. PICK f : Iterates(f, len, Block, cbc, step)  BY <1>4, Iteration
<1>6. Q(h)
  <2> DEFINE g == [n \in 1..len |-> f[n]]
  <2>1. f \in [0..len -> Block] /\ f[0] = cbc /\ \A m \in 1..len : f[m] = step[<<m, f[m - 1]>>]
    BY <1>5 DEF Iterates
  <2>2. ASSUME NEW n \in 1..len
        PROVE  g[n] = encrypt(algor, XorBlock(blocks[n], IF n = 1 THEN cbc ELSE g[n - 1]))
    <3>1. f[n - 1] = IF n = 1 THEN cbc ELSE g[n - 1]  BY <2>1
    <3>2. f[n - 1] \in Block  BY <2>1
    <3>3. f[n] = encrypt(algor, XorBlock(blocks[n], f[n - 1]))  BY <2>1, <3>2, <1>3
    <3> QED  BY <3>1, <3>3
  <2>3. Q(g)  BY <2>2
  <2> HIDE DEF Q, g
  <2> QED  BY <2>3
<1> HIDE DEF h
<1> DEFINE e == [n \in 0..len |-> IF n = 0 THEN cbc ELSE h[n]]
<1>7. e[0] = cbc /\ \A n \in 1..len : e[n] = h[n]  OBVIOUS
<1>8. ASSUME NEW n \in 1..len PROVE e[n] = encrypt(algor, XorBlock(blocks[n], e[n - 1]))
  <2>1. e[n - 1] = IF n = 1 THEN cbc ELSE h[n - 1]  OBVIOUS
  <2>2. h[n] = encrypt(algor, XorBlock(blocks[n], IF n = 1 THEN cbc ELSE h[n - 1]))  BY <1>6
  <2> QED  BY <2>1, <2>2, <1>7
<1>9. e = [n \in 0..len |-> IF n = 0 THEN cbc ELSE h[n]]  OBVIOUS
<1> HIDE DEF e
<1>10. Iterates(e, len, Block, cbc, step)
  <2>1. e = [n \in 0..len |-> e[n]]  BY <1>9
  <2>2. \A n \in 1..len : e[n - 1] \in Block => e[n] = step[<<n, e[n - 1]>>]
    BY <1>3, <1>8
  <2> QED  BY <2>1, <2>2, <1>4, <1>7, Followed
<1>11. h = [n \in 1..len |-> e[n]]
  <2>1. h = [n \in 1..len |-> h[n]]  BY <1>6
  <2> QED  BY <2>1, <1>7
<1>12. ASSUME NEW n \in 1..len PROVE e[n] \in Block /\ e[n - 1] \in Block
  <2>1. n \in 0..len /\ n - 1 \in 0..len  OBVIOUS
  <2> QED  BY <2>1, <1>10 DEF Iterates
<1> QED  BY <1>1, <1>2, <1>8, <1>10, <1>11, <1>12 DEF step

\* What was encrypted is decrypted (EncryptedString::set, EncryptedString::get).
LEMMA SealUndone ==
  ASSUME NEW cbc \in Block, NEW blocks \in Seq(Block)
  PROVE  /\ Unsealed(cbc, Sealed(cbc, blocks)) = blocks
         /\ blocks # <<>> => Sealed(cbc, blocks) # <<>>
<1>1. PICK len \in Nat : len = Len(blocks)  BY LenProperties
<1>2. PICK e : /\ e[0] = cbc /\ Sealed(cbc, blocks) = [n \in 1..len |-> e[n]]
               /\ \A n \in 1..len : /\ e[n] = encrypt(algor, XorBlock(blocks[n], e[n - 1]))
                                   /\ e[n] \in Block /\ e[n - 1] \in Block
  <2>1. PICK e : /\ Iterates(e, len, Block, cbc, SealStep(blocks))
                 /\ Sealed(cbc, blocks) = [n \in 1..len |-> e[n]]
                 /\ \A n \in 1..len : /\ e[n] = encrypt(algor, XorBlock(blocks[n], e[n - 1]))
                                     /\ e[n] \in Block /\ e[n - 1] \in Block
    BY <1>1, SealUnfolds
  <2> QED  BY <2>1 DEF Iterates
<1> DEFINE data == Sealed(cbc, blocks)
<1>3. DOMAIN data = 1..len /\ \A n \in 1..len : data[n] = e[n]  BY <1>2
<1> HIDE DEF data
<1>4. ASSUME NEW n \in 1..len
      PROVE  XorBlock(decrypt(algor, data[n]), IF n = 1 THEN cbc ELSE data[n - 1]) = blocks[n]
  <2>1. e[n - 1] = IF n = 1 THEN cbc ELSE data[n - 1]  BY <1>2, <1>3
  <2>2. blocks[n] \in Block /\ e[n - 1] \in Block  BY <1>1, <1>2
  <2>3. XorBlock(blocks[n], e[n - 1]) \in Block
        /\ XorBlock(XorBlock(blocks[n], e[n - 1]), e[n - 1]) = blocks[n]
    BY <2>2, XorBlockUndone
  <2>4. decrypt(algor, data[n]) = XorBlock(blocks[n], e[n - 1])
    BY <2>3, <1>2, <1>3, AlgorType, DecryptUndoes
  <2> QED  BY <2>1, <2>3, <2>4
<1>5. Unsealed(cbc, data) = [n \in 1..len |-> blocks[n]]  BY <1>3, <1>4 DEF Unsealed
<1>6. blocks = [n \in 1..len |-> blocks[n]]  BY <1>1, LenProperties
<1>7. blocks # <<>> => data # <<>>
  <2>1. blocks # <<>> => len # 0  BY <1>1, EmptySeq
  <2>2. data = <<>> => DOMAIN data = {}  OBVIOUS
  <2>3. len # 0 => 1 \in 1..len  OBVIOUS
  <2> QED  BY <2>1, <2>2, <2>3, <1>3
<1> QED  BY <1>5, <1>6, <1>7 DEF data

-----------------------------------------------------------------------------
\* The bytes, and whatever padding adds.
Symbols == Byte \cup {Mark} \cup {LengthBytes(n)[i] : n \in Nat, i \in 1..8}

\* The symbols are enough for padding, and bytes are symbols.
LEMMA SymbolsPad == Pads(Symbols) /\ \A t \in Seq(Byte) : t \in Seq(Symbols)
<1>1. 0 \in Symbols /\ Mark \in Symbols  BY ByteAssumption DEF Symbols
<1>2. ASSUME NEW n \in Nat PROVE LengthBytes(n) \in [1..8 -> Symbols]
  <2>1. \A i \in 1..8 : LengthBytes(n)[i] \in Symbols  BY DEF Symbols
  <2>2. LengthBytes(n) = [i \in 1..8 |-> LengthBytes(n)[i]]  BY DEF LengthBytes
  <2> QED  BY <2>1, <2>2
<1>3. ASSUME NEW t \in Seq(Byte) PROVE t \in Seq(Symbols)
  <2>1. PICK n \in Nat : n = Len(t) /\ t \in [1..n -> Byte]  BY LenProperties
  <2>2. t \in [1..n -> Symbols]  BY <2>1 DEF Symbols
  <2> QED  BY <2>2, FunctionIsSeq
<1> QED  BY <1>1, <1>2, <1>3 DEF Pads

\* A context that has taken nothing yet.
LEMMA Contexts ==
  /\ sha1_init = Written(<<>>) /\ SHA1Init = Taken("constants", <<>>)
  /\ AfterFinal = Taken("zeros", <<>>)
<1>1. Len(<<>>) = 0  OBVIOUS
<1> QED  BY <1>1, EmptyMessage DEF sha1_init, SHA1Init, AfterFinal, Written, Taken, State, Fresh, Wiped

\* However it is written, the digest is that of the whole (Sha1).
LEMMA HashOf ==
  ASSUME NEW t \in Seq(Byte), NEW u \in Seq(Byte)
  PROVE  /\ sha1_final(sha1_write(sha1_init, t)) = DigestOf("constants", t)
         /\ sha1_final(sha1_write(sha1_write(sha1_init, t), u)) = DigestOf("constants", t \o u)
<1>1. /\ <<>> \in Seq(Symbols) /\ t \in Seq(Symbols) /\ u \in Seq(Symbols) /\ t \o u \in Seq(Symbols)
      /\ <<>> \o t = t
  <2>1. t \in Seq(Symbols) /\ u \in Seq(Symbols)  BY SymbolsPad
  <2> QED  BY <2>1, Joined, ConcatEmptySeq
<1>2. sha1_write(sha1_init, t) = Written(t)
  <2>1. sha1_write(Written(<<>>), t) = Written(<<>> \o t)  BY <1>1, WriteWritten
  <2> QED  BY <2>1, <1>1, Contexts
<1>3. sha1_write(Written(t), u) = Written(t \o u)  BY <1>1, WriteWritten
<1>4. sha1_final(Written(t)) = DigestOf("constants", t)  BY <1>1, SymbolsPad, FinalWritten
<1>5. sha1_final(Written(t \o u)) = DigestOf("constants", t \o u)
  BY <1>1, SymbolsPad, FinalWritten
<1> QED  BY <1>2, <1>3, <1>4, <1>5

\* One digest, one text.
LEMMA HashDetermines ==
  ASSUME NEW t \in Seq(Byte), NEW u \in Seq(Byte),
         DigestOf("constants", t) = DigestOf("constants", u)
  PROVE  t = u
  BY SymbolsPad, DigestDetermines

\* An object that was last given t: it is empty, or it has the blocks of t,
\* their length and the hash of t.
Holding(es, t) ==
  /\ es.cbc \in Block
  /\ es.data = <<>> => es.length = 0
  /\ es.length = 0 => t = <<>>
  /\ es.length # 0 => /\ es.length = Len(t) /\ es.data = Sealed(es.cbc, BlocksOf(t))
                      /\ es.hash = DigestOf("constants", t)

\* A text, by itself and as the string there is.
LEMMA TextType ==
  ASSUME NEW t \in Texts
  PROVE  /\ t \in Seq(Byte) /\ Len(t) \in Nat /\ (Len(t) = 0 <=> t = <<>>)
         /\ {t} # {} /\ TheText({t}) = t /\ TheText({}) = <<>>
<1>1. t \in Seq(Byte)  BY SecretAssumption
<1> QED  BY <1>1, LenProperties, EmptySeq DEF TheText

\* What get gives of an object (EncryptedString::get).
LEMMA GetIs ==
  ASSUME NEW es, NEW t \in Texts, Holding(es, t)
  PROVE  get(es) = IF t = <<>> THEN {} ELSE {t}
<1>1. t \in Seq(Byte) /\ Len(t) \in Nat /\ (Len(t) = 0 <=> t = <<>>)  BY TextType
<1>2. CASE es.length = 0
  <2>1. ~(es.length > 0)  BY <1>2
  <2> QED  BY <2>1, <1>2 DEF get, Holding
<1>3. CASE es.length # 0
  <2>1. /\ es.cbc \in Block /\ es.length = Len(t) /\ es.data = Sealed(es.cbc, BlocksOf(t))
        /\ es.data # <<>>
    BY <1>3 DEF Holding
  <2>2. es.length > 0 /\ t # <<>>  BY <2>1, <1>1, <1>3
  <2>3. get(es) = {BytesOf(Unsealed(es.cbc, es.data), es.length)}  BY <2>1, <2>2 DEF get
  <2>4. BlocksOf(t) \in Seq(Block)  BY <1>1, BlocksAre
  <2>5. Unsealed(es.cbc, Sealed(es.cbc, BlocksOf(t))) = BlocksOf(t)  BY <2>1, <2>4, SealUndone
  <2>6. BytesOf(BlocksOf(t), Len(t)) = t  BY <1>1, BytesBack
  <2>7. BytesOf(Unsealed(es.cbc, es.data), es.length) = t  BY <2>1, <2>5, <2>6
  <2> QED  BY <2>2, <2>3, <2>7
<1> QED  BY <1>2, <1>3

\* The text that get gives.
LEMMA TextOfGet ==
  ASSUME NEW es, NEW t \in Texts, Holding(es, t)
  PROVE  TheText(get(es)) = t
  BY GetIs, TextType

\* The string that get gives is the text, or NULL for the empty one.
StrOf(t) == IF t = <<>> THEN {} ELSE {t}

\* set, from any state of the object (EncryptedString::set).
LEMMA SetHolds ==
  ASSUME NEW es, es.cbc \in Block, NEW t \in Texts
  PROVE  Holding(set(es, {t}), t)
<1>1. /\ t \in Seq(Byte) /\ Len(t) \in Nat /\ (Len(t) = 0 <=> t = <<>>)
      /\ {t} # {} /\ TheText({t}) = t /\ TheText({}) = <<>>
  BY TextType
<1>2. BlocksOf(t) \in Seq(Block) /\ BlocksOf(t) # <<>>
  <2>1. /\ BlocksOf(t) \in Seq(Block) /\ Len(BlocksOf(t)) = BlockCount(Len(t))
        /\ BlockCount(Len(t)) > 0
    BY <1>1, BlocksAre, CountIs
  <2> QED  BY <2>1, EmptySeq
<1>3. /\ Unsealed(es.cbc, Sealed(es.cbc, BlocksOf(t))) = BlocksOf(t)
      /\ Sealed(es.cbc, BlocksOf(t)) # <<>>
  BY <1>2, SealUndone
<1> DEFINE f == Filling(es, t)
<1>4. /\ f.cbc = es.cbc /\ f.length = Len(t) /\ f.data = Sealed(es.cbc, BlocksOf(t))
  BY DEF Filling
<1> HIDE DEF f
<1>5. TheText(get(f)) = t
  <2>1. CASE t = <<>>
    <3>1. get(f) = {}  BY <2>1, <1>1, <1>4 DEF get
    <3> QED  BY <3>1, <2>1, <1>1
  <2>2. CASE t # <<>>
    <3>1. f.length > 0 /\ f.data # <<>>  BY <2>2, <1>1, <1>3, <1>4
    <3>2. get(f) = {BytesOf(Unsealed(f.cbc, f.data), f.length)}  BY <3>1 DEF get
    <3>3. BytesOf(Unsealed(f.cbc, f.data), f.length) = t
      <4>1. BytesOf(BlocksOf(t), Len(t)) = t  BY <1>1, BytesBack
      <4> QED  BY <4>1, <1>3, <1>4
    <3> QED  BY <3>2, <3>3, <1>1
  <2> QED  BY <2>1, <2>2
<1>6. set(es, {t}) = Hashed(f)  BY <1>1 DEF set, f
<1>7. sha1_final(sha1_write(sha1_init, t)) = DigestOf("constants", t)  BY <1>1, HashOf
<1>8. /\ Hashed(f).cbc = es.cbc /\ Hashed(f).length = Len(t)
      /\ Hashed(f).data = Sealed(es.cbc, BlocksOf(t))
      /\ Hashed(f).hash = DigestOf("constants", t)
  BY <1>4, <1>5, <1>7 DEF Hashed
<1> QED  BY <1>1, <1>3, <1>6, <1>8 DEF Holding

\* Clearing, and set of NULL (EncryptedString::trashAndDelete).
LEMMA ClearHolds ==
  ASSUME NEW es, NEW t \in Texts, Holding(es, t)
  PROVE  Holding(trashAndDelete(es), <<>>) /\ Holding(set(es, {}), <<>>)
<1>1. set(es, {}) = trashAndDelete(es)  BY DEF set
<1>2. CASE es.data = <<>>
  BY <1>1, <1>2 DEF trashAndDelete, Holding
<1>3. CASE es.data # <<>>
  BY <1>1, <1>3 DEF trashAndDelete, Emptied, Holding
<1> QED  BY <1>2, <1>3

\* set of what another object gives.
LEMMA SetStrHolds ==
  ASSUME NEW es, NEW u \in Texts, Holding(es, u), NEW t \in Texts
  PROVE  Holding(set(es, StrOf(t)), t)
<1>1. CASE t = <<>>  BY <1>1, ClearHolds DEF StrOf
<1>2. CASE t # <<>>
  <2>1. es.cbc \in Block  BY DEF Holding
  <2> QED  BY <2>1, <1>2, SetHolds DEF StrOf
<1> QED  BY <1>1, <1>2

\* A new object holds nothing.
LEMMA ConstructedHolds ==
  ASSUME NEW seed \in Seeds
  PROVE  Holding(Constructed(seed), <<>>)
  BY SecretAssumption DEF Constructed, Holding

\* A copy is another object with the same text (the copy constructor).
LEMMA CopyHolds ==
  ASSUME NEW es, NEW t \in Texts, Holding(es, t)
  PROVE  Holding(CopyOf(es), t)
<1>1. CASE es.length = 0  BY <1>1 DEF CopyOf, Emptied, Holding
<1>2. CASE es.length # 0  BY <1>2 DEF CopyOf
<1> QED  BY <1>1, <1>2

\* Two objects compare equal if and only if they hold one text (operator==).
LEMMA EqualIs ==
  ASSUME NEW a, NEW b, NEW t \in Texts, NEW u \in Texts, Holding(a, t), Holding(b, u)
  PROVE  Equal(a, b) <=> t = u
<1>1. /\ t \in Seq(Byte) /\ (Len(t) = 0 <=> t = <<>>)
      /\ u \in Seq(Byte) /\ (Len(u) = 0 <=> u = <<>>)
  BY TextType
<1>2. (a.length = 0 <=> t = <<>>) /\ (b.length = 0 <=> u = <<>>)  BY <1>1 DEF Holding
<1>3. CASE a.length = 0 \/ b.length = 0
  <2>1. Equal(a, b) <=> a.length = b.length  BY <1>3 DEF Equal
  <2> QED  BY <2>1, <1>2, <1>3
<1>4. CASE ~(a.length = 0 \/ b.length = 0)
  <2>1. Equal(a, b) <=> a.hash = b.hash  BY <1>4 DEF Equal
  <2>2. a.hash = DigestOf("constants", t) /\ b.hash = DigestOf("constants", u)
    BY <1>4 DEF Holding
  <2>3. DigestOf("constants", t) = DigestOf("constants", u) => t = u  BY <1>1, HashDetermines
  <2> QED  BY <2>1, <2>2, <2>3
<1> QED  BY <1>3, <1>4

-----------------------------------------------------------------------------
\* What makes HoldsItsText inductive.
TextInv ==
  /\ obj = [o \in Obj |-> obj[o]] /\ text \in [Obj -> Texts]
  /\ \A o \in Obj : Holding(obj[o], text[o])

\* The invariant gives the property: EncryptedString holds its text.
LEMMA TextInvHolds == TextInv => HoldsItsText
<1> SUFFICES ASSUME TextInv, NEW o \in Obj, NEW p \in Obj
             PROVE  /\ get(obj[o]) = IF text[o] = <<>> THEN {} ELSE {text[o]}
                    /\ Equal(obj[o], obj[p]) <=> text[o] = text[p]
  BY DEF HoldsItsText
<1>1. text[o] \in Texts /\ text[p] \in Texts /\ Holding(obj[o], text[o]) /\ Holding(obj[p], text[p])
  BY DEF TextInv
<1> QED  BY <1>1, GetIs, EqualIs

\* Any change of one object that leaves it holding a text keeps the invariant.
LEMMA EditKeepsText ==
  ASSUME TextInv, NEW o \in Obj, NEW es, NEW t \in Texts, Holding(es, t), Edit(o, es, t)
  PROVE  TextInv'
<1>1. obj' = [obj EXCEPT ![o] = es] /\ text' = [text EXCEPT ![o] = t]  BY DEF Edit
<1>2. obj = [x \in Obj |-> obj[x]] /\ text \in [Obj -> Texts]  BY DEF TextInv
<1>3. obj' = [x \in Obj |-> IF x = o THEN es ELSE obj[x]]  BY <1>1, <1>2
<1>4. obj' = [x \in Obj |-> obj'[x]]  BY <1>3
<1>5. text' \in [Obj -> Texts]  BY <1>1, <1>2
<1>6. ASSUME NEW x \in Obj PROVE Holding(obj'[x], text'[x])
  <2>1. CASE x = o
    <3>1. obj'[x] = es /\ text'[x] = t  BY <2>1, <1>1, <1>2, <1>3
    <3> QED  BY <3>1
  <2>2. CASE x # o
    <3>1. obj'[x] = obj[x] /\ text'[x] = text[x]  BY <2>2, <1>1, <1>2, <1>3
    <3> QED  BY <3>1 DEF TextInv
  <2> QED  BY <2>1, <2>2
<1> QED  BY <1>4, <1>5, <1>6 DEF TextInv

\* The objects hold nothing at first.
LEMMA TextInvInit == Init => TextInv
<1> SUFFICES ASSUME Init PROVE TextInv  OBVIOUS
<1>1. PICK seed \in Seeds : obj = [o \in Obj |-> Constructed(seed)]  BY DEF Init
<1>2. text = [o \in Obj |-> <<>>] /\ <<>> \in Texts  BY SecretAssumption DEF Init
<1> QED  BY <1>1, <1>2, ConstructedHolds DEF TextInv

\* Every step keeps the invariant (the constructor, set, the copy constructor).
LEMMA TextInvNext == TextInv /\ [Next]_vars => TextInv'
<1> SUFFICES ASSUME TextInv, [Next]_vars PROVE TextInv'  OBVIOUS
<1>0. \A o \in Obj : text[o] \in Texts /\ Holding(obj[o], text[o]) /\ get(obj[o]) = StrOf(text[o])
  BY GetIs DEF TextInv, StrOf
<1>1. ASSUME NEW o \in Obj, Construct(o) PROVE TextInv'
  <2>1. PICK seed \in Seeds : Edit(o, Constructed(seed), <<>>)  BY <1>1 DEF Construct
  <2>2. <<>> \in Texts  BY SecretAssumption
  <2> QED  BY <2>1, <2>2, ConstructedHolds, EditKeepsText
<1>2. ASSUME NEW o \in Obj, SetText(o) PROVE TextInv'
  <2>1. PICK t \in Texts : Edit(o, set(obj[o], {t}), t)  BY <1>2 DEF SetText
  <2>2. obj[o].cbc \in Block  BY <1>0 DEF Holding
  <2>3. Holding(set(obj[o], {t}), t)  BY <2>2, SetHolds
  <2> QED  BY <2>1, <2>3, EditKeepsText
<1>3. ASSUME NEW o \in Obj, SetFrom(o) PROVE TextInv'
  <2>1. PICK p \in Obj : Edit(o, set(obj[o], get(obj[p])), text[p])  BY <1>3 DEF SetFrom
  <2>2. Holding(set(obj[o], StrOf(text[p])), text[p])  BY <1>0, SetStrHolds
  <2> QED  BY <2>1, <2>2, <1>0, EditKeepsText
<1>4. ASSUME NEW o \in Obj, CopyConstruct(o) PROVE TextInv'
  <2>1. PICK p \in Obj : Edit(o, CopyOf(obj[p]), text[p])  BY <1>4 DEF CopyConstruct
  <2>2. Holding(CopyOf(obj[p]), text[p])  BY <1>0, CopyHolds
  <2> QED  BY <2>1, <2>2, <1>0, EditKeepsText
<1>5. ASSUME NEW o \in Obj, Clear(o) PROVE TextInv'
  <2>1. Edit(o, trashAndDelete(obj[o]), <<>>) /\ <<>> \in Texts
    BY <1>5, SecretAssumption DEF Clear
  <2>2. Holding(trashAndDelete(obj[o]), <<>>)  BY <1>0, ClearHolds
  <2> QED  BY <2>1, <2>2, EditKeepsText
<1>6. CASE UNCHANGED <<obj, text>>  BY <1>6 DEF TextInv, Holding
<1>7. ASSUME NEW o \in Obj, Save(o) \/ Open(o) PROVE TextInv'
  BY <1>6, <1>7 DEF Save, Open
<1>8. CASE NextRecord \/ WriteNext \/ Close \/ ReadNext
  BY <1>6, <1>8 DEF NextRecord, WriteNext, Close, ReadNext
<1>9. CASE UNCHANGED vars  BY <1>6, <1>9 DEF vars
<1> QED  BY <1>1, <1>2, <1>3, <1>4, <1>5, <1>7, <1>8, <1>9 DEF Next

\* HoldsItsText for any objects, texts, tables and keys (EncryptedString::set,
\* get, the copy constructor, operator==).
THEOREM SecretHoldsItsText == Spec => []HoldsItsText
<1> QED  BY TextInvInit, TextInvNext, TextInvHolds, PTL DEF Spec

-----------------------------------------------------------------------------
(* Check value and key of a file.                                          *)

\* The elements of c behind the first k are those of a.
Follows(c, k, a) == k + Len(a) <= Len(c) /\ \A i \in 1..Len(a) : c[k + i] = a[i]

\* A stretch of c that has the elements of a is a.
LEMMA PartThatIs ==
  ASSUME NEW S, NEW c \in Seq(S), NEW a \in Seq(S), NEW k \in Nat, NEW n \in Nat,
         n = Len(a), Follows(c, k, a)
  PROVE  Part(c, k, n) = a
<1>0. k + n <= Len(c)  BY DEF Follows
<1>1. /\ Part(c, k, n) \in Seq(S) /\ Len(Part(c, k, n)) = n
      /\ \A i \in 1..n : Part(c, k, n)[i] = c[k + i]
  BY ZenonT(40), <1>0, PartIs
<1>2. \A i \in 1..n : Part(c, k, n)[i] = a[i]
  <2>1. \A i \in 1..n : c[k + i] = a[i]  BY DEF Follows
  <2> QED  BY <1>1, <2>1
<1> QED  BY <1>1, <1>2, SeqEqual

\* SubSeq of two sequences joined, at the place where they meet.
LEMMA JoinApart ==
  ASSUME NEW S, NEW a \in Seq(S), NEW b \in Seq(S), NEW m \in Nat, NEW n \in Nat,
         Len(a) = m, Len(b) = n
  PROVE  Part(a \o b, 0, m) = a /\ Part(a \o b, m, n) = b
<1>1. PICK c \in Seq(S) : c = a \o b /\ Joins(a, b, c)  BY Joined
<1>2. Len(c) = m + n  BY <1>1 DEF Joins
<1>3. Part(c, 0, m) = a
  <2>1. \A i \in 1..m : c[0 + i] = a[i]  BY <1>1 DEF Joins
  <2>2. 0 \in Nat /\ m = Len(a) /\ Follows(c, 0, a)  BY <2>1, <1>2 DEF Follows
  <2> QED  BY <2>1, <2>2, PartThatIs
<1>4. Part(c, m, n) = b
  <2>1. \A i \in 1..n : c[m + i] = b[i]  BY <1>1 DEF Joins
  <2>2. n = Len(b) /\ Follows(c, m, b)  BY <2>1, <1>2 DEF Follows
  <2> QED  BY <2>1, <2>2, PartThatIs
<1> QED  BY <1>1, <1>3, <1>4

\* randstuff: the block that is drawn, and two zeros (GenRandhash).
LEMMA StuffIs ==
  ASSUME NEW st \in Stuffs
  PROVE  /\ st \o <<0, 0>> \in Seq(Byte)
         /\ SubSeq(st \o <<0, 0>>, 1, 8) \in Block /\ SubSeq(st \o <<0, 0>>, 9, 10) \in Seq(Byte)
<1>1. st \in Block  BY SecretAssumption
<1>2. st \in Seq(Byte) /\ Len(st) = 8  BY <1>1, BlockIsEight
<1>3. PICK z \in Seq(Byte) : z = <<0, 0>> /\ Len(z) = 2
  <2>1. 0 \in Byte  BY ByteAssumption
  <2>2. <<0, 0>> \in Seq(Byte) /\ Len(<<0, 0>>) = 2  BY <2>1
  <2> QED  BY <2>2
<1>4. st \o z \in Seq(Byte)  BY <1>2, Joined
<1>5. Part(st \o z, 0, 8) = st /\ Part(st \o z, 8, 2) = z
  <2>1. PICK m \in Nat, n \in Nat : m = 8 /\ n = 2  OBVIOUS
  <2>2. Len(st) = m /\ Len(z) = n /\ st \in Seq(Byte) /\ z \in Seq(Byte)  BY <2>1, <1>2, <1>3
  <2>3. Part(st \o z, 0, m) = st /\ Part(st \o z, m, n) = z  BY <2>2, JoinApart
  <2> QED  BY <2>1, <2>3
<1>6. /\ Part(st \o z, 0, 8) = SubSeq(st \o z, 1, 8)
      /\ Part(st \o z, 8, 2) = SubSeq(st \o z, 9, 10)
  <2>1. 0 + 1 = 1 /\ 0 + 8 = 8 /\ 8 + 1 = 9 /\ 8 + 2 = 10  OBVIOUS
  <2> QED  BY <2>1 DEF Part
<1> QED  BY <1>1, <1>3, <1>4, <1>5, <1>6

\* A digest is a key of twenty bytes.
LEMMA DigestKeys ==
  ASSUME NEW h, HashBytes(h) \in [1..20 -> Byte]
  PROVE  /\ digest(h) = HashBytes(h) /\ digest(h) \in Seq(Byte) /\ digest(h) # <<>>
         /\ bf_setkey(digest(h)) \in Key /\ InitializeBlowfish(digest(h)) = bf_setkey(digest(h))
<1>1. digest(h) = HashBytes(h)  BY DEF digest, With
<1>2. 20 \in Nat  OBVIOUS
<1>3. HashBytes(h) \in Seq(Byte) /\ Len(HashBytes(h)) = 20  BY <1>2, FunctionIsSeq
<1>4. HashBytes(h) # <<>>
  <2>1. PICK d \in Seq(Byte) : d = HashBytes(h) /\ Len(d) = 20  BY <1>3
  <2>2. Len(d) # 0  BY <2>1
  <2>3. d # <<>>  BY <2>2, EmptySeq
  <2> QED  BY <2>1, <2>3
<1> QED  BY <1>1, <1>3, <1>4, KeysAgree

\* The text of such a string.
LEMMA StrText ==
  ASSUME NEW t \in Texts
  PROVE  TheText(StrOf(t)) = t
  BY TextType DEF StrOf

\* The key of a file (makeBlowfish).
FileKey(t, salt) == InitializeBlowfish(digest(DigestOf("constants", t \o salt)))

\* The key that makeBlowfish makes is a key, and is the one of the format.
LEMMA FileKeyIs ==
  ASSUME NEW t \in Texts, NEW salt \in Salts
  PROVE  makeBlowfish(StrOf(t), salt) = FileKey(t, salt) /\ FileKey(t, salt) \in Key
<1>1. t \in Seq(Byte) /\ salt \in Seq(Byte)  BY SecretAssumption
<1>2. sha1_final(sha1_write(sha1_write(sha1_init, t), salt)) = DigestOf("constants", t \o salt)
  BY <1>1, HashOf
<1>3. HashBytes(DigestOf("constants", t \o salt)) \in [1..20 -> Byte]  BY DigestAssumption
<1>4. /\ bf_setkey(digest(DigestOf("constants", t \o salt))) \in Key
      /\ FileKey(t, salt) = bf_setkey(digest(DigestOf("constants", t \o salt)))
  BY <1>3, DigestKeys DEF FileKey
<1>5. makeBlowfish(StrOf(t), salt) = bf_setkey(digest(DigestOf("constants", t \o salt)))
  BY <1>2, StrText DEF makeBlowfish
<1> QED  BY <1>4, <1>5

\* The check value of a file (GenRandhash).
CheckValue(t, stuff) ==
  DigestOf("zeros", Stirred(bf_setkey(digest(DigestOf("constants", stuff \o t))), stuff, encrypt))

\* GenRandhash gives the check value of the format, whatever the string is called.
LEMMA CheckValueIs ==
  ASSUME NEW t \in Texts, NEW str, TheText(str) = t, NEW st \in Stuffs
  PROVE  GenRandhash(str, st \o <<0, 0>>).hash = CheckValue(t, st \o <<0, 0>>)
<1>1. PICK stuff \in Seq(Byte) : /\ stuff = st \o <<0, 0>> /\ SubSeq(stuff, 1, 8) \in Block
                                 /\ SubSeq(stuff, 9, 10) \in Seq(Byte)
  BY StuffIs
<1>2. t \in Seq(Byte)  BY SecretAssumption
<1>3. /\ <<>> \in Seq(Symbols) /\ t \in Seq(Symbols) /\ stuff \in Seq(Symbols)
      /\ stuff \o t \in Seq(Symbols) /\ <<>> \o stuff = stuff
  <2>1. t \in Seq(Symbols) /\ stuff \in Seq(Symbols)  BY <1>1, <1>2, SymbolsPad
  <2> QED  BY <2>1, Joined, ConcatEmptySeq
<1> DEFINE key == digest(DigestOf("constants", stuff \o t))
           buf == Stirred(InitializeBlowfish(key), stuff, PwsEncrypt)
           goal == Stirred(bf_setkey(key), stuff, encrypt)
<1>4. SHA1Final(SHA1Update(SHA1Update(SHA1Init, stuff), t)) = DigestOf("constants", stuff \o t)
  <2>1. SHA1Update(Taken("constants", <<>>), stuff) = Taken("constants", <<>> \o stuff)
    BY ZenonT(40), <1>3, UpdateTaken
  <2>2. SHA1Update(Taken("constants", stuff), t) = Taken("constants", stuff \o t)
    BY <1>3, UpdateTaken
  <2>3. SHA1Final(Taken("constants", stuff \o t)) = DigestOf("constants", stuff \o t)
    BY <1>3, SymbolsPad, FinalTaken
  <2> QED  BY <2>1, <2>2, <2>3, <1>3, Contexts
<1>5. bf_setkey(key) \in Key /\ InitializeBlowfish(key) = bf_setkey(key)
  <2>1. HashBytes(DigestOf("constants", stuff \o t)) \in [1..20 -> Byte]
    BY <1>1, DigestAssumption
  <2> QED  BY <2>1, DigestKeys
<1>6. GenRandhash(str, stuff).hash = SHA1Final(SHA1Update(AfterFinal, buf))
  <2> DEFINE context == SHA1Update(SHA1Init, stuff)
             Of(data) ==
               LET tempSalt == digest(SHA1Final(SHA1Update(context, data)))
                   tempbuf  == Stirred(InitializeBlowfish(tempSalt), stuff, PwsEncrypt)
               IN  [hash |-> SHA1Final(SHA1Update(AfterFinal, tempbuf)),
                    left |-> IF str = {} THEN {} ELSE {Overwritten(context, data)}]
  <2>1. GenRandhash(str, stuff) = With(TheText(str), Of)  BY DEF GenRandhash
  <2>2. With(t, Of) = Of(t)
    <3> HIDE DEF Of
    <3> QED  BY DEF With
  <2>3. Of(t).hash = SHA1Final(SHA1Update(AfterFinal, buf))  BY <1>4
  <2> HIDE DEF Of
  <2> QED  BY <2>1, <2>2, <2>3
<1> HIDE DEF key
<1>7. buf = goal /\ goal \in Seq(Byte)
  <2>1. /\ Stirred(bf_setkey(key), stuff, PwsEncrypt) = goal
        /\ \E x \in Block : goal = x \o SubSeq(stuff, 9, 10)
    BY <1>1, <1>5, StirsAgree
  <2>2. PICK x \in Block : goal = x \o SubSeq(stuff, 9, 10)  BY <2>1
  <2>3. x \in Seq(Byte)  BY BlockIsEight
  <2>4. x \o SubSeq(stuff, 9, 10) \in Seq(Byte)  BY <2>3, <1>1, Joined
  <2> QED  BY <2>1, <2>2, <2>4, <1>5
<1> HIDE DEF buf, goal
<1>8. SHA1Final(SHA1Update(AfterFinal, goal)) = DigestOf("zeros", goal)
  <2>1. goal \in Seq(Symbols) /\ <<>> \o goal = goal  BY <1>7, SymbolsPad, ConcatEmptySeq
  <2>2. SHA1Update(Taken("zeros", <<>>), goal) = Taken("zeros", <<>> \o goal)
    BY ZenonT(40), <1>3, <2>1, UpdateTaken
  <2>3. SHA1Final(Taken("zeros", goal)) = DigestOf("zeros", goal)
    BY <2>1, SymbolsPad, FinalTaken
  <2> QED  BY <2>1, <2>2, <2>3, Contexts
<1>9. GenRandhash(str, stuff).hash = DigestOf("zeros", goal)  BY <1>6, <1>7, <1>8
<1> QED  BY <1>1, <1>9 DEF CheckValue, goal, key

-----------------------------------------------------------------------------
(* Records: lengths, blocks, readers.                                      *)

\* A digit of a number in the radix of bytes.
Digit == 0..(Radix - 1)

\* Bytes are digits.
LEMMA ByteIsDigit == Byte = Digit /\ Radix \in Nat /\ Radix > 1
  BY SecretAssumption, HashAssumption DEF Digit

\* One digit of a number, and what is left of it.
LEMMA DigitSplit ==
  ASSUME NEW n \in Nat, NEW m \in Nat, n < Radix * m
  PROVE  /\ n % Radix \in Digit /\ n \div Radix \in Nat /\ n \div Radix < m
         /\ n = (n % Radix) + Radix * (n \div Radix)
<1>1. Radix \in Nat /\ Radix > 1  BY HashAssumption
<1>2. PICK q \in Nat, r \in Digit : q = n \div Radix /\ r = n % Radix /\ n = r + Radix * q
  <2>1. /\ n \div Radix \in Nat /\ n % Radix \in Digit
        /\ n = (n % Radix) + Radix * (n \div Radix)
    BY <1>1 DEF Digit
  <2> QED  BY <2>1
<1>3. q < m
  <2>1. SUFFICES ASSUME m <= q PROVE FALSE  OBVIOUS
  <2>2. Radix * m <= Radix * q /\ Radix * m \in Nat /\ Radix * q \in Nat  BY <2>1, <1>1
  <2> QED  BY <2>2, <1>2 DEF Digit
<1> QED  BY <1>2, <1>3

\* The block that leads a record.
LEMMA LengthBlockType ==
  ASSUME NEW n \in Nat, NEW type \in Digit
  PROVE  LengthBlock(n, type) \in Block /\ LengthBlock(n, type)[5] = type
<1>1. Byte = Digit /\ Radix \in Nat /\ Radix > 1 /\ 0 \in Byte
  BY ByteIsDigit, ByteAssumption
<1>2. \A k \in Nat : k \div Radix \in Nat /\ k % Radix \in Byte  BY <1>1 DEF Digit
<1>3. PICK b1 \in Byte, b2 \in Byte, b3 \in Byte, b4 \in Byte :
        LengthBlock(n, type) = <<b1, b2, b3, b4, type, 0, 0, 0>>
  BY <1>2 DEF LengthBlock
<1>4. <<b1, b2, b3, b4, type, 0, 0, 0>> \in Block  BY <1>1 DEF Block
<1> QED  BY <1>3, <1>4

\* The length of a record is read as it was written, below the bound of a
\* signed word (putInt32, getInt32).
LEMMA LengthRead ==
  ASSUME NEW n \in Nat, NEW type \in Digit, 2 * n < TwoTo32
  PROVE  getInt32(LengthBlock(n, type)) = n
<1>1. Radix \in Nat /\ Radix > 1  BY ByteIsDigit
<1>2. PICK r2 \in Nat, r3 \in Nat, r4 \in Nat :
        r2 = Radix * Radix /\ r3 = Radix * r2 /\ r4 = Radix * r3 /\ r4 = TwoTo32
  BY <1>1 DEF TwoTo32
<1>3. n < Radix * r3  BY <1>2
<1>4. PICK a \in Digit, n1 \in Nat : a = n % Radix /\ n1 = n \div Radix /\ n1 < r3 /\ n = a + Radix * n1
  BY <1>3, DigitSplit
<1>5. PICK b \in Digit, n2 \in Nat : b = n1 % Radix /\ n2 = n1 \div Radix /\ n2 < r2 /\ n1 = b + Radix * n2
  <2>1. n1 < Radix * r2  BY <1>2, <1>4
  <2> QED  BY <2>1, DigitSplit
<1>6. PICK c \in Digit, n3 \in Nat : c = n2 % Radix /\ n3 = n2 \div Radix /\ n3 < Radix /\ n2 = c + Radix * n3
  <2>1. n2 < Radix * Radix  BY <1>2, <1>5
  <2> QED  BY <2>1, <1>1, DigitSplit
<1>7. n3 % Radix = n3  BY <1>1, <1>6
<1>8. LengthBlock(n, type) = <<a, b, c, n3, type, 0, 0, 0>>
  BY <1>4, <1>5, <1>6, <1>7 DEF LengthBlock
<1>9. PICK g : g = <<a, b, c, n3, type, 0, 0, 0>>  OBVIOUS
<1>10. g[1] = a /\ g[2] = b /\ g[3] = c /\ g[4] = n3  BY <1>9
<1>11. g[1] + Radix * (g[2] + Radix * (g[3] + Radix * g[4])) = n
  BY <1>10, <1>4, <1>5, <1>6
<1>12. ~(2 * n >= TwoTo32)
  <2>1. 2 * n \in Nat  OBVIOUS
  <2> QED  BY <2>1, <1>2
<1> QED  BY <1>8, <1>9, <1>11, <1>12 DEF getInt32

\* What getInt32 makes of any block is a number.
LEMMA IntRead ==
  ASSUME NEW b \in Block
  PROVE  getInt32(b) \in Int
<1>1. PICK d1 \in Nat, d2 \in Nat, d3 \in Nat, d4 \in Nat :
        d1 = b[1] /\ d2 = b[2] /\ d3 = b[3] /\ d4 = b[4]
  <2>1. b[1] \in Digit /\ b[2] \in Digit /\ b[3] \in Digit /\ b[4] \in Digit
    BY ByteIsDigit DEF Block
  <2> QED  BY <2>1 DEF Digit
<1>2. Radix \in Nat  BY ByteIsDigit
<1>3. PICK n \in Nat, r4 \in Nat : n = d1 + Radix * (d2 + Radix * (d3 + Radix * d4)) /\ r4 = TwoTo32
  BY <1>2 DEF TwoTo32
<1>4. getInt32(b) = IF 2 * n >= r4 THEN n - r4 ELSE n  BY <1>1, <1>3 DEF getInt32
<1> QED  BY <1>4

\* A reader between two blocks.
ReadRecords == {[type |-> t, data |-> Cut(BytesOf(b, n))] : t \in Byte, b \in Seq(Block), n \in Int}
\* A reader, and the next one (ReadOn).
Readers == [want : Int, length : Int, type : Byte, blocks : Seq(Block), records : Seq(ReadRecords)]

\* Reading a block gives a reader again.
LEMMA ReadOnType ==
  ASSUME NEW r \in Readers, NEW b \in Block
  PROVE  ReadOn(r, b) \in Readers
<1>1. PICK n \in Int : n = getInt32(b)  BY IntRead
<1>2. b[5] \in Byte  BY DEF Block
<1>3. CASE r.length < 0  BY <1>3 DEF ReadOn
<1>4. CASE ~(r.length < 0) /\ r.want = 0
  <2>1. ReadOn(r, b) = [want |-> IF n = 0 THEN 1 ELSE (n + 7) \div 8, length |-> n, type |-> b[5],
                        blocks |-> <<>>, records |-> r.records]
    BY <1>1, <1>4 DEF ReadOn
  <2>2. (IF n = 0 THEN 1 ELSE (n + 7) \div 8) \in Int  OBVIOUS
  <2>3. <<>> \in Seq(Block) /\ r.records \in Seq(ReadRecords)  BY DEF Readers
  <2> QED  BY <2>1, <2>2, <2>3, <1>2 DEF Readers
<1>5. CASE ~(r.length < 0) /\ r.want # 0
  <2>1. PICK blocks \in Seq(Block) : blocks = Append(r.blocks, b)
    <3>1. r.blocks \in Seq(Block)  BY DEF Readers
    <3> QED  BY <3>1, AppendProperties
  <2>2. PICK record \in ReadRecords : record = [type |-> r.type, data |-> Cut(BytesOf(blocks, r.length))]
    <3>1. PICK t \in Byte, n1 \in Int : t = r.type /\ n1 = r.length  BY DEF Readers
    <3>2. [type |-> t, data |-> Cut(BytesOf(blocks, n1))] \in ReadRecords  BY DEF ReadRecords
    <3> QED  BY <3>1, <3>2
  <2>3. ReadOn(r, b) = [want |-> r.want - 1, length |-> r.length, type |-> r.type, blocks |-> blocks,
                        records |-> IF r.want = 1 THEN Append(r.records, record) ELSE r.records]
    BY <1>5, <2>1, <2>2 DEF ReadOn
  <2>4. PICK after \in Seq(ReadRecords) :
          after = IF r.want = 1 THEN Append(r.records, record) ELSE r.records
    <3>1. r.records \in Seq(ReadRecords)  BY DEF Readers
    <3>2. Append(r.records, record) \in Seq(ReadRecords)  BY <3>1, AppendProperties
    <3> QED  BY <3>1, <3>2
  <2>5. r.want - 1 \in Int /\ r.length \in Int /\ r.type \in Byte  BY DEF Readers
  <2> QED  BY <2>3, <2>4, <2>5 DEF Readers
<1> QED  BY <1>3, <1>4, <1>5

\* At the start there is a reader.
LEMMA AtStartType == AtStart \in Readers
  BY ByteAssumption DEF AtStart, Readers

\* One step for every block of s.
ReadStep(s) == [x \in (1..Len(s)) \X Readers |-> ReadOn(x[2], s[x[1]])]

\* The steps keep to readers.
LEMMA ReadStepType ==
  ASSUME NEW s \in Seq(Block)
  PROVE  /\ ReadStep(s) \in Steps(Len(s), Readers) /\ Len(s) \in Nat
         /\ \A n \in 1..Len(s), r \in Readers : ReadStep(s)[<<n, r>>] = ReadOn(r, s[n])
<1>1. Len(s) \in Nat  BY LenProperties
<1>2. \A n \in 1..Len(s), r \in Readers : ReadOn(r, s[n]) \in Readers  BY ReadOnType
<1> QED  BY <1>1, <1>2 DEF ReadStep, Steps

\* A reader that has read s is in state r.
ReadsTo(s, r) ==
  \E h : Iterates(h, Len(s), Readers, AtStart, ReadStep(s)) /\ r = h[Len(s)]

\* Records is what a reader has made in the end (BlowfishLizer2::load).
LEMMA RecordsRead ==
  ASSUME NEW s \in Seq(Block), NEW r, ReadsTo(s, r)
  PROVE  Records(s) = r.records
<1>1. PICK len \in Nat : len = Len(s)  BY ReadStepType
<1> DEFINE Q(e) == e = [n \in 0..len |->
                        IF n = 0 THEN AtStart ELSE With(e[n - 1], LAMBDA x : ReadOn(x, s[n]))]
           h == CHOOSE e : Q(e)
           step == ReadStep(s)
<1>2. Records(s) = h[len].records  BY <1>1 DEF Records
<1>3. /\ AtStart \in Readers /\ step \in Steps(len, Readers)
      /\ \A n \in 1..len, x \in Readers : step[<<n, x>>] = ReadOn(x, s[n])
  BY <1>1, AtStartType, ReadStepType
<1> HIDE DEF step
<1>4. PICK f : Iterates(f, len, Readers, AtStart, step) /\ r = f[len]  BY <1>1 DEF ReadsTo, step
<1>5. Q(h)
  <2>1. f \in [0..len -> Readers] /\ f[0] = AtStart
        /\ \A m \in 1..len : f[m] = step[<<m, f[m - 1]>>]
    BY <1>4 DEF Iterates
  <2>2. ASSUME NEW m \in 0..len, m # 0
        PROVE  f[m] = With(f[m - 1], LAMBDA x : ReadOn(x, s[m]))
    <3>1. m \in 1..len /\ m - 1 \in 0..len  BY <2>2
    <3>2. f[m - 1] \in Readers  BY <2>1, <3>1
    <3>3. f[m] = ReadOn(f[m - 1], s[m])  BY <3>1, <3>2, <2>1, <1>3
    <3> QED  BY <3>3 DEF With
  <2>3. Q(f)  BY <2>1, <2>2
  <2> HIDE DEF Q
  <2> QED  BY <2>3
<1> HIDE DEF h
<1>6. h[0] = AtStart  BY <1>5
<1>7. ASSUME NEW m \in 1..len, h[m - 1] \in Readers PROVE h[m] = step[<<m, h[m - 1]>>]
  <2>1. m \in 0..len /\ m # 0  OBVIOUS
  <2>2. h[m] = ReadOn(h[m - 1], s[m])  BY <1>5, <2>1 DEF With
  <2> QED  BY <2>2, <1>3, <1>7
<1>8. h = [m \in 0..len |-> h[m]]  BY <1>5
<1>9. Iterates(h, len, Readers, AtStart, step)
  <2> HIDE DEF Q
  <2> QED  BY <1>3, <1>6, <1>7, <1>8, Followed
<1>10. h = f  BY <1>3, <1>4, <1>9, IteratesOne
<1> QED  BY <1>2, <1>4, <1>10

\* Who has read nothing is where readers start.
LEMMA ReadsNothing == ReadsTo(<<>>, AtStart)
<1>1. PICK s \in Seq(Block) : s = <<>> /\ Len(s) = 0
  <2>1. <<>> \in Seq(Block) /\ Len(<<>>) = 0  OBVIOUS
  <2> QED  BY <2>1
<1>2. AtStart \in Readers /\ ReadStep(s) \in Steps(0, Readers) /\ 0 \in Nat
  BY <1>1, AtStartType, ReadStepType
<1>3. PICK h : Iterates(h, 0, Readers, AtStart, ReadStep(s))  BY <1>2, Iteration
<1>4. h[0] = AtStart  BY <1>3 DEF Iterates
<1> QED  BY <1>1, <1>3, <1>4 DEF ReadsTo

\* One more block takes the reader to its next state (readCBC).
LEMMA ReadsMore ==
  ASSUME NEW s \in Seq(Block), NEW r, ReadsTo(s, r), NEW b \in Block
  PROVE  r \in Readers /\ ReadsTo(Append(s, b), ReadOn(r, b))
<1>0. PICK len \in Nat : /\ len = Len(s)
                         /\ \E h : Iterates(h, len, Readers, AtStart, ReadStep(s)) /\ r = h[len]
  BY ReadStepType DEF ReadsTo
<1>1. PICK h : len = Len(s) /\ Iterates(h, len, Readers, AtStart, ReadStep(s)) /\ r = h[len]
  BY <1>0
<1>2. PICK u \in Seq(Block) : /\ u = Append(s, b) /\ Len(u) = len + 1 /\ u[len + 1] = b
                              /\ \A n \in 1..len : u[n] = s[n]
  <2>1. /\ Append(s, b) \in Seq(Block) /\ Len(Append(s, b)) = len + 1
        /\ Append(s, b)[len + 1] = b /\ \A n \in 1..len : Append(s, b)[n] = s[n]
    BY <1>1, AppendProperties
  <2> QED  BY <2>1
<1>3. /\ h \in [0..len -> Readers] /\ h[0] = AtStart
      /\ \A m \in 1..len : h[m] = ReadStep(s)[<<m, h[m - 1]>>]
  BY <1>1 DEF Iterates
<1>4. \A n \in 1..len, x \in Readers : ReadStep(s)[<<n, x>>] = ReadOn(x, s[n])
  BY <1>1, ReadStepType
<1>5. \A n \in 1..(len + 1), x \in Readers : ReadStep(u)[<<n, x>>] = ReadOn(x, u[n])
  BY <1>2, ReadStepType
<1>6. r \in Readers
  <2>1. len \in 0..len  OBVIOUS
  <2> QED  BY <2>1, <1>1, <1>3
<1> DEFINE g == [n \in 0..(len + 1) |-> IF n = len + 1 THEN ReadOn(r, b) ELSE h[n]]
<1>7. g \in [0..(len + 1) -> Readers]  BY <1>3, <1>6, ReadOnType
<1>8. g[0] = AtStart /\ g[len + 1] = ReadOn(r, b) /\ \A n \in 0..len : g[n] = h[n]  BY <1>3
<1> HIDE DEF g
<1>9. ASSUME NEW m \in 1..(len + 1) PROVE g[m] = ReadStep(u)[<<m, g[m - 1]>>]
  <2>1. m - 1 \in 0..len /\ g[m - 1] = h[m - 1] /\ h[m - 1] \in Readers  BY <1>3, <1>8
  <2>2. ReadStep(u)[<<m, g[m - 1]>>] = ReadOn(h[m - 1], u[m])  BY <2>1, <1>5
  <2>3. CASE m = len + 1
    <3>1. h[m - 1] = r /\ u[m] = b /\ g[m] = ReadOn(r, b)  BY <2>3, <1>1, <1>2, <1>8
    <3> QED  BY <3>1, <2>2
  <2>4. CASE m # len + 1
    <3>1. m \in 1..len /\ m \in 0..len  BY <2>4
    <3>2. g[m] = h[m] /\ u[m] = s[m]  BY <3>1, <1>2, <1>8
    <3>3. h[m] = ReadOn(h[m - 1], s[m])  BY <3>1, <2>1, <1>3, <1>4
    <3> QED  BY <3>2, <3>3, <2>2
  <2> QED  BY <2>3, <2>4
<1>10. Iterates(g, len + 1, Readers, AtStart, ReadStep(u))  BY <1>7, <1>8, <1>9 DEF Iterates
<1> QED  BY <1>2, <1>6, <1>8, <1>10 DEF ReadsTo

\* One element more of w behind s.
LEMMA OneMore ==
  ASSUME NEW S, NEW s \in Seq(S), NEW w \in Seq(S), NEW i \in Nat, i < Len(w)
  PROVE  /\ Part(w, 0, i) \in Seq(S) /\ s \o Part(w, 0, i) \in Seq(S) /\ w[i + 1] \in S
         /\ Part(w, 0, i + 1) = Append(Part(w, 0, i), w[i + 1])
         /\ s \o Part(w, 0, i + 1) = Append(s \o Part(w, 0, i), w[i + 1])
<1>1. PICK len \in Nat, k \in Nat : len = Len(w) /\ k = i + 1 /\ k <= len /\ 0 + i <= len /\ 0 + k <= len
  <2>1. Len(w) \in Nat  BY LenProperties
  <2>2. i + 1 \in Nat /\ i + 1 <= Len(w)  BY <2>1
  <2> QED  BY <2>1, <2>2
<1>2. 0 \in Nat  OBVIOUS
<1>3. PICK a \in Seq(S) : a = Part(w, 0, i) /\ Len(a) = i /\ \A j \in 1..i : a[j] = w[0 + j]
  <2>1. 0 + i <= Len(w)  BY <1>1
  <2>2. /\ Part(w, 0, i) \in Seq(S) /\ Len(Part(w, 0, i)) = i
        /\ \A j \in 1..i : Part(w, 0, i)[j] = w[0 + j]
    BY <2>1, <1>2, PartIs
  <2> QED  BY <2>2
<1>4. PICK b \in Seq(S) : b = Part(w, 0, k) /\ Len(b) = k /\ \A j \in 1..k : b[j] = w[0 + j]
  <2>1. 0 + k <= Len(w)  BY <1>1
  <2>2. /\ Part(w, 0, k) \in Seq(S) /\ Len(Part(w, 0, k)) = k
        /\ \A j \in 1..k : Part(w, 0, k)[j] = w[0 + j]
    BY <2>1, <1>2, PartIs
  <2> QED  BY <2>2
<1>5. PICK x \in S : x = w[k]
  <2>1. k \in 1..Len(w)  BY <1>1
  <2> QED  BY <2>1, ElementOfSeq
<1>6. b = Append(a, x)
  <2>1. PICK c \in Seq(S) : /\ c = Append(a, x) /\ Len(c) = k /\ c[k] = x
                            /\ \A j \in 1..i : c[j] = a[j]
    <3>1. /\ Append(a, x) \in Seq(S) /\ Len(Append(a, x)) = i + 1
          /\ Append(a, x)[i + 1] = x /\ \A j \in 1..i : Append(a, x)[j] = a[j]
      BY <1>3, AppendProperties
    <3> QED  BY <3>1, <1>1
  <2>2. ASSUME NEW j \in 1..k PROVE b[j] = c[j]
    <3>1. b[j] = w[j]
      <4>1. 0 + j = j  OBVIOUS
      <4> QED  BY <4>1, <1>4
    <3>2. CASE j = k  BY <3>1, <3>2, <2>1, <1>5
    <3>3. CASE j # k
      <4>1. j \in 1..i /\ 0 + j = j  BY <3>3, <1>1
      <4> QED  BY <4>1, <3>1, <2>1, <1>3
    <3> QED  BY <3>2, <3>3
  <2> QED  BY <2>1, <2>2, <1>4, SeqEqual
<1>7. s \o Append(a, x) = Append(s \o a, x)
  <2>1. PICK y \in Seq(S) : y = <<x>>
    <3>1. <<x>> \in Seq(S)  OBVIOUS
    <3> QED  BY <3>1
  <2>2. Append(a, x) = a \o <<x>>  BY AppendIsConcat
  <2>3. s \o a \in Seq(S)  BY ConcatProperties
  <2>4. Append(s \o a, x) = (s \o a) \o <<x>>  BY <2>3, AppendIsConcat
  <2>5. Cat(Cat(s, a), y) = Cat(s, Cat(a, y))  BY CatAssoc
  <2> QED  BY <2>1, <2>2, <2>4, <2>5 DEF Cat
<1>8. s \o a \in Seq(S)  BY ConcatProperties
<1> QED  BY <1>1, <1>3, <1>4, <1>5, <1>6, <1>7, <1>8

\* A record as it is written: the block of its length, then its data.
LEMMA WriteIsSeq ==
  ASSUME NEW data \in Seq(Byte), NEW type \in Digit
  PROVE  LET w == writeCBC(data, type)
         IN  /\ w \in Seq(Block) /\ Len(w) = 1 + BlockCount(Len(data))
             /\ w[1] = LengthBlock(Len(data), type)
             /\ \A i \in 1..BlockCount(Len(data)) : w[1 + i] = BlocksOf(data)[i]
<1>1. Len(data) \in Nat  BY LenProperties
<1>2. PICK lb \in Block : lb = LengthBlock(Len(data), type)  BY <1>1, LengthBlockType
<1>3. PICK bs \in Seq(Block) : bs = BlocksOf(data) /\ Len(bs) = BlockCount(Len(data))  BY BlocksAre
<1>4. PICK one \in Seq(Block) : one = <<lb>> /\ Len(one) = 1 /\ one[1] = lb
  <2>1. <<lb>> \in Seq(Block) /\ Len(<<lb>>) = 1 /\ <<lb>>[1] = lb  OBVIOUS
  <2> QED  BY <2>1
<1>5. one \o bs \in Seq(Block) /\ Joins(one, bs, one \o bs)  BY Joined
<1>6. writeCBC(data, type) = one \o bs  BY <1>2, <1>3, <1>4 DEF writeCBC
<1>7. 1 \in 1..1  OBVIOUS
<1> QED  BY <1>2, <1>3, <1>4, <1>5, <1>6, <1>7 DEF Joins

\* A reader between two records, and one that has i of the blocks of data.
Between(r) == r \in Readers /\ r.want = 0 /\ r.length >= 0

\* The reader r when it has read i blocks of the data of a record.
Midway(r, data, type, i) ==
  [want |-> BlockCount(Len(data)) - i, length |-> Len(data), type |-> type,
   blocks |-> Part(BlocksOf(data), 0, i),
   records |-> IF i = BlockCount(Len(data)) THEN Append(r.records, [type |-> type, data |-> Cut(data)])
               ELSE r.records]

\* The reader learns the length, and waits for as many blocks as were written.
LEMMA FirstRead ==
  ASSUME NEW r, Between(r), NEW data \in Fields, NEW type \in Digit
  PROVE  ReadOn(r, LengthBlock(Len(data), type)) = Midway(r, data, type, 0)
<1>1. data \in Seq(Byte) /\ Len(data) \in Nat /\ 2 * Len(data) < TwoTo32
  BY SecretAssumption, LenProperties
<1>2. PICK n \in Nat : n = Len(data) /\ n = getInt32(LengthBlock(Len(data), type))
  BY <1>1, LengthRead
<1>3. LengthBlock(n, type)[5] = type  BY LengthBlockType
<1>4. PICK c \in Nat : c = BlockCount(n) /\ c > 0 /\ c = IF n = 0 THEN 1 ELSE (n + 7) \div 8
  BY CountIs DEF BlockCount
<1>5. ~(r.length < 0) /\ r.want = 0
  <2>1. r.length >= 0 => ~(r.length < 0)  BY DEF Between, Readers
  <2> QED  BY <2>1 DEF Between
<1>6. ReadOn(r, LengthBlock(n, type))
        = [want |-> c, length |-> n, type |-> type, blocks |-> <<>>, records |-> r.records]
  BY <1>2, <1>3, <1>4, <1>5 DEF ReadOn
<1>7. Part(BlocksOf(data), 0, 0) = <<>>
  <2>1. 0 + 1 \in Int /\ 0 + 0 \in Int /\ 0 + 0 < 0 + 1  OBVIOUS
  <2> QED  BY <2>1, SubSeqEmpty DEF Part
<1>8. c - 0 = c /\ 0 # c  BY <1>4
<1> QED  BY <1>2, <1>4, <1>6, <1>7, <1>8 DEF Midway

\* Each block brings the reader one step on, the last one gives the record.
LEMMA NextRead ==
  ASSUME NEW r, NEW data \in Fields, NEW type \in Digit, NEW i \in Nat, i < BlockCount(Len(data))
  PROVE  ReadOn(Midway(r, data, type, i), BlocksOf(data)[i + 1]) = Midway(r, data, type, i + 1)
<1>1. PICK n \in Nat, c \in Nat : data \in Seq(Byte) /\ n = Len(data) /\ c = BlockCount(n) /\ i < c
  <2>1. data \in Seq(Byte) /\ Len(data) \in Nat  BY SecretAssumption, LenProperties
  <2>2. BlockCount(Len(data)) \in Nat  BY <2>1, CountIs
  <2> QED  BY <2>1, <2>2
<1>2. PICK bs \in Seq(Block) : bs = BlocksOf(data) /\ Len(bs) = c  BY <1>1, BlocksAre
<1>3. Part(bs, 0, i + 1) = Append(Part(bs, 0, i), bs[i + 1])
  <2>1. i < Len(bs)  BY <1>1, <1>2
  <2> QED  BY <2>1, OneMore
<1>4. PICK m : m = Midway(r, data, type, i)  OBVIOUS
<1>5. /\ m.want = c - i /\ m.length = n /\ m.type = type /\ m.blocks = Part(bs, 0, i)
      /\ m.records = r.records
  <2>1. i # c  BY <1>1
  <2> QED  BY <2>1, <1>1, <1>2, <1>4 DEF Midway
<1>6. ~(m.length < 0) /\ m.want # 0  BY <1>1, <1>5
<1> DEFINE blocks == Append(m.blocks, bs[i + 1])
           record == [type |-> m.type, data |-> Cut(BytesOf(blocks, m.length))]
<1>7. ReadOn(m, bs[i + 1])
        = [want |-> m.want - 1, length |-> m.length, type |-> m.type, blocks |-> blocks,
           records |-> IF m.want = 1 THEN Append(m.records, record) ELSE m.records]
  BY <1>6 DEF ReadOn
<1>8. blocks = Part(bs, 0, i + 1)  BY <1>3, <1>5
<1>9. m.want = 1 <=> i + 1 = c  BY <1>1, <1>5
<1>10. m.want - 1 = c - (i + 1)  BY <1>1, <1>5
<1>11. i + 1 = c => record = [type |-> type, data |-> Cut(data)]
  <2> SUFFICES ASSUME i + 1 = c PROVE Cut(BytesOf(blocks, n)) = Cut(data)  BY <1>5
  <2>1. Part(bs, 0, c) = bs
    <3>1. 0 + 1 = 1 /\ 0 + c = c  OBVIOUS
    <3>2. SubSeq(bs, 1, Len(bs)) = bs  BY SubSeqFull
    <3> QED  BY <3>1, <3>2, <1>2 DEF Part
  <2>2. BytesOf(bs, n) = data  BY <1>1, <1>2, BytesBack
  <2> QED  BY <2>1, <2>2, <1>8
<1> HIDE DEF blocks, record
<1>12. ReadOn(m, bs[i + 1])
         = [want |-> c - (i + 1), length |-> n, type |-> type, blocks |-> Part(bs, 0, i + 1),
            records |-> IF i + 1 = c THEN Append(r.records, [type |-> type, data |-> Cut(data)])
                        ELSE r.records]
  BY <1>5, <1>7, <1>8, <1>9, <1>10, <1>11
<1> QED  BY <1>1, <1>2, <1>4, <1>12 DEF Midway

\* A reader between two records makes one more of the blocks of a record
\* (readCBC, BlowfishLizer2::load).
LEMMA WholeRecordRead ==
  ASSUME NEW s \in Seq(Block), NEW r, ReadsTo(s, r), Between(r),
         NEW data \in Fields, NEW type \in Digit
  PROVE  \E q : /\ ReadsTo(s \o writeCBC(data, type), q) /\ Between(q)
                /\ q.records = Append(r.records, [type |-> type, data |-> Cut(data)])
<1>1. data \in Seq(Byte) /\ Len(data) \in Nat  BY SecretAssumption, LenProperties
<1>2. PICK c \in Nat : c = BlockCount(Len(data)) /\ c > 0  BY <1>1, CountIs
<1>3. PICK w \in Seq(Block) :
        /\ w = writeCBC(data, type) /\ Len(w) = 1 + c /\ w[1] = LengthBlock(Len(data), type)
        /\ \A i \in 1..c : w[1 + i] = BlocksOf(data)[i]
  BY <1>1, <1>2, WriteIsSeq
<1> DEFINE M(i) == Midway(r, data, type, i)
           P(i) == ReadsTo(s \o Part(w, 0, i + 1), M(i)) /\ M(i) \in Readers
           D == {i \in Nat : i <= c => P(i)}
<1>4. P(0)
  <2>1. s \o Part(w, 0, 0) = s
    <3>1. 0 + 1 \in Int /\ 0 + 0 \in Int /\ 0 + 0 < 0 + 1  OBVIOUS
    <3>2. Part(w, 0, 0) = <<>>  BY <3>1, SubSeqEmpty DEF Part
    <3> QED  BY <3>2, ConcatEmptySeq
  <2>2. 0 \in Nat /\ 0 < Len(w) /\ 0 + 1 = 1  BY <1>2, <1>3
  <2>3. w[0 + 1] \in Block /\ s \o Part(w, 0, 0 + 1) = Append(s \o Part(w, 0, 0), w[0 + 1])
    BY <2>2, OneMore
  <2>4. ReadOn(r, w[1]) = M(0)  BY <1>3, FirstRead
  <2>5. w[1] \in Block  BY <2>2, <2>3
  <2>6. r \in Readers /\ ReadsTo(Append(s, w[1]), ReadOn(r, w[1]))  BY <2>5, ReadsMore
  <2>7. ReadOn(r, w[1]) \in Readers  BY <2>5, <2>6, ReadOnType
  <2> QED  BY <2>1, <2>2, <2>3, <2>4, <2>6, <2>7
<1>5. ASSUME NEW i \in Nat, i + 1 <= c, P(i) PROVE P(i + 1)
  <2>1. PICK k \in Nat : k = i + 1 /\ k < Len(w) /\ i < c /\ k \in 1..c /\ k + 1 = 1 + k
    <3>1. i + 1 \in Nat /\ i + 1 < Len(w) /\ i < c /\ i + 1 \in 1..c /\ (i + 1) + 1 = 1 + (i + 1)
      BY <1>3, <1>5
    <3> QED  BY <3>1
  <2>2. PICK u \in Seq(Block) : u = s \o Part(w, 0, k)
    <3>1. s \o Part(w, 0, k) \in Seq(Block)  BY <2>1, OneMore
    <3> QED  BY <3>1
  <2>3. w[k + 1] \in Block /\ s \o Part(w, 0, k + 1) = Append(u, w[k + 1])
    BY <2>1, <2>2, OneMore
  <2>4. w[k + 1] = BlocksOf(data)[i + 1]
    <3>1. w[1 + k] = BlocksOf(data)[k]  BY <2>1, <1>3
    <3> QED  BY <3>1, <2>1
  <2>5. ReadOn(M(i), w[k + 1]) = M(k)
    <3>1. ReadOn(M(i), BlocksOf(data)[i + 1]) = M(i + 1)  BY <2>1, <1>2, NextRead
    <3> QED  BY <3>1, <2>1, <2>4
  <2> HIDE DEF M
  <2>6. ReadsTo(u, M(i)) /\ M(i) \in Readers  BY <2>1, <2>2, <1>5
  <2>7. ReadsTo(Append(u, w[k + 1]), ReadOn(M(i), w[k + 1]))  BY <2>3, <2>6, ReadsMore
  <2>8. ReadOn(M(i), w[k + 1]) \in Readers  BY <2>3, <2>6, ReadOnType
  <2> QED  BY <2>1, <2>3, <2>5, <2>7, <2>8
<1> HIDE DEF M
<1>6. c \in D
  <2> HIDE DEF P
  <2>1. 0 \in D  BY <1>4
  <2>2. ASSUME NEW i \in Nat, i \in D PROVE i + 1 \in D
    <3> SUFFICES ASSUME i + 1 <= c PROVE P(i + 1)  OBVIOUS
    <3>1. i <= c  OBVIOUS
    <3> QED  BY <3>1, <2>2, <1>5
  <2> HIDE DEF D
  <2> QED  BY <2>1, <2>2, SetInduction
<1>7. ReadsTo(s \o Part(w, 0, c + 1), M(c)) /\ M(c) \in Readers
  <2> HIDE DEF P
  <2>1. P(c)  BY <1>6
  <2> QED  BY <2>1 DEF P
<1>8. Part(w, 0, c + 1) = w
  <2>1. 0 + 1 = 1 /\ 0 + (c + 1) = Len(w)  BY <1>3
  <2> QED  BY <2>1, SubSeqFull DEF Part
<1>9. /\ M(c).want = c - c /\ M(c).length = Len(data)
      /\ M(c).records = Append(r.records, [type |-> type, data |-> Cut(data)])
  BY <1>2 DEF M, Midway
<1>10. Between(M(c))
  <2>1. c - c = 0 /\ Len(data) >= 0  BY <1>1
  <2> QED  BY <2>1, <1>7, <1>9 DEF Between
<1> QED  BY <1>3, <1>7, <1>8, <1>9, <1>10

-----------------------------------------------------------------------------
\* What is to come back of the records of a file.
SavedRecord == [type : Digit, data : Fields]

\* What is read of records: their data up to the first 0.
CutAll(recs) == [n \in DOMAIN recs |-> [type |-> recs[n].type, data |-> Cut(recs[n].data)]]

\* One record more.
LEMMA CutAllAppend ==
  ASSUME NEW recs \in Seq(SavedRecord), NEW rec \in SavedRecord
  PROVE  CutAll(Append(recs, rec)) = Append(CutAll(recs), [type |-> rec.type, data |-> Cut(rec.data)])
<1> DEFINE C(x) == [type |-> x.type, data |-> Cut(x.data)]
           S == {C(x) : x \in SavedRecord}
<1>1. PICK n \in Nat : n = Len(recs) /\ DOMAIN recs = 1..n /\ \A i \in 1..n : recs[i] \in SavedRecord
  BY LenProperties
<1>2. PICK more \in Seq(SavedRecord) : /\ more = Append(recs, rec) /\ Len(more) = n + 1
                                      /\ more[n + 1] = rec /\ \A i \in 1..n : more[i] = recs[i]
  <2>1. /\ Append(recs, rec) \in Seq(SavedRecord) /\ Len(Append(recs, rec)) = Len(recs) + 1
        /\ \A i \in 1..Len(recs) : Append(recs, rec)[i] = recs[i]
        /\ Append(recs, rec)[Len(recs) + 1] = rec
    BY AppendProperties
  <2> QED  BY <2>1, <1>1
<1>3. DOMAIN more = 1..(n + 1) /\ \A i \in 1..(n + 1) : more[i] \in SavedRecord
  BY <1>2, LenProperties
<1>4. CutAll(recs) \in Seq(S) /\ Len(CutAll(recs)) = n /\ \A i \in 1..n : CutAll(recs)[i] = C(recs[i])
  <2>1. CutAll(recs) = [i \in 1..n |-> C(recs[i])]  BY <1>1 DEF CutAll
  <2>2. \A i \in 1..n : C(recs[i]) \in S  BY <1>1
  <2> HIDE DEF C, S
  <2>3. CutAll(recs) \in [1..n -> S]  BY <2>1, <2>2
  <2> QED  BY <2>1, <2>3, FunctionIsSeq
<1>5. CutAll(more) \in Seq(S) /\ Len(CutAll(more)) = n + 1
      /\ \A i \in 1..(n + 1) : CutAll(more)[i] = C(more[i])
  <2>1. CutAll(more) = [i \in 1..(n + 1) |-> C(more[i])]  BY <1>3 DEF CutAll
  <2>2. \A i \in 1..(n + 1) : C(more[i]) \in S  BY <1>3
  <2> HIDE DEF C, S
  <2>3. CutAll(more) \in [1..(n + 1) -> S] /\ n + 1 \in Nat  BY <2>1, <2>2
  <2> QED  BY <2>1, <2>3, FunctionIsSeq
<1>6. C(rec) \in S  OBVIOUS
<1> HIDE DEF C, S
<1>7. PICK z \in Seq(S) : /\ z = Append(CutAll(recs), C(rec)) /\ Len(z) = n + 1 /\ z[n + 1] = C(rec)
                          /\ \A i \in 1..n : z[i] = C(recs[i])
  <2>1. PICK y \in Seq(S), x \in S : y = CutAll(recs) /\ x = C(rec)  BY <1>4, <1>6
  <2>2. /\ Append(y, x) \in Seq(S) /\ Len(Append(y, x)) = Len(y) + 1
        /\ \A i \in 1..Len(y) : Append(y, x)[i] = y[i]
        /\ Append(y, x)[Len(y) + 1] = x
    BY AppendProperties
  <2> QED  BY <2>1, <2>2, <1>4
<1>8. ASSUME NEW i \in 1..(n + 1) PROVE CutAll(more)[i] = z[i]
  <2>1. i = n + 1 \/ i \in 1..n  OBVIOUS
  <2> QED  BY <2>1, <1>2, <1>5, <1>7
<1>9. CutAll(more) = z  BY <1>5, <1>7, <1>8, SeqEqual
<1> QED  BY <1>2, <1>7, <1>9 DEF C

\* Whoever has read s is between two records and has made recs.
ReadsAs(s, recs) == \E r : ReadsTo(s, r) /\ Between(r) /\ r.records = CutAll(recs)

\* No blocks, no records.
LEMMA ReadsAsNothing == ReadsAs(<<>>, <<>>)
<1>1. CutAll(<<>>) = <<>>  BY DEF CutAll
<1>2. Between(AtStart) /\ AtStart.records = <<>>  BY AtStartType DEF Between, AtStart
<1> QED  BY <1>1, <1>2, ReadsNothing DEF ReadsAs

\* One record more written is one record more read (writeCBC, readCBC).
LEMMA ReadsAsMore ==
  ASSUME NEW s \in Seq(Block), NEW recs \in Seq(SavedRecord), ReadsAs(s, recs), NEW rec \in SavedRecord
  PROVE  ReadsAs(s \o writeCBC(rec.data, rec.type), Append(recs, rec))
<1>1. PICK r : ReadsTo(s, r) /\ Between(r) /\ r.records = CutAll(recs)  BY DEF ReadsAs
<1>2. rec.type \in Digit /\ rec.data \in Fields  BY DEF SavedRecord
<1>3. PICK q : /\ ReadsTo(s \o writeCBC(rec.data, rec.type), q) /\ Between(q)
               /\ q.records = Append(r.records, [type |-> rec.type, data |-> Cut(rec.data)])
  BY <1>1, <1>2, WholeRecordRead
<1>4. q.records = CutAll(Append(recs, rec))  BY <1>1, <1>3, CutAllAppend
<1> QED  BY <1>3, <1>4 DEF ReadsAs

-----------------------------------------------------------------------------
(* The file from save to load.                                             *)

\* What the header says, once it is written (save).
HeaderInv ==
  /\ header.stuff \in Stuffs /\ header.salt \in Salts /\ saved.text \in Texts
  /\ wkey = FileKey(saved.text, header.salt)
  /\ header.hash = CheckValue(saved.text, Stuff(header))

\* Whose file was opened, if it was (Safe::checkPassword, BlowfishLizer2::load).
OpenInv ==
  opened # NotOpened =>
    \E o \in Obj : /\ opened.by = {o}
                   /\ opened.ok <=> text[o] = saved.text
                   /\ opened.ok => rkey = wkey

\* What makes OpensAgain and FormatKept inductive: the blocks that are written
\* or to be written are those of the records, and are read as them.
FileInv ==
  /\ phase \in {"edit", "save", "closed"}
  /\ toWrite \in Seq(Block) /\ (phase # "save" => toWrite = <<>>)
  /\ saved.records \in Seq(SavedRecord)
  /\ phase # "closed" => opened = NotOpened
  /\ phase # "edit" => HeaderInv /\ ReadsAs(sent \o toWrite, saved.records)
  /\ OpenInv

\* The inductive invariant.
SecretInv == TextInv /\ IInv /\ FileInv

\* The invariant gives FormatKept.
LEMMA InvGivesFormat == SecretInv => FormatKept
  BY DEF SecretInv, FileInv, HeaderInv, FormatKept, FileKey, CheckValue, Stuff

\* The invariant gives OpensAgain.
LEMMA InvGivesOpens == SecretInv => OpensAgain
<1> SUFFICES ASSUME SecretInv, opened # NotOpened
             PROVE  /\ opened.ok <=> \A o \in opened.by : text[o] = saved.text
                    /\ opened.ok /\ Len(got) = Len(file) => Records(got) = CutAll(saved.records)
  BY DEF OpensAgain, CutAll
<1>1. PICK o \in Obj : /\ opened.by = {o} /\ (opened.ok <=> text[o] = saved.text)
                       /\ opened.ok => rkey = wkey
  BY DEF SecretInv, FileInv, OpenInv
<1>2. opened.ok <=> \A p \in opened.by : text[p] = saved.text  BY <1>1
<1>3. ASSUME opened.ok, Len(got) = Len(file) PROVE Records(got) = CutAll(saved.records)
  <2>1. /\ got \in Seq(Block) /\ sent \in Seq(Block) /\ Len(got) = Len(sent)
        /\ \A n \in 1..Len(got) : got[n] = sent[n]
    BY <1>1, <1>3 DEF SecretInv, IInv, CbcTypeOK, Chain, ReadsBack
  <2>2. got = sent  BY <2>1, SeqEqual
  <2>3. toWrite = <<>> /\ ReadsAs(sent \o toWrite, saved.records)  BY DEF SecretInv, FileInv
  <2>4. sent \o <<>> = sent  BY <2>1, ConcatEmptySeq
  <2>5. PICK r : ReadsTo(sent, r) /\ r.records = CutAll(saved.records)
    BY <2>3, <2>4 DEF ReadsAs
  <2>6. Records(sent) = r.records  BY <2>1, <2>5, RecordsRead
  <2> QED  BY <2>2, <2>5, <2>6
<1> QED  BY <1>2, <1>3

-----------------------------------------------------------------------------
\* The invariant holds before there is a file.
LEMMA SecretInvInit == Init => SecretInv
<1> SUFFICES ASSUME Init PROVE SecretInv  OBVIOUS
<1>1. TextInv  BY TextInvInit
<1>2. IInv
  <2>1. PICK ip \in Ivs : CbcInit(algor, ip)  BY DEF Init
  <2>2. ip \in Block /\ algor \in Key  BY SecretAssumption, AlgorType
  <2> QED  BY <2>1, <2>2, InitChain
<1>3. FileInv
  <2>1. /\ saved = [text |-> <<>>, records |-> <<>>] /\ toWrite = <<>> /\ phase = "edit"
        /\ opened = NotOpened
    BY DEF Init
  <2>2. <<>> \in Seq(Block) /\ <<>> \in Seq(SavedRecord)  OBVIOUS
  <2> QED  BY <2>1, <2>2 DEF FileInv, OpenInv
<1> QED  BY <1>1, <1>2, <1>3 DEF SecretInv

\* Typing changes no file.
LEMMA EditKeepsFile ==
  ASSUME SecretInv, phase = "edit",
         UNCHANGED <<cbcVars, header, saved, toWrite, phase, opened>>
  PROVE  IInv' /\ FileInv'
<1>1. IInv'  BY DEF SecretInv, cbcVars, IInv, CbcTypeOK, Chain, Before, ReadsBack
<1>2. FileInv'  BY DEF SecretInv, FileInv, OpenInv
<1> QED  BY <1>1, <1>2

\* A new file has the header of its text, and the key (save).
LEMMA SaveKeepsFile ==
  ASSUME SecretInv, NEW o \in Obj, Save(o)
  PROVE  IInv' /\ FileInv'
<1>0. PICK stuff \in Stuffs, salt \in Salts, ip \in Ivs, seed \in Seeds :
        \E passphrase, left :
          /\ passphrase = get(set(Constructed(seed), get(obj[o])))
          /\ header' = [stuff |-> stuff, hash |-> GenRandhash(passphrase, stuff \o <<0, 0>>).hash,
                        salt |-> salt]
          /\ StartWrite(makeBlowfish(KeyPhrase(passphrase, left), salt), ip)
  BY DEF Save
<1>1. PICK passphrase, left :
        /\ passphrase = get(set(Constructed(seed), get(obj[o])))
        /\ header' = [stuff |-> stuff, hash |-> GenRandhash(passphrase, stuff \o <<0, 0>>).hash,
                      salt |-> salt]
        /\ StartWrite(makeBlowfish(KeyPhrase(passphrase, left), salt), ip)
  BY <1>0
<1>2. /\ phase = "edit" /\ saved' = [text |-> text[o], records |-> <<>>] /\ phase' = "save"
      /\ toWrite' = toWrite /\ opened' = opened
  BY DEF Save
<1>3. PICK t \in Texts : t = text[o] /\ Holding(obj[o], t)  BY DEF SecretInv, TextInv
<1>4. passphrase = StrOf(t)
  <2>1. get(obj[o]) = StrOf(t)  BY <1>3, GetIs DEF StrOf
  <2>2. Holding(Constructed(seed), <<>>) /\ <<>> \in Texts
    BY ConstructedHolds, SecretAssumption
  <2>3. Holding(set(Constructed(seed), StrOf(t)), t)  BY <2>2, SetStrHolds
  <2> QED  BY <1>1, <2>1, <2>3, GetIs DEF StrOf
<1>5. KeyPhrase(passphrase, left) = StrOf(t)  BY <1>4 DEF KeyPhrase
<1>6. StartWrite(FileKey(t, salt), ip) /\ FileKey(t, salt) \in Key
  BY <1>1, <1>5, FileKeyIs
<1>7. IInv'
  <2>1. ip \in Block  BY SecretAssumption
  <2> QED  BY <2>1, <1>6, StartWriteChain DEF SecretInv
<1>8. HeaderInv'
  <2>1. header' = [stuff |-> stuff, hash |-> CheckValue(t, stuff \o <<0, 0>>), salt |-> salt]
    BY <1>1, <1>4, StrText, CheckValueIs
  <2>2. wkey' = FileKey(t, salt)  BY <1>6 DEF StartWrite
  <2> QED  BY <2>1, <2>2, <1>2, <1>3 DEF HeaderInv, Stuff
<1>9. toWrite' = <<>> /\ sent' = <<>> /\ opened' = NotOpened
  BY <1>2, <1>6 DEF SecretInv, FileInv, StartWrite
<1>10. <<>> \in Seq(Block) /\ <<>> \in Seq(SavedRecord)  OBVIOUS
<1>11. ReadsAs(sent' \o toWrite', saved'.records)
  <2>1. <<>> \o <<>> = <<>>  BY <1>10, ConcatEmptySeq
  <2> QED  BY <2>1, <1>2, <1>9, ReadsAsNothing
<1>12. FileInv'
  BY <1>2, <1>8, <1>9, <1>10, <1>11 DEF FileInv, OpenInv
<1> QED  BY <1>7, <1>12

\* One record more is to be written (save, writeCBC).
LEMMA NextRecordKeepsFile ==
  ASSUME SecretInv, NextRecord
  PROVE  IInv' /\ FileInv'
<1>0. PICK data \in Fields :
        \E type : /\ type = Len(saved.records) /\ toWrite' = writeCBC(data, type)
                  /\ saved' = [text |-> saved.text,
                               records |-> Append(saved.records, [type |-> type, data |-> data])]
  BY DEF NextRecord
<1>1. PICK type :
        /\ type = Len(saved.records) /\ toWrite' = writeCBC(data, type)
        /\ saved' = [text |-> saved.text,
                     records |-> Append(saved.records, [type |-> type, data |-> data])]
  BY <1>0
<1>2. /\ phase = "save" /\ toWrite = <<>> /\ Len(saved.records) < MaxRecords
      /\ UNCHANGED <<cbcVars, obj, text, header, phase, opened>>
  BY DEF NextRecord
<1>3. PICK recs \in Seq(SavedRecord) : recs = saved.records /\ ReadsAs(sent \o toWrite, recs)
  BY <1>2 DEF SecretInv, FileInv
<1>4. type \in Digit
  <2>1. Len(recs) \in Nat  BY LenProperties
  <2>2. MaxRecords \in Nat /\ MaxRecords <= Radix /\ Radix \in Nat  BY SecretAssumption, ByteIsDigit
  <2> QED  BY <2>1, <2>2, <1>1, <1>2, <1>3 DEF Digit
<1>5. PICK rec \in SavedRecord : rec = [type |-> type, data |-> data]  BY <1>4 DEF SavedRecord
<1>6. sent \in Seq(Block) /\ sent \o toWrite = sent
  <2>1. sent \in Seq(Block)  BY DEF SecretInv, IInv, CbcTypeOK
  <2> QED  BY <2>1, <1>2, ConcatEmptySeq
<1>7. ReadsAs(sent \o writeCBC(data, type), Append(recs, rec))
  <2>1. ReadsAs(sent \o writeCBC(rec.data, rec.type), Append(recs, rec))
    BY <1>3, <1>6, ReadsAsMore
  <2> QED  BY <2>1, <1>5
<1>8. writeCBC(data, type) \in Seq(Block)
  <2>1. data \in Seq(Byte)  BY SecretAssumption
  <2> QED  BY <2>1, <1>4, WriteIsSeq
<1>9. Append(recs, rec) \in Seq(SavedRecord)  BY AppendProperties
<1>10. IInv'  BY <1>2 DEF SecretInv, cbcVars, IInv, CbcTypeOK, Chain, Before, ReadsBack
<1>11. HeaderInv'
  <2>1. HeaderInv  BY <1>2 DEF SecretInv, FileInv
  <2> QED  BY <2>1, <1>1, <1>2 DEF HeaderInv, Stuff, cbcVars
<1>12. sent' \o toWrite' = sent \o writeCBC(data, type) /\ saved'.records = Append(recs, rec)
  BY <1>1, <1>2, <1>3, <1>5 DEF cbcVars
<1>13. opened' = NotOpened /\ phase' = "save"  BY <1>2 DEF SecretInv, FileInv
<1>14. FileInv'
  <2>1. OpenInv'  BY <1>13 DEF OpenInv
  <2> QED  BY <2>1, <1>1, <1>7, <1>8, <1>9, <1>11, <1>12, <1>13 DEF FileInv
<1> QED  BY <1>10, <1>14

\* What is written is no longer to be written (writeCBC).
LEMMA WriteNextKeepsFile ==
  ASSUME SecretInv, WriteNext
  PROVE  IInv' /\ FileInv'
<1>1. /\ phase = "save" /\ toWrite # <<>> /\ WriteBlock(Head(toWrite)) /\ toWrite' = Tail(toWrite)
      /\ UNCHANGED <<obj, text, header, saved, phase, opened>>
  BY DEF WriteNext
<1>2. PICK w \in Seq(Block) : w = toWrite /\ w # <<>>  BY <1>1 DEF SecretInv, FileInv
<1>3. Head(w) \in Block /\ Tail(w) \in Seq(Block)  BY <1>2, HeadTailProperties
<1>4. IInv'  BY <1>1, <1>2, <1>3, WriteBlockChain DEF SecretInv
<1>5. sent' = Append(sent, Head(w)) /\ wkey' = wkey  BY <1>1, <1>2 DEF WriteBlock
<1>6. sent' \o toWrite' = sent \o toWrite
  <2>1. PICK s \in Seq(Block) : s = sent  BY DEF SecretInv, IInv, CbcTypeOK
  <2>2. PICK x \in Block, y \in Seq(Block), t \in Seq(Block) : x = Head(w) /\ y = <<x>> /\ t = Tail(w)
    <3>1. <<Head(w)>> \in Seq(Block)  BY <1>3
    <3> QED  BY <3>1, <1>3
  <2>3. w = y \o t
    <3>1. PICK n \in Nat : n = Len(w) /\ 1 \in 1..n /\ n \in 1..n
      <4>1. Len(w) \in Nat /\ Len(w) # 0  BY <1>2, EmptySeq
      <4>2. 1 \in 1..Len(w) /\ Len(w) \in 1..Len(w)  BY <4>1
      <4> QED  BY <4>1, <4>2
    <3>2. SubSeq(w, 1, n) = <<w[1]>> \o SubSeq(w, 1 + 1, n)
      <4>1. 1 \in 1..Len(w) /\ n \in 1..Len(w)  BY <3>1
      <4> QED  BY <4>1, SubSeqRecursiveFirst
    <3>3. SubSeq(w, 1, n) = w  BY <3>1, SubSeqFull
    <3>4. Tail(w) = SubSeq(w, 2, n)  BY <3>1, <1>2, TailIsSubSeq
    <3>5. w[1] = Head(w)  OBVIOUS
    <3>6. 1 + 1 = 2  OBVIOUS
    <3> QED  BY <3>2, <3>3, <3>4, <3>5, <3>6, <2>2
  <2>4. Append(s, x) = s \o y  BY <2>2, AppendIsConcat
  <2>5. Cat(Cat(s, y), t) = Cat(s, Cat(y, t))  BY CatAssoc
  <2> QED  BY <2>1, <2>2, <2>3, <2>4, <2>5, <1>1, <1>2, <1>5 DEF Cat
<1>7. HeaderInv'
  <2>1. HeaderInv  BY <1>1 DEF SecretInv, FileInv
  <2> QED  BY <2>1, <1>1, <1>5 DEF HeaderInv, Stuff
<1>8. opened' = NotOpened  BY <1>1 DEF SecretInv, FileInv
<1>9. FileInv'
  <2>1. OpenInv'  BY <1>8 DEF OpenInv
  <2>2. ReadsAs(sent \o toWrite, saved.records) /\ saved.records \in Seq(SavedRecord)
    BY <1>1 DEF SecretInv, FileInv
  <2>3. toWrite' \in Seq(Block) /\ phase' = "save" /\ saved' = saved  BY <1>1, <1>2, <1>3
  <2> QED  BY <2>1, <2>2, <2>3, <1>6, <1>7, <1>8 DEF FileInv
<1> QED  BY <1>4, <1>9

\* Closing leaves the file.
LEMMA CloseKeepsFile ==
  ASSUME SecretInv, Close
  PROVE  IInv' /\ FileInv'
<1>1. /\ phase = "save" /\ toWrite = <<>> /\ phase' = "closed"
      /\ UNCHANGED <<cbcVars, obj, text, header, saved, toWrite, opened>>
  BY DEF Close
<1>2. IInv'  BY <1>1 DEF SecretInv, cbcVars, IInv, CbcTypeOK, Chain, Before, ReadsBack
<1>3. HeaderInv'
  <2>1. HeaderInv  BY <1>1 DEF SecretInv, FileInv
  <2> QED  BY <2>1, <1>1 DEF HeaderInv, Stuff, cbcVars
<1>4. OpenInv'
  <2>1. opened' = NotOpened  BY <1>1 DEF SecretInv, FileInv
  <2> QED  BY <2>1 DEF OpenInv
<1>5. sent' \o toWrite' = sent \o toWrite  BY <1>1 DEF cbcVars
<1>6. FileInv'  BY <1>1, <1>3, <1>4, <1>5 DEF SecretInv, FileInv
<1> QED  BY <1>2, <1>6

\* The check value tells the text of the file from every other (checkPassword).
LEMMA CheckTells ==
  ASSUME SecretInv, phase = "closed", NEW o \in Obj
  PROVE  checkPassword(obj[o]) <=> text[o] = saved.text
<1>1. HeaderInv  BY DEF SecretInv, FileInv
<1>2. PICK t \in Texts, u \in Texts, st \in Stuffs :
        t = text[o] /\ Holding(obj[o], t) /\ u = saved.text /\ st = header.stuff
  BY <1>1 DEF HeaderInv, SecretInv, TextInv
<1>3. get(obj[o]) = StrOf(t)  BY <1>2, GetIs DEF StrOf
<1>4. GenRandhash(StrOf(t), st \o <<0, 0>>).hash = CheckValue(t, st \o <<0, 0>>)
  BY StrText, CheckValueIs
<1>5. checkPassword(obj[o]) <=> CheckValue(t, st \o <<0, 0>>) = CheckValue(u, st \o <<0, 0>>)
  BY <1>1, <1>2, <1>3, <1>4 DEF checkPassword, HeaderInv, Stuff
<1>6. CheckValue(t, st \o <<0, 0>>) = CheckValue(u, st \o <<0, 0>>) => t = u
  <2>1. \A x \in Texts : GenRandhash({x}, st \o <<0, 0>>).hash = CheckValue(x, st \o <<0, 0>>)
    <3> SUFFICES ASSUME NEW x \in Texts
                 PROVE  GenRandhash({x}, st \o <<0, 0>>).hash = CheckValue(x, st \o <<0, 0>>)
      OBVIOUS
    <3>1. TheText({x}) = x  BY TextType
    <3> QED  BY <3>1, CheckValueIs
  <2> QED  BY <2>1, CollisionAssumption
<1> QED  BY <1>2, <1>5, <1>6

\* Opening tells the text, and takes the key of the file (checkPassword, load).
LEMMA OpenKeepsFile ==
  ASSUME SecretInv, NEW o \in Obj, Open(o)
  PROVE  IInv' /\ FileInv'
<1>1. /\ phase = "closed" /\ opened = NotOpened
      /\ opened' = [by |-> {o}, ok |-> checkPassword(obj[o])]
      /\ IF opened'.ok THEN StartRead(makeBlowfish(get(obj[o]), header.salt)) ELSE UNCHANGED cbcVars
      /\ UNCHANGED <<obj, text, header, saved, toWrite, phase>>
  BY DEF Open
<1>2. checkPassword(obj[o]) <=> text[o] = saved.text  BY <1>1, CheckTells
<1>3. HeaderInv  BY <1>1 DEF SecretInv, FileInv
<1>4. PICK t \in Texts, salt \in Salts : t = text[o] /\ Holding(obj[o], t) /\ salt = header.salt
  BY <1>3 DEF HeaderInv, SecretInv, TextInv
<1>5. makeBlowfish(get(obj[o]), header.salt) = FileKey(t, salt) /\ FileKey(t, salt) \in Key
  <2>1. get(obj[o]) = StrOf(t)  BY <1>4, GetIs DEF StrOf
  <2> QED  BY <2>1, <1>4, FileKeyIs
<1>6. /\ IInv' /\ wkey' = wkey /\ sent' = sent
      /\ opened'.ok => rkey' = FileKey(t, salt)
  <2>1. CASE opened'.ok
    <3>1. StartRead(FileKey(t, salt))  BY <2>1, <1>1, <1>5
    <3> QED  BY <3>1, <1>5, StartReadChain DEF SecretInv, StartRead
  <2>2. CASE ~opened'.ok
    <3>1. UNCHANGED cbcVars  BY <2>2, <1>1
    <3> QED  BY <3>1, <2>2 DEF SecretInv, cbcVars, IInv, CbcTypeOK, Chain, Before, ReadsBack
  <2> QED  BY <2>1, <2>2
<1>7. opened'.ok <=> text[o] = saved.text  BY <1>1, <1>2
<1>8. opened'.by = {o}  BY <1>1
<1>9. opened'.ok => rkey' = wkey'
  <2> SUFFICES ASSUME opened'.ok PROVE rkey' = wkey'  OBVIOUS
  <2>1. t = saved.text  BY <1>4, <1>7
  <2> QED  BY <2>1, <1>3, <1>4, <1>6 DEF HeaderInv
<1>10. OpenInv'
  <2>1. text' = text /\ saved' = saved  BY <1>1
  <2> QED  BY <2>1, <1>7, <1>8, <1>9 DEF OpenInv
<1>11. HeaderInv'  BY <1>1, <1>3, <1>6 DEF HeaderInv, Stuff
<1>12. FileInv'  BY <1>1, <1>6, <1>10, <1>11 DEF SecretInv, FileInv
<1> QED  BY <1>6, <1>12

\* Reading a block leaves the file (readCBC).
LEMMA ReadNextKeepsFile ==
  ASSUME SecretInv, ReadNext
  PROVE  IInv' /\ FileInv'
<1>1. /\ phase = "closed" /\ ReadBlock
      /\ UNCHANGED <<obj, text, header, saved, toWrite, phase, opened>>
  BY DEF ReadNext
<1>2. IInv'  BY <1>1, ReadBlockChain DEF SecretInv
<1>3. wkey' = wkey /\ rkey' = rkey /\ sent' = sent  BY <1>1 DEF ReadBlock
<1>4. HeaderInv'
  <2>1. HeaderInv  BY <1>1 DEF SecretInv, FileInv
  <2> QED  BY <2>1, <1>1, <1>3 DEF HeaderInv, Stuff
<1>5. OpenInv'  BY <1>1, <1>3 DEF SecretInv, FileInv, OpenInv
<1>6. FileInv'  BY <1>1, <1>3, <1>4, <1>5 DEF SecretInv, FileInv
<1> QED  BY <1>2, <1>6

\* Every step keeps the invariant.
LEMMA SecretInvNext == SecretInv /\ [Next]_vars => SecretInv'
<1> SUFFICES ASSUME SecretInv, [Next]_vars PROVE SecretInv'  OBVIOUS
<1>1. TextInv'  BY TextInvNext DEF SecretInv
<1>2. ASSUME NEW o \in Obj, Construct(o) \/ SetText(o) \/ SetFrom(o) \/ CopyConstruct(o) \/ Clear(o)
      PROVE  IInv' /\ FileInv'
  <2>1. phase = "edit" /\ UNCHANGED <<cbcVars, header, saved, toWrite, phase, opened>>
    BY <1>2 DEF Construct, SetText, SetFrom, CopyConstruct, Clear, Edit
  <2> QED  BY <2>1, EditKeepsFile
<1>3. ASSUME NEW o \in Obj, Save(o) PROVE IInv' /\ FileInv'  BY <1>3, SaveKeepsFile
<1>4. ASSUME NEW o \in Obj, Open(o) PROVE IInv' /\ FileInv'  BY <1>4, OpenKeepsFile
<1>5. CASE NextRecord  BY <1>1, <1>5, NextRecordKeepsFile DEF SecretInv
<1>6. CASE WriteNext  BY <1>1, <1>6, WriteNextKeepsFile DEF SecretInv
<1>7. CASE Close  BY <1>1, <1>7, CloseKeepsFile DEF SecretInv
<1>8. CASE ReadNext  BY <1>1, <1>8, ReadNextKeepsFile DEF SecretInv
<1>9. CASE UNCHANGED vars
  <2>1. IInv'  BY <1>9 DEF vars, SecretInv, cbcVars, IInv, CbcTypeOK, Chain, Before, ReadsBack
  <2>2. HeaderInv => HeaderInv'  BY <1>9 DEF vars, cbcVars, HeaderInv, Stuff
  <2>3. FileInv'  BY <1>9, <2>2 DEF vars, cbcVars, SecretInv, FileInv, OpenInv
  <2> QED  BY <1>1, <2>1, <2>3 DEF SecretInv
<1> QED  BY <1>1, <1>2, <1>3, <1>4, <1>5, <1>6, <1>7, <1>8, <1>9 DEF Next, SecretInv

\* The format of Password Safe, whichever classes make it (save, GenRandhash,
\* makeBlowfish), for any texts, tables and hash.
THEOREM SecretFormatKept == Spec => []FormatKept
<1> QED  BY SecretInvInit, SecretInvNext, InvGivesFormat, PTL DEF Spec

\* A file is opened by its pass-phrase alone and gives its records back, however
\* many there are and whatever they hold (checkPassword, writeCBC, readCBC, load).
THEOREM SecretOpensAgain == Spec => []OpensAgain
<1> QED  BY SecretInvInit, SecretInvNext, InvGivesOpens, PTL DEF Spec

\* ReadsBack of the files that save writes and load reads.
THEOREM SecretReadsBack == Spec => []ReadsBack
<1>1. SecretInv => ReadsBack  BY DEF SecretInv, IInv
<1> QED  BY SecretInvInit, SecretInvNext, <1>1, PTL DEF Spec
=============================================================================
