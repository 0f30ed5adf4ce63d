------------------------------ MODULE Blowfish ------------------------------
(***************************************************************************)
(* The two Blowfish classes of the program: Blowfish (src/crypto), behind  *)
(* BFProxy, encrypts files and passwords; BlowFish (src/pwsafe) stirs the  *)
(* check value of a pass-phrase.  Rounds, key schedule and the packing of  *)
(* bytes into words are the code's; the width of a byte and the numbers in *)
(* the tables are constants.  A word is its four bytes, the most           *)
(* significant first; a block is eight bytes.                              *)
(***************************************************************************)
EXTENDS Naturals, Sequences, FiniteSets, SequencesExt

CONSTANTS
  Byte,           \* bytes, 0 among them
  XorByte(_, _),  \* ^ of two bytes
  Add(_, _),      \* + of two words, modulo their width
  PTable,         \* ps: the eighteen words the key is laid over
  STable          \* ks0 to ks3

Word  == Byte \X Byte \X Byte \X Byte
Block == Byte \X Byte \X Byte \X Byte \X Byte \X Byte \X Byte \X Byte
Slots == 0..17
Boxes == [1..4 -> [Byte -> Word]]

ASSUME ByteAssumption ==
  /\ 0 \in Byte /\ IsFiniteSet(Byte)
  /\ \A a, b \in Byte : XorByte(a, b) \in Byte /\ XorByte(XorByte(a, b), b) = a
  /\ \A a, b, c \in Byte : /\ XorByte(XorByte(a, b), c) = XorByte(XorByte(a, c), b)
                           /\ XorByte(XorByte(a, b), c) = XorByte(a, XorByte(b, c))

ASSUME AddAssumption == \A a, b \in Word : Add(a, b) \in Word

ASSUME TableAssumption == PTable \in [Slots -> Word] /\ STable \in Boxes

Xor(a, b) ==
  <<XorByte(a[1], b[1]), XorByte(a[2], b[2]), XorByte(a[3], b[3]), XorByte(a[4], b[4])>>

Halves(b) == [l |-> <<b[1], b[2], b[3], b[4]>>, r |-> <<b[5], b[6], b[7], b[8]>>]

Bytes(v) == <<v.l[1], v.l[2], v.l[3], v.l[4], v.r[1], v.r[2], v.r[3], v.r[4]>>

XorBlock(a, b) ==
  Bytes([l |-> Xor(Halves(a).l, Halves(b).l), r |-> Xor(Halves(a).r, Halves(b).r)])

\* Op(v).  The set, and the comparison, make TLC evaluate v once and for all,
\* however often Op uses it.
With(v, Op(_)) == CHOOSE y \in {Op(x) : x \in {z \in {v} : z = z}} : TRUE

ZeroWord == <<0, 0, 0, 0>>

\* What a keyed object keeps: bc.p and bc.s0 to bc.s3.
Key == [p : [Slots -> Word], s : Boxes]

F(k, w) ==
  Add(Xor(Add(k.s[1][w[1]], k.s[2][w[2]]), k.s[3][w[3]]), k.s[4][w[4]])

-----------------------------------------------------------------------------
(* Blowfish: one R, after which the two halves change their roles.         *)

Half == [l : Word, r : Word]

Swapped(k, l, r) == [l |-> Xor(r, F(k, l)), r |-> l]

R(k, v, i) == Swapped(k, Xor(v.l, k.p[i]), v.r)

FourUp(k, v, i) == R(k, R(k, R(k, R(k, v, i), i + 1), i + 2), i + 3)

FourDown(k, v, i) == R(k, R(k, R(k, R(k, v, i), i - 1), i - 2), i - 3)

Upwards(k, v) ==
  With(FourUp(k, FourUp(k, v, 0), 4), LAMBDA h : FourUp(k, FourUp(k, h, 8), 12))

Downwards(k, v) ==
  With(FourDown(k, FourDown(k, v, 17), 13), LAMBDA h : FourDown(k, FourDown(k, h, 9), 5))

\* The last two words of p go on, and the halves are handed back crossed.
Crossed(k, v, i, j) == [l |-> Xor(v.r, k.p[j]), r |-> Xor(v.l, k.p[i])]

do_encrypt(k, v) == Crossed(k, Upwards(k, v), 16, 17)

do_decrypt(k, v) == Crossed(k, Downwards(k, v), 1, 0)

-----------------------------------------------------------------------------
(* BlowFish of Password Safe: the same cipher, its rounds counted from 1.  *)

ROUND(k, v, n) == [l |-> Xor(v.r, Xor(F(k, v.l), k.p[n])), r |-> v.l]

FourRounds(k, v, n) == ROUND(k, ROUND(k, ROUND(k, ROUND(k, v, n), n + 1), n + 2), n + 3)

Blowfish_encipher(k, v) ==
  LET first == [l |-> Xor(v.l, k.p[0]), r |-> v.r]
      half  == FourRounds(k, FourRounds(k, first, 1), 5)
      last  == With(half, LAMBDA h : FourRounds(k, FourRounds(k, h, 9), 13))
  IN  [l |-> Xor(last.r, k.p[17]), r |-> last.l]

-----------------------------------------------------------------------------
(* do_bf_setkey and InitializeBlowfish: the key goes round and round over  *)
(* ps; then the cipher of what is there so far gives the words to come.    *)

KeyByte(bytes, n) == bytes[(n % Len(bytes)) + 1]

KeyWord(bytes, i) == <<KeyByte(bytes, 4 * i), KeyByte(bytes, 4 * i + 1),
                       KeyByte(bytes, 4 * i + 2), KeyByte(bytes, 4 * i + 3)>>

Laid(bytes) ==
  [p |-> [i \in Slots |-> Xor(PTable[i], KeyWord(bytes, i))], s |-> STable]

\* The answer v goes into the next two places, and is what comes next.
PairP(acc, n, v) ==
  [v |-> v, k |-> [p |-> [acc.k.p EXCEPT ![2 * n - 2] = v.l, ![2 * n - 1] = v.r], s |-> acc.k.s]]

PairS(acc, n, v) ==
  LET pairs == Cardinality(Byte) \div 2
      box   == (n - 1) \div pairs + 1
      x     == 2 * ((n - 1) % pairs)
  IN  [v |-> v, k |-> [p |-> acc.k.p,
                       s |-> [acc.k.s EXCEPT ![box] = [@ EXCEPT ![x] = v.l, ![x + 1] = v.r]]]]

\* First p, two words at a time, then the four boxes.
Pair(acc, n, v) == IF n <= 9 THEN PairP(acc, n, v) ELSE PairS(acc, n - 9, v)

Scheduled(bytes, Cipher(_, _)) ==
  LET start == [v |-> [l |-> ZeroWord, r |-> ZeroWord], k |-> With(bytes, Laid)]
      steps == 9 + 2 * Cardinality(Byte)
      after[n \in 0..steps] ==
        IF n = 0 THEN start
        ELSE With(after[n - 1], LAMBDA acc : Pair(acc, n, Cipher(acc.k, acc.v)))
  IN  after[steps].k

bf_setkey(bytes) == Scheduled(bytes, do_encrypt)

InitializeBlowfish(bytes) == Scheduled(bytes, Blowfish_encipher)

-----------------------------------------------------------------------------
(* Blocks.  Blowfish takes the first byte of a word for the highest, the   *)
(* files take it for the lowest: BFProxy swaps before and after, BlowFish  *)
(* reads its words as the machine does, which is little-endian.            *)

swap(b) == <<b[4], b[3], b[2], b[1], b[8], b[7], b[6], b[5]>>

encrypt(k, b) == swap(Bytes(do_encrypt(k, Halves(swap(b)))))

decrypt(k, b) == swap(Bytes(do_decrypt(k, Halves(swap(b)))))

PwsEncrypt(k, b) == swap(Bytes(Blowfish_encipher(k, Halves(swap(b)))))
=============================================================================
