------------------------------- MODULE Digest -------------------------------
(***************************************************************************)
(* The two SHA-1 implementations of the program, as far as they differ:    *)
(* how data given in pieces is cut into blocks, padded and counted.        *)
(* Sha1 (src/crypto) makes keys, SHA1Update and its companions (src/pwsafe)*)
(* the check value of a pass-phrase.  What a block does to the state is a  *)
(* free symbol: a state is the list of the blocks it has taken.            *)
(***************************************************************************)
EXTENDS Naturals, Sequences

CONSTANTS
  HashBlock,   \* bytes of a block: 64 in the code
  Radix        \* values of a byte: 256 in the code

ASSUME HashAssumption == HashBlock \in Nat /\ HashBlock > 8 /\ Radix \in Nat /\ Radix > 1

Mark == Radix \div 2   \* the byte 0x80

Zeros(n) == [i \in 1..n |-> 0]

\* Where a digest starts: from the constants of SHA-1, or from the zeros
\* with which SHA1Final wipes a context.
Fresh == [from |-> "constants", blocks |-> <<>>]
Wiped == [from |-> "zeros", blocks |-> <<>>]

\* transform, SHA1Transform, of one block after the other.
Compress(h, blocks) == [from |-> h.from, blocks |-> h.blocks \o blocks]

\* Blocks taken straight from the data, and what is left of it.
Whole(data) == HashBlock * (Len(data) \div HashBlock)

Absorb(h, data) ==
  Compress(h, [n \in 1..(Len(data) \div HashBlock) |->
                 SubSeq(data, HashBlock * (n - 1) + 1, HashBlock * n)])

Rest(data) == SubSeq(data, Whole(data) + 1, Len(data))

\* The length in bits as eight bytes, the highest first.
LengthBytes(n) == [i \in 1..8 |-> ((8 * n) \div Radix^(8 - i)) % Radix]

-----------------------------------------------------------------------------
(* class Sha1: a full buffer is only taken at the next call.               *)

sha1_init == [h |-> Fresh, buf |-> <<>>, nblocks |-> 0]

Flushed(ctx) ==
  IF Len(ctx.buf) = HashBlock
  THEN [h |-> Compress(ctx.h, <<ctx.buf>>), buf |-> <<>>, nblocks |-> ctx.nblocks + 1]
  ELSE ctx

sha1_write(ctx, data) ==
  LET start == Flushed(ctx)
      room  == HashBlock - Len(start.buf)
      fill  == IF start.buf = <<>> THEN 0 ELSE IF Len(data) < room THEN Len(data) ELSE room
      full  == Flushed([h |-> start.h, buf |-> start.buf \o SubSeq(data, 1, fill),
                        nblocks |-> start.nblocks])
      more  == SubSeq(data, fill + 1, Len(data))
  IN  [h |-> Absorb(full.h, more), buf |-> full.buf \o Rest(more),
       nblocks |-> full.nblocks + Len(more) \div HashBlock]

\* One byte too many still counted as room for the length.
sha1_final_OffByOne(ctx) ==
  LET end    == Flushed(ctx)
      marked == Append(end.buf, Mark)
      length == LengthBytes(end.nblocks * HashBlock + Len(end.buf))
      room   == HashBlock - 8
  IN  Compress(end.h, IF Len(end.buf) <= room
                      THEN <<marked \o Zeros(room - Len(marked)) \o length>>
                      ELSE <<marked \o Zeros(HashBlock - Len(marked)), Zeros(room) \o length>>)

sha1_final(ctx) ==
  LET end    == Flushed(ctx)
      marked == Append(end.buf, Mark)
      length == LengthBytes(end.nblocks * HashBlock + Len(end.buf))
      room   == HashBlock - 8
  IN  Compress(end.h, IF Len(end.buf) < room
                      THEN <<marked \o Zeros(room - Len(marked)) \o length>>
                      ELSE <<marked \o Zeros(HashBlock - Len(marked)), Zeros(room) \o length>>)

-----------------------------------------------------------------------------
(* SHA1_CTX: the buffer never stays full; the count is kept in bits.       *)

SHA1Init == [h |-> Fresh, buf |-> <<>>, count |-> 0]

SHA1Update(ctx, data) ==
  LET i    == HashBlock - Len(ctx.buf)
      full == Len(data) >= i
      more == SubSeq(data, i + 1, Len(data))
  IN  IF full
      THEN [h |-> Absorb(Compress(ctx.h, <<ctx.buf \o SubSeq(data, 1, i)>>), more),
            buf |-> Rest(more), count |-> ctx.count + Len(data)]
      ELSE [h |-> ctx.h, buf |-> ctx.buf \o data, count |-> ctx.count + Len(data)]

\* SHA1HANDSOFF is not defined: SHA1Transform expands a block in its place,
\* so the blocks it is given straight from the data are overwritten there.
Overwritten(ctx, data) ==
  LET i    == HashBlock - Len(ctx.buf)
      last == i + Whole(SubSeq(data, i + 1, Len(data)))
  IN  [n \in 1..Len(data) |-> IF Len(data) >= i /\ n > i /\ n <= last
                              THEN (data[n] + 1) % Radix ELSE data[n]]

\* The mark, zeros up to the place of the length, the length.
SHA1Final(ctx) ==
  LET marked == SHA1Update(ctx, <<Mark>>)
      after  == Len(marked.buf)
      zeros  == IF after <= HashBlock - 8 THEN HashBlock - 8 - after ELSE 2 * HashBlock - 8 - after
  IN  SHA1Update(SHA1Update(marked, Zeros(zeros)), LengthBytes(ctx.count)).h

\* The context SHA1Final leaves.
AfterFinal == [h |-> Wiped, buf |-> <<>>, count |-> 0]

-----------------------------------------------------------------------------
(* SHA-1 of a whole message, to hold both against.                         *)

Padded(data) ==
  LET over == (Len(data) + 9) % HashBlock
      zeros == IF over = 0 THEN 0 ELSE HashBlock - over
  IN  data \o <<Mark>> \o Zeros(zeros) \o LengthBytes(Len(data))

DigestOf(from, data) == Absorb([from |-> from, blocks |-> <<>>], Padded(data))
=============================================================================
