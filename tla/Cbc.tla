-------------------------------- MODULE Cbc --------------------------------
(***************************************************************************)
(* The blocks of a Blowfish file, as BlowfishLizer::writeCBC and readCBC   *)
(* chain them: each is xored with the encrypted block before it, the first *)
(* with the eight random bytes of the header.  Writer and reader each keep *)
(* the last encrypted block they have seen (ipthing) from one record to    *)
(* the next.  What records the blocks make up is a matter of Secret.       *)
(***************************************************************************)
EXTENDS Blowfish

VARIABLES
  file,   \* the encrypted blocks on disk
  iv,     \* the ipthing of the header
  wkey,   \* the fish that writes
  wip,    \* the writer's ipthing
  rkey,   \* the fish that reads
  rip,    \* the reader's ipthing
  sent,   \* the blocks as they were given to the writer
  got     \* the blocks as the reader has decrypted them

cbcVars == <<file, iv, wkey, wip, rkey, rip, sent, got>>

CbcTypeOK ==
  /\ file \in Seq(Block) /\ sent \in Seq(Block) /\ got \in Seq(Block)
  /\ iv \in Block /\ wip \in Block /\ rip \in Block
  /\ wkey \in Key /\ rkey \in Key

StartWrite(k, ip) ==
  /\ file' = <<>> /\ sent' = <<>> /\ got' = <<>>
  /\ iv' = ip /\ wip' = ip /\ rip' = ip
  /\ wkey' = k /\ rkey' = k

Chained(b) == encrypt(wkey, XorBlock(b, wip))

WriteBlock(b) ==
  /\ file' = Append(file, Chained(b))
  /\ wip' = Chained(b)
  /\ sent' = Append(sent, b)
  /\ UNCHANGED <<iv, wkey, rkey, rip, got>>

StartRead(k) ==
  /\ rkey' = k /\ rip' = iv /\ got' = <<>>
  /\ UNCHANGED <<file, iv, wkey, wip, sent>>

\* A reader that remembers the block it has made, not the one it has read.
ReadBlock_Decrypted ==
  LET block == XorBlock(decrypt(rkey, file[Len(got) + 1]), rip)
  IN  /\ Len(got) < Len(file)
      /\ got' = Append(got, block)
      /\ rip' = block
      /\ UNCHANGED <<file, iv, wkey, wip, rkey, sent>>

ReadBlock ==
  /\ Len(got) < Len(file)
  /\ got' = Append(got, XorBlock(decrypt(rkey, file[Len(got) + 1]), rip))
  /\ rip' = file[Len(got) + 1]
  /\ UNCHANGED <<file, iv, wkey, wip, rkey, sent>>

CbcInit(k, ip) ==
  /\ file = <<>> /\ sent = <<>> /\ got = <<>>
  /\ iv = ip /\ wip = ip /\ rip = ip
  /\ wkey = k /\ rkey = k

CbcNext ==
  \/ \E k \in Key, ip \in Block : StartWrite(k, ip)
  \/ \E b \in Block : WriteBlock(b)
  \/ \E k \in Key : StartRead(k)
  \/ ReadBlock

CbcSpec == (\E k \in Key, ip \in Block : CbcInit(k, ip)) /\ [][CbcNext]_cbcVars

\* Whoever has the writer's key reads the writer's blocks, in their order
\* and whatever was written before or after them (writeCBC, readCBC, the
\* rounds of Blowfish and the swaps of BFProxy).
ReadsBack ==
  rkey = wkey => /\ Len(got) <= Len(sent)
                 /\ \A n \in 1..Len(got) : got[n] = sent[n]
=============================================================================
