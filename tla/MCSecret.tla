------------------------------ MODULE MCSecret ------------------------------
(* Bytes of two bits, hash blocks of sixteen bytes.  With the ten random      *)
(* bytes before it a text of 22 bytes is taken straight from its memory.      *)
EXTENDS Secret, TLC

MCByte == 0..3

Bit(n, i) == (n \div 2^i) % 2
XorTable ==
  [a \in MCByte |-> [b \in MCByte |->
     ((Bit(a, 0) + Bit(b, 0)) % 2) + 2 * ((Bit(a, 1) + Bit(b, 1)) % 2)]]
MCXor(a, b) == XorTable[a][b]

Number(w) == ((w[1] * 4 + w[2]) * 4 + w[3]) * 4 + w[4]
WordOf(n) == <<(n \div 64) % 4, (n \div 16) % 4, (n \div 4) % 4, n % 4>>
Words == [n \in 0..255 |-> WordOf(n)]
MCAdd(a, b) == Words[(Number(a) + Number(b)) % 256]

MCPTable == [i \in 0..17 |-> WordOf((i * i * 37 + 11 * i + 36) % 256)]
MCSTable == [n \in 1..4 |-> [b \in 0..3 |-> WordOf((b * b * 91 + n * 57 + b * n * 29 + 209) % 256)]]

MCHashBytes(d) ==
  [i \in 1..20 |-> FoldLeft(LAMBDA acc, b : (3 * acc + b[(i % 16) + 1] + b[((7 * i) % 16) + 1] + i) % 4,
                            IF d.from = "zeros" THEN 1 ELSE 2, d.blocks)]

Text(n, k) == [i \in 1..n |-> ((i + k) % 3) + 1]
MCTexts  == {<<>>, Text(4, 0), Text(22, 0), Text(22, 1)}
MCFields == {<<>>, <<2, 3, 0, 1, 1, 2, 3, 1>>, Text(9, 2)}
MCSeeds  == {Text(8, 1)}
MCStuffs == {<<1, 0, 2, 3, 3, 0, 1, 2>>}
MCSalts  == {[i \in 1..20 |-> (i * i) % 4]}
MCIvs    == {<<3, 1, 0, 2, 2, 0, 1, 3>>}
MCAlgorKey == [i \in 1..32 |-> (i * i + i \div 3) % 4]
=============================================================================
