------------------------------- MODULE Uuid -------------------------------
(***************************************************************************)
(* The UUIDs of a process: the class UUID (uuid.cpp) over the objects of    *)
(* OSSP uuid (uuid.c), each with its own memory of the last UUID it made,   *)
(* its own random source and an open file for it (uuid_prng.c).             *)
(*                                                                         *)
(* Every entry of a safe holds such an object for as long as it lives.      *)
(* Fields wider than a byte are sequences of bytes, the lowest first.       *)
(***************************************************************************)
EXTENDS Ui64, FiniteSets

CONSTANTS
  Objects,    \* the objects there may be at a time
  Instants,   \* <<tv_sec, tv_usec>>, in order: what gettimeofday may return
  Ticks,      \* UUIDS_PER_TICK, and the ticks in a microsecond: 10
  Draws,      \* the 16-bit numbers prng_data may draw
  Nodes,      \* the six bytes of a network address, or of a drawn one
  MaxFiles,   \* files the process can have open
  MaxBack     \* bound: times the clock is set back

Byte == 0..UI64_BASE - 1

\* What gettimeofday returns until 2038.
Below(n) == 0..n - 1
Instant == Below(2147483647) \X Below(1000000)

ASSUME TicksAssumption == Ticks \in 1..10
ASSUME InstantsAssumption ==
  /\ Instants \in Seq(Instant)
  /\ Len(Instants) > 0
ASSUME RandomAssumption ==
  /\ Draws \subseteq Below(65536)
  /\ Nodes \subseteq [1..6 -> Byte]
ASSUME BoundsAssumption ==
  /\ IsFiniteSet(Objects)
  /\ MaxFiles \in Nat /\ MaxBack \in Nat

VARIABLES
  objs,    \* the ossp_uuid_t of each object, or none
  now,     \* the instant it is
  files,   \* files the process may still open
  back,    \* times the clock has been set back
  made,    \* history: what the object made since its clock sequence was random,
           \* imported or loaded
  stamp    \* history: when its present value was made, and as which of the tick

vars == <<objs, now, files, back, made, stamp>>

NoObject == [obj |-> <<>>]
Live == {o \in Objects : objs[o] # NoObject}

-----------------------------------------------------------------------------
\* The value uuid_load(uuid, "nil") imports.
Nil == [time_low |-> <<0, 0, 0, 0>>, time_mid |-> <<0, 0>>, time_hi_and_version |-> <<0, 0>>,
        clock_seq_hi_and_reserved |-> 0, clock_seq_low |-> 0, node |-> <<0, 0, 0, 0, 0, 0>>]

\* uuid_export_bin and uuid_import_bin: sixteen bytes, the highest first.
ExportBin(u) ==
  Reverse(u.time_low) \o Reverse(u.time_mid) \o Reverse(u.time_hi_and_version)
    \o <<u.clock_seq_hi_and_reserved, u.clock_seq_low>> \o u.node

\* Mutant of ImportBin: time_mid is not turned around.
ImportBin_MidAsIs(b) ==
  [time_low |-> Reverse(SubSeq(b, 1, 4)), time_mid |-> SubSeq(b, 5, 6),
   time_hi_and_version |-> Reverse(SubSeq(b, 7, 8)),
   clock_seq_hi_and_reserved |-> b[9], clock_seq_low |-> b[10], node |-> SubSeq(b, 11, 16)]

ImportBin(b) ==
  [time_low |-> Reverse(SubSeq(b, 1, 4)), time_mid |-> Reverse(SubSeq(b, 5, 6)),
   time_hi_and_version |-> Reverse(SubSeq(b, 7, 8)),
   clock_seq_hi_and_reserved |-> b[9], clock_seq_low |-> b[10], node |-> SubSeq(b, 11, 16)]

\* uuid_isnil
IsNil(u) == LET bin == ExportBin(u) IN \A k \in 1..16 : bin[k] = 0

Dash == -1

\* uuid_export_str: %08lx-%04x-%04x-%02x%02x-..., as hexadecimal digits.
ExportStr(u) ==
  LET bin == ExportBin(u)
      hex == [k \in 1..32 |-> LET byte == bin[(k + 1) \div 2]
                              IN  IF k % 2 = 1 THEN byte \div 16 ELSE byte % 16]
  IN  SubSeq(hex, 1, 8) \o <<Dash>> \o SubSeq(hex, 9, 12) \o <<Dash>>
        \o SubSeq(hex, 13, 16) \o <<Dash>> \o SubSeq(hex, 17, 20) \o <<Dash>>
        \o SubSeq(hex, 21, 32)

\* uuid_isstr: the first 36 characters; what follows them is not looked at.
IsStr(s) ==
  /\ Len(s) >= 36
  /\ \A i \in 0..35 : (s[i + 1] = Dash) <=> i \in {8, 13, 18, 23}

\* uuid_import_str
ImportStr(s) ==
  LET Digits(i)   == 16 * s[i + 1] + s[i + 2]
      clock       == <<Digits(21), Digits(19)>>
  IN  [time_low |-> <<Digits(6), Digits(4), Digits(2), Digits(0)>>,
       time_mid |-> <<Digits(11), Digits(9)>>, time_hi_and_version |-> <<Digits(16), Digits(14)>>,
       clock_seq_hi_and_reserved |-> clock[2], clock_seq_low |-> clock[1],
       node |-> [k \in 1..6 |-> Digits(22 + 2 * k)]]

\* uuid_compare, field by field, each from its highest byte: -1, 0 or 1.
Sign(n) == IF n < 0 THEN -1 ELSE IF n > 0 THEN 1 ELSE 0

First(a, b) ==
  LET differ == {k \in DOMAIN a : a[k] # b[k]}
  IN  IF differ = {} THEN 0
      ELSE Sign(a[Min(differ)] - b[Min(differ)])

Compare(u, v) ==
  LET Fields(w) == Reverse(w.time_low) \o Reverse(w.time_mid) \o Reverse(w.time_hi_and_version)
                     \o <<w.clock_seq_hi_and_reserved, w.clock_seq_low>> \o w.node
  IN  First(Fields(u), Fields(v))

\* uuid_brand
Brand(u, version) ==
  [u EXCEPT !.time_hi_and_version[2] = (@ % 16) + 16 * version,
            !.clock_seq_hi_and_reserved = (@ % 64) + 128]

-----------------------------------------------------------------------------
\* UUID_TIMEOFFSET, "01B21DD213814000"
TimeOffset == ui64_s2i(<<0, 1, 11, 2, 1, 13, 13, 2, 1, 3, 8, 1, 4, 0, 0, 0>>, 16)

\* uuid_make_v1: an instant and a number within its tick, in 100 ns.
TimeOf(at, seq) ==
  LET t == ui64_muln(ui64_addn(ui64_muln(ui64_n2i(at[1]), 1000000), at[2]), Ticks)
  IN  ui64_addn(ui64_add(t, TimeOffset), seq)

\* Mutant of TimeFields: the middle is shifted out by one byte too few.
TimeFields_ByteShort(t) ==
  LET hi  == ui64_rol(t, 16)
      mid == ui64_rol(hi.x, 8)
      low == ui64_rol(mid.x, 32)
  IN  [hi |-> <<hi.ov[1], hi.ov[2] % 16>>, mid |-> SubSeq(mid.ov, 1, 2), low |-> SubSeq(low.ov, 1, 4)]

\* The 60 lowest bits of the time, shifted out from the top.
TimeFields(t) ==
  LET hi  == ui64_rol(t, 16)
      mid == ui64_rol(hi.x, 16)
      low == ui64_rol(mid.x, 32)
  IN  [hi |-> <<hi.ov[1], hi.ov[2] % 16>>, mid |-> SubSeq(mid.ov, 1, 2), low |-> SubSeq(low.ov, 1, 4)]

\* The fields for each number of each instant.
FieldsAt == [k \in 1..Len(Instants) |-> [seq \in 0..Ticks |-> TimeFields(TimeOf(Instants[k], seq))]]

\* uuid_export_txt: <<seconds, microseconds, ticks>> of a version 1 UUID.
Pad(s) == s \o SubSeq(ui64_zero, Len(s) + 1, UI64_DIGITS)

TimeShown(u) ==
  LET hi    == <<u.time_hi_and_version[1], u.time_hi_and_version[2] % 16>>
      t     == ui64_or(ui64_or(ui64_rol(Pad(hi), 48).x, ui64_rol(Pad(u.time_mid), 32).x),
                       Pad(u.time_low))
      ticks == ui64_divn(ui64_sub(t, TimeOffset), Ticks)
      usecs == ui64_divn(ticks.x, 1000000)
  IN  <<usecs.x, usecs.ov, ticks.ov>>

-----------------------------------------------------------------------------
Init ==
  /\ objs = [o \in Objects |-> NoObject]
  /\ now = 1
  /\ files = MaxFiles
  /\ back = 0
  /\ made = [o \in Objects |-> <<>>]
  /\ stamp = [o \in Objects |-> <<>>]

\* prng_create opens /dev/urandom, or does without; prng_destroy closes it.
DeviceOpened == files > 0
Held(x) == IF x.dev THEN 1 ELSE 0

\* mac_address needs a file for a moment; without an address the node will be
\* drawn (128: IEEE 802 has no such address).
Fallback == <<128, 0, 0, 0, 0, 0>>
MacsFound(left) == {Fallback} \cup (IF left > 0 THEN Nodes ELSE {})

\* uuid_create
NewObject(dev, mac) == [obj |-> Nil, dev |-> dev, mac |-> mac, last |-> 0, seq |-> 0]

\* The constructors of UUID.
Create(o) ==
  /\ objs[o] = NoObject
  /\ LET left == IF DeviceOpened THEN files - 1 ELSE files
     IN  /\ files' = left
         /\ \E mac \in MacsFound(left) :
              objs' = [objs EXCEPT ![o] = NewObject(DeviceOpened, mac)]
  /\ made' = [made EXCEPT ![o] = <<>>]
  /\ stamp' = [stamp EXCEPT ![o] = <<>>]
  /\ UNCHANGED <<now, back>>

\* Mutant of Destroy: prng_destroy does not close the file.
Destroy_StaysOpen(o) ==
  /\ objs[o] # NoObject
  /\ objs' = [objs EXCEPT ![o] = NoObject]
  /\ made' = [made EXCEPT ![o] = <<>>]
  /\ stamp' = [stamp EXCEPT ![o] = <<>>]
  /\ UNCHANGED <<now, files, back>>

Destroy(o) ==
  /\ objs[o] # NoObject
  /\ objs' = [objs EXCEPT ![o] = NoObject]
  /\ files' = files + Held(objs[o])
  /\ made' = [made EXCEPT ![o] = <<>>]
  /\ stamp' = [stamp EXCEPT ![o] = <<>>]
  /\ UNCHANGED <<now, back>>

-----------------------------------------------------------------------------
\* The clock sequence: 14 bits in two bytes, the upper two of which the brand
\* has.
Clock(u) == (u.clock_seq_hi_and_reserved % 64) * 256 + u.clock_seq_low

WithClock(u, clck) ==
  [u EXCEPT !.clock_seq_hi_and_reserved = (@ \div 64) * 64 + clck \div 256,
            !.clock_seq_low = clck % 256]

\* Initially, or if the time went back, the sequence is drawn anew.
Redraws(x) == Clock(x.obj) = 0 \/ now < x.last

\* Mutant of NextClock: the sequence stays as it is.
NextClock_Stays(x, draw) == (IF Redraws(x) THEN draw ELSE Clock(x.obj)) % 16384

NextClock(x, draw) == (IF Redraws(x) THEN draw ELSE Clock(x.obj) + 1) % 16384

\* The node: the address of the machine, or a local multicast one.
NodeOf(x, drawn) ==
  IF x.mac[1] >= 128 THEN [drawn EXCEPT ![1] = (@ \div 4) * 4 + 3] ELSE x.mac

\* uuid_make_v1.  A tick that has no number left is waited out.
MakeV1(o) ==
  /\ objs[o] # NoObject
  /\ LET x == objs[o]
         seq == IF now # x.last THEN 0 ELSE x.seq + 1
     IN  /\ now = x.last => x.seq < Ticks
         /\ \E draw \in Draws, drawn \in Nodes :
              LET f == FieldsAt[now][seq]
                  u == Brand([WithClock(x.obj, NextClock(x, draw))
                                EXCEPT !.time_low = f.low, !.time_mid = f.mid,
                                       !.time_hi_and_version = f.hi,
                                       !.node = NodeOf(x, drawn)], 1)
              IN  /\ objs' = [objs EXCEPT ![o].obj = u, ![o].last = now, ![o].seq = seq]
                  /\ made' = [made EXCEPT ![o] = IF Redraws(x) THEN <<u>> ELSE Append(@, u)]
         /\ stamp' = [stamp EXCEPT ![o] = <<now, seq>>]
  /\ UNCHANGED <<now, files, back>>

\* uuid_import and uuid_load overwrite the value, not what the object remembers.
Overwrite(o, u) ==
  /\ objs' = [objs EXCEPT ![o].obj = u]
  /\ made' = [made EXCEPT ![o] = <<>>]
  /\ UNCHANGED <<now, files, back>>

\* UUID::copy, by way of toArray and fromArray.
Copy(o, p) ==
  /\ objs[o] # NoObject /\ objs[p] # NoObject /\ o # p
  /\ Overwrite(o, ImportBin(ExportBin(objs[p].obj)))
  /\ stamp' = [stamp EXCEPT ![o] = stamp[p]]

\* UUID::fromString of what toString gave, as the text formats do.
FromString(o, p) ==
  /\ objs[o] # NoObject /\ objs[p] # NoObject /\ o # p
  /\ IsStr(ExportStr(objs[p].obj))
  /\ Overwrite(o, ImportStr(ExportStr(objs[p].obj)))
  /\ stamp' = [stamp EXCEPT ![o] = stamp[p]]

\* The clock goes on, or is set back.
Tick ==
  /\ now < Len(Instants)
  /\ now' = now + 1
  /\ UNCHANGED <<objs, files, back, made, stamp>>

SetBack ==
  /\ back < MaxBack
  /\ \E k \in 1..now - 1 : now' = k
  /\ back' = back + 1
  /\ UNCHANGED <<objs, files, made, stamp>>

Next ==
  \/ Tick \/ SetBack
  \/ \E o \in Objects : Create(o) \/ Destroy(o) \/ MakeV1(o)
  \/ \E o, p \in Objects : Copy(o, p) \/ FromString(o, p)

Spec == Init /\ [][Next]_vars

-----------------------------------------------------------------------------
\* An object does not make a UUID twice between two random clock sequences: not
\* within a tick, not when the last number of a tick is the time of the next
\* tick's first, and not when the time stands still (uuid_make_v1).
UniqueInObject == \A o \in Objects : IsInjective(made[o])

\* The time that uuid_export_txt shows of a version 1 UUID, whatever it was
\* copied through, is the time it was made at; the number that is one too many
\* for a tick shows as the next microsecond.
TimeIsReadBack ==
  \A o \in Live : stamp[o] # <<>> =>
    LET at   == Instants[stamp[o][1]]
        seq  == stamp[o][2]
        usec == at[2] + seq \div Ticks
    IN  TimeShown(objs[o].obj)
          = <<ui64_n2i(at[1] + usec \div 1000000), usec % 1000000, seq % Ticks>>

\* The two written forms of a UUID stand for that UUID and no other, and compare
\* orders UUIDs and finds equal those, and only those, that are written alike.
FormsAgree ==
  \A o \in Live :
    LET u == objs[o].obj
        b == ExportBin(u)
        s == ExportStr(u)
    IN  /\ ImportBin(b) = u
        /\ IsStr(s) /\ ImportStr(s) = u
        /\ IsNil(u) <=> u = Nil
        /\ \A p \in Live :
             LET v == objs[p].obj
             IN  /\ Compare(u, v) = 0 <=> u = v
                 /\ s = ExportStr(v) => b = ExportBin(v)
                 /\ Compare(u, v) = -Compare(v, u)

\* A save finds a file to open as long as there are fewer UUIDs than files: every
\* entry of a safe keeps one open, and gives it back with its UUID.
SaveHasAFile == Cardinality(Live) < MaxFiles => files > 0
=============================================================================
