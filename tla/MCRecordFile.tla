--------------------------- MODULE MCRecordFile ---------------------------
(* Entries for RecordFile: one with every text and no NUL byte in its UUID   *)
(* and times, one whose UUID and times start with a NUL byte, one with a NUL *)
(* byte in the middle of both.  SafeEntry::init makes every policy nil.      *)
EXTENDS RecordFile, TLC

Raw(e, id, time) ==
  e @@ [f \in RawFields |-> CASE f = "UUID" -> id [] f = "POLICY" -> "0x00" [] OTHER -> time]

Full   == Raw([f \in TextFields |-> f], "id1", "2004")
Sparse == Raw([f \in TextFields |-> IF f = "TITLE" THEN "other" ELSE ""], "00id", "0004")
Inner  == Raw([f \in TextFields |-> IF f \in {"TITLE", "PASSWORD"} THEN "third" ELSE ""],
              "id00", "2000")

AllEntries == {Full, Sparse, Inner}
StartNul   == {"00id", "0004", "0x00"}
LaterNul   == {"id00", "2000"}
===========================================================================
