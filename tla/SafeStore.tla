----------------------------- MODULE SafeStore -----------------------------
(***************************************************************************)
(* What saving and loading a safe promises its user, without the steps it  *)
(* takes: for every path, `kept' is the content that can be got back from  *)
(* the file or from its backup.  It changes in one step, and only into the *)
(* content of the safe in memory; a crash at any moment changes nothing in *)
(* it; and opening a path gives exactly what was kept there.               *)
(***************************************************************************)
EXTENDS Integers

CONSTANTS Paths, MaxRev

Contents == [rev : 0..MaxRev, intact : BOOLEAN]
Nothing  == [rev |-> -1, intact |-> FALSE]  \* no file, or nothing readable
NoDoc    == [rev |-> -2, intact |-> FALSE]  \* no safe in memory

VARIABLES kept, memory

Init == /\ kept \in [Paths -> Contents \cup {Nothing}]
        /\ memory = NoDoc

Create == /\ memory = NoDoc
          /\ memory' = [rev |-> 0, intact |-> TRUE]
          /\ UNCHANGED kept

Open(p) == /\ memory = NoDoc
           /\ kept[p] # Nothing
           /\ memory' = kept[p]
           /\ UNCHANGED kept

Edit == /\ memory # NoDoc
        /\ \E r \in 1..MaxRev : memory' = [memory EXCEPT !.rev = r]
        /\ UNCHANGED kept

Put(p) == /\ memory # NoDoc
          /\ kept' = [kept EXCEPT ![p] = memory]
          /\ UNCHANGED memory

\* The safe leaves memory: closed, or the program died.
Drop == memory' = NoDoc /\ UNCHANGED kept

Next == Create \/ Edit \/ Drop \/ \E p \in Paths : Open(p) \/ Put(p)

Spec == Init /\ [][Next]_<<kept, memory>>
=============================================================================
