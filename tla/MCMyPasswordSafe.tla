-------------------------- MODULE MCMyPasswordSafe --------------------------
(* Instances of MyPasswordSafe for TLC. *)
EXTENDS MyPasswordSafe, TLC

\* e1 goes into the group if there is one, the others into the safe itself.
HomeOfE1 == [e \in Entries |-> IF e = "e1" /\ Groups # {} THEN CHOOSE g \in Groups : TRUE
                               ELSE Root]

\* The paths are interchangeable: no definition and no property names one.
PathsAlike == Permutations(Paths)
=============================================================================
