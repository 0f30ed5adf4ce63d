------------------------------ MODULE MCUuid ------------------------------
(* Two objects and two open files; two instants that follow each other over  *)
(* the end of a second.                                                      *)
EXTENDS Uuid, TLC

MCInstants == << <<1100000000, 999999>>, <<1100000001, 0>> >>
MCDraws    == {0, 16382}
MCNodes    == {<<0, 16, 164, 201, 7, 255>>}
Symmetric  == Permutations(Objects)
=============================================================================
