---------------------------- MODULE MCSafeFile ----------------------------
(* Instances of SafeFile for TLC: which faults each run lets happen. *)
EXTENDS SafeFile

\* Opens fail, the disk is full before an entry begins, the process dies, also
\* because the backup cannot be opened, and the user restores a torn file before
\* using it again.
CarefulUse == {"open", "entry", "bakopen", "uuid", "crash"}

\* Everything happens: writes are lost without a word, the backup fails without
\* a word, torn files are opened or saved over, and files are opened with the wrong
\* filter.
AnythingGoes == AllFaults
===========================================================================
