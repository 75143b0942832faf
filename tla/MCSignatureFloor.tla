--------------------------- MODULE MCSignatureFloor ---------------------------
(***************************************************************************)
(* A small instance of SignatureFloor: two threads, two conversations, and *)
(* key changes of an older client (6), of a newer one whose version is     *)
(* still accepted (11) and of one whose version is not (12).               *)
(***************************************************************************)
EXTENDS SignatureFloor, TLC

CONSTANTS t1, t2, c1, c2

MCThreads == {t1, t2}
MCConversations == {c1, c2}

MCEventVersions == {6, 11, 12}

Symmetric == Permutations(MCThreads) \cup Permutations(MCConversations)
=============================================================================
