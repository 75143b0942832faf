-------------------------- MODULE MCFeatureSwitches --------------------------
(***************************************************************************)
(* Small instances of FeatureSwitches: two chats; one URL, or two: the     *)
(* one without a bucket and that of the users' common bucket.              *)
(***************************************************************************)
EXTENDS FeatureSwitches, TLC

CONSTANTS t1, t2, ch1, ch2, u1, nobucket, bucket1

VARIABLE moving   \* whether chats change their URL, or the server its answer

OneThread == {t1}
TwoThreads == {t1, t2}
TwoChats == {ch1, ch2}
Nobody == {}
OneUser == {u1}

\* Without users, every chat reads the URL without a bucket.
SharedUrl == [i \in {NoUser} |-> nobucket]

OwnUrl == [i \in {u1, NoUser} |-> IF i = NoUser THEN nobucket ELSE bucket1]

Symmetric == Permutations(TwoThreads) \cup Permutations(TwoChats)

MCInit == Init /\ moving \in BOOLEAN

MCNext ==
    /\ Next
    /\ IF moving THEN UNCHANGED server ELSE UNCHANGED identity
    /\ UNCHANGED moving

MCSpec == MCInit /\ [][MCNext]_<<vars, moving>>

MCFairInit == Init /\ moving = FALSE

MCFairSpec ==
    /\ MCFairInit
    /\ [][Next /\ BeginsInTime /\ UNCHANGED moving]_<<vars, moving>>
    /\ Fairness
=============================================================================
