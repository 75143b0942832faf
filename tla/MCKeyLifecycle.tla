---------------------------- MODULE MCKeyLifecycle ----------------------------
(***************************************************************************)
(* Small instances of KeyLifecycle: two calls at once, or one at a time;   *)
(* three key pairs, two PINs, two configurations.                          *)
(***************************************************************************)
EXTENDS KeyLifecycle, TLC

CONSTANTS t1, t2, pair1, pair2, pair3, pin1, pin2, config1, config2

OneThread == {t1}
TwoThreads == {t1, t2}
TwoPairs == {pair1, pair2}
ThreePairs == {pair1, pair2, pair3}
TwoPins == {pin1, pin2}
OneConfig == {config1}
TwoConfigs == {config1, config2}

Symmetric ==
    Permutations(TwoThreads) \cup Permutations(ThreePairs)
        \cup Permutations(TwoPins) \cup Permutations(TwoConfigs)
=============================================================================
