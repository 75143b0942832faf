-------------------------- MODULE MCConversationKeys --------------------------
(***************************************************************************)
(* A small instance of ConversationKeys: two threads, two conversations,   *)
(* versions 0 and 1, the second with two spellings, two keys.  The batches *)
(* hold the first versions of both conversations, under the same number    *)
(* for different keys, of which the last to open is adopted for both; a    *)
(* second version of one; and, for the other, a second version in the      *)
(* other spelling, beside a key change in the usual spelling that adopts   *)
(* without verifying.  Any batch may come again at any time, and of each   *)
(* any events may open and verify, so that shorter batches are among them. *)
(***************************************************************************)
EXTENDS ConversationKeys, TLC

CONSTANTS t1, t2, c1, c2, k1, k2

MCThreads == {t1, t2}
MCConversations == {c1, c2}
MCKeys == {k1, k2}

MCSpellings == {"0", "1", "01"}
MCNumberOf == [s \in MCSpellings |-> IF s = "0" THEN 0 ELSE 1]
MCSpelled == [v \in 0 .. 1 |-> IF v = 0 THEN "0" ELSE "1"]

KeyChange(c, v, opens, signed, format, enforced) ==
    [type |-> "KeyChange", conv |-> c, version |-> v, opens |-> opens,
     signed |-> signed, format |-> format, enforced |-> enforced]

First == KeyChange(c1, "0", k1, k1, "plaintext", FALSE)
Second == KeyChange(c1, "1", k2, k2, "plaintext", TRUE)
OtherFirst == KeyChange(c2, "0", k2, k2, "plaintext", FALSE)
OtherRespelled == KeyChange(c2, "01", k1, k1, "plaintext", TRUE)
\* Too old for a signature to be rebuilt: adopted, and signed by nobody.
OtherLegacy == KeyChange(c2, "1", k2, NoKey, "legacy", TRUE)
Message == [type |-> "Other", conv |-> c1]

MCBatches == { <<First, OtherFirst>>, <<Second, Message>>,
               <<OtherRespelled, OtherLegacy>> }

Symmetric == Permutations(MCThreads)
=============================================================================
