---------------------------- MODULE MCKeyTable ----------------------------
(***************************************************************************)
(* KeyTable for TLC: two keys that share their two buckets of one slot,    *)
(* each with the other's second bucket as its first.                       *)
(***************************************************************************)
EXTENDS KeyTable, TLC

CONSTANTS t1, t2

TwoKeys == {"a", "b"}
TwoThreads == {t1, t2}
Crossed1 == ("a" :> <<1>>) @@ ("b" :> <<2>>)
Crossed2 == ("a" :> <<2>>) @@ ("b" :> <<1>>)

ThreadSymmetry == Permutations(TwoThreads)
=============================================================================
