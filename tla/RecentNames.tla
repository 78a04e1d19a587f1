---------------------------- MODULE RecentNames ----------------------------
(***************************************************************************)
(* What the sidecar's memory of denied keys promises                       *)
(* (src/rateguard-sidecar/src/denied.rs): the names of the Capacity keys   *)
(* last denied, and apart from them those of the Capacity keys last denied *)
(* only by a shadow, oldest first.                                         *)
(***************************************************************************)
EXTENDS Naturals, Sequences

CONSTANTS Hashes, Capacity

VARIABLES denied, tried

Among(list, h) == \E i \in 1..Len(list) : list[i] = h

Without(list, h) ==
    IF ~Among(list, h) THEN list
    ELSE LET at == CHOOSE i \in 1..Len(list) : list[i] = h
         IN  [i \in 1..Len(list) - 1 |-> IF i < at THEN list[i] ELSE list[i + 1]]

\* The oldest makes room.
Newest(list, h) ==
    LET others == Without(list, h)
    IN  Append(IF Len(others) = Capacity THEN Tail(others) ELSE others, h)

Init == denied = <<>> /\ tried = <<>>

\* A key really denied is no longer one only a shadow denied.
Deny(h) ==
    /\ denied' = Newest(denied, h)
    /\ tried' = IF Among(denied, h) THEN tried ELSE Without(tried, h)

\* A shadow's denials keep no name in the list of the real ones.
Try(h) ==
    /\ ~Among(denied, h)
    /\ tried' = Newest(tried, h)
    /\ UNCHANGED denied

Next == \E h \in Hashes : Deny(h) \/ Try(h)

Spec == Init /\ [][Next]_<<denied, tried>>
=============================================================================
