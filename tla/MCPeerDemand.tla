---------------------------- MODULE MCPeerDemand ----------------------------
(***************************************************************************)
(* PeerDemand on a circle of eight rounds that wraps in the first run.     *)
(***************************************************************************)
EXTENDS PeerDemand

Says(a, b) == [k \in Keys |-> IF k = "a" THEN a ELSE b]

\* Two keys that take turns at being hot.
FewLoads == {Says(2, 0), Says(0, 1)}
=============================================================================
