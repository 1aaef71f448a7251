------------------------------ MODULE MCSync ------------------------------
(* Sync in two instances: two devices that sync two keys with a bound of one *)
(* fact per bundle, two calls at a time and everything that may go wrong;    *)
(* and three devices around a hub that sync one key until they agree.        *)
EXTENDS Sync, TLC

MCMesh == {r \in Devices \X Devices : r[1] # r[2]}
MCOwnToo == {<<1, 2>>, <<2, 2>>}
MCHub  == {r \in MCMesh : 3 \in {r[1], r[2]}}
MCStart == [d \in Devices |-> CASE d = 1 -> 1 [] d = 2 -> 0 [] d = 3 -> 2]
MCSessionSymmetry == Permutations(Sessions)
MCPairStart == [d \in Devices |-> IF d = 1 THEN 0 ELSE 1]
=============================================================================
