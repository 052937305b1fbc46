--------------------------- MODULE MCVideoChannel ---------------------------
(* Two peers and two offers: each may stream to the other, one after the    *)
(* other; or one offer and every interleaving around it.                    *)
EXTENDS VideoChannel, TLC

PeerSymmetry == Permutations(Peers)
=============================================================================
