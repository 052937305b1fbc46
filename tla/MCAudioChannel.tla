--------------------------- MODULE MCAudioChannel ---------------------------
(* Two peers in one conference; or one peer and two starts of the           *)
(* signalling server.                                                       *)
EXTENDS AudioChannel, TLC

PeerSymmetry == Permutations(Peers)
=============================================================================
