--------------------------- MODULE ExclusiveLock ---------------------------
(***************************************************************************)
(* What a channel or floor promises: it has at most one holder, it is      *)
(* acquired only while nobody holds it, and passes from one holder to the  *)
(* next only by being given up.  The video channel lock of the signalling  *)
(* server, the stream of the media server and the floor of a group are     *)
(* shown to implement it.                                                  *)
(***************************************************************************)
CONSTANTS Peers, NoPeer

VARIABLE holder

Init == holder = NoPeer

Acquire(p) == holder = NoPeer /\ holder' = p

Release(p) == holder = p /\ holder' = NoPeer

Next == \E p \in Peers : Acquire(p) \/ Release(p)

Spec == Init /\ [][Next]_holder
=============================================================================
