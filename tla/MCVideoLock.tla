---------------------------- MODULE MCVideoLock ----------------------------
(* Two peers and one thread of the gRPC service: a thread inside each of    *)
(* the two monitors and one that waits, or evaluates, in between.           *)
(* No symmetry: the runs check liveness.                                    *)
EXTENDS VideoLock
=============================================================================
