----------------------------- MODULE SessionLock -----------------------------
(***************************************************************************)
(* What a channel promises to sessions that come and go: its lock is       *)
(* exclusive, only a session that is there takes it or has it, and a       *)
(* session gives it up before it goes.  All of them go at once when their  *)
(* server exits.  A session that has gone does not come back: a browser    *)
(* that connects again is another one.  The signalling server is shown to  *)
(* implement it.                                                           *)
(***************************************************************************)
CONSTANTS Peers, NoPeer

VARIABLES
    present,    \* the sessions that are there
    past,       \* those that have been
    holder      \* who has the lock

Lock == INSTANCE ExclusiveLock

Init == present = {} /\ past = {} /\ Lock!Init

Come(p) ==
    /\ p \notin present \cup past
    /\ present' = present \cup {p}
    /\ UNCHANGED <<past, holder>>

Go(p) ==
    /\ p \in present
    /\ holder # p
    /\ present' = present \ {p}
    /\ past' = past \cup {p}
    /\ UNCHANGED holder

Use(p) ==
    /\ p \in present
    /\ Lock!Acquire(p) \/ Lock!Release(p)
    /\ UNCHANGED <<present, past>>

Exit ==
    /\ present' = {}
    /\ past' = past \cup present
    /\ holder' = NoPeer

Next == Exit \/ \E p \in Peers : Come(p) \/ Go(p) \/ Use(p)

Spec == Init /\ [][Next]_<<present, past, holder>>
=============================================================================
