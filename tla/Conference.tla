----------------------------- MODULE Conference -----------------------------
(***************************************************************************)
(* What an audio conference promises: nobody is put into it who has not    *)
(* asked to be, and nobody goes out of it who neither has withdrawn nor is *)
(* away; the members come and go one by one, each with all that it sends   *)
(* and hears.  A peer that is away does not come back.  The audio pipeline *)
(* of the media server is shown to implement it.                           *)
(***************************************************************************)
CONSTANT Peers

VARIABLES
    wanting,    \* the peers that have asked and not withdrawn
    away,       \* the peers that cannot be reached any more
    members     \* the peers in the conference

Init == wanting = {} /\ away = {} /\ members = {}

Ask(p) ==
    /\ p \notin away
    /\ wanting' = wanting \cup {p}
    /\ UNCHANGED <<away, members>>

Withdraw(p) ==
    /\ wanting' = wanting \ {p}
    /\ UNCHANGED <<away, members>>

\* Who leaves withdraws, or only falls silent.
Leave(p) ==
    /\ away' = away \cup {p}
    /\ wanting' \in {wanting, wanting \ {p}}
    /\ UNCHANGED members

Admit(p) ==
    /\ p \in wanting
    /\ members' = members \cup {p}
    /\ UNCHANGED <<wanting, away>>

Dismiss(p) ==
    /\ p \notin wanting \/ p \in away
    /\ members' = members \ {p}
    /\ UNCHANGED <<wanting, away>>

Next == \E p \in Peers : Ask(p) \/ Withdraw(p) \/ Leave(p) \/ Admit(p) \/ Dismiss(p)
=============================================================================
