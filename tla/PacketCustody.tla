----------------------------- MODULE PacketCustody -----------------------------
(***************************************************************************)
(* What a worker does with the packets it takes from its ring, seen from   *)
(* outside: it holds them in their order of arrival, transmits from the    *)
(* front, and frees the others.  The packets are numbered as they come; no *)
(* packet is held, sent or freed twice, none disappears.                   *)
(***************************************************************************)
EXTENDS Naturals, Sequences

VARIABLES
    taken,      \* packets taken so far: 1 .. taken
    held,       \* the packets the worker owns, oldest first
    sent,       \* the packets given to the NIC, in the order of the bursts
    freed       \* the packets given back to the pool

vars == <<taken, held, sent, freed>>

Init == taken = 0 /\ held = <<>> /\ sent = <<>> /\ freed = {}

Take ==
    /\ taken' \in Nat /\ taken' > taken
    /\ held' = held \o [i \in 1 .. taken' - taken |-> taken + i]
    /\ UNCHANGED <<sent, freed>>

Transmit ==
    /\ \E n \in 1 .. Len(held) :
          /\ sent' = sent \o SubSeq(held, 1, n)
          /\ held' = SubSeq(held, n + 1, Len(held))
    /\ UNCHANGED <<taken, freed>>

Discard ==
    /\ \E i \in DOMAIN held :
          /\ held' = SubSeq(held, 1, i - 1) \o SubSeq(held, i + 1, Len(held))
          /\ freed' = freed \cup {held[i]}
    /\ UNCHANGED <<taken, sent>>

\* Whatever is left is freed.
Abandon ==
    /\ held # <<>>
    /\ freed' = freed \cup {held[i] : i \in DOMAIN held}
    /\ held' = <<>>
    /\ UNCHANGED <<taken, sent>>

Next == Take \/ Transmit \/ Discard \/ Abandon
Spec == Init /\ [][Next]_vars
=============================================================================
