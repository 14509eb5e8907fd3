------------------------------- MODULE MCReport -------------------------------
(* Small sets for the report. *)
EXTENDS Report

CONSTANTS w1, w2

Packet(proto, ihl) ==
    [data_len |-> 60, ipv4 |-> TRUE, ihl |-> ihl, mf |-> FALSE, offset |-> 0,
     proto |-> proto, dst_port |-> 53]

\* A DNS query, a packet of another protocol, and one whose options leave no room
\* for the ports.
Arriving == {Packet(17, 5), Packet(1, 5), Packet(17, 15)}

Order == <<"dispatcher", w1, w2>>
=============================================================================
