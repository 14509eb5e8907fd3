----------------------------- MODULE FlowPacket -----------------------------
(***************************************************************************)
(* The packet parser (src/src/flow_packet.c), as operators on the fields   *)
(* it looks at.  The dispatcher parses every packet it receives and drops  *)
(* what is not an unfragmented TCP or UDP packet over IPv4; the workers    *)
(* count every packet they check under one protocol.                       *)
(***************************************************************************)
EXTENDS Integers, Sequences

ETHER_HDR == 14     \* sizeof(struct rte_ether_hdr)
IPV4_HDR == 20      \* sizeof(struct rte_ipv4_hdr)
PORTS == 4          \* sizeof(uint16_t) * 2
IPPROTO_TCP == 6
IPPROTO_UDP == 17

\* data_len counts the bytes of the first segment; the other fields are what
\* stands at their place in memory, whether data_len reaches there or not.
Header == [data_len : Nat, ipv4 : BOOLEAN, ihl : 0 .. 15, mf : BOOLEAN,
           offset : Nat, proto : Nat, dst_port : Nat]

\* rte_ipv4_hdr_len, a uint8_t.
L3Len(h) == (4 * h.ihl) % 256

\* The seven tests of flow_packet_extract_key in their order: how far into the
\* data each reads, and what the call returns when it fails.
Reads == <<0, ETHER_HDR, 0, ETHER_HDR + 1, ETHER_HDR + 8, ETHER_HDR + 10, 0>>
Returns == <<"TRUNCATED", "UNSUPPORTED", "TRUNCATED", "TRUNCATED", "UNSUPPORTED",
             "UNSUPPORTED", "TRUNCATED">>

LengthFails(h, i) ==
    \/ i = 1 /\ h.data_len < ETHER_HDR
    \/ i = 2 /\ ~h.ipv4
    \/ i = 3 /\ h.data_len < ETHER_HDR + IPV4_HDR

\* Mutant of HeaderFails: packets of any protocol pass.
HeaderFails_AnyProtocol(h, i) ==
    \/ i = 4 /\ L3Len(h) < IPV4_HDR
    \/ i = 5 /\ (h.mf \/ h.offset # 0)

HeaderFails(h, i) ==
    \/ i = 4 /\ L3Len(h) < IPV4_HDR
    \/ i = 5 /\ (h.mf \/ h.offset # 0)
    \/ i = 6 /\ h.proto \notin {IPPROTO_TCP, IPPROTO_UDP}

\* Mutant of PortsFail: the header is taken for one without options.
PortsFail_NoOptions(h, i) ==
    i = 7 /\ h.data_len < ETHER_HDR + IPV4_HDR + PORTS

PortsFail(h, i) == i = 7 /\ h.data_len < ETHER_HDR + L3Len(h) + PORTS

Failing(h) ==
    {i \in 1 .. 7 : LengthFails(h, i) \/ HeaderFails(h, i) \/ PortsFail(h, i)}

First(S) == CHOOSE i \in S : \A j \in S : i <= j
Largest(S) == CHOOSE i \in S : \A j \in S : i >= j

\* The first test that fails decides.
extract_key(h) == IF Failing(h) = {} THEN "OK" ELSE Returns[First(Failing(h))]

\* How far into the data the call reads: up to the first test that fails, or to
\* the end of the ports.
BytesRead(h) ==
    IF Failing(h) = {} THEN ETHER_HDR + L3Len(h) + PORTS
    ELSE Largest({Reads[i] : i \in 1 .. First(Failing(h))})

\* flow_stats_account_protocol: the counter of a tuple.
account_protocol(proto, dst_port) ==
    CASE proto = IPPROTO_TCP /\ dst_port = 80  -> "http_pkts"
      [] proto = IPPROTO_TCP /\ dst_port = 443 -> "https_pkts"
      [] proto = IPPROTO_TCP /\ dst_port \notin {80, 443} -> "tcp_pkts"
      [] proto = IPPROTO_UDP /\ dst_port = 53  -> "dns_pkts"
      [] proto = IPPROTO_UDP /\ dst_port # 53  -> "udp_pkts"
      [] OTHER -> "other_pkts"

-----------------------------------------------------------------------------
(* Properties.                                                             *)

\* flow_packet_extract_key takes exactly the unfragmented TCP and UDP packets over
\* IPv4 that have a whole IPv4 header, options included, and both ports in the
\* first segment (src/README.md:60).
ParsesExactly(h) ==
    extract_key(h) = "OK" <=>
        /\ h.ipv4 /\ ~h.mf /\ h.offset = 0
        /\ h.proto \in {IPPROTO_TCP, IPPROTO_UDP}
        /\ 4 * h.ihl \in IPV4_HDR .. h.data_len - ETHER_HDR - PORTS

\* Whatever the header fields say, the parser reads no byte behind the data.
ReadsInside(h) == BytesRead(h) <= h.data_len
=============================================================================
