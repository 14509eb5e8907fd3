------------------------------ MODULE MCSpiEngine ------------------------------
(* Small rule files for the rule engine. *)
EXTENDS SpiEngine

CONSTANTS ip1, ip2

\* An SSH packet and a DNS query; the latter from the port that 65536 would wrap to.
a == [protocol |-> 6, src_ip |-> ip1, dst_ip |-> ip2,
      src_port |-> 1024, dst_port |-> 22]
b == [protocol |-> 17, src_ip |-> ip2, dst_ip |-> ip1,
      src_port |-> 0, dst_port |-> 53]
TwoTuples == {a, b}

\* A line for all packets.
All(action) ==
    [comment |-> FALSE, fields |-> 7, protocol |-> Star, src_ip |-> Star,
     dst_ip |-> Star, src_port |-> Star, dst_port |-> Star, action |-> action]
Comment == [All("DROP") EXCEPT !.comment = TRUE]

DropA == [All("DROP") EXCEPT !.protocol = "TCP", !.dst_port = 22]
DropB == [All("DROP") EXCEPT !.src_ip = ip2]

\* Two orders of the same rules, a shorter file, and files that fail after a
\* rule was stored: by a value, by their length.
SomeFiles == {
    <<Comment, DropA, All("LOG")>>,
    <<All("LOG"), DropA>>,
    <<All("DROP")>>,
    <<DropA, [DropB EXCEPT !.src_port = UINT16_MAX + 1]>>,
    <<All("COUNT"), DropB, All("DROP")>>}

\* A rule line with an eighth field.
LongLine == {<<[DropA EXCEPT !.fields = 8], All("FORWARD")>>, <<Comment>>,
             <<[DropA EXCEPT !.fields = 9]>>}
=============================================================================
