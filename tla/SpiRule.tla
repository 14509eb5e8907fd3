-------------------------------- MODULE SpiRule --------------------------------
(***************************************************************************)
(* One line of rules.cfg and the rule it becomes (the parsers and          *)
(* rule_matches in src/src/spi_engine.c).  A line is its number of         *)
(* comma-separated tokens and the meaning of the tokens behind the name:   *)
(* TCP stands for its spelling in any case, an address for its dotted      *)
(* form, a number for what strtoul reads.                                  *)
(***************************************************************************)
EXTENDS Integers

CONSTANTS
    Addresses,      \* IPv4 addresses
    Star,           \* the token "*"
    Garbage,        \* a token that means nothing
    Failed          \* a parser returns -1

UINT16_MAX == 65535

\* struct flow_cold_data as far as rules look at it.
Cold == [protocol : 0 .. 255, src_ip : Addresses, dst_ip : Addresses,
         src_port : 0 .. UINT16_MAX, dst_port : 0 .. UINT16_MAX]

Lines == [comment : BOOLEAN, fields : Nat,
          protocol : {"TCP", "UDP", Star, Garbage},
          src_ip : Addresses \cup {Star, Garbage},
          dst_ip : Addresses \cup {Star, Garbage},
          src_port : Nat \cup {Star, Garbage},
          dst_port : Nat \cup {Star, Garbage},
          action : {"FORWARD", "LOG", "COUNT", "DROP", Garbage}]

ASSUME SpiRuleAssumption ==
    /\ Star # Garbage
    /\ {Star, Garbage, Failed} \cap (Addresses \cup Nat) = {}

\* A match flag and the value it guards.
Field == [match : BOOLEAN, value : Nat \cup Addresses]
Wild == [match |-> FALSE, value |-> 0]
Exactly(value) == [match |-> TRUE, value |-> value]

Actions == {"UNKNOWN", "FORWARD", "DROP"}
Rules == [protocol : Field, src_ip : Field, dst_ip : Field, src_port : Field,
          dst_port : Field, action : Actions]

\* A zeroed struct spi_rule has no match flag set: it matches every tuple.
ZeroRule == [protocol |-> Wild, src_ip |-> Wild, dst_ip |-> Wild,
             src_port |-> Wild, dst_port |-> Wild, action |-> "UNKNOWN"]

parse_protocol(token) ==
    IF token = Star THEN Wild
    ELSE IF token = "TCP" THEN Exactly(6)
    ELSE IF token = "UDP" THEN Exactly(17) ELSE Failed

parse_ip(token) ==
    IF token = Star THEN Wild
    ELSE IF token \in Addresses THEN Exactly(token) ELSE Failed

\* Mutant of parse_port: the value is cut to 16 bits before it is checked.
parse_port_Wraps(token) ==
    IF token = Star THEN Wild
    ELSE IF token \in Nat THEN Exactly(token % (UINT16_MAX + 1)) ELSE Failed

parse_port(token) ==
    IF token = Star THEN Wild
    ELSE IF token \in 0 .. UINT16_MAX THEN Exactly(token) ELSE Failed

\* LOG and COUNT are normalized to FORWARD.
parse_action(token) ==
    IF token \in {"FORWARD", "LOG", "COUNT"} THEN "FORWARD"
    ELSE IF token = "DROP" THEN "DROP" ELSE Failed

\* What load_rule_file stores for a line, if no parser fails.
Parsed(line) ==
    [protocol |-> parse_protocol(line.protocol),
     src_ip |-> parse_ip(line.src_ip), dst_ip |-> parse_ip(line.dst_ip),
     src_port |-> parse_port(line.src_port),
     dst_port |-> parse_port(line.dst_port),
     action |-> parse_action(line.action)]

ValuesOK(line) ==
    LET rule == Parsed(line) IN \A f \in DOMAIN rule : rule[f] # Failed

\* The strtok_r loop stores up to 7 tokens.  Its last increment has taken an
\* 8th from the line before idx < 7 fails, so the test after it asks for a 9th.
Stored(fields) == IF fields < 7 THEN fields ELSE 7
Taken(fields) == IF Stored(fields) < 7 THEN fields ELSE 8
FormatOK(fields) == Stored(fields) = 7 /\ fields <= Taken(fields)

rule_matches(rule, cold) ==
    \A f \in DOMAIN cold : rule[f].match => rule[f].value = cold[f]
=============================================================================
