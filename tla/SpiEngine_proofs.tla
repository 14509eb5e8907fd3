---------------------------- MODULE SpiEngine_proofs ----------------------------
(***************************************************************************)
(* The rule engine for any rule files, tuples, table size and number of    *)
(* workers: the types, the verdict of a match that overlaps with a load,   *)
(* and that what the workers see is always a whole rule file, published at *)
(* once (RuleService).                                                     *)
(***************************************************************************)
EXTENDS SpiEngine, SequenceTheorems, DataLemmas, TLAPS

Tables == [version : Nat, count : 0 .. SPI_MAX_RULES,
           rules : [1 .. SPI_MAX_RULES -> Rules], cut : BOOLEAN]

\* The loader works on the inactive table; there is an active one while the threads
\* run, and nobody matches before.
LoaderInv ==
    /\ Running => active \in {0, 1}
    /\ ~Running => \A m \in Matchers : matcher[m] = NoCall
    /\ lpc = "lines" => target # active

\* A match under way: until a second load begins it reads a table that nobody writes,
\* with the rules that were active at its beginning, and no rule before the i-th
\* matched.
ScanOK(c) ==
    c.pc = "scan" =>
        /\ c.i >= 1 /\ c.count <= SPI_MAX_RULES
        /\ c.loads = 0 => c.table = active /\ lpc # "lines"
        /\ c.loads = 1 /\ lpc = "lines" => c.table # target
        /\ c.loads <= 1 =>
             /\ c.want = Meant(c.table) /\ c.count = tables[c.table].count
             /\ \A j \in 1 .. c.count : j < c.i => c.tuple \notin c.want[j].match

\* A match that is over.
DoneOK(c) == c.pc = "done" /\ c.loads <= 1 => c.verdict = FirstMatch(c.want, c.tuple)

CallInv == \A m \in Matchers : ScanOK(matcher[m]) /\ DoneOK(matcher[m])

SpiInv == TypeOK /\ LoaderInv /\ CallInv

-----------------------------------------------------------------------------
(* Types.                                                                  *)

\* A zeroed rule is a rule.
LEMMA ZeroRuleType == ZeroRule \in Rules
  BY DEF ZeroRule, Rules, Wild, Field, Actions

\* So a zeroed table is a table.
LEMMA ZeroTableType == ZeroTable \in Tables
  BY ZeroRuleType, SpiEngineAssumption DEF ZeroTable, Tables, SpiEngineAssumption

\* What the parsers return unless they fail.
LEMMA ParserTypes ==
    /\ \A token : parse_protocol(token) \in Field \cup {Failed}
    /\ \A token : parse_ip(token) \in Field \cup {Failed}
    /\ \A token : parse_port(token) \in Field \cup {Failed}
    /\ \A token : parse_action(token) \in Actions \cup {Failed}
<1>1. Wild \in Field /\ \A v \in Nat \cup Addresses : Exactly(v) \in Field
  BY DEF Wild, Exactly, Field
<1>2. \A token : parse_protocol(token) \in Field \cup {Failed}
  BY <1>1 DEF parse_protocol
<1>3. \A token : parse_ip(token) \in Field \cup {Failed}
  BY <1>1 DEF parse_ip
<1>4. \A token : parse_port(token) \in Field \cup {Failed}
  <2>1. \A token \in 0 .. UINT16_MAX : token \in Nat
    OBVIOUS
  <2> QED
    BY <1>1, <2>1 DEF parse_port
<1>5. \A token : parse_action(token) \in Actions \cup {Failed}
  BY DEF parse_action, Actions
<1> QED
  BY <1>2, <1>3, <1>4, <1>5

\* A line whose values are all right gives a rule.
LEMMA ParsedType ==
    ASSUME NEW line, ValuesOK(line)
    PROVE  Parsed(line) \in Rules
<1> DEFINE r == Parsed(line)
<1>1. \A f \in DOMAIN r : r[f] # Failed
  BY DEF ValuesOK
<1>2. /\ r.protocol = parse_protocol(line.protocol)
      /\ r.src_ip = parse_ip(line.src_ip) /\ r.dst_ip = parse_ip(line.dst_ip)
      /\ r.src_port = parse_port(line.src_port)
      /\ r.dst_port = parse_port(line.dst_port)
      /\ r.action = parse_action(line.action)
      /\ DOMAIN r = {"protocol", "src_ip", "dst_ip", "src_port", "dst_port", "action"}
  BY DEF Parsed
<1>3. /\ r.protocol \in Field /\ r.src_ip \in Field /\ r.dst_ip \in Field
      /\ r.src_port \in Field /\ r.dst_port \in Field /\ r.action \in Actions
  BY <1>1, <1>2, ParserTypes
<1> QED
  BY <1>2, <1>3 DEF Parsed, Rules

\* The rules of a table, by what they mean.
LEMMA MeantType ==
    ASSUME TypeOK, NEW b \in {0, 1}
    PROVE  /\ Meant(b) \in Seq(Meanings)
           /\ DOMAIN Meant(b) = 1 .. tables[b].count
           /\ tables[b].count \in Nat /\ tables[b].count <= SPI_MAX_RULES
           /\ tables[b] \in Tables
<1>1. tables[b] \in Tables
  BY DEF TypeOK, Tables
<1>2. tables[b].count \in Nat /\ tables[b].count <= SPI_MAX_RULES
  BY <1>1, SpiEngineAssumption DEF Tables, SpiEngineAssumption
<1>3. \A i \in 1 .. tables[b].count : tables[b].rules[i].action \in Actions
  <2>1. \A i \in 1 .. tables[b].count : i \in 1 .. SPI_MAX_RULES
    BY <1>2, SpiEngineAssumption DEF SpiEngineAssumption
  <2>2. \A i \in 1 .. SPI_MAX_RULES : tables[b].rules[i] \in Rules
    BY <1>1 DEF Tables
  <2> QED
    BY <2>1, <2>2 DEF Rules
<1>4. Meant(b) \in [1 .. tables[b].count -> Meanings]
  BY <1>3 DEF Meant, Meanings
<1>5. [1 .. tables[b].count -> Meanings] \subseteq Seq(Meanings)
  BY <1>2, SeqDef
<1> QED
  BY <1>1, <1>2, <1>4, <1>5

\* One of them.
LEMMA MeantAt ==
    ASSUME TypeOK, NEW b \in {0, 1}, NEW i \in 1 .. tables[b].count, NEW t \in Tuples
    PROVE  /\ t \in Meant(b)[i].match <=> rule_matches(tables[b].rules[i], t)
           /\ Meant(b)[i].action = tables[b].rules[i].action
  BY DEF Meant

\* The calls.
LEMMA CallTypes ==
    ASSUME TypeOK, NEW m \in Matchers
    PROVE  /\ matcher[m] \in Calls \cup {NoCall}
           /\ matcher[m].pc # "idle" => matcher[m] \in Calls
           /\ matcher[m] = NoCall <=> matcher[m].pc = "idle"
<1>1. matcher[m] \in Calls \cup {NoCall}
  BY DEF TypeOK
<1>2. \A c \in Calls : c.pc # "idle"
  BY DEF Calls
<1>3. NoCall.pc = "idle"
  BY DEF NoCall
<1> QED
  BY <1>1, <1>2, <1>3

\* The initial state.
LEMMA InitTypes == Init => TypeOK
<1> SUFFICES ASSUME Init
             PROVE  TypeOK
  OBVIOUS
<1>1. tables \in [{0, 1} -> Tables]
  BY ZeroTableType DEF Init
<1>2. <<>> \in Seq(Lines)
  BY EmptySeq
<1>3. 0 \in 0 .. MaxEdits /\ 0 \in 0 .. MaxRequests /\ 0 \in 0 .. 0 /\ -1 \in -1 .. 0
      /\ 0 \in 0 .. MaxReadErrors
  BY SpiEngineAssumption DEF SpiEngineAssumption
<1> QED
  BY <1>1, <1>2, <1>3 DEF Init, TypeOK, Tables

\* The history counters.
LEMMA CounterTypes ==
    ASSUME TypeOK
    PROVE  /\ edition \in Nat /\ edition <= MaxEdits /\ seen \in Nat /\ seen <= edition
           /\ asked \in Int /\ asked >= -1 /\ asked <= edition
           /\ requests \in Nat /\ requests <= MaxRequests
           /\ MaxEdits \in Nat /\ MaxRequests \in Nat
  BY SpiEngineAssumption DEF TypeOK, SpiEngineAssumption

\* The operator's steps.
LEMMA OperatorTypes ==
    ASSUME TypeOK, Edit \/ RequestReload
    PROVE  TypeOK'
<1>1. CASE Edit
  <2>1. /\ edition' \in 0 .. MaxEdits /\ seen \in 0 .. edition' /\ asked \in -1 .. edition'
    BY <1>1, CounterTypes DEF Edit
  <2>2. file' \in Files \cup {NoFile}
    BY <1>1 DEF Edit
  <2> QED
    BY <1>1, <2>1, <2>2
       DEF Edit, TypeOK, tableVars, loaderVars, requestVars
<1>2. CASE RequestReload
  <2>1. asked' \in -1 .. edition /\ requests' \in 0 .. MaxRequests
    BY <1>2, CounterTypes DEF RequestReload
  <2> QED
    BY <1>2, <2>1 DEF RequestReload, TypeOK, fileVars, tableVars, loaderVars
<1> QED
  BY <1>1, <1>2

\* One more load for a call.
LEMMA CountLoadType ==
    ASSUME TypeOK, CountLoad
    PROVE  matcher' \in [Matchers -> Calls \cup {NoCall}]
<1>1. ASSUME NEW m \in Matchers, matcher[m].pc = "scan"
      PROVE  [matcher[m] EXCEPT !.loads = @ + 1] \in Calls
  <2>1. matcher[m] \in Calls
    BY <1>1, CallTypes
  <2> QED
    BY <2>1 DEF Calls
<1>2. \A m \in Matchers : matcher[m] \in Calls \cup {NoCall}
  BY CallTypes
<1> QED
  BY <1>1, <1>2 DEF CountLoad

\* The opening of a file.
LEMMA OpenTypes ==
    ASSUME TypeOK, NEW b \in {0, 1}, OpenFile(b), UNCHANGED requestVars,
           lpc' \in {"init_lines", "lines"}
    PROVE  TypeOK'
<1>1. matcher' \in [Matchers -> Calls \cup {NoCall}]
  BY CountLoadType DEF OpenFile
<1>2. tables' \in [{0, 1} -> Tables]
  BY ZeroTableType DEF OpenFile, TypeOK, Tables
<1>3. unread' \in Seq(Lines)
  BY SpiEngineAssumption DEF OpenFile, TypeOK, SpiEngineAssumption
<1>4. seen' \in 0 .. edition
  BY CounterTypes DEF OpenFile
<1> QED
  BY <1>1, <1>2, <1>3, <1>4 DEF OpenFile, TypeOK, Tables, requestVars, fileVars

\* A line becomes a rule.
LEMMA AddRuleTypes ==
    ASSUME TypeOK, AddRule
    PROVE  tables' \in [{0, 1} -> Tables]
<1>1. target \in {0, 1} /\ tables[target] \in Tables
  BY DEF TypeOK, Tables
<1> DEFINE n == tables[target].count + 1
           rule == Parsed(Head(unread))
<1>2. rule \in Rules
  BY ParsedType DEF AddRule, LineOK
<1>3. n \in 0 .. SPI_MAX_RULES
  BY <1>1, SpiEngineAssumption DEF Tables, SpiEngineAssumption, AddRule, LineOK
<1>4. tables' = [tables EXCEPT ![target].rules[n] = rule, ![target].count = n]
  BY DEF AddRule
<1> HIDE DEF n, rule
<1>5. tables'[target] = [tables[target] EXCEPT !.rules[n] = rule, !.count = n]
  BY <1>1, <1>4 DEF TypeOK
<1>6. [tables[target] EXCEPT !.rules[n] = rule, !.count = n] \in Tables
  BY <1>1, <1>2, <1>3 DEF Tables
<1>7. tables \in [{0, 1} -> Tables]
  BY DEF TypeOK, Tables
<1>8. \A b \in {0, 1} : b # target => tables'[b] = tables[b]
  BY <1>4, <1>7
<1>9. tables' = [b \in {0, 1} |-> tables'[b]]
  BY <1>4, <1>7
<1> QED
  BY <1>5, <1>6, <1>7, <1>8, <1>9

\* A step of load_rule_file that reads a line.
LEMMA ReadTypes ==
    ASSUME TypeOK, ReadLine
    PROVE  TypeOK'
<1>1. unread # <<>> /\ unread' = Tail(unread) /\ unread \in Seq(Lines)
  BY DEF ReadLine, SkipLine, AddRule, TypeOK
<1>2. unread' \in Seq(Lines) /\ Head(unread) \in Lines
  BY <1>1, HeadTailProperties
<1>3. tables' \in [{0, 1} -> Tables]
  BY AddRuleTypes DEF ReadLine, SkipLine, TypeOK, Tables
<1>4. accepted' \subseteq Lines
  BY <1>2 DEF ReadLine, SkipLine, AddRule, TypeOK
<1> QED
  BY <1>2, <1>3, <1>4 DEF ReadLine, TypeOK, Tables, fileVars, requestVars

\* A read fails.
LEMMA ReadErrorTypes ==
    ASSUME TypeOK, ReadError
    PROVE  TypeOK'
<1>1. read_errors' \in 0 .. MaxReadErrors
  BY SpiEngineAssumption DEF ReadError, TypeOK, SpiEngineAssumption
<1>2. unread' \in Seq(Lines)
  BY EmptySeq DEF ReadError
<1>3. tables' \in [{0, 1} -> Tables]
  BY DEF ReadError, TypeOK, Tables
<1> QED
  BY <1>1, <1>2, <1>3 DEF ReadError, TypeOK, Tables, requestVars

\* The other steps of the loader.
LEMMA LoaderTypes ==
    ASSUME TypeOK, LoaderInv,
                   \/ InitFails \/ InitPublish \/ ReloadTakeRequest \/ ReloadNoFile
                   \/ ReloadBadLine \/ ReloadPublish
    PROVE  TypeOK'
<1> USE DEF fileVars, tableVars, requestVars
<1>1. CASE InitFails \/ ReloadTakeRequest \/ ReloadBadLine
  BY <1>1 DEF InitFails, ReloadTakeRequest, ReloadBadLine, TypeOK
<1>2. CASE ReloadNoFile
  <2>1. seen' \in 0 .. edition
    BY <1>2, CounterTypes DEF ReloadNoFile
  <2> QED
    BY <1>2, <2>1 DEF ReloadNoFile, TypeOK
<1>3. ASSUME NEW b \in {0, 1}, NEW v \in Nat
      PROVE  [tables EXCEPT ![b].version = v] \in [{0, 1} -> Tables]
  BY <1>3 DEF TypeOK, Tables
<1>4. CASE InitPublish
  <2>1. tables' \in [{0, 1} -> Tables]
    BY <1>3, <1>4 DEF InitPublish
  <2>2. asked' \in -1 .. edition
    BY <1>4, CounterTypes DEF InitPublish
  <2> QED
    BY <1>4, <2>1, <2>2 DEF InitPublish, TypeOK, Tables
<1>5. CASE ReloadPublish
  <2>1. active \in {0, 1}
    BY <1>5 DEF ReloadPublish, LoaderInv, Running
  <2>2. tables[active].version + 1 \in Nat /\ target \in {0, 1}
    BY <2>1 DEF TypeOK
  <2>3. tables' \in [{0, 1} -> Tables] /\ active' \in {0, 1}
    BY <1>3, <1>5, <2>2 DEF ReloadPublish
  <2> QED
    BY <1>5, <2>3 DEF ReloadPublish, TypeOK, Tables
<1> QED
  BY <1>1, <1>2, <1>4, <1>5

-----------------------------------------------------------------------------
(* The matches.                                                            *)

\* No rule matches.
LEMMA NoHit ==
    ASSUME NEW rules \in Seq(Meanings), NEW t,
           \A i \in DOMAIN rules : t \notin rules[i].match
    PROVE  FirstMatch(rules, t) = "FORWARD"
  BY DEF FirstMatch

\* The i-th rule is the first that matches.
LEMMA FirstHit ==
    ASSUME NEW rules \in Seq(Meanings), NEW t, NEW i \in DOMAIN rules, t \in rules[i].match,
           \A j \in DOMAIN rules : j < i => t \notin rules[j].match
    PROVE  FirstMatch(rules, t) = rules[i].action
<1> DEFINE hits == {j \in DOMAIN rules : t \in rules[j].match}
           first == CHOOSE k \in hits : \A j \in hits : k <= j
<1>1. DOMAIN rules = 1 .. Len(rules) /\ Len(rules) \in Nat
  BY LenProperties
<1>2. i \in hits /\ \A j \in hits : i <= j
  BY <1>1
<1>3. first \in hits /\ \A j \in hits : first <= j
  BY <1>2
<1>4. first = i
  <2>1. first <= i /\ i <= first
    BY <1>2, <1>3
  <2>2. first \in Nat /\ i \in Nat
    BY <1>1, <1>3
  <2> HIDE DEF first
  <2> QED
    BY <2>1, <2>2
<1> QED
  BY <1>2, <1>4 DEF FirstMatch

\* One call is replaced by another.
LEMMA CallReplaced ==
    ASSUME TypeOK, CallInv, NEW m \in Matchers, NEW c \in Calls \cup {NoCall},
           matcher' = [matcher EXCEPT ![m] = c], MatchFrame, ScanOK(c), DoneOK(c)
    PROVE  TypeOK' /\ CallInv'
<1>1. UNCHANGED <<file, edition, read_errors, tables, active, lpc, target, unread, seen,
                  accepted, g_reload_requested, asked, requests>>
  BY DEF MatchFrame, fileVars, tableVars, loaderVars, requestVars
<1>2. TypeOK'
  BY <1>1 DEF TypeOK
<1>3. /\ \A k \in Matchers : k # m => matcher'[k] = matcher[k]
      /\ matcher'[m] = c
  BY DEF TypeOK
<1>4. ASSUME NEW k \in Matchers
      PROVE  (ScanOK(matcher[k]) /\ DoneOK(matcher[k]))'
  <2>1. CASE k = m
    <3>1. ScanOK(c)'
      BY <1>1 DEF ScanOK, Meant
    <3>2. DoneOK(c)'
      BY DEF DoneOK
    <3>3. matcher'[k] = c
      BY <1>3, <2>1
    <3> QED
      BY <3>1, <3>2, <3>3 DEF ScanOK, DoneOK
  <2>2. CASE k # m
    <3>1. ScanOK(matcher[k]) /\ DoneOK(matcher[k])
      BY DEF CallInv
    <3> QED
      BY <1>1, <1>3, <2>2, <3>1 DEF ScanOK, DoneOK, Meant
  <2> QED
    BY <2>1, <2>2
<1> QED
  BY <1>2, <1>4 DEF CallInv

\* A match begins.
LEMMA BeginKeeps ==
    ASSUME SpiInv, NEW m \in Matchers, MatchBegin(m)
    PROVE  TypeOK' /\ CallInv'
<1>1. TypeOK /\ LoaderInv /\ CallInv
  BY DEF SpiInv
<1>2. active \in {0, 1}
  BY <1>1 DEF MatchBegin, LoaderInv
<1>3. /\ Meant(active) \in Seq(Meanings)
      /\ tables[active].count \in Nat /\ tables[active].count <= SPI_MAX_RULES
  BY <1>1, <1>2, MeantType
<1>4. PICK t \in Tuples :
         matcher' = [matcher EXCEPT ![m] =
                       [pc |-> "scan", tuple |-> t, table |-> active, i |-> 1,
                        count |-> tables[active].count, verdict |-> "UNKNOWN",
                        want |-> Meant(active),
                        loads |-> IF lpc = "lines" THEN 1 ELSE 0]]
  BY DEF MatchBegin
<1>5. PICK c \in Calls : /\ matcher' = [matcher EXCEPT ![m] = c]
                         /\ c.pc = "scan" /\ c.table = active /\ c.i = 1
                         /\ c.count = tables[active].count /\ c.want = Meant(active)
                         /\ c.loads = IF lpc = "lines" THEN 1 ELSE 0
  <2> DEFINE c == [pc |-> "scan", tuple |-> t, table |-> active, i |-> 1,
                   count |-> tables[active].count, verdict |-> "UNKNOWN",
                   want |-> Meant(active), loads |-> IF lpc = "lines" THEN 1 ELSE 0]
  <2>1. c \in Calls
    BY <1>2, <1>3 DEF Calls, Actions
  <2> QED
    BY <1>4, <2>1
<1>6. ScanOK(c) /\ DoneOK(c)
  <2>1. \A j \in 1 .. c.count : ~(j < 1)
    OBVIOUS
  <2>2. lpc = "lines" => active # target
    BY <1>1 DEF LoaderInv
  <2> QED
    BY <1>3, <1>5, <2>1, <2>2 DEF ScanOK, DoneOK
<1> QED
  BY <1>1, <1>5, <1>6, CallReplaced DEF MatchBegin

\* One iteration of a match.
LEMMA IterationKeeps ==
    ASSUME SpiInv, NEW m \in Matchers, MatchRule(m)
    PROVE  TypeOK' /\ CallInv'
<1>1. TypeOK /\ LoaderInv /\ CallInv
  BY DEF SpiInv
<1>2. PICK c \in Calls : c = matcher[m] /\ c.pc = "scan"
  BY <1>1, CallTypes DEF MatchRule
<1>3. ScanOK(c)
  BY <1>1, <1>2 DEF CallInv
<1>4. /\ c.table \in {0, 1} /\ c.i \in Nat /\ c.count \in Nat /\ c.loads \in Nat
      /\ c.tuple \in Tuples
  BY DEF Calls
<1>5. c.i >= 1 /\ c.count <= SPI_MAX_RULES
  BY <1>2, <1>3 DEF ScanOK
<1>6. /\ tables[c.table] \in Tables /\ DOMAIN Meant(c.table) = 1 .. tables[c.table].count
      /\ Meant(c.table) \in Seq(Meanings)
      /\ tables[c.table].count \in Nat /\ tables[c.table].count <= SPI_MAX_RULES
  BY <1>1, <1>4, MeantType
<1> DEFINE rule == tables[c.table].rules[c.i]
<1>7. PICK count \in Nat :
         /\ count \in {c.count, tables[c.table].count}
         /\ matcher' = [matcher EXCEPT ![m] =
                IF c.i > count
                THEN [c EXCEPT !.pc = "done", !.verdict = "FORWARD"]
                ELSE IF rule_matches(rule, c.tuple)
                THEN [c EXCEPT !.pc = "done", !.verdict = rule.action]
                ELSE [c EXCEPT !.i = @ + 1]]
  <2>1. PICK count \in {c.count, tables[c.table].count} :
           matcher' = [matcher EXCEPT ![m] =
                IF c.i > count
                THEN [c EXCEPT !.pc = "done", !.verdict = "FORWARD"]
                ELSE IF rule_matches(rule, c.tuple)
                THEN [c EXCEPT !.pc = "done", !.verdict = rule.action]
                ELSE [c EXCEPT !.i = @ + 1]]
    BY <1>2 DEF MatchRule
  <2>2. count \in Nat
    BY <1>4, <1>6
  <2> QED
    BY <2>1, <2>2
<1>8. count <= SPI_MAX_RULES
  BY <1>5, <1>6, <1>7
<1>9. c.loads <= 1 =>
         /\ c.want = Meant(c.table) /\ count = c.count /\ c.count = tables[c.table].count
         /\ \A j \in 1 .. c.count : j < c.i => c.tuple \notin c.want[j].match
  BY <1>2, <1>3, <1>7 DEF ScanOK
<1>10. MatchFrame
  BY DEF MatchRule
<1>11. CASE c.i > count
  <2> DEFINE d == [c EXCEPT !.pc = "done", !.verdict = "FORWARD"]
  <2>1. d \in Calls /\ d.pc = "done"
    BY DEF Calls, Actions
  <2>2. ScanOK(d)
    BY <2>1 DEF ScanOK
  <2>3. DoneOK(d)
    <3> SUFFICES ASSUME c.loads <= 1
                 PROVE  d.verdict = FirstMatch(d.want, d.tuple)
      BY DEF DoneOK, Calls
    <3>1. \A j \in DOMAIN c.want : c.tuple \notin c.want[j].match
      BY <1>4, <1>6, <1>9, <1>11
    <3>2. FirstMatch(c.want, c.tuple) = "FORWARD"
      BY <1>6, <1>9, <3>1, NoHit
    <3> QED
      BY <3>2 DEF Calls
  <2>4. matcher' = [matcher EXCEPT ![m] = d]
    BY <1>7, <1>11
  <2> QED
    BY <1>1, <1>10, <2>1, <2>2, <2>3, <2>4, CallReplaced
<1>12. CASE c.i <= count /\ rule_matches(rule, c.tuple)
  <2> DEFINE d == [c EXCEPT !.pc = "done", !.verdict = rule.action]
  <2>1. rule.action \in Actions
    <3>1. c.i \in 1 .. SPI_MAX_RULES
      BY <1>4, <1>5, <1>8, <1>12, SpiEngineAssumption DEF SpiEngineAssumption
    <3> QED
      BY <1>6, <1>7, <3>1 DEF Tables, Rules
  <2>2. d \in Calls /\ d.pc = "done"
    BY <2>1 DEF Calls
  <2>3. ScanOK(d)
    BY <2>2 DEF ScanOK
  <2>4. DoneOK(d)
    <3> SUFFICES ASSUME c.loads <= 1
                 PROVE  d.verdict = FirstMatch(d.want, d.tuple)
      BY DEF DoneOK, Calls
    <3>1. c.i \in 1 .. tables[c.table].count
      BY <1>4, <1>5, <1>6, <1>9, <1>12
    <3>3. c.tuple \in c.want[c.i].match /\ c.want[c.i].action = rule.action
      BY <1>1, <1>4, <1>9, <1>12, <3>1, MeantAt
    <3>4. c.i \in DOMAIN c.want
          /\ \A j \in DOMAIN c.want : j < c.i => c.tuple \notin c.want[j].match
      BY <1>6, <1>9, <3>1
    <3>5. FirstMatch(c.want, c.tuple) = rule.action
      BY <1>6, <1>9, <3>3, <3>4, FirstHit
    <3> QED
      BY <3>5 DEF Calls
  <2>5. matcher' = [matcher EXCEPT ![m] = d]
    <3>1. ~(c.i > count)
      BY <1>4, <1>12
    <3> QED
      BY <1>7, <1>12, <3>1
  <2> QED
    BY <1>1, <1>10, <2>2, <2>3, <2>4, <2>5, CallReplaced
<1>13. CASE c.i <= count /\ ~rule_matches(rule, c.tuple)
  <2> DEFINE d == [c EXCEPT !.i = @ + 1]
  <2>1. /\ d \in Calls /\ d.pc = "scan" /\ d.i = c.i + 1 /\ d.count = c.count
        /\ d.loads = c.loads /\ d.table = c.table /\ d.want = c.want /\ d.tuple = c.tuple
    BY <1>2, <1>4 DEF Calls
  <2>2. DoneOK(d)
    BY <2>1 DEF DoneOK
  <2>3. c.loads <= 1 => c.tuple \notin c.want[c.i].match
    <3> SUFFICES ASSUME c.loads <= 1
                 PROVE  c.tuple \notin c.want[c.i].match
      OBVIOUS
    <3>1. c.i \in 1 .. tables[c.table].count
      BY <1>4, <1>5, <1>6, <1>9, <1>13
    <3> QED
      BY <1>1, <1>4, <1>9, <1>13, <3>1, MeantAt
  <2>4. \A j \in 1 .. c.count : j < c.i + 1 => (j < c.i \/ j = c.i)
    BY <1>4
  <2>5. c.loads <= 1 =>
           \A j \in 1 .. c.count : j < c.i + 1 => c.tuple \notin c.want[j].match
    BY <1>9, <2>3, <2>4
  <2>6. c.i + 1 >= 1
    BY <1>4
  <2> HIDE DEF d
  <2>7. ScanOK(d)
    BY <1>2, <1>3, <2>1, <2>5, <2>6 DEF ScanOK
  <2>8. matcher' = [matcher EXCEPT ![m] = d]
    <3>1. ~(c.i > count)
      BY <1>4, <1>13
    <3> QED
      BY <1>7, <1>13, <3>1 DEF d
  <2> QED
    BY <1>1, <1>10, <2>1, <2>2, <2>7, <2>8, CallReplaced
<1> QED
  BY <1>4, <1>7, <1>11, <1>12, <1>13

\* A match ends.
LEMMA EndKeeps ==
    ASSUME SpiInv, NEW m \in Matchers, MatchEnd(m)
    PROVE  TypeOK' /\ CallInv'
<1>1. TypeOK /\ CallInv
  BY DEF SpiInv
<1>2. ScanOK(NoCall) /\ DoneOK(NoCall)
  BY DEF ScanOK, DoneOK, NoCall
<1> QED
  BY <1>1, <1>2, CallReplaced DEF MatchEnd

-----------------------------------------------------------------------------
(* The loader.                                                             *)

\* The calls go on if their tables are left alone.
LEMMA CallsGoOn ==
    ASSUME TypeOK, CallInv, UNCHANGED matcher, \A c \in Calls : ScanOK(c) => ScanOK(c)'
    PROVE  CallInv'
<1> SUFFICES ASSUME NEW m \in Matchers
             PROVE  (ScanOK(matcher[m]) /\ DoneOK(matcher[m]))'
  BY DEF CallInv
<1>1. ScanOK(matcher[m]) /\ DoneOK(matcher[m])
  BY DEF CallInv
<1>2. DoneOK(matcher[m])'
  BY <1>1 DEF DoneOK
<1>3. CASE matcher[m] \in Calls
  <2>1. PICK c \in Calls : c = matcher[m]
    BY <1>3
  <2>2. ScanOK(c)'
    BY <1>1, <2>1
  <2>3. matcher'[m] = c
    BY <2>1
  <2> QED
    BY <1>2, <2>2, <2>3 DEF ScanOK, Meant
<1>4. CASE matcher[m] = NoCall
  BY <1>2, <1>4 DEF ScanOK, NoCall
<1> QED
  BY <1>3, <1>4, CallTypes

\* Nobody matches.
LEMMA NoCalls ==
    ASSUME \A m \in Matchers : matcher'[m] = NoCall
    PROVE  CallInv'
<1> SUFFICES ASSUME NEW m \in Matchers
             PROVE  (ScanOK(matcher[m]) /\ DoneOK(matcher[m]))'
  BY DEF CallInv
<1> QED
  BY DEF ScanOK, DoneOK, NoCall

\* Steps that touch no table.
LEMMA QuietKeeps ==
    ASSUME SpiInv, UNCHANGED <<tables, active, target, matcher>>,
           lpc' = "lines" => lpc = "lines", Running' <=> Running
    PROVE  LoaderInv' /\ CallInv'
<1>1. TypeOK /\ LoaderInv /\ CallInv
  BY DEF SpiInv
<1>2. LoaderInv'
  BY <1>1 DEF LoaderInv
<1>3. \A c \in Calls : ScanOK(c) => ScanOK(c)'
  BY DEF ScanOK, Meant
<1> QED
  BY <1>1, <1>2, <1>3, CallsGoOn

\* The steps of the operator and of a reload that publishes nothing.
LEMMA QuietSteps ==
    ASSUME SpiInv,
           Edit \/ RequestReload \/ ReloadTakeRequest \/ ReloadNoFile \/ ReloadBadLine
    PROVE  LoaderInv' /\ CallInv'
<1>1. UNCHANGED <<tables, active, target, matcher>>
  BY DEF Edit, RequestReload, ReloadTakeRequest, ReloadNoFile, ReloadBadLine, tableVars,
         loaderVars
<1>2. (lpc' = "lines" => lpc = "lines") /\ (Running' <=> Running)
  BY DEF Edit, RequestReload, ReloadTakeRequest, ReloadNoFile, ReloadBadLine, loaderVars,
         Running
<1> QED
  BY <1>1, <1>2, QuietKeeps

\* spi_rule_engine_init.
LEMMA InitSteps ==
    ASSUME SpiInv, InitOpen \/ InitFails \/ InitPublish
    PROVE  LoaderInv' /\ CallInv'
<1>1. TypeOK /\ LoaderInv
  BY DEF SpiInv
<1>2. \A m \in Matchers : matcher[m] = NoCall
  BY <1>1 DEF LoaderInv, Running, InitOpen, InitFails, InitPublish
<1>3. \A m \in Matchers : matcher'[m] = NoCall
  BY <1>2 DEF InitOpen, OpenFile, CountLoad, NoCall, InitFails, InitPublish
<1>4. lpc' \in {"init_lines", "exited"} \/ (lpc' = "idle" /\ active' = 0)
  BY DEF InitOpen, InitFails, InitPublish
<1> QED
  BY <1>3, <1>4, NoCalls DEF LoaderInv, Running

\* Reading writes the table that is being loaded only.
LEMMA OneTableWritten ==
    ASSUME TypeOK, ReadLine \/ ReadError
    PROVE  \A b \in {0, 1} : b # target => tables'[b] = tables[b]
<1>1. CASE ReadLine
  BY <1>1 DEF ReadLine, SkipLine, AddRule, TypeOK
<1>2. CASE ReadError
  BY <1>2 DEF ReadError, TypeOK
<1> QED
  BY <1>1, <1>2

\* A line is read into the inactive table, or the read fails.
LEMMA ReadKeeps ==
    ASSUME SpiInv, ReadLine \/ ReadError
    PROVE  LoaderInv' /\ CallInv'
<1>1. TypeOK /\ LoaderInv /\ CallInv
  BY DEF SpiInv
<1>2. UNCHANGED <<lpc, target, active, matcher>> /\ lpc \in {"init_lines", "lines"}
  BY DEF ReadLine, ReadError
<1>3. \A b \in {0, 1} : b # target => tables'[b] = tables[b]
  BY <1>1, OneTableWritten
<1>4. LoaderInv'
  BY <1>1, <1>2 DEF LoaderInv, Running
<1>5. CASE lpc = "init_lines"
  BY <1>1, <1>2, <1>4, <1>5, NoCalls DEF LoaderInv, Running
<1>6. CASE lpc = "lines"
  <2>1. ASSUME NEW c \in Calls, ScanOK(c)
        PROVE  ScanOK(c)'
    <3> SUFFICES ASSUME c.pc = "scan"
                 PROVE  ScanOK(c)'
      BY DEF ScanOK
    <3>1. c.loads # 0 /\ (c.loads = 1 => c.table # target)
      BY <1>6, <2>1 DEF ScanOK
    <3>2. c.loads <= 1 => c.table # target
      BY <3>1 DEF Calls
    <3>3. c.loads <= 1 => tables'[c.table] = tables[c.table]
      BY <1>3, <3>2 DEF Calls
    <3> QED
      BY <1>2, <2>1, <3>1, <3>3 DEF ScanOK, Meant
  <2> QED
    BY <1>1, <1>2, <1>4, <2>1, CallsGoOn
<1> QED
  BY <1>2, <1>5, <1>6

\* The new table becomes the active one.
LEMMA PublishKeeps ==
    ASSUME SpiInv, ReloadPublish
    PROVE  LoaderInv' /\ CallInv'
<1>1. TypeOK /\ LoaderInv /\ CallInv
  BY DEF SpiInv
<1>2. lpc = "lines" /\ lpc' = "idle" /\ active' = target /\ UNCHANGED <<target, matcher>>
  BY DEF ReloadPublish
<1>3. \A b \in {0, 1} : b # target => tables'[b] = tables[b]
  BY <1>1 DEF ReloadPublish, TypeOK
<1>4. LoaderInv'
  BY <1>1, <1>2 DEF LoaderInv, Running, TypeOK
<1>5. ASSUME NEW c \in Calls, ScanOK(c)
      PROVE  ScanOK(c)'
  <2> SUFFICES ASSUME c.pc = "scan"
               PROVE  ScanOK(c)'
    BY DEF ScanOK
  <2>1. c.loads # 0 /\ (c.loads = 1 => c.table # target)
    BY <1>2, <1>5 DEF ScanOK
  <2>2. c.loads <= 1 => tables'[c.table] = tables[c.table]
    BY <1>3, <2>1 DEF Calls
  <2> QED
    BY <1>2, <1>5, <2>1, <2>2 DEF ScanOK, Meant
<1> QED
  BY <1>1, <1>2, <1>4, <1>5, CallsGoOn

\* A load begins: the second one for a match that loads = 1 and the first for one that
\* reads the active table.
LEMMA OpenKeeps ==
    ASSUME SpiInv, ReloadOpen
    PROVE  LoaderInv' /\ CallInv'
<1>1. TypeOK /\ LoaderInv /\ CallInv
  BY DEF SpiInv
<1>2. /\ lpc = "open" /\ lpc' = "lines" /\ active' = active /\ target' = Inactive
      /\ tables' = [tables EXCEPT ![Inactive] = ZeroTable] /\ CountLoad
  BY DEF ReloadOpen, OpenFile
<1>3. active \in {0, 1} /\ Inactive \in {0, 1} /\ Inactive # active
  BY <1>1, <1>2 DEF LoaderInv, Running, Inactive
<1>4. LoaderInv'
  BY <1>2, <1>3 DEF LoaderInv, Running
<1>5. tables'[active] = tables[active]
  BY <1>1, <1>2, <1>3 DEF TypeOK
<1>6. ASSUME NEW m \in Matchers
      PROVE  (ScanOK(matcher[m]) /\ DoneOK(matcher[m]))'
  <2>1. ScanOK(matcher[m]) /\ DoneOK(matcher[m])
    BY <1>1 DEF CallInv
  <2>2. CASE matcher[m].pc # "scan"
    <3>1. matcher'[m] = matcher[m]
      BY <1>2, <2>2 DEF CountLoad
    <3> QED
      BY <2>1, <2>2, <3>1 DEF ScanOK, DoneOK
  <2>3. CASE matcher[m].pc = "scan"
    <3>1. matcher[m] \in Calls
      BY <1>1, <2>3, CallTypes
    <3>2. PICK c \in Calls : c = matcher[m]
      BY <3>1
    <3>3. PICK d \in Calls : /\ d = [c EXCEPT !.loads = @ + 1] /\ d.pc = "scan"
                             /\ d.loads = c.loads + 1 /\ d.table = c.table /\ d.i = c.i
                             /\ d.count = c.count /\ d.want = c.want /\ d.tuple = c.tuple
      <4> DEFINE d == [c EXCEPT !.loads = @ + 1]
      <4>1. /\ d \in Calls /\ d.pc = "scan" /\ d.loads = c.loads + 1 /\ d.table = c.table
            /\ d.i = c.i /\ d.count = c.count /\ d.want = c.want /\ d.tuple = c.tuple
        BY <2>3, <3>2 DEF Calls
      <4> QED
        BY <4>1
    <3>4. matcher'[m] = d
      BY <1>2, <2>3, <3>2, <3>3 DEF CountLoad
    <3>5. ScanOK(c) /\ c.pc = "scan" /\ c.loads \in Nat
      BY <2>1, <2>3, <3>2 DEF Calls
    <3>6. d.loads <= 1 => c.loads = 0 /\ c.table = active
      BY <3>3, <3>5 DEF ScanOK
    <3>7. d.loads # 0 /\ (d.loads = 1 => d.table # Inactive)
      BY <1>3, <3>3, <3>5, <3>6
    <3>8. ASSUME d.loads <= 1
          PROVE  /\ d.want = Meant(d.table)' /\ d.count = tables'[d.table].count
                 /\ \A j \in 1 .. d.count : j < d.i => d.tuple \notin d.want[j].match
      <4>1. c.table = active /\ c.loads <= 1
        BY <3>6, <3>8
      <4>2. Meant(active)' = Meant(active)
        BY <1>2, <1>5 DEF Meant
      <4>3. c.want = Meant(active) /\ c.count = tables[active].count
        BY <3>5, <4>1 DEF ScanOK
      <4>4. d.want = Meant(active)' /\ d.count = tables'[active].count
        BY <1>2, <1>5, <3>3, <4>2, <4>3
      <4>5. \A j \in 1 .. d.count : j < d.i => d.tuple \notin d.want[j].match
        BY <3>3, <3>5, <4>1 DEF ScanOK
      <4>6. d.table = active
        BY <3>3, <4>1
      <4> QED
        BY <1>2, <4>4, <4>5, <4>6 DEF Meant
    <3>9. d.i >= 1 /\ d.count <= SPI_MAX_RULES
      BY <3>3, <3>5 DEF ScanOK
    <3> QED
      BY <1>2, <3>3, <3>4, <3>7, <3>8, <3>9 DEF ScanOK, DoneOK, Meant
  <2> QED
    BY <2>2, <2>3
<1> QED
  BY <1>4, <1>6 DEF CallInv

\* The workers match only while the threads run.
LEMMA MatchSteps ==
    ASSUME SpiInv, NEW m \in Matchers, MatchBegin(m) \/ MatchRule(m) \/ MatchEnd(m)
    PROVE  SpiInv'
<1>1. LoaderInv
  BY DEF SpiInv
<1>2. matcher[m] # NoCall => Running
  BY <1>1 DEF LoaderInv
<1>3. Running
  <2>1. CASE MatchBegin(m)
    BY <2>1 DEF MatchBegin
  <2>2. CASE MatchRule(m) \/ MatchEnd(m)
    <3>1. matcher[m].pc # "idle"
      <4>1. CASE MatchRule(m)
        BY <4>1 DEF MatchRule
      <4>2. CASE MatchEnd(m)
        BY <4>2 DEF MatchEnd
      <4> QED
        BY <2>2, <4>1, <4>2
    <3>2. NoCall.pc = "idle"
      BY DEF NoCall
    <3> QED
      BY <1>2, <3>1, <3>2
  <2> QED
    BY <2>1, <2>2
<1>4. UNCHANGED <<lpc, target, active>>
  BY DEF MatchBegin, MatchRule, MatchEnd, MatchFrame, loaderVars, tableVars
<1>5. LoaderInv'
  BY <1>1, <1>3, <1>4 DEF LoaderInv, Running
<1> QED
  BY <1>5, BeginKeeps, IterationKeeps, EndKeeps DEF SpiInv

\* The invariant holds at the start.
LEMMA InitSpi == Init => SpiInv
<1> SUFFICES ASSUME Init
             PROVE  SpiInv
  OBVIOUS
<1>1. TypeOK
  BY InitTypes
<1>2. \A m \in Matchers : matcher[m] = NoCall
  BY DEF Init
<1>3. LoaderInv
  BY <1>2 DEF Init, LoaderInv, Running
<1>4. CallInv
  BY <1>2 DEF CallInv, ScanOK, DoneOK, NoCall
<1> QED
  BY <1>1, <1>3, <1>4 DEF SpiInv

\* Every step keeps it.
LEMMA StepKeeps == SpiInv /\ [Next]_vars => SpiInv'
<1> SUFFICES ASSUME SpiInv, [Next]_vars
             PROVE  SpiInv'
  OBVIOUS
<1>0. TypeOK /\ LoaderInv /\ CallInv
  BY DEF SpiInv
<1>1. CASE Edit \/ RequestReload
  BY <1>0, <1>1, OperatorTypes, QuietSteps DEF SpiInv
<1>2. CASE ReadLine \/ ReadError
  BY <1>0, <1>2, ReadTypes, ReadErrorTypes, ReadKeeps DEF SpiInv
<1>3. CASE InitOpen
  <2>1. TypeOK'
    BY <1>0, <1>3, OpenTypes DEF InitOpen
  <2> QED
    BY <1>3, <2>1, InitSteps DEF SpiInv
<1>4. CASE InitFails \/ InitPublish
  BY <1>0, <1>4, LoaderTypes, InitSteps DEF SpiInv
<1>5. CASE ReloadTakeRequest \/ ReloadNoFile \/ ReloadBadLine
  BY <1>0, <1>5, LoaderTypes, QuietSteps DEF SpiInv
<1>6. CASE ReloadOpen
  <2>1. Inactive \in {0, 1}
    BY DEF Inactive
  <2>2. TypeOK'
    BY <1>0, <1>6, <2>1, OpenTypes DEF ReloadOpen
  <2> QED
    BY <1>6, <2>2, OpenKeeps DEF SpiInv
<1>7. CASE ReloadPublish
  BY <1>0, <1>7, LoaderTypes, PublishKeeps DEF SpiInv
<1>8. ASSUME NEW m \in Matchers, MatchBegin(m) \/ MatchRule(m) \/ MatchEnd(m)
      PROVE  SpiInv'
  BY <1>8, MatchSteps
<1>9. CASE UNCHANGED vars
  <2>1. UNCHANGED <<file, edition, read_errors, tables, active, lpc, target, unread, seen,
                    accepted, g_reload_requested, asked, requests, matcher>>
    BY <1>9 DEF vars, fileVars, tableVars, loaderVars, requestVars
  <2>2. TypeOK'
    BY <1>0, <2>1 DEF TypeOK
  <2>3. LoaderInv' /\ CallInv'
    BY <2>1, QuietKeeps DEF Running
  <2> QED
    BY <2>2, <2>3 DEF SpiInv
<1> QED
  BY <1>1, <1>2, <1>3, <1>4, <1>5, <1>6, <1>7, <1>8, <1>9 DEF Next

-----------------------------------------------------------------------------

\* It holds throughout.
LEMMA Lasts == Spec => []SpiInv
  BY InitSpi, StepKeeps, PTL DEF Spec

\* The tables, the loader (spi_engine.c:121-282) and the running matches keep their
\* types for any rule file: no table has more than SPI_MAX_RULES rules, and what is
\* stored for a line is a rule.
THEOREM SpiTypes == Spec => []TypeOK
<1>1. SpiInv => TypeOK
  BY DEF SpiInv
<1> QED
  BY Lasts, <1>1, PTL

\* A match that overlaps with at most one load of the rules gives the verdict of the
\* table that was active when it began, although load_rule_file writes the other
\* table without a lock (spi_engine.c:199-220, 257-282).
THEOREM VerdictOfOneTable == Spec => []SnapshotVerdict
<1>1. SpiInv => SnapshotVerdict
  BY DEF SpiInv, CallInv, DoneOK, SnapshotVerdict
<1> QED
  BY Lasts, <1>1, PTL

-----------------------------------------------------------------------------
(* The rules of a file.                                                    *)

\* g gives the rules of the first lines of f, up to the n-th.
IsUpTo(f, n, g) ==
    g = [k \in 0 .. n |->
           IF k = 0 THEN <<>>
           ELSE IF f[k].comment THEN g[k - 1]
                ELSE Append(g[k - 1], Described(f[k]))]

\* There is such a function: the shortest beginning without one would get it from the
\* beginning that is a line shorter.
LEMMA UpToExists ==
    ASSUME NEW f, NEW N \in Nat
    PROVE  \E g : IsUpTo(f, N, g)
<1> DEFINE Bad == {n \in 0 .. N : ~\E g : IsUpTo(f, n, g)}
<1> SUFFICES ASSUME Bad # {}
             PROVE  FALSE
  OBVIOUS
<1>1. PICK n \in Bad : \A m \in Bad : n <= m
  <2>1. Bad \in SUBSET (0 .. N)
    OBVIOUS
  <2> HIDE DEF Bad
  <2> QED
    BY <2>1, SmallestNumber
<1>2. n \in Nat /\ n <= N
  BY <1>1
<1>3. CASE n = 0
  <2>1. IsUpTo(f, 0, [k \in 0 .. 0 |-> <<>>])
    BY DEF IsUpTo
  <2> QED
    BY <1>1, <1>3, <2>1
<1>4. CASE n # 0
  <2>1. n - 1 \in 0 .. N /\ n - 1 \notin Bad
    BY <1>1, <1>2, <1>4
  <2>2. PICK h : IsUpTo(f, n - 1, h)
    BY <2>1
  <2> DEFINE last == IF f[n].comment THEN h[n - 1] ELSE Append(h[n - 1], Described(f[n]))
             g == [k \in 0 .. n |-> IF k = n THEN last ELSE h[k]]
  <2>3. ASSUME NEW k \in 0 .. n
        PROVE  g[k] = IF k = 0 THEN <<>>
                      ELSE IF f[k].comment THEN g[k - 1]
                           ELSE Append(g[k - 1], Described(f[k]))
    <3>1. CASE k = 0
      <4>1. h[0] = <<>> /\ g[0] = h[0]
        BY <1>2, <1>4, <2>2 DEF IsUpTo
      <4> QED
        BY <3>1, <4>1
    <3>2. CASE k # 0
      <4>1. k - 1 \in 0 .. n /\ k - 1 # n /\ g[k - 1] = h[k - 1]
        BY <1>2, <2>3, <3>2
      <4>2. CASE k = n
        <5>1. g[k] = last
          BY <4>2
        <5> HIDE DEF g
        <5> QED
          BY <3>2, <4>1, <4>2, <5>1
      <4>3. CASE k # n
        <5>1. g[k] = h[k] /\ k \in 0 .. n - 1
          BY <1>2, <2>3, <4>3
        <5>2. h[k] = IF f[k].comment THEN h[k - 1] ELSE Append(h[k - 1], Described(f[k]))
          BY <2>2, <3>2, <5>1 DEF IsUpTo
        <5> HIDE DEF g
        <5> QED
          BY <3>2, <4>1, <5>1, <5>2
      <4> QED
        BY <4>2, <4>3
    <3> QED
      BY <3>1, <3>2
  <2>4. IsUpTo(f, n, g)
    <3>1. g = [k \in 0 .. n |-> g[k]]
      OBVIOUS
    <3> HIDE DEF g
    <3> QED
      BY <2>3, <3>1 DEF IsUpTo
  <2> QED
    BY <1>1, <2>4
<1> QED
  BY <1>3, <1>4

\* So the rules of a file are those of its lines, one after the other.
LEMMA RulesLineByLine ==
    ASSUME NEW f \in Seq(Lines)
    PROVE  /\ RulesUpTo(f)[0] = <<>>
           /\ \A k \in 1 .. Len(f) :
                 RulesUpTo(f)[k] =
                    IF f[k].comment THEN RulesUpTo(f)[k - 1]
                    ELSE Append(RulesUpTo(f)[k - 1], Described(f[k]))
<1>1. Len(f) \in Nat
  OBVIOUS
<1>2. RulesUpTo(f) = CHOOSE g : IsUpTo(f, Len(f), g)
  BY DEF RulesUpTo, IsUpTo
<1>3. IsUpTo(f, Len(f), RulesUpTo(f))
  BY <1>1, <1>2, UpToExists
<1>4. PICK g : g = RulesUpTo(f)
  OBVIOUS
<1>5. \A k \in 0 .. Len(f) :
         g[k] = IF k = 0 THEN <<>>
                ELSE IF f[k].comment THEN g[k - 1]
                     ELSE Append(g[k - 1], Described(f[k]))
  BY <1>3, <1>4 DEF IsUpTo
<1> QED
  BY <1>1, <1>4, <1>5

\* What a parser makes of a token, as far as a match looks at it.
LEMMA IpMeaning ==
    ASSUME NEW token, NEW value, parse_ip(token) # Failed
    PROVE  (parse_ip(token).match => parse_ip(token).value = value)
              <=> token \in {Star, value}
  BY DEF parse_ip, Wild, Exactly

\* The same for a port: the wildcard, or that port.
LEMMA PortMeaning ==
    ASSUME NEW token, NEW value, parse_port(token) # Failed
    PROVE  (parse_port(token).match => parse_port(token).value = value)
              <=> token \in {Star, value}
  BY DEF parse_port, Wild, Exactly

\* The same for a protocol, which a rule names and a packet numbers.
LEMMA ProtocolMeaning ==
    ASSUME NEW token, NEW value, parse_protocol(token) # Failed
    PROVE  (parse_protocol(token).match => parse_protocol(token).value = value)
              <=> \/ token = Star
                  \/ token = "TCP" /\ value = 6
                  \/ token = "UDP" /\ value = 17
<1>1. CASE token = Star
  BY <1>1 DEF parse_protocol, Wild
<1>2. CASE token # Star /\ token = "TCP"
  BY <1>2 DEF parse_protocol, Exactly
<1>3. CASE token # Star /\ token = "UDP"
  BY <1>3 DEF parse_protocol, Exactly
<1> QED
  BY <1>1, <1>2, <1>3 DEF parse_protocol

\* What the parsers take for a rule has the format of one.
LEMMA AcceptedIsMeaningful ==
    ASSUME NEW line \in Lines, FormatOK(line.fields), ValuesOK(line)
    PROVE  Meaningful(line)
<1> DEFINE r == Parsed(line)
<1>1. line.fields \in {7, 8}
  <2>1. PICK n \in Nat : n = line.fields
    BY DEF Lines
  <2> QED
    BY <2>1 DEF FormatOK, Stored, Taken
<1>2. \A f \in DOMAIN r : r[f] # Failed
  BY DEF ValuesOK
<1>3. /\ parse_protocol(line.protocol) # Failed /\ parse_ip(line.src_ip) # Failed
      /\ parse_ip(line.dst_ip) # Failed /\ parse_port(line.src_port) # Failed
      /\ parse_port(line.dst_port) # Failed /\ parse_action(line.action) # Failed
  BY <1>2 DEF Parsed
<1>4. line.protocol \in {Star, "TCP", "UDP"}
  BY <1>3 DEF parse_protocol
<1>5. line.src_ip \in {Star} \cup Addresses /\ line.dst_ip \in {Star} \cup Addresses
  BY <1>3 DEF parse_ip
<1>6. /\ line.src_port \in {Star} \cup 0 .. UINT16_MAX
      /\ line.dst_port \in {Star} \cup 0 .. UINT16_MAX
  BY <1>3 DEF parse_port
<1>7. line.action \in {"FORWARD", "LOG", "COUNT", "DROP"}
  BY <1>3 DEF parse_action
<1> QED
  BY <1>1, <1>4, <1>5, <1>6, <1>7 DEF Meaningful

\* A line whose values are all right becomes the rule it describes: it matches the
\* same tuples and has the same action.
LEMMA LineMeaning ==
    ASSUME NEW line, ValuesOK(line)
    PROVE  /\ \A t \in Tuples : rule_matches(Parsed(line), t) <=> t \in Described(line).match
           /\ Parsed(line).action = Described(line).action
<1> DEFINE r == Parsed(line)
<1>1. /\ r.protocol = parse_protocol(line.protocol)
      /\ r.src_ip = parse_ip(line.src_ip) /\ r.dst_ip = parse_ip(line.dst_ip)
      /\ r.src_port = parse_port(line.src_port)
      /\ r.dst_port = parse_port(line.dst_port)
      /\ r.action = parse_action(line.action)
      /\ DOMAIN r = {"protocol", "src_ip", "dst_ip", "src_port", "dst_port", "action"}
  BY DEF Parsed
<1>2. \A f \in DOMAIN r : r[f] # Failed
  BY DEF ValuesOK
<1>3. /\ parse_protocol(line.protocol) # Failed /\ parse_ip(line.src_ip) # Failed
      /\ parse_ip(line.dst_ip) # Failed /\ parse_port(line.src_port) # Failed
      /\ parse_port(line.dst_port) # Failed /\ parse_action(line.action) # Failed
  BY <1>1, <1>2
<1> HIDE DEF r
<1>4. ASSUME NEW t \in Tuples
      PROVE  rule_matches(r, t) <=> t \in Described(line).match
  <2>1. t \in Cold
    BY SpiEngineAssumption DEF SpiEngineAssumption
  <2>2. DOMAIN t = {"protocol", "src_ip", "dst_ip", "src_port", "dst_port"}
    BY <2>1 DEF Cold
  <2>3. rule_matches(r, t) <=>
           /\ r.protocol.match => r.protocol.value = t.protocol
           /\ r.src_ip.match => r.src_ip.value = t.src_ip
           /\ r.dst_ip.match => r.dst_ip.value = t.dst_ip
           /\ r.src_port.match => r.src_port.value = t.src_port
           /\ r.dst_port.match => r.dst_port.value = t.dst_port
    BY <2>2 DEF rule_matches
  <2>4. t \in Described(line).match <=>
           /\ \/ line.protocol = Star
              \/ line.protocol = "TCP" /\ t.protocol = 6
              \/ line.protocol = "UDP" /\ t.protocol = 17
           /\ line.src_ip \in {Star, t.src_ip} /\ line.dst_ip \in {Star, t.dst_ip}
           /\ line.src_port \in {Star, t.src_port} /\ line.dst_port \in {Star, t.dst_port}
    BY DEF Described
  <2>5. /\ (r.src_ip.match => r.src_ip.value = t.src_ip)
              <=> line.src_ip \in {Star, t.src_ip}
        /\ (r.dst_ip.match => r.dst_ip.value = t.dst_ip)
              <=> line.dst_ip \in {Star, t.dst_ip}
    BY <1>1, <1>3, IpMeaning
  <2>6. /\ (r.src_port.match => r.src_port.value = t.src_port)
              <=> line.src_port \in {Star, t.src_port}
        /\ (r.dst_port.match => r.dst_port.value = t.dst_port)
              <=> line.dst_port \in {Star, t.dst_port}
    BY <1>1, <1>3, PortMeaning
  <2>7. (r.protocol.match => r.protocol.value = t.protocol) <=>
           \/ line.protocol = Star
           \/ line.protocol = "TCP" /\ t.protocol = 6
           \/ line.protocol = "UDP" /\ t.protocol = 17
    BY <1>1, <1>3, ProtocolMeaning
  <2> QED
    BY <2>3, <2>4, <2>5, <2>6, <2>7
<1>5. r.action = Described(line).action
  <2>1. r.action = IF line.action = "DROP" THEN "DROP" ELSE "FORWARD"
    BY <1>1, <1>3 DEF parse_action
  <2> QED
    BY <2>1 DEF Described
<1> QED
  BY <1>4, <1>5 DEF r

-----------------------------------------------------------------------------
(* The file that is being loaded.                                          *)

\* The lines of f that may become rules, as far as the k-th.
LinesOK(f, k) == \A i \in 1 .. k : f[i].comment \/ Meaningful(f[i])

\* k lines of f have been read, and the target holds their rules.  The others are not
\* read if a read failed.
ReadUpTo(f, k) ==
    /\ k \in 0 .. Len(f)
    /\ unread = IF tables[target].cut THEN <<>> ELSE SubSeq(f, k + 1, Len(f))
    /\ Meant(target) = RulesUpTo(f)[k]
    /\ LinesOK(f, k)

\* A load reads one file, whatever becomes of it meanwhile; the init loads table 0
\* while there is no active table.
FileInv ==
    /\ lpc \in {"init", "init_lines"} => active = NULL
    /\ lpc = "init_lines" => target = 0
    /\ lpc \in {"init_lines", "lines"} => \E f \in Files : \E k \in Nat : ReadUpTo(f, k)

\* The rules of a table depend on that table only.
LEMMA MeantKept ==
    ASSUME NEW b, tables'[b].count = tables[b].count, tables'[b].rules = tables[b].rules
    PROVE  Meant(b)' = Meant(b)
  BY DEF Meant

\* A file that is opened has no line read and a table without rules.
LEMMA OpenedFile ==
    ASSUME TypeOK, NEW b \in {0, 1}, OpenFile(b)
    PROVE  \E f \in Files : \E k \in Nat : ReadUpTo(f, k)'
<1>1. file \in Files /\ file \in Seq(Lines)
  BY SpiEngineAssumption DEF TypeOK, OpenFile, SpiEngineAssumption
<1>2. tables'[b] = ZeroTable /\ target' = b /\ unread' = file
  BY DEF OpenFile, TypeOK
<1>3. tables'[b].count = 0 /\ ~tables'[b].cut
  BY <1>2 DEF ZeroTable
<1>4. Meant(b)' = <<>>
  BY <1>3 DEF Meant
<1>5. Meant(target)' = RulesUpTo(file)[0]
  BY <1>1, <1>2, <1>4, RulesLineByLine DEF Meant
<1>6. file = SubSeq(file, 0 + 1, Len(file)) /\ 0 \in 0 .. Len(file)
  BY <1>1, SubSeqFull
<1>7. LinesOK(file, 0)
  BY DEF LinesOK
<1>8. PICK f \in Files : f = file
  BY <1>1
<1>9. ReadUpTo(f, 0)'
  BY <1>2, <1>3, <1>5, <1>6, <1>7, <1>8 DEF ReadUpTo
<1> QED
  BY <1>9

\* A line is read: a comment leaves the rules as they are, another line adds its own.
LEMMA LineRead ==
    ASSUME TypeOK, ReadLine, NEW f \in Files, NEW k \in Nat, ReadUpTo(f, k)
    PROVE  ReadUpTo(f, k + 1)'
<1>1. f \in Seq(Lines) /\ Len(f) \in Nat
  BY SpiEngineAssumption DEF SpiEngineAssumption
<1>2. /\ unread = SubSeq(f, k + 1, Len(f)) /\ k <= Len(f) /\ ~tables[target].cut
      /\ unread # <<>> /\ unread' = Tail(unread) /\ target' = target
  <2>1. unread # <<>> /\ unread' = Tail(unread) /\ target' = target
    BY DEF ReadLine, SkipLine, AddRule
  <2>2. /\ unread = IF tables[target].cut THEN <<>> ELSE SubSeq(f, k + 1, Len(f))
        /\ k <= Len(f)
    BY <1>1 DEF ReadUpTo
  <2> QED
    BY <2>1, <2>2
<1>3. k + 1 <= Len(f)
  <2>1. CASE k = Len(f)
    BY <1>1, <1>2, <2>1, SubSeqEmpty
  <2> QED
    BY <1>1, <1>2, <2>1
<1>4. k + 1 \in 1 .. Len(f) /\ Len(f) \in k + 1 .. Len(f)
  BY <1>1, <1>3
<1>5. Head(unread) = f[k + 1] /\ unread' = SubSeq(f, (k + 1) + 1, Len(f))
  BY <1>1, <1>2, <1>4, HeadTailOfSubSeq
<1>6. PICK line : line = f[k + 1]
  OBVIOUS
<1>7. (k + 1) - 1 = k /\ k + 1 # 0
  OBVIOUS
<1>8. RulesUpTo(f)[k + 1] =
         IF line.comment THEN RulesUpTo(f)[k]
         ELSE Append(RulesUpTo(f)[k], Described(line))
  BY <1>1, <1>4, <1>6, <1>7, RulesLineByLine
<1>9. Meant(target) = RulesUpTo(f)[k]
  BY DEF ReadUpTo
<1>10. target \in {0, 1}
  BY DEF TypeOK
<1>11. /\ Meant(target)' = RulesUpTo(f)[k + 1]
       /\ line.comment \/ Meaningful(line)
  <2>1. CASE SkipLine
    <3>1. line.comment /\ tables' = tables
      BY <1>5, <1>6, <2>1 DEF SkipLine
    <3>2. Meant(target)' = Meant(target)
      BY <1>2, <3>1 DEF Meant
    <3> QED
      BY <1>8, <1>9, <3>1, <3>2
  <2>2. CASE AddRule
    <3>1. ~line.comment /\ FormatOK(line.fields) /\ ValuesOK(line)
      BY <1>5, <1>6, <2>2 DEF AddRule, LineOK
    <3>2. Meant(target)' = Append(Meant(target), Described(line))
      <4> DEFINE n == tables[target].count + 1
      <4>1. tables' = [tables EXCEPT ![target].rules[n] = Parsed(line),
                                     ![target].count = n]
        BY <1>5, <1>6, <2>2 DEF AddRule
      <4>2. /\ tables[target] \in Tables /\ tables[target].count \in Nat
            /\ Meant(target) \in Seq(Meanings)
            /\ DOMAIN Meant(target) = 1 .. tables[target].count
        BY <1>10, MeantType
      <4>3. n \in 1 .. SPI_MAX_RULES
        <5>1. tables[target].count < SPI_MAX_RULES
          BY <2>2 DEF AddRule, LineOK
        <5> QED
          BY <4>2, <5>1, SpiEngineAssumption DEF SpiEngineAssumption
      <4>4. n \in Nat /\ n - 1 = tables[target].count
        BY <4>2
      <4> HIDE DEF n
      <4>5. PICK old \in Tables : old = tables[target]
        BY <4>2
      <4>6. PICK new : new = tables'[target]
        OBVIOUS
      <4>7. new = [old EXCEPT !.rules[n] = Parsed(line), !.count = n]
        BY <1>10, <4>1, <4>5, <4>6 DEF TypeOK
      <4>8. /\ new.count = n /\ new.rules[n] = Parsed(line)
            /\ \A i \in 1 .. n - 1 : new.rules[i] = old.rules[i]
        <5>1. DOMAIN old = {"version", "count", "rules", "cut"}
              /\ old.rules \in [1 .. SPI_MAX_RULES -> Rules]
          BY DEF Tables
        <5>2. new.count = n
          BY <4>7, <5>1
        <5>3. new.rules = [old.rules EXCEPT ![n] = Parsed(line)]
          BY <4>7, <5>1
        <5>4. \A i \in 1 .. n - 1 : i # n /\ i \in 1 .. SPI_MAX_RULES
          BY <4>3, <4>4, SpiEngineAssumption DEF SpiEngineAssumption
        <5> QED
          BY <4>3, <5>1, <5>2, <5>3, <5>4
      <4>9. PICK M \in Seq(Meanings) : M = Meant(target) /\ DOMAIN M = 1 .. n - 1
        BY <4>2, <4>4
      <4>10. Len(M) = n - 1
        <5>1. DOMAIN M = 1 .. Len(M) /\ Len(M) \in Nat
          BY LenProperties
        <5>2. n - 1 \in Nat
          BY <4>2, <4>4
        <5> QED
          BY <4>9, <5>1, <5>2, SameInterval
      <4>11. PICK D : D = Described(line)
        OBVIOUS
      <4>12. D = [match |-> {t \in Tuples : rule_matches(Parsed(line), t)},
                  action |-> Parsed(line).action]
        <5>1. D.match \subseteq Tuples
              /\ D = [match |-> D.match, action |-> D.action]
          BY <4>11 DEF Described
        <5>2. D.match = {t \in Tuples : rule_matches(Parsed(line), t)}
          BY <3>1, <4>11, <5>1, LineMeaning
        <5>3. D.action = Parsed(line).action
          BY <3>1, <4>11, LineMeaning
        <5> QED
          BY <5>1, <5>2, <5>3
      <4> DEFINE meaning(rule) == [match |-> {t \in Tuples : rule_matches(rule, t)},
                                   action |-> rule.action]
      <4>13. D \in Meanings
        <5>1. Parsed(line).action \in Actions
          BY <3>1, ParsedType DEF Rules
        <5> QED
          BY <4>12, <5>1 DEF Meanings
      <4>14. M = [i \in 1 .. n - 1 |-> meaning(old.rules[i])]
        BY <4>4, <4>5, <4>9 DEF Meant
      <4>15. Meant(target)' = [i \in 1 .. n |-> meaning(new.rules[i])]
        BY <1>2, <4>6, <4>8 DEF Meant
      <4>16. D = meaning(new.rules[n])
        BY <4>8, <4>12
      <4>17. \A i \in 1 .. n - 1 : meaning(new.rules[i]) = M[i]
        BY <4>8, <4>14
      <4> HIDE DEF meaning
      <4>18. [i \in 1 .. n |-> meaning(new.rules[i])] = Append(M, D)
        <5>1. Append(M, D) = [i \in 1 .. n |-> IF i = n THEN D ELSE M[i]]
          BY <4>4, <4>10, <4>13, AppendIsFunction
        <5>2. \A i \in 1 .. n : i # n => i \in 1 .. n - 1
          BY <4>4
        <5> QED
          BY <4>16, <4>17, <5>1, <5>2
      <4> QED
        BY <4>9, <4>11, <4>15, <4>18
    <3>3. Meaningful(line)
      <4>1. line \in Lines
        BY <1>1, <1>4, <1>6
      <4> QED
        BY <3>1, <4>1, AcceptedIsMeaningful
    <3> QED
      BY <1>8, <1>9, <3>1, <3>2, <3>3
  <2> QED
    BY <2>1, <2>2 DEF ReadLine
<1>12. LinesOK(f, k + 1)
  <2>1. LinesOK(f, k)
    BY DEF ReadUpTo
  <2>2. \A i \in 1 .. k + 1 : i \in 1 .. k \/ i = k + 1
    OBVIOUS
  <2> QED
    BY <1>6, <1>11, <2>1, <2>2 DEF LinesOK
<1>13. ~tables'[target].cut
  <2>1. CASE SkipLine
    BY <1>2, <2>1 DEF SkipLine
  <2>2. CASE AddRule
    BY <1>2, <1>10, <2>2 DEF AddRule, TypeOK
  <2> QED
    BY <2>1, <2>2 DEF ReadLine
<1>14. target' = target /\ k + 1 \in 0 .. Len(f)
  BY <1>1, <1>2, <1>4
<1> QED
  BY <1>5, <1>11, <1>12, <1>13, <1>14 DEF ReadUpTo

\* A read fails: the lines that follow are not read, the rules stay.
LEMMA LineMissed ==
    ASSUME TypeOK, ReadError, NEW f \in Files, NEW k \in Nat, ReadUpTo(f, k)
    PROVE  ReadUpTo(f, k)'
<1>1. target \in {0, 1} /\ target' = target /\ unread' = <<>>
  BY DEF ReadError, TypeOK
<1>2. /\ tables'[target].count = tables[target].count
      /\ tables'[target].rules = tables[target].rules
      /\ tables'[target].cut
  BY <1>1 DEF ReadError, TypeOK
<1>3. Meant(target)' = Meant(target)
  BY <1>1, <1>2 DEF Meant
<1>4. k \in 0 .. Len(f) /\ Meant(target) = RulesUpTo(f)[k] /\ LinesOK(f, k)
  BY DEF ReadUpTo
<1> QED
  BY <1>1, <1>2, <1>3, <1>4 DEF ReadUpTo

\* When no line is left the table holds the rules of an acceptable file, or of the
\* beginning of one if a read failed.
LEMMA WholeFile ==
    ASSUME TypeOK, unread = <<>>, NEW f \in Files, NEW k \in Nat, ReadUpTo(f, k)
    PROVE  Meant(target) \in IF tables[target].cut THEN CutRules ELSE WholeRules
<1>1. f \in Seq(Lines) /\ Len(f) \in Nat
  BY SpiEngineAssumption DEF SpiEngineAssumption
<1>2. ~tables[target].cut => k = Len(f)
  <2> SUFFICES ASSUME ~tables[target].cut
               PROVE  k = Len(f)
    OBVIOUS
  <2>1. unread = SubSeq(f, k + 1, Len(f)) /\ k <= Len(f)
    BY <1>1 DEF ReadUpTo
  <2>2. CASE k < Len(f)
    <3>1. \A i \in k + 1 .. Len(f) : f[i] \in Lines
      BY <1>1
    <3>2. Len(SubSeq(f, k + 1, Len(f))) = Len(f) - (k + 1) + 1
      BY <1>1, <2>2, <3>1, SubSeqProperties
    <3>3. PICK n \in Nat : n = Len(f)
      BY <1>1
    <3>4. n - (k + 1) + 1 = 0
      BY <2>1, <3>2, <3>3, EmptySeq
    <3> QED
      BY <2>2, <3>3, <3>4
  <2> QED
    BY <1>1, <2>1, <2>2
<1>3. k \in 0 .. Len(f) /\ Meant(target) = RulesUpTo(f)[k] /\ LinesOK(f, k)
  BY DEF ReadUpTo
<1>4. Len(RulesUpTo(f)[k]) <= SPI_MAX_RULES
  <2>1. PICK M \in Seq(Meanings) : /\ M = Meant(target)
                                   /\ DOMAIN M = 1 .. tables[target].count
    BY MeantType DEF TypeOK
  <2>2. tables[target].count \in Nat /\ tables[target].count <= SPI_MAX_RULES
    BY MeantType DEF TypeOK
  <2>3. DOMAIN M = 1 .. Len(M) /\ Len(M) \in Nat
    BY LenProperties
  <2>4. Len(M) = tables[target].count
    BY <2>1, <2>2, <2>3
  <2> QED
    BY <1>3, <2>1, <2>2, <2>4
<1>5. Acceptable(f, k)
  BY <1>3, <1>4 DEF Acceptable, LinesOK
<1>6. RulesUpTo(f)[k] \in CutRules
  <2>1. RulesUpTo(f)[k] \in {RulesUpTo(f)[i] : i \in {j \in 0 .. Len(f) : Acceptable(f, j)}}
    BY <1>3, <1>5
  <2> QED
    BY <2>1 DEF CutRules
<1>7. ASSUME ~tables[target].cut
      PROVE  RulesUpTo(f)[k] \in WholeRules
  BY <1>2, <1>5, <1>7 DEF WholeRules
<1> QED
  BY <1>3, <1>6, <1>7

\* Steps that leave the load as it is.
LEMMA LoadUntouched ==
    ASSUME FileInv, UNCHANGED <<tables, target, unread>>,
           lpc' = lpc \/ lpc' \notin {"init", "init_lines", "lines"},
           lpc' \in {"init", "init_lines"} => active' = active
    PROVE  FileInv'
<1>1. ASSUME NEW f \in Files, NEW k \in Nat, ReadUpTo(f, k)
      PROVE  ReadUpTo(f, k)'
  <2>1. Meant(target)' = Meant(target)
    BY DEF Meant
  <2> QED
    BY <1>1, <2>1 DEF ReadUpTo
<1> QED
  BY <1>1 DEF FileInv

\* A load begins, goes on, and is given up or published.
LEMMA FileStep == SpiInv /\ FileInv /\ [Next]_vars => FileInv'
<1> SUFFICES ASSUME SpiInv, FileInv, [Next]_vars
             PROVE  FileInv'
  OBVIOUS
<1>1. TypeOK
  BY DEF SpiInv
<1>2. CASE Edit \/ RequestReload
  <2>1. UNCHANGED <<tables, active, target, unread, lpc>>
    BY <1>2 DEF Edit, RequestReload, tableVars, loaderVars
  <2> QED
    BY <2>1, LoadUntouched
<1>3. CASE ReadLine \/ ReadError
  <2>1. lpc' = lpc /\ active' = active /\ target' = target
        /\ lpc \in {"init_lines", "lines"}
    BY <1>3 DEF ReadLine, ReadError
  <2>2. PICK f \in Files, k \in Nat : ReadUpTo(f, k)
    BY <2>1 DEF FileInv
  <2>3. \E j \in Nat : ReadUpTo(f, j)'
    <3>1. CASE ReadLine
      <4>1. ReadUpTo(f, k + 1)' /\ k + 1 \in Nat
        BY <1>1, <2>2, <3>1, LineRead
      <4> QED
        BY <4>1
    <3>2. CASE ReadError
      <4>1. ReadUpTo(f, k)'
        BY <1>1, <2>2, <3>2, LineMissed
      <4> QED
        BY <4>1
    <3> QED
      BY <1>3, <3>1, <3>2
  <2> QED
    BY <2>1, <2>3 DEF FileInv
<1>4. CASE InitOpen
  <2>1. lpc' = "init_lines" /\ lpc = "init" /\ active' = active /\ target' = 0
        /\ OpenFile(0)
    BY <1>4 DEF InitOpen, OpenFile
  <2>2. \E f \in Files : \E k \in Nat : ReadUpTo(f, k)'
    BY <1>1, <2>1, OpenedFile
  <2> QED
    BY <2>1, <2>2 DEF FileInv
<1>5. CASE ReloadOpen
  <2>1. lpc' = "lines" /\ OpenFile(Inactive) /\ Inactive \in {0, 1}
    BY <1>5 DEF ReloadOpen, Inactive
  <2>2. \E f \in Files : \E k \in Nat : ReadUpTo(f, k)'
    BY <1>1, <2>1, OpenedFile
  <2> QED
    BY <2>1, <2>2 DEF FileInv
<1>6. CASE InitFails \/ InitPublish \/ ReloadTakeRequest \/ ReloadNoFile \/ ReloadBadLine
           \/ ReloadPublish
  <2>1. lpc' \in {"exited", "idle", "open"}
    BY <1>6 DEF InitFails, InitPublish, ReloadTakeRequest, ReloadNoFile, ReloadBadLine,
                ReloadPublish
  <2> QED
    BY <2>1 DEF FileInv
<1>7. ASSUME NEW m \in Matchers, MatchBegin(m) \/ MatchRule(m) \/ MatchEnd(m)
      PROVE  FileInv'
  <2>1. UNCHANGED <<tables, active, target, unread, lpc>>
    BY <1>7 DEF MatchBegin, MatchRule, MatchEnd, MatchFrame, tableVars, loaderVars
  <2> QED
    BY <2>1, LoadUntouched
<1>8. CASE UNCHANGED vars
  <2>1. UNCHANGED <<tables, active, target, unread, lpc>>
    BY <1>8 DEF vars, tableVars, loaderVars
  <2> QED
    BY <2>1, LoadUntouched
<1> QED
  BY <1>2, <1>3, <1>4, <1>5, <1>6, <1>7, <1>8 DEF Next

\* There is no load at the start.
LEMMA InitFile == Init => FileInv
  BY DEF Init, FileInv

-----------------------------------------------------------------------------
(* The refinement of RuleService.                                          *)

\* What readers of g_active_rules see.
VisibleRules == IF active = NULL THEN NULL ELSE Meant(active)
VisibleVersion == IF active = NULL THEN 0 ELSE tables[active].version
VisiblePartial == IF active = NULL THEN FALSE ELSE tables[active].cut
Unseen == UNCHANGED <<VisibleRules, VisibleVersion, VisiblePartial>>

\* A table that is not the active one may be written unseen.
LEMMA OtherTables ==
    ASSUME TypeOK, active' = active,
           active \in {0, 1} => tables'[active] = tables[active]
    PROVE  Unseen
<1>1. CASE active = NULL
  BY <1>1 DEF Unseen, VisibleRules, VisibleVersion, VisiblePartial
<1>2. CASE active \in {0, 1}
  <2>1. Meant(active)' = Meant(active)
    BY <1>2 DEF Meant
  <2> QED
    BY <1>2, <2>1 DEF Unseen, VisibleRules, VisibleVersion, VisiblePartial
<1> QED
  BY <1>1, <1>2 DEF TypeOK

\* A load stays out of sight until it is published.
LEMMA UnseenSteps ==
    ASSUME SpiInv, FileInv,
           \/ Edit \/ RequestReload \/ ReadLine \/ ReadError \/ InitOpen
           \/ InitFails \/ ReloadTakeRequest \/ ReloadOpen \/ ReloadNoFile \/ ReloadBadLine
           \/ \E m \in Matchers : MatchBegin(m) \/ MatchRule(m) \/ MatchEnd(m)
           \/ UNCHANGED vars
    PROVE  Unseen
<1>1. TypeOK /\ LoaderInv /\ NULL \notin {0, 1}
  BY SpiEngineAssumption DEF SpiInv, SpiEngineAssumption
<1>2. CASE ReadLine \/ ReadError
  <2>1. active' = active /\ (active \in {0, 1} => target # active)
    BY <1>1, <1>2 DEF ReadLine, ReadError, LoaderInv, FileInv
  <2>2. \A b \in {0, 1} : b # target => tables'[b] = tables[b]
    BY <1>1, <1>2, OneTableWritten
  <2> QED
    BY <1>1, <2>1, <2>2, OtherTables
<1>3. CASE InitOpen
  <2>1. active' = active /\ active = NULL
    BY <1>3 DEF InitOpen, OpenFile, FileInv
  <2> QED
    BY <1>1, <2>1, OtherTables
<1>4. CASE ReloadOpen
  <2>1. /\ active' = active /\ active \in {0, 1} /\ Inactive # active
        /\ tables' = [tables EXCEPT ![Inactive] = ZeroTable]
    BY <1>1, <1>4 DEF ReloadOpen, OpenFile, LoaderInv, Running, Inactive
  <2>2. tables'[active] = tables[active]
    BY <1>1, <2>1 DEF TypeOK
  <2> QED
    BY <1>1, <2>1, <2>2, OtherTables
<1>5. CASE Edit \/ RequestReload \/ InitFails \/ ReloadTakeRequest \/ ReloadNoFile
           \/ ReloadBadLine
  <2>1. UNCHANGED <<tables, active>>
    BY <1>5 DEF Edit, RequestReload, InitFails, ReloadTakeRequest, ReloadNoFile,
                ReloadBadLine, tableVars
  <2> QED
    BY <1>1, <2>1, OtherTables
<1>6. CASE \E m \in Matchers : MatchBegin(m) \/ MatchRule(m) \/ MatchEnd(m)
  <2>1. UNCHANGED <<tables, active>>
    BY <1>6 DEF MatchBegin, MatchRule, MatchEnd, MatchFrame, tableVars
  <2> QED
    BY <1>1, <2>1, OtherTables
<1>7. CASE UNCHANGED vars
  <2>1. UNCHANGED <<tables, active>>
    BY <1>7 DEF vars, tableVars
  <2> QED
    BY <1>1, <2>1, OtherTables
<1> QED
  BY <1>2, <1>3, <1>4, <1>5, <1>6, <1>7

\* A table that is published holds the rules of a whole file, unless a read failed.
LEMMA PublishSteps ==
    ASSUME SpiInv, FileInv, InitPublish \/ ReloadPublish
    PROVE  /\ \/ VisibleRules' \in WholeRules /\ VisiblePartial' = FALSE
              \/ VisibleRules' \in CutRules /\ VisiblePartial' = TRUE
           /\ VisibleVersion' = VisibleVersion + 1
<1>1. TypeOK /\ LoaderInv /\ NULL \notin {0, 1}
  BY SpiEngineAssumption DEF SpiInv, SpiEngineAssumption
<1>2. unread = <<>> /\ lpc \in {"init_lines", "lines"}
  BY DEF InitPublish, ReloadPublish
<1>3. PICK f \in Files, k \in Nat : ReadUpTo(f, k)
  BY <1>2 DEF FileInv
<1>4. Meant(target) \in IF tables[target].cut THEN CutRules ELSE WholeRules
  BY <1>1, <1>2, <1>3, WholeFile
<1>5. target \in {0, 1}
  BY <1>1 DEF TypeOK
<1>6. ASSUME NEW v \in Nat, tables' = [tables EXCEPT ![target].version = v],
             active' = target
      PROVE  /\ \/ VisibleRules' \in WholeRules /\ VisiblePartial' = FALSE
                \/ VisibleRules' \in CutRules /\ VisiblePartial' = TRUE
             /\ VisibleVersion' = v
  <2>1. PICK b \in {0, 1} : b = target
    BY <1>5
  <2>2. /\ tables'[b].count = tables[b].count /\ tables'[b].rules = tables[b].rules
        /\ tables'[b].version = v /\ tables'[b].cut = tables[b].cut
        /\ tables[b].cut \in BOOLEAN
    BY <1>1, <1>6, <2>1 DEF TypeOK
  <2>3. Meant(b)' = Meant(b)
    BY <2>2, MeantKept
  <2>4. active' = b /\ b # NULL
    BY <1>1, <1>6, <2>1
  <2>5. /\ VisibleRules' = Meant(b)' /\ VisibleVersion' = v
        /\ VisiblePartial' = tables[b].cut
    BY <2>2, <2>4 DEF VisibleRules, VisibleVersion, VisiblePartial, Meant
  <2>6. Meant(b) \in IF tables[b].cut THEN CutRules ELSE WholeRules
    BY <1>4, <2>1
  <2> QED
    BY <2>2, <2>3, <2>5, <2>6
<1>7. CASE InitPublish
  <2>1. /\ lpc = "init_lines" /\ active' = 0
        /\ tables' = [tables EXCEPT ![0].version = 1]
    BY <1>7 DEF InitPublish
  <2>2. target = 0 /\ active = NULL
    BY <2>1 DEF FileInv
  <2>3. VisibleVersion = 0
    BY <2>2 DEF VisibleVersion
  <2>4. /\ tables' = [tables EXCEPT ![target].version = 1]
        /\ active' = target
    BY <2>1, <2>2
  <2>5. VisibleVersion' = 1 => VisibleVersion' = VisibleVersion + 1
    BY <2>3
  <2> QED
    BY <1>6, <2>4, <2>5
<1>8. CASE ReloadPublish
  <2>1. /\ lpc = "lines" /\ active' = target
        /\ tables' = [tables EXCEPT ![target].version = tables[active].version + 1]
    BY <1>8 DEF ReloadPublish
  <2>2. active \in {0, 1} /\ tables[active].version + 1 \in Nat
    BY <1>1, <2>1 DEF LoaderInv, Running, TypeOK
  <2>3. VisibleVersion = tables[active].version
    BY <1>1, <2>2 DEF VisibleVersion
  <2> QED
    BY <1>6, <2>1, <2>2, <2>3
<1> QED
  BY <1>7, <1>8

\* Whatever the operator writes, whenever reloads are requested and however they fail,
\* the active rules are always all the rules of one acceptable file, with the meaning
\* of its lines, or after a read error those of its first lines; they change at once,
\* and the version counts the changes (spi_engine.c:121-196, 257-282): the engine
\* implements RuleService.
THEOREM WholeFilesOnly == Spec => PublishesWholeFiles
<1>1. Init => Abstract!Init
  BY DEF Init, Abstract!Init
<1>2. SpiInv /\ FileInv /\ [Next]_vars
         => [Abstract!Publish]_<<VisibleRules, VisibleVersion, VisiblePartial>>
  <2> SUFFICES ASSUME SpiInv, FileInv, [Next]_vars
               PROVE  [Abstract!Publish]_<<VisibleRules, VisibleVersion, VisiblePartial>>
    OBVIOUS
  <2>1. CASE InitPublish \/ ReloadPublish
    <3>1. Abstract!Publish
      BY <2>1, PublishSteps
         DEF Abstract!Publish, VisibleRules, VisibleVersion, VisiblePartial
    <3> QED
      BY <3>1
  <2>2. CASE ~(InitPublish \/ ReloadPublish)
    <3>1. Unseen
      BY <2>2, UnseenSteps DEF Next
    <3> QED
      BY <3>1 DEF Unseen
  <2> QED
    BY <2>1, <2>2
<1>3. Spec => []FileInv
  BY InitFile, FileStep, Lasts, PTL DEF Spec
<1> QED
  BY <1>1, <1>2, <1>3, Lasts, PTL
     DEF Spec, PublishesWholeFiles, Abstract!Spec, Abstract!vars, VisibleRules,
         VisibleVersion, VisiblePartial
=============================================================================
