------------------------------ MODULE SpiEngine ------------------------------
(***************************************************************************)
(* The SPI rule engine (src/src/spi_engine.c): two rule tables, one of     *)
(* them active.  The main thread loads the first table before any other    *)
(* thread runs; afterwards the stats thread is the only loader, and the    *)
(* workers match packets against the table they found active when the      *)
(* match began, without a lock.  SIGUSR1 and the TUI request a reload; the *)
(* operator edits the rule file (a new file replaces the old one at once,  *)
(* as rename does).  SpiRule has the lines of the file and their parsers.  *)
(***************************************************************************)
EXTENDS SpiRule, Sequences, FiniteSets

CONSTANTS
    Tuples,         \* flow_cold_data of the packets
    Files,          \* the contents the rule file may have
    NULL,           \* no active table yet
    NoFile,         \* the file cannot be opened
    SPI_MAX_RULES,
    Matchers,       \* the workers
    MaxEdits,       \* bound: edits of the file
    MaxReadErrors,  \* bound: reads of the file that fail
    MaxRequests     \* bound: reload requests

ASSUME SpiEngineAssumption ==
    /\ Tuples \subseteq Cold
    /\ Files \subseteq Seq(Lines)
    /\ NULL \notin {0, 1} \cup Seq(Rules)
    /\ NoFile \notin Files
    /\ SPI_MAX_RULES \in Nat
    /\ MaxEdits \in Nat
    /\ MaxReadErrors \in Nat
    /\ MaxRequests \in Nat

VARIABLES
    file,           \* what rules.cfg holds
    read_errors,    \* reads that failed so far
    tables,         \* g_rule_tables
    active,         \* g_active_rules: an index of tables, or NULL
    g_reload_requested,
    lpc,            \* the loader's program counter
    target,         \* the table being loaded
    unread,         \* the lines load_rule_file has not read yet
    matcher,        \* [Matchers -> a match_cold call]
    edition, seen, asked, requests, \* history: edits so far, the edition of
                    \* the last open, that of the last request, and their number
    accepted        \* history: the lines load_rule_file took for rules

fileVars == <<file, edition, read_errors>>
tableVars == <<tables, active>>
loaderVars == <<lpc, target, unread, seen, accepted>>
requestVars == <<g_reload_requested, asked, requests>>
vars == <<fileVars, tableVars, loaderVars, requestVars, matcher>>

\* cut: history, a read of the file that filled the table failed.
ZeroTable == [version |-> 0, count |-> 0,
              rules |-> [i \in 1 .. SPI_MAX_RULES |-> ZeroRule], cut |-> FALSE]

\* want: history, the active rules when the call began, by what they mean; loads:
\* history, how many loads were under way or began since.
Meanings == [match : SUBSET Tuples, action : Actions]
Calls == [pc : {"scan", "done"}, tuple : Tuples, table : {0, 1}, i : Nat,
          count : Nat, verdict : Actions, want : Seq(Meanings), loads : Nat]
NoCall == [pc |-> "idle"]

TypeOK ==
    /\ file \in Files \cup {NoFile}
    /\ tables \in [{0, 1} -> [version : Nat, count : 0 .. SPI_MAX_RULES,
                              rules : [1 .. SPI_MAX_RULES -> Rules],
                              cut : BOOLEAN]]
    /\ active \in {0, 1, NULL}
    /\ g_reload_requested \in BOOLEAN
    /\ lpc \in {"init", "init_lines", "idle", "open", "lines", "exited"}
    /\ target \in {0, 1}
    /\ unread \in Seq(Lines)
    /\ matcher \in [Matchers -> Calls \cup {NoCall}]
    /\ read_errors \in 0 .. MaxReadErrors
    /\ edition \in 0 .. MaxEdits /\ seen \in 0 .. edition
    /\ asked \in -1 .. edition /\ requests \in 0 .. MaxRequests
    /\ accepted \subseteq Lines

Init ==
    /\ file \in Files \cup {NoFile}
    /\ tables = [b \in {0, 1} |-> ZeroTable]
    /\ active = NULL
    /\ g_reload_requested = FALSE
    /\ lpc = "init"
    /\ target = 0
    /\ unread = <<>>
    /\ matcher = [m \in Matchers |-> NoCall]
    /\ read_errors = 0
    /\ edition = 0 /\ seen = 0 /\ asked = -1 /\ requests = 0
    /\ accepted = {}

\* What the rules of table b mean: the tuples they match and their actions.
Meant(b) ==
    [i \in 1 .. tables[b].count |->
       [match |-> {t \in Tuples : rule_matches(tables[b].rules[i], t)},
        action |-> tables[b].rules[i].action]]
Running == lpc \in {"idle", "open", "lines"}

-----------------------------------------------------------------------------
(* The operator.                                                           *)

Edit ==
    /\ edition < MaxEdits
    /\ file' \in (Files \cup {NoFile}) \ {file}
    /\ edition' = edition + 1
    /\ UNCHANGED <<read_errors, tableVars, loaderVars, requestVars, matcher>>

\* spi_rule_engine_request_reload, from the signal handler or the TUI.
RequestReload ==
    /\ requests < MaxRequests
    /\ lpc # "exited"
    /\ g_reload_requested' = TRUE
    /\ asked' = edition
    /\ requests' = requests + 1
    /\ UNCHANGED <<fileVars, tableVars, loaderVars, matcher>>

-----------------------------------------------------------------------------
(* load_rule_file.                                                         *)

\* One more load for the matches that are under way.
CountLoad ==
    matcher' = [m \in Matchers |->
                  IF matcher[m].pc = "scan"
                  THEN [matcher[m] EXCEPT !.loads = @ + 1] ELSE matcher[m]]

\* fopen and the memset of the table.
OpenFile(b) ==
    /\ file # NoFile
    /\ tables' = [tables EXCEPT ![b] = ZeroTable]
    /\ target' = b
    /\ unread' = file
    /\ seen' = edition
    /\ CountLoad
    /\ UNCHANGED <<active, accepted, fileVars>>

\* Mutant of LineOK: the table is not known to be full.
LineOK_NoLimit(line) == FormatOK(line.fields) /\ ValuesOK(line)

LineOK(line) ==
    /\ FormatOK(line.fields)
    /\ tables[target].count < SPI_MAX_RULES
    /\ ValuesOK(line)

SkipLine ==
    /\ unread # <<>> /\ Head(unread).comment
    /\ unread' = Tail(unread)
    /\ UNCHANGED <<tables, accepted>>

AddRule ==
    /\ unread # <<>> /\ ~Head(unread).comment
    /\ LineOK(Head(unread))
    /\ LET n == tables[target].count + 1 IN
          tables' = [tables EXCEPT ![target].rules[n] = Parsed(Head(unread)),
                                   ![target].count = n]
    /\ accepted' = accepted \cup {Head(unread)}
    /\ unread' = Tail(unread)

BadLine == unread # <<>> /\ ~Head(unread).comment /\ ~LineOK(Head(unread))

ReadLine ==
    /\ lpc \in {"init_lines", "lines"}
    /\ SkipLine \/ AddRule
    /\ UNCHANGED <<lpc, target, seen, active, fileVars, requestVars, matcher>>

\* fgets returns NULL for an error as it does at the end of the file: the lines
\* that follow are not missed.
ReadError ==
    /\ lpc \in {"init_lines", "lines"} /\ unread # <<>>
    /\ read_errors < MaxReadErrors
    /\ read_errors' = read_errors + 1
    /\ unread' = <<>>
    /\ tables' = [tables EXCEPT ![target].cut = TRUE]
    /\ UNCHANGED <<lpc, target, seen, accepted, active, file, edition, requestVars,
                   matcher>>

-----------------------------------------------------------------------------
(* spi_rule_engine_init, before the threads are launched.                  *)

InitOpen ==
    /\ lpc = "init"
    /\ OpenFile(0)
    /\ lpc' = "init_lines"
    /\ UNCHANGED requestVars

\* No file or a bad line: app_init exits.
InitFails ==
    /\ \/ lpc = "init" /\ file = NoFile
       \/ lpc = "init_lines" /\ BadLine
    /\ lpc' = "exited"
    /\ UNCHANGED <<fileVars, tableVars, target, unread, seen, accepted,
                   requestVars, matcher>>

\* A request made until now is forgotten: g_reload_requested = 0.
InitPublish ==
    /\ lpc = "init_lines" /\ unread = <<>>
    /\ tables' = [tables EXCEPT ![0].version = 1]
    /\ active' = 0
    /\ g_reload_requested' = FALSE
    /\ asked' = -1
    /\ lpc' = "idle"
    /\ UNCHANGED <<fileVars, target, unread, seen, accepted, requests, matcher>>

-----------------------------------------------------------------------------
(* spi_rule_engine_reload_if_needed, on every tick of the stats thread.    *)

\* Mutant of Inactive: the load goes to the active table.
Inactive_Active == IF active = 0 THEN 0 ELSE 1

Inactive == IF active = 0 THEN 1 ELSE 0

ReloadTakeRequest ==
    /\ lpc = "idle" /\ g_reload_requested
    /\ g_reload_requested' = FALSE
    /\ lpc' = "open"
    /\ UNCHANGED <<fileVars, tableVars, target, unread, seen, accepted, asked,
                   requests, matcher>>

ReloadOpen ==
    /\ lpc = "open"
    /\ OpenFile(Inactive)
    /\ lpc' = "lines"
    /\ UNCHANGED requestVars

\* Without a file or with a bad line the active table and its version stay.
ReloadNoFile ==
    /\ lpc = "open" /\ file = NoFile
    /\ lpc' = "idle"
    /\ seen' = edition
    /\ UNCHANGED <<fileVars, tableVars, target, unread, accepted, requestVars,
                   matcher>>

ReloadBadLine ==
    /\ lpc = "lines" /\ BadLine
    /\ lpc' = "idle"
    /\ UNCHANGED <<fileVars, tableVars, target, unread, seen, accepted,
                   requestVars, matcher>>

\* Mutant of ReloadPublish: the request is cleared once more when it is served.
ReloadPublish_ClearsRequest ==
    /\ lpc = "lines" /\ unread = <<>>
    /\ tables' = [tables EXCEPT ![target].version = tables[active].version + 1]
    /\ active' = target
    /\ g_reload_requested' = FALSE
    /\ lpc' = "idle"
    /\ UNCHANGED <<fileVars, target, unread, seen, accepted, asked, requests,
                   matcher>>

ReloadPublish ==
    /\ lpc = "lines" /\ unread = <<>>
    /\ tables' = [tables EXCEPT ![target].version = tables[active].version + 1]
    /\ active' = target
    /\ lpc' = "idle"
    /\ UNCHANGED <<fileVars, target, unread, seen, accepted, requestVars, matcher>>

-----------------------------------------------------------------------------
(* spi_rule_engine_match_cold on a worker.                                 *)

MatchFrame == UNCHANGED <<fileVars, tableVars, loaderVars, requestVars>>

\* The load of g_active_rules and of the table's count.
MatchBegin(m) ==
    /\ Running /\ matcher[m] = NoCall
    /\ \E t \in Tuples :
          matcher' = [matcher EXCEPT ![m] =
                        [pc |-> "scan", tuple |-> t, table |-> active, i |-> 1,
                         count |-> tables[active].count, verdict |-> "UNKNOWN",
                         want |-> Meant(active),
                         loads |-> IF lpc = "lines" THEN 1 ELSE 0]]
    /\ MatchFrame

\* Mutant of MatchRule: every iteration asks for the active table again.
MatchRule_ActiveTable(m) ==
    /\ matcher[m].pc = "scan"
    /\ LET c == matcher[m]
           rule == tables[active].rules[c.i]
       IN matcher' = [matcher EXCEPT ![m] =
                IF c.i > tables[active].count
                THEN [c EXCEPT !.pc = "done", !.verdict = "FORWARD"]
                ELSE IF rule_matches(rule, c.tuple)
                THEN [c EXCEPT !.pc = "done", !.verdict = rule.action]
                ELSE [c EXCEPT !.i = @ + 1]]
    /\ MatchFrame

\* One iteration.  The build may keep count in a register or read it again.
MatchRule(m) ==
    /\ matcher[m].pc = "scan"
    /\ LET c == matcher[m]
           rule == tables[c.table].rules[c.i]
       IN \E count \in {c.count, tables[c.table].count} :
             matcher' = [matcher EXCEPT ![m] =
                IF c.i > count
                THEN [c EXCEPT !.pc = "done", !.verdict = "FORWARD"]
                ELSE IF rule_matches(rule, c.tuple)
                THEN [c EXCEPT !.pc = "done", !.verdict = rule.action]
                ELSE [c EXCEPT !.i = @ + 1]]
    /\ MatchFrame

MatchEnd(m) ==
    /\ matcher[m].pc = "done"
    /\ matcher' = [matcher EXCEPT ![m] = NoCall]
    /\ MatchFrame

-----------------------------------------------------------------------------

Next ==
    \/ Edit
    \/ RequestReload
    \/ ReadLine
    \/ ReadError
    \/ InitOpen
    \/ InitFails
    \/ InitPublish
    \/ ReloadTakeRequest
    \/ ReloadOpen
    \/ ReloadNoFile
    \/ ReloadBadLine
    \/ ReloadPublish
    \/ \E m \in Matchers : MatchBegin(m)
    \/ \E m \in Matchers : MatchRule(m)
    \/ \E m \in Matchers : MatchEnd(m)

Spec == Init /\ [][Next]_vars

LoaderStep ==
    \/ ReadLine \/ ReadError \/ InitOpen \/ InitFails \/ InitPublish
    \/ ReloadTakeRequest \/ ReloadOpen \/ ReloadNoFile \/ ReloadBadLine
    \/ ReloadPublish

\* The main thread runs through init and the stats thread ticks for ever.
FairSpec == Spec /\ WF_vars(LoaderStep)

-----------------------------------------------------------------------------
(* Properties.                                                             *)

\* The rule a line describes: the tuples it is for, and its action.
Described(line) ==
    [match |-> {t \in Tuples :
                  /\ \/ line.protocol = Star
                     \/ line.protocol = "TCP" /\ t.protocol = 6
                     \/ line.protocol = "UDP" /\ t.protocol = 17
                  /\ \A f \in {"src_ip", "dst_ip", "src_port", "dst_port"} :
                        line[f] \in {Star, t[f]}},
     action |-> IF line.action = "DROP" THEN "DROP" ELSE "FORWARD"]

\* The rules of a file, in their order: those of its first k lines, for every k.
RulesUpTo(f) ==
    LET upTo[k \in 0 .. Len(f)] ==
            IF k = 0 THEN <<>>
            ELSE IF f[k].comment THEN upTo[k - 1]
                 ELSE Append(upTo[k - 1], Described(f[k]))
    IN upTo

\* The action of the first rule that matches.
FirstMatch(rules, t) ==
    LET hits == {i \in DOMAIN rules : t \in rules[i].match}
    IN IF hits = {} THEN "FORWARD"
       ELSE rules[CHOOSE i \in hits : \A j \in hits : i <= j].action

\* What a line must be to become a rule: the fields of rules.cfg:1 (an eighth is
\* ignored, see SevenFields), each with a meaning, ports of 16 bits.
Meaningful(line) ==
    /\ line.fields \in {7, 8}
    /\ line.protocol \in {Star, "TCP", "UDP"}
    /\ line.src_ip \in {Star} \cup Addresses /\ line.dst_ip \in {Star} \cup Addresses
    /\ line.src_port \in {Star} \cup 0 .. UINT16_MAX
    /\ line.dst_port \in {Star} \cup 0 .. UINT16_MAX
    /\ line.action \in {"FORWARD", "LOG", "COUNT", "DROP"}

\* The first k lines of f can be loaded.
Acceptable(f, k) ==
    /\ \A i \in 1 .. k : f[i].comment \/ Meaningful(f[i])
    /\ Len(RulesUpTo(f)[k]) <= SPI_MAX_RULES

WholeRules == {RulesUpTo(f)[Len(f)] : f \in {g \in Files : Acceptable(g, Len(g))}}
CutRules ==
    UNION {{RulesUpTo(f)[k] : k \in {j \in 0 .. Len(f) : Acceptable(f, j)}} : f \in Files}

\* What readers of g_active_rules see implements RuleService: all the rules of
\* one acceptable file, each with the meaning rules.cfg gives its line (LOG and
\* COUNT forward, spi_engine.c:103), replaced at once, with a version that
\* counts; a failed reload (spi_engine.c:270-274) and a reload under way leave no
\* trace in it.  Only a read error, which the loader takes for the end of the
\* file (spi_engine.c:135), makes it publish the first rules of a file.
Abstract == INSTANCE RuleService WITH
    RuleFiles <- WholeRules,
    Beginnings <- CutRules,
    NoRules <- NULL,
    activeRules <- IF active = NULL THEN NULL ELSE Meant(active),
    version <- IF active = NULL THEN 0 ELSE tables[active].version,
    partial <- IF active = NULL THEN FALSE ELSE tables[active].cut

PublishesWholeFiles == Abstract!Spec

\* A match that overlaps with at most one load gives the verdict of the rules
\* that were active when it began (spi_engine.c:217): a load fills the other
\* table, and only a second load clears the table of a running match.
SnapshotVerdict ==
    \A m \in Matchers :
        matcher[m].pc = "done" /\ matcher[m].loads <= 1
            => matcher[m].verdict = FirstMatch(matcher[m].want, matcher[m].tuple)

\* Whoever edits the file and then asks for a reload has that edition read, or a
\* later one: the exchange of the flag before the file is opened
\* (spi_engine.c:263-270) loses no request, not one made during a load either.
ReloadServed ==
    \A e \in 0 .. MaxEdits :
        Running /\ asked = e ~> seen >= e /\ lpc = "idle"

\* rules.cfg:1 gives the format of a rule, seven fields; the message at
\* spi_engine.c:156 is for any other number of them.
SevenFields == \A line \in accepted : line.fields = 7
=============================================================================
