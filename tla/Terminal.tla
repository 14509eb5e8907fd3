------------------------------- MODULE Terminal -------------------------------
(***************************************************************************)
(* The terminal interface of the stats thread (src/src/stats.c): the line  *)
(* being typed, the key by key poll, the commands.  The commands that only *)
(* ask another component for something (reload) or print are left out.     *)
(***************************************************************************)
EXTENDS Integers, Sequences

CONSTANTS
    Chars,          \* printable characters
    Blank,          \* the one that is trimmed
    Spelling,       \* [the commands modelled here -> their characters]
    InputSize,      \* sizeof(input), with room for the final 0
    MaxKeys         \* bound: keys that are typed

Commands == {"show statistics", "show worker", "quit"}
Keys == Chars \cup {"enter", "ctrl_u", "backspace", "escape"}

ASSUME TerminalAssumption ==
    /\ Blank \in Chars
    /\ Spelling \in [Commands -> Seq(Chars)]
    /\ Chars \cap {"enter", "ctrl_u", "backspace", "escape"} = {}
    /\ InputSize \in Nat \ {0}
    /\ MaxKeys \in Nat

VARIABLES
    force_quit,
    input,          \* tui.input, the line as typed so far
    view,           \* tui.view
    stdin_closed,
    raw_mode,       \* is the terminal in raw mode
    typed           \* keys so far

lineVars == <<input, view, stdin_closed, typed>>
terminalVars == <<lineVars, raw_mode>>

TerminalTypeOK ==
    /\ force_quit \in BOOLEAN
    /\ input \in Seq(Chars) /\ Len(input) < InputSize
    /\ view \in {"STATISTICS", "WORKERS"}
    /\ stdin_closed \in BOOLEAN
    /\ raw_mode \in BOOLEAN
    /\ typed \in 0 .. MaxKeys

TerminalInit ==
    /\ input = <<>> /\ view = "STATISTICS" /\ stdin_closed = FALSE
    /\ raw_mode = FALSE /\ typed = 0

\* stats_tui_init: raw mode needs a terminal that can be set.
OpenTerminal ==
    /\ raw_mode' \in BOOLEAN
    /\ UNCHANGED lineVars

\* stats_tui_destroy.
RestoreTerminal ==
    /\ raw_mode' = FALSE
    /\ UNCHANGED lineVars

\* execute_tui_command: does the line, blanks at its ends removed, name command c.
Names(line, c) ==
    \E i \in 0 .. Len(line) - Len(Spelling[c]) :
        /\ SubSeq(line, i + 1, i + Len(Spelling[c])) = Spelling[c]
        /\ \A j \in (1 .. i) \cup (i + Len(Spelling[c]) + 1 .. Len(line)) :
              line[j] = Blank

ExecuteCommand ==
    /\ input' = <<>>
    /\ force_quit' = (force_quit \/ Names(input, "quit"))
    /\ view' = IF Names(input, "show statistics") THEN "STATISTICS"
               ELSE IF Names(input, "show worker") THEN "WORKERS" ELSE view

\* Mutant of TypeChar: the last place of the buffer is taken for a character.
TypeChar_NoRoomForEnd(ch) ==
    /\ input' = IF Len(input) >= InputSize THEN input ELSE Append(input, ch)
    /\ UNCHANGED <<force_quit, view>>

\* A character that finds the buffer full is dropped: "command too long".
TypeChar(ch) ==
    /\ input' = IF Len(input) + 1 >= InputSize THEN input ELSE Append(input, ch)
    /\ UNCHANGED <<force_quit, view>>

EditLine(key) ==
    /\ input' = IF key = "ctrl_u" THEN <<>>
                ELSE IF key = "backspace" /\ input # <<>>
                     THEN SubSeq(input, 1, Len(input) - 1) ELSE input
    /\ UNCHANGED <<force_quit, view>>

\* poll_tui_command reads a key; it stays in its loop.
ReadKey ==
    /\ ~stdin_closed /\ typed < MaxKeys
    /\ typed' = typed + 1
    /\ \E key \in Keys :
          \/ key \in Chars /\ TypeChar(key)
          \/ key = "enter" /\ ExecuteCommand
          \/ key \in {"ctrl_u", "backspace", "escape"} /\ EditLine(key)
    /\ UNCHANGED <<stdin_closed, raw_mode>>

\* The poll ends: nothing to read, Ctrl-D, the end of the input or an error.
EndPoll ==
    \/ UNCHANGED <<force_quit, terminalVars>>
    \/ /\ ~stdin_closed /\ typed < MaxKeys
       /\ typed' = typed + 1
       /\ force_quit' = TRUE
       /\ UNCHANGED <<input, view, stdin_closed, raw_mode>>
    \/ /\ ~stdin_closed
       /\ stdin_closed' = TRUE
       /\ UNCHANGED <<force_quit, input, view, raw_mode, typed>>
=============================================================================
