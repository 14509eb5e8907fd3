------------------------------ MODULE MCLifecycle ------------------------------
(* A keyboard of two keys for the life cycle. *)
EXTENDS Lifecycle

\* Lines of two characters at most.
Spellings == [c \in Commands |->
                CASE c = "quit" -> <<"q", "q">>
                  [] c = "show worker" -> <<"q">>
                  [] c = "show statistics" -> <<"q", " ", "q">>]
=============================================================================
