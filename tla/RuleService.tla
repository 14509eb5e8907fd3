------------------------------ MODULE RuleService ------------------------------
(***************************************************************************)
(* What the SPI rule engine (src/include/spi_engine.h) promises to those   *)
(* who read the active rules: they are always all the rules of one         *)
(* acceptable file, they change at once, and the version counts the        *)
(* changes.  RuleFiles holds the rules of every acceptable file.  After a  *)
(* read error they are those of the beginning of a file, and are partial.  *)
(***************************************************************************)
EXTENDS Naturals

CONSTANTS RuleFiles, Beginnings, NoRules

VARIABLES activeRules, version, partial

vars == <<activeRules, version, partial>>

Init == activeRules = NoRules /\ version = 0 /\ partial = FALSE

Publish ==
    /\ \/ activeRules' \in RuleFiles /\ partial' = FALSE
       \/ activeRules' \in Beginnings /\ partial' = TRUE
    /\ version' = version + 1

Spec == Init /\ [][Publish]_vars
=============================================================================
