------------------------------ MODULE CodeText ------------------------------
(***************************************************************************)
(* A piece of code as the scanners see it: characters of a few classes.    *)
(* Offsets count from 0.                                                   *)
(***************************************************************************)
EXTENDS Integers, Sequences, FiniteSets, FiniteSetsExt

CONSTANTS
  Letters, Digits,   (* letters with _ and $; a letter may be among:       *)
  NumberSigns,       (* ".", "x" and "X"                                   *)
  Blanks,            (* space, tab and carriage return                     *)
  Quotes,
  Codes              (* the codes scanned                                  *)

Newline == "newline"

Characters == UNION {{text[n] : n \in DOMAIN text} : text \in Codes}

ASSUME CodeTextAssumption ==
  /\ Codes \subseteq Seq(Characters)
  /\ Newline \notin Letters \union Digits \union NumberSigns \union Quotes

VARIABLE code

CodeEnd == Len(code)
Char(n) == code[n + 1]
Is(n, c) == n < CodeEnd /\ Char(n) = c
=============================================================================
