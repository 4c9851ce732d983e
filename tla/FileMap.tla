------------------------------ MODULE FileMap ------------------------------
(***************************************************************************)
(* What the virtual files promise: a content per path, replaced by every   *)
(* write, and what each call does and answers.  The totals are of files as *)
(* they were created: nothing is ever deleted, and a write to a file that  *)
(* is there changes neither.                                               *)
(***************************************************************************)
EXTENDS Integers

CONSTANTS
  Paths,        (* paths a file can have                                   *)
  Length,       (* content -> its length                                   *)
  NoFile

VARIABLES
  stored,       (* path -> its content, or NoFile                          *)
  files, bytes, (* the totals                                              *)
  answer        (* what the last call returned                             *)

Created(content) == files' = files + 1 /\ bytes' = bytes + Length[content]

Init ==
  /\ stored = [path \in Paths |-> NoFile]
  /\ files = 0 /\ bytes = 0
  /\ answer = FALSE

Write(path, content) ==
  /\ stored' = [stored EXCEPT ![path] = content]
  /\ answer' = TRUE
  /\ IF stored[path] = NoFile THEN Created(content) ELSE UNCHANGED <<files, bytes>>

Answered(a) == answer' = a /\ UNCHANGED <<stored, files, bytes>>

\* There may be no room for a new file; a file that is there is never refused.
Refuse(path) == stored[path] = NoFile /\ Answered(FALSE)

Exists(path) == Answered(stored[path] # NoFile)

\* What is written to a path that no file can have is counted and lost.
WriteLost(content) ==
  /\ answer' = TRUE
  /\ Created(content)
  /\ UNCHANGED stored
=============================================================================
