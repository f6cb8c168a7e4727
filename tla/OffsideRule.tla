------------------------------ MODULE OffsideRule ------------------------------
(***************************************************************************)
(* What the indentation pass of the lexer promises, with no stack in it:   *)
(* a block is open as long as no line has been indented less than the line *)
(* that opened it.  The lines are the only memory; everything else is a    *)
(* function of them.                                                       *)
(***************************************************************************)
EXTENDS Naturals, Sequences, FiniteSets

CONSTANT Levels          \* the indentation levels a line may have, natural numbers

VARIABLES
  lines,                 \* the level of every line seen so far, in order
  opened,                \* how many Indent tokens have been produced
  closed,                \* how many Dedent tokens have been produced
  verdict                \* "scanning", "accepted" or "rejected"

vars == <<lines, opened, closed, verdict>>

(***************************************************************************)
(* The levels of the blocks that are open after the lines ls: the file     *)
(* level 0, and the level of every line that no later line undercuts.      *)
(***************************************************************************)
OpenLevels(ls) ==
  {0} \union
  {ls[k] : k \in {j \in DOMAIN ls : \A m \in j .. Len(ls) : ls[m] >= ls[j]}}

Deeper(ls, level) == {l \in OpenLevels(ls) : l > level}

(***************************************************************************)
(* A line deeper than every open block opens exactly one block.            *)
(***************************************************************************)
OpenBlock(level) ==
  /\ verdict = "scanning"
  /\ \A l \in OpenLevels(lines) : level > l
  /\ lines' = Append(lines, level)
  /\ opened' = opened + 1
  /\ UNCHANGED <<closed, verdict>>

(***************************************************************************)
(* A line at the level of an open block closes the blocks inside it, one   *)
(* Dedent each, and no other.                                              *)
(***************************************************************************)
ContinueBlock(level) ==
  /\ verdict = "scanning"
  /\ level \in OpenLevels(lines)
  /\ lines' = Append(lines, level)
  /\ closed' = closed + Cardinality(Deeper(lines, level))
  /\ UNCHANGED <<opened, verdict>>

(***************************************************************************)
(* A line that closes some block and belongs to none is an error, and an   *)
(* error hands on no token at all.                                         *)
(***************************************************************************)
Reject(level) ==
  /\ verdict = "scanning"
  /\ level \notin OpenLevels(lines)
  /\ Deeper(lines, level) # {}
  /\ verdict' = "rejected"
  /\ opened' = 0
  /\ closed' = 0
  /\ UNCHANGED lines

(***************************************************************************)
(* The end of the file closes every block.                                 *)
(***************************************************************************)
Accept ==
  /\ verdict = "scanning"
  /\ verdict' = "accepted"
  /\ closed' = closed + Cardinality(Deeper(lines, 0))
  /\ UNCHANGED <<lines, opened>>

Init ==
  /\ lines = <<>>
  /\ opened = 0
  /\ closed = 0
  /\ verdict = "scanning"

Next ==
  \/ \E level \in Levels : OpenBlock(level) \/ ContinueBlock(level) \/ Reject(level)
  \/ Accept

Spec == Init /\ [][Next]_vars

================================================================================
