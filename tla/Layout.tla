--------------------------------- MODULE Layout ---------------------------------
(***************************************************************************)
(* The line starts between the code tokens of a file, as the indentation   *)
(* pass hands them to the parser.  Indentation is shown to produce these   *)
(* and no others, and Parser is checked on all of them.                    *)
(***************************************************************************)
EXTENDS Naturals, Sequences

Dedents(n) == [i \in 1 .. n |-> "Dedent"]

(***************************************************************************)
(* The start of a line that leads from d open blocks to e: one Newline,    *)
(* then one Indent at most or any number of Dedents.                       *)
(***************************************************************************)
LineStart(d, e) ==
  <<"Newline">> \o IF e > d THEN <<"Indent">> ELSE Dedents(d - e)

\* The numbers of open blocks that a line after d open blocks may lead to.
NextDepths(d) == 0 .. (d + 1)

=================================================================================
