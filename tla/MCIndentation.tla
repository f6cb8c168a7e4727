----------------------------- MODULE MCIndentation -----------------------------
(***************************************************************************)
(* Files of a few lines over white space that mixes spaces and tabs: the   *)
(* levels 0, 2, 4 (four spaces, and one tab) and 6 (two spaces and a tab). *)
(***************************************************************************)
EXTENDS Indentation

MCWidths == { [sp |-> 0, tab |-> 0], [sp |-> 2, tab |-> 0],
              [sp |-> 4, tab |-> 0], [sp |-> 0, tab |-> 1],
              [sp |-> 2, tab |-> 1] }

================================================================================
