----------------------------- MODULE MCTypeChecker -----------------------------
(***************************************************************************)
(* Expressions over names of every kind of type that the rules tell apart, *)
(* and assignments to names and parts of names, of outputs and inputs.     *)
(***************************************************************************)
EXTENDS TypeChecker

Names ==
  {Vector("UInt", 2), Vector("SInt", 2), Vector("Bits", 3), Vector("UInt", 3), Vector("Fixed", 2),
   Plain("Bool"), Plain("Clock"), Plain("Struct"), Plain("Void"), Plain("MetaUInt"),
   [is |-> "Array", n |-> 2, of |-> Vector("SInt", 2)],
   [is |-> "Memory", n |-> 2, of |-> Vector("UInt", 2)],
   [is |-> "Direction", n |-> 0, of |-> Vector("UInt", 2)]}

Numbers == {Vector("UInt", 2), Vector("UInt", 4), Vector("SInt", 2), Vector("SInt", 4),
            Vector("Bits", 3), Vector("Bits", 5)}

Whole(is, t) == [is |-> is, ty |-> t, path |-> <<>>]

\* The bounds 1 and 0, and bounds of which one is a name.
Pairs == {[high |-> UInt(1), low |-> UInt(0)], [high |-> UInt(1), low |-> NoConst]}

OutputParts == UNION {
  {[is |-> "output", ty |-> Vector("UInt", 2), path |-> << [part |-> "index"] >>],
   [is |-> "output", ty |-> Vector("UInt", 3), path |-> << [part |-> "slice", bounds |-> b] >>],
   [is |-> "output", ty |-> Plain("Struct"), path |-> << [part |-> "field"] >>],
   [is |-> "output", ty |-> [is |-> "Array", n |-> 2, of |-> Vector("SInt", 2)],
    path |-> << [part |-> "index"] >>]} : b \in Pairs}

Outputs == {Whole("output", t) : t \in Numbers \union {Plain("Bool"), Plain("Struct")}}
             \union OutputParts \union {Whole("other", Error), Whole("input", Vector("UInt", 2))}

================================================================================
