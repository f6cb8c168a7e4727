------------------------------- MODULE ConstEval -------------------------------
(***************************************************************************)
(* Evaluation of constant expressions (sema/eval.rs), operator by          *)
(* operator: what eval_expr makes of the values of the operands.  Values   *)
(* are u128 and i128, widths u64 and exponents u32; the model keeps the    *)
(* three word sizes in proportion and leaves the smallest open.  Wrapping  *)
(* is what the release build does.                                         *)
(***************************************************************************)
EXTENDS Integers

CONSTANT HalfWord        \* 2^32 in the code

ASSUME HalfWordAssumption == HalfWord \in Nat \ {0, 1}

Word == HalfWord * HalfWord
Big == Word * Word

\* ConstValue, and NoConst for an Err; truth is 1 or 0.
UIntConst == [is : {"UInt"}, n : 0 .. Big - 1]
IntConst == [is : {"Int"}, n : -(Big \div 2) .. (Big - 1) \div 2]
BoolConst == [is : {"Bool"}, n : {0, 1}]
NoConst == [is |-> "Err", n |-> 0]
ConstValue == UIntConst \union IntConst \union BoolConst \union {NoConst}

UInt(n) == [is |-> "UInt", n |-> n % Big]
Bool(p) == [is |-> "Bool", n |-> IF p THEN 1 ELSE 0]

\* Reading an integer as an i128.
Signed(n) == ((n + Big \div 2) % Big) - Big \div 2

\* require_uint2 and the arithmetic and comparison operators.
Integers2(op, l, r) ==
  CASE op = "Add" -> UInt(l + r)
    [] op = "Sub" -> UInt(l - r)
    [] op = "Mul" -> UInt(l * r)
    [] op \in {"Div", "Mod"} /\ r = 0 -> NoConst
    [] op = "Div" /\ r # 0 -> UInt(l \div r)
    [] op = "Mod" /\ r # 0 -> UInt(l % r)
    [] op = "Pow" -> IF r < HalfWord /\ l ^ r \in 0 .. Big - 1 THEN UInt(l ^ r) ELSE NoConst
    [] op = "Eq" -> Bool(l = r)
    [] op = "Lt" -> Bool(l < r)
    [] OTHER -> NoConst

\* require_bool2 and the logical operators.
Logical2(op, p, q) ==
  CASE op = "And" -> Bool(p /\ q)
    [] op = "Or" -> Bool(p \/ q)
    [] OTHER -> NoConst

eval_binary(op, l, r) ==
  CASE l.is = "UInt" /\ r.is = "UInt" -> Integers2(op, l.n, r.n)
    [] l.is = "Bool" /\ r.is = "Bool" -> Logical2(op, l.n = 1, r.n = 1)
    [] OTHER -> NoConst

eval_unary(op, v) ==
  CASE op = "Neg" /\ v.is \in {"UInt", "Int"} -> [is |-> "Int", n |-> Signed(-Signed(v.n))]
    [] op = "LogicalNot" /\ v.is = "Bool" -> Bool(v.n = 0)
    [] OTHER -> NoConst

\* An if-expression; the branch not taken is not evaluated.
eval_if(c, t, e) ==
  IF c.is = "Bool" THEN IF c.n = 1 THEN t ELSE e ELSE NoConst

================================================================================
