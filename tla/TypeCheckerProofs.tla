--------------------------- MODULE TypeCheckerProofs ---------------------------
(***************************************************************************)
(* Proofs about the type checker, for every size of words, every set of    *)
(* names, targets, literals and bounds, and programs of any size.          *)
(*                                                                         *)
(* The invariant is IInv: besides the types, that the expressions on the   *)
(* stack stand in the order in which they begin (Ordered), and that each   *)
(* of them that has no error in it and no part the pass does not type is   *)
(* Good, which relates the type the pass gives it to what the language     *)
(* says of it.  For every rule of check_expr a lemma ...Good says that of  *)
(* good operands it makes a good expression unless it pushes an error.     *)
(* ReturnKeeps then does the bookkeeping of the walk for all rules: the    *)
(* errors in an expression are those in its operands and its own.          *)
(***************************************************************************)
EXTENDS TypeChecker, SequenceTheorems, FiniteSetTheorems, TLAPS

-----------------------------------------------------------------------------
(* Words and types. *)

\* The sizes of words: a u64 is smaller than a u128, and both can count.
LEMMA Words == Word \in Nat /\ Word > 3 /\ Big \in Nat /\ Big > Word
  BY HalfWordAssumption DEF Word, Big

\* What ConstEval makes of values are values.
LEMMA UIntType == ASSUME NEW n \in Int PROVE UInt(n) \in ConstValue
  <1>1. n % Big \in 0 .. Big - 1
    <2> DEFINE b == Big
    <2>1. b \in Nat /\ b > 0  BY Words
    <2> HIDE DEF b
    <2>2. n % b \in 0 .. b - 1  BY <2>1
    <2> QED  BY <2>2 DEF b
  <1> QED  BY <1>1 DEF UInt, ConstValue, UIntConst

LEMMA BoolType == ASSUME NEW p \in BOOLEAN PROVE Bool(p) \in ConstValue
  BY DEF Bool, ConstValue, BoolConst

LEMMA NoConstType == NoConst \in ConstValue
  BY DEF ConstValue

LEMMA ValueType ==
  ASSUME NEW v \in ConstValue
  PROVE  /\ v.is \in {"UInt", "Int", "Bool", "Err"} /\ v.n \in Int
         /\ v.is = "UInt" => v.n \in 0 .. Big - 1
         /\ v.is = "Err" => v = NoConst
  <1>1. CASE v \in UIntConst
    BY <1>1, Words DEF UIntConst
  <1>2. CASE v \in IntConst
    <2>1. v.is = "Int" /\ v.n \in -(Big \div 2) .. (Big - 1) \div 2  BY <1>2 DEF IntConst
    <2>2. Big \div 2 \in Int /\ (Big - 1) \div 2 \in Int  BY Words
    <2> QED  BY <2>1, <2>2
  <1>3. CASE v \in BoolConst
    BY <1>3 DEF BoolConst
  <1>4. CASE v = NoConst
    BY <1>4 DEF NoConst
  <1> QED  BY <1>1, <1>2, <1>3, <1>4 DEF ConstValue

\* Reading as an i128 gives an i128.
LEMMA SignedType == ASSUME NEW n \in Int PROVE [is |-> "Int", n |-> Signed(n)] \in ConstValue
  <1> DEFINE b == Big
             h == b \div 2
             m == (n + h) % b
  <1>1. b \in Nat /\ b > 0  BY Words
  <1> HIDE DEF b
  <1>2. h \in Int /\ 2 * h <= b /\ b - 1 <= 2 * h  BY <1>1
  <1>3. (b - 1) \div 2 \in Int /\ b - 2 <= 2 * ((b - 1) \div 2)  BY <1>1
  <1> DEFINE g == (b - 1) \div 2
  <1> HIDE DEF h, g
  <1>4. m \in 0 .. b - 1  BY <1>1, <1>2
  <1>5. m - h \in -h .. g
    <2> HIDE DEF m
    <2>1. b - 1 - h <= g  BY <1>1, <1>2, <1>3 DEF g
    <2> QED  BY <1>1, <1>2, <1>3, <1>4, <2>1 DEF g
  <1> QED  BY <1>5 DEF Signed, ConstValue, IntConst, m, h, b, g

LEMMA UnaryType ==
  ASSUME NEW op \in UnaryOp, NEW v \in ConstValue
  PROVE  eval_unary(op, v) \in ConstValue
  <1>1. v.n \in Int  BY ValueType
  <1>2. Signed(v.n) \in Int  
    <2>1. (v.n + Big \div 2) % Big \in Int
      <3> DEFINE b == Big
                 h == b \div 2
      <3>1. b \in Nat /\ b > 0  BY Words
      <3> HIDE DEF b
      <3>2. h \in Int  BY <3>1
      <3> HIDE DEF h
      <3>3. (v.n + h) % b \in Int  BY <1>1, <3>1, <3>2
      <3> QED  BY <3>3 DEF h, b
    <2>2. Big \div 2 \in Int  BY Words
    <2> QED  BY <2>1, <2>2 DEF Signed
  <1>3. [is |-> "Int", n |-> Signed(-Signed(v.n))] \in ConstValue
    <2>1. -Signed(v.n) \in Int  BY <1>2
    <2> QED  BY <2>1, SignedType
  <1>4. Bool(v.n = 0) \in ConstValue  BY BoolType
  <1> QED  BY <1>3, <1>4, NoConstType DEF eval_unary, UnaryOp

LEMMA Integers2Type ==
  ASSUME NEW op \in BinOp, NEW l \in 0 .. Big - 1, NEW r \in 0 .. Big - 1
  PROVE  Integers2(op, l, r) \in ConstValue
  <1>1. l \in Int /\ r \in Int /\ l \in Nat /\ r \in Nat  BY Words
  <1>2. UInt(l + r) \in ConstValue  BY <1>1, UIntType
  <1>3. UInt(l - r) \in ConstValue  BY <1>1, UIntType
  <1>4. UInt(l * r) \in ConstValue  BY <1>1, UIntType
  <1>5. r # 0 => UInt(l \div r) \in ConstValue
    <2>1. r # 0 => l \div r \in Int  BY <1>1
    <2> QED  BY <2>1, UIntType
  <1>6. r # 0 => UInt(l % r) \in ConstValue
    <2>1. r # 0 => l % r \in Int  BY <1>1
    <2> QED  BY <2>1, UIntType
  <1>7. l ^ r \in 0 .. Big - 1 => UInt(l ^ r) \in ConstValue
    <2>1. l ^ r \in 0 .. Big - 1 => l ^ r \in Int  OBVIOUS
    <2> QED  BY <2>1, UIntType
  <1>8. Bool(l = r) \in ConstValue /\ Bool(l < r) \in ConstValue
    BY DEF Bool, ConstValue, BoolConst
  <1>9. CASE op = "Add"  BY <1>9, <1>2 DEF Integers2
  <1>10. CASE op = "Sub"  BY <1>10, <1>3 DEF Integers2
  <1>11. CASE op = "Mul"  BY <1>11, <1>4 DEF Integers2
  <1>12. CASE op = "Div"  BY <1>12, <1>5, NoConstType DEF Integers2
  <1>13. CASE op = "Mod"  BY <1>13, <1>6, NoConstType DEF Integers2
  <1>14. CASE op = "Pow"  BY <1>14, <1>7, NoConstType DEF Integers2
  <1>15. CASE op \in {"Eq", "Lt"}  BY <1>15, <1>8 DEF Integers2
  <1>16. CASE op \in {"BitAnd", "Shl", "Shr", "And", "Or", "Implies", "Concat"}
    BY <1>16, NoConstType DEF Integers2
  <1> QED  BY <1>9, <1>10, <1>11, <1>12, <1>13, <1>14, <1>15, <1>16 DEF BinOp

LEMMA BinaryValue ==
  ASSUME NEW op \in BinOp, NEW l \in ConstValue, NEW r \in ConstValue
  PROVE  eval_binary(op, l, r) \in ConstValue
  <1>1. CASE l.is = "UInt" /\ r.is = "UInt"
    <2>1. Integers2(op, l.n, r.n) \in ConstValue  BY <1>1, ValueType, Integers2Type
    <2> QED  BY <1>1, <2>1 DEF eval_binary
  <1>2. CASE l.is = "Bool" /\ r.is = "Bool"
    <2>1. Logical2(op, l.n = 1, r.n = 1) \in ConstValue
      <3>1. Bool(l.n = 1 /\ r.n = 1) \in ConstValue /\ Bool(l.n = 1 \/ r.n = 1) \in ConstValue
        BY BoolType
      <3> QED  BY <3>1, NoConstType DEF Logical2
    <2> QED  BY <1>2, <2>1 DEF eval_binary
  <1>3. CASE ~(l.is = "UInt" /\ r.is = "UInt") /\ ~(l.is = "Bool" /\ r.is = "Bool")
    BY <1>3, NoConstType DEF eval_binary
  <1> QED  BY <1>1, <1>2, <1>3

LEMMA IfValue ==
  ASSUME NEW c \in ConstValue, NEW t \in ConstValue, NEW e \in ConstValue
  PROVE  eval_if(c, t, e) \in ConstValue
  BY NoConstType DEF eval_if


\* The shapes of a type.
LEMMA FlatShape ==
  ASSUME NEW t \in Flat
  PROVE  /\ t.n \in 0 .. Word - 1
         /\ t = [is |-> t.is, n |-> t.n]
         /\ t.is \in Vectors \union {"Fixed"} \union OneBit \union Nominal \union Meta
                       \union {"Void", "Error"}
         /\ t.is \notin Vectors \union {"Fixed"} => t.n = 0
         /\ t \in Ty
  <1>1. CASE t \in [is : Vectors \union {"Fixed"}, n : 0 .. Word - 1]
    BY <1>1 DEF Ty, Flat
  <1>2. CASE t \in [is : OneBit \union Nominal \union Meta \union {"Void", "Error"}, n : {0}]
    <2>1. t.n = 0 /\ t.is \in OneBit \union Nominal \union Meta \union {"Void", "Error"}
          /\ t = [is |-> t.is, n |-> t.n]
      BY <1>2
    <2>2. 0 \in 0 .. Word - 1  BY Words
    <2>3. t.is \notin Vectors \union {"Fixed"}
      BY <2>1 DEF Vectors, OneBit, Nominal, Meta
    <2> QED  BY <2>1, <2>2, <2>3 DEF Ty
  <1> QED  BY <1>1, <1>2 DEF Flat

LEMMA TypeShape ==
  ASSUME NEW t \in Ty
  PROVE  /\ t.n \in 0 .. Word - 1
         /\ \/ t \in Flat
            \/ t.is \in {"Array", "Memory"} /\ t.of \in Flat
            \/ t.is = "Direction" /\ t.n = 0 /\ t.of \in Flat
  <1>1. CASE t \in Flat
    BY <1>1, FlatShape
  <1>2. CASE t \in [is : {"Array", "Memory"}, n : 0 .. Word - 1, of : Flat]
    BY <1>2
  <1>3. CASE t \in [is : {"Direction"}, n : {0}, of : Flat]
    <2>1. t.is = "Direction" /\ t.n = 0 /\ t.of \in Flat  BY <1>3
    <2>2. 0 \in 0 .. Word - 1  BY Words
    <2> QED  BY <2>1, <2>2
  <1> QED  BY <1>1, <1>2, <1>3 DEF Ty

\* Only what is not flat has another type in it.
LEMMA FlatIs ==
  ASSUME NEW t \in Ty
  PROVE  t \in Flat <=> t.is \notin {"Array", "Memory", "Direction"}
  <1>1. t \in Flat => t.is \notin {"Array", "Memory", "Direction"}
    BY FlatShape DEF Vectors, OneBit, Nominal, Meta
  <1> QED  BY <1>1, TypeShape

LEMMA PlainType ==
  ASSUME NEW is \in OneBit \union Nominal \union Meta \union {"Void", "Error"}
  PROVE  Plain(is) \in Flat
  BY DEF Plain, Flat

LEMMA VectorType ==
  ASSUME NEW is \in Vectors, NEW n \in 0 .. Word - 1
  PROVE  Vector(is, n) \in Flat
  BY DEF Vector, Flat

LEMMA UnsizedType == Unsized \in Flat
  BY Words DEF Unsized, Plain, Flat, Vectors

\* Of the vectors, an unsized literal has the type without a width.
LEMMA UnsizedIs ==
  ASSUME NEW t \in Ty
  PROVE  t = Unsized <=> t.is = "UInt" /\ t.n = 0
  <1>1. t = Unsized => t.is = "UInt" /\ t.n = 0  BY DEF Unsized, Plain
  <1>2. ASSUME t.is = "UInt", t.n = 0  PROVE t = Unsized
    <2>1. t \in Flat  BY <1>2, FlatIs
    <2>2. t = [is |-> t.is, n |-> t.n]  BY <2>1, FlatShape
    <2> QED  BY <1>2, <2>2 DEF Unsized, Plain
  <1> QED  BY <1>1, <1>2

LEMMA ErrorIs ==
  ASSUME NEW t \in Ty
  PROVE  t = Error <=> t.is = "Error"
  <1>1. t = Error => t.is = "Error"  BY DEF Error, Plain
  <1>2. ASSUME t.is = "Error"  PROVE t = Error
    <2>1. t \in Flat  BY <1>2, FlatIs
    <2>2. t = [is |-> t.is, n |-> t.n] /\ t.n = 0  BY <1>2, <2>1, FlatShape DEF Vectors
    <2> QED  BY <1>2, <2>2 DEF Error, Plain
  <1> QED  BY <1>1, <1>2

LEMMA UnwrapType ==
  ASSUME NEW t \in Ty
  PROVE  unwrap_direction(t) \in Ty /\ unwrap_direction(t).is # "Direction"
  BY TypeShape, FlatShape, FlatIs DEF unwrap_direction

\* Widths.
LEMMA FlatWidthType ==
  ASSUME NEW t \in Flat
  PROVE  FlatWidth(t) \in 0 .. Word - 1
  BY FlatShape, Words DEF FlatWidth

LEMMA WordMod == ASSUME NEW n \in Nat PROVE n % Word \in 0 .. Word - 1 /\ (n < Word => n % Word = n)
  <1> DEFINE w == Word
  <1>1. w \in Nat /\ w > 0  BY Words
  <1> HIDE DEF w
  <1>2. n % w \in 0 .. w - 1 /\ (n < w => n % w = n)  BY <1>1
  <1> QED  BY <1>2 DEF w

LEMMA WidthType ==
  ASSUME NEW t \in Ty
  PROVE  /\ bit_width(t) \in 0 .. Word - 1 /\ Need(t) \in Nat
         /\ Need(t) < Word => bit_width(t) = Need(t)
         /\ t.is \notin {"Array", "Memory"} => Need(t) < Word
         /\ t.is \in Vectors \union {"Fixed"} => Need(t) = t.n
  <1>1. CASE t \in Flat
    <2>1. t.is \notin {"Array", "Memory", "Direction"}  BY <1>1, FlatIs
    <2>2. bit_width(t) = FlatWidth(t) /\ Need(t) = FlatWidth(t)
      BY <2>1 DEF bit_width, Need
    <2>3. t.is \in Vectors \union {"Fixed"} => FlatWidth(t) = t.n
      BY DEF FlatWidth, Vectors, OneBit
    <2> QED  BY <1>1, <2>2, <2>3, FlatWidthType, Words
  <1>2. CASE t.is \in {"Array", "Memory"} /\ t.of \in Flat
    <2> DEFINE m == FlatWidth(t.of) * t.n
    <2>1. m \in Nat
      <3> DEFINE f == FlatWidth(t.of)
      <3>1. f \in Nat  BY <1>2, FlatWidthType, Words
      <3>2. t.n \in Nat  BY TypeShape, Words
      <3> HIDE DEF f
      <3>3. f * t.n \in Nat  BY <3>1, <3>2
      <3> QED  BY <3>3 DEF f
    <2>2. bit_width(t) = m % Word /\ Need(t) = m  BY <1>2 DEF bit_width, Need
    <2> HIDE DEF m
    <2>3. t.is \notin Vectors \union {"Fixed"}  BY <1>2 DEF Vectors
    <2> QED  BY <1>2, <2>1, <2>2, <2>3, WordMod
  <1>3. CASE t.is = "Direction" /\ t.of \in Flat
    <2>1. bit_width(t) = FlatWidth(t.of) /\ Need(t) = FlatWidth(t.of)
      BY <1>3 DEF bit_width, Need
    <2>2. t.is \notin Vectors \union {"Fixed"}  BY <1>3 DEF Vectors
    <2> QED  BY <1>3, <2>1, <2>2, FlatWidthType, Words
  <1> QED  BY <1>1, <1>2, <1>3, TypeShape

\* A directed vector has the width of the vector.
LEMMA UnwrapNeed ==
  ASSUME NEW t \in Ty, unwrap_direction(t).is \in Vectors
  PROVE  Need(t) = unwrap_direction(t).n
  <1>1. CASE t.is = "Direction"
    <2>1. t.of \in Flat /\ t.of.is \in Vectors
      BY <1>1, TypeShape, FlatIs DEF unwrap_direction
    <2>2. Need(t) = FlatWidth(t.of)  BY <1>1 DEF bit_width, Need
    <2>3. FlatWidth(t.of) = t.of.n  BY <2>1 DEF FlatWidth, Vectors, OneBit
    <2> QED  BY <1>1, <2>2, <2>3 DEF unwrap_direction
  <1>2. CASE t.is # "Direction"
    BY <1>2, WidthType DEF unwrap_direction
  <1> QED  BY <1>1, <1>2

-----------------------------------------------------------------------------
(* Expressions. *)

Expr == [ty : Ty, val : ConstValue, from : Nat, need : Nat,
         fams : SUBSET {t.is : t \in Ty}, gaps : SUBSET Gaps]

\* What holds of an expression without an error in it, if all its parts are
\* typed: it has a type, which has the width that the language gives it unless
\* a width has wrapped; no bits only for a reason; and the family of what is
\* in it unless a gap has lost that.
Typed(t) == Innermost(t).is # "Error"

NeedKept(e) == "overflow" \notin e.gaps => e.need = Need(e.ty)

NoBitsExplained(e) == e.need = 0 => e.gaps \ {"first"} # {}

FamilyKept(e) ==
  e.gaps \subseteq {"unsized", "slice", "shift"} =>
    /\ e.fams \subseteq {unwrap_direction(e.ty).is}
    /\ e.ty = Unsized \/ e.ty.is \in Meta => e.fams = {}

Good(e) ==
  "untyped" \notin e.gaps =>
    Typed(e.ty) /\ NeedKept(e) /\ NoBitsExplained(e) /\ FamilyKept(e)

LEMMA TypedIs ==
  ASSUME NEW t \in Ty
  PROVE  (Typed(t) => t # Error) /\ (t \in Flat /\ t # Error => Typed(t))
  BY ErrorIs, FlatIs DEF Typed, Innermost, Error, Plain

LEMMA FamilyIs == ASSUME NEW t \in Ty PROVE t.is \in {u.is : u \in Ty}
  OBVIOUS

\* Bool is a type of its own.
LEMMA BoolIs ==
  /\ Plain("Bool") \in Ty /\ Plain("Bool") # Error /\ Typed(Plain("Bool")) /\ Plain("Bool") # Unsized
  /\ Plain("Bool").is = "Bool" /\ Plain("Bool").is \notin Meta
  /\ unwrap_direction(Plain("Bool")) = Plain("Bool")
  /\ Need(Plain("Bool")) = 1
  /\ "Bool" \in {u.is : u \in Ty}
  <1>1. Plain("Bool") \in Ty  BY PlainType, FlatShape DEF OneBit
  <1>2. Plain("Bool").is = "Bool"  BY DEF Plain
  <1>3. Need(Plain("Bool")) = 1  BY <1>2 DEF Need, bit_width, FlatWidth, OneBit
  <1>4. "Bool" \in {u.is : u \in Ty}  BY <1>1, <1>2
  <1>5. Typed(Plain("Bool"))  BY <1>2 DEF Typed, Innermost
  <1> QED  BY <1>1, <1>2, <1>3, <1>4, <1>5 DEF unwrap_direction, Meta, Error, Unsized, Plain

\* A leaf is what its type says.
LEMMA LeafGood ==
  ASSUME NEW t \in Ty, NEW v \in ConstValue, size \in Nat
  PROVE  Leaf(t, v) \in Expr /\ Good(Leaf(t, v))
  <1> DEFINE e == Leaf(t, v)
  <1>1. /\ e.ty = t /\ e.need = Need(t) /\ e.fams = Families(t) /\ e.gaps = TypeGaps(t)
    BY DEF Leaf
  <1>2. Need(t) \in Nat  BY WidthType
  <1>3. unwrap_direction(t) \in Ty  BY UnwrapType
  <1>4. Families(t) \subseteq {unwrap_direction(t).is}
        /\ (t = Unsized \/ t.is \in Meta => Families(t) = {})
    BY DEF Families
  <1>5. Families(t) \in SUBSET {u.is : u \in Ty}
    BY <1>3, <1>4, FamilyIs
  <1>6. TypeGaps(t) \in SUBSET Gaps  BY DEF TypeGaps, Gaps
  <1>7. e \in Expr
    <2>1. size + 1 \in Nat  OBVIOUS
    <2> QED  BY <1>2, <1>5, <1>6, <2>1 DEF Expr, Leaf
  <1>8. ASSUME "untyped" \notin TypeGaps(t)  PROVE Typed(t)
    BY <1>8 DEF TypeGaps, Typed
  <1>9. Need(t) = 0 => TypeGaps(t) \ {"first"} # {}
    <2>1. Need(t) = 0 => "unsized" \in TypeGaps(t)  BY DEF TypeGaps
    <2> QED  BY <2>1
  <1> HIDE DEF e
  <1>10. Good(e)
    BY <1>1, <1>4, <1>8, <1>9 DEF Good, NeedKept, NoBitsExplained, FamilyKept
  <1> QED  BY <1>7, <1>10 DEF e

\* A wrapped expression is the same, or a Bool.
LEMMA GoodFrom ==
  ASSUME NEW e \in Expr, Good(e), NEW f \in Expr, f.gaps = e.gaps,
         \/ f.ty = e.ty /\ f.need = e.need /\ f.fams = e.fams
         \/ f.ty = Plain("Bool") /\ f.need = 1 /\ f.fams = {"Bool"}
  PROVE  Good(f)
  <1>1. CASE f.ty = e.ty /\ f.need = e.need /\ f.fams = e.fams
    BY <1>1 DEF Good, NeedKept, NoBitsExplained, FamilyKept
  <1>2. CASE f.ty = Plain("Bool") /\ f.need = 1 /\ f.fams = {"Bool"}
    BY <1>2, BoolIs DEF Good, NeedKept, NoBitsExplained, FamilyKept
  <1> QED  BY <1>1, <1>2

WrapOf(kind, e) ==
  [e EXCEPT !.val = NoConst,
            !.ty = IF kind = "eventually" THEN Plain("Bool") ELSE @,
            !.need = IF kind = "eventually" THEN 1 ELSE @,
            !.fams = IF kind = "eventually" THEN {"Bool"} ELSE @]

LEMMA WrapIs ==
  ASSUME NEW kind, NEW e \in Expr
  PROVE  WrapOf(kind, e) \in Expr /\ WrapOf(kind, e).from = e.from
         /\ WrapOf(kind, e).gaps = e.gaps
  BY BoolIs, NoConstType DEF WrapOf, Expr

LEMMA WrapGood ==
  ASSUME NEW kind, NEW e \in Expr, Good(e)
  PROVE  Good(WrapOf(kind, e))
  <1> DEFINE f == WrapOf(kind, e)
  <1>1. f \in Expr /\ f.gaps = e.gaps  BY WrapIs
  <1>2. CASE kind = "eventually"
    <2>1. f.ty = Plain("Bool") /\ f.need = 1 /\ f.fams = {"Bool"}
      BY <1>2 DEF WrapOf, Expr
    <2> HIDE DEF f
    <2>2. Good(f)  BY <1>1, <2>1, GoodFrom
    <2> QED  BY <1>1, <2>2 DEF f
  <1>3. CASE kind # "eventually"
    <2>1. f.ty = e.ty /\ f.need = e.need /\ f.fams = e.fams
      BY <1>3 DEF WrapOf, Expr
    <2> HIDE DEF f
    <2>2. Good(f)  BY <1>1, <2>1, GoodFrom
    <2> QED  BY <1>1, <2>2 DEF f
  <1> QED  BY <1>2, <1>3

UnaryOf(op, e) ==
  LET not == op = "LogicalNot" /\ e.ty # Error
  IN  [e EXCEPT !.val = eval_unary(op, @),
                !.ty = IF not THEN Plain("Bool") ELSE @,
                !.need = IF not THEN 1 ELSE @,
                !.fams = IF not THEN {"Bool"} ELSE @]

LEMMA UnaryIs ==
  ASSUME NEW op \in UnaryOp, NEW e \in Expr
  PROVE  UnaryOf(op, e) \in Expr /\ UnaryOf(op, e).from = e.from
         /\ UnaryOf(op, e).gaps = e.gaps
  <1>1. eval_unary(op, e.val) \in ConstValue  BY UnaryType DEF Expr
  <1> QED  BY <1>1, BoolIs DEF UnaryOf, Expr

LEMMA UnaryGood ==
  ASSUME NEW op \in UnaryOp, NEW e \in Expr, Good(e)
  PROVE  Good(UnaryOf(op, e))
  <1> DEFINE f == UnaryOf(op, e)
             not == op = "LogicalNot" /\ e.ty # Error
  <1>1. f \in Expr /\ f.gaps = e.gaps  BY UnaryIs
  <1>2. CASE not
    <2>1. f.ty = Plain("Bool") /\ f.need = 1 /\ f.fams = {"Bool"}
      BY <1>2 DEF UnaryOf, Expr
    <2> HIDE DEF f
    <2>2. Good(f)  BY <1>1, <2>1, GoodFrom
    <2> QED  BY <1>1, <2>2 DEF f
  <1>3. CASE ~not
    <2>1. f.ty = e.ty /\ f.need = e.need /\ f.fams = e.fams
      BY <1>3 DEF UnaryOf, Expr
    <2> HIDE DEF f
    <2>2. Good(f)  BY <1>1, <2>1, GoodFrom
    <2> QED  BY <1>1, <2>2 DEF f
  <1> QED  BY <1>2, <1>3

\* Arithmetic keeps the family of the left operand.
LEMMA SameKind ==
  ASSUME NEW t \in Ty, NEW w \in 0 .. Word - 1
  PROVE  /\ same_kind_with_width(t, w) \in Flat
         /\ same_kind_with_width(t, w).n = w
         /\ same_kind_with_width(t, w).is = IF t.is \in Vectors THEN t.is ELSE "UInt"
  <1> DEFINE k == IF t.is \in Vectors THEN t.is ELSE "UInt"
  <1>1. k \in Vectors  BY DEF Vectors
  <1>2. same_kind_with_width(t, w) = Vector(k, w)  BY DEF same_kind_with_width
  <1> HIDE DEF k
  <1>3. Vector(k, w) \in Flat  BY <1>1, VectorType
  <1>4. Vector(k, w).n = w /\ Vector(k, w).is = k  BY DEF Vector
  <1> QED  BY <1>2, <1>3, <1>4 DEF k

\* A vector of the width that the language gives it is such an expression.
LEMMA GoodVector ==
  ASSUME NEW e \in Expr, e.ty \in Flat, e.ty.is \in Vectors,
         "overflow" \notin e.gaps => e.need = e.ty.n,
         NoBitsExplained(e),
         e.gaps \subseteq {"unsized", "slice", "shift"} =>
           e.fams \subseteq {e.ty.is} /\ (e.ty.is = "UInt" /\ e.ty.n = 0 => e.fams = {})
  PROVE  Good(e)
  <1>1. e.ty \in Ty  BY FlatShape
  <1>2. Typed(e.ty)  BY <1>1, ErrorIs, TypedIs DEF Vectors
  <1>3. Need(e.ty) = e.ty.n  BY <1>1, WidthType
  <1>4. e.ty.is # "Direction"  BY DEF Vectors
  <1>5. unwrap_direction(e.ty) = e.ty  BY <1>4 DEF unwrap_direction
  <1>6. e.ty.is \notin Meta  BY DEF Vectors, Meta
  <1>7. e.ty = Unsized <=> e.ty.is = "UInt" /\ e.ty.n = 0  BY <1>1, UnsizedIs
  <1>8. NeedKept(e)  BY <1>3 DEF NeedKept
  <1>9. FamilyKept(e)  BY <1>5, <1>6, <1>7 DEF FamilyKept
  <1> QED  BY <1>2, <1>8, <1>9 DEF Good

BinaryOf(op, l, r) ==
  [ty |-> IF Error \notin {l.ty, r.ty} THEN BinaryType(op, l, r) ELSE Error,
   val |-> eval_binary(op, l.val, r.val),
   from |-> l.from,
   need |-> BinaryNeed(op, l, r),
   fams |-> BinaryFamilies(op, l, r),
   gaps |-> BinaryGaps(op, l, r) \union Overflow(BinaryNeed(op, l, r))]

BinaryErrorsOf(op, l, r) ==
  IF Error \notin {l.ty, r.ty} THEN BinaryErrors(op, l, r) ELSE {}

Logic == {"Eq", "Lt", "And", "Or", "Implies"}

\* Widths and their sums are words.
LEMMA SumWidths ==
  ASSUME NEW s \in Ty, NEW t \in Ty
  PROVE  /\ max_width(s, t) \in 0 .. Word - 1
         /\ sum_width(s, t) \in 0 .. Word - 1
  <1>1. bit_width(s) \in 0 .. Word - 1 /\ bit_width(t) \in 0 .. Word - 1  BY WidthType
  <1>2. max_width(s, t) \in 0 .. Word - 1  BY <1>1 DEF max_width
  <1>3. bit_width(s) + bit_width(t) \in Nat  BY <1>1, Words
  <1>4. sum_width(s, t) \in 0 .. Word - 1  BY <1>3, WordMod DEF sum_width
  <1> QED  BY <1>2, <1>4

LEMMA ShiftWidth ==
  ASSUME NEW t \in Ty, NEW v \in ConstValue, v.is = "UInt"
  PROVE  Amount(v) \in Nat /\ (bit_width(t) + Amount(v)) % Word \in 0 .. Word - 1 /\ v.n \in Nat
  <1>1. bit_width(t) \in 0 .. Word - 1  BY WidthType
  <1>2. v.n \in 0 .. Big - 1  BY ValueType
  <1>3. v.n \in Nat /\ Amount(v) \in Nat  BY <1>2, Words DEF Amount
  <1>4. bit_width(t) + Amount(v) \in Nat  BY <1>1, <1>3, Words
  <1> QED  BY <1>3, <1>4, WordMod

LEMMA BinaryTypeType ==
  ASSUME NEW op \in BinOp, NEW l \in Expr, NEW r \in Expr
  PROVE  BinaryType(op, l, r) \in Ty
  <1>1. l.ty \in Ty /\ r.ty \in Ty /\ r.val \in ConstValue  BY DEF Expr
  <1>2. CASE op \in {"Add", "Sub", "BitAnd"}
    <2>1. same_kind_with_width(l.ty, max_width(l.ty, r.ty)) \in Ty
      BY <1>1, SumWidths, SameKind, FlatShape
    <2> QED  BY <1>2, <2>1 DEF BinaryType
  <1>3. CASE op = "Mul"
    <2>1. same_kind_with_width(l.ty, sum_width(l.ty, r.ty)) \in Ty
      BY <1>1, SumWidths, SameKind, FlatShape
    <2> QED  BY <1>3, <2>1 DEF BinaryType
  <1>4. CASE op = "Pow"
    <2>1. Unsized \in Ty  BY UnsizedType, FlatShape
    <2> QED  BY <1>4, <2>1 DEF BinaryType
  <1>5. CASE op = "Shl"
    <2>1. r.val.is = "UInt" =>
            same_kind_with_width(l.ty, (bit_width(l.ty) + Amount(r.val)) % Word) \in Ty
      BY <1>1, ShiftWidth, SameKind, FlatShape
    <2> QED  BY <1>1, <1>5, <2>1 DEF BinaryType
  <1>6. CASE op \in {"Div", "Mod", "Shr"}
    BY <1>1, <1>6 DEF BinaryType
  <1>7. CASE op \in Logic
    BY <1>7, BoolIs DEF BinaryType, Logic
  <1>8. CASE op = "Concat"
    <2>1. Vector("Bits", sum_width(l.ty, r.ty)) \in Ty
      BY <1>1, SumWidths, VectorType, FlatShape DEF Vectors
    <2> QED  BY <1>8, <2>1 DEF BinaryType
  <1> QED  BY <1>2, <1>3, <1>4, <1>5, <1>6, <1>7, <1>8 DEF BinOp, Logic

LEMMA BinaryNeedType ==
  ASSUME NEW op \in BinOp, NEW l \in Expr, NEW r \in Expr
  PROVE  BinaryNeed(op, l, r) \in Nat
  <1>1. l.need \in Nat /\ r.need \in Nat /\ r.val \in ConstValue  BY DEF Expr
  <1>2. r.val.is = "UInt" => r.val.n \in Nat
    BY <1>1, ValueType, Words
  <1>3. CASE op \in {"Add", "Sub", "BitAnd"}  BY <1>1, <1>3 DEF BinaryNeed
  <1>4. CASE op \in {"Mul", "Concat"}  BY <1>1, <1>4 DEF BinaryNeed
  <1>5. CASE op = "Shl"  BY <1>1, <1>2, <1>5 DEF BinaryNeed
  <1>6. CASE op \in {"Div", "Mod", "Shr"}  BY <1>1, <1>6 DEF BinaryNeed
  <1>7. CASE op = "Pow"  BY <1>7 DEF BinaryNeed
  <1>8. CASE op \in Logic  BY <1>8 DEF BinaryNeed, Logic
  <1> QED  BY <1>3, <1>4, <1>5, <1>6, <1>7, <1>8 DEF BinOp, Logic

\* The families and gaps of an operation, by kind of operator.
LEMMA BinaryFamiliesAre ==
  ASSUME NEW op \in BinOp, NEW l, NEW r
  PROVE  /\ op \in Arithmetic => BinaryFamilies(op, l, r) = l.fams \union r.fams
         /\ op \in {"Shl", "Shr", "Pow"} => BinaryFamilies(op, l, r) = l.fams
         /\ op = "Concat" => BinaryFamilies(op, l, r) = {"Bits"}
         /\ op \in Logic => BinaryFamilies(op, l, r) = {"Bool"}
  BY DEF BinaryFamilies, Arithmetic, Logic, BinOp

LEMMA BinaryGapsAre ==
  ASSUME NEW op \in BinOp, NEW l \in Expr, NEW r \in Expr
  PROVE  /\ BinaryGaps(op, l, r) \subseteq Gaps
         /\ "untyped" \in l.gaps \union r.gaps => "untyped" \in BinaryGaps(op, l, r)
         /\ op \notin Logic => l.gaps \subseteq BinaryGaps(op, l, r)
         /\ op \notin Logic \union {"Shl"} => r.gaps \subseteq BinaryGaps(op, l, r)
         /\ op = "Pow" => "pow" \in BinaryGaps(op, l, r)
         /\ op = "Shl" /\ r.val.is = "UInt" /\ l.ty.is \notin Vectors
              => "retyped" \in BinaryGaps(op, l, r)
         /\ op \in Arithmetic =>
              /\ l.ty = Unsized /\ r.ty # Unsized => "first" \in BinaryGaps(op, l, r)
              /\ l.ty.is = "Fixed" => "retyped" \in BinaryGaps(op, l, r)
  <1>1. l.gaps \subseteq Gaps /\ r.gaps \subseteq Gaps  BY DEF Expr
  <1>2. {"pow", "untyped", "shift", "retyped", "first"} \subseteq Gaps  BY DEF Gaps
  <1>3. CASE op \in Logic
    <2>1. BinaryGaps(op, l, r) = (l.gaps \union r.gaps) \intersect {"untyped"}
      BY <1>3 DEF BinaryGaps, Arithmetic, Logic
    <2>2. op \notin Arithmetic /\ op # "Pow" /\ op # "Shl"  BY <1>3 DEF Logic, Arithmetic
    <2> QED  BY <1>1, <1>3, <2>1, <2>2
  <1>4. CASE op = "Pow"
    <2>1. BinaryGaps(op, l, r) = l.gaps \union r.gaps \union {"pow"}
      BY <1>4 DEF BinaryGaps, Arithmetic
    <2>2. op \notin Arithmetic /\ op # "Shl"  BY <1>4 DEF Arithmetic
    <2> QED  BY <1>1, <1>2, <1>4, <2>1, <2>2
  <1>5. CASE op = "Shl"
    <2>1. BinaryGaps(op, l, r) =
            l.gaps \union (r.gaps \intersect {"untyped"})
             \union (IF r.ty.is \in Meta THEN {"shift"} ELSE {})
             \union (IF r.val.is = "UInt" /\ l.ty.is \notin Vectors THEN {"retyped"} ELSE {})
      BY <1>5 DEF BinaryGaps, Arithmetic
    <2>2. op \notin Arithmetic /\ op # "Pow"  BY <1>5 DEF Arithmetic
    <2> QED  BY <1>1, <1>2, <1>5, <2>1, <2>2
  <1>6. CASE op \in Arithmetic
    <2>1. BinaryGaps(op, l, r) =
             l.gaps \union r.gaps
                  \union (IF l.ty = Unsized /\ r.ty # Unsized THEN {"first"} ELSE {})
                  \union (IF l.ty.is = "Fixed" THEN {"retyped"} ELSE {})
      BY <1>6 DEF BinaryGaps, Arithmetic
    <2>2. op \notin Logic /\ op # "Pow" /\ op # "Shl"  BY <1>6 DEF Arithmetic, Logic
    <2> QED  BY <1>1, <1>2, <1>6, <2>1, <2>2
  <1>7. CASE op \in {"Shr", "Concat"}
    <2>1. BinaryGaps(op, l, r) = l.gaps \union r.gaps
      BY <1>7 DEF BinaryGaps, Arithmetic
    <2>2. op \notin Logic /\ op # "Pow" /\ op # "Shl" /\ op \notin Arithmetic
      BY <1>7 DEF Arithmetic, Logic
    <2> QED  BY <1>1, <1>7, <2>1, <2>2
  <1> QED  BY <1>3, <1>4, <1>5, <1>6, <1>7 DEF BinOp, Logic, Arithmetic

LEMMA BinaryIsExpr ==
  ASSUME NEW op \in BinOp, NEW l \in Expr, NEW r \in Expr
  PROVE  BinaryOf(op, l, r) \in Expr
  <1>1. BinaryType(op, l, r) \in Ty  BY BinaryTypeType
  <1>2. Error \in Ty  BY PlainType, FlatShape DEF Error
  <1>3. eval_binary(op, l.val, r.val) \in ConstValue  BY BinaryValue DEF Expr
  <1>4. BinaryNeed(op, l, r) \in Nat  BY BinaryNeedType
  <1>5. BinaryFamilies(op, l, r) \in SUBSET {u.is : u \in Ty}
    <2>1. l.fams \in SUBSET {u.is : u \in Ty} /\ r.fams \in SUBSET {u.is : u \in Ty}
      BY DEF Expr
    <2>2. Vector("Bits", 0) \in Ty  BY VectorType, FlatShape, Words DEF Vectors
    <2>3. "Bits" \in {u.is : u \in Ty}  BY <2>2 DEF Vector
    <2>4. op \in Arithmetic \union {"Shl", "Shr", "Pow", "Concat"} \union Logic
      BY DEF BinOp, Arithmetic, Logic
    <2> QED  BY <2>1, <2>3, <2>4, BoolIs, BinaryFamiliesAre
  <1>6. BinaryGaps(op, l, r) \union Overflow(BinaryNeed(op, l, r)) \in SUBSET Gaps
    <2>1. Overflow(BinaryNeed(op, l, r)) \subseteq Gaps  BY DEF Overflow, Gaps
    <2> QED  BY <2>1, BinaryGapsAre
  <1>7. l.from \in Nat  BY DEF Expr
  <1> DEFINE ty == IF Error \notin {l.ty, r.ty} THEN BinaryType(op, l, r) ELSE Error
  <1>8. ty \in Ty  BY <1>1, <1>2
  <1>9. BinaryOf(op, l, r) =
         [ty |-> ty, val |-> eval_binary(op, l.val, r.val), from |-> l.from,
          need |-> BinaryNeed(op, l, r), fams |-> BinaryFamilies(op, l, r),
          gaps |-> BinaryGaps(op, l, r) \union Overflow(BinaryNeed(op, l, r))]
    BY DEF BinaryOf
  <1> HIDE DEF ty
  <1> QED  BY <1>3, <1>4, <1>5, <1>6, <1>7, <1>8, <1>9 DEF Expr

\* Two numbers, of one family unless one is an unsized literal.
LEMMA ArithmeticOperands ==
  ASSUME NEW l \in Ty, NEW r \in Ty, check_arithmetic_operands(l, r) = {}
  PROVE  /\ l.is \in Vectors \union {"Fixed"} /\ r.is \in Vectors \union {"Fixed"}
         /\ (l.is = r.is /\ l.is \in Vectors) \/ l = Unsized \/ r = Unsized
  BY DEF check_arithmetic_operands, WhenNot, is_numeric

\* A sum of widths that is no wrapped width.
LEMMA SumOfNeeds ==
  ASSUME NEW s \in Ty, NEW t \in Ty, Need(s) + Need(t) < Word
  PROVE  sum_width(s, t) = Need(s) + Need(t)
  <1>1. Need(s) \in Nat /\ Need(t) \in Nat  BY WidthType
  <1>2. Need(s) < Word /\ Need(t) < Word  BY <1>1, Words
  <1>3. bit_width(s) = Need(s) /\ bit_width(t) = Need(t)  BY <1>2, WidthType
  <1>4. Need(s) + Need(t) \in Nat  BY <1>1
  <1> QED  BY <1>3, <1>4, WordMod DEF sum_width

LEMMA BinaryGood ==
  ASSUME NEW op \in BinOp, NEW l \in Expr, NEW r \in Expr, Good(l), Good(r),
         BinaryErrorsOf(op, l, r) = {}
  PROVE  Good(BinaryOf(op, l, r))
  <1> DEFINE b == BinaryOf(op, l, r)
             need == BinaryNeed(op, l, r)
             own == BinaryGaps(op, l, r)
  <1>b. b \in Expr  BY BinaryIsExpr
  <1>f. /\ b.ty = IF Error \notin {l.ty, r.ty} THEN BinaryType(op, l, r) ELSE Error
        /\ b.need = need
        /\ b.fams = BinaryFamilies(op, l, r)
        /\ b.gaps = own \union Overflow(need)
    BY DEF BinaryOf
  <1> HIDE DEF b
  <1> SUFFICES ASSUME "untyped" \notin b.gaps  PROVE Good(b)
    BY DEF Good, b
  <1>1. /\ l.ty \in Ty /\ r.ty \in Ty /\ r.val \in ConstValue
        /\ l.need \in Nat /\ r.need \in Nat
    BY DEF Expr
  <1>2. need \in Nat  BY BinaryNeedType
  <1> HIDE DEF need, own
  <1>g. own \subseteq b.gaps /\ ("overflow" \notin b.gaps => need < Word)
    <2>1. need < Word \/ "overflow" \in Overflow(need)  BY DEF Overflow
    <2> QED  BY <1>f, <2>1
  <1>3. "untyped" \notin l.gaps /\ "untyped" \notin r.gaps
    BY <1>g, BinaryGapsAre DEF own
  <1>t. Typed(l.ty) /\ Typed(r.ty)  BY <1>3 DEF Good
  <1>4. /\ l.ty # Error /\ NeedKept(l) /\ NoBitsExplained(l) /\ FamilyKept(l)
        /\ r.ty # Error /\ NeedKept(r) /\ NoBitsExplained(r) /\ FamilyKept(r)
    BY <1>1, <1>3, TypedIs DEF Good
  <1>5. b.ty = BinaryType(op, l, r) /\ BinaryErrors(op, l, r) = {}
    BY <1>f, <1>4 DEF BinaryErrorsOf
  <1>6. op \notin Logic => l.gaps \subseteq b.gaps
    BY <1>g, BinaryGapsAre DEF own
  <1>7. op \notin Logic \union {"Shl"} => r.gaps \subseteq b.gaps
    BY <1>g, BinaryGapsAre DEF own
  <1>8. l.need = 0 /\ op \notin Logic => b.gaps \ {"first"} # {}
    BY <1>4, <1>6 DEF NoBitsExplained
  <1>9. bit_width(l.ty) \in 0 .. Word - 1 /\ bit_width(r.ty) \in 0 .. Word - 1
    BY <1>1, WidthType
  \* Arithmetic, of which Add, Mul and Div stand for the ways to the width.
  <1>10. CASE op \in Arithmetic
    <2>1. op \notin Logic \union {"Shl"} /\ op \in BinOp  BY <1>10 DEF Arithmetic, Logic
    <2>2. check_arithmetic_operands(l.ty, r.ty) = {}
      BY <1>5, <1>10 DEF BinaryErrors, Arithmetic
    <2>3. /\ l.ty.is \in Vectors \union {"Fixed"} /\ r.ty.is \in Vectors \union {"Fixed"}
          /\ \/ l.ty.is = r.ty.is /\ l.ty.is \in Vectors
             \/ l.ty = Unsized \/ r.ty = Unsized
      BY <1>1, <2>2, ArithmeticOperands
    <2>4. /\ Need(l.ty) = l.ty.n /\ Need(r.ty) = r.ty.n
          /\ bit_width(l.ty) = l.ty.n /\ bit_width(r.ty) = r.ty.n
          /\ l.ty.n \in 0 .. Word - 1 /\ r.ty.n \in 0 .. Word - 1
      <3>1. Need(l.ty) = l.ty.n /\ Need(r.ty) = r.ty.n  BY <1>1, <2>3, WidthType
      <3>2. l.ty.n \in 0 .. Word - 1 /\ r.ty.n \in 0 .. Word - 1  BY <1>1, TypeShape
      <3>3. l.ty.n < Word /\ r.ty.n < Word  BY <3>2, Words
      <3> QED  BY <1>1, <3>1, <3>2, <3>3, WidthType
    <2>5. "overflow" \notin b.gaps => l.need = l.ty.n /\ r.need = r.ty.n /\ need < Word
      BY <1>4, <1>6, <1>7, <1>g, <2>1, <2>4 DEF NeedKept
    \* Its families are those of the left operand.
    <2>9. ASSUME b.gaps \subseteq {"unsized", "slice", "shift"}
          PROVE  /\ l.ty.is \in Vectors /\ b.fams \subseteq {l.ty.is}
                 /\ l.ty = Unsized => b.fams = {}
      <3>1. l.gaps \subseteq {"unsized", "slice", "shift"}
            /\ r.gaps \subseteq {"unsized", "slice", "shift"}
        BY <1>6, <1>7, <2>1, <2>9
      <3>2. b.fams = l.fams \union r.fams  BY <1>10, <1>f, BinaryFamiliesAre
      <3>3. l.ty.is # "Fixed" /\ (l.ty = Unsized => r.ty = Unsized)
        <4>1. "retyped" \notin b.gaps /\ "first" \notin b.gaps  BY <2>9
        <4> QED  BY <1>10, <1>g, <4>1, BinaryGapsAre DEF own
      <3>4. l.ty.is \in Vectors  BY <2>3, <3>3
      <3>5. unwrap_direction(l.ty) = l.ty
        BY <3>4 DEF unwrap_direction, Vectors
      <3>6. l.fams \subseteq {l.ty.is} /\ (l.ty = Unsized => l.fams = {})
        BY <1>4, <3>1, <3>5 DEF FamilyKept
      <3>7. r.fams \subseteq {l.ty.is} /\ (l.ty = Unsized => r.fams = {})
        <4>1. CASE r.ty = Unsized
          <5>1. r.fams = {}  BY <1>4, <3>1, <4>1 DEF FamilyKept
          <5> QED  BY <5>1
        <4>2. CASE r.ty # Unsized
          <5>1. l.ty.is = r.ty.is  BY <2>3, <3>3, <4>2
          <5>2. unwrap_direction(r.ty) = r.ty
            BY <3>4, <5>1 DEF unwrap_direction, Vectors
          <5>3. r.fams \subseteq {r.ty.is}  BY <1>4, <3>1, <5>2 DEF FamilyKept
          <5> QED  BY <3>3, <4>2, <5>1, <5>3
        <4> QED  BY <4>1, <4>2
      <3> QED  BY <3>2, <3>4, <3>6, <3>7
    \* Its width, and the one that the language gives it.
    <2>6. CASE op \in {"Add", "Sub", "BitAnd"}
      <3>1. b.ty = same_kind_with_width(l.ty, max_width(l.ty, r.ty))
        BY <1>5, <2>6 DEF BinaryType
      <3>2. need = IF l.need >= r.need THEN l.need ELSE r.need
        BY <2>6 DEF BinaryNeed, need
      <3>3. max_width(l.ty, r.ty) = IF l.ty.n >= r.ty.n THEN l.ty.n ELSE r.ty.n
        BY <2>4 DEF max_width
      <3>4. /\ b.ty \in Flat /\ b.ty.n = max_width(l.ty, r.ty)
            /\ b.ty.is = IF l.ty.is \in Vectors THEN l.ty.is ELSE "UInt"
        BY <1>1, <3>1, SumWidths, SameKind
      <3>5. "overflow" \notin b.gaps => b.need = b.ty.n
        BY <1>f, <2>5, <3>2, <3>3, <3>4
      <3>6. NoBitsExplained(b)
        <4>1. b.need = 0 => l.need = 0  BY <1>1, <1>f, <3>2
        <4> QED  BY <1>8, <2>1, <4>1 DEF NoBitsExplained
      <3>7. b.ty.n = 0 => l.ty.n = 0 /\ r.ty.n = 0  BY <2>4, <3>3, <3>4
      <3>8. b.ty.is \in Vectors  BY <3>4 DEF Vectors
      <3>9. b.gaps \subseteq {"unsized", "slice", "shift"} =>
              b.fams \subseteq {b.ty.is} /\ (b.ty.is = "UInt" /\ b.ty.n = 0 => b.fams = {})
        BY <1>1, <2>9, <3>4, <3>7, UnsizedIs
      <3> QED  BY <1>b, <3>4, <3>5, <3>6, <3>8, <3>9, GoodVector
    <2>7. CASE op = "Mul"
      <3>1. b.ty = same_kind_with_width(l.ty, sum_width(l.ty, r.ty))
        BY <1>5, <2>7 DEF BinaryType
      <3>2. need = l.need + r.need  BY <2>7 DEF BinaryNeed, need
      <3>4. /\ b.ty \in Flat /\ b.ty.n = sum_width(l.ty, r.ty)
            /\ b.ty.is = IF l.ty.is \in Vectors THEN l.ty.is ELSE "UInt"
        BY <1>1, <3>1, SumWidths, SameKind
      <3>3. "overflow" \notin b.gaps => sum_width(l.ty, r.ty) = l.ty.n + r.ty.n
        BY <1>1, <2>4, <2>5, <3>2, SumOfNeeds
      <3>5. "overflow" \notin b.gaps => b.need = b.ty.n
        BY <1>f, <2>5, <3>2, <3>3, <3>4
      <3>6. NoBitsExplained(b)
        <4>1. b.need = 0 => l.need = 0  BY <1>1, <1>f, <3>2
        <4> QED  BY <1>8, <2>1, <4>1 DEF NoBitsExplained
      <3>7. b.ty.n = 0 /\ "overflow" \notin b.gaps => l.ty.n = 0 /\ r.ty.n = 0
        BY <2>4, <3>3, <3>4
      <3>8. b.ty.is \in Vectors  BY <3>4 DEF Vectors
      <3>9. b.gaps \subseteq {"unsized", "slice", "shift"} =>
              b.fams \subseteq {b.ty.is} /\ (b.ty.is = "UInt" /\ b.ty.n = 0 => b.fams = {})
        BY <1>1, <2>9, <3>4, <3>7, UnsizedIs
      <3> QED  BY <1>b, <3>4, <3>5, <3>6, <3>8, <3>9, GoodVector
    <2>8. CASE op \in {"Div", "Mod"}
      <3>1. b.ty = l.ty  BY <1>5, <2>8 DEF BinaryType
      <3>2. b.need = l.need  BY <1>f, <2>8 DEF BinaryNeed, need
      <3>3. NeedKept(b)  BY <1>4, <1>6, <2>1, <3>1, <3>2 DEF NeedKept
      <3>4. NoBitsExplained(b)  BY <1>8, <2>1, <3>2 DEF NoBitsExplained
      <3>5. FamilyKept(b)
        <4>1. l.ty.is \in Vectors => unwrap_direction(l.ty) = l.ty /\ l.ty.is \notin Meta
          BY DEF unwrap_direction, Vectors, Meta
        <4> QED  BY <2>9, <3>1, <4>1 DEF FamilyKept
      <3>6. Typed(b.ty)  BY <1>t, <3>1
      <3> QED  BY <3>3, <3>4, <3>5, <3>6 DEF Good
    <2> QED  BY <1>10, <2>6, <2>7, <2>8 DEF Arithmetic
  <1>11. CASE op = "Pow"
    <2>1. b.ty = Unsized  BY <1>5, <1>11 DEF BinaryType
    <2>2. b.need = 0  BY <1>f, <1>11 DEF BinaryNeed, need
    <2>3. "pow" \in b.gaps  BY <1>11, <1>g, BinaryGapsAre DEF own
    <2>4. Unsized \in Ty /\ Unsized.n = 0 /\ Unsized.is = "UInt"
      BY UnsizedType, FlatShape DEF Unsized, Plain
    <2>5. Need(Unsized) = 0  BY <2>4, WidthType DEF Vectors
    <2>6. NeedKept(b)  BY <2>1, <2>2, <2>5 DEF NeedKept
    <2>7. NoBitsExplained(b)  BY <2>3 DEF NoBitsExplained
    <2>8. FamilyKept(b)  BY <2>3 DEF FamilyKept
    <2>9. Typed(b.ty)  BY <2>1, <2>4, ErrorIs, UnsizedType, TypedIs
    <2> QED  BY <2>6, <2>7, <2>8, <2>9 DEF Good
  <1>12. CASE op = "Shl" /\ r.val.is = "UInt"
    <2> DEFINE w == (bit_width(l.ty) + Amount(r.val)) % Word
    <2>1. b.ty = same_kind_with_width(l.ty, w)  BY <1>5, <1>12 DEF BinaryType
    <2>2. need = l.need + r.val.n  BY <1>12 DEF BinaryNeed, need
    <2>3. w \in 0 .. Word - 1 /\ r.val.n \in Nat  BY <1>1, <1>12, ShiftWidth
    <2>4. "overflow" \notin b.gaps => need = w
      <3> SUFFICES ASSUME "overflow" \notin b.gaps  PROVE need = w
        OBVIOUS
      <3>1. l.need = Need(l.ty)  BY <1>4, <1>6, <1>12 DEF NeedKept, Logic
      <3>2. Need(l.ty) + r.val.n < Word  BY <1>g, <2>2, <3>1
      <3>3. r.val.n < Word /\ Need(l.ty) < Word  BY <1>1, <2>3, <3>1, <3>2, Words
      <3>4. Amount(r.val) = r.val.n /\ bit_width(l.ty) = Need(l.ty)
        BY <1>1, <3>3, WidthType DEF Amount
      <3>5. Need(l.ty) + r.val.n \in Nat  BY <1>1, <2>3, <3>1
      <3>6. (Need(l.ty) + r.val.n) % Word = Need(l.ty) + r.val.n  BY <3>2, <3>5, WordMod
      <3> QED  BY <2>2, <3>1, <3>4, <3>6
    <2> HIDE DEF w
    <2>5. /\ b.ty \in Flat /\ b.ty.n = w
          /\ b.ty.is = IF l.ty.is \in Vectors THEN l.ty.is ELSE "UInt"
      BY <1>1, <2>1, <2>3, SameKind
    <2>6. b.ty.is \in Vectors  BY <2>5 DEF Vectors
    <2>7. NoBitsExplained(b)
      <3>1. b.need = 0 => l.need = 0  BY <1>1, <1>f, <2>2, <2>3
      <3> QED  BY <1>8, <1>12, <3>1 DEF NoBitsExplained, Logic
    <2>8. b.gaps \subseteq {"unsized", "slice", "shift"} =>
            b.fams \subseteq {b.ty.is} /\ (b.ty.is = "UInt" /\ b.ty.n = 0 => b.fams = {})
      <3> SUFFICES ASSUME b.gaps \subseteq {"unsized", "slice", "shift"}
                   PROVE  b.fams \subseteq {b.ty.is}
                          /\ (b.ty.is = "UInt" /\ b.ty.n = 0 => b.fams = {})
        OBVIOUS
      <3>1. l.gaps \subseteq {"unsized", "slice", "shift"} /\ "overflow" \notin b.gaps
        BY <1>6, <1>12 DEF Logic
      <3>2. b.fams = l.fams  BY <1>12, <1>f, BinaryFamiliesAre
      <3>3. l.ty.is \in Vectors
        <4>1. "retyped" \notin b.gaps  OBVIOUS
        <4> QED  BY <1>12, <1>g, <4>1, BinaryGapsAre DEF own
      <3>4. unwrap_direction(l.ty) = l.ty  BY <3>3 DEF unwrap_direction, Vectors
      <3>5. l.fams \subseteq {l.ty.is} /\ (l.ty = Unsized => l.fams = {})
        BY <1>4, <3>1, <3>4 DEF FamilyKept
      <3>6. b.ty.is = "UInt" /\ b.ty.n = 0 => l.ty = Unsized
        <4>1. Need(l.ty) = l.ty.n  BY <1>1, <3>3, WidthType
        <4>2. l.need = l.ty.n  BY <1>4, <3>1, <4>1, <1>6, <1>12 DEF NeedKept, Logic
        <4>3. b.ty.n = l.need + r.val.n  BY <2>2, <2>4, <2>5, <3>1
        <4>4. b.ty.n = 0 => l.ty.n = 0  BY <1>1, <2>3, <4>2, <4>3
        <4> QED  BY <1>1, <2>5, <3>3, <4>4, UnsizedIs
      <3> QED  BY <2>5, <3>2, <3>3, <3>5, <3>6
    <2> QED  BY <1>b, <1>f, <2>4, <2>5, <2>6, <2>7, <2>8, GoodVector
  <1>13. CASE op = "Shr" \/ (op = "Shl" /\ r.val.is # "UInt")
    <2>1. b.ty = l.ty  BY <1>5, <1>13 DEF BinaryType
    <2>2. b.need = l.need  BY <1>1, <1>f, <1>13 DEF BinaryNeed, need
    <2>3. l.gaps \subseteq b.gaps  BY <1>6, <1>13 DEF Logic
    <2>4. b.fams = l.fams  BY <1>13, <1>f, BinaryFamiliesAre
    <2>5. NeedKept(b)  BY <1>4, <2>1, <2>2, <2>3 DEF NeedKept
    <2>6. NoBitsExplained(b)  BY <1>4, <2>2, <2>3 DEF NoBitsExplained
    <2>7. FamilyKept(b)  BY <1>4, <2>1, <2>3, <2>4 DEF FamilyKept
    <2> QED  BY <1>t, <2>1, <2>5, <2>6, <2>7 DEF Good
  <1>14. CASE op \in Logic
    <2>1. b.ty = Plain("Bool")  BY <1>5, <1>14 DEF BinaryType, Logic
    <2>2. b.need = 1  BY <1>f, <1>14 DEF BinaryNeed, need, Logic
    <2>3. b.fams = {"Bool"}  BY <1>14, <1>f, BinaryFamiliesAre
    <2> QED  BY <2>1, <2>2, <2>3, BoolIs DEF Good, NeedKept, NoBitsExplained, FamilyKept
  <1>15. CASE op = "Concat"
    <2>1. b.ty = Vector("Bits", sum_width(l.ty, r.ty))  BY <1>5, <1>15 DEF BinaryType
    <2>2. need = l.need + r.need  BY <1>15 DEF BinaryNeed, need
    <2>3. sum_width(l.ty, r.ty) \in 0 .. Word - 1  BY <1>1, SumWidths
    <2>4. b.ty \in Flat /\ b.ty.is = "Bits" /\ b.ty.n = sum_width(l.ty, r.ty)
      BY <2>1, <2>3, VectorType DEF Vectors, Vector
    <2>5. "overflow" \notin b.gaps => b.need = b.ty.n
      <3> SUFFICES ASSUME "overflow" \notin b.gaps  PROVE need = b.ty.n
        BY <1>f
      <3>1. l.need = Need(l.ty) /\ r.need = Need(r.ty)
        BY <1>4, <1>6, <1>7, <1>15 DEF NeedKept, Logic
      <3>2. Need(l.ty) + Need(r.ty) < Word  BY <1>g, <2>2, <3>1
      <3> QED  BY <1>1, <2>2, <2>4, <3>1, <3>2, SumOfNeeds
    <2>6. NoBitsExplained(b)
      <3>1. b.need = 0 => l.need = 0  BY <1>1, <1>f, <2>2
      <3> QED  BY <1>8, <1>15, <3>1 DEF NoBitsExplained, Logic
    <2>7. b.fams = {"Bits"}  BY <1>15, <1>f, BinaryFamiliesAre
    <2>8. "Bits" \in Vectors  BY DEF Vectors
    <2> QED  BY <1>b, <2>4, <2>5, <2>6, <2>7, <2>8, GoodVector
  <1> QED  BY <1>10, <1>11, <1>12, <1>13, <1>14, <1>15 DEF BinOp, Arithmetic, Logic

IfOf(c, t, e) ==
  [ty |-> IF t.ty = Error THEN e.ty ELSE t.ty,
   val |-> eval_if(c.val, t.val, e.val),
   from |-> c.from,
   need |-> IF t.need >= e.need THEN t.need ELSE e.need,
   fams |-> t.fams \union e.fams,
   gaps |-> (c.gaps \intersect {"untyped"}) \union t.gaps \union e.gaps]

SameType(t, e) == Error \in {t.ty, e.ty} \/ t.ty = e.ty

LEMMA IfIs ==
  ASSUME NEW c \in Expr, NEW t \in Expr, NEW e \in Expr
  PROVE  IfOf(c, t, e) \in Expr
  <1>1. eval_if(c.val, t.val, e.val) \in ConstValue  BY IfValue DEF Expr
  <1>2. c.from \in Nat /\ t.need \in Nat /\ e.need \in Nat /\ t.ty \in Ty /\ e.ty \in Ty
        /\ t.fams \union e.fams \in SUBSET {u.is : u \in Ty}
        /\ (c.gaps \intersect {"untyped"}) \union t.gaps \union e.gaps \in SUBSET Gaps
    BY DEF Expr
  <1> QED  BY <1>1, <1>2 DEF Expr, IfOf

LEMMA IfGood ==
  ASSUME NEW c \in Expr, NEW t \in Expr, NEW e \in Expr, Good(t), Good(e), SameType(t, e)
  PROVE  Good(IfOf(c, t, e))
  <1> DEFINE f == IfOf(c, t, e)
  <1>1. ASSUME "untyped" \notin f.gaps
        PROVE  Typed(f.ty) /\ NeedKept(f) /\ NoBitsExplained(f) /\ FamilyKept(f)
    <2>1. /\ f.gaps = (c.gaps \intersect {"untyped"}) \union t.gaps \union e.gaps
          /\ f.fams = t.fams \union e.fams
          /\ f.need = IF t.need >= e.need THEN t.need ELSE e.need
          /\ f.ty = IF t.ty = Error THEN e.ty ELSE t.ty
      BY DEF IfOf
    <2>2. t.need \in Nat /\ e.need \in Nat /\ t.ty \in Ty /\ e.ty \in Ty  BY DEF Expr
    <2> HIDE DEF f
    <2>3. t.gaps \subseteq f.gaps /\ e.gaps \subseteq f.gaps  BY <2>1
    <2>4. /\ Typed(t.ty) /\ NeedKept(t) /\ NoBitsExplained(t) /\ FamilyKept(t)
          /\ Typed(e.ty) /\ NeedKept(e) /\ NoBitsExplained(e) /\ FamilyKept(e)
      BY <1>1, <2>3 DEF Good
    <2>5. t.ty = e.ty /\ f.ty = t.ty
      <3>1. t.ty # Error /\ e.ty # Error  BY <2>2, <2>4, TypedIs
      <3> QED  BY <2>1, <3>1 DEF SameType
    <2>6. NeedKept(f)  BY <2>1, <2>2, <2>3, <2>4, <2>5 DEF NeedKept
    <2>7. NoBitsExplained(f)
      <3>1. f.need = 0 => t.need = 0  BY <2>1, <2>2
      <3> QED  BY <2>3, <2>4, <3>1 DEF NoBitsExplained
    <2>8. FamilyKept(f)  BY <2>1, <2>3, <2>4, <2>5 DEF FamilyKept
    <2> QED  BY <2>4, <2>5, <2>6, <2>7, <2>8
  <1> QED  BY <1>1 DEF Good

ElementType(t) ==
  CASE t.is = "Array" -> t.of
    [] t.is \in Vectors -> Plain("Bool")
    [] OTHER -> Error

IndexOf(a) ==
  [a EXCEPT !.ty = ElementType(a.ty), !.val = NoConst, !.need = Need(ElementType(a.ty)),
            !.fams = Families(ElementType(a.ty))]

LEMMA ElementTypeType == ASSUME NEW t \in Ty PROVE ElementType(t) \in Flat
  <1>1. t.is = "Array" => t.of \in Flat  BY TypeShape, FlatIs
  <1>2. Plain("Bool") \in Flat /\ Error \in Flat  BY PlainType DEF OneBit, Error
  <1> QED  BY <1>1, <1>2 DEF ElementType, Vectors

LEMMA FamiliesAre ==
  ASSUME NEW t \in Ty
  PROVE  /\ Families(t) \subseteq {unwrap_direction(t).is}
         /\ t = Unsized \/ t.is \in Meta => Families(t) = {}
         /\ Families(t) \in SUBSET {u.is : u \in Ty}
  <1>1. unwrap_direction(t) \in Ty  BY UnwrapType
  <1>2. unwrap_direction(t).is \in {u.is : u \in Ty}  BY <1>1, FamilyIs
  <1> QED  BY <1>2 DEF Families

LEMMA IndexIs ==
  ASSUME NEW a \in Expr
  PROVE  /\ IndexOf(a) \in Expr /\ IndexOf(a).from = a.from /\ IndexOf(a).gaps = a.gaps
         /\ IndexOf(a).ty = ElementType(a.ty) /\ IndexOf(a).need = Need(ElementType(a.ty))
         /\ IndexOf(a).fams = Families(ElementType(a.ty))
         /\ ElementType(a.ty) \in Flat /\ ElementType(a.ty) \in Ty
  <1> DEFINE ty == ElementType(a.ty)
  <1>1. a.ty \in Ty  BY DEF Expr
  <1>2. ty \in Flat  BY <1>1, ElementTypeType
  <1>3. ty \in Ty  BY <1>2, FlatShape
  <1>4. Need(ty) \in Nat  BY <1>3, WidthType
  <1>5. Families(ty) \in SUBSET {u.is : u \in Ty}  BY <1>3, FamiliesAre
  <1> QED  BY <1>2, <1>3, <1>4, <1>5, NoConstType DEF IndexOf, Expr

LEMMA IndexGood ==
  ASSUME NEW a \in Expr, Good(a), a.ty.is \in Vectors \union {"Array", "Error"}
  PROVE  Good(IndexOf(a))
  <1> DEFINE f == IndexOf(a)
             ty == ElementType(a.ty)
  <1>1. a.ty \in Ty  BY DEF Expr
  <1>2. ty \in Flat  BY IndexIs
  <1>3. ty \in Ty  BY IndexIs
  <1>6. f.gaps = a.gaps /\ f.ty = ty /\ f.need = Need(ty) /\ f.fams = Families(ty)
    BY IndexIs
  <1> HIDE DEF f
  <1>7. ASSUME "untyped" \notin a.gaps
        PROVE  Typed(f.ty) /\ NeedKept(f) /\ NoBitsExplained(f) /\ FamilyKept(f)
    <2>1. Typed(a.ty) /\ NeedKept(a) /\ NoBitsExplained(a)  BY <1>7 DEF Good
    <2>2. a.ty.is \in Vectors \union {"Array"}  BY <1>1, <1>7, <2>1, ErrorIs, TypedIs
    <2>3. NeedKept(f)  BY <1>6 DEF NeedKept
    <2>4. FamilyKept(f)  BY <1>3, <1>6, FamiliesAre DEF FamilyKept
    <2>5. CASE a.ty.is \in Vectors
      <3>1. ty = Plain("Bool")  BY <2>5 DEF ElementType, Vectors
      <3>2. f.need = 1 /\ Typed(ty)  BY <1>6, <3>1, BoolIs
      <3>3. NoBitsExplained(f)  BY <3>2 DEF NoBitsExplained
      <3> QED  BY <1>6, <2>3, <2>4, <3>2, <3>3
    <2>6. CASE a.ty.is = "Array"
      <3>1. ty = a.ty.of  BY <2>6 DEF ElementType, Vectors
      <3>2. Need(a.ty) = FlatWidth(ty) * a.ty.n  BY <2>6, <3>1 DEF Need
      <3>3. Need(ty) = FlatWidth(ty)
        BY <1>2, <1>3, FlatIs DEF Need, bit_width
      <3>4. NoBitsExplained(f)
        <4> SUFFICES ASSUME Need(ty) = 0  PROVE a.gaps \ {"first"} # {}
          BY <1>6 DEF NoBitsExplained
        <4>1. Need(a.ty) = 0
          <5>1. a.ty.n \in Nat  BY <1>1, TypeShape, Words
          <5> QED  BY <3>2, <3>3, <5>1
        <4>2. "overflow" \notin a.gaps => a.need = 0  BY <2>1, <4>1 DEF NeedKept
        <4> QED  BY <2>1, <4>2 DEF NoBitsExplained
      <3>5. Typed(ty)
        <4>1. Innermost(a.ty) = ty /\ Innermost(ty) = ty
          BY <1>2, <1>3, <2>6, <3>1, FlatIs DEF Innermost
        <4> QED  BY <2>1, <4>1 DEF Typed
      <3> QED  BY <1>6, <2>3, <2>4, <3>4, <3>5
    <2> QED  BY <2>2, <2>5, <2>6
  <1>8. Good(f)  BY <1>6, <1>7 DEF Good
  <1> QED  BY <1>8 DEF f

SliceOf(b, a) ==
  LET known == b.high.is = "UInt" /\ b.low.is = "UInt" /\ b.high.n >= b.low.n
      need == IF known THEN b.high.n - b.low.n + 1 ELSE 0
  IN  [ty |-> Vector("Bits", try_bitslice_width(b)), val |-> NoConst,
       from |-> a.from, fams |-> {"Bits"},
       need |-> need,
       gaps |-> (a.gaps \intersect {"untyped"}) \union Overflow(need)
                \union (IF known THEN {} ELSE {"slice"})]

LEMMA SliceGood ==
  ASSUME NEW b \in Slice, NEW a \in Expr
  PROVE  SliceOf(b, a) \in Expr /\ Good(SliceOf(b, a))
  <1> DEFINE f == SliceOf(b, a)
             known == b.high.is = "UInt" /\ b.low.is = "UInt" /\ b.high.n >= b.low.n
             need == IF known THEN b.high.n - b.low.n + 1 ELSE 0
             w == try_bitslice_width(b)
  <1>1. b.high \in ConstValue /\ b.low \in ConstValue  BY DEF Slice
  <1>2. b.high.n \in Int /\ b.low.n \in Int  BY <1>1, ValueType
  <1>3. need \in Nat /\ (known => need > 0)  BY <1>2
  <1>4. w = IF known THEN need % Word ELSE 0  BY DEF try_bitslice_width
  <1>5. /\ f.ty = Vector("Bits", w) /\ f.need = need /\ f.fams = {"Bits"}
        /\ f.gaps = (a.gaps \intersect {"untyped"}) \union Overflow(need)
                     \union (IF known THEN {} ELSE {"slice"})
    BY DEF SliceOf
  <1>6. f = [ty |-> f.ty, val |-> NoConst, from |-> a.from, fams |-> f.fams,
             need |-> f.need, gaps |-> f.gaps]
    BY DEF SliceOf
  <1> HIDE DEF f, need, w
  <1>7. w \in 0 .. Word - 1 /\ (need < Word /\ known => w = need)
    BY <1>3, <1>4, WordMod, Words
  <1>8. f.ty \in Flat /\ f.ty.is = "Bits" /\ f.ty.n = w /\ "Bits" \in Vectors
    BY <1>5, <1>7, VectorType DEF Vector, Vectors
  <1>9. f.ty \in Ty  BY <1>8, FlatShape
  <1>10. f.fams \in SUBSET {u.is : u \in Ty}  BY <1>5, <1>8, <1>9, FamilyIs
  <1>11. f.gaps \in SUBSET Gaps  BY <1>5 DEF Gaps, Overflow
  <1>12. f \in Expr
    <2>1. a.from \in Nat  BY DEF Expr
    <2> QED  BY <1>3, <1>5, <1>6, <1>9, <1>10, <1>11, <2>1, NoConstType DEF Expr
  <1>13. "overflow" \notin f.gaps => f.need = f.ty.n
    <2>1. "overflow" \notin f.gaps => need < Word  BY <1>5 DEF Overflow
    <2>2. ~known => need = 0  BY DEF need
    <2> QED  BY <1>4, <1>5, <1>7, <1>8, <2>1, <2>2
  <1>14. NoBitsExplained(f)
    <2>1. f.need = 0 => "slice" \in f.gaps  BY <1>3, <1>5
    <2> QED  BY <2>1 DEF NoBitsExplained
  <1>15. Good(f)  BY <1>5, <1>8, <1>12, <1>13, <1>14, GoodVector
  <1> QED  BY <1>12, <1>15 DEF f

ArrayOf(a, b) ==
  [ty |-> [is |-> "Array", n |-> 2, of |-> a.ty], val |-> NoConst,
   from |-> a.from, need |-> 2 * a.need, fams |-> {"Array"},
   gaps |-> a.gaps \union b.gaps \union (IF a.ty = b.ty THEN {} ELSE {"elements"})]

LEMMA ArrayIs ==
  ASSUME NEW a \in Expr, NEW b \in Expr, a.ty \in Flat
  PROVE  ArrayOf(a, b) \in Expr
  <1> DEFINE f == ArrayOf(a, b)
             ty == [is |-> "Array", n |-> 2, of |-> a.ty]
  <1>1. ty \in Ty
    <2>1. 2 \in 0 .. Word - 1  BY Words
    <2> QED  BY <2>1 DEF Ty
  <1>2. ty.is = "Array" /\ ty.n = 2 /\ ty.of = a.ty  OBVIOUS
  <1>3. /\ f.ty = ty /\ f.need = 2 * a.need /\ f.fams = {"Array"}
        /\ f.gaps = a.gaps \union b.gaps \union (IF a.ty = b.ty THEN {} ELSE {"elements"})
        /\ f = [ty |-> f.ty, val |-> NoConst, from |-> a.from, need |-> f.need,
                fams |-> f.fams, gaps |-> f.gaps]
    BY DEF ArrayOf
  <1> HIDE DEF f, ty
  <1>4. a.need \in Nat /\ a.from \in Nat /\ a.gaps \subseteq Gaps /\ b.gaps \subseteq Gaps
    BY DEF Expr
  <1>5. f.fams \in SUBSET {u.is : u \in Ty}  BY <1>1, <1>2, <1>3, FamilyIs
  <1>6. f.gaps \in SUBSET Gaps  BY <1>3, <1>4 DEF Gaps
  <1>7. f \in Expr
    <2>1. f.need \in Nat  BY <1>3, <1>4
    <2> QED  BY <1>1, <1>3, <1>4, <1>5, <1>6, <2>1, NoConstType DEF Expr
  <1> QED  BY <1>7 DEF f

LEMMA ArrayGood ==
  ASSUME NEW a \in Expr, NEW b \in Expr, Good(a), a.ty \in Flat
  PROVE  Good(ArrayOf(a, b))
  <1> DEFINE f == ArrayOf(a, b)
             ty == [is |-> "Array", n |-> 2, of |-> a.ty]
  <1>2. ty.is = "Array" /\ ty.n = 2 /\ ty.of = a.ty  OBVIOUS
  <1>3. /\ f.ty = ty /\ f.need = 2 * a.need /\ f.fams = {"Array"}
        /\ f.gaps = a.gaps \union b.gaps \union (IF a.ty = b.ty THEN {} ELSE {"elements"})
    BY DEF ArrayOf
  <1> HIDE DEF f, ty
  <1>4. a.need \in Nat  BY DEF Expr
  <1>8. ASSUME "untyped" \notin f.gaps
        PROVE  Typed(f.ty) /\ NeedKept(f) /\ NoBitsExplained(f) /\ FamilyKept(f)
    <2>1. a.gaps \subseteq f.gaps  BY <1>3
    <2>2. Typed(a.ty) /\ NeedKept(a) /\ NoBitsExplained(a)  BY <1>8, <2>1 DEF Good
    <2>3. a.ty \in Ty /\ a.ty.is \notin {"Array", "Memory", "Direction"}  BY FlatShape, FlatIs
    <2>4. Typed(ty)
      <3>1. Innermost(ty) = a.ty /\ Innermost(a.ty) = a.ty  BY <1>2, <2>3 DEF Innermost
      <3> QED  BY <2>2, <3>1 DEF Typed
    <2>5. Need(ty) = 2 * Need(a.ty)
      <3>1. Need(a.ty) = FlatWidth(a.ty)  BY <2>3 DEF Need, bit_width
      <3>2. Need(ty) = FlatWidth(a.ty) * 2  BY <1>2 DEF Need
      <3>3. Need(a.ty) \in Nat  BY <2>3, WidthType
      <3> QED  BY <3>1, <3>2, <3>3
    <2>6. NeedKept(f)  BY <1>3, <2>1, <2>2, <2>5 DEF NeedKept
    <2>7. NoBitsExplained(f)
      <3>1. f.need = 0 => a.need = 0  BY <1>3, <1>4
      <3> QED  BY <2>1, <2>2, <3>1 DEF NoBitsExplained
    <2>8. FamilyKept(f)
      <3>1. unwrap_direction(ty) = ty  BY <1>2 DEF unwrap_direction
      <3>2. ty # Unsized /\ ty.is \notin Meta  BY <1>2 DEF Unsized, Plain, Meta
      <3> QED  BY <1>2, <1>3, <3>1, <3>2 DEF FamilyKept
    <2> QED  BY <1>3, <2>4, <2>6, <2>7, <2>8
  <1>9. Good(f)  BY <1>8 DEF Good
  <1> QED  BY <1>9 DEF f

-----------------------------------------------------------------------------
(* The walk. *)

ErrorNames == {"TypeMismatch", "WidthMismatch", "InvalidAssignTarget", "DirectionViolation"}

\* The expressions on the stack stand in the order in which they begin.
Ordered == \A i, j \in DOMAIN stack : i < j => stack[i].from < stack[j].from

\* What is on the stack without an error in it is a good expression.
Sound == \A k \in DOMAIN stack : Within(k) = {} => Good(stack[k])

IInv == TypeOK /\ Ordered /\ Sound

LEMMA Popped ==
  ASSUME NEW S, NEW s \in Seq(S), NEW e \in S, NEW k \in 0 .. Len(s)
  PROVE  /\ Append(SubSeq(s, 1, Len(s) - k), e) \in Seq(S)
         /\ Len(Append(SubSeq(s, 1, Len(s) - k), e)) = Len(s) - k + 1
         /\ \A i \in 1 .. Len(s) - k : Append(SubSeq(s, 1, Len(s) - k), e)[i] = s[i]
         /\ Append(SubSeq(s, 1, Len(s) - k), e)[Len(s) - k + 1] = e
  <1> DEFINE n == Len(s) - k
             p == SubSeq(s, 1, n)
  <1>1. n \in 0 .. Len(s) /\ Len(s) \in Nat  OBVIOUS
  <1> HIDE DEF n
  <1>2. p \in Seq(S) /\ Len(p) = n /\ \A i \in 1 .. n : p[i] = s[i]  BY <1>1
  <1> HIDE DEF p
  <1>3. /\ Append(p, e) \in Seq(S) /\ Len(Append(p, e)) = n + 1
        /\ \A i \in 1 .. n : Append(p, e)[i] = s[i]
        /\ Append(p, e)[n + 1] = e
    BY <1>1, <1>2
  <1> QED  BY <1>3 DEF p, n

\* Where an expression made of the k on top of the stack begins.
From(k) == IF k = 0 THEN size + 1 ELSE stack[Len(stack) - k + 1].from

\* The operands, and that they are good.
GoodOperands(k) == \A j \in Len(stack) - k + 1 .. Len(stack) : Good(stack[j])

LEMMA PushKeeps ==
  ASSUME errors \subseteq [error : ErrorNames, at : 1 .. size], size \in Nat,
         NEW errs \in SUBSET ErrorNames, Push(errs), size' = size + 1
  PROVE  /\ errors' \subseteq [error : ErrorNames, at : 1 .. size']
         /\ \A e \in errors' : e \in errors \/ e.at = size + 1
         /\ errors \subseteq errors'
         /\ \A e \in errors : e.at \in 1 .. size
         /\ errs # {} => \E e \in errors' : e.at = size + 1
  <1>1. errors' = errors \union {[error |-> e, at |-> size + 1] : e \in errs}
    BY DEF Push
  <1>2. errors \subseteq [error : ErrorNames, at : 1 .. size']  OBVIOUS
  <1>3. {[error |-> e, at |-> size + 1] : e \in errs} \subseteq [error : ErrorNames, at : 1 .. size']
    OBVIOUS
  <1>4. \A e \in errors' : e \in errors \/ e.at = size + 1  BY <1>1
  <1>5. \A e \in errors : e.at \in 1 .. size  OBVIOUS
  <1>6. errs # {} => \E e \in errors' : e.at = size + 1
    <2> SUFFICES ASSUME errs # {}  PROVE \E e \in errors' : e.at = size + 1
      OBVIOUS
    <2>1. PICK name \in errs : TRUE  OBVIOUS
    <2>2. [error |-> name, at |-> size + 1] \in errors'  BY <1>1
    <2> QED  BY <2>2
  <1> QED  BY <1>1, <1>2, <1>3, <1>4, <1>5, <1>6

LEMMA ReturnKeeps ==
  ASSUME IInv, NEW k \in 0 .. Len(stack), NEW e \in Expr, e.from = From(k),
         NEW errs \in SUBSET ErrorNames, Return(k, e, errs),
         errs = {} /\ GoodOperands(k) => Good(e)
  PROVE  IInv'
  <1> DEFINE n == Len(stack) - k
  <1>1. /\ stack \in Seq(Expr) /\ size \in 0 .. MaxSize
        /\ \A i \in DOMAIN stack : stack[i].from <= size
        /\ errors \subseteq [error : ErrorNames, at : 1 .. size]
    BY DEF IInv, TypeOK, Expr, ErrorNames
  <1>2. Ordered /\ Sound  BY DEF IInv
  <1>3. /\ stack' = Append(SubSeq(stack, 1, Len(stack) - k), e)
        /\ size < MaxSize /\ size' = size + 1 /\ Push(errs) /\ last' = {}
    BY DEF Return, Step
  <1>4. n \in Nat /\ Len(stack) \in Nat /\ n <= Len(stack) /\ size \in Nat /\ MaxSize \in Nat
        /\ DOMAIN stack = 1 .. Len(stack)
    BY <1>1, MaxSizeAssumption
  <1>5. /\ stack' \in Seq(Expr) /\ Len(stack') = n + 1
        /\ \A i \in 1 .. n : stack'[i] = stack[i]
        /\ stack'[n + 1] = e
    BY <1>1, <1>3, Popped
  <1> HIDE DEF n
  <1>6. DOMAIN stack' = 1 .. n + 1  BY <1>4, <1>5
  <1>7. n = Len(stack) \/ n < Len(stack)
    <2>1. Len(stack) \in Nat /\ k \in Nat  BY <1>4
    <2>2. Len(stack) - k = Len(stack) \/ Len(stack) - k < Len(stack)  BY <2>1
    <2> QED  BY <2>2 DEF n
  <1>8. \A i \in DOMAIN stack : stack[i].from \in Nat
    <2>1. \A x \in Expr : x.from \in Nat  BY DEF Expr
    <2>2. \A i \in DOMAIN stack : stack[i] \in Expr  BY <1>1, <1>4
    <2> QED  BY <2>1, <2>2
  <1>9. e.from \in Nat /\ e.from <= size + 1 /\ (n < Len(stack) => e.from = stack[n + 1].from)
    <2>1. CASE k = 0
      BY <1>4, <2>1 DEF From, n
    <2>2. CASE k # 0
      <3>0. k \in 1 .. Len(stack) /\ Len(stack) - k + 1 = n + 1  BY <2>2 DEF n
      <3>1. n + 1 \in DOMAIN stack /\ From(k) = stack[n + 1].from
        BY <1>4, <2>2, <3>0 DEF From
      <3> QED  BY <1>1, <1>4, <1>8, <3>1
    <2> QED  BY <2>1, <2>2
  <1>10. \A i \in 1 .. n : stack[i].from < e.from
    <2>1. CASE n = Len(stack)
      <3>1. e.from = size + 1  BY <1>4, <2>1 DEF From, n
      <3> QED  BY <1>1, <1>4, <1>8, <2>1, <3>1
    <2>2. CASE n < Len(stack)
      BY <1>2, <1>4, <1>9, <2>2 DEF Ordered
    <2> QED  BY <1>7, <2>1, <2>2
  <1>11. Ordered'
    <2> SUFFICES ASSUME NEW i \in DOMAIN stack', NEW j \in DOMAIN stack', i < j
                 PROVE  stack'[i].from < stack'[j].from
      BY DEF Ordered
    <2>1. i \in 1 .. n /\ j \in 1 .. n + 1  BY <1>4, <1>6
    <2>2. CASE j = n + 1  BY <1>5, <1>10, <2>1, <2>2
    <2>3. CASE j # n + 1
      <3>1. j \in 1 .. n  BY <1>4, <2>1, <2>3
      <3> QED  BY <1>2, <1>4, <1>5, <2>1, <3>1 DEF Ordered
    <2> QED  BY <2>2, <2>3
  <1>12. /\ errors' \subseteq [error : ErrorNames, at : 1 .. size']
         /\ \A x \in errors' : x \in errors \/ x.at = size + 1
         /\ errors \subseteq errors'
         /\ \A x \in errors : x.at \in 1 .. size
         /\ errs # {} => \E x \in errors' : x.at = size + 1
    BY <1>1, <1>3, <1>4, PushKeeps
  <1>13. TypeOK'
    <2>1. \A i \in DOMAIN stack' : stack'[i].from <= size'
      <3> SUFFICES ASSUME NEW i \in 1 .. n + 1  PROVE stack'[i].from <= size + 1
        BY <1>3, <1>6
      <3>1. CASE i = n + 1  BY <1>5, <1>9, <3>1
      <3>2. CASE i # n + 1
        <4>1. i \in 1 .. n /\ i \in DOMAIN stack  BY <1>4, <3>2
        <4>2. stack[i].from \in Nat /\ stack[i].from <= size  BY <1>1, <1>8, <4>1
        <4>3. stack'[i] = stack[i]  BY <1>5, <4>1
        <4> QED  BY <1>4, <4>2, <4>3
      <3> QED  BY <3>1, <3>2
    <2>2. \A i \in 2 .. Len(stack') : stack'[i - 1].from < stack'[i].from
      BY <1>4, <1>5, <1>6, <1>11 DEF Ordered
    <2>3. size' \in 0 .. MaxSize  BY <1>3, <1>4
    <2>4. Cardinality(last') <= 1  BY <1>3, FS_EmptySet
    <2> QED  BY <1>5, <1>12, <2>1, <2>2, <2>3, <2>4 DEF TypeOK, Expr, ErrorNames
  <1>14. Sound'
    <2> SUFFICES ASSUME NEW i \in DOMAIN stack', Within(i)' = {}
                 PROVE  Good(stack'[i])
      BY DEF Sound, Good, Typed, NeedKept, NoBitsExplained, FamilyKept
    <2>1. i \in 1 .. n + 1  BY <1>6
    <2>2. \A x \in errors' : ~(x.at >= stack'[i].from
                                /\ (i < n + 1 => x.at < stack'[i + 1].from))
      BY <1>5 DEF Within
    <2>3. CASE i = n + 1
      <3>1. \A x \in errors' : ~(x.at >= e.from)  BY <1>4, <1>5, <2>2, <2>3
      <3>2. errs = {}
        <4> SUFFICES ASSUME errs # {}  PROVE FALSE
          OBVIOUS
        <4>1. PICK x \in errors' : x.at = size + 1  BY <1>12
        <4> QED  BY <1>4, <1>9, <3>1, <4>1
      <3>3. GoodOperands(k)
        <4> SUFFICES ASSUME NEW j \in n + 1 .. Len(stack)  PROVE Good(stack[j])
          BY DEF GoodOperands, n
        <4>1. j \in DOMAIN stack /\ n + 1 \in DOMAIN stack /\ n < Len(stack)  BY <1>4
        <4>2. e.from <= stack[j].from
          <5>1. e.from = stack[n + 1].from  BY <1>9, <4>1
          <5>2. CASE j = n + 1  BY <1>8, <4>1, <5>1, <5>2
          <5>3. CASE n + 1 < j  BY <1>2, <1>8, <4>1, <5>1, <5>3 DEF Ordered
          <5> QED  BY <1>4, <5>2, <5>3
        <4>3. Within(j) = {}
          <5> SUFFICES ASSUME NEW x \in errors, x.at >= stack[j].from  PROVE FALSE
            BY DEF Within
          <5>1. x.at \in Nat /\ x \in errors'  BY <1>4, <1>12
          <5> QED  BY <1>8, <1>9, <3>1, <4>1, <4>2, <5>1
        <4> QED  BY <1>2, <4>1, <4>3 DEF Sound
      <3> QED  BY <1>5, <2>3, <3>2, <3>3
    <2>4. CASE i # n + 1
      <3>1. i \in 1 .. n /\ i \in DOMAIN stack /\ i < n + 1 /\ i + 1 \in 1 .. n + 1
        BY <1>4, <2>1, <2>4
      <3>2. Within(i) = {}
        <4> SUFFICES ASSUME NEW x \in errors, x.at >= stack[i].from,
                            i < Len(stack) => x.at < stack[i + 1].from
                     PROVE  FALSE
          BY DEF Within
        <4>1. x \in errors' /\ x.at \in Nat /\ x.at <= size  BY <1>4, <1>12
        <4>2. stack'[i].from = stack[i].from  BY <1>5, <3>1
        <4>3. x.at < stack'[i + 1].from
          <5>1. CASE i < n
            <6>1. stack'[i + 1] = stack[i + 1] /\ i < Len(stack)  BY <1>4, <1>5, <3>1, <5>1
            <6> QED  BY <6>1
          <5>2. CASE i = n /\ n < Len(stack)
            BY <1>5, <1>9, <5>2
          <5>3. CASE i = n /\ n = Len(stack)
            <6>1. e.from = size + 1  BY <1>4, <5>3 DEF From, n
            <6> QED  BY <1>4, <1>5, <4>1, <5>3, <6>1
          <5>4. i < n \/ (i = n /\ n < Len(stack)) \/ (i = n /\ n = Len(stack))
            <6>1. i < n \/ i = n  BY <1>4, <3>1
            <6> QED  BY <1>7, <6>1
          <5> QED  BY <5>1, <5>2, <5>3, <5>4
        <4> QED  BY <2>2, <3>1, <4>1, <4>2, <4>3
      <3> QED  BY <1>2, <1>5, <3>1, <3>2 DEF Sound
    <2> QED  BY <2>3, <2>4
  <1> QED  BY <1>11, <1>13, <1>14 DEF IInv

LEMMA UseKeeps ==
  ASSUME IInv, NEW errs \in SUBSET ErrorNames, NEW done, Cardinality(done) <= 1, Use(errs, done)
  PROVE  IInv'
  <1>1. /\ stack' = <<>> /\ size < MaxSize /\ size' = size + 1 /\ Push(errs) /\ last' = done
    BY DEF Use, Step
  <1>2. size \in 0 .. MaxSize /\ errors \subseteq [error : ErrorNames, at : 1 .. size]
    BY DEF IInv, TypeOK, ErrorNames
  <1>3. size \in Nat /\ size' \in 0 .. MaxSize  BY <1>1, <1>2, MaxSizeAssumption
  <1>4. errors' \subseteq [error : ErrorNames, at : 1 .. size']  BY <1>1, <1>2, <1>3, PushKeeps
  <1>5. stack' \in Seq(Expr) /\ DOMAIN stack' = {} /\ Len(stack') = 0  BY <1>1
  <1>6. TypeOK'  BY <1>1, <1>3, <1>4, <1>5 DEF TypeOK, Expr, ErrorNames
  <1>7. Ordered' /\ Sound'  BY <1>5 DEF Ordered, Sound
  <1> QED  BY <1>6, <1>7 DEF IInv

\* The operands of an expression, and where it begins.
LEMMA Operands ==
  ASSUME IInv, NEW k \in 1 .. 3, Len(stack) >= k
  PROVE  /\ k \in 0 .. Len(stack) /\ Len(stack) \in Nat
         /\ Top(k) \in Expr /\ Top(k) = stack[Len(stack) - k + 1]
         /\ From(k) = Top(k).from
         /\ GoodOperands(k) => \A j \in 1 .. k : Good(Top(j))
  <1>1. stack \in Seq(Expr)  BY DEF IInv, TypeOK, Expr
  <1>2. Len(stack) \in Nat /\ k \in Nat /\ k # 0 /\ k \in 0 .. Len(stack)  BY <1>1
  <1>3. Len(stack) + 1 - k = Len(stack) - k + 1 /\ Len(stack) - k + 1 \in 1 .. Len(stack)
    BY <1>2
  <1>4. Top(k) = stack[Len(stack) - k + 1]  BY <1>3 DEF Top
  <1>5. Top(k) \in Expr  BY <1>1, <1>3, <1>4
  <1>6. From(k) = Top(k).from  BY <1>2, <1>4 DEF From
  <1>7. ASSUME GoodOperands(k), NEW j \in 1 .. k  PROVE Good(Top(j))
    <2>1. Len(stack) + 1 - j \in Len(stack) - k + 1 .. Len(stack)  BY <1>2
    <2> QED  BY <1>7, <2>1 DEF GoodOperands, Top
  <1> QED  BY <1>2, <1>4, <1>5, <1>6, <1>7

LEMMA NotEmpty == ASSUME IInv, stack # <<>> PROVE Len(stack) >= 1
  <1>1. stack \in Seq(Expr)  BY DEF IInv, TypeOK, Expr
  <1> QED  BY <1>1

LEMMA LeafKeeps ==
  ASSUME IInv, NEW t \in Ty, NEW v \in ConstValue, Return(0, Leaf(t, v), {})
  PROVE  IInv'
  <1>1. stack \in Seq(Expr) /\ size \in Nat
    BY MaxSizeAssumption DEF IInv, TypeOK, Expr
  <1>2. 0 \in 0 .. Len(stack)  BY <1>1
  <1>3. Leaf(t, v) \in Expr /\ Good(Leaf(t, v))  BY <1>1, LeafGood
  <1>4. Leaf(t, v).from = From(0)  BY DEF Leaf, From
  <1>5. {} \in SUBSET ErrorNames  OBVIOUS
  <1> QED  BY <1>2, <1>3, <1>4, <1>5, ReturnKeeps

LEMMA LiteralKeeps == ASSUME IInv, Literal PROVE IInv'
  <1>1. ASSUME NEW n \in Literals, Return(0, Leaf(Unsized, UInt(n)), {})  PROVE IInv'
    <2>1. n \in Int  BY LiteralsAssumption, Words
    <2>2. UInt(n) \in ConstValue /\ Unsized \in Ty  BY <2>1, UIntType, UnsizedType, FlatShape
    <2> QED  BY <1>1, <2>2, LeafKeeps
  <1>2. ASSUME NEW n \in Literals, Return(0, Leaf(Vector("UInt", n + 1), UInt(n)), {})
        PROVE  IInv'
    <2>1. n \in Int /\ n + 1 \in 0 .. Word - 1  BY LiteralsAssumption, Words
    <2>2. UInt(n) \in ConstValue /\ Vector("UInt", n + 1) \in Ty
      BY <2>1, UIntType, VectorType, FlatShape DEF Vectors
    <2> QED  BY <1>2, <2>2, LeafKeeps
  <1>3. ASSUME Return(0, Leaf(Plain("Bool"), Bool(TRUE)), {})  PROVE IInv'
    <2>1. Bool(TRUE) \in ConstValue  BY BoolType
    <2> QED  BY <1>3, <2>1, BoolIs, LeafKeeps
  <1>4. ASSUME Return(0, Leaf(Plain("MetaString"), NoConst), {})  PROVE IInv'
    <2>1. Plain("MetaString") \in Ty  BY PlainType, FlatShape DEF Meta
    <2> QED  BY <1>4, <2>1, NoConstType, LeafKeeps
  <1> QED  BY <1>1, <1>2, <1>3, <1>4 DEF Literal

LEMMA NamesKeep == ASSUME IInv, Ident \/ Deferred \/ RangeExpr PROVE IInv'
  <1>1. Error \in Ty  BY PlainType, FlatShape DEF Error
  <1>2. Plain("MetaUInt") \in Ty  BY PlainType, FlatShape DEF Meta
  <1>3. CASE Ident
    <2>1. PICK t \in NameTypes \union {Error} : Return(0, Leaf(t, NoConst), {})
      BY <1>3 DEF Ident
    <2>2. t \in Ty  BY <1>1, NameTypesAssumption
    <2> QED  BY <2>1, <2>2, NoConstType, LeafKeeps
  <1>4. CASE Deferred  BY <1>1, <1>4, NoConstType, LeafKeeps DEF Deferred
  <1>5. CASE RangeExpr  BY <1>2, <1>5, NoConstType, LeafKeeps DEF RangeExpr
  <1> QED  BY <1>3, <1>4, <1>5

LEMMA WrapKeeps == ASSUME IInv, NEW kind, Wrap(kind) PROVE IInv'
  <1>1. Len(stack) >= 1 /\ Return(1, WrapOf(kind, Top(1)), {})
    BY NotEmpty DEF Wrap, WrapOf
  <1>2. 1 \in 0 .. Len(stack) /\ Top(1) \in Expr /\ From(1) = Top(1).from
        /\ (GoodOperands(1) => Good(Top(1)))
    BY <1>1, Operands
  <1>3. {} \in SUBSET ErrorNames  OBVIOUS
  <1>4. WrapOf(kind, Top(1)) \in Expr /\ WrapOf(kind, Top(1)).from = From(1)
    BY <1>2, WrapIs
  <1>5. GoodOperands(1) => Good(WrapOf(kind, Top(1)))  BY <1>2, WrapGood
  <1> QED  BY <1>1, <1>2, <1>3, <1>4, <1>5, ReturnKeeps

LEMMA UnaryKeeps == ASSUME IInv, NEW op \in UnaryOp, Unary(op) PROVE IInv'
  <1> DEFINE e == Top(1)
             errs == IF op = "LogicalNot" /\ e.ty # Error
                       THEN WhenNot(e.ty = Plain("Bool"), "TypeMismatch") ELSE {}
  <1>1. Len(stack) >= 1 /\ Return(1, UnaryOf(op, e), errs)
    BY NotEmpty DEF Unary, UnaryOf
  <1>2. errs \in SUBSET ErrorNames  BY DEF WhenNot, ErrorNames
  <1> HIDE DEF errs
  <1>3. 1 \in 0 .. Len(stack) /\ e \in Expr /\ From(1) = e.from
        /\ (GoodOperands(1) => Good(e))
    BY <1>1, Operands
  <1> HIDE DEF e
  <1>4. UnaryOf(op, e) \in Expr /\ UnaryOf(op, e).from = From(1)
    BY <1>3, UnaryIs
  <1>5. GoodOperands(1) => Good(UnaryOf(op, e))  BY <1>3, UnaryGood
  <1> QED  BY <1>1, <1>2, <1>3, <1>4, <1>5, ReturnKeeps

LEMMA BinaryKeeps == ASSUME IInv, NEW op \in BinOp, Binary(op) PROVE IInv'
  <1> DEFINE l == Top(2)
             r == Top(1)
             errs == BinaryErrorsOf(op, l, r)
  <1>1. Len(stack) >= 2 /\ Return(2, BinaryOf(op, l, r), errs)
    BY DEF Binary, BinaryOf, BinaryErrorsOf
  <1>2. /\ 2 \in 0 .. Len(stack) /\ l \in Expr /\ From(2) = l.from
        /\ Len(stack) >= 1
        /\ GoodOperands(2) => Good(l) /\ Good(r)
    BY <1>1, Operands
  <1>3. r \in Expr  BY <1>2, Operands
  <1> HIDE DEF l, r
  <1>4. errs \in SUBSET ErrorNames  
    <2>1. op \in Arithmetic \union {"Pow", "Shl", "Shr", "Concat"} \union Logic
      BY DEF BinOp, Arithmetic, Logic
    <2>2. BinaryErrors(op, l, r) \in SUBSET ErrorNames
      BY <2>1 DEF BinaryErrors, WhenNot, ErrorNames, check_arithmetic_operands, Logic, Arithmetic
    <2> QED  BY <2>2 DEF BinaryErrorsOf
  <1>5. BinaryOf(op, l, r) \in Expr  BY <1>2, <1>3, BinaryIsExpr
  <1>6. BinaryOf(op, l, r).from = From(2)  BY <1>2 DEF BinaryOf
  <1>7. errs = {} /\ GoodOperands(2) => Good(BinaryOf(op, l, r))
    BY <1>2, <1>3, BinaryGood
  <1> HIDE DEF errs
  <1> QED  BY <1>1, <1>2, <1>4, <1>5, <1>6, <1>7, ReturnKeeps

LEMMA IfKeeps == ASSUME IInv, IfExpr PROVE IInv'
  <1> DEFINE c == Top(3)
             t == Top(2)
             e == Top(1)
             errs == ConditionErrors(c.ty) \union WhenNot(SameType(t, e), "TypeMismatch")
  <1>1. Len(stack) >= 3 /\ Return(3, IfOf(c, t, e), errs)
    BY DEF IfExpr, IfOf, SameType
  <1>2. /\ 3 \in 0 .. Len(stack) /\ c \in Expr /\ From(3) = c.from
        /\ Len(stack) >= 2 /\ Len(stack) >= 1
        /\ GoodOperands(3) => Good(t) /\ Good(e)
    BY <1>1, Operands
  <1>3. t \in Expr /\ e \in Expr  BY <1>2, Operands
  <1> HIDE DEF c, t, e
  <1>4. errs \in SUBSET ErrorNames  BY DEF ConditionErrors, WhenNot, ErrorNames
  <1>5. IfOf(c, t, e) \in Expr  BY <1>2, <1>3, IfIs
  <1>6. IfOf(c, t, e).from = From(3)  BY <1>2 DEF IfOf
  <1>7. errs = {} => SameType(t, e)  BY DEF WhenNot
  <1>8. errs = {} /\ GoodOperands(3) => Good(IfOf(c, t, e))
    BY <1>2, <1>3, <1>7, IfGood
  <1> HIDE DEF errs
  <1> QED  BY <1>1, <1>2, <1>4, <1>5, <1>6, <1>8, ReturnKeeps

LEMMA IndexKeeps == ASSUME IInv, Index PROVE IInv'
  <1> DEFINE a == Top(1)
             errs == WhenNot(a.ty.is \in Vectors \union {"Array", "Error"}, "TypeMismatch")
  <1>1. Len(stack) >= 1 /\ Return(1, IndexOf(a), errs)
    BY NotEmpty DEF Index, IndexOf, ElementType
  <1>2. 1 \in 0 .. Len(stack) /\ a \in Expr /\ From(1) = a.from
        /\ (GoodOperands(1) => Good(a))
    BY <1>1, Operands
  <1> HIDE DEF a
  <1>3. errs \in SUBSET ErrorNames  BY DEF WhenNot, ErrorNames
  <1>4. IndexOf(a) \in Expr /\ IndexOf(a).from = From(1)  BY <1>2, IndexIs
  <1>5. errs = {} => a.ty.is \in Vectors \union {"Array", "Error"}  BY DEF WhenNot
  <1>6. errs = {} /\ GoodOperands(1) => Good(IndexOf(a))  BY <1>2, <1>5, IndexGood
  <1> HIDE DEF errs
  <1> QED  BY <1>1, <1>2, <1>3, <1>4, <1>6, ReturnKeeps

LEMMA SliceKeeps == ASSUME IInv, BitSlice PROVE IInv'
  <1> DEFINE a == Top(1)
  <1>1. PICK b \in Bounds : stack # <<>> /\ Return(1, SliceOf(b, a), {})
    BY DEF BitSlice, SliceOf
  <1>2. 1 \in 0 .. Len(stack) /\ a \in Expr /\ From(1) = a.from
    BY <1>1, NotEmpty, Operands
  <1> HIDE DEF a
  <1>3. {} \in SUBSET ErrorNames  OBVIOUS
  <1>4. SliceOf(b, a) \in Expr /\ Good(SliceOf(b, a))  BY <1>2, BoundsAssumption, SliceGood
  <1>5. SliceOf(b, a).from = From(1)  BY <1>2 DEF SliceOf
  <1> QED  BY <1>1, <1>2, <1>3, <1>4, <1>5, ReturnKeeps

LEMMA ArrayKeeps == ASSUME IInv, ArrayLiteral PROVE IInv'
  <1> DEFINE a == Top(2)
             b == Top(1)
  <1>1. Len(stack) >= 2 /\ a.ty \in Flat /\ Return(2, ArrayOf(a, b), {})
    BY DEF ArrayLiteral, ArrayOf
  <1>2. /\ 2 \in 0 .. Len(stack) /\ a \in Expr /\ From(2) = a.from /\ Len(stack) >= 1
        /\ GoodOperands(2) => Good(a)
    BY <1>1, Operands
  <1>3. b \in Expr  BY <1>2, Operands
  <1> HIDE DEF a, b
  <1>4. {} \in SUBSET ErrorNames  OBVIOUS
  <1>5. ArrayOf(a, b) \in Expr  BY <1>1, <1>2, <1>3, ArrayIs
  <1>6. ArrayOf(a, b).from = From(2)  BY <1>2 DEF ArrayOf
  <1>7. GoodOperands(2) => Good(ArrayOf(a, b))  BY <1>1, <1>2, <1>3, ArrayGood
  <1> QED  BY <1>1, <1>2, <1>4, <1>5, <1>6, <1>7, ReturnKeeps

\* The statements.
LEMMA AssignErrors ==
  ASSUME NEW target, NEW value
  PROVE  TargetErrors(target)
            \union (IF Error \in {resolve_target_type(target), value.ty} THEN {}
                    ELSE check_type_compatibility(resolve_target_type(target), value.ty))
          \in SUBSET ErrorNames
  <1> DEFINE ty == resolve_target_type(target)
  <1>1. TargetErrors(target) \in SUBSET ErrorNames  BY DEF TargetErrors, WhenNot, ErrorNames
  <1> HIDE DEF ty
  <1>2. check_type_compatibility(ty, value.ty) \in SUBSET ErrorNames
    BY DEF check_type_compatibility, WhenNot, ErrorNames, OneBit
  <1> QED  BY <1>1, <1>2 DEF ty

LEMMA StatementsKeep ==
  ASSUME IInv, (\E target \in Targets : Assign(target)) \/ Condition \/ RegClock \/ RegReset \/ Discard
  PROVE  IInv'
  <1>1. Cardinality({}) <= 1  BY FS_EmptySet
  <1>2. CASE \E target \in Targets : Assign(target)
    <2>1. PICK target \in Targets : Assign(target)  BY <1>2
    <2> DEFINE ty == resolve_target_type(target)
               errs == TargetErrors(target)
                         \union (IF Error \in {ty, Top(1).ty} THEN {}
                                 ELSE check_type_compatibility(ty, Top(1).ty))
               made == [target |-> target, ty |-> ty, value |-> Top(1)]
    <2>2. Use(errs, {made})  BY <2>1 DEF Assign
    <2>3. errs \in SUBSET ErrorNames  BY AssignErrors
    <2> HIDE DEF errs, made
    <2>4. Cardinality({made}) <= 1
      <3>1. Cardinality({made}) = 1  BY FS_Singleton
      <3> QED  BY <3>1
    <2> QED  BY <2>2, <2>3, <2>4, UseKeeps
  <1>3. CASE Condition
    <2>1. ConditionErrors(Top(1).ty) \in SUBSET ErrorNames
      BY DEF ConditionErrors, WhenNot, ErrorNames
    <2> QED  BY <1>1, <1>3, <2>1, UseKeeps DEF Condition
  <1>4. CASE RegClock
    <2>1. WhenNot(Top(1).ty.is \in {"Clock", "Error"}, "TypeMismatch") \in SUBSET ErrorNames
      BY DEF WhenNot, ErrorNames
    <2> QED  BY <1>1, <1>4, <2>1, UseKeeps DEF RegClock
  <1>5. CASE RegReset
    <2>1. WhenNot(Top(1).ty.is \in {"SyncReset", "AsyncReset", "Error"}, "TypeMismatch")
            \in SUBSET ErrorNames
      BY DEF WhenNot, ErrorNames
    <2> QED  BY <1>1, <1>5, <2>1, UseKeeps DEF RegReset
  <1>6. CASE Discard
    BY <1>1, <1>6, UseKeeps DEF Discard
  <1> QED  BY <1>2, <1>3, <1>4, <1>5, <1>6

LEMMA StutterKeeps == ASSUME IInv, UNCHANGED vars PROVE IInv'
  BY DEF IInv, TypeOK, Ordered, Sound, Within, vars

LEMMA Inductive == ASSUME IInv, [Next]_vars PROVE IInv'
  <1>1. CASE Literal  BY <1>1, LiteralKeeps
  <1>2. CASE Ident \/ Deferred \/ RangeExpr  BY <1>2, NamesKeep
  <1>3. CASE \E kind \in {"next", "unchecked", "eventually"} : Wrap(kind)
    BY <1>3, WrapKeeps
  <1>4. CASE \E op \in UnaryOp : Unary(op)  BY <1>4, UnaryKeeps
  <1>5. CASE \E op \in BinOp : Binary(op)  BY <1>5, BinaryKeeps
  <1>6. CASE IfExpr  BY <1>6, IfKeeps
  <1>7. CASE Index  BY <1>7, IndexKeeps
  <1>8. CASE BitSlice  BY <1>8, SliceKeeps
  <1>9. CASE ArrayLiteral  BY <1>9, ArrayKeeps
  <1>10. CASE (\E target \in Targets : Assign(target))
              \/ Condition \/ RegClock \/ RegReset \/ Discard
    BY <1>10, StatementsKeep
  <1>11. CASE UNCHANGED vars  BY <1>11, StutterKeeps
  <1> QED  BY <1>1, <1>2, <1>3, <1>4, <1>5, <1>6, <1>7, <1>8, <1>9, <1>10, <1>11 DEF Next

LEMMA Initial == ASSUME Init PROVE IInv
  <1>1. stack = <<>> /\ errors = {} /\ size = 0 /\ last = {}  BY DEF Init
  <1>2. stack \in Seq(Expr) /\ DOMAIN stack = {} /\ Len(stack) = 0  BY <1>1
  <1>3. size \in 0 .. MaxSize  BY <1>1, MaxSizeAssumption
  <1>4. Cardinality(last) <= 1  BY <1>1, FS_EmptySet
  <1>5. TypeOK  BY <1>1, <1>2, <1>3, <1>4 DEF TypeOK, Expr
  <1> QED  BY <1>2, <1>5 DEF IInv, Ordered, Sound

(***************************************************************************)
(* The invariant: at every step the types on the stack are types, and what *)
(* has no error in it is good.                                             *)
(***************************************************************************)
THEOREM Soundness == Spec => []IInv
  <1>1. Init => IInv  BY Initial
  <1>2. IInv /\ [Next]_vars => IInv'  BY Inductive
  <1> QED  BY <1>1, <1>2, PTL DEF Spec

(***************************************************************************)
(* The type Error never comes out of nothing (check.rs:411).               *)
(***************************************************************************)
THEOREM ErrorsAreExplained == Spec => []ErrorsExplained
  <1>1. ASSUME IInv  PROVE ErrorsExplained
    <2> SUFFICES ASSUME NEW k \in DOMAIN stack, stack[k].ty = Error, Within(k) = {},
                        "untyped" \notin stack[k].gaps
                 PROVE  FALSE
      BY DEF ErrorsExplained
    <2>1. Good(stack[k])  BY <1>1 DEF IInv, Sound
    <2>2. Typed(stack[k].ty)  BY <2>1 DEF Good
    <2>3. stack[k].ty \in Ty
      <3>1. stack \in Seq(Expr)  BY <1>1 DEF IInv, TypeOK, Expr
      <3>2. stack[k] \in Expr  BY <3>1
      <3> QED  BY <3>2 DEF Expr
    <2> QED  BY <2>2, <2>3, TypedIs
  <1> QED  BY <1>1, Soundness, PTL

-----------------------------------------------------------------------------
(* Assignments. *)

\* What an accepted assignment has found of its two sides.
LEMMA Compatible ==
  ASSUME NEW ty, NEW v \in Ty, check_type_compatibility(ty, v) = {},
         unwrap_direction(ty).is \in Vectors
  PROVE  \/ v \in {Unsized, Plain("MetaUInt"), Plain("MetaInt")}
         \/ /\ unwrap_direction(v).is = unwrap_direction(ty).is
            /\ IF unwrap_direction(ty).is = "Bits"
                 THEN unwrap_direction(v).n \in {unwrap_direction(ty).n, 0}
                 ELSE unwrap_direction(v).n <= unwrap_direction(ty).n
  <1> DEFINE t == unwrap_direction(ty)
             u == unwrap_direction(v)
  <1> SUFFICES ASSUME v \notin {Unsized, Plain("MetaUInt"), Plain("MetaInt")}
               PROVE  /\ u.is = t.is
                      /\ IF t.is = "Bits" THEN u.n \in {t.n, 0} ELSE u.n <= t.n
    OBVIOUS
  <1>1. (CASE t.is = u.is /\ t.is \in {"UInt", "SInt"} -> WhenNot(u.n <= t.n, "WidthMismatch")
           [] t.is = u.is /\ t.is = "Bits" -> WhenNot(u.n \in {t.n, 0}, "WidthMismatch")
           [] OTHER -> WhenNot(t.is = u.is /\ t.is \in OneBit \union {"Struct", "Enum", "Array"},
                               "TypeMismatch")) = {}
    BY DEF check_type_compatibility
  <1> HIDE DEF t, u
  <1>2. t.is \in Vectors  BY DEF t
  <1> QED  BY <1>1, <1>2 DEF WhenNot, Vectors, OneBit

\* Of an accepted assignment the value is good, and compatible.
LEMMA AcceptedIsGood ==
  ASSUME IInv, NEW target, Assign(target), NEW a \in last', Accepted(a)',
         unwrap_direction(a.ty).is \in Vectors, "untyped" \notin a.value.gaps
  PROVE  /\ a.value \in Expr /\ Good(a.value)
         /\ check_type_compatibility(a.ty, a.value.ty) = {}
  <1> DEFINE ty == resolve_target_type(target)
             errs == TargetErrors(target)
                       \union (IF Error \in {ty, Top(1).ty} THEN {}
                               ELSE check_type_compatibility(ty, Top(1).ty))
  <1>1. /\ Len(stack) = 1 /\ size' = size + 1 /\ Push(errs)
        /\ a = [target |-> target, ty |-> ty, value |-> Top(1)]
    BY DEF Assign, Use, Step
  <1>2. a.ty = ty /\ a.value = Top(1)  BY <1>1
  <1> HIDE DEF ty
  <1>3. Top(1) = stack[1] /\ Top(1) \in Expr
    <2>1. Len(stack) >= 1 /\ Len(stack) - 1 + 1 = 1  BY <1>1
    <2>2. Top(1) \in Expr /\ Top(1) = stack[Len(stack) - 1 + 1]  BY <2>1, Operands
    <2> QED  BY <2>1, <2>2
  <1>4. size \in Nat /\ errors \subseteq [error : ErrorNames, at : 1 .. size]
        /\ 1 \in DOMAIN stack /\ stack[1].from <= size
    <2>1. stack \in Seq(Expr) /\ size \in 0 .. MaxSize
          /\ errors \subseteq [error : ErrorNames, at : 1 .. size]
          /\ \A i \in DOMAIN stack : stack[i].from <= size
      BY DEF IInv, TypeOK, Expr, ErrorNames
    <2>2. 1 \in DOMAIN stack  BY <1>1, <2>1
    <2> QED  BY <2>1, <2>2, MaxSizeAssumption
  <1>5. errs \in SUBSET ErrorNames  BY AssignErrors DEF ty
  <1>6. \A e \in errors' : e.at < stack[1].from
    BY <1>2, <1>3 DEF Accepted
  <1>7. stack[1].from \in Nat  BY <1>3 DEF Expr
  <1> HIDE DEF errs
  <1>8. errors \subseteq errors' /\ (\A e \in errors : e.at \in 1 .. size)
        /\ (errs # {} => \E e \in errors' : e.at = size + 1)
    BY <1>1, <1>4, <1>5, PushKeeps
  <1>9. errs = {}
    <2> SUFFICES ASSUME errs # {}  PROVE FALSE
      OBVIOUS
    <2>1. PICK e \in errors' : e.at = size + 1  BY <1>8
    <2> QED  BY <1>4, <1>6, <1>7, <2>1
  <1>10. Within(1) = {}
    <2> SUFFICES ASSUME NEW e \in errors, e.at >= stack[1].from  PROVE FALSE
      BY DEF Within
    <2>1. e.at \in Nat /\ e.at < stack[1].from  BY <1>4, <1>6, <1>8
    <2> QED  BY <1>7, <2>1
  <1>11. Good(stack[1])  BY <1>4, <1>10 DEF IInv, Sound
  <1>12. Top(1).ty # Error
    <2>1. Typed(Top(1).ty)  BY <1>2, <1>3, <1>11 DEF Good
    <2>2. Top(1).ty \in Ty  BY <1>3 DEF Expr
    <2> QED  BY <2>1, <2>2, TypedIs
  <1>13. ty # Error
    <2>1. unwrap_direction(Error).is = "Error"  BY DEF unwrap_direction, Error, Plain
    <2> QED  BY <1>2, <2>1 DEF Vectors
  <1>14. check_type_compatibility(ty, Top(1).ty) = {}
    BY <1>9, <1>12, <1>13 DEF errs
  <1> QED  BY <1>2, <1>3, <1>11, <1>14

\* What remembers an assignment is a step that makes one.
LEMMA LastIs ==
  ASSUME [Next]_vars
  PROVE  \/ last' = {}
         \/ \E target \in Targets : Assign(target)
         \/ UNCHANGED vars
  BY DEF Next, vars, Literal, Ident, Deferred, RangeExpr, Wrap, Unary, Binary, IfExpr, Index,
         BitSlice, ArrayLiteral, Condition, RegClock, RegReset, Discard, Return, Use

LEMMA FamiliesOfAssign ==
  ASSUME IInv, NEW target, Assign(target)
  PROVE  FamiliesKept'
  <1> SUFFICES ASSUME NEW a \in last', Accepted(a)', unwrap_direction(a.ty).is \in Vectors,
                      a.value.gaps \subseteq {"unsized", "slice", "shift"}
               PROVE  a.value.fams \subseteq {unwrap_direction(a.ty).is}
    BY DEF FamiliesKept, unwrap_direction, Vectors
  <1> DEFINE v == a.value
  <1>1. v \in Expr /\ Good(v) /\ check_type_compatibility(a.ty, v.ty) = {}
    BY AcceptedIsGood
  <1> HIDE DEF v
  <1>2. v.ty \in Ty  BY <1>1 DEF Expr
  <1>3. /\ v.fams \subseteq {unwrap_direction(v.ty).is}
        /\ v.ty = Unsized \/ v.ty.is \in Meta => v.fams = {}
    BY <1>1 DEF Good, FamilyKept, v
  <1>4. CASE v.ty \in {Unsized, Plain("MetaUInt"), Plain("MetaInt")}
    <2>1. v.ty = Unsized \/ v.ty.is \in Meta  BY <1>4 DEF Plain, Meta
    <2> QED  BY <1>3, <2>1 DEF v
  <1>5. CASE unwrap_direction(v.ty).is = unwrap_direction(a.ty).is
    BY <1>3, <1>5 DEF v
  <1> QED  BY <1>1, <1>2, <1>4, <1>5, Compatible

LEMMA WidthsOfAssign ==
  ASSUME IInv, NEW target, Assign(target)
  PROVE  WidthsKept'
  <1> SUFFICES ASSUME NEW a \in last', Accepted(a)', unwrap_direction(a.ty).is \in Vectors,
                      a.value.gaps \subseteq {"first"}
               PROVE  /\ a.value.need <= unwrap_direction(a.ty).n
                      /\ unwrap_direction(a.ty).is = "Bits" =>
                           a.value.need = unwrap_direction(a.ty).n
    BY DEF WidthsKept, unwrap_direction, Vectors
  <1> DEFINE v == a.value
             t == unwrap_direction(a.ty)
  <1>1. v \in Expr /\ Good(v) /\ check_type_compatibility(a.ty, v.ty) = {}
    BY AcceptedIsGood
  <1>2. v.gaps \subseteq {"first"} /\ t.is \in Vectors  OBVIOUS
  <1> HIDE DEF v
  <1>3. v.ty \in Ty /\ v.need \in Nat  BY <1>1 DEF Expr
  <1>4. v.need = Need(v.ty) /\ v.need # 0
    BY <1>1, <1>2 DEF Good, NeedKept, NoBitsExplained
  <1>5. v.ty \notin {Unsized, Plain("MetaUInt"), Plain("MetaInt")}
    <2>1. Need(Unsized) = 0
      <3>1. Unsized \in Ty /\ Unsized.n = 0 /\ Unsized.is = "UInt"
        BY UnsizedType, FlatShape DEF Unsized, Plain
      <3> QED  BY <3>1, WidthType DEF Vectors
    <2>2. Need(Plain("MetaUInt")) = 0 /\ Need(Plain("MetaInt")) = 0
      BY DEF Need, bit_width, FlatWidth, Plain, OneBit
    <2> QED  BY <1>4, <2>1, <2>2
  <1>6. /\ unwrap_direction(v.ty).is = t.is
        /\ IF t.is = "Bits" THEN unwrap_direction(v.ty).n \in {t.n, 0}
                            ELSE unwrap_direction(v.ty).n <= t.n
    BY <1>1, <1>3, <1>5, Compatible
  <1>7. Need(v.ty) = unwrap_direction(v.ty).n  BY <1>2, <1>3, <1>6, UnwrapNeed
  <1> HIDE DEF t
  <1>8. v.need <= t.n /\ (t.is = "Bits" => v.need = t.n)
    BY <1>3, <1>4, <1>6, <1>7
  <1> QED  BY <1>8 DEF v, t

(***************************************************************************)
(* No accepted assignment gives a signal a number of another family,       *)
(* whatever operators it has gone through, but through the gaps that       *)
(* FamiliesKept names (check.rs:337-405, 541-690).                         *)
(***************************************************************************)
THEOREM FamiliesAreKept == Spec => []FamiliesKept
  <1>1. Init => FamiliesKept  BY DEF Init, FamiliesKept
  <1>2. IInv /\ FamiliesKept /\ [Next]_vars => FamiliesKept'
    <2> SUFFICES ASSUME IInv, FamiliesKept, [Next]_vars  PROVE FamiliesKept'
      OBVIOUS
    <2>1. CASE last' = {}  BY <2>1 DEF FamiliesKept
    <2>2. CASE \E target \in Targets : Assign(target)  BY <2>2, FamiliesOfAssign
    <2>3. CASE UNCHANGED vars  BY <2>3 DEF FamiliesKept, Accepted, vars
    <2> QED  BY <2>1, <2>2, <2>3, LastIs
  <1> QED  BY <1>1, <1>2, Soundness, PTL DEF Spec

\* A type of the target's kind and width is compatible with it.
LEMMA SameIsCompatible ==
  ASSUME NEW ty, NEW v, unwrap_direction(ty).is \in Vectors,
         unwrap_direction(v).is = unwrap_direction(ty).is,
         unwrap_direction(v).n = unwrap_direction(ty).n, unwrap_direction(ty).n \in Nat
  PROVE  check_type_compatibility(ty, v) = {}
  <1> DEFINE t == unwrap_direction(ty)
             u == unwrap_direction(v)
  <1>1. t.is \in Vectors /\ u.is = t.is /\ u.n = t.n /\ t.n \in Nat  OBVIOUS
  <1> HIDE DEF t, u
  <1>2. /\ WhenNot(u.n <= t.n, "WidthMismatch") = {}
        /\ WhenNot(u.n \in {t.n, 0}, "WidthMismatch") = {}
    BY <1>1 DEF WhenNot
  <1>3. check_type_compatibility(ty, v) =
          CASE v \in {Unsized, Plain("MetaUInt"), Plain("MetaInt")} -> {}
            [] OTHER ->
                 CASE t.is = u.is /\ t.is \in {"UInt", "SInt"} ->
                        WhenNot(u.n <= t.n, "WidthMismatch")
                   [] t.is = u.is /\ t.is = "Bits" -> WhenNot(u.n \in {t.n, 0}, "WidthMismatch")
                   [] OTHER -> WhenNot(t.is = u.is /\ t.is \in OneBit \union {"Struct", "Enum", "Array"},
                                       "TypeMismatch")
    BY DEF check_type_compatibility, t, u
  <1> QED  BY <1>1, <1>2, <1>3 DEF Vectors

\* The target of an assignment to a whole name has the type of the name.
LEMMA WholeTarget ==
  ASSUME NEW target, Len(target.path) = 0, target.is # "other"
  PROVE  resolve_target_type(target) = target.ty
  <1> DEFINE S == 0 .. Len(target.path)
             Body(f, i) ==
               IF i = 0 THEN IF target.is = "other" THEN Error ELSE target.ty
               ELSE CASE target.path[i].part = "field" -> f[i - 1]
                      [] target.path[i].part = "slice" ->
                           Vector("Bits", try_bitslice_width(target.path[i].bounds))
                      [] target.path[i].part = "index" ->
                           CASE f[i - 1].is = "Array" -> f[i - 1].of
                             [] f[i - 1].is \in Vectors -> Plain("Bool")
                             [] OTHER -> Error
             at == CHOOSE f : f = [i \in S |-> Body(f, i)]
             g == [i \in S |-> target.ty]
  <1>1. resolve_target_type(target) = at[Len(target.path)]
    BY Zenon DEF resolve_target_type
  <1>2. \A i \in S : i = 0  BY SMT
  <1>3. \A f : \A i \in S : Body(f, i) = target.ty  BY <1>2
  <1>4. 0 \in S  BY SMT
  <1> HIDE DEF Body, S
  <1>5. g = [i \in S |-> Body(g, i)]  BY <1>3
  <1>6. at = [i \in S |-> Body(at, i)]  BY <1>5
  <1> HIDE DEF at
  <1>7. at[0] = Body(at, 0)  BY <1>4, <1>6
  <1> QED  BY <1>1, <1>3, <1>4, <1>7

\* What holds of an expression with no error in it holds of the value of an
\* assignment before which there is none.
LEMMA FittingOfAssign ==
  ASSUME IInv, NEW target \in Targets, Assign(target)
  PROVE  FittingAccepted'
  <1> SUFFICES ASSUME NEW a \in last', a.target.is = "output", a.target.path = <<>>,
                      unwrap_direction(a.ty).is \in Vectors,
                      \A e \in errors' : e.at \notin a.value.from .. size' - 1,
                      a.value.gaps = {}, a.value.fams = {unwrap_direction(a.ty).is},
                      a.value.need = unwrap_direction(a.ty).n
               PROVE  \A e \in errors' : e.at < a.value.from
    BY DEF FittingAccepted, Accepted, unwrap_direction, Vectors
  <1> DEFINE ty == resolve_target_type(target)
             v == Top(1)
             errs == TargetErrors(target)
                       \union (IF Error \in {ty, v.ty} THEN {}
                               ELSE check_type_compatibility(ty, v.ty))
  <1>1. /\ Len(stack) = 1 /\ size' = size + 1 /\ Push(errs)
        /\ a = [target |-> target, ty |-> ty, value |-> v]
    BY DEF Assign, Use, Step
  <1>2. a.ty = ty /\ a.value = v /\ a.target = target  BY <1>1
  <1> HIDE DEF ty
  <1>3. v = stack[1] /\ v \in Expr
    <2>1. Len(stack) >= 1 /\ Len(stack) - 1 + 1 = 1  BY <1>1
    <2>2. Top(1) \in Expr /\ Top(1) = stack[Len(stack) - 1 + 1]  BY <2>1, Operands
    <2> QED  BY <2>1, <2>2
  <1> HIDE DEF v
  <1>4. size \in Nat /\ errors \subseteq [error : ErrorNames, at : 1 .. size]
        /\ 1 \in DOMAIN stack
    <2>1. stack \in Seq(Expr) /\ size \in 0 .. MaxSize
          /\ errors \subseteq [error : ErrorNames, at : 1 .. size]
      BY DEF IInv, TypeOK, Expr, ErrorNames
    <2> QED  BY <1>1, <2>1, MaxSizeAssumption
  <1>5. v.from \in Nat /\ v.ty \in Ty  BY <1>3 DEF Expr
  <1>6. ty = target.ty /\ TargetErrors(target) = {}
    <2>1. target.path = <<>> /\ target.is = "output"  BY <1>2
    <2>2. Len(target.path) = 0  BY <2>1
    <2>3. ty = target.ty  BY <2>1, <2>2, WholeTarget DEF ty
    <2> QED  BY <2>1, <2>3 DEF TargetErrors, WhenNot
  <1>7. errors \subseteq errors'
    BY <1>1 DEF Push
  <1>8. \A e \in errors : e.at \in 1 .. size /\ e.at < v.from
    <2> SUFFICES ASSUME NEW e \in errors  PROVE e.at \in 1 .. size /\ e.at < v.from
      OBVIOUS
    <2>1. e.at \in 1 .. size  BY <1>4
    <2>2. e.at \notin v.from .. size' - 1  BY <1>2, <1>7
    <2> QED  BY <1>1, <1>4, <1>5, <2>1, <2>2
  <1>9. Within(1) = {}
    <2> SUFFICES ASSUME NEW e \in errors, e.at >= stack[1].from  PROVE FALSE
      BY DEF Within
    <2>1. e.at \in Nat /\ e.at < stack[1].from  BY <1>3, <1>4, <1>8
    <2> QED  BY <1>3, <1>5, <2>1
  <1>10. Good(v)  BY <1>3, <1>4, <1>9 DEF IInv, Sound
  <1> DEFINE t == unwrap_direction(ty)
             u == unwrap_direction(v.ty)
  <1>11. v.gaps = {} /\ v.fams = {t.is} /\ v.need = t.n /\ t.is \in Vectors
    BY <1>2
  <1>12. NeedKept(v) /\ FamilyKept(v) /\ v.need \in Nat
    BY <1>3, <1>10, <1>11 DEF Good, Expr
  <1>13. u.is = t.is
    <2>1. v.fams \subseteq {u.is}  BY <1>11, <1>12 DEF FamilyKept
    <2> QED  BY <1>11, <2>1
  <1>14. u.n = t.n
    <2>1. Need(v.ty) = u.n  BY <1>5, <1>11, <1>13, UnwrapNeed
    <2>2. v.need = Need(v.ty)  BY <1>11, <1>12 DEF NeedKept
    <2> QED  BY <1>11, <2>1, <2>2
  <1>15. t.n \in Nat  BY <1>11, <1>12
  <1>16. check_type_compatibility(ty, v.ty) = {}
    BY <1>11, <1>13, <1>14, <1>15, SameIsCompatible
  <1>17. errs = {}  BY <1>6, <1>16
  <1>18. errors' = errors  BY <1>1, <1>17 DEF Push
  <1> QED  BY <1>2, <1>8, <1>18

(***************************************************************************)
(* No assignment that fits is refused, whatever operators made its value   *)
(* (check.rs:337-405, 541-690).                                            *)
(***************************************************************************)
THEOREM FittingIsAccepted == Spec => []FittingAccepted
  <1>1. Init => FittingAccepted  BY DEF Init, FittingAccepted
  <1>2. IInv /\ FittingAccepted /\ [Next]_vars => FittingAccepted'
    <2> SUFFICES ASSUME IInv, FittingAccepted, [Next]_vars  PROVE FittingAccepted'
      OBVIOUS
    <2>1. CASE last' = {}  BY <2>1 DEF FittingAccepted
    <2>2. CASE \E target \in Targets : Assign(target)  BY <2>2, FittingOfAssign
    <2>3. CASE UNCHANGED vars  BY <2>3 DEF FittingAccepted, Accepted, vars
    <2> QED  BY <2>1, <2>2, <2>3, LastIs
  <1> QED  BY <1>1, <1>2, Soundness, PTL DEF Spec

(***************************************************************************)
(* No accepted assignment truncates, for any size of words, but through    *)
(* the gaps of WidthsKept: the value is no wider than the signal, and as   *)
(* wide for Bits (check.rs:337-405, 724-765).                              *)
(***************************************************************************)
THEOREM WidthsAreKept == Spec => []WidthsKept
  <1>1. Init => WidthsKept  BY DEF Init, WidthsKept
  <1>2. IInv /\ WidthsKept /\ [Next]_vars => WidthsKept'
    <2> SUFFICES ASSUME IInv, WidthsKept, [Next]_vars  PROVE WidthsKept'
      OBVIOUS
    <2>1. CASE last' = {}  BY <2>1 DEF WidthsKept
    <2>2. CASE \E target \in Targets : Assign(target)  BY <2>2, WidthsOfAssign
    <2>3. CASE UNCHANGED vars  BY <2>3 DEF WidthsKept, Accepted, vars
    <2> QED  BY <2>1, <2>2, <2>3, LastIs
  <1> QED  BY <1>1, <1>2, Soundness, PTL DEF Spec

================================================================================
