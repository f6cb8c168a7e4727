------------------------------ MODULE TypeChecker ------------------------------
(***************************************************************************)
(* The second semantic pass (sema/check.rs): the types of expressions and  *)
(* what they are used for.  check_expr is a recursion over an expression;  *)
(* here the walk is in the order in which it returns, operands before      *)
(* their operator, with the types returned and not yet used on a stack.    *)
(* A statement takes the type of its expression off the stack.             *)
(*                                                                         *)
(* The program is not a constant: leaves, operators and statements are     *)
(* chosen as the walk goes.  A name stands for its type, since that is all *)
(* the pass takes from the table.                                          *)
(*                                                                         *)
(* Besides its type an expression has the value that ConstEval gives it    *)
(* and, for the properties only, what the language says of it: the width   *)
(* by the rules (language design, 2.2) with no bound on integers, the      *)
(* families of numbers in it, and the gaps it comes by (see Gaps).         *)
(***************************************************************************)
EXTENDS ConstEval, Sequences, FiniteSets

CONSTANTS
  NameTypes,             \* bound: the types of the names in programs
  Targets,               \* bound: the targets of their assignments
  Literals,              \* bound: their numbers
  Bounds,                \* bound: the bounds of their slices, pairs of values
  MaxSize                \* bound: their leaves, operators and statements

VARIABLES
  stack,
  errors,
  size,                  \* the leaves, operators and statements so far
  last                   \* history: the last assignment, if nothing came after

vars == <<stack, errors, size, last>>

-----------------------------------------------------------------------------
(* Types. *)

Vectors == {"UInt", "SInt", "Bits"}
OneBit == {"Bool", "Clock", "SyncReset", "AsyncReset"}
Nominal == {"Struct", "Enum", "Interface"}
Meta == {"MetaUInt", "MetaInt", "MetaBool", "MetaFloat", "MetaString", "MetaType"}

\* n is the width of a vector or Fixed, the size of an array, and the depth of
\* a memory; of is the type of its elements, or the type in a direction (In,
\* Out, InOut or Flip).  What is in them is flat: no array of arrays.
Flat == [is : Vectors \union {"Fixed"}, n : 0 .. Word - 1]
        \union [is : OneBit \union Nominal \union Meta \union {"Void", "Error"}, n : {0}]
Ty == Flat \union [is : {"Array", "Memory"}, n : 0 .. Word - 1, of : Flat]
           \union [is : {"Direction"}, n : {0}, of : Flat]

Plain(is) == [is |-> is, n |-> 0]
Vector(is, n) == [is |-> is, n |-> n]
Error == Plain("Error")
Unsized == Plain("UInt")

unwrap_direction(t) == IF t.is = "Direction" THEN t.of ELSE t

is_numeric(t) == t.is \in Vectors \union {"Fixed"}

\* bit_width, with 0 for None, as every caller has it.
FlatWidth(t) == IF t.is \in OneBit THEN 1 ELSE t.n
bit_width(t) ==
  CASE t.is \in {"Array", "Memory"} -> (FlatWidth(t.of) * t.n) % Word
    [] t.is = "Direction" -> FlatWidth(t.of)
    [] OTHER -> FlatWidth(t)

\* A target: a name with its direction, or something else that cannot be
\* assigned, and the fields, indices and slices taken of it.
Slice == [high : ConstValue, low : ConstValue]
Part == [part : {"field", "index"}] \union [part : {"slice"}, bounds : Slice]
Target == [is : {"input", "output", "other"}, ty : Ty, path : Seq(Part)]

ASSUME NameTypesAssumption == NameTypes \subseteq Ty
ASSUME TargetsAssumption == Targets \subseteq Target
ASSUME BoundsAssumption == Bounds \subseteq Slice
ASSUME LiteralsAssumption == Literals \subseteq 0 .. Word - 2
ASSUME MaxSizeAssumption == MaxSize \in Nat

-----------------------------------------------------------------------------
(* Expressions. *)

BinOp == {"Add", "Sub", "Mul", "Div", "Mod", "Pow", "BitAnd", "Shl", "Shr",
          "Eq", "Lt", "And", "Or", "Implies", "Concat"}
Arithmetic == {"Add", "Sub", "Mul", "Div", "Mod", "BitAnd"}
UnaryOp == {"Neg", "BitNot", "LogicalNot"}

\* Where the pass does not know, or does not say, what an expression is:
\*   untyped   it has a part that is not typed at all: an unknown name, a
\*             field, a call, a cast
\*   unsized   a literal or constant without a width, a width that failed, or
\*             a name whose type has no bits: of a module, a struct, an empty array
\*   pow       a power, which is taken for an unsized literal
\*   slice     bounds that name constants
\*   shift     an amount that names a constant
\*   first     an unsized literal before an operator
\*   retyped   a static shift of what is no vector, or Fixed before a literal
\*   overflow  a width that is no 64-bit number
\*   elements  an array literal whose elements differ
Gaps == {"untyped", "unsized", "pow", "slice", "shift", "first", "retyped",
         "overflow", "elements"}

\* The width of a type with no bound on integers.
Need(t) ==
  CASE t.is \in {"Array", "Memory"} -> FlatWidth(t.of) * t.n
    [] OTHER -> bit_width(t)

Innermost(t) == IF t.is \in {"Array", "Memory", "Direction"} THEN t.of ELSE t

\* What is not known of a name of type t.
TypeGaps(t) ==
  (IF Innermost(t).is = "Error" THEN {"untyped"} ELSE {})
  \union (IF Need(t) = 0 THEN {"unsized"} ELSE {})

\* A number without a width has no family of its own.
Families(t) == IF t = Unsized \/ t.is \in Meta THEN {} ELSE {unwrap_direction(t).is}

Overflow(need) == IF need < Word THEN {} ELSE {"overflow"}

Leaf(ty, val) == [ty |-> ty, val |-> val, from |-> size + 1, need |-> Need(ty),
                  fams |-> Families(ty), gaps |-> TypeGaps(ty)]

-----------------------------------------------------------------------------
(* The rules: each gives the errors that check_... pushes. *)

WhenNot(p, error) == IF p THEN {} ELSE {error}

\* Mutant: a bit for the carry.
max_width_carry(a, b) ==
  ((IF bit_width(a) >= bit_width(b) THEN bit_width(a) ELSE bit_width(b)) + 1) % Word

max_width(a, b) == IF bit_width(a) >= bit_width(b) THEN bit_width(a) ELSE bit_width(b)

sum_width(a, b) == (bit_width(a) + bit_width(b)) % Word

same_kind_with_width(base, w) == Vector(IF base.is \in Vectors THEN base.is ELSE "UInt", w)

\* Mutant: any two numbers can be added.
check_arithmetic_any(l, r) == WhenNot(is_numeric(l) /\ is_numeric(r), "TypeMismatch")

check_arithmetic_operands(l, r) ==
  WhenNot(/\ is_numeric(l) /\ is_numeric(r)
          /\ (l.is = r.is /\ l.is \in Vectors) \/ Unsized \in {l, r},
          "TypeMismatch")

types_compatible_for_compare(a, b) ==
  LET l == unwrap_direction(a)
      r == unwrap_direction(b)
  IN  (l.is = r.is /\ l.is \in Vectors \union {"Bool"}) \/ Unsized \in {l, r}

\* The amount of a static shift; what is no u64 counts as 0.
Amount(val) == IF val.n < Word THEN val.n ELSE 0

\* check_binary on operands of which none is an Error.
BinaryType(op, l, r) ==
  CASE op \in {"Add", "Sub", "BitAnd"} -> same_kind_with_width(l.ty, max_width(l.ty, r.ty))
    [] op = "Mul" -> same_kind_with_width(l.ty, sum_width(l.ty, r.ty))
    [] op = "Pow" -> Unsized
    [] op = "Shl" /\ r.val.is = "UInt" ->
         same_kind_with_width(l.ty, (bit_width(l.ty) + Amount(r.val)) % Word)
    [] op = "Shl" /\ r.val.is # "UInt" -> l.ty
    [] op \in {"Div", "Mod", "Shr"} -> l.ty
    [] op \in {"Eq", "Lt", "And", "Or", "Implies"} -> Plain("Bool")
    [] op = "Concat" -> Vector("Bits", sum_width(l.ty, r.ty))

BinaryErrors(op, l, r) ==
  CASE op \in Arithmetic -> check_arithmetic_operands(l.ty, r.ty)
    [] op \in {"Eq", "Lt"} -> WhenNot(types_compatible_for_compare(l.ty, r.ty), "TypeMismatch")
    [] op \in {"And", "Or", "Implies"} ->
         WhenNot(l.ty = Plain("Bool") /\ r.ty = Plain("Bool"), "TypeMismatch")
    [] op \in {"Pow", "Shl", "Shr", "Concat"} -> {}

\* Mutant: a slice has one bit too few.
slice_width_short(b) ==
  IF b.high.is = "UInt" /\ b.low.is = "UInt" /\ b.high.n >= b.low.n
    THEN (b.high.n - b.low.n) % Word ELSE 0

try_bitslice_width(b) ==
  IF b.high.is = "UInt" /\ b.low.is = "UInt" /\ b.high.n >= b.low.n
    THEN (b.high.n - b.low.n + 1) % Word ELSE 0

check_type_compatibility(target, value) ==
  LET t == unwrap_direction(target)
      v == unwrap_direction(value)
  IN  CASE value \in {Unsized, Plain("MetaUInt"), Plain("MetaInt")} -> {}
        [] OTHER ->
             CASE t.is = v.is /\ t.is \in {"UInt", "SInt"} -> WhenNot(v.n <= t.n, "WidthMismatch")
               [] t.is = v.is /\ t.is = "Bits" -> WhenNot(v.n \in {t.n, 0}, "WidthMismatch")
               [] OTHER -> WhenNot(t.is = v.is /\ t.is \in OneBit \union {"Struct", "Enum", "Array"},
                                   "TypeMismatch")

\* The type of a field is that of the object.
resolve_target_type(target) ==
  LET at[i \in 0 .. Len(target.path)] ==
        IF i = 0 THEN IF target.is = "other" THEN Error ELSE target.ty
        ELSE CASE target.path[i].part = "field" -> at[i - 1]
               [] target.path[i].part = "slice" ->
                    Vector("Bits", try_bitslice_width(target.path[i].bounds))
               [] target.path[i].part = "index" ->
                    CASE at[i - 1].is = "Array" -> at[i - 1].of
                      [] at[i - 1].is \in Vectors -> Plain("Bool")
                      [] OTHER -> Error
  IN  at[Len(target.path)]

\* The errors about the target itself; only a whole name is looked up for
\* its direction.
TargetErrors(target) ==
  WhenNot(target.is # "other", "InvalidAssignTarget")
  \union WhenNot(target.is # "input" \/ target.path # <<>>, "DirectionViolation")

-----------------------------------------------------------------------------
(* The walk. *)

Top(k) == stack[Len(stack) + 1 - k]

\* One more leaf, operator or statement.  What cannot be finished within the
\* bound is not begun: a step takes at most three expressions off the stack and
\* puts one on it.
Step ==
  /\ size < MaxSize
  /\ size' = size + 1
  /\ stack' = <<>> \/ Len(stack') < 2 * (MaxSize - size')

Push(errs) == errors' = errors \union {[error |-> e, at |-> size + 1] : e \in errs}

\* The expression e, made of the k on top of the stack.
Return(k, e, errs) ==
  /\ stack' = Append(SubSeq(stack, 1, Len(stack) - k), e)
  /\ Step
  /\ Push(errs)
  /\ last' = {}

Init == stack = <<>> /\ errors = {} /\ size = 0 /\ last = {}

\* An integer without a width, a number with one, `true`, or a string.
Literal ==
  \/ \E n \in Literals : Return(0, Leaf(Unsized, UInt(n)), {})
  \/ \E n \in Literals : Return(0, Leaf(Vector("UInt", n + 1), UInt(n)), {})
  \/ Return(0, Leaf(Plain("Bool"), Bool(TRUE)), {})
  \/ Return(0, Leaf(Plain("MetaString"), NoConst), {})

\* A name: its type, or Error if nothing declares it.
Ident == \E t \in NameTypes \union {Error} : Return(0, Leaf(t, NoConst), {})

\* Field access, call, pipe, cast, struct literal, and []: no part is looked at.
Deferred == Return(0, Leaf(Error, NoConst), {})

\* A range: its ends are not looked at either.
RangeExpr == Return(0, Leaf(Plain("MetaUInt"), NoConst), {})

\* `next` and `unchecked`, which are what is in them, and `eventually`.
Wrap(kind) ==
  /\ stack # <<>>
  /\ Return(1, [Top(1) EXCEPT !.val = NoConst,
                              !.ty = IF kind = "eventually" THEN Plain("Bool") ELSE @,
                              !.need = IF kind = "eventually" THEN 1 ELSE @,
                              !.fams = IF kind = "eventually" THEN {"Bool"} ELSE @], {})

\* check_unary.
Unary(op) ==
  LET e == Top(1)
      not == op = "LogicalNot" /\ e.ty # Error
  IN  /\ stack # <<>>
      /\ Return(1, [e EXCEPT !.val = eval_unary(op, @),
                             !.ty = IF not THEN Plain("Bool") ELSE @,
                             !.need = IF not THEN 1 ELSE @,
                             !.fams = IF not THEN {"Bool"} ELSE @],
                IF not THEN WhenNot(e.ty = Plain("Bool"), "TypeMismatch") ELSE {})

\* The language's width of an operation, and the families it joins.
BinaryNeed(op, l, r) ==
  CASE op \in {"Add", "Sub", "BitAnd"} -> IF l.need >= r.need THEN l.need ELSE r.need
    [] op \in {"Mul", "Concat"} -> l.need + r.need
    [] op = "Shl" -> l.need + (IF r.val.is = "UInt" THEN r.val.n ELSE 0)
    [] op \in {"Div", "Mod", "Shr"} -> l.need
    [] op = "Pow" -> 0
    [] OTHER -> 1

BinaryFamilies(op, l, r) ==
  CASE op \in Arithmetic -> l.fams \union r.fams
    [] op \in {"Shl", "Shr", "Pow"} -> l.fams
    [] op = "Concat" -> {"Bits"}
    [] OTHER -> {"Bool"}

BinaryGaps(op, l, r) ==
  LET both == l.gaps \union r.gaps
  IN  CASE op \in {"Eq", "Lt", "And", "Or", "Implies"} -> both \intersect {"untyped"}
        [] op = "Pow" -> both \union {"pow"}
        [] op = "Shl" ->
             l.gaps \union (r.gaps \intersect {"untyped"})
             \union (IF r.ty.is \in Meta THEN {"shift"} ELSE {})
             \union (IF r.val.is = "UInt" /\ l.ty.is \notin Vectors THEN {"retyped"} ELSE {})
        [] op \in Arithmetic ->
             both \union (IF l.ty = Unsized /\ r.ty # Unsized THEN {"first"} ELSE {})
                  \union (IF l.ty.is = "Fixed" THEN {"retyped"} ELSE {})
        [] OTHER -> both

Binary(op) ==
  LET l == Top(2)
      r == Top(1)
      typed == Error \notin {l.ty, r.ty}
  IN  /\ Len(stack) >= 2
      /\ Return(2, [ty |-> IF typed THEN BinaryType(op, l, r) ELSE Error,
                    val |-> eval_binary(op, l.val, r.val),
                    from |-> l.from,
                    need |-> BinaryNeed(op, l, r),
                    fams |-> BinaryFamilies(op, l, r),
                    gaps |-> BinaryGaps(op, l, r) \union Overflow(BinaryNeed(op, l, r))],
                IF typed THEN BinaryErrors(op, l, r) ELSE {})

\* The errors of a condition: of `if`, `elif` and `when`, or of an if-expression.
ConditionErrors(ty) == WhenNot(ty \in {Plain("Bool"), Error}, "TypeMismatch")

\* An if-expression: the branch that has a type, or the first.
IfExpr ==
  LET c == Top(3)
      t == Top(2)
      e == Top(1)
      same == Error \in {t.ty, e.ty} \/ t.ty = e.ty
  IN  /\ Len(stack) >= 3
      /\ Return(3, [ty |-> IF t.ty = Error THEN e.ty ELSE t.ty,
                    val |-> eval_if(c.val, t.val, e.val),
                    from |-> c.from,
                    need |-> IF t.need >= e.need THEN t.need ELSE e.need,
                    fams |-> t.fams \union e.fams,
                    gaps |-> (c.gaps \intersect {"untyped"}) \union t.gaps \union e.gaps],
                ConditionErrors(c.ty) \union WhenNot(same, "TypeMismatch"))

\* Mutant: no error where a cannot be indexed.
IndexQuiet ==
  LET a == Top(1)
      ty == CASE a.ty.is = "Array" -> a.ty.of
              [] a.ty.is \in Vectors -> Plain("Bool")
              [] OTHER -> Error
  IN  /\ stack # <<>>
      /\ Return(1, [a EXCEPT !.ty = ty, !.val = NoConst, !.need = Need(ty), !.fams = Families(ty)], {})

\* a[i]; the index is not looked at.
Index ==
  LET a == Top(1)
      ty == CASE a.ty.is = "Array" -> a.ty.of
              [] a.ty.is \in Vectors -> Plain("Bool")
              [] OTHER -> Error
  IN  /\ stack # <<>>
      /\ Return(1, [a EXCEPT !.ty = ty, !.val = NoConst, !.need = Need(ty), !.fams = Families(ty)],
                WhenNot(a.ty.is \in Vectors \union {"Array", "Error"}, "TypeMismatch"))

\* a[h:l]; the bounds are only evaluated, with no names.
BitSlice ==
  \E b \in Bounds :
    LET a == Top(1)
        known == b.high.is = "UInt" /\ b.low.is = "UInt" /\ b.high.n >= b.low.n
        need == IF known THEN b.high.n - b.low.n + 1 ELSE 0
    IN  /\ stack # <<>>
        /\ Return(1, [ty |-> Vector("Bits", try_bitslice_width(b)), val |-> NoConst,
                      from |-> a.from, fams |-> {"Bits"},
                      need |-> need,
                      gaps |-> (a.gaps \intersect {"untyped"}) \union Overflow(need)
                               \union (IF known THEN {} ELSE {"slice"})], {})

\* [a, b]; only the first element has a say.
ArrayLiteral ==
  LET a == Top(2)
      b == Top(1)
  IN  /\ Len(stack) >= 2 /\ a.ty \in Flat
      /\ Return(2, [ty |-> [is |-> "Array", n |-> 2, of |-> a.ty], val |-> NoConst,
                    from |-> a.from, need |-> 2 * a.need, fams |-> {"Array"},
                    gaps |-> a.gaps \union b.gaps
                             \union (IF a.ty = b.ty THEN {} ELSE {"elements"})],
                {})

\* A statement that uses the type of an expression.
Use(errs, done) ==
  /\ Len(stack) = 1
  /\ stack' = <<>>
  /\ Step
  /\ Push(errs)
  /\ last' = done

\* check_assignment: compatibility is of no interest if either side is an Error.
Assign(target) ==
  LET ty == resolve_target_type(target)
      value == Top(1)
  IN  Use(TargetErrors(target)
            \union (IF Error \in {ty, value.ty} THEN {}
                    ELSE check_type_compatibility(ty, value.ty)),
          {[target |-> target, ty |-> ty, value |-> value]})

Condition == Use(ConditionErrors(Top(1).ty), {})

\* The clock and the reset of a reg block.
RegClock == Use(WhenNot(Top(1).ty.is \in {"Clock", "Error"}, "TypeMismatch"), {})
RegReset == Use(WhenNot(Top(1).ty.is \in {"SyncReset", "AsyncReset", "Error"}, "TypeMismatch"), {})

\* An expression that may have any type: a scrutinee, the range of a `for`, an
\* enable, an assertion, or an expression as a statement.
Discard == Use({}, {})

Next ==
  \/ Literal \/ Ident \/ Deferred \/ RangeExpr
  \/ \E kind \in {"next", "unchecked", "eventually"} : Wrap(kind)
  \/ \E op \in UnaryOp : Unary(op)
  \/ \E op \in BinOp : Binary(op)
  \/ IfExpr \/ Index \/ BitSlice \/ ArrayLiteral
  \/ \E target \in Targets : Assign(target)
  \/ Condition \/ RegClock \/ RegReset \/ Discard

Spec == Init /\ [][Next]_vars

-----------------------------------------------------------------------------

(***************************************************************************)
(* The types of the variables: widths are 64-bit numbers, and every        *)
(* expression on the stack begins after the one before it.                 *)
(***************************************************************************)
TypeOK ==
  /\ stack \in Seq([ty : Ty, val : ConstValue, from : Nat, need : Nat,
                    fams : SUBSET {t.is : t \in Ty}, gaps : SUBSET Gaps])
  /\ \A i \in DOMAIN stack : stack[i].from <= size
  /\ \A i \in 2 .. Len(stack) : stack[i - 1].from < stack[i].from
  /\ errors \subseteq [error : {"TypeMismatch", "WidthMismatch", "InvalidAssignTarget",
                                "DirectionViolation"},
                       at : 1 .. size]
  /\ size \in 0 .. MaxSize
  /\ Cardinality(last) <= 1

\* The errors in the k-th expression of the stack.
Within(k) ==
  {e \in errors : e.at >= stack[k].from /\ (k < Len(stack) => e.at < stack[k + 1].from)}

\* Nothing is wrong with the assignment a.
Accepted(a) == \A e \in errors : e.at < a.value.from

(***************************************************************************)
(* An expression of type Error has an error in it, or a part that the pass *)
(* does not type ("Returns `Ty::Error` on any error (but the error is also *)
(* pushed onto `self.errors`)", check.rs:411).                             *)
(***************************************************************************)
ErrorsExplained ==
  \A k \in DOMAIN stack :
    stack[k].ty = Error => Within(k) # {} \/ "untyped" \in stack[k].gaps

(***************************************************************************)
(* A number in an accepted assignment to a signal is of the signal's       *)
(* family, through all operators: no signed value ends up in an unsigned   *)
(* signal.  Excepted are values with the gaps `first`, `pow`, `retyped`,   *)
(* `elements` and `untyped`, in which the pass loses the family, and       *)
(* `overflow`: a width of 2^64 is 0 to it, which is an unsized literal.    *)
(* (check.rs:337-405, 541-690.)                                            *)
(***************************************************************************)
FamiliesKept ==
  \A a \in last :
    LET t == unwrap_direction(a.ty)
    IN  /\ Accepted(a) /\ t.is \in Vectors
        /\ a.value.gaps \subseteq {"unsized", "slice", "shift"}
        => a.value.fams \subseteq {t.is}

(***************************************************************************)
(* An accepted assignment truncates nothing ("No silent truncation",       *)
(* language design, 2.2): the value, by the rules of the language on       *)
(* unbounded integers, is no wider than the signal, and as wide for Bits.  *)
(* Where it may be wider is what Gaps lists (check.rs:337-405, 724-765).   *)
(* It is half of that section's principle: the other half, "Width          *)
(* mismatches are always compile errors", and 2.7, where a narrower value  *)
(* needs zero_extend or sign_extend, do not hold, since check.rs:345-361   *)
(* lets a narrower UInt or SInt pass.                                      *)
(***************************************************************************)
WidthsKept ==
  \A a \in last :
    LET t == unwrap_direction(a.ty)
    IN  /\ Accepted(a) /\ t.is \in Vectors
        /\ a.value.gaps \subseteq {"first"}
        => /\ a.value.need <= t.n
           /\ t.is = "Bits" => a.value.need = t.n

(***************************************************************************)
(* The converse: an assignment to a whole output of a value without gaps   *)
(* and without an error in it, whose numbers are all of the output's       *)
(* family and which has its width by the rules of the language, is not     *)
(* refused.  No rule makes a type wider than the language does, or of      *)
(* another family (check.rs:337-405, 541-690).                             *)
(***************************************************************************)
FittingAccepted ==
  \A a \in last :
    LET t == unwrap_direction(a.ty)
    IN  /\ a.target.is = "output" /\ a.target.path = <<>> /\ t.is \in Vectors
        /\ \A e \in errors : e.at \notin a.value.from .. size - 1
        /\ a.value.gaps = {} /\ a.value.fams = {t.is} /\ a.value.need = t.n
        => Accepted(a)

================================================================================
