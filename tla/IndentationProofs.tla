--------------------------- MODULE IndentationProofs ---------------------------
(***************************************************************************)
(* Proofs about the indentation pass, for every set of widths and files of *)
(* any length.  The stack's being sorted and the pop loop's having a place *)
(* to stop are what the stated invariants need to be inductive.            *)
(***************************************************************************)
EXTENDS Indentation, FiniteSetTheorems, SequenceTheorems, Induction, TLAPS

\* The levels on the stack grow strictly.
StackSorted ==
  \A i, j \in 1 .. Len(indent_stack) : i < j => indent_stack[i] < indent_stack[j]

\* The pop loop stops somewhere, whatever the level it looks for.
LoopStops ==
  \A level \in Nat : \E k \in 1 .. Len(indent_stack) : StopsAt(k, level)

IInv == TypeOK /\ StackSorted /\ LoopStops /\ StackIsOpenLevels

-----------------------------------------------------------------------------

LEMMA WidthsAreLevels ==
  ASSUME NEW w \in Widths
  PROVE  measure_indent(w) \in Nat
BY WidthsAssumption DEF measure_indent

\* What the other proofs need of the stack's type.
LEMMA StackFacts ==
  ASSUME TypeOK
  PROVE  /\ Len(indent_stack) \in Nat \ {0}
         /\ DOMAIN indent_stack = 1 .. Len(indent_stack)
         /\ \A i \in 1 .. Len(indent_stack) : indent_stack[i] \in Nat
<1>1. indent_stack \in Seq(Nat) /\ indent_stack # <<>>
  BY DEF TypeOK
<1> QED
  BY <1>1

\* The depth at which the loop stops is one at which it may stop.
LEMMA KeptStops ==
  ASSUME LoopStops, NEW level \in Nat
  PROVE  Kept(level) \in 1 .. Len(indent_stack) /\ StopsAt(Kept(level), level)
<1>1. \E k \in 1 .. Len(indent_stack) : StopsAt(k, level)
  BY DEF LoopStops
<1> QED
  BY <1>1 DEF Kept

\* A line closes the blocks that are deeper than it and adds its own.
LEMMA OpenLevelsAppend ==
  ASSUME NEW ls \in Seq(Nat), NEW level \in Nat
  PROVE  Offside!OpenLevels(Append(ls, level))
           = {m \in Offside!OpenLevels(ls) : m <= level} \union {level}
<1> DEFINE ns == Append(ls, level)
           Open(s) == {j \in DOMAIN s : \A m \in j .. Len(s) : s[m] >= s[j]}
<1>1. /\ Len(ns) = Len(ls) + 1
      /\ DOMAIN ns = 1 .. Len(ls) + 1
      /\ DOMAIN ls = 1 .. Len(ls)
      /\ ns[Len(ls) + 1] = level
      /\ \A j \in 1 .. Len(ls) : ns[j] = ls[j] /\ ls[j] \in Nat
  OBVIOUS
<1>2. Len(ls) + 1 \in Open(ns)
  BY <1>1
<1>3. \A j \in 1 .. Len(ls) : j \in Open(ns) <=> j \in Open(ls) /\ ls[j] <= level
  BY <1>1
<1>4. /\ Offside!OpenLevels(ns) = {0} \union {ns[k] : k \in Open(ns)}
      /\ Offside!OpenLevels(ls) = {0} \union {ls[k] : k \in Open(ls)}
  BY DEF Offside!OpenLevels
<1>5. ASSUME NEW v
      PROVE  v \in Offside!OpenLevels(ns) <=>
               v \in {m \in Offside!OpenLevels(ls) : m <= level} \union {level}
  <2>1. v \in {ns[k] : k \in Open(ns)} <=>
          v = level \/ \E k \in 1 .. Len(ls) : k \in Open(ls) /\ ls[k] <= level /\ v = ls[k]
    <3>1. ASSUME v \in {ns[k] : k \in Open(ns)}
          PROVE  v = level \/ \E k \in 1 .. Len(ls) : k \in Open(ls) /\ ls[k] <= level /\ v = ls[k]
      <4>1. PICK k \in Open(ns) : v = ns[k]
        BY <3>1
      <4>2. CASE k = Len(ls) + 1
        BY <4>1, <4>2, <1>1
      <4>3. CASE k \in 1 .. Len(ls)
        BY <4>1, <4>3, <1>1, <1>3
      <4> QED
        BY <4>2, <4>3, <1>1
    <3>2. ASSUME v = level
          PROVE  v \in {ns[k] : k \in Open(ns)}
      BY <3>2, <1>1, <1>2
    <3>3. ASSUME NEW k \in 1 .. Len(ls), k \in Open(ls), ls[k] <= level, v = ls[k]
          PROVE  v \in {ns[i] : i \in Open(ns)}
      BY <3>3, <1>1, <1>3
    <3> QED
      BY <3>1, <3>2, <3>3
  <2>2. Open(ls) \subseteq 1 .. Len(ls)
    BY <1>1
  <2>3. v \in Offside!OpenLevels(ls) /\ v <= level <=>
          v = 0 \/ \E k \in 1 .. Len(ls) : k \in Open(ls) /\ ls[k] <= level /\ v = ls[k]
    <3> HIDE DEF Open
    <3> QED
      BY <2>2, <1>4
  <2>4. v \in Offside!OpenLevels(ns) <=> v = 0 \/ v \in {ns[k] : k \in Open(ns)}
    BY <1>4, Zenon
  <2> HIDE DEF Open, ns
  <2> QED
    BY <2>1, <2>3, <2>4
<1> QED
  BY <1>5

-----------------------------------------------------------------------------

LEMMA LineTokensType == LineTokens \subseteq Seq(Tokens)
<1>1. "Content" \in Tokens
  BY DEF Tokens
<1>2. <<"Content">> \in Seq(Tokens)
  BY <1>1
<1>3. <<>> \in Seq(Tokens)
  OBVIOUS
<1> QED
  BY <1>2, <1>3 DEF LineTokens

LEMMA DedentsType ==
  ASSUME NEW n \in Nat
  PROVE  Dedents(n) \in Seq(Tokens) /\ Len(Dedents(n)) = n
<1>1. "Dedent" \in Tokens
  BY DEF Tokens
<1> QED
  BY <1>1 DEF Dedents

LEMMA InitIInv == Init => IInv
<1> SUFFICES ASSUME Init PROVE IInv
  OBVIOUS
<1> USE DEF Init
<1>1. TypeOK
  <2>1. result \in Seq(Tokens)
    BY LineTokensType
  <2>2. indent_stack \in Seq(Nat) \ {<<>>} /\ lines \in Seq(Nat)
    OBVIOUS
  <2> QED
    BY <2>1, <2>2, MaxLinesAssumption DEF TypeOK
<1>2. StackSorted
  BY DEF StackSorted
<1>3. LoopStops
  BY DEF LoopStops, StopsAt
<1>4. StackIsOpenLevels
  BY DEF StackIsOpenLevels, Offside!OpenLevels
<1> QED
  BY <1>1, <1>2, <1>3, <1>4 DEF IInv

\* One Newline, a line deeper than the innermost block.
LEMMA DeeperStep ==
  ASSUME IInv, NEW w \in Widths, NEW rest \in LineTokens, DeeperLine(w, rest)
  PROVE  IInv'
<1> DEFINE level == measure_indent(w)
           n == Len(indent_stack)
<1>1. level \in Nat /\ n \in Nat \ {0} /\ level > indent_stack[n]
  BY WidthsAreLevels, StackFacts DEF IInv, DeeperLine, Top
<1>2. /\ indent_stack' = Append(indent_stack, level)
      /\ lines' = Append(lines, level)
      /\ status = "scanning" /\ status' = "scanning"
  BY DEF DeeperLine, ReadNewline
<1>3. /\ Len(indent_stack') = n + 1
      /\ indent_stack'[n + 1] = level
      /\ \A k \in 1 .. n : indent_stack'[k] = indent_stack[k] /\ indent_stack[k] \in Nat
      /\ DOMAIN indent_stack = 1 .. n
      /\ DOMAIN indent_stack' = 1 .. n + 1
  BY <1>2 DEF IInv, TypeOK
<1>4. \A k \in 1 .. n : indent_stack[k] < level
  BY <1>1, <1>3 DEF IInv, StackSorted
<1>5. TypeOK'
  <2>1. <<"Newline", "Indent">> \in Seq(Tokens)
    BY DEF Tokens
  <2>2. result' \in Seq(Tokens)
    BY <2>1, LineTokensType DEF IInv, TypeOK, DeeperLine
  <2>3. newlines' \in 0 .. MaxLines
    BY MaxLinesAssumption DEF IInv, TypeOK, DeeperLine, ReadNewline
  <2>4. indent_stack' \in Seq(Nat) /\ lines' \in Seq(Nat)
    BY <1>1, <1>2 DEF IInv, TypeOK
  <2>5. indent_stack' # <<>>
    BY <1>1, <1>3
  <2>6. indent_stack'[1] = 0
    BY <1>1, <1>3 DEF IInv, TypeOK
  <2> QED
    BY <2>2, <2>3, <2>4, <2>5, <2>6, <1>2 DEF TypeOK
<1>6. StackSorted'
  BY <1>1, <1>3, <1>4 DEF IInv, StackSorted
<1>7. LoopStops'
  <2> SUFFICES ASSUME NEW l \in Nat
               PROVE  \E k \in 1 .. Len(indent_stack') : StopsAt(k, l)'
    BY DEF LoopStops
  <2>1. CASE level <= l
    BY <2>1, <1>1, <1>3 DEF StopsAt
  <2>2. CASE l < level
    <3>1. PICK k \in 1 .. n : StopsAt(k, l)
      BY DEF IInv, LoopStops
    <3> QED
      BY SMTT(30), <3>1, <2>2, <1>1, <1>3 DEF StopsAt
  <2> QED
    BY <2>1, <2>2, <1>1
<1>8. StackIsOpenLevels'
  <2> DEFINE Old == {indent_stack[k] : k \in DOMAIN indent_stack}
  <2>1. Offside!OpenLevels(lines) = Old
    BY <1>2 DEF IInv, StackIsOpenLevels
  <2>2. Offside!OpenLevels(lines') = {m \in Old : m <= level} \union {level}
    BY <2>1, <1>1, <1>2, OpenLevelsAppend DEF IInv, TypeOK
  <2>3. {m \in Old : m <= level} = Old
    BY <1>1, <1>3, <1>4
  <2>4. {indent_stack'[k] : k \in DOMAIN indent_stack'} = Old \union {level}
    BY SMTT(30), <1>1, <1>3
  <2>5. (Offside!OpenLevels(lines))' = Offside!OpenLevels(lines')
    BY DEF Offside!OpenLevels
  <2> QED
    BY <2>2, <2>3, <2>4, <2>5 DEF StackIsOpenLevels
<1> QED
  BY <1>5, <1>6, <1>7, <1>8 DEF IInv

\* Popping the stack down to any depth keeps it sorted, and the loop finds
\* its place in what is left.
LEMMA PopStep ==
  ASSUME IInv, NEW k \in 1 .. Len(indent_stack),
         indent_stack' = SubSeq(indent_stack, 1, k)
  PROVE  /\ indent_stack' \in Seq(Nat) \ {<<>>}
         /\ Len(indent_stack') = k
         /\ DOMAIN indent_stack' = 1 .. k
         /\ \A i \in 1 .. k : indent_stack'[i] = indent_stack[i]
         /\ StackSorted'
         /\ LoopStops'
<1> DEFINE n == Len(indent_stack)
<1>1. /\ n \in Nat /\ DOMAIN indent_stack = 1 .. n
      /\ \A i \in 1 .. n : indent_stack[i] \in Nat
  BY StackFacts DEF IInv
<1>2. /\ Len(indent_stack') = k
      /\ indent_stack' \in Seq(Nat)
      /\ \A i \in 1 .. k : indent_stack'[i] = indent_stack[i]
  BY DEF IInv, TypeOK
<1>3. indent_stack' # <<>>
  BY <1>2
<1>4. DOMAIN indent_stack' = 1 .. k
  BY <1>2
<1>5. StackSorted'
  BY <1>1, <1>2 DEF IInv, StackSorted
<1>6. LoopStops'
  <2> SUFFICES ASSUME NEW l \in Nat
               PROVE  \E i \in 1 .. Len(indent_stack') : StopsAt(i, l)'
    BY DEF LoopStops
  <2>1. PICK i \in 1 .. n : StopsAt(i, l)
    BY DEF IInv, LoopStops
  <2>2. CASE i <= k
    BY <2>1, <2>2, <1>1, <1>2 DEF StopsAt
  <2>3. CASE i > k
    <3>1. indent_stack[k] < indent_stack[i]
      BY <2>3, <1>1 DEF IInv, StackSorted
    <3>2. indent_stack[k] <= l
      BY <3>1, <2>1, <2>3, <1>1 DEF StopsAt
    <3> QED
      BY <3>2, <1>1, <1>2 DEF StopsAt
  <2> QED
    BY <2>2, <2>3, <1>1
<1> QED
  BY <1>2, <1>3, <1>4, <1>5, <1>6

\* One Newline, a line at the level of an enclosing block.
LEMMA ShallowerStep ==
  ASSUME IInv, NEW w \in Widths, NEW rest \in LineTokens, ShallowerLine(w, rest)
  PROVE  IInv'
<1> DEFINE level == measure_indent(w)
           n == Len(indent_stack)
           k == Kept(level)
<1>1. /\ level \in Nat /\ n \in Nat \ {0}
      /\ \A i \in 1 .. n : indent_stack[i] \in Nat
      /\ DOMAIN indent_stack = 1 .. n
  BY WidthsAreLevels, StackFacts DEF IInv
<1>2. k \in 1 .. n /\ StopsAt(k, level)
  BY <1>1, KeptStops DEF IInv
<1>3. /\ indent_stack' = SubSeq(indent_stack, 1, k)
      /\ indent_stack[k] = level
      /\ lines' = Append(lines, level)
      /\ status = "scanning" /\ status' = "scanning"
  BY DEF ShallowerLine, ReadNewline
<1> HIDE DEF k
<1>4. /\ indent_stack' \in Seq(Nat) \ {<<>>}
      /\ Len(indent_stack') = k
      /\ DOMAIN indent_stack' = 1 .. k
      /\ \A i \in 1 .. k : indent_stack'[i] = indent_stack[i]
      /\ StackSorted'
      /\ LoopStops'
  BY <1>2, <1>3, PopStep
<1>5. TypeOK'
  <2>1. n - k \in Nat
    BY <1>1, <1>2
  <2>2. <<"Newline">> \in Seq(Tokens)
    BY DEF Tokens
  <2>3. result' = result \o <<"Newline">> \o Dedents(n - k) \o rest
    BY DEF ShallowerLine, k
  <2>4. result' \in Seq(Tokens)
    BY <2>1, <2>2, <2>3, DedentsType, LineTokensType DEF IInv, TypeOK
  <2>5. newlines' \in 0 .. MaxLines
    BY MaxLinesAssumption DEF IInv, TypeOK, ShallowerLine, ReadNewline
  <2>6. lines' \in Seq(Nat)
    BY <1>1, <1>3 DEF IInv, TypeOK
  <2>7. indent_stack'[1] = 0
    BY <1>2, <1>4 DEF IInv, TypeOK
  <2> QED
    BY <1>3, <1>4, <2>4, <2>5, <2>6, <2>7 DEF TypeOK
<1>6. StackIsOpenLevels'
  <2> DEFINE Old == {indent_stack[i] : i \in DOMAIN indent_stack}
             New == {indent_stack'[i] : i \in DOMAIN indent_stack'}
  <2>1. Offside!OpenLevels(lines) = Old
    BY <1>3 DEF IInv, StackIsOpenLevels
  <2>2. Offside!OpenLevels(lines') = {m \in Old : m <= level} \union {level}
    BY <2>1, <1>1, <1>3, OpenLevelsAppend DEF IInv, TypeOK
  <2>3. \A i \in 1 .. n : indent_stack[i] <= level <=> i <= k
    BY <1>1, <1>2, <1>3 DEF IInv, StackSorted, StopsAt
  <2>4. New = {m \in Old : m <= level}
    <3>1. ASSUME NEW m \in New PROVE m \in Old /\ m <= level
      BY <1>1, <1>2, <1>4, <2>3
    <3>2. ASSUME NEW m \in Old, m <= level PROVE m \in New
      <4>1. PICK i \in 1 .. n : m = indent_stack[i]
        BY <1>1
      <4>2. i \in 1 .. k
        BY <4>1, <3>2, <2>3
      <4> QED
        BY <4>1, <4>2, <1>4
    <3> QED
      BY <3>1, <3>2
  <2>5. level \in {m \in Old : m <= level}
    BY <1>1, <1>2, <1>3
  <2>6. (Offside!OpenLevels(lines))' = Offside!OpenLevels(lines')
    BY DEF Offside!OpenLevels
  <2> QED
    BY <2>2, <2>4, <2>5, <2>6 DEF StackIsOpenLevels
<1> QED
  BY <1>4, <1>5, <1>6 DEF IInv

\* One Newline, a line at the level of the innermost block.
LEMMA SameStep ==
  ASSUME IInv, NEW w \in Widths, NEW rest \in LineTokens, SameLine(w, rest)
  PROVE  IInv'
<1> DEFINE level == measure_indent(w)
           n == Len(indent_stack)
<1>1. /\ level \in Nat /\ n \in Nat \ {0} /\ level = indent_stack[n]
      /\ \A i \in 1 .. n : indent_stack[i] \in Nat
      /\ DOMAIN indent_stack = 1 .. n
  BY WidthsAreLevels, StackFacts DEF IInv, SameLine, Top
<1>2. /\ indent_stack' = indent_stack
      /\ lines' = Append(lines, level)
      /\ status = "scanning" /\ status' = "scanning"
  BY DEF SameLine, ReadNewline
<1>3. TypeOK'
  <2>1. <<"Newline">> \in Seq(Tokens)
    BY DEF Tokens
  <2>2. result' \in Seq(Tokens)
    BY <2>1, LineTokensType DEF IInv, TypeOK, SameLine
  <2>3. newlines' \in 0 .. MaxLines
    BY MaxLinesAssumption DEF IInv, TypeOK, SameLine, ReadNewline
  <2>4. lines' \in Seq(Nat)
    BY <1>1, <1>2 DEF IInv, TypeOK
  <2> QED
    BY <1>2, <2>2, <2>3, <2>4 DEF IInv, TypeOK
<1>4. StackSorted' /\ LoopStops'
  BY <1>2 DEF IInv, StackSorted, LoopStops, StopsAt
<1>5. StackIsOpenLevels'
  <2> DEFINE Old == {indent_stack[i] : i \in DOMAIN indent_stack}
  <2>1. Offside!OpenLevels(lines) = Old
    BY <1>2 DEF IInv, StackIsOpenLevels
  <2>2. Offside!OpenLevels(lines') = {m \in Old : m <= level} \union {level}
    BY <2>1, <1>1, <1>2, OpenLevelsAppend DEF IInv, TypeOK
  <2>3. \A i \in 1 .. n : indent_stack[i] <= level
    BY <1>1 DEF IInv, StackSorted
  <2>4. {m \in Old : m <= level} \union {level} = Old
    BY <1>1, <2>3
  <2>5. (Offside!OpenLevels(lines))' = Offside!OpenLevels(lines')
    BY DEF Offside!OpenLevels
  <2> QED
    BY <1>2, <2>2, <2>4, <2>5 DEF StackIsOpenLevels
<1> QED
  BY <1>3, <1>4, <1>5 DEF IInv

\* One Newline, a blank line: nothing but the tokens changes.
LEMMA BlankStep ==
  ASSUME IInv, BlankLine
  PROVE  IInv'
<1>1. TypeOK'
  <2>1. "Newline" \in Tokens
    BY DEF Tokens
  <2>2. newlines' \in 0 .. MaxLines
    BY MaxLinesAssumption DEF IInv, TypeOK, BlankLine, ReadNewline
  <2> QED
    BY <2>1, <2>2 DEF IInv, TypeOK, BlankLine
<1>2. StackSorted' /\ LoopStops'
  BY DEF IInv, StackSorted, LoopStops, StopsAt, BlankLine
<1>3. StackIsOpenLevels'
  BY DEF IInv, StackIsOpenLevels, Offside!OpenLevels, BlankLine
<1> QED
  BY <1>1, <1>2, <1>3 DEF IInv

\* One Newline, a line at a level no open block has.
LEMMA MismatchedStep ==
  ASSUME IInv, NEW w \in Widths, MismatchedLine(w)
  PROVE  IInv'
<1> DEFINE k == Kept(measure_indent(w))
<1>1. k \in 1 .. Len(indent_stack)
  BY WidthsAreLevels, KeptStops DEF IInv
<1>2. indent_stack' = SubSeq(indent_stack, 1, k) /\ status' = "rejected" /\ result' = <<>>
  BY DEF MismatchedLine
<1> HIDE DEF k
<1>3. /\ indent_stack' \in Seq(Nat) \ {<<>>}
      /\ indent_stack'[1] = indent_stack[1]
      /\ StackSorted' /\ LoopStops'
  <2>1. 1 \in 1 .. k
    BY <1>1, StackFacts DEF IInv
  <2> QED
    BY <1>1, <1>2, <2>1, PopStep
<1>4. newlines' \in 0 .. MaxLines /\ lines' = lines
  BY MaxLinesAssumption DEF IInv, TypeOK, MismatchedLine, ReadNewline
<1>5. TypeOK'
  BY SMTT(30), <1>2, <1>3, <1>4 DEF IInv, TypeOK
<1> QED
  BY <1>2, <1>3, <1>5 DEF IInv, StackIsOpenLevels

\* The end of the input.
LEMMA EndStep ==
  ASSUME IInv, EndOfInput
  PROVE  IInv'
<1>1. 1 \in 1 .. Len(indent_stack) /\ Len(indent_stack) - 1 \in Nat
  BY StackFacts DEF IInv
<1>2. indent_stack' = SubSeq(indent_stack, 1, 1) /\ status' = "accepted"
  BY DEF EndOfInput
<1>3. /\ indent_stack' \in Seq(Nat) \ {<<>>}
      /\ indent_stack'[1] = indent_stack[1]
      /\ StackSorted' /\ LoopStops'
  BY <1>1, <1>2, PopStep
<1>4. result' \in Seq(Tokens)
  BY <1>1, DedentsType DEF EndOfInput, IInv, TypeOK
<1>5. TypeOK'
  BY <1>2, <1>3, <1>4 DEF IInv, TypeOK, EndOfInput
<1> QED
  BY <1>2, <1>3, <1>5 DEF IInv, StackIsOpenLevels

LEMMA NextIInv == IInv /\ [Next]_vars => IInv'
<1> SUFFICES ASSUME IInv, [Next]_vars PROVE IInv'
  OBVIOUS
<1>1. CASE BlankLine
  BY <1>1, BlankStep
<1>2. ASSUME NEW w \in Widths, NEW rest \in LineTokens, DeeperLine(w, rest)
      PROVE  IInv'
  BY <1>2, DeeperStep
<1>3. ASSUME NEW w \in Widths, NEW rest \in LineTokens, SameLine(w, rest)
      PROVE  IInv'
  BY <1>3, SameStep
<1>4. ASSUME NEW w \in Widths, NEW rest \in LineTokens, ShallowerLine(w, rest)
      PROVE  IInv'
  BY <1>4, ShallowerStep
<1>5. ASSUME NEW w \in Widths, MismatchedLine(w)
      PROVE  IInv'
  BY <1>5, MismatchedStep
<1>6. CASE EndOfInput
  BY <1>6, EndStep
<1>7. CASE UNCHANGED vars
  BY <1>7 DEF vars, IInv, TypeOK, StackSorted, LoopStops, StopsAt,
              StackIsOpenLevels, Offside!OpenLevels
<1> QED
  BY <1>1, <1>2, <1>3, <1>4, <1>5, <1>6, <1>7 DEF Next

LEMMA IInvAlways == Spec => []IInv
BY InitIInv, NextIInv, PTL DEF Spec

-----------------------------------------------------------------------------

(***************************************************************************)
(* The variables keep their types in files of any length, and the file's   *)
(* own level never leaves the bottom of the stack (indent.rs:9, 36, 62).   *)
(***************************************************************************)
THEOREM TypeCorrect == Spec => []TypeOK
BY IInvAlways, PTL DEF IInv

(***************************************************************************)
(* In files of any length the stack holds the levels a following line may  *)
(* return to under the offside rule, and no other (indent.rs:27-54).       *)
(***************************************************************************)
THEOREM StackCorrect == Spec => []StackIsOpenLevels
BY IInvAlways, PTL DEF IInv

-----------------------------------------------------------------------------

\* Tokens are counted part by part.
LEMMA CountConcat ==
  ASSUME NEW s \in Seq(Tokens), NEW u \in Seq(Tokens), NEW t
  PROVE  /\ Count(s, t) \in Nat
         /\ Count(s \o u, t) = Count(s, t) + Count(u, t)
<1>1. \A r : Count(r, t) = Cardinality(Occurrences(r, t))
  BY DEF Count, Occurrences
<1> QED
  BY <1>1, OccurrencesFinite, OccurrencesConcat

LEMMA CountDedents ==
  ASSUME NEW n \in Nat
  PROVE  Count(Dedents(n), "Dedent") = n /\ Count(Dedents(n), "Indent") = 0
<1>1. {i \in DOMAIN Dedents(n) : Dedents(n)[i] = "Dedent"} = 1 .. n
  BY DEF Dedents
<1>2. {i \in DOMAIN Dedents(n) : Dedents(n)[i] = "Indent"} = {}
  BY DEF Dedents
<1>3. Cardinality(1 .. n) = n
  BY FS_Interval
<1> QED
  BY <1>1, <1>2, <1>3, FS_EmptySet DEF Count

LEMMA CountRest ==
  ASSUME NEW rest \in LineTokens, NEW t \in {"Indent", "Dedent"}
  PROVE  Count(rest, t) = 0
<1>1. {i \in DOMAIN rest : rest[i] = t} = {}
  BY DEF LineTokens
<1> QED
  BY <1>1, FS_EmptySet DEF Count

LEMMA CountNewline ==
  ASSUME NEW t \in {"Indent", "Dedent"}
  PROVE  Count(<<"Newline">>, t) = 0
<1>1. {i \in DOMAIN <<"Newline">> : <<"Newline">>[i] = t} = {}
  OBVIOUS
<1> QED
  BY <1>1, FS_EmptySet DEF Count

LEMMA CountNewlineIndent ==
  /\ Count(<<"Newline", "Indent">>, "Indent") = 1
  /\ Count(<<"Newline", "Indent">>, "Dedent") = 0
<1> DEFINE s == <<"Newline", "Indent">>
<1>1. {i \in DOMAIN s : s[i] = "Indent"} = {2}
  OBVIOUS
<1>2. {i \in DOMAIN s : s[i] = "Dedent"} = {}
  OBVIOUS
<1> QED
  BY <1>1, <1>2, FS_EmptySet, FS_Singleton DEF Count

-----------------------------------------------------------------------------

\* What one line adds to the number of Indents and Dedents.
LEMMA CountLine ==
  ASSUME TypeOK, NEW head \in Seq(Tokens), NEW n \in Nat, NEW rest \in LineTokens,
         NEW t \in {"Indent", "Dedent"}
  PROVE  /\ Count(result \o head \o rest, t) = Count(result, t) + Count(head, t)
         /\ Count(result \o head \o Dedents(n) \o rest, t)
              = Count(result, t) + Count(head, t) + Count(Dedents(n), t)
<1> DEFINE a == result \o head
           b == a \o Dedents(n)
<1>1. result \in Seq(Tokens) /\ Dedents(n) \in Seq(Tokens) /\ rest \in Seq(Tokens)
  BY DedentsType, LineTokensType DEF TypeOK
<1>2. a \in Seq(Tokens) /\ b \in Seq(Tokens)
  BY <1>1
<1>3. Count(a, t) = Count(result, t) + Count(head, t)
  BY <1>1, CountConcat
<1>4. /\ Count(a \o rest, t) = Count(a, t) + Count(rest, t)
      /\ Count(a \o Dedents(n), t) = Count(a, t) + Count(Dedents(n), t)
  <2> HIDE DEF a
  <2> QED
    BY <1>1, <1>2, CountConcat
<1>5. Count(b \o rest, t) = Count(b, t) + Count(rest, t)
  <2> HIDE DEF b
  <2> QED
    BY <1>1, <1>2, CountConcat
<1>6. /\ Count(result, t) \in Nat /\ Count(head, t) \in Nat
      /\ Count(Dedents(n), t) \in Nat /\ Count(rest, t) = 0
  BY <1>1, CountConcat, CountRest
<1> QED
  BY <1>3, <1>4, <1>5, <1>6

\* As many blocks are deeper than a level as there are levels above it on the
\* stack.
LEMMA DeeperCount ==
  ASSUME IInv, status = "scanning", NEW level \in Nat,
         NEW k \in 1 .. Len(indent_stack),
         \A i \in 1 .. Len(indent_stack) : indent_stack[i] > level <=> i > k
  PROVE  Cardinality(Offside!Deeper(lines, level)) = Len(indent_stack) - k
<1> DEFINE n == Len(indent_stack)
           f == [i \in (k + 1) .. n |-> indent_stack[i]]
           D == Offside!Deeper(lines, level)
<1>1. /\ n \in Nat /\ DOMAIN indent_stack = 1 .. n
      /\ \A i \in 1 .. n : indent_stack[i] \in Nat
  BY StackFacts DEF IInv
<1>2. D = {l \in {indent_stack[i] : i \in 1 .. n} : l > level}
  BY <1>1 DEF IInv, StackIsOpenLevels, Offside!Deeper
<1> HIDE DEF D
<1>3. f \in [(k + 1) .. n -> D]
  BY <1>1, <1>2
<1>4. \A a, b \in (k + 1) .. n : f[a] = f[b] => a = b
  BY <1>1 DEF IInv, StackSorted
<1>5. \A b \in D : \E a \in (k + 1) .. n : f[a] = b
  <2> SUFFICES ASSUME NEW b \in D PROVE \E a \in (k + 1) .. n : f[a] = b
    OBVIOUS
  <2>1. PICK a \in 1 .. n : b = indent_stack[a] /\ indent_stack[a] > level
    BY <1>2
  <2> QED
    BY <2>1, <1>1
<1>6. ExistsBijection((k + 1) .. n, D)
  <2> HIDE DEF f
  <2> QED
    BY <1>3, <1>4, <1>5, OneToOne
<1>7. IsFiniteSet((k + 1) .. n) /\ Cardinality((k + 1) .. n) = n - k
  BY <1>1, FS_Interval
<1> QED
  BY <1>6, <1>7, FS_Bijection DEF D

LEMMA CountNat ==
  ASSUME TypeOK, NEW t \in {"Indent", "Dedent"}
  PROVE  Count(result, t) \in Nat
BY CountConcat DEF TypeOK

LEMMA BlankCounts ==
  ASSUME IInv, BlankLine, NEW t \in {"Indent", "Dedent"}
  PROVE  Count(result', t) = Count(result, t)
<1>1. <<"Newline">> \in Seq(Tokens) /\ result \in Seq(Tokens)
  BY DEF Tokens, IInv, TypeOK
<1>2. result' = result \o <<"Newline">>
  BY <1>1 DEF BlankLine
<1> DEFINE head == <<"Newline">>
<1>3. Count(head, t) = 0
  BY CountNewline
<1> HIDE DEF head
<1>4. Count(result \o head, t) = Count(result, t) + Count(head, t)
  BY <1>1, CountConcat DEF head
<1>5. result' = result \o head
  BY <1>2 DEF head
<1> QED
  BY <1>3, <1>4, <1>5, CountNat DEF IInv

LEMMA DeeperCounts ==
  ASSUME IInv, NEW w \in Widths, NEW rest \in LineTokens, DeeperLine(w, rest)
  PROVE  /\ Count(result', "Indent") = Count(result, "Indent") + 1
         /\ Count(result', "Dedent") = Count(result, "Dedent")
<1> DEFINE head == <<"Newline", "Indent">>
<1>1. head \in Seq(Tokens)
  BY DEF Tokens
<1>2. result' = result \o head \o rest
  BY DEF DeeperLine
<1>3. Count(head, "Indent") = 1 /\ Count(head, "Dedent") = 0
  BY CountNewlineIndent
<1> HIDE DEF head
<1>4. \A t \in {"Indent", "Dedent"} : Count(result', t) = Count(result, t) + Count(head, t)
  BY <1>1, <1>2, CountLine DEF IInv
<1> QED
  BY <1>3, <1>4, CountNat DEF IInv

LEMMA SameCounts ==
  ASSUME IInv, NEW w \in Widths, NEW rest \in LineTokens, SameLine(w, rest),
         NEW t \in {"Indent", "Dedent"}
  PROVE  Count(result', t) = Count(result, t)
<1> DEFINE head == <<"Newline">>
<1>1. head \in Seq(Tokens)
  BY DEF Tokens
<1>2. result' = result \o head \o rest
  BY DEF SameLine
<1>3. Count(head, t) = 0
  BY CountNewline
<1> HIDE DEF head
<1> QED
  BY <1>1, <1>2, <1>3, CountLine, CountNat DEF IInv

LEMMA ShallowerCounts ==
  ASSUME IInv, NEW w \in Widths, NEW rest \in LineTokens, ShallowerLine(w, rest)
  PROVE  /\ Count(result', "Indent") = Count(result, "Indent")
         /\ Count(result', "Dedent") = Count(result, "Dedent")
                + (Len(indent_stack) - Kept(measure_indent(w)))
<1> DEFINE head == <<"Newline">>
           n == Len(indent_stack) - Kept(measure_indent(w))
<1>1. head \in Seq(Tokens)
  BY DEF Tokens
<1>2. n \in Nat
  <2>1. Kept(measure_indent(w)) \in 1 .. Len(indent_stack)
    BY WidthsAreLevels, KeptStops DEF IInv
  <2> QED
    BY <2>1, StackFacts DEF IInv
<1>3. result' = result \o head \o Dedents(n) \o rest
  BY DEF ShallowerLine
<1>4. \A t \in {"Indent", "Dedent"} : Count(head, t) = 0
  BY CountNewline
<1> HIDE DEF head, n
<1>5. \A t \in {"Indent", "Dedent"} :
        Count(result', t) = Count(result, t) + Count(head, t) + Count(Dedents(n), t)
  BY <1>1, <1>2, <1>3, CountLine DEF IInv
<1>6. Count(Dedents(n), "Dedent") = n /\ Count(Dedents(n), "Indent") = 0
  BY <1>2, CountDedents
<1>7. /\ Count(result', "Indent") = Count(result, "Indent")
      /\ Count(result', "Dedent") = Count(result, "Dedent") + n
  BY <1>2, <1>4, <1>5, <1>6, CountNat DEF IInv
<1> QED
  BY <1>7 DEF n

LEMMA EndCounts ==
  ASSUME IInv, EndOfInput
  PROVE  /\ Count(result', "Indent") = Count(result, "Indent")
         /\ Count(result', "Dedent") = Count(result, "Dedent") + (Len(indent_stack) - 1)
<1> DEFINE n == Len(indent_stack) - 1
<1>1. n \in Nat
  BY StackFacts DEF IInv
<1>2. result' = result \o Dedents(n)
  BY DEF EndOfInput
<1> HIDE DEF n
<1>3. Dedents(n) \in Seq(Tokens) /\ result \in Seq(Tokens)
  BY <1>1, DedentsType DEF IInv, TypeOK
<1>4. \A t \in {"Indent", "Dedent"} :
        Count(result', t) = Count(result, t) + Count(Dedents(n), t)
  BY <1>2, <1>3, CountConcat
<1>5. Count(Dedents(n), "Dedent") = n /\ Count(Dedents(n), "Indent") = 0
  BY <1>1, CountDedents
<1>6. /\ Count(result', "Indent") = Count(result, "Indent")
      /\ Count(result', "Dedent") = Count(result, "Dedent") + n
  BY <1>1, <1>4, <1>5, CountNat DEF IInv
<1> QED
  BY <1>6 DEF n

LEMMA CountEmpty ==
  ASSUME NEW t \in {"Indent", "Dedent"}
  PROVE  Count(<<>>, t) = 0
BY CountRest DEF LineTokens

-----------------------------------------------------------------------------

LEMMA InitBalanced == Init => TokensBalanced
<1> SUFFICES ASSUME Init PROVE TokensBalanced
  OBVIOUS
<1>1. \A t \in {"Indent", "Dedent"} : Count(result, t) = 0
  BY CountRest DEF Init
<1> QED
  BY <1>1 DEF Init, TokensBalanced

LEMMA NextBalanced == IInv /\ TokensBalanced /\ [Next]_vars => TokensBalanced'
<1> SUFFICES ASSUME IInv, TokensBalanced, [Next]_vars PROVE TokensBalanced'
  OBVIOUS
<1> DEFINE n == Len(indent_stack)
<1>1. /\ Count(result, "Indent") \in Nat /\ Count(result, "Dedent") \in Nat
      /\ n \in Nat \ {0}
  BY CountNat, StackFacts DEF IInv
<1>2. /\ (Count(result, "Indent"))' = Count(result', "Indent")
      /\ (Count(result, "Dedent"))' = Count(result', "Dedent")
  BY DEF Count
<1>3. CASE BlankLine
  BY <1>2, <1>3, BlankCounts DEF TokensBalanced, BlankLine, ReadNewline
<1>4. ASSUME NEW w \in Widths, NEW rest \in LineTokens, DeeperLine(w, rest)
      PROVE  TokensBalanced'
  <2>1. Len(indent_stack') = n + 1
    BY <1>4, WidthsAreLevels DEF IInv, TypeOK, DeeperLine
  <2>2. status = "scanning" /\ status' = "scanning"
    BY <1>4 DEF DeeperLine, ReadNewline
  <2> QED
    BY <1>1, <1>2, <1>4, <2>1, <2>2, DeeperCounts DEF TokensBalanced
<1>5. ASSUME NEW w \in Widths, NEW rest \in LineTokens, SameLine(w, rest)
      PROVE  TokensBalanced'
  BY <1>2, <1>5, SameCounts DEF TokensBalanced, SameLine, ReadNewline
<1>6. ASSUME NEW w \in Widths, NEW rest \in LineTokens, ShallowerLine(w, rest)
      PROVE  TokensBalanced'
  <2> DEFINE k == Kept(measure_indent(w))
  <2>1. k \in 1 .. n
    BY WidthsAreLevels, KeptStops DEF IInv
  <2>2. indent_stack' = SubSeq(indent_stack, 1, k)
    BY <1>6 DEF ShallowerLine
  <2>3. status = "scanning" /\ status' = "scanning"
    BY <1>6 DEF ShallowerLine, ReadNewline
  <2>4. /\ Count(result', "Indent") = Count(result, "Indent")
        /\ Count(result', "Dedent") = Count(result, "Dedent") + (n - k)
    BY <1>6, ShallowerCounts
  <2> HIDE DEF k
  <2>5. Len(indent_stack') = k
    BY <2>1, <2>2, PopStep
  <2> QED
    BY <1>1, <1>2, <2>1, <2>3, <2>4, <2>5 DEF TokensBalanced
<1>7. ASSUME NEW w \in Widths, MismatchedLine(w)
      PROVE  TokensBalanced'
  BY <1>7 DEF TokensBalanced, MismatchedLine
<1>8. CASE EndOfInput
  <2>1. Len(indent_stack') = 1
    BY <1>1, <1>8, PopStep DEF EndOfInput
  <2>2. status = "scanning" /\ status' = "accepted"
    BY <1>8 DEF EndOfInput
  <2> QED
    BY <1>1, <1>2, <1>8, <2>1, <2>2, EndCounts DEF TokensBalanced
<1>9. CASE UNCHANGED vars
  BY <1>2, <1>9 DEF vars, TokensBalanced
<1> QED
  BY <1>3, <1>4, <1>5, <1>6, <1>7, <1>8, <1>9 DEF Next

(***************************************************************************)
(* In files of any length the stream that is accepted has a Dedent for     *)
(* every Indent, and while it is built the Indents still open are the      *)
(* blocks on the stack (indent.rs:28-42, 61-65).                           *)
(***************************************************************************)
THEOREM TokensCorrect == Spec => []TokensBalanced
<1>1. Spec => [](IInv /\ TokensBalanced)
  BY InitIInv, NextIInv, InitBalanced, NextBalanced, PTL DEF Spec
<1> QED
  BY <1>1, PTL

-----------------------------------------------------------------------------

\* The instance's copy of Cardinality is Cardinality.
LEMMA SameCardinality ==
  ASSUME NEW S
  PROVE  Offside!Cardinality(S) = Cardinality(S)
BY DEF Offside!Cardinality, Cardinality

LEMMA InitOffside == Init => Offside!Init
<1> SUFFICES ASSUME Init PROVE Offside!Init
  OBVIOUS
<1>1. \A t \in {"Indent", "Dedent"} : Count(result, t) = 0
  BY CountRest DEF Init
<1> QED
  BY <1>1 DEF Init, Offside!Init

LEMMA NextOffside == IInv /\ [Next]_vars => [Offside!Next]_(Offside!vars)
<1> SUFFICES ASSUME IInv, [Next]_vars PROVE [Offside!Next]_(Offside!vars)
  OBVIOUS
<1> DEFINE n == Len(indent_stack)
           Lev == {measure_indent(w) : w \in Widths}
<1>1. /\ n \in Nat \ {0} /\ DOMAIN indent_stack = 1 .. n
      /\ \A i \in 1 .. n : indent_stack[i] \in Nat
      /\ \A i \in 1 .. n : indent_stack[i] <= indent_stack[n]
  <2>1. /\ n \in Nat \ {0} /\ DOMAIN indent_stack = 1 .. n
        /\ \A i \in 1 .. n : indent_stack[i] \in Nat
    BY StackFacts DEF IInv
  <2>2. ASSUME NEW i \in 1 .. n PROVE indent_stack[i] <= indent_stack[n]
    <3>1. CASE i = n
      BY <3>1, <2>1
    <3>2. CASE i < n
      BY <3>2, <2>1 DEF IInv, StackSorted
    <3>3. i = n \/ i < n
      <4> HIDE DEF n
      <4> QED
        BY <2>1
    <3> QED
      BY <3>1, <3>2, <3>3
  <2> QED
    BY <2>1, <2>2
<1>2. /\ (Count(result, "Indent"))' = Count(result', "Indent")
      /\ (Count(result, "Dedent"))' = Count(result', "Dedent")
      /\ Count(result, "Indent") \in Nat /\ Count(result, "Dedent") \in Nat
  BY CountNat DEF Count, IInv
<1>3. status = "scanning" =>
        Offside!OpenLevels(lines) = {indent_stack[i] : i \in 1 .. n}
  BY <1>1 DEF IInv, StackIsOpenLevels
<1>4. CASE BlankLine
  <2>1. /\ Count(result', "Indent") = Count(result, "Indent")
        /\ Count(result', "Dedent") = Count(result, "Dedent")
    BY <1>4, BlankCounts
  <2> QED
    BY <1>2, <1>4, <2>1 DEF BlankLine, Offside!vars
<1>5. ASSUME NEW w \in Widths, NEW rest \in LineTokens, DeeperLine(w, rest)
      PROVE  Offside!Next
  <2>1. measure_indent(w) \in Lev /\ measure_indent(w) \in Nat
    BY WidthsAreLevels
  <2>2. /\ status = "scanning" /\ status' = status
        /\ measure_indent(w) > indent_stack[n]
        /\ lines' = Append(lines, measure_indent(w))
    BY <1>5 DEF DeeperLine, ReadNewline, Top
  <2>3. \A l \in Offside!OpenLevels(lines) : measure_indent(w) > l
    BY <1>1, <1>3, <2>1, <2>2
  <2>4. /\ Count(result', "Indent") = Count(result, "Indent") + 1
        /\ Count(result', "Dedent") = Count(result, "Dedent")
    BY <1>5, DeeperCounts
  <2>5. Offside!OpenBlock(measure_indent(w))
    BY <1>2, <2>2, <2>3, <2>4 DEF Offside!OpenBlock
  <2> QED
    BY <2>1, <2>5 DEF Offside!Next
<1>6. ASSUME NEW w \in Widths, NEW rest \in LineTokens, SameLine(w, rest)
      PROVE  Offside!Next
  <2>1. measure_indent(w) \in Lev /\ measure_indent(w) \in Nat
    BY WidthsAreLevels
  <2>2. /\ status = "scanning" /\ status' = status
        /\ measure_indent(w) = indent_stack[n]
        /\ lines' = Append(lines, measure_indent(w))
    BY <1>6 DEF SameLine, ReadNewline, Top
  <2>3. measure_indent(w) \in Offside!OpenLevels(lines)
    BY <1>1, <1>3, <2>2
  <2>4. /\ Count(result', "Indent") = Count(result, "Indent")
        /\ Count(result', "Dedent") = Count(result, "Dedent")
    BY <1>6, SameCounts
  <2>5. Cardinality(Offside!Deeper(lines, measure_indent(w))) = 0
    <3>1. Offside!Deeper(lines, measure_indent(w)) = {}
      BY <1>1, <1>3, <2>1, <2>2 DEF Offside!Deeper
    <3> QED
      BY <3>1, FS_EmptySet
  <2>6. Offside!ContinueBlock(measure_indent(w))
    BY <1>2, <2>2, <2>3, <2>4, <2>5, SameCardinality DEF Offside!ContinueBlock
  <2> QED
    BY <2>1, <2>6 DEF Offside!Next
<1>7. ASSUME NEW w \in Widths, NEW rest \in LineTokens, ShallowerLine(w, rest)
      PROVE  Offside!Next
  <2> DEFINE level == measure_indent(w)
             k == Kept(level)
  <2>1. level \in Lev /\ level \in Nat
    BY WidthsAreLevels
  <2>2. k \in 1 .. n /\ StopsAt(k, level)
    BY <2>1, KeptStops DEF IInv
  <2>3. /\ status = "scanning" /\ status' = status
        /\ indent_stack[k] = level
        /\ lines' = Append(lines, level)
    BY <1>7 DEF ShallowerLine, ReadNewline
  <2>4. /\ Count(result', "Indent") = Count(result, "Indent")
        /\ Count(result', "Dedent") = Count(result, "Dedent") + (n - k)
    BY <1>7, ShallowerCounts
  <2> HIDE DEF k, level
  <2>5. \A i \in 1 .. n : indent_stack[i] > level <=> i > k
    BY <1>1, <2>1, <2>2, <2>3 DEF IInv, StackSorted, StopsAt
  <2>6. Cardinality(Offside!Deeper(lines, level)) = n - k
    BY <2>1, <2>2, <2>3, <2>5, DeeperCount
  <2>7. level \in Offside!OpenLevels(lines)
    BY <1>3, <2>2, <2>3
  <2>8. Offside!ContinueBlock(level)
    BY <1>2, <2>3, <2>4, <2>6, <2>7, SameCardinality DEF Offside!ContinueBlock
  <2> QED
    BY <2>1, <2>8 DEF Offside!Next
<1>8. ASSUME NEW w \in Widths, MismatchedLine(w)
      PROVE  Offside!Next
  <2> DEFINE level == measure_indent(w)
             k == Kept(level)
  <2>1. level \in Lev /\ level \in Nat
    BY WidthsAreLevels
  <2>2. k \in 1 .. n /\ StopsAt(k, level)
    BY <2>1, KeptStops DEF IInv
  <2>3. /\ status = "scanning" /\ status' = "rejected"
        /\ level < indent_stack[n]
        /\ indent_stack[k] # level
        /\ lines' = lines
        /\ result' = <<>>
    BY <1>8 DEF MismatchedLine, ReadNewline, Top
  <2> HIDE DEF k, level
  <2>4. ASSUME NEW i \in 1 .. n PROVE indent_stack[i] # level
    <3>1. CASE i > k
      BY <3>1, <1>1, <2>1, <2>2 DEF StopsAt
    <3>2. CASE i = k
      BY <3>2, <2>3
    <3>3. CASE i < k
      <4>1. indent_stack[i] < indent_stack[k] /\ indent_stack[k] <= level
        BY <3>3, <1>1, <2>2 DEF IInv, StackSorted, StopsAt
      <4> QED
        BY <4>1, <1>1, <2>1, <2>2
    <3> QED
      BY <3>1, <3>2, <3>3, <1>1, <2>2
  <2>5. level \notin Offside!OpenLevels(lines)
    BY <1>3, <2>3, <2>4
  <2>6. indent_stack[n] \in Offside!Deeper(lines, level)
    BY <1>1, <1>3, <2>1, <2>3 DEF Offside!Deeper
  <2>7. Count(result', "Indent") = 0 /\ Count(result', "Dedent") = 0
    BY <2>3, CountEmpty
  <2>8. Offside!Reject(level)
    BY <1>2, <2>3, <2>5, <2>6, <2>7 DEF Offside!Reject
  <2> QED
    BY <2>1, <2>8 DEF Offside!Next
<1>9. CASE EndOfInput
  <2>1. \A i \in 1 .. n : indent_stack[i] > 0 <=> i > 1
    BY <1>1 DEF IInv, TypeOK, StackSorted
  <2>2. status = "scanning" /\ status' = "accepted" /\ lines' = lines
    BY <1>9 DEF EndOfInput
  <2>3. Cardinality(Offside!Deeper(lines, 0)) = n - 1
    BY <1>1, <2>1, <2>2, DeeperCount
  <2>4. /\ Count(result', "Indent") = Count(result, "Indent")
        /\ Count(result', "Dedent") = Count(result, "Dedent") + (n - 1)
    BY <1>9, EndCounts
  <2>5. Offside!Accept
    BY <1>2, <2>2, <2>3, <2>4, SameCardinality DEF Offside!Accept
  <2> QED
    BY <2>5 DEF Offside!Next
<1>10. CASE UNCHANGED vars
  BY <1>2, <1>10 DEF vars, Offside!vars
<1> QED
  BY <1>4, <1>5, <1>6, <1>7, <1>8, <1>9, <1>10 DEF Next

(***************************************************************************)
(* process_indentation implements the offside rule on files of any length: *)
(* what it keeps on a stack decides every line as the whole history of     *)
(* lines would, and every Indent and Dedent is one the rule asks for.      *)
(***************************************************************************)
THEOREM IndentationImplementsOffside == Spec => ImplementsOffsideRule
<1>1. Spec => []IInv
  BY IInvAlways
<1> QED
  BY <1>1, InitOffside, NextOffside, PTL DEF Spec, ImplementsOffsideRule, Offside!Spec

-----------------------------------------------------------------------------

\* What one step hands to the parser.
FeedsLine ==
  /\ status' = "scanning"
  /\ Depth' \in Lines!NextDepths(Depth)
  /\ \E rest \in LineTokens : result' = result \o Lines!LineStart(Depth, Depth') \o rest

FeedsEnd == status' = "accepted" /\ result' = result \o Lines!Dedents(Depth)

\* The two definitions of a run of Dedents are one.
LEMMA SameDedents == \A n : Lines!Dedents(n) = Dedents(n)
BY DEF Lines!Dedents, Dedents

LEMMA DedentsZero == Dedents(0) = <<>>
<1>1. Dedents(0) \in Seq(Tokens) /\ Len(Dedents(0)) = 0
  BY DedentsType
<1> QED
  BY <1>1

\* The tokens of a line start, for a line that opens a block and one that does not.
LEMMA LineStartDeeper ==
  ASSUME NEW d \in Nat
  PROVE  Lines!LineStart(d, d + 1) = <<"Newline", "Indent">>
<1>1. d + 1 > d
  OBVIOUS
<1>2. Lines!LineStart(d, d + 1) = <<"Newline">> \o <<"Indent">>
  BY <1>1 DEF Lines!LineStart
<1>3. <<"Newline">> \o <<"Indent">> = <<"Newline", "Indent">>
  <2> DEFINE s == <<"Newline">> \o <<"Indent">>
             t == <<"Newline", "Indent">>
  <2>1. s \in Seq(Tokens) /\ Len(s) = 2 /\ s[1] = "Newline" /\ s[2] = "Indent"
    BY DEF Tokens
  <2>2. t \in Seq(Tokens) /\ Len(t) = 2 /\ t[1] = "Newline" /\ t[2] = "Indent"
    BY DEF Tokens
  <2> HIDE DEF s, t
  <2>3. \A i \in 1 .. Len(s) : s[i] = t[i]
    BY <2>1, <2>2
  <2>4. s = t
    BY <2>1, <2>2, <2>3, SeqEqual
  <2> QED
    BY <2>4 DEF s, t
<1> QED
  BY <1>2, <1>3

LEMMA LineStartKept ==
  ASSUME NEW d \in Nat, NEW e \in 0 .. d
  PROVE  Lines!LineStart(d, e) = <<"Newline">> \o Dedents(d - e)
<1>1. ~ (e > d)
  OBVIOUS
<1> QED
  BY <1>1, SameDedents DEF Lines!LineStart

LEMMA LineStartSame ==
  ASSUME NEW d \in Nat
  PROVE  Lines!LineStart(d, d) = <<"Newline">>
<1>1. d \in 0 .. d /\ d - d = 0
  OBVIOUS
<1>2. Lines!LineStart(d, d) = <<"Newline">> \o Dedents(d - d)
  BY <1>1, LineStartKept
<1>3. <<"Newline">> \o <<>> = <<"Newline">>
  OBVIOUS
<1> QED
  BY <1>1, <1>2, <1>3, DedentsZero

LEMMA NextFeeds ==
  IInv /\ [Next]_vars => FeedsLine \/ FeedsEnd \/ status' = "rejected" \/ UNCHANGED vars
<1> SUFFICES ASSUME IInv, [Next]_vars, ~ UNCHANGED vars
             PROVE  FeedsLine \/ FeedsEnd \/ status' = "rejected"
  OBVIOUS
<1> DEFINE n == Len(indent_stack)
<1>1. /\ n \in Nat \ {0}
      /\ Depth = n - 1 /\ Depth \in Nat
      /\ indent_stack \in Seq(Nat)
      /\ result \in Seq(Tokens)
  BY StackFacts DEF IInv, TypeOK, Depth
<1>2. <<>> \in LineTokens
  BY DEF LineTokens
<1>3. CASE BlankLine
  <2>1. /\ result' = Append(result, "Newline")
        /\ indent_stack' = indent_stack /\ status' = "scanning"
    BY <1>3 DEF BlankLine, ReadNewline
  <2>2. Depth' = Depth
    BY <2>1 DEF Depth
  <2>3. Lines!LineStart(Depth, Depth') = <<"Newline">>
    BY <2>2, <1>1, LineStartSame
  <2>4. result' = result \o Lines!LineStart(Depth, Depth') \o <<>>
    <3>1. Append(result, "Newline") = result \o <<"Newline">> \o <<>>
      BY <1>1
    <3> QED
      BY <3>1, <2>1, <2>3
  <2>5. Depth' \in Lines!NextDepths(Depth)
    BY <1>1, <2>2 DEF Lines!NextDepths
  <2> QED
    BY <1>2, <2>1, <2>4, <2>5 DEF FeedsLine
<1>4. ASSUME NEW w \in Widths, NEW rest \in LineTokens, DeeperLine(w, rest)
      PROVE  FeedsLine
  <2>1. /\ result' = result \o <<"Newline", "Indent">> \o rest
        /\ indent_stack' = Append(indent_stack, measure_indent(w))
        /\ status' = "scanning"
    BY <1>4 DEF DeeperLine, ReadNewline
  <2>2. Depth' = Depth + 1
    BY <2>1, <1>1, WidthsAreLevels DEF Depth
  <2>3. Lines!LineStart(Depth, Depth') = <<"Newline", "Indent">>
    BY <2>2, <1>1, LineStartDeeper
  <2>4. Depth' \in Lines!NextDepths(Depth)
    BY <1>1, <2>2 DEF Lines!NextDepths
  <2> QED
    BY <2>1, <2>3, <2>4 DEF FeedsLine
<1>5. ASSUME NEW w \in Widths, NEW rest \in LineTokens, SameLine(w, rest)
      PROVE  FeedsLine
  <2>1. /\ result' = result \o <<"Newline">> \o rest
        /\ indent_stack' = indent_stack
        /\ status' = "scanning"
    BY <1>5 DEF SameLine, ReadNewline
  <2>2. Depth' = Depth
    BY <2>1 DEF Depth
  <2>3. Lines!LineStart(Depth, Depth') = <<"Newline">>
    BY <2>2, <1>1, LineStartSame
  <2>4. Depth' \in Lines!NextDepths(Depth)
    BY <1>1, <2>2 DEF Lines!NextDepths
  <2> QED
    BY <2>1, <2>3, <2>4 DEF FeedsLine
<1>6. ASSUME NEW w \in Widths, NEW rest \in LineTokens, ShallowerLine(w, rest)
      PROVE  FeedsLine
  <2> DEFINE k == Kept(measure_indent(w))
  <2>1. /\ result' = result \o <<"Newline">> \o Dedents(n - k) \o rest
        /\ indent_stack' = SubSeq(indent_stack, 1, k)
        /\ status' = "scanning"
    BY <1>6 DEF ShallowerLine, ReadNewline
  <2>2. k \in 1 .. n
    BY KeptStops, WidthsAreLevels DEF IInv
  <2> HIDE DEF k
  <2>3. Depth' = k - 1
    BY <2>1, <2>2, <1>1 DEF Depth
  <2>4. Lines!LineStart(Depth, Depth') = <<"Newline">> \o Dedents(n - k)
    <3>1. Depth' \in 0 .. Depth /\ Depth - Depth' = n - k
      BY <2>2, <2>3, <1>1
    <3> QED
      BY <3>1, <1>1, LineStartKept
  <2>5. Depth' \in Lines!NextDepths(Depth)
    BY <1>1, <2>2, <2>3 DEF Lines!NextDepths
  <2>6. result' = result \o (<<"Newline">> \o Dedents(n - k)) \o rest
    <3>1. Dedents(n - k) \in Seq(Tokens) /\ rest \in Seq(Tokens)
      BY <1>1, <2>2, DedentsType, LineTokensType
    <3>2. <<"Newline">> \in Seq(Tokens)
      BY DEF Tokens
    <3> HIDE DEF n
    <3>3. \A d \in Seq(Tokens), m \in Seq(Tokens) :
            result \o m \o d = result \o (m \o d)
      BY <1>1
    <3> QED
      BY <2>1, <3>1, <3>2, <3>3
  <2> QED
    BY <2>1, <2>4, <2>5, <2>6 DEF FeedsLine
<1>7. ASSUME NEW w \in Widths, MismatchedLine(w)
      PROVE  status' = "rejected"
  BY <1>7 DEF MismatchedLine
<1>8. CASE EndOfInput
  BY <1>8, <1>1, SameDedents DEF EndOfInput, FeedsEnd
<1> QED
  BY <1>3, <1>4, <1>5, <1>6, <1>7, <1>8 DEF Next

(***************************************************************************)
(* The pass hands on only line starts that lead from the blocks open       *)
(* before them to those open after, and the Dedents of all at the end:     *)
(* the token streams Parser is checked on are all there are                *)
(* (indent.rs:16-65).                                                      *)
(***************************************************************************)
THEOREM ParserIsFed == Spec => FeedsParser
<1>1. IInv /\ [Next]_vars =>
        [\/ /\ status' = "scanning"
            /\ Depth' \in Lines!NextDepths(Depth)
            /\ \E rest \in LineTokens :
                 result' = result \o Lines!LineStart(Depth, Depth') \o rest
         \/ status' = "accepted" /\ result' = result \o Lines!Dedents(Depth)
         \/ status' = "rejected"]_vars
  BY NextFeeds DEF FeedsLine, FeedsEnd
<1>2. Spec => []IInv
  BY IInvAlways
<1> QED
  BY <1>1, <1>2, PTL DEF Spec, FeedsParser

================================================================================
