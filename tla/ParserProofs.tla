-------------------------------- MODULE ParserProofs --------------------------------
(***************************************************************************)
(* Proofs about the parser, for every scene: what it asks for closes what  *)
(* the reader of the file sees open, angles of generic lists included, and *)
(* a statement is as deep in the tree as its line is in the file.          *)
(*                                                                         *)
(* The stack holds symbols with symbols inside (what an option goes on     *)
(* with, what a loop repeats), so each of them is judged in a set of       *)
(* symbols that holds its parts: in a closed set every symbol is sound,    *)
(* and a sequence is proper if it is over a closed set.  A proper sequence *)
(* is whole if what is due before it is what is due after it, owes c if it *)
(* also leaves out a c that is due, and asks for c if it puts one before.  *)
(* The functions of the grammar are put together from these by lemmas      *)
(* about \o, so that the body of every function is whole (Rules), but for  *)
(* the sections of an fsm, which ask for the Dedent at which they end.     *)
(* A step of the parser then keeps the delimiters due equal to the ones    *)
(* open (DInv), and with the count of Indents and Dedents that gives the   *)
(* depth of the line (IInv).                                               *)
(***************************************************************************)
EXTENDS Parser, FiniteSetTheorems, SequenceTheorems, Induction, TLAPS

Brackets == DOMAIN Closing \union Closers

\* What may be due, and what a reader may see open.
Marks == Closers \union {"unmatched", "misplaced"}

LEMMA BracketSets ==
  /\ DOMAIN Closing = {"(", "[", "{", "<", "Indent"}
  /\ Closing["("] = ")" /\ Closing["["] = "]" /\ Closing["{"] = "}" /\ Closing["<"] = ">"
  /\ Closing["Indent"] = "Dedent"
  /\ Closers = {")", "]", "}", ">", "Dedent"}
<1>1. /\ DOMAIN Closing = {"(", "[", "{", "<", "Indent"}
      /\ Closing["("] = ")" /\ Closing["["] = "]" /\ Closing["{"] = "}" /\ Closing["<"] = ">"
  /\ Closing["Indent"] = "Dedent"
  BY DEF Closing
<1> QED
  BY <1>1 DEF Closers

\* What Ask does with each kind of bracket.
LEMMA AskMeans ==
  ASSUME NEW b, NEW due
  PROVE  /\ b \in Closers => Ask(b, due) = <<b>> \o due
         /\ b \in DOMAIN Closing =>
              Ask(b, due) = IF due # <<>> /\ due[1] = Closing[b] THEN Tail(due)
                                                             ELSE <<"unmatched">> \o due
         /\ b \notin Brackets => Ask(b, due) = due
<1>1. b \in DOMAIN Closing => b \notin Closers
  BY BracketSets
<1> QED
  BY <1>1 DEF Ask, Brackets

LEMMA AskType ==
  ASSUME NEW b, NEW due \in Seq(Marks)
  PROVE  Ask(b, due) \in Seq(Marks)
<1>1. CASE b \in Closers
  <2>1. b \in Marks
    BY <1>1 DEF Marks
  <2>2. <<b>> \o due \in Seq(Marks)
    BY <2>1
  <2>3. Ask(b, due) = <<b>> \o due
    BY <1>1, AskMeans
  <2> QED
    BY <2>2, <2>3
<1>2. CASE b \in DOMAIN Closing
  <2>1. due # <<>> => Tail(due) \in Seq(Marks)
    OBVIOUS
  <2>2. <<"unmatched">> \o due \in Seq(Marks)
    <3>1. "unmatched" \in Marks
      BY DEF Marks
    <3> QED
      BY <3>1
  <2>3. Ask(b, due) = IF due # <<>> /\ due[1] = Closing[b] THEN Tail(due)
                                                       ELSE <<"unmatched">> \o due
    BY <1>2, AskMeans
  <2> QED
    BY <2>1, <2>2, <2>3, Zenon
<1>3. CASE b \notin Brackets
  BY <1>3, AskMeans, Zenon
<1> QED
  BY <1>1, <1>2, <1>3 DEF Brackets

\* The recursion of DueBefore: what is due before the last i symbols of s.
Dues(s, after, f) ==
  /\ f \in [0 .. Len(s) -> Seq(Marks)] /\ f[0] = after
  /\ \A i \in 1 .. Len(s) : f[i] = Ask(Bracket(s[Len(s) - i + 1]), f[i - 1])
  /\ DueBefore(s, after) = f[Len(s)]

\* The recursion of DueBefore is one step after the other.
LEMMA DueBeforeStep ==
  ASSUME NEW S, NEW s \in Seq(S), NEW after \in Seq(Marks)
  PROVE  \E f : Dues(s, after, f)
<1> DEFINE n == Len(s)
           V == Seq(Marks)
           Step(f) == [i \in 0 .. n |-> IF i = 0 THEN after ELSE Ask(Bracket(s[n - i + 1]), f[i - 1])]
           due == CHOOSE f : f = Step(f)
           up == [i \in 1 .. n |-> i - 1]
           G == [i \in 1 .. n |-> [v \in V |-> Ask(Bracket(s[n - i + 1]), v)]]
<1>1. n \in Nat
  OBVIOUS
<1>2. PICK f : Computed(f, n, V, after, up, G)
  <2>1. G \in [1 .. n -> [V -> V]]
    <3>1. \A i \in 1 .. n, v \in V : Ask(Bracket(s[n - i + 1]), v) \in V
      BY AskType
    <3> HIDE DEF n
    <3> QED
      BY <3>1
  <2>2. up \in [1 .. n -> Nat] /\ \A i \in 1 .. n : up[i] < i
    BY <1>1
  <2>3. Descending(n, V, after, up, G)
    <3> HIDE DEF G, up, n
    <3> QED
      BY <1>1, <2>1, <2>2 DEF Descending
  <2> HIDE DEF up, G, n
  <2> QED
    BY <2>3, Descent, Zenon
<1>3. f \in [0 .. n -> V] /\ f[0] = after /\ \A i \in 1 .. n : f[i] = G[i][f[up[i]]]
  BY <1>2 DEF Computed
<1>4. \A i \in 1 .. n : f[i] = Ask(Bracket(s[n - i + 1]), f[i - 1])
  <2> TAKE i \in 1 .. n
  <2>1. up[i] = i - 1 /\ i - 1 \in 0 .. n
    BY <1>1
  <2>3. f[i - 1] \in V
    <3> HIDE DEF V, n, up, G
    <3> QED
      BY <2>1, <1>3
  <2>2. G[i][f[i - 1]] = Ask(Bracket(s[n - i + 1]), f[i - 1])
    <3> HIDE DEF V, n
    <3> QED
      BY <2>3
  <2> HIDE DEF G, up, n
  <2> QED
    BY <1>3, <2>1, <2>2
<1>5. f = Step(f)
  <2>1. ASSUME NEW i \in 0 .. n PROVE f[i] = Step(f)[i]
    <3>1. CASE i = 0
      BY <3>1, <1>1, <1>3
    <3>2. CASE i # 0
      <4>1. i \in 1 .. n
        BY <3>2, <1>1
      <4>2. f[i] = Ask(Bracket(s[n - i + 1]), f[i - 1])
        BY <4>1, <1>4
      <4>3. Step(f)[i] = Ask(Bracket(s[n - i + 1]), f[i - 1])
        BY <3>2
      <4> QED
        BY <4>2, <4>3
    <3> QED
      BY <3>1, <3>2
  <2>2. Step(f) = [i \in 0 .. n |-> Step(f)[i]]
    OBVIOUS
  <2> HIDE DEF Step
  <2>3. \A i \in 0 .. n : f[i] = Step(f)[i]
    BY <2>1
  <2> QED
    BY <2>2, <2>3, <1>3
<1>6. due = Step(due)
  <2> HIDE DEF Step
  <2> QED
    BY <1>5, Zenon
<1>7. DueBefore(s, after) = due[n]
  BY DEF DueBefore
<1>8. due[0] = after /\ \A i \in 1 .. n : due[i] = Ask(Bracket(s[n - i + 1]), due[i - 1])
  <2>1. due[0] = Step(due)[0] /\ \A i \in 1 .. n : due[i] = Step(due)[i]
    <3> HIDE DEF due, Step
    <3> QED
      BY <1>6
  <2> HIDE DEF due
  <2>2. Step(due)[0] = after
    BY <1>1
  <2>3. \A i \in 1 .. n : Step(due)[i] = Ask(Bracket(s[n - i + 1]), due[i - 1])
    <3> HIDE DEF n
    <3> QED
      BY <1>1
  <2> QED
    BY <2>1, <2>2, <2>3
<1>9. \A i \in 0 .. n : due[i] = f[i]
  <2> HIDE DEF due, n
  <2> DEFINE Same == {i \in Nat : i <= n => due[i] = f[i]}
  <2>1. ASSUME NEW i \in Nat, \A m \in 0 .. i - 1 : m \in Same PROVE i \in Same
    <3>1. CASE i = 0
      BY <3>1, <1>3, <1>8
    <3>2. CASE i # 0 /\ i <= n
      <4>1. i \in 1 .. n /\ i - 1 \in 0 .. i - 1 /\ i - 1 <= n
        BY <3>2, <1>1
      <4>2. due[i - 1] = f[i - 1]
        BY <4>1, <2>1
      <4> QED
        BY <4>1, <4>2, <1>4, <1>8
    <3> QED
      BY <3>1, <3>2
  <2> HIDE DEF Same
  <2>2. Same = Nat
    <3>1. Same \in SUBSET Nat
      BY DEF Same
    <3> QED
      BY <2>1, <3>1, Below
  <2> QED
    BY <2>2, <1>1 DEF Same
<1> HIDE DEF due, n
<1>10. DueBefore(s, after) = f[n] /\ n = Len(s)
  BY <1>7, <1>9, <1>1 DEF n
<1> QED
  BY <1>3, <1>4, <1>10 DEF Dues

LEMMA DueType ==
  ASSUME NEW S, NEW s \in Seq(S), NEW after \in Seq(Marks)
  PROVE  DueBefore(s, after) \in Seq(Marks)
<1>1. PICK f : Dues(s, after, f)
  BY DueBeforeStep
<1>2. Len(s) \in 0 .. Len(s)
  OBVIOUS
<1> QED
  BY <1>1, <1>2 DEF Dues

LEMMA DueNothing ==
  ASSUME NEW after \in Seq(Marks)
  PROVE  DueBefore(<<>>, after) = after
<1>1. PICK f : Dues(<<>>, after, f)
  <2>1. <<>> \in Seq({})
    OBVIOUS
  <2> QED
    BY <2>1, DueBeforeStep
<1> QED
  BY <1>1 DEF Dues

LEMMA DueOne ==
  ASSUME NEW x, NEW after \in Seq(Marks)
  PROVE  DueBefore(<<x>>, after) = Ask(Bracket(x), after)
<1>1. <<x>> \in Seq({x}) /\ Len(<<x>>) = 1
  OBVIOUS
<1>2. PICK f : Dues(<<x>>, after, f)
  BY <1>1, DueBeforeStep
<1>3. f[0] = after /\ DueBefore(<<x>>, after) = f[1]
  BY <1>1, <1>2 DEF Dues
<1>4. f[1] = Ask(Bracket(<<x>>[1 - 1 + 1]), f[1 - 1])
  BY <1>1, <1>2 DEF Dues
<1>5. <<x>>[1 - 1 + 1] = x /\ 1 - 1 = 0
  OBVIOUS
<1> QED
  BY <1>3, <1>4, <1>5

\* What is due before two sequences.
LEMMA DueConcat ==
  ASSUME NEW S, NEW s \in Seq(S), NEW u \in Seq(S), NEW after \in Seq(Marks)
  PROVE  DueBefore(s \o u, after) = DueBefore(s, DueBefore(u, after))
<1> DEFINE m == Len(s)
           n == Len(u)
           w == s \o u
<1>1. /\ m \in Nat /\ n \in Nat /\ w \in Seq(S) /\ Len(w) = m + n
      /\ \A i \in 1 .. m : w[i] = s[i]
      /\ \A i \in 1 .. n : w[m + i] = u[i]
  OBVIOUS
<1>2. PICK f : Dues(u, after, f)
  BY DueBeforeStep
<1>3. PICK g : Dues(s, DueBefore(u, after), g)
  BY DueBeforeStep, DueType
<1> HIDE DEF w
<1>4. PICK h : Dues(w, after, h)
  BY <1>1, DueBeforeStep
<1>5. /\ f[0] = after /\ DueBefore(u, after) = f[n]
      /\ \A i \in 1 .. n : f[i] = Ask(Bracket(u[n - i + 1]), f[i - 1])
  BY <1>2 DEF Dues
<1>6. /\ g[0] = DueBefore(u, after) /\ DueBefore(s, DueBefore(u, after)) = g[m]
      /\ \A i \in 1 .. m : g[i] = Ask(Bracket(s[m - i + 1]), g[i - 1])
  BY <1>3 DEF Dues
<1>7. /\ h[0] = after /\ DueBefore(w, after) = h[m + n]
      /\ \A i \in 1 .. m + n : h[i] = Ask(Bracket(w[m + n - i + 1]), h[i - 1])
  BY <1>1, <1>4 DEF Dues
<1> HIDE DEF m, n
<1>8. \A i \in 0 .. n : h[i] = f[i]
  <2> DEFINE Same == {i \in Nat : i <= n => h[i] = f[i]}
  <2>1. ASSUME NEW i \in Nat, \A k \in 0 .. i - 1 : k \in Same PROVE i \in Same
    <3>1. CASE i = 0
      BY <3>1, <1>5, <1>7
    <3>2. CASE i # 0 /\ i <= n
      <4>1. i \in 1 .. n /\ i \in 1 .. m + n /\ i - 1 \in 0 .. i - 1 /\ i - 1 <= n
            /\ n - i + 1 \in 1 .. n /\ m + n - i + 1 = m + (n - i + 1)
        BY <3>2, <1>1
      <4>2. h[i - 1] = f[i - 1]
        BY <4>1, <2>1
      <4>3. w[m + n - i + 1] = u[n - i + 1]
        BY <4>1, <1>1
      <4>4. h[i] = Ask(Bracket(w[m + n - i + 1]), h[i - 1])
        BY <4>1, <1>7
      <4>5. f[i] = Ask(Bracket(u[n - i + 1]), f[i - 1])
        BY <4>1, <1>5
      <4>6. h[i] = f[i]
        BY <4>2, <4>3, <4>4, <4>5, Zenon
      <4> QED
        BY <4>6
    <3> QED
      BY <3>1, <3>2
  <2> HIDE DEF Same
  <2>2. Same = Nat
    <3>1. Same \in SUBSET Nat
      BY DEF Same
    <3> QED
      BY <2>1, <3>1, Below
  <2>3. \A i \in 0 .. n : i \in Same /\ i <= n
    BY <2>2, <1>1
  <2> QED
    BY <2>3 DEF Same
<1>9. \A i \in 0 .. m : h[n + i] = g[i]
  <2> DEFINE Same == {i \in Nat : i <= m => h[n + i] = g[i]}
  <2>1. ASSUME NEW i \in Nat, \A k \in 0 .. i - 1 : k \in Same PROVE i \in Same
    <3>1. CASE i = 0
      <4>1. n + i = n /\ n \in 0 .. n /\ i \in Nat
        BY <3>1, <1>1
      <4>2. h[n] = f[n] /\ g[i] = f[n]
        BY <3>1, <4>1, <1>5, <1>6, <1>8
      <4> QED
        BY <4>1, <4>2
    <3>2. CASE i # 0 /\ i <= m
      <4>1. i \in 1 .. m /\ n + i \in 1 .. m + n /\ i - 1 \in 0 .. i - 1 /\ i - 1 <= m
            /\ m - i + 1 \in 1 .. m /\ m + n - (n + i) + 1 = m - i + 1
            /\ n + i - 1 = n + (i - 1)
        BY <3>2, <1>1
      <4>2. h[n + (i - 1)] = g[i - 1]
        BY <4>1, <2>1
      <4>3. w[m - i + 1] = s[m - i + 1]
        BY <4>1, <1>1
      <4>7. PICK k \in 1 .. m + n : k = n + i
        BY <4>1
      <4>8. m + n - k + 1 = m - i + 1 /\ k - 1 = n + (i - 1)
        BY <4>1, <4>7, <1>1
      <4>9. h[k] = Ask(Bracket(w[m + n - k + 1]), h[k - 1])
        BY <1>7
      <4>4. h[k] = Ask(Bracket(w[m - i + 1]), h[n + (i - 1)])
        BY <4>8, <4>9
      <4>5. g[i] = Ask(Bracket(s[m - i + 1]), g[i - 1])
        BY <4>1, <1>6
      <4>6. h[k] = g[i]
        BY <4>2, <4>3, <4>4, <4>5
      <4> QED
        BY <4>6, <4>7
    <3> QED
      BY <3>1, <3>2
  <2> HIDE DEF Same
  <2>2. Same = Nat
    <3>1. Same \in SUBSET Nat
      BY DEF Same
    <3> QED
      BY <2>1, <3>1, Below
  <2>3. \A i \in 0 .. m : i \in Same /\ i <= m
    BY <2>2, <1>1
  <2> QED
    BY <2>3 DEF Same
<1>10. h[n + m] = g[m] /\ n + m = m + n
  BY <1>9, <1>1
<1> QED
  BY <1>6, <1>7, <1>10 DEF w

Neutral(s) == \A after \in Seq(Marks) : DueBefore(s, after) = after

\* What is open after the token t where `o` was open before, if t closes nothing.
OpenAfter(t, o) == IF t \in DOMAIN Closing THEN <<Closing[t]>> \o o ELSE o

\* then asks for what t opens.
Answers(t, then) ==
  t \notin Closers /\ \A after \in Seq(Marks) : DueBefore(then, after) = OpenAfter(t, after)

Plain(S) == \A c \in S : c \notin Brackets

Functions ==
  {"parse_expr", "parse_type_expr", "parse_item", "parse_unary", "parse_postfix", "method_args",
   "named_arg", "parse_base_type", "parse_generic_arg", "partial_interface", "parse_stmt",
   "indented_or_stmt", "match_body", "priority_arm", "cover_name", "unchecked_body",
   "interface_member", "transition_body", "fsm_incomplete", "fsm_complete", "stage_element",
   "import_names", "port_binding", "discard_or_expr", "gen_body", "gen_else", "attributes",
   "more_attributes", "attributed_item", "plain_item", "parse_file"}

Sections == {"fsm_incomplete", "fsm_complete"}

Sound(x, S) ==
  /\ x.sym = "tok" => Plain(x.set) \/ x.set \in SingleBrackets
  /\ x.sym \in {"opt", "star"} =>
       x.then \in Seq(S) /\ \A t \in x.set : Answers(t, x.then)
  /\ x.sym = "many" => x.item \in Seq(S) /\ Neutral(x.item)
  /\ x.sym = "list" =>
       x.item \in Seq(S) /\ x.skip \in Seq(S) /\ Neutral(x.item) /\ Neutral(x.skip)
  /\ x.sym = "nt" => x.name \in Functions

Closed(S) == \A x \in S : Sound(x, S)
Proper(s) == \E S : Closed(S) /\ s \in Seq(S)

Whole(s) == Proper(s) /\ Neutral(s)
Owes(s, c) == Proper(s) /\ \A after \in Seq(Marks) : DueBefore(s, <<c>> \o after) = after
Asks(s, c) == Proper(s) /\ \A after \in Seq(Marks) : DueBefore(s, after) = <<c>> \o after

\* A symbol stays sound in a larger set.
LEMMA SoundGrows ==
  ASSUME NEW x, NEW S, NEW U, S \subseteq U, Sound(x, S)
  PROVE  Sound(x, U)
<1>1. \A s : s \in Seq(S) => s \in Seq(U)
  BY SeqMonotonic
<1> QED
  BY <1>1 DEF Sound

\* Proper sequences joined are proper.
LEMMA ProperConcat ==
  ASSUME NEW a, NEW b, Proper(a), Proper(b)
  PROVE  \E S : Closed(S) /\ a \in Seq(S) /\ b \in Seq(S) /\ a \o b \in Seq(S)
<1>1. PICK A : Closed(A) /\ a \in Seq(A)
  BY DEF Proper
<1>2. PICK B : Closed(B) /\ b \in Seq(B)
  BY DEF Proper
<1> DEFINE S == A \union B
<1>3. Closed(S)
  <2>1. ASSUME NEW x \in S PROVE Sound(x, S)
    <3>1. CASE x \in A
      <4>1. Sound(x, A) /\ A \subseteq S
        BY <3>1, <1>1 DEF Closed
      <4> HIDE DEF S
      <4> QED
        BY <4>1, SoundGrows
    <3>2. CASE x \in B
      <4>1. Sound(x, B) /\ B \subseteq S
        BY <3>2, <1>2 DEF Closed
      <4> HIDE DEF S
      <4> QED
        BY <4>1, SoundGrows
    <3> QED
      BY <3>1, <3>2
  <2> QED
    BY <2>1 DEF Closed
<1>4. a \in Seq(S) /\ b \in Seq(S)
  <2>1. A \subseteq S /\ B \subseteq S
    OBVIOUS
  <2> HIDE DEF S
  <2> QED
    BY <2>1, <1>1, <1>2, SeqMonotonic
<1> HIDE DEF S
<1>5. a \o b \in Seq(S)
  BY <1>4
<1> QED
  BY <1>3, <1>4, <1>5

\* How whole, owing and asking sequences compose.
LEMMA Composition ==
  ASSUME NEW a, NEW b
  PROVE  /\ Whole(a) /\ Whole(b) => Whole(a \o b)
         /\ \A c \in Closers :
              /\ Owes(a, c) /\ Whole(b) => Owes(a \o b, c)
              /\ Whole(a) /\ Owes(b, c) => Owes(a \o b, c)
              /\ Owes(a, c) /\ Asks(b, c) => Whole(a \o b)
              /\ Whole(a) /\ Asks(b, c) => Asks(a \o b, c)
              /\ Asks(a, c) /\ Whole(b) => Asks(a \o b, c)
<1> SUFFICES ASSUME Proper(a), Proper(b)
             PROVE  /\ Neutral(a) /\ Neutral(b) => Whole(a \o b)
                    /\ \A c \in Closers :
                         /\ Owes(a, c) /\ Neutral(b) => Owes(a \o b, c)
                         /\ Neutral(a) /\ Owes(b, c) => Owes(a \o b, c)
                         /\ Owes(a, c) /\ Asks(b, c) => Whole(a \o b)
                         /\ Neutral(a) /\ Asks(b, c) => Asks(a \o b, c)
                         /\ Asks(a, c) /\ Neutral(b) => Asks(a \o b, c)
  BY DEF Whole, Owes, Asks
<1>1. PICK S : Closed(S) /\ a \in Seq(S) /\ b \in Seq(S) /\ a \o b \in Seq(S)
  BY ProperConcat
<1>2. Proper(a \o b)
  BY <1>1, Zenon DEF Proper
<1>3. \A after \in Seq(Marks) :
        /\ DueBefore(a \o b, after) = DueBefore(a, DueBefore(b, after))
        /\ DueBefore(b, after) \in Seq(Marks)
  BY <1>1, DueConcat, DueType
<1>4. \A c \in Closers, after \in Seq(Marks) : <<c>> \o after \in Seq(Marks)
  <2> SUFFICES ASSUME NEW c \in Closers, NEW after \in Seq(Marks) PROVE <<c>> \o after \in Seq(Marks)
    OBVIOUS
  <2>1. c \in Marks
    BY DEF Marks
  <2> QED
    BY <2>1
<1> QED
  BY <1>2, <1>3, <1>4 DEF Whole, Owes, Asks, Neutral

\* The symbols that stand alone.
Bare == {"skip", "ops", "node", "pipe", "pratt", "fail"}

\* A sequence of one symbol is as the symbol.
LEMMA SingleSymbol ==
  ASSUME NEW x, NEW S, Closed(S), Sound(x, S)
  PROVE  /\ Proper(<<x>>)
         /\ \A after \in Seq(Marks) : DueBefore(<<x>>, after) = Ask(Bracket(x), after)
<1> DEFINE U == S \union {x}
<1>1. Closed(U)
  <2>1. ASSUME NEW y \in U PROVE Sound(y, U)
    <3>1. Sound(y, S) /\ S \subseteq U
      BY DEF Closed
    <3> HIDE DEF U
    <3> QED
      BY <3>1, SoundGrows
  <2> QED
    BY <2>1 DEF Closed
<1>2. <<x>> \in Seq(U)
  <2>1. x \in U
    OBVIOUS
  <2> HIDE DEF U
  <2> QED
    BY <2>1
<1>3. Proper(<<x>>)
  BY <1>1, <1>2, Zenon DEF Proper
<1> QED
  BY <1>3, DueOne

LEMMA WholeSymbol ==
  ASSUME NEW x, NEW S, Closed(S), Sound(x, S), Bracket(x) \notin Brackets
  PROVE  Whole(<<x>>)
<1>1. \A after \in Seq(Marks) : Ask(Bracket(x), after) = after
  BY AskMeans
<1> QED
  BY <1>1, SingleSymbol DEF Whole, Neutral

LEMMA NoneIsNoBracket == "none" \notin Brackets
  BY BracketSets DEF Brackets

\* Nothing, and closed sets for symbols without parts.
LEMMA NothingIsWhole == Whole(<<>>) /\ Closed({})
<1>1. Closed({})
  BY DEF Closed
<1>2. Proper(<<>>)
  <2>1. <<>> \in Seq({})
    OBVIOUS
  <2> QED
    BY <1>1, <2>1, Zenon DEF Proper
<1> QED
  BY <1>1, <1>2, DueNothing DEF Whole, Neutral

LEMMA BareIsWhole ==
  ASSUME NEW x, x.sym \in Bare
  PROVE  Whole(<<x>>)
<1>1. Sound(x, {})
  BY DEF Sound, Bare
<1>2. Bracket(x) = "none"
  BY DEF Bracket, Bare
<1> QED
  BY <1>1, <1>2, NothingIsWhole, NoneIsNoBracket, WholeSymbol

LEMMA BareSymbols ==
  /\ \A S : Whole(<<Skip(S)>>)
  /\ \A n : Whole(<<Pratt(n)>>)
  /\ \A n, g : Whole(<<Ops(n, g)>>)
  /\ \A k : Whole(<<Node(k)>>)
  /\ Whole(<<PipeTarget>>) /\ Whole(<<Fail>>)
<1>1. \A S : Skip(S).sym \in Bare
  BY DEF Skip, Bare
<1>2. \A n : Pratt(n).sym \in Bare
  BY DEF Pratt, Bare
<1>3. \A n, g : Ops(n, g).sym \in Bare
  BY DEF Ops, Bare
<1>4. \A k : Node(k).sym \in Bare
  BY DEF Node, Bare
<1>5. PipeTarget.sym \in Bare /\ Fail.sym \in Bare
  BY DEF PipeTarget, Fail, Bare
<1> QED
  BY <1>1, <1>2, <1>3, <1>4, <1>5, BareIsWhole

\* Words are whole; a closer is asked for, and an opener owes its closer.
LEMMA PlainToken ==
  ASSUME NEW S, Plain(S)
  PROVE  Whole(<<Tok(S)>>)
<1>1. Tok(S).sym = "tok" /\ Tok(S).set = S
  BY DEF Tok
<1>2. Sound(Tok(S), {})
  BY <1>1 DEF Sound
<1>3. S \notin SingleBrackets
  BY DEF SingleBrackets, Plain, Brackets
<1>4. Bracket(Tok(S)) = "none"
  BY <1>1, <1>3 DEF Bracket
<1> QED
  BY <1>2, <1>4, NothingIsWhole, NoneIsNoBracket, WholeSymbol

LEMMA Word ==
  ASSUME NEW t, t \notin Brackets
  PROVE  Whole(T(t))
<1>1. Plain({t})
  BY DEF Plain
<1> QED
  BY <1>1, PlainToken DEF T

LEMMA BracketToken ==
  ASSUME NEW t \in Brackets
  PROVE  /\ Proper(T(t))
         /\ \A after \in Seq(Marks) : DueBefore(T(t), after) = Ask(t, after)
<1>1. Tok({t}).sym = "tok" /\ Tok({t}).set = {t} /\ {t} \in SingleBrackets
  BY DEF Tok, SingleBrackets, Brackets
<1>2. Sound(Tok({t}), {})
  BY <1>1 DEF Sound
<1>3. Bracket(Tok({t})) = t
  <2>1. (CHOOSE c \in {t} : TRUE) = t
    OBVIOUS
  <2> QED
    BY <1>1, <2>1 DEF Bracket
<1> QED
  BY <1>2, <1>3, NothingIsWhole, SingleSymbol DEF T

LEMMA ClosingToken ==
  ASSUME NEW c \in Closers
  PROVE  Asks(T(c), c)
<1>1. c \in Brackets
  BY DEF Brackets
<1>2. \A after \in Seq(Marks) : Ask(c, after) = <<c>> \o after
  BY AskMeans
<1> QED
  BY <1>1, <1>2, BracketToken DEF Asks

LEMMA OpeningToken ==
  ASSUME NEW t \in DOMAIN Closing
  PROVE  Closing[t] \in Closers /\ Owes(T(t), Closing[t])
<1>1. Closing[t] \in Closers /\ Closing[t] \in Marks
  BY DEF Closers, Marks
<1>2. \A after \in Seq(Marks) :
        LET due == <<Closing[t]>> \o after
        IN  due \in Seq(Marks) /\ due # <<>> /\ due[1] = Closing[t] /\ Tail(due) = after
  BY <1>1
<1>3. \A after \in Seq(Marks) : Ask(t, <<Closing[t]>> \o after) = after
  BY <1>2, AskMeans
<1>4. t \in Brackets
  BY DEF Brackets
<1>5. \A after \in Seq(Marks) : DueBefore(T(t), <<Closing[t]>> \o after) = Ask(t, <<Closing[t]>> \o after)
  BY <1>2, <1>4, BracketToken
<1>6. Proper(T(t))
  BY <1>4, BracketToken
<1> QED
  BY <1>1, <1>3, <1>5, <1>6, Zenon DEF Owes

LEMMA Delimiters ==
  /\ ")" \in Closers /\ "]" \in Closers /\ "}" \in Closers /\ ">" \in Closers
  /\ "Dedent" \in Closers
  /\ Owes(T("("), ")") /\ Asks(T(")"), ")")
  /\ Owes(T("["), "]") /\ Asks(T("]"), "]")
  /\ Owes(T("{"), "}") /\ Asks(T("}"), "}")
  /\ Owes(T("<"), ">") /\ Asks(T(">"), ">")
  /\ Owes(T("Indent"), "Dedent") /\ Asks(T("Dedent"), "Dedent")
BY BracketSets, OpeningToken, ClosingToken

\* So does the closing angle, which may be the half of a `>>`.
LEMMA ClosingAngle == Asks(<<Angle>>, ">")
<1>1. Angle.sym = "angle"
  BY DEF Angle
<1>2. Sound(Angle, {}) /\ Bracket(Angle) = ">"
  BY <1>1 DEF Sound, Bracket
<1>3. \A after \in Seq(Marks) : Ask(">", after) = <<">">> \o after
  BY Delimiters, AskMeans
<1> QED
  BY <1>2, <1>3, NothingIsWhole, SingleSymbol DEF Asks

\* A call stands for what the body of the function asks for.
LEMMA CallSymbol ==
  /\ \A name \in Functions \ Sections : Whole(<<Nt(name)>>)
  /\ \A name \in Sections : Asks(<<Nt(name)>>, "Dedent")
<1>1. ASSUME NEW name \in Functions \ Sections PROVE Whole(<<Nt(name)>>)
  <2>1. Nt(name).sym = "nt" /\ Nt(name).name = name
    BY DEF Nt
  <2>2. Sound(Nt(name), {}) /\ Bracket(Nt(name)) = "none"
    BY <2>1 DEF Sound, Bracket, Sections
  <2> QED
    BY <2>2, NothingIsWhole, NoneIsNoBracket, WholeSymbol
<1>2. ASSUME NEW name \in Sections PROVE Asks(<<Nt(name)>>, "Dedent")
  <2>1. Nt(name).sym = "nt" /\ Nt(name).name = name
    BY DEF Nt
  <2>2. Sound(Nt(name), {}) /\ Bracket(Nt(name)) = "Dedent"
    BY <2>1 DEF Sound, Bracket, Sections, Functions
  <2>3. \A after \in Seq(Marks) : Ask("Dedent", after) = <<"Dedent">> \o after
    BY Delimiters, AskMeans
  <2> QED
    BY <2>2, <2>3, NothingIsWhole, SingleSymbol DEF Asks
<1> QED
  BY <1>1, <1>2

LEMMA OptionSound ==
  ASSUME NEW S, NEW then, Proper(then), \A t \in S : Answers(t, then)
  PROVE  Whole(<<Opt(S, then)>>) /\ Whole(<<Star(S, then)>>)
<1>1. PICK U : Closed(U) /\ then \in Seq(U)
  BY DEF Proper
<1>2. /\ Opt(S, then).sym = "opt" /\ Opt(S, then).set = S /\ Opt(S, then).then = then
      /\ Star(S, then).sym = "star" /\ Star(S, then).set = S /\ Star(S, then).then = then
  BY DEF Opt, Star
<1>3. Sound(Opt(S, then), U) /\ Sound(Star(S, then), U)
  BY <1>1, <1>2 DEF Sound
<1>4. Bracket(Opt(S, then)) = "none" /\ Bracket(Star(S, then)) = "none"
  BY <1>2 DEF Bracket
<1> HIDE DEF Opt, Star
<1> QED
  BY <1>1, <1>3, <1>4, NoneIsNoBracket, WholeSymbol

\* An option that begins with a word, and one that begins with an opener.
LEMMA WordOption ==
  ASSUME NEW S, Plain(S), NEW then, Whole(then)
  PROVE  Whole(<<Opt(S, then)>>) /\ Whole(<<Star(S, then)>>)
<1>1. \A t \in S : Answers(t, then)
  BY DEF Answers, Plain, Brackets, Whole, Neutral, OpenAfter
<1> QED
  BY <1>1, OptionSound DEF Whole

LEMMA OpenedOption ==
  ASSUME NEW t \in DOMAIN Closing, NEW then, Asks(then, Closing[t])
  PROVE  Whole(<<Opt({t}, then)>>) /\ Whole(<<Star({t}, then)>>)
<1>1. t \notin Closers
  BY BracketSets
<1>2. \A u \in {t} : Answers(u, then)
  BY <1>1 DEF Answers, Asks, OpenAfter
<1> QED
  BY <1>2, OptionSound DEF Asks

LEMMA LoopSymbols ==
  /\ \A item : Whole(item) => Whole(<<Many(item)>>)
  /\ \A close, item, skip : Whole(item) /\ Whole(skip) => Whole(<<List(close, item, skip)>>)
<1>1. ASSUME NEW item, Whole(item) PROVE Whole(<<Many(item)>>)
  <2>1. PICK U : Closed(U) /\ item \in Seq(U)
    BY <1>1 DEF Whole, Proper
  <2>2. Many(item).sym = "many" /\ Many(item).item = item
    BY DEF Many
  <2>3. Sound(Many(item), U) /\ Bracket(Many(item)) = "none"
    BY <1>1, <2>1, <2>2 DEF Sound, Bracket, Whole
  <2> QED
    BY <2>1, <2>3, NoneIsNoBracket, WholeSymbol
<1>2. ASSUME NEW close, NEW item, NEW skip, Whole(item), Whole(skip)
      PROVE  Whole(<<List(close, item, skip)>>)
  <2>1. PICK U : Closed(U) /\ item \in Seq(U) /\ skip \in Seq(U)
    BY <1>2, ProperConcat DEF Whole
  <2>2. /\ List(close, item, skip).sym = "list"
        /\ List(close, item, skip).item = item /\ List(close, item, skip).skip = skip
    BY DEF List
  <2>3. Sound(List(close, item, skip), U) /\ Bracket(List(close, item, skip)) = "none"
    BY <1>2, <2>1, <2>2 DEF Sound, Bracket, Whole
  <2> QED
    BY <2>1, <2>3, NoneIsNoBracket, WholeSymbol
<1> QED
  BY <1>1, <1>2

LEMMA BracketsAre == Brackets = {"(", "[", "{", "<", "Indent", ")", "]", "}", ">", "Dedent"}
BY BracketSets DEF Brackets

LEMMA IdentsArePlain == Plain(Idents) /\ Plain({"_"} \union Idents)
<1>1. \A t \in Idents : t \notin Brackets
  BY BracketsAre, Zenon
  DEF Idents, TypeNames, GenericKinds, ClockEdges, Polarities, Encodings, Modes, Labels
<1>2. "_" \notin Brackets
  BY BracketsAre, Zenon
<1> QED
  BY <1>1, <1>2 DEF Plain

\* The sets of words that options and tokens name.
LEMMA PlainSets ==
  /\ Plain({","}) /\ Plain({":"}) /\ Plain({"="}) /\ Plain({"@"}) /\ Plain({"|"}) /\ Plain({"|>"})
  /\ Plain({"elif"}) /\ Plain({"else"}) /\ Plain({"always"}) /\ Plain({"doc"})
  /\ Plain({"timeout"}) /\ Plain({"str"}) /\ Plain({"pub"}) /\ Plain({"as"})
  /\ Plain({"in", "out", "inout"}) /\ Plain({"reset", "tick"})
  /\ Plain(GenericKinds) /\ Plain(ClockEdges) /\ Plain(Polarities)
  /\ Plain(Encodings) /\ Plain(Modes)
BY BracketsAre, Zenon DEF Plain, GenericKinds, ClockEdges, Polarities, Encodings, Modes

LEMMA Parts ==
  /\ Whole(Ident) /\ Whole(Newlines) /\ Whole(Structural)
  /\ Whole(Expr) /\ Whole(TypeExpr) /\ Whole(Stmt) /\ Whole(Item)
BY PlainToken, IdentsArePlain, BareSymbols, CallSymbol
DEF Ident, Newlines, Structural, Expr, TypeExpr, Stmt, Item, Functions, Sections

LEMMA Joins == \A a, b : Whole(a) /\ Whole(b) => Whole(a \o b)
BY Composition

LEMMA ParenJoins ==
  /\ \A a, b : Owes(a, ")") /\ Whole(b) => Owes(a \o b, ")")
  /\ \A a, b : Whole(a) /\ Owes(b, ")") => Owes(a \o b, ")")
  /\ \A a, b : Owes(a, ")") /\ Asks(b, ")") => Whole(a \o b)
  /\ \A a, b : Whole(a) /\ Asks(b, ")") => Asks(a \o b, ")")
  /\ Owes(T("("), ")") /\ Asks(T(")"), ")")
BY Composition, Delimiters, Zenon

LEMMA SquareJoins ==
  /\ \A a, b : Owes(a, "]") /\ Whole(b) => Owes(a \o b, "]")
  /\ \A a, b : Whole(a) /\ Owes(b, "]") => Owes(a \o b, "]")
  /\ \A a, b : Owes(a, "]") /\ Asks(b, "]") => Whole(a \o b)
  /\ \A a, b : Whole(a) /\ Asks(b, "]") => Asks(a \o b, "]")
  /\ Owes(T("["), "]") /\ Asks(T("]"), "]")
BY Composition, Delimiters, Zenon

LEMMA BraceJoins ==
  /\ \A a, b : Owes(a, "}") /\ Whole(b) => Owes(a \o b, "}")
  /\ \A a, b : Whole(a) /\ Owes(b, "}") => Owes(a \o b, "}")
  /\ \A a, b : Owes(a, "}") /\ Asks(b, "}") => Whole(a \o b)
  /\ \A a, b : Whole(a) /\ Asks(b, "}") => Asks(a \o b, "}")
  /\ Owes(T("{"), "}") /\ Asks(T("}"), "}")
BY Composition, Delimiters, Zenon

LEMMA AngleJoins ==
  /\ \A a, b : Owes(a, ">") /\ Whole(b) => Owes(a \o b, ">")
  /\ \A a, b : Whole(a) /\ Owes(b, ">") => Owes(a \o b, ">")
  /\ \A a, b : Owes(a, ">") /\ Asks(b, ">") => Whole(a \o b)
  /\ \A a, b : Whole(a) /\ Asks(b, ">") => Asks(a \o b, ">")
  /\ Owes(T("<"), ">") /\ Asks(<<Angle>>, ">")
BY Composition, Delimiters, ClosingAngle, Zenon

LEMMA BlockJoins ==
  /\ \A a, b : Owes(a, "Dedent") /\ Whole(b) => Owes(a \o b, "Dedent")
  /\ \A a, b : Whole(a) /\ Owes(b, "Dedent") => Owes(a \o b, "Dedent")
  /\ \A a, b : Owes(a, "Dedent") /\ Asks(b, "Dedent") => Whole(a \o b)
  /\ \A a, b : Whole(a) /\ Asks(b, "Dedent") => Asks(a \o b, "Dedent")
  /\ \A a, b : Asks(a, "Dedent") /\ Whole(b) => Asks(a \o b, "Dedent")
  /\ Owes(T("Indent"), "Dedent") /\ Asks(T("Dedent"), "Dedent")
BY Composition, Delimiters, Zenon

\* Symbols side by side are sequences of one joined.
LEMMA PairJoined ==
  ASSUME NEW x, NEW y
  PROVE  <<x>> \o <<y>> = <<x, y>>
<1> DEFINE w == <<x>> \o <<y>>
           v == <<x, y>>
<1>1. w \in Seq({x, y}) /\ Len(w) = 2 /\ w[1] = x /\ w[2] = y
  <2>1. <<x>> \in Seq({x, y}) /\ <<y>> \in Seq({x, y})
    OBVIOUS
  <2>2. Len(<<x>>) = 1 /\ Len(<<y>>) = 1 /\ <<x>>[1] = x /\ <<y>>[1] = y
    OBVIOUS
  <2> QED
    BY <2>1, <2>2, ConcatProperties
<1>2. v \in Seq({x, y}) /\ Len(v) = 2 /\ v[1] = x /\ v[2] = y
  OBVIOUS
<1> HIDE DEF w, v
<1>3. \A i \in 1 .. 2 : w[i] = v[i]
  BY <1>1, <1>2
<1>4. w = v
  BY <1>1, <1>2, <1>3, SeqEqual
<1> QED
  BY <1>4 DEF w, v

LEMMA TripleJoined ==
  ASSUME NEW x, NEW y, NEW z
  PROVE  <<x>> \o <<y, z>> = <<x, y, z>>
<1> DEFINE w == <<x>> \o <<y, z>>
           v == <<x, y, z>>
<1>1. w \in Seq({x, y, z}) /\ Len(w) = 3 /\ w[1] = x /\ w[2] = y /\ w[3] = z
  <2>1. <<x>> \in Seq({x, y, z}) /\ <<y, z>> \in Seq({x, y, z})
    OBVIOUS
  <2>2. /\ Len(<<x>>) = 1 /\ Len(<<y, z>>) = 2
        /\ <<x>>[1] = x /\ <<y, z>>[1] = y /\ <<y, z>>[2] = z
    OBVIOUS
  <2> QED
    BY <2>1, <2>2, ConcatProperties
<1>2. v \in Seq({x, y, z}) /\ Len(v) = 3 /\ v[1] = x /\ v[2] = y /\ v[3] = z
  OBVIOUS
<1> HIDE DEF w, v
<1>3. \A i \in 1 .. 3 : w[i] = v[i]
  BY <1>1, <1>2
<1>4. w = v
  BY <1>1, <1>2, <1>3, SeqEqual
<1> QED
  BY <1>4 DEF w, v

LEMMA Tuples ==
  /\ \A x, y : Whole(<<x>>) /\ Whole(<<y>>) => Whole(<<x, y>>)
  /\ \A x, y, z : Whole(<<x>>) /\ Whole(<<y>>) /\ Whole(<<z>>) => Whole(<<x, y, z>>)
<1>1. ASSUME NEW x, NEW y, Whole(<<x>>), Whole(<<y>>) PROVE Whole(<<x, y>>)
  <2>1. Whole(<<x>> \o <<y>>)
    BY <1>1, Joins
  <2> QED
    BY <2>1, PairJoined, Zenon
<1>2. ASSUME NEW x, NEW y, NEW z, Whole(<<x>>), Whole(<<y>>), Whole(<<z>>)
      PROVE  Whole(<<x, y, z>>)
  <2>1. Whole(<<x>> \o <<y, z>>)
    BY <1>1, <1>2, Joins, Zenon
  <2> QED
    BY <2>1, TripleJoined, Zenon
<1> QED
  BY <1>1, <1>2

LEMMA AngleTuple == \A x : Whole(<<x>>) => Asks(<<x, Angle>>, ">")
<1> SUFFICES ASSUME NEW x, Whole(<<x>>) PROVE Asks(<<x, Angle>>, ">")
  OBVIOUS
<1>1. Asks(<<x>> \o <<Angle>>, ">")
  BY AngleJoins
<1> QED
  BY <1>1, PairJoined, Zenon

\* The blocks and lists of the grammar: each closes what it opens.
LEMMA Block ==
  ASSUME NEW item, Whole(item)
  PROVE  Whole(parse_block(item))
<1>1. Whole(T(":"))
  BY Word, BracketsAre, Zenon
<1>2. Whole(<<Many(item)>>)
  BY LoopSymbols
<1> QED
  BY <1>1, <1>2, Parts, Joins, BlockJoins, Zenon DEF parse_block

LEMMA CommaList ==
  ASSUME NEW item, Whole(item)
  PROVE  \A close \in Closers : Asks(parse_comma_list(close, item), close)
<1>1. \A close : Whole(Structural \o <<List({close}, item, Structural)>>)
  BY LoopSymbols, Parts, Joins
<1> TAKE close \in Closers
<1> DEFINE elements == Structural \o <<List({close}, item, Structural)>>
<1>2. Whole(elements) /\ Asks(T(close), close)
  BY <1>1, ClosingToken
<1>3. parse_comma_list(close, item) = elements \o T(close)
  BY DEF parse_comma_list
<1> HIDE DEF elements
<1> QED
  BY <1>2, <1>3, Composition

LEMMA Lists ==
  ASSUME NEW item, Whole(item)
  PROVE  /\ Asks(parse_comma_list(")", item), ")")
         /\ Asks(parse_comma_list("}", item), "}")
         /\ Asks(parse_comma_list(">", item), ">")
BY CommaList, Delimiters, Zenon

LEMMA Blocks == Whole(StmtBlock) /\ Whole(ItemBlock)
BY Block, Parts DEF StmtBlock, ItemBlock

\* The calls of the grammar.
LEMMA Calls ==
  /\ Whole(<<Nt("named_arg")>>) /\ Whole(<<Nt("parse_unary")>>) /\ Whole(<<Nt("parse_postfix")>>)
  /\ Whole(<<Nt("method_args")>>) /\ Whole(<<Nt("parse_base_type")>>)
  /\ Whole(<<Nt("parse_generic_arg")>>) /\ Whole(<<Nt("partial_interface")>>)
  /\ Whole(<<Nt("indented_or_stmt")>>) /\ Whole(<<Nt("match_body")>>)
  /\ Whole(<<Nt("priority_arm")>>) /\ Whole(<<Nt("cover_name")>>)
  /\ Whole(<<Nt("unchecked_body")>>) /\ Whole(<<Nt("interface_member")>>)
  /\ Whole(<<Nt("transition_body")>>) /\ Whole(<<Nt("stage_element")>>)
  /\ Whole(<<Nt("import_names")>>) /\ Whole(<<Nt("port_binding")>>)
  /\ Whole(<<Nt("discard_or_expr")>>) /\ Whole(<<Nt("gen_body")>>) /\ Whole(<<Nt("gen_else")>>)
  /\ Whole(<<Nt("attributes")>>) /\ Whole(<<Nt("more_attributes")>>)
  /\ Whole(<<Nt("attributed_item")>>) /\ Whole(<<Nt("plain_item")>>)
  /\ Whole(<<Nt("parse_file")>>)
  /\ Asks(<<Nt("fsm_incomplete")>>, "Dedent") /\ Asks(<<Nt("fsm_complete")>>, "Dedent")
BY CallSymbol DEF Functions, Sections

-----------------------------------------------------------------------------

(* parser/expr.rs *)

\* The functions of the grammar, one lemma for each.
LEMMA PipeExpr == Whole(parse_pipe_expr)
<1>1. Whole(<<Pratt(0), PipeTarget, Node("|>")>>)
  BY BareSymbols, Tuples, Zenon
<1>2. Whole(<<Star({"|>"}, <<Pratt(0), PipeTarget, Node("|>")>>)>>)
  BY <1>1, WordOption, PlainSets, Zenon
<1> QED
  BY <1>2, BareSymbols, Tuples, Zenon DEF parse_pipe_expr

LEMMA PrattRule == \A min : Whole(parse_pratt(min))
BY Calls, BareSymbols, Tuples, Zenon DEF parse_pratt

LEMMA NamedArg == \A t, u : Whole(named_arg(t, u))
<1>1. Whole(T("="))
  BY Word, BracketsAre, Zenon
<1>2. Whole(Ident \o T("=") \o Expr)
  BY <1>1, Parts, Joins, Zenon
<1> QED
  BY <1>2, Parts DEF named_arg

LEMMA CallArgs == Asks(parse_call_args, ")")
<1>1. Whole(<<List({")"}, <<Nt("named_arg")>>, Newlines)>>)
  BY LoopSymbols, Calls, Parts, Zenon
<1> QED
  BY <1>1, Parts, Joins, ParenJoins, Zenon DEF parse_call_args

LEMMA Atom == \A t : Whole(parse_atom(t))
<1> SUFFICES ASSUME NEW t PROVE Whole(parse_atom(t))
  OBVIOUS
<1>1. /\ Whole(<<Opt({","}, Expr)>>)
      /\ Whole(<<Node("literal")>>) /\ Whole(<<Node("ident")>>) /\ Whole(<<Node("next")>>)
      /\ Whole(<<Node("eventually")>>) /\ Whole(<<Node("if")>>) /\ Whole(<<Node("paren")>>)
      /\ Whole(<<Node("array")>>) /\ Whole(<<Fail>>)
  BY WordOption, PlainSets, Parts, BareSymbols, Zenon
<1>2. /\ Whole(T("next")) /\ Whole(T("eventually")) /\ Whole(T(",")) /\ Whole(T("if"))
      /\ Whole(T("then")) /\ Whole(T("else"))
  BY Word, BracketsAre, Zenon
<1>3. ASSUME t \in {"num", "str", "true", "false"}
      PROVE  Whole(T(t) \o <<Node("literal")>>)
  <2>1. Whole(T(t))
    BY <1>3, Word, BracketsAre, Zenon
  <2> QED
    BY <2>1, <1>1, Joins
<1>4. ASSUME t \in Idents PROVE Whole(T(t) \o <<Node("ident")>>)
  <2>1. Whole(T(t))
    BY <1>4, Word, IdentsArePlain DEF Plain
  <2> QED
    BY <2>1, <1>1, Joins
<1>5. Whole(T("next") \o T("(") \o Expr \o <<Opt({","}, Expr)>> \o T(")") \o <<Node("next")>>)
  BY <1>1, <1>2, Parts, Joins, ParenJoins, Zenon
<1>6. Whole(T("eventually") \o T("(") \o Expr \o T(",") \o <<Nt("named_arg")>> \o T(")")
              \o <<Node("eventually")>>)
  BY <1>1, <1>2, Calls, Parts, Joins, ParenJoins, Zenon
<1>7. Whole(T("if") \o Expr \o T("then") \o Expr \o T("else") \o Expr \o <<Node("if")>>)
  BY <1>1, <1>2, Parts, Joins, Zenon
<1>8. Whole(T("(") \o Newlines \o Expr \o Newlines \o T(")") \o <<Node("paren")>>)
  BY <1>1, Parts, Joins, ParenJoins, Zenon
<1>9. Whole(T("[") \o Newlines \o <<List({"]"}, Expr, Newlines)>> \o T("]") \o <<Node("array")>>)
  <2>1. Whole(<<List({"]"}, Expr, Newlines)>>)
    BY LoopSymbols, Parts, Zenon
  <2> QED
    BY <2>1, <1>1, Parts, Joins, SquareJoins, Zenon
<1> QED
  BY <1>1, <1>3, <1>4, <1>5, <1>6, <1>7, <1>8, <1>9 DEF parse_atom

LEMMA Unary == \A t : Whole(parse_unary(t))
<1>1. ASSUME NEW t \in Prefix PROVE Whole(T(t) \o <<Nt("parse_unary"), Node(t)>>)
  <2>1. Whole(T(t))
    BY Word, BracketsAre, Zenon DEF Prefix
  <2>2. Whole(<<Nt("parse_unary"), Node(t)>>)
    BY Calls, BareSymbols, Tuples, Zenon
  <2> QED
    BY <2>1, <2>2, Joins
<1> QED
  BY <1>1, Atom DEF parse_unary

LEMMA MethodArgs == \A t : Whole(method_args(t))
<1>1. Whole(<<Node("method")>>) /\ Whole(<<Node("field")>>)
  BY BareSymbols
<1>2. Whole(T("(") \o parse_call_args \o <<Node("method")>>)
  BY <1>1, CallArgs, Joins, ParenJoins, Zenon
<1> QED
  BY <1>1, <1>2 DEF method_args

LEMMA Postfix == \A t : Whole(parse_postfix(t))
<1>1. /\ Whole(<<Nt("method_args"), Nt("parse_postfix")>>)
      /\ Whole(<<Node("index"), Nt("parse_postfix")>>)
      /\ Whole(<<Node("call"), Nt("parse_postfix")>>)
  BY Calls, BareSymbols, Tuples, Zenon
<1>2. Whole(T(".")) /\ Whole(<<Opt({":"}, Expr)>>)
  BY Word, BracketsAre, WordOption, PlainSets, Parts, Zenon
<1>3. Whole(T(".") \o Ident \o <<Nt("method_args"), Nt("parse_postfix")>>)
  BY <1>1, <1>2, Parts, Joins, Zenon
<1>4. Whole(T("[") \o Expr \o <<Opt({":"}, Expr)>> \o T("]")
              \o <<Node("index"), Nt("parse_postfix")>>)
  BY <1>1, <1>2, Parts, Joins, SquareJoins, Zenon
<1>5. Whole(T("(") \o parse_call_args \o <<Node("call"), Nt("parse_postfix")>>)
  BY <1>1, CallArgs, Joins, ParenJoins, Zenon
<1> QED
  BY <1>3, <1>4, <1>5, NothingIsWhole DEF parse_postfix

LEMMA Generic == Whole(ExprInGeneric)
BY Calls, BareSymbols, Tuples, Zenon DEF ExprInGeneric

-----------------------------------------------------------------------------

(* parser/types.rs *)

LEMMA Words ==
  /\ Whole(T(":")) /\ Whole(T("=")) /\ Whole(T(",")) /\ Whole(T("=>"))
  /\ Whole(T("@")) /\ Whole(T("->")) /\ Whole(T("str"))
BY Word, BracketsAre, Zenon

LEMMA WordOptions ==
  /\ Whole(<<Opt({"@"}, Ident)>>) /\ Whole(<<Opt({"="}, Expr)>>) /\ Whole(<<Opt({","}, Expr)>>)
  /\ Whole(<<Opt({":"}, TypeExpr)>>) /\ Whole(<<Opt({"doc"}, Newlines)>>)
  /\ Whole(<<Star({"|"}, Ident)>>) /\ Whole(<<Star({","}, Ident)>>)
  /\ Whole(<<Tok(GenericKinds)>>) /\ Whole(<<Tok(ClockEdges)>>) /\ Whole(<<Tok(Polarities)>>)
  /\ Whole(<<Tok(Encodings)>>) /\ Whole(<<Tok(Modes)>>)
  /\ Whole(<<Tok({"in", "out", "inout"})>>) /\ Whole(<<Tok({"reset", "tick"})>>)
  /\ Whole(<<Tok({"_"} \union Idents)>>)
BY WordOption, PlainSets, PlainToken, IdentsArePlain, Parts, Zenon

LEMMA TypeExprRule == Whole(parse_type_expr) /\ Whole(parse_type_expr_with_domain)
<1>1. Asks(Expr \o T("]"), "]")
  BY Parts, SquareJoins, Zenon
<1>2. "[" \in DOMAIN Closing /\ Closing["["] = "]"
  BY BracketSets, Zenon
<1>3. Whole(<<Star({"["}, Expr \o T("]"))>>)
  BY <1>1, <1>2, OpenedOption, Zenon
<1> QED
  BY <1>3, Calls, Tuples, Parts, Joins, WordOptions, Zenon
  DEF parse_type_expr, parse_type_expr_with_domain

LEMMA GenericArg == \A t, u : Whole(parse_generic_arg(t, u))
BY Generic, Parts, Zenon DEF parse_generic_arg

LEMMA GenericArgList == Asks(parse_generic_arg_list, ">")
<1>1. Whole(<<List({">", ">>"}, <<Nt("parse_generic_arg")>>, Newlines)>>)
  BY LoopSymbols, Calls, Parts, Zenon
<1> QED
  BY <1>1, Parts, Joins, AngleJoins, Zenon DEF parse_generic_arg_list

LEMMA ClockType == Whole(parse_clock_type)
<1>1. Asks(<<Opt({","}, <<Tok(ClockEdges)>>), Angle>>, ">")
  <2>1. Whole(<<Opt({","}, <<Tok(ClockEdges)>>)>>)
    BY WordOption, WordOptions, PlainSets, Zenon
  <2> QED
    BY <2>1, AngleTuple, Zenon
<1> QED
  BY <1>1, Generic, Joins, AngleJoins, Zenon DEF parse_clock_type

LEMMA ResetType == Whole(parse_reset_type)
<1>1. Asks(<<Tok(Polarities), Angle>>, ">")
  BY WordOptions, AngleTuple, Zenon
<1> QED
  BY <1>1, AngleJoins, Zenon DEF parse_reset_type

LEMMA MemoryType == Whole(parse_memory_type)
<1>1. Whole(Newlines \o Ident \o T("=") \o ExprInGeneric)
  BY Words, Generic, Parts, Joins, Zenon
<1>2. Asks(<<Star({","}, Newlines \o Ident \o T("=") \o ExprInGeneric), Angle>>, ">")
  <2>1. Whole(<<Star({","}, Newlines \o Ident \o T("=") \o ExprInGeneric)>>)
    BY <1>1, WordOption, PlainSets, Zenon
  <2> QED
    BY <2>1, AngleTuple, Zenon
<1> QED
  BY <1>2, Parts, Joins, AngleJoins, Zenon DEF parse_memory_type

LEMMA PartialInterface == \A t, u : Whole(partial_interface(t, u))
<1>1. Whole(T("."))
  BY Word, BracketsAre, Zenon
<1>2. Whole(T(".") \o T("{") \o parse_comma_list("}", Ident))
  BY <1>1, Lists, Parts, Joins, BraceJoins, Zenon
<1> QED
  BY <1>2, NothingIsWhole, Zenon DEF partial_interface

LEMMA BaseType == \A t, u : Whole(parse_base_type(t, u))
<1> SUFFICES ASSUME NEW t, NEW u PROVE Whole(parse_base_type(t, u))
  OBVIOUS
<1>1. /\ Whole(T("in")) /\ Whole(T("out")) /\ Whole(T("inout")) /\ Whole(T("Flip"))
      /\ Whole(T("Clock")) /\ Whole(T("SyncReset")) /\ Whole(T("AsyncReset"))
      /\ Whole(T("Memory"))
  BY Word, BracketsAre, Zenon
<1>2. Whole(<<Fail>>)
  BY BareSymbols
<1>4. \A s : Whole(s) => Whole(s \o T("<") \o TypeExpr \o <<Angle>>)
  BY Parts, AngleJoins, Zenon
<1>5. CASE t \in {"in", "out", "inout"}
  <2>1. Whole(T(t))
    BY <1>1, <1>5, Zenon
  <2>2. parse_base_type(t, u) = IF u = "<" THEN T(t) \o T("<") \o TypeExpr \o <<Angle>>
                                           ELSE <<Fail>>
    BY <1>5 DEF parse_base_type
  <2> QED
    BY <2>1, <2>2, <1>2, <1>4, Zenon
<1>6. CASE t \notin {"in", "out", "inout"}
  <2>1. /\ Whole(T("Flip") \o T("<") \o TypeExpr \o <<Angle>>)
        /\ Whole(T("Clock") \o parse_clock_type) /\ Whole(T("Memory") \o parse_memory_type)
        /\ Whole(T("SyncReset") \o parse_reset_type)
        /\ Whole(T("AsyncReset") \o parse_reset_type)
    BY <1>1, <1>4, ClockType, ResetType, MemoryType, Joins, Zenon
  <2>3. Whole(Ident \o (T("<") \o parse_generic_arg_list))
    BY Parts, GenericArgList, Joins, AngleJoins, Zenon
  <2>4. Whole(Ident \o <<Nt("partial_interface")>>)
    BY Calls, Parts, Joins, Zenon
  <2> DEFINE other == Ident \o IF u = "<" THEN T("<") \o parse_generic_arg_list
                                           ELSE <<Nt("partial_interface")>>
  <2>5. Whole(other)
    BY <2>3, <2>4, Zenon
  <2>6. \/ parse_base_type(t, u) = T("Flip") \o T("<") \o TypeExpr \o <<Angle>>
        \/ parse_base_type(t, u) = T("Clock") \o parse_clock_type
        \/ parse_base_type(t, u) = T("SyncReset") \o parse_reset_type
        \/ parse_base_type(t, u) = T("AsyncReset") \o parse_reset_type
        \/ parse_base_type(t, u) = T("SyncReset")
        \/ parse_base_type(t, u) = T("AsyncReset")
        \/ parse_base_type(t, u) = T("Memory") \o parse_memory_type
        \/ parse_base_type(t, u) = other
    BY <1>6 DEF parse_base_type
  <2> HIDE DEF other
  <2> QED
    BY <2>1, <2>5, <2>6, <1>1, Zenon
<1> QED
  BY <1>5, <1>6

LEMMA GenericParams == Whole(parse_generic_params)
<1>1. Whole(<<Opt({"="}, Expr)>>) /\ Whole(<<Tok(GenericKinds)>>)
  BY WordOptions
<1>2. Whole(<<Tok(GenericKinds), Opt({"="}, Expr)>>)
  BY <1>1, Tuples, Zenon
<1>3. Whole(Ident \o T(":") \o <<Tok(GenericKinds), Opt({"="}, Expr)>>)
  BY <1>2, Words, Parts, Joins, Zenon
<1>4. Asks(parse_comma_list(">", Ident \o T(":") \o <<Tok(GenericKinds), Opt({"="}, Expr)>>), ">")
  BY <1>3, Lists, Zenon
<1>5. "<" \in DOMAIN Closing /\ Closing["<"] = ">"
  BY BracketSets, Zenon
<1> QED
  BY <1>4, <1>5, OpenedOption, Zenon DEF parse_generic_params

-----------------------------------------------------------------------------

(* parser/stmt.rs *)

LEMMA SignalDecl == Whole(parse_signal_decl)
<1>1. Whole(T("signal")) /\ Whole(<<Opt({"@"}, Ident), Opt({"="}, Expr)>>)
  BY Word, BracketsAre, WordOptions, Tuples, Zenon
<1> QED
  BY <1>1, Words, Parts, Joins, Zenon DEF parse_signal_decl

LEMMA ValueDecl == Whole(parse_value_decl("let")) /\ Whole(parse_value_decl("const"))
<1>1. Whole(T("let")) /\ Whole(T("const"))
  BY Word, BracketsAre, Zenon
<1> QED
  BY <1>1, Words, WordOptions, Parts, Joins, Zenon DEF parse_value_decl

LEMMA TypeAlias == Whole(parse_type_alias)
<1>1. Whole(T("type"))
  BY Word, BracketsAre, Zenon
<1> QED
  BY <1>1, GenericParams, Words, Parts, Joins, Zenon DEF parse_type_alias

LEMMA AssignOrExpr == Whole(parse_assign_or_expr_stmt)
BY WordOptions, Parts, Joins, Zenon DEF parse_assign_or_expr_stmt

LEMMA IfStmt == Whole(parse_if_stmt)
<1>1. Whole(T("if")) /\ Whole(Expr \o StmtBlock)
  BY Word, BracketsAre, Parts, Blocks, Joins, Zenon
<1>2. Whole(<<Star({"elif"}, Expr \o StmtBlock), Opt({"else"}, StmtBlock)>>)
  <2>1. /\ Whole(<<Star({"elif"}, Expr \o StmtBlock)>>)
        /\ Whole(<<Opt({"else"}, StmtBlock)>>)
    BY <1>1, Blocks, WordOption, PlainSets, Zenon
  <2> QED
    BY <2>1, Tuples, Zenon
<1> QED
  BY <1>1, <1>2, Parts, Blocks, Joins, Zenon DEF parse_if_stmt

LEMMA IndentedOrStmt == \A t : Whole(indented_or_stmt(t))
<1>1. Whole(<<Many(Stmt)>>)
  BY LoopSymbols, Parts, Zenon
<1>2. Whole(T("Indent") \o <<Many(Stmt)>> \o T("Dedent"))
  BY <1>1, BlockJoins, Zenon
<1> QED
  BY <1>2, Parts, Zenon DEF indented_or_stmt

LEMMA MatchBody == \A t : Whole(match_body(t))
<1>1. Whole(Newlines \o <<Nt("indented_or_stmt")>>)
  BY Parts, Calls, Joins, Zenon
<1> QED
  BY <1>1, Blocks, Parts DEF match_body

LEMMA MatchStmt == Whole(parse_match_stmt)
<1>1. Whole(T("match")) /\ Whole(Expr \o T("=>") \o <<Nt("match_body")>>)
  BY Word, BracketsAre, Words, Calls, Parts, Joins, Zenon
<1> QED
  BY <1>1, Block, Parts, Joins, Zenon DEF parse_match_stmt

LEMMA ForStmt == Whole(parse_for_stmt)
<1>1. Whole(T("for")) /\ Whole(T("in"))
  BY Word, BracketsAre, Zenon
<1> QED
  BY <1>1, Blocks, Parts, Joins, Zenon DEF parse_for_stmt

LEMMA CombBlock == Whole(parse_comb_block)
<1>1. Whole(T("comb"))
  BY Word, BracketsAre, Zenon
<1> QED
  BY <1>1, Blocks, Joins, Zenon DEF parse_comb_block

LEMMA RegBlock == Whole(parse_reg_block)
<1>1. Whole(T("reg")) /\ Whole(T("on"))
  BY Word, BracketsAre, Zenon
<1>2. Whole(<<Opt({","}, <<Nt("named_arg")>>)>>)
  BY WordOption, PlainSets, Calls, Zenon
<1>3. Whole(parse_block(T("on") \o <<Tok({"reset", "tick"})>> \o StmtBlock))
  BY <1>1, WordOptions, Blocks, Joins, Block, Zenon
<1> QED
  BY <1>1, <1>2, <1>3, Words, Parts, Joins, ParenJoins, Zenon DEF parse_reg_block

LEMMA WhenArm == Whole(when_arm)
<1>1. Whole(T("when"))
  BY Word, BracketsAre, Zenon
<1> QED
  BY <1>1, Words, Parts, Joins, Zenon DEF when_arm

LEMMA PriorityArm == \A t : Whole(priority_arm(t))
<1>1. Whole(T("otherwise"))
  BY Word, BracketsAre, Zenon
<1>2. Whole(T("otherwise") \o T("=>") \o Stmt)
  BY <1>1, Words, Parts, Joins, Zenon
<1> QED
  BY <1>2, WhenArm, Zenon DEF priority_arm

LEMMA PriorityBlock == Whole(parse_priority_block)
<1>1. Whole(T("priority"))
  BY Word, BracketsAre, Zenon
<1> QED
  BY <1>1, Block, Calls, Joins, Zenon DEF parse_priority_block

LEMMA ParallelBlock == Whole(parse_parallel_block)
<1>1. Whole(T("parallel"))
  BY Word, BracketsAre, Zenon
<1>2. Asks(<<Nt("named_arg")>> \o T(")"), ")")
  BY Calls, ParenJoins, Zenon
<1>3. "(" \in DOMAIN Closing /\ Closing["("] = ")"
  BY BracketSets, Zenon
<1>4. Whole(<<Opt({"("}, <<Nt("named_arg")>> \o T(")"))>>)
  BY <1>2, <1>3, OpenedOption, Zenon
<1> QED
  BY <1>1, <1>4, WhenArm, Block, Joins, Zenon DEF parse_parallel_block

LEMMA AssertStmt ==
  /\ Whole(parse_assert_stmt(T("assert") \o <<Opt({"always"}, <<>>)>>))
  /\ Whole(parse_assert_stmt(T("assume")))
<1>1. Whole(T("assert")) /\ Whole(T("assume"))
  BY Word, BracketsAre, Zenon
<1>2. Whole(<<Opt({"always"}, <<>>)>>)
  BY WordOption, PlainSets, NothingIsWhole, Zenon
<1>3. Whole(T("assert") \o <<Opt({"always"}, <<>>)>>)
  BY <1>1, <1>2, Joins, Zenon
<1>4. \A s : Whole(s) => Whole(parse_assert_stmt(s))
  BY Words, WordOptions, Parts, Joins, Zenon DEF parse_assert_stmt
<1> QED
  BY <1>1, <1>3, <1>4, Zenon

LEMMA CoverName == \A t, u : Whole(cover_name(t, u))
BY Parts, NothingIsWhole, Zenon DEF cover_name

LEMMA CoverStmt == Whole(parse_cover_stmt)
<1>1. Whole(T("cover"))
  BY Word, BracketsAre, Zenon
<1> QED
  BY <1>1, Words, Calls, Parts, Joins, Zenon DEF parse_cover_stmt

LEMMA StaticAssert == Whole(parse_static_assert)
<1>1. Whole(T("static_assert"))
  BY Word, BracketsAre, Zenon
<1> QED
  BY <1>1, Words, Parts, Joins, Zenon DEF parse_static_assert

LEMMA UncheckedBody == \A t : Whole(unchecked_body(t))
<1>1. Whole(T("(") \o Expr \o T(")"))
  BY Parts, ParenJoins, Zenon
<1> QED
  BY <1>1, Blocks, BareSymbols DEF unchecked_body

LEMMA StmtRule == \A t : Whole(parse_stmt(t))
<1>1. Whole(T("unchecked") \o <<Nt("unchecked_body")>>)
  <2>1. Whole(T("unchecked"))
    BY Word, BracketsAre, Zenon
  <2> QED
    BY <2>1, Calls, Joins, Zenon
<1>2. DOMAIN Statements =
        {"signal", "let", "const", "type", "if", "match", "for", "comb",
         "reg", "priority", "parallel", "assert", "assume", "cover", "static_assert", "unchecked"}
  BY DEF Statements
<1>3. /\ Statements["signal"] = parse_signal_decl
      /\ Statements["let"] = parse_value_decl("let")
      /\ Statements["const"] = parse_value_decl("const")
      /\ Statements["type"] = parse_type_alias
      /\ Statements["if"] = parse_if_stmt
      /\ Statements["match"] = parse_match_stmt
      /\ Statements["for"] = parse_for_stmt
      /\ Statements["comb"] = parse_comb_block
      /\ Statements["reg"] = parse_reg_block
      /\ Statements["priority"] = parse_priority_block
      /\ Statements["parallel"] = parse_parallel_block
      /\ Statements["assert"] = parse_assert_stmt(T("assert") \o <<Opt({"always"}, <<>>)>>)
      /\ Statements["assume"] = parse_assert_stmt(T("assume"))
      /\ Statements["cover"] = parse_cover_stmt
      /\ Statements["static_assert"] = parse_static_assert
      /\ Statements["unchecked"] = T("unchecked") \o <<Nt("unchecked_body")>>
  BY DEF Statements
<1>4. ASSUME NEW t \in DOMAIN Statements PROVE Whole(Statements[t])
  BY <1>1, <1>2, <1>3, SignalDecl, ValueDecl, TypeAlias, IfStmt, MatchStmt, ForStmt, CombBlock,
     RegBlock, PriorityBlock, ParallelBlock, AssertStmt, CoverStmt, StaticAssert
<1> QED
  BY <1>4, AssignOrExpr, Zenon DEF parse_stmt

-----------------------------------------------------------------------------

(* parser/item.rs *)

LEMMA NamedParts == Whole(Named)
BY Words, Parts, Joins, Zenon DEF Named

LEMMA Port == Whole(parse_port)
<1>1. Whole(<<Opt({"doc"}, Newlines), Tok({"in", "out", "inout"})>>)
  BY WordOptions, Tuples, Zenon
<1> QED
  BY <1>1, Words, TypeExprRule, Parts, Joins, Zenon DEF parse_port

LEMMA PortList == Whole(Ports)
BY Port, Lists, ParenJoins, Zenon DEF Ports

LEMMA ModuleDef == Whole(parse_module_def)
<1>1. Whole(T("module"))
  BY Word, BracketsAre, Zenon
<1> QED
  BY <1>1, GenericParams, PortList, WordOptions, Blocks, Parts, Joins, Zenon
  DEF parse_module_def

LEMMA StructDef == Whole(parse_struct_def)
<1>1. Whole(T("struct"))
  BY Word, BracketsAre, Zenon
<1>2. Whole(T("[") \o Expr \o T(":") \o Expr \o T("]"))
  BY Words, Parts, SquareJoins, Zenon
<1>3. Whole(<<Opt({"@"}, T("[") \o Expr \o T(":") \o Expr \o T("]"))>>)
  BY <1>2, WordOption, PlainSets, Zenon
<1>4. Whole(Named \o <<Opt({"@"}, T("[") \o Expr \o T(":") \o Expr \o T("]"))>>)
  BY <1>3, NamedParts, Joins, Zenon
<1> QED
  BY <1>1, <1>4, Block, Parts, Joins, Zenon DEF parse_struct_def

LEMMA EnumDef == Whole(parse_enum_def)
<1>1. Whole(T("enum"))
  BY Word, BracketsAre, Zenon
<1>2. Asks(<<Tok(Encodings)>> \o T("]"), "]")
  BY WordOptions, SquareJoins, Zenon
<1>3. "[" \in DOMAIN Closing /\ Closing["["] = "]"
  BY BracketSets, Zenon
<1>4. Whole(<<Opt({"["}, <<Tok(Encodings)>> \o T("]"))>>)
  BY <1>2, <1>3, OpenedOption, Zenon
<1>5. Whole(parse_block(Ident \o <<Opt({"="}, Expr)>>))
  BY Block, WordOptions, Parts, Joins, Zenon
<1> QED
  BY <1>1, <1>4, <1>5, Parts, Joins, Zenon DEF parse_enum_def

LEMMA InterfaceMember == \A t : Whole(interface_member(t))
<1>1. Whole(T("group"))
  BY Word, BracketsAre, Zenon
<1>2. Whole(T("group") \o Ident \o parse_block(Named))
  BY <1>1, NamedParts, Block, Parts, Joins, Zenon
<1> QED
  BY <1>2, NamedParts, Zenon DEF interface_member

LEMMA InterfaceDef == Whole(parse_interface_def)
<1>1. Whole(T("interface"))
  BY Word, BracketsAre, Zenon
<1> QED
  BY <1>1, GenericParams, Block, Calls, Parts, Joins, Zenon DEF parse_interface_def

LEMMA FnDef == Whole(parse_fn_def)
<1>1. Whole(T("fn"))
  BY Word, BracketsAre, Zenon
<1> QED
  BY <1>1, GenericParams, NamedParts, Lists, Words, Blocks, Parts, Joins, ParenJoins, Zenon
  DEF parse_fn_def

LEMMA TransitionBody == \A t : Whole(transition_body(t))
BY Calls, Parts, Joins, Zenon DEF transition_body

LEMMA FsmTransition == Whole(parse_fsm_transition)
<1>1. Whole(T("--")) /\ Whole(T("-->"))
  BY Word, BracketsAre, Zenon
<1>2. Whole(<<Opt({"timeout"}, <<>>)>>) /\ Whole(<<Opt({":"}, <<Nt("transition_body")>>)>>)
  BY WordOption, PlainSets, NothingIsWhole, Calls, Zenon
<1>3. Whole(State)
  BY WordOptions DEF State
<1> QED
  BY <1>1, <1>2, <1>3, Parts, Joins, ParenJoins, Zenon DEF parse_fsm_transition

\* The loop over the sections asks for the Dedent at which it ends, or fails.
LEMMA FsmSections ==
  \A t : \A initial \in BOOLEAN :
    Asks(fsm_sections(initial, t), "Dedent") \/ fsm_sections(initial, t) = <<Fail>>
<1> SUFFICES ASSUME NEW t, NEW initial \in BOOLEAN
             PROVE  \/ Asks(fsm_sections(initial, t), "Dedent")
                    \/ fsm_sections(initial, t) = <<Fail>>
  OBVIOUS
<1> DEFINE more == Newlines \o <<Nt(IF initial \/ t = "initial" THEN "fsm_complete"
                                                               ELSE "fsm_incomplete")>>
<1>1. Asks(more, "Dedent")
  <2>1. Asks(<<Nt(IF initial \/ t = "initial" THEN "fsm_complete"
                                              ELSE "fsm_incomplete")>>, "Dedent")
    BY Calls
  <2> QED
    BY <2>1, Parts, BlockJoins, Zenon
<1>2. /\ Whole(T("on")) /\ Whole(T("tick")) /\ Whole(T("states")) /\ Whole(T("encoding"))
      /\ Whole(T("initial")) /\ Whole(T("transitions")) /\ Whole(T("outputs"))
  BY Word, BracketsAre, Zenon
<1>3. Asks(T("Dedent") \o IF initial THEN <<>> ELSE <<Fail>>, "Dedent")
  <2>1. Asks(T("Dedent") \o <<>>, "Dedent") /\ Asks(T("Dedent") \o <<Fail>>, "Dedent")
    BY NothingIsWhole, BareSymbols, BlockJoins, Zenon
  <2> QED
    BY <2>1
<1> HIDE DEF more
<1>4. /\ Asks(T("on") \o T("tick") \o StmtBlock \o more, "Dedent")
      /\ Asks(T("states") \o T(":") \o Ident \o <<Star({"|"}, Ident)>> \o more, "Dedent")
      /\ Asks(T("encoding") \o T(":") \o <<Tok(Encodings)>> \o more, "Dedent")
      /\ Asks(T("initial") \o T(":") \o Ident \o more, "Dedent")
  BY <1>1, <1>2, Words, WordOptions, Blocks, Parts, Joins, BlockJoins, Zenon
<1>5. Asks(T("transitions") \o parse_block(parse_fsm_transition) \o more, "Dedent")
  BY <1>1, <1>2, FsmTransition, Block, Joins, BlockJoins, Zenon
<1>6. Asks(T("outputs") \o parse_block(Ident \o T("=>") \o Stmt) \o more, "Dedent")
  <2>1. Whole(parse_block(Ident \o T("=>") \o Stmt))
    BY Words, Parts, Joins, Block, Zenon
  <2> QED
    BY <1>1, <1>2, <2>1, Joins, BlockJoins, Zenon
<1> USE DEF more
<1> QED
  BY <1>1, <1>3, <1>4, <1>5, <1>6 DEF fsm_sections

LEMMA ClockedHeader ==
  /\ Owes(Clocked("fsm"), ")") /\ Owes(Clocked("pipeline"), ")")
<1>1. Whole(T("fsm")) /\ Whole(T("pipeline"))
  BY Word, BracketsAre, Zenon
<1> QED
  BY <1>1, Words, Parts, Joins, ParenJoins, Zenon DEF Clocked

LEMMA FsmDef == Whole(parse_fsm_def)
BY ClockedHeader, Calls, Words, Parts, Joins, ParenJoins, BlockJoins, Zenon DEF parse_fsm_def

LEMMA PipelinePort ==
  Whole(parse_pipeline_port("input")) /\ Whole(parse_pipeline_port("output"))
<1>1. Whole(T("input")) /\ Whole(T("output"))
  BY Word, BracketsAre, Zenon
<1> QED
  BY <1>1, Words, WordOptions, Parts, Joins, Zenon DEF parse_pipeline_port

LEMMA StageElement == \A t : Whole(stage_element(t))
<1>1. Whole(T("stall_when"))
  BY Word, BracketsAre, Zenon
<1>2. Whole(T("stall_when") \o T(":") \o Expr)
  BY <1>1, Words, Parts, Joins, Zenon
<1> QED
  BY <1>2, Parts, Zenon DEF stage_element

LEMMA PipelineStage == Whole(parse_pipeline_stage)
<1>1. Whole(T("stage")) /\ Whole(<<Opt({"str"}, <<>>)>>)
  BY Word, BracketsAre, WordOption, PlainSets, NothingIsWhole, Zenon
<1> QED
  BY <1>1, Block, Calls, Parts, Joins, Zenon DEF parse_pipeline_stage

LEMMA PipelineDef == Whole(parse_pipeline_def)
<1>1. Whole(T("backpressure"))
  BY Word, BracketsAre, Zenon
<1>2. Whole(T("backpressure") \o T("=") \o <<Tok(Modes)>>)
  BY <1>1, Words, WordOptions, Joins, Zenon
<1>3. Whole(<<Opt({","}, T("backpressure") \o T("=") \o <<Tok(Modes)>>)>>)
  BY <1>2, WordOption, PlainSets, Zenon
<1>4. Whole(<<Many(parse_pipeline_stage)>>)
  BY LoopSymbols, PipelineStage, Zenon
<1> QED
  BY <1>3, <1>4, ClockedHeader, PipelinePort, Words, Parts, Joins, ParenJoins, BlockJoins, Zenon
  DEF parse_pipeline_def

LEMMA TestBlock == Whole(parse_test_block)
<1>1. Whole(T("test"))
  BY Word, BracketsAre, Zenon
<1> QED
  BY <1>1, Words, Blocks, Joins, Zenon DEF parse_test_block

LEMMA ImportNames == \A t : Whole(import_names(t))
<1>1. Whole(T("{") \o parse_comma_list("}", Ident))
  BY Lists, Parts, BraceJoins, Zenon
<1> QED
  BY <1>1, Parts, Zenon DEF import_names

LEMMA Import == Whole(parse_import)
<1>1. Whole(T("import")) /\ Whole(T("from")) /\ Whole(<<Opt({"as"}, Ident)>>)
  BY Word, BracketsAre, WordOption, PlainSets, Parts, Zenon
<1> QED
  BY <1>1, Words, Calls, Joins, Zenon DEF parse_import

LEMMA ExternModule == Whole(parse_extern_module)
<1>1. Whole(T("extern")) /\ Whole(T("module"))
  BY Word, BracketsAre, Zenon
<1> QED
  BY <1>1, Words, PortList, Parts, Joins, ParenJoins, Zenon DEF parse_extern_module

LEMMA DiscardOrExpr == \A t : Whole(discard_or_expr(t))
<1>1. Whole(T("_"))
  BY Word, BracketsAre, Zenon
<1> QED
  BY <1>1, Parts, Zenon DEF discard_or_expr

LEMMA PortBinding == \A t : Whole(port_binding(t))
<1>1. Whole(T("<->"))
  BY Word, BracketsAre, Zenon
<1>2. /\ Whole(T("=") \o <<Nt("discard_or_expr")>>)
      /\ Whole(T("->") \o <<Nt("discard_or_expr")>>)
      /\ Whole(T("<->") \o Expr) /\ Whole(<<Fail>>)
  BY <1>1, Words, Calls, BareSymbols, Parts, Joins, Zenon
<1> QED
  BY <1>2 DEF port_binding

LEMMA InstDecl == Whole(parse_inst_decl)
<1>1. Whole(T("inst"))
  BY Word, BracketsAre, Zenon
<1>2. Whole(<<Opt({"<"}, parse_comma_list(">", ExprInGeneric))>>)
  <2>1. Asks(parse_comma_list(">", ExprInGeneric), ">")
    BY Lists, Generic, Zenon
  <2>2. "<" \in DOMAIN Closing /\ Closing["<"] = ">"
    BY BracketSets, Zenon
  <2> QED
    BY <2>1, <2>2, OpenedOption, Zenon
<1>3. Asks(parse_comma_list(")", Ident \o <<Nt("port_binding")>>), ")")
  BY Lists, Calls, Parts, Joins, Zenon
<1> QED
  BY <1>1, <1>2, <1>3, Words, Parts, Joins, ParenJoins, Zenon DEF parse_inst_decl

LEMMA GenBody == \A t : Whole(gen_body(t))
<1>1. Whole(T("for")) /\ Whole(T("in")) /\ Whole(T("if"))
  BY Word, BracketsAre, Zenon
<1>2. /\ Whole(T("for") \o Ident \o T("in") \o Expr \o ItemBlock)
      /\ Whole(T("if") \o Expr \o ItemBlock \o <<Nt("gen_else")>>) /\ Whole(<<Fail>>)
  BY <1>1, Blocks, Calls, BareSymbols, Parts, Joins, Zenon
<1> QED
  BY <1>2 DEF gen_body

LEMMA GenElse == \A t, u : Whole(gen_else(t, u))
<1>1. Whole(T("gen")) /\ Whole(T("else"))
  BY Word, BracketsAre, Zenon
<1>2. Whole(T("gen") \o T("else") \o ItemBlock)
  BY <1>1, Blocks, Joins, Zenon
<1> QED
  BY <1>2, NothingIsWhole, Zenon DEF gen_else

LEMMA Gen == Whole(parse_gen)
<1>1. Whole(T("gen"))
  BY Word, BracketsAre, Zenon
<1> QED
  BY <1>1, Calls, Joins, Zenon DEF parse_gen

LEMMA ItemKind == \A attributed, t : Whole(item_kind(attributed, t))
<1>1. DOMAIN Items = {"module", "struct", "enum", "interface", "fn", "fsm", "pipeline", "test",
                      "import", "extern", "inst", "gen"}
  BY DEF Items
<1>2. /\ Items["module"] = parse_module_def
      /\ Items["struct"] = parse_struct_def
      /\ Items["enum"] = parse_enum_def
      /\ Items["interface"] = parse_interface_def
      /\ Items["fn"] = parse_fn_def
      /\ Items["fsm"] = parse_fsm_def
      /\ Items["pipeline"] = parse_pipeline_def
      /\ Items["test"] = parse_test_block
      /\ Items["import"] = parse_import
      /\ Items["extern"] = parse_extern_module
      /\ Items["inst"] = parse_inst_decl
      /\ Items["gen"] = parse_gen
  BY DEF Items
<1>3. ASSUME NEW t \in DOMAIN Items PROVE Whole(Items[t])
  BY <1>1, <1>2, ModuleDef, StructDef, EnumDef, InterfaceDef, FnDef, FsmDef, PipelineDef,
     TestBlock, Import, ExternModule, InstDecl, Gen
<1> QED
  BY <1>3, Parts, BareSymbols DEF item_kind

LEMMA ItemAttributes == \A attributed, t : Whole(item_attributes(attributed, t))
<1>1. Whole(T("@"))
  BY Words
<1>2. "(" \in DOMAIN Closing /\ Closing["("] = ")"
  BY BracketSets, Zenon
<1>3. Whole(<<Opt({"("}, parse_comma_list(")", Expr))>>)
  BY <1>2, Lists, Parts, OpenedOption, Zenon
<1>4. Whole(T("@") \o Ident \o <<Opt({"("}, parse_comma_list(")", Expr))>>
              \o Newlines \o <<Nt("more_attributes")>>)
  BY <1>1, <1>3, Calls, Parts, Joins, Zenon
<1>5. Whole(<<Opt({"pub"}, <<>>)>>)
  BY WordOption, PlainSets, NothingIsWhole, Zenon
<1>6. /\ Whole(<<Opt({"pub"}, <<>>), Nt("attributed_item")>>)
      /\ Whole(<<Opt({"pub"}, <<>>), Nt("plain_item")>>)
  BY <1>5, Calls, Tuples, Zenon
<1> QED
  BY <1>4, <1>6 DEF item_attributes

LEMMA ItemRule == Whole(parse_item)
<1>1. Whole(Newlines \o <<Star({"doc"}, Newlines)>>)
  BY WordOption, PlainSets, Parts, Joins, Zenon
<1>2. Whole(<<Opt({"doc"}, Newlines \o <<Star({"doc"}, Newlines)>>)>>)
  BY <1>1, WordOption, PlainSets, Zenon
<1> QED
  BY <1>2, Calls, Tuples, Zenon DEF parse_item

LEMMA FileRule == \A t : Whole(parse_file(t))
<1>1. Whole(Newlines \o <<Nt("parse_file")>>) /\ Whole(Item \o Newlines \o <<Nt("parse_file")>>)
  BY Calls, Parts, Joins, Zenon
<1> QED
  BY <1>1, NothingIsWhole DEF parse_file

-----------------------------------------------------------------------------

\* What the body of a function asks for is what a call of it stands for.
LEMMA Rules ==
  ASSUME NEW name \in Functions, NEW t, NEW u
  PROVE  /\ name \notin Sections => Whole(Rule(name, t, u))
         /\ name \in Sections =>
              Asks(Rule(name, t, u), "Dedent") \/ Rule(name, t, u) = <<Fail>>
<1>1. CASE name \in {"parse_expr", "parse_type_expr", "parse_item"}
  <2>1. /\ DOMAIN Blind = {"parse_expr", "parse_type_expr", "parse_item"}
        /\ Blind["parse_expr"] = parse_pipe_expr
        /\ Blind["parse_type_expr"] = parse_type_expr
        /\ Blind["parse_item"] = parse_item
    BY DEF Blind
  <2>2. Rule(name, t, u) = Blind[name]
    BY <1>1, <2>1 DEF Rule
  <2>3. name \notin Sections
    BY <1>1 DEF Sections
  <2> QED
    BY <1>1, <2>1, <2>2, <2>3, PipeExpr, TypeExprRule, ItemRule
<1>2. CASE name \in Sections
  <2>1. /\ Asks(fsm_sections(TRUE, t), "Dedent") \/ fsm_sections(TRUE, t) = <<Fail>>
        /\ Asks(fsm_sections(FALSE, t), "Dedent") \/ fsm_sections(FALSE, t) = <<Fail>>
    BY FsmSections
  <2>2. Rule(name, t, u) \in {fsm_sections(TRUE, t), fsm_sections(FALSE, t)}
    BY <1>2 DEF Rule, Sections, Blind
  <2> QED
    BY <1>2, <2>1, <2>2
<1>3. CASE name \notin Sections /\ name \notin {"parse_expr", "parse_type_expr", "parse_item"}
  <2>1. DOMAIN Blind = {"parse_expr", "parse_type_expr", "parse_item"}
    BY DEF Blind
  <2>2. /\ Whole(parse_unary(t)) /\ Whole(parse_postfix(t)) /\ Whole(method_args(t))
        /\ Whole(named_arg(t, u)) /\ Whole(parse_base_type(t, u))
        /\ Whole(parse_generic_arg(t, u)) /\ Whole(partial_interface(t, u))
        /\ Whole(parse_stmt(t)) /\ Whole(indented_or_stmt(t)) /\ Whole(match_body(t))
        /\ Whole(priority_arm(t)) /\ Whole(cover_name(t, u)) /\ Whole(unchecked_body(t))
    BY Unary, Postfix, MethodArgs, NamedArg, BaseType, GenericArg, PartialInterface, StmtRule,
       IndentedOrStmt, MatchBody, PriorityArm, CoverName, UncheckedBody, Zenon
  <2>3. /\ Whole(interface_member(t)) /\ Whole(transition_body(t)) /\ Whole(stage_element(t))
        /\ Whole(import_names(t)) /\ Whole(port_binding(t)) /\ Whole(discard_or_expr(t))
        /\ Whole(gen_body(t)) /\ Whole(gen_else(t, u))
        /\ Whole(item_attributes(FALSE, t)) /\ Whole(item_attributes(TRUE, t))
        /\ Whole(item_kind(TRUE, t)) /\ Whole(item_kind(FALSE, t)) /\ Whole(parse_file(t))
    BY InterfaceMember, TransitionBody, StageElement, ImportNames, PortBinding, DiscardOrExpr,
       GenBody, GenElse, ItemAttributes, ItemKind, FileRule, Zenon
  <2>4. Whole(Rule(name, t, u))
    BY <1>3, <2>1, <2>2, <2>3 DEF Rule, Functions, Sections
  <2> QED
    BY <1>3, <2>4
<1> QED
  BY <1>1, <1>2, <1>3

-----------------------------------------------------------------------------

(* The steps, and the delimiters. *)

\* The functions of a stack, and what the parser waits for is what is open.
DInv == Proper(stack) /\ open \in Seq(Closers) /\ DelimitersAgree

\* The symbol at the top, and what is due below it.
LEMMA TopSymbol ==
  ASSUME Proper(stack), stack # <<>>
  PROVE  \E S :
           /\ Closed(S) /\ Top \in S /\ Rest \in Seq(S) /\ Sound(Top, S) /\ Proper(Rest)
           /\ stack = <<Top>> \o Rest
           /\ DueBefore(Rest, <<>>) \in Seq(Marks)
           /\ Due = Ask(Bracket(Top), DueBefore(Rest, <<>>))
<1>1. PICK S : Closed(S) /\ stack \in Seq(S)
  BY DEF Proper
<1>2. Top \in S /\ Rest \in Seq(S) /\ stack = <<Top>> \o Rest
  BY <1>1 DEF Top, Rest
<1>3. Sound(Top, S) /\ Proper(Rest)
  BY <1>1, <1>2, Zenon DEF Closed, Proper
<1>4. <<>> \in Seq(Marks)
  OBVIOUS
<1>5. DueBefore(Rest, <<>>) \in Seq(Marks)
  BY <1>2, <1>4, DueType
<1>6. <<Top>> \in Seq(S)
  BY <1>2
<1>7. DueBefore(<<Top>> \o Rest, <<>>) = DueBefore(<<Top>>, DueBefore(Rest, <<>>))
  <2>1. \A u \in Seq(S), after \in Seq(Marks) :
          DueBefore(<<Top>> \o u, after) = DueBefore(<<Top>>, DueBefore(u, after))
    <3> TAKE u \in Seq(S), after \in Seq(Marks)
    <3> DEFINE s == <<Top>>
    <3>1. s \in Seq(S)
      BY <1>6
    <3> HIDE DEF s
    <3>2. DueBefore(s \o u, after) = DueBefore(s, DueBefore(u, after))
      BY <3>1, DueConcat
    <3> QED
      BY <3>2 DEF s
  <2> QED
    BY <1>2, <1>4, <2>1, Zenon
<1>8. DueBefore(<<Top>>, DueBefore(Rest, <<>>)) = Ask(Bracket(Top), DueBefore(Rest, <<>>))
  BY <1>5, DueOne
<1>9. Due = Ask(Bracket(Top), DueBefore(Rest, <<>>))
  BY <1>2, <1>7, <1>8 DEF Due
<1> QED
  BY <1>1, <1>2, <1>3, <1>5, <1>9, Zenon

\* Symbols put before what is left.
LEMMA Before ==
  ASSUME NEW then, NEW rest, Proper(then), Proper(rest)
  PROVE  /\ Proper(then \o rest)
         /\ DueBefore(then \o rest, <<>>) = DueBefore(then, DueBefore(rest, <<>>))
<1>1. PICK S : Closed(S) /\ then \in Seq(S) /\ rest \in Seq(S) /\ then \o rest \in Seq(S)
  BY ProperConcat
<1>2. <<>> \in Seq(Marks)
  OBVIOUS
<1>3. Proper(then \o rest)
  BY <1>1, Zenon DEF Proper
<1>4. DueBefore(then \o rest, <<>>) = DueBefore(then, DueBefore(rest, <<>>))
  <2>1. \A s, u \in Seq(S), after \in Seq(Marks) :
          DueBefore(s \o u, after) = DueBefore(s, DueBefore(u, after))
    BY DueConcat
  <2> QED
    BY <1>1, <1>2, <2>1, Zenon
<1> QED
  BY <1>3, <1>4

\* Which symbols stand for a bracket.
LEMMA TopBracket ==
  ASSUME NEW x, NEW S, Sound(x, S)
  PROVE  /\ x.sym \notin {"tok", "nt", "angle"} => Bracket(x) \notin Brackets
         /\ x.sym = "angle" => Bracket(x) = ">"
         /\ x.sym = "tok" => \/ Plain(x.set) /\ Bracket(x) \notin Brackets
                             \/ Bracket(x) \in Brackets /\ x.set = {Bracket(x)}
         /\ x.sym = "nt" => \/ x.name \in Functions \ Sections /\ Bracket(x) \notin Brackets
                            \/ x.name \in Sections /\ Bracket(x) = "Dedent"
<1>1. "none" \notin Brackets
  BY NoneIsNoBracket
<1>2. ASSUME x.sym \notin {"tok", "nt", "angle"} PROVE Bracket(x) \notin Brackets
  BY <1>1, <1>2 DEF Bracket
<1>7. x.sym = "angle" => Bracket(x) = ">"
  BY DEF Bracket
<1>3. ASSUME x.sym = "tok", Plain(x.set) PROVE Bracket(x) \notin Brackets
  <2>1. x.set \notin SingleBrackets
    BY <1>3 DEF SingleBrackets, Plain, Brackets
  <2> QED
    BY <1>1, <1>3, <2>1 DEF Bracket
<1>4. ASSUME x.sym = "tok", x.set \in SingleBrackets
      PROVE  Bracket(x) \in Brackets /\ x.set = {Bracket(x)}
  <2>1. PICK c \in Brackets : x.set = {c}
    BY <1>4 DEF SingleBrackets, Brackets
  <2>2. (CHOOSE b \in x.set : TRUE) = c
    BY <2>1
  <2>3. Bracket(x) = c
    BY <1>4, <2>2 DEF Bracket
  <2> QED
    BY <2>1, <2>3
<1>5. ASSUME x.sym = "nt"
      PROVE  \/ x.name \in Functions \ Sections /\ Bracket(x) \notin Brackets
             \/ x.name \in Sections /\ Bracket(x) = "Dedent"
  <2>1. x.name \in Functions
    BY <1>5 DEF Sound
  <2>2. Bracket(x) = IF x.name \in Sections THEN "Dedent" ELSE "none"
    BY <1>5 DEF Bracket, Sections
  <2> QED
    BY <1>1, <2>1, <2>2
<1>6. x.sym = "tok" => Plain(x.set) \/ x.set \in SingleBrackets
  BY DEF Sound
<1> QED
  BY <1>2, <1>3, <1>4, <1>5, <1>6, <1>7

\* Something that is proper takes the place of the symbol at the top.
Replaced == \E then : Proper(then) /\ stack' = then \o Rest

\* A symbol without a bracket gives way to whole sequences.
LEMMA ReplaceStep ==
  ASSUME DInv, status = "parsing", ~Failing, stack # <<>>, Bracket(Top) \notin Brackets,
         NEW then, Whole(then), stack' = then \o Rest, open' = open
  PROVE  DInv'
<1>1. /\ Proper(Rest) /\ DueBefore(Rest, <<>>) \in Seq(Marks)
      /\ Due = Ask(Bracket(Top), DueBefore(Rest, <<>>))
  BY TopSymbol DEF DInv
<1>2. Due = DueBefore(Rest, <<>>)
  BY <1>1, AskMeans
<1>3. /\ Proper(then \o Rest)
      /\ DueBefore(then \o Rest, <<>>) = DueBefore(then, DueBefore(Rest, <<>>))
  BY <1>1, Before DEF Whole
<1>4. DueBefore(then, DueBefore(Rest, <<>>)) = DueBefore(Rest, <<>>)
  BY <1>1 DEF Whole, Neutral
<1>5. Due = open
  BY DEF DInv, DelimitersAgree
<1>6. Due' = open'
  BY <1>2, <1>3, <1>4, <1>5, Zenon DEF Due
<1> QED
  BY <1>3, <1>6 DEF DInv, DelimitersAgree

\* The cursor passes a token that closes nothing, and what it opens is asked for.
LEMMA OpenStep ==
  ASSUME DInv, status = "parsing", ~Failing, stack # <<>>, Bracket(Top) \notin Brackets,
         NEW then, Proper(then), Answers(Peek, then),
         stack' = then \o Rest, open' = Opened(Peek)
  PROVE  DInv' /\ Peek \notin Closers
<1>1. /\ Proper(Rest) /\ DueBefore(Rest, <<>>) \in Seq(Marks)
      /\ Due = Ask(Bracket(Top), DueBefore(Rest, <<>>))
  BY TopSymbol DEF DInv
<1>2. DueBefore(Rest, <<>>) = open
  BY <1>1, AskMeans DEF DInv, DelimitersAgree
<1>3. /\ Proper(then \o Rest)
      /\ DueBefore(then \o Rest, <<>>) = DueBefore(then, DueBefore(Rest, <<>>))
  BY <1>1, Before
<1>4. DueBefore(then, DueBefore(Rest, <<>>)) = OpenAfter(Peek, open)
  BY <1>1, <1>2 DEF Answers
<1>5. Peek \notin Closers
  BY DEF Answers
<1>6. open # <<>> => open[1] \in Closers
  BY DEF DInv
<1>7. Opened(Peek) = OpenAfter(Peek, open)
  BY <1>5, <1>6 DEF Opened, Delimited, OpenAfter
<1>8. Due' = open'
  BY <1>3, <1>4, <1>7, Zenon DEF Due
<1>9. open' \in Seq(Closers)
  <2>1. CASE Peek \in DOMAIN Closing
    <3>1. Closing[Peek] \in Closers
      BY <2>1 DEF Closers
    <3> QED
      BY <2>1, <3>1, <1>7 DEF OpenAfter, DInv
  <2>2. CASE Peek \notin DOMAIN Closing
    BY <2>2, <1>7 DEF OpenAfter, DInv
  <2> QED
    BY <2>1, <2>2
<1> QED
  BY <1>3, <1>5, <1>8, <1>9 DEF DInv, DelimitersAgree

\* The reader sees the token t, which was asked for by itself.
LEMMA BracketStep ==
  ASSUME DInv, status = "parsing", ~Failing, stack # <<>>, NEW t \in Brackets,
         t = Bracket(Top), stack' = Rest, open' = Opened(t)
  PROVE  DInv' /\ (t \in Closers => open # <<>> /\ open[1] = t)
<1> DEFINE due == DueBefore(Rest, <<>>)
<1>1. /\ Proper(Rest) /\ due \in Seq(Marks) /\ Due = Ask(t, due)
  BY TopSymbol DEF DInv
<1>2. Due = open /\ open \in Seq(Closers)
  BY DEF DInv, DelimitersAgree
<1>3. Due' = due
  BY DEF Due
<1> HIDE DEF due
<1>4. CASE t \in Closers
  <2>1. open = <<t>> \o due
    BY <1>1, <1>2, <1>4, AskMeans
  <2>2. open # <<>> /\ open[1] = t /\ Tail(open) = due
    <3>1. t \in Marks
      BY <1>4 DEF Marks
    <3> QED
      BY <2>1, <3>1, <1>1
  <2>3. t \notin DOMAIN Closing
    BY <1>4, BracketSets
  <2>4. open' = due
    BY <1>4, <2>2, <2>3 DEF Opened, Delimited
  <2>5. due \in Seq(Closers)
    BY <1>2, <2>2
  <2> QED
    BY <1>1, <1>3, <2>2, <2>4, <2>5 DEF DInv, DelimitersAgree
<1>5. CASE t \in DOMAIN Closing
  <2>1. open = IF due # <<>> /\ due[1] = Closing[t] THEN Tail(due)
                                                       ELSE <<"unmatched">> \o due
    BY <1>1, <1>2, <1>5, AskMeans
  <2>2. due # <<>> /\ due[1] = Closing[t]
    <3> SUFFICES ASSUME ~(due # <<>> /\ due[1] = Closing[t]) PROVE FALSE
      OBVIOUS
    <3>1. open = <<"unmatched">> \o due
      BY <2>1
    <3>2. open # <<>> /\ open[1] = "unmatched"
      <4>1. "unmatched" \in Marks
        BY DEF Marks
      <4> QED
        BY <3>1, <4>1, <1>1
    <3>3. "unmatched" \in Closers
      BY <3>2, <1>2
    <3> QED
      BY <3>3, BracketSets
  <2>3. open = Tail(due) /\ due = <<Closing[t]>> \o Tail(due)
    BY <2>1, <2>2, <1>1
  <2>6. Closing[t] \in Closers /\ t \notin Closers
    BY <1>5, BracketSets DEF Closers
  <2>4. open' = <<Closing[t]>> \o open
    BY <1>5, <2>6 DEF Opened, Delimited
  <2>5. open' = due
    BY <2>3, <2>4
  <2>7. open' \in Seq(Closers)
    BY <2>4, <2>6, <1>2
  <2> QED
    BY <1>1, <1>3, <2>5, <2>6, <2>7 DEF DInv, DelimitersAgree
<1> QED
  BY <1>4, <1>5 DEF Brackets

\* What a reader sees close is what was opened last.
ClosesLast == Peek \in Closers => open # <<>> /\ open[1] = Peek

\* A symbol at the top that is not Fail.
LEMMA Started ==
  ASSUME DInv, NEW kinds, Ready(kinds), "fail" \notin kinds
  PROVE  /\ status = "parsing" /\ stack # <<>> /\ ~Failing /\ Top.sym \in kinds
         /\ Proper(stack)
<1>1. status = "parsing" /\ stack # <<>> /\ Top.sym \in kinds
  BY DEF Ready
<1>2. Fail.sym = "fail"
  BY DEF Fail
<1> QED
  BY <1>1, <1>2 DEF Failing, DInv

\* The three ways in which the symbol at the top is replaced.
LEMMA ReplaceKeeps ==
  ASSUME DInv, NEW kinds, Ready(kinds), kinds \cap {"tok", "nt", "angle", "fail"} = {},
         NEW then, Whole(then), stack' = then \o Rest, open' = open
  PROVE  DInv' /\ Replaced
<1>1. /\ status = "parsing" /\ stack # <<>> /\ ~Failing /\ Top.sym \in kinds
      /\ Proper(stack)
  BY Started
<1>2. PICK S : Sound(Top, S)
  BY <1>1, TopSymbol
<1>3. Bracket(Top) \notin Brackets
  BY <1>1, <1>2, TopBracket
<1>4. Replaced
  BY Zenon DEF Replaced, Whole
<1> QED
  BY <1>1, <1>3, <1>4, ReplaceStep

LEMMA DropKeeps ==
  ASSUME DInv, NEW kinds, Ready(kinds), kinds \cap {"tok", "nt", "angle", "fail"} = {},
         stack' = Rest, open' = open
  PROVE  DInv' /\ Replaced
<1>1. stack # <<>> /\ Proper(stack)
  BY DEF Ready, DInv
<1>2. PICK S : Rest \in Seq(S)
  BY <1>1, TopSymbol
<1>3. <<>> \o Rest = Rest
  BY <1>2
<1> QED
  BY <1>3, NothingIsWhole, ReplaceKeeps

LEMMA AdvanceKeeps ==
  ASSUME DInv, NEW kinds, Ready(kinds), kinds \cap {"tok", "nt", "angle", "fail"} = {},
         NEW then, Proper(then), Answers(Peek, then), Advance(then)
  PROVE  DInv' /\ ClosesLast /\ Replaced
<1>1. /\ status = "parsing" /\ stack # <<>> /\ ~Failing /\ Top.sym \in kinds
      /\ Proper(stack)
  BY Started
<1>2. PICK S : Sound(Top, S)
  BY <1>1, TopSymbol
<1>3. Bracket(Top) \notin Brackets
  BY <1>1, <1>2, TopBracket
<1>4. stack' = then \o Rest /\ open' = Opened(Peek)
  BY DEF Advance, Consume
<1>5. Replaced
  BY <1>4, Zenon DEF Replaced
<1> QED
  BY <1>1, <1>3, <1>4, <1>5, OpenStep DEF ClosesLast

\* A word asks for nothing, and nothing after it need be asked for.
LEMMA WordAnswers ==
  ASSUME NEW t, t \notin Brackets, NEW then, Whole(then)
  PROVE  Answers(t, then)
BY DEF Answers, Brackets, Whole, Neutral, OpenAfter

\* At the start nothing is due and nothing is open.
LEMMA InitDInv == Init => DInv
<1> SUFFICES ASSUME Init PROVE DInv
  OBVIOUS
<1>1. stack = <<Nt("parse_file")>> /\ open = <<>>
  BY DEF Init
<1>2. Whole(stack)
  BY <1>1, Calls
<1>3. Due = <<>>
  <2>1. <<>> \in Seq(Marks)
    OBVIOUS
  <2> QED
    BY <1>2, <2>1 DEF Due, Whole, Neutral
<1> QED
  BY <1>1, <1>2, <1>3 DEF DInv, DelimitersAgree, Whole

\* expect_token: the closer asked for, or a word.
LEMMA ExpectStep ==
  ASSUME DInv, Expect
  PROVE  DInv' /\ ClosesLast /\ Replaced
<1>1. Ready({"tok"}) /\ Peek \in Top.set /\ Advance(<<>>)
  BY DEF Expect
<1>2. status = "parsing" /\ stack # <<>> /\ ~Failing /\ Top.sym = "tok" /\ Proper(stack)
  BY <1>1, Started
<1>3. PICK S : Sound(Top, S) /\ Rest \in Seq(S)
  BY <1>2, TopSymbol
<1>4. stack' = Rest /\ stack' = <<>> \o Rest /\ open' = Opened(Peek)
  BY <1>1, <1>3 DEF Advance, Consume
<1>5. Replaced
  BY <1>4, NothingIsWhole, Zenon DEF Replaced, Whole
<1>6. CASE Bracket(Top) \in Brackets
  <2>1. Top.set = {Bracket(Top)}
    BY <1>2, <1>3, <1>6, TopBracket DEF Plain
  <2>2. Peek = Bracket(Top)
    BY <1>1, <2>1
  <2> QED
    BY <1>2, <1>4, <1>5, <1>6, <2>2, BracketStep DEF ClosesLast
<1>7. CASE Bracket(Top) \notin Brackets
  <2>1. Plain(Top.set)
    BY <1>2, <1>3, <1>7, TopBracket
  <2>2. Peek \notin Brackets
    BY <1>1, <2>1 DEF Plain
  <2>3. Answers(Peek, <<>>) /\ Proper(<<>>)
    BY <2>2, WordAnswers, NothingIsWhole DEF Whole
  <2> QED
    BY <1>2, <1>4, <1>5, <1>7, <2>3, OpenStep DEF ClosesLast
<1> QED
  BY <1>6, <1>7

\* A symbol of the stack alone.
LEMMA Alone ==
  ASSUME Proper(stack), stack # <<>>, Top.sym \notin {"tok", "nt", "angle"}
  PROVE  Whole(<<Top>>)
<1>1. PICK S : Closed(S) /\ Sound(Top, S)
  BY TopSymbol
<1>2. Bracket(Top) \notin Brackets
  BY <1>1, TopBracket
<1> QED
  BY <1>1, <1>2, WholeSymbol

\* An option or a repetition goes on.
LEMMA EatStep ==
  ASSUME DInv, Eat
  PROVE  DInv' /\ ClosesLast /\ Replaced
<1> DEFINE again == IF Top.sym = "star" THEN <<Top>> ELSE <<>>
<1>1. /\ Ready({"opt", "star"}) /\ Peek \in Top.set /\ Advance(Top.then \o again)
  BY DEF Eat
<1>2. /\ status = "parsing" /\ stack # <<>> /\ ~Failing /\ Top.sym \in {"opt", "star"}
      /\ Proper(stack)
  BY <1>1, Started
<1>3. PICK S : Closed(S) /\ Sound(Top, S)
  BY <1>2, TopSymbol
<1>4. Top.then \in Seq(S) /\ Answers(Peek, Top.then)
  BY <1>1, <1>2, <1>3 DEF Sound
<1>5. Proper(Top.then)
  BY <1>3, <1>4, Zenon DEF Proper
<1>6. Whole(again)
  BY <1>2, Alone, NothingIsWhole
<1> HIDE DEF again
<1>7. PICK U : /\ Closed(U) /\ Top.then \in Seq(U) /\ again \in Seq(U)
               /\ Top.then \o again \in Seq(U)
  BY <1>5, <1>6, ProperConcat DEF Whole
<1>8. Proper(Top.then \o again)
  BY <1>7, Zenon DEF Proper
<1>9. Answers(Peek, Top.then \o again)
  <2>1. \A after \in Seq(Marks) :
          DueBefore(Top.then \o again, after) = DueBefore(Top.then, DueBefore(again, after))
    BY <1>7, DueConcat
  <2>2. \A after \in Seq(Marks) : DueBefore(again, after) = after
    BY <1>6 DEF Whole, Neutral
  <2> QED
    BY <1>4, <2>1, <2>2 DEF Answers
<1> QED
  BY <1>1, <1>8, <1>9, AdvanceKeeps

\* An operator is no delimiter, whatever it is written as.
LEMMA OperatorStep ==
  ASSUME DInv, Operator
  PROVE  DInv' /\ Replaced
<1> DEFINE then == <<Pratt(next_min(Peek)), Node(Peek), Top>>
<1>1. Ready({"ops"}) /\ stack' = then \o Rest /\ open' = open
  BY DEF Operator, Consume
<1>2. stack # <<>> /\ Top.sym = "ops" /\ Proper(stack)
  BY <1>1, Started
<1>3. Whole(<<Top>>)
  BY <1>2, Alone
<1>4. Whole(then)
  BY <1>3, BareSymbols, Tuples, Zenon
<1> HIDE DEF then
<1> QED
  BY <1>1, <1>4, ReplaceKeeps

\* The closing angle, by itself or as the first half of a `>>`.
LEMMA AngleStep ==
  ASSUME DInv, CloseAngle \/ SplitShift
  PROVE  DInv' /\ Replaced /\ open # <<>> /\ open[1] = ">"
<1>1. Ready({"angle"})
  BY DEF CloseAngle, SplitShift
<1>2. status = "parsing" /\ stack # <<>> /\ ~Failing /\ Top.sym = "angle" /\ Proper(stack)
  BY <1>1, Started
<1>3. PICK S : Sound(Top, S) /\ Rest \in Seq(S)
  BY <1>2, TopSymbol
<1>4. <<>> \o Rest = Rest
  BY <1>3
<1>5. stack' = Rest /\ stack' = <<>> \o Rest /\ open' = Opened(">")
  BY <1>4 DEF CloseAngle, SplitShift, Advance, Consume
<1>6. Replaced
  BY <1>5, NothingIsWhole, Zenon DEF Replaced, Whole
<1>7. Bracket(Top) = ">" /\ ">" \in Closers /\ ">" \in Brackets
  BY <1>2, <1>3, TopBracket, BracketSets DEF Brackets
<1> QED
  BY <1>2, <1>5, <1>6, <1>7, BracketStep

\* A function is called: its body asks for what the call stands for.
LEMMA CallStep ==
  ASSUME DInv, Call
  PROVE  DInv' /\ Replaced
<1> DEFINE then == Rule(Top.name, Peek, PeekNext)
<1>1. Ready({"nt"}) /\ stack' = then \o Rest /\ open' = open
  BY DEF Call
<1>2. /\ status = "parsing" /\ stack # <<>> /\ ~Failing /\ Top.sym = "nt" /\ Proper(stack)
  BY <1>1, Started
<1>3. PICK S : /\ Sound(Top, S) /\ Proper(Rest) /\ DueBefore(Rest, <<>>) \in Seq(Marks)
               /\ Due = Ask(Bracket(Top), DueBefore(Rest, <<>>)) /\ Rest \in Seq(S)
  BY <1>2, TopSymbol
<1>4. Top.name \in Functions
  BY <1>2, <1>3, TopBracket DEF Sections, Functions
<1>5. CASE Top.name \notin Sections
  <2>1. Whole(then) /\ Bracket(Top) \notin Brackets
    BY <1>2, <1>3, <1>4, <1>5, Rules, TopBracket
  <2> HIDE DEF then
  <2>2. Replaced
    BY <1>1, <2>1, Zenon DEF Replaced, Whole
  <2> QED
    BY <1>1, <1>2, <2>1, <2>2, ReplaceStep
<1>6. CASE Top.name \in Sections
  <2>1. Asks(then, "Dedent") \/ then = <<Fail>>
    BY <1>4, <1>6, Rules
  <2>2. Bracket(Top) = "Dedent"
    BY <1>2, <1>3, <1>6, TopBracket
  <2> HIDE DEF then
  <2>3. Proper(then)
    BY <2>1, BareSymbols DEF Asks, Whole
  <2>4. Replaced
    BY <1>1, <2>3, Zenon DEF Replaced
  <2>5. Proper(then \o Rest)
        /\ DueBefore(then \o Rest, <<>>) = DueBefore(then, DueBefore(Rest, <<>>))
    BY <1>3, <2>3, Before
  <2>6. CASE Asks(then, "Dedent")
    <3>1. DueBefore(then, DueBefore(Rest, <<>>)) = <<"Dedent">> \o DueBefore(Rest, <<>>)
      BY <1>3, <2>6 DEF Asks
    <3>2. Due = <<"Dedent">> \o DueBefore(Rest, <<>>)
      BY <1>3, <2>2, AskMeans, Delimiters, Zenon
    <3>3. Due' = Due
      BY <1>1, <2>5, <3>1, <3>2, Zenon DEF Due
    <3> QED
      BY <1>1, <1>2, <2>5, <2>4, <3>3 DEF DInv, DelimitersAgree
  <2>7. CASE then = <<Fail>>
    <3>1. stack' # <<>> /\ stack'[1] = Fail
      <4> DEFINE U == {Fail} \union S
      <4>1. Fail \in U /\ S \subseteq U
        OBVIOUS
      <4> HIDE DEF U
      <4>2. <<Fail>> \in Seq(U) /\ Rest \in Seq(U)
        BY <1>3, <4>1, SeqMonotonic
      <4> QED
        BY <1>1, <2>7, <4>2
    <3>2. Failing'
      BY <3>1 DEF Failing, Top
    <3> QED
      BY <1>1, <2>5, <2>4, <3>2 DEF DInv, DelimitersAgree
  <2> QED
    BY <2>1, <2>6, <2>7
<1> QED
  BY <1>5, <1>6

\* One more round of a loop.
LEMMA LoopStep ==
  ASSUME DInv, NextElement \/ NextListed
  PROVE  DInv' /\ Replaced
<1>1. CASE NextElement
  <2>1. /\ Ready({"many"})
        /\ Replace(IF Peek = "Newline" THEN Newlines \o <<Top>>
                                       ELSE Top.item \o Newlines \o <<Top>>)
    BY <1>1 DEF NextElement
  <2>2. stack # <<>> /\ Top.sym = "many" /\ Proper(stack)
    BY <2>1, Started
  <2>3. PICK S : Closed(S) /\ Sound(Top, S)
    BY <2>2, TopSymbol
  <2>4. Whole(<<Top>>)
    BY <2>2, Alone
  <2>5. Whole(Top.item)
    <3>1. Top.item \in Seq(S) /\ Neutral(Top.item)
      BY <2>2, <2>3 DEF Sound
    <3> QED
      BY <2>3, <3>1, Zenon DEF Whole, Proper
  <2>6. Whole(Newlines \o <<Top>>) /\ Whole(Top.item \o Newlines \o <<Top>>)
    BY <2>4, <2>5, Parts, Joins, Zenon
  <2> QED
    BY <2>1, <2>6, ReplaceKeeps DEF Replace, history
<1>2. CASE NextListed
  <2>1. /\ Ready({"list"})
        /\ Replace(Top.item \o Top.skip \o <<Opt({","}, Top.skip \o <<Top>>)>>)
    BY <1>2 DEF NextListed
  <2>2. stack # <<>> /\ Top.sym = "list" /\ Proper(stack)
    <3>1. Ready({"list"})
      BY <2>1
    <3> QED
      BY <3>1, Started
  <2>3. PICK S : Closed(S) /\ Sound(Top, S)
    BY <2>2, TopSymbol
  <2>4. Whole(<<Top>>)
    BY <2>2, Alone
  <2>5. Whole(Top.item) /\ Whole(Top.skip)
    <3>1. /\ Top.item \in Seq(S) /\ Neutral(Top.item)
          /\ Top.skip \in Seq(S) /\ Neutral(Top.skip)
      BY <2>2, <2>3 DEF Sound
    <3> QED
      BY <2>3, <3>1, Zenon DEF Whole, Proper
  <2>6. Whole(Top.item \o Top.skip \o <<Opt({","}, Top.skip \o <<Top>>)>>)
    <3>1. Whole(<<Opt({","}, Top.skip \o <<Top>>)>>)
      BY <2>4, <2>5, Joins, WordOption, PlainSets, Zenon
    <3> QED
      BY <2>5, <3>1, Joins, Zenon
  <2> QED
    BY <2>1, <2>6, ReplaceKeeps DEF Replace, history
<1> QED
  BY <1>1, <1>2

\* An expression is begun.
LEMMA PrattStep ==
  ASSUME DInv, CallPratt
  PROVE  DInv' /\ Replaced
<1>1. /\ Ready({"pratt"}) /\ stack' = parse_pratt(Top.min) \o Rest /\ open' = open
  BY DEF CallPratt, Replace, history
<1> QED
  BY <1>1, PrattRule, ReplaceKeeps

\* The symbol at the top is done with, and the reader has seen nothing.
LEMMA DropStep ==
  ASSUME DInv,
         \/ DeclineToEat \/ EndSkip \/ EndLoop \/ EndOperators \/ Build \/ CheckPipe
  PROVE  DInv' /\ Replaced
<1>1. stack # <<>> /\ Proper(stack)
  BY DEF DInv, Ready, DeclineToEat, EndSkip, EndLoop, EndOperators, Build, CheckPipe
<1>2. PICK S : Rest \in Seq(S)
  BY <1>1, TopSymbol
<1>3. <<>> \o Rest = Rest
  BY <1>2
<1>4. stack' = Rest /\ open' = open
  BY <1>3 DEF DeclineToEat, EndSkip, EndLoop, EndOperators, Build, CheckPipe, Replace,
              history
<1>5. \/ Ready({"opt", "star"}) \/ Ready({"skip"}) \/ Ready({"many"}) \/ Ready({"list"})
      \/ Ready({"ops"}) \/ Ready({"node"}) \/ Ready({"pipe"})
  BY DEF DeclineToEat, EndSkip, EndLoop, EndOperators, Build, CheckPipe
<1> QED
  BY <1>4, <1>5, DropKeeps

\* Steps that leave the stack alone.
LEMMA DrawStep ==
  ASSUME DInv, DrawCode \/ DrawLine \/ DrawEnd \/ SkipLayout \/ Accept \/ UNCHANGED vars
  PROVE  DInv'
<1>1. stack' = stack /\ open' = open
  BY DEF DrawCode, DrawLine, DrawEnd, Draw, SkipLayout, Accept, vars, history
<1>2. status' = "parsing" => status = "parsing"
  BY DEF DrawCode, DrawLine, DrawEnd, Draw, SkipLayout, Accept, vars, history
<1> QED
  BY <1>1, <1>2 DEF DInv, DelimitersAgree, Due, Failing, Top

\* An error drops everything.
LEMMA RejectStep ==
  ASSUME DInv, Reject
  PROVE  DInv'
<1>1. stack' = <<>> /\ open' = <<>> /\ status' = "rejected"
  BY DEF Reject
<1>2. Proper(<<>>)
  BY NothingIsWhole DEF Whole
<1> QED
  BY <1>1, <1>2 DEF DInv, DelimitersAgree

\* The delimiters agree in every step.
LEMMA NextDInv ==
  ASSUME DInv, [Next]_vars
  PROVE  DInv'
BY ExpectStep, EatStep, OperatorStep, AngleStep, CallStep, LoopStep, PrattStep, DropStep,
   DrawStep, RejectStep
DEF Next

-----------------------------------------------------------------------------

(* The types. *)

\* The tokens of the file, and the half of a `>>`.
FileTokens ==
  scene.alphabet \union {scene.prefix[j] : j \in DOMAIN scene.prefix}
    \union Structure \union {"End", ">"}

TInv == TypeOK /\ ahead \in Seq(FileTokens)

\* Counting in sequences.
LEMMA TimesIsNat ==
  ASSUME NEW S, NEW s \in Seq(S), NEW t
  PROVE  Times(s, t) \in Nat
<1>1. Times(s, t) = Cardinality(Occurrences(s, t))
  BY DEF Times, Occurrences
<1> QED
  BY <1>1, OccurrencesFinite

LEMMA TimesConcat ==
  ASSUME NEW S, NEW s \in Seq(S), NEW u \in Seq(S), NEW t
  PROVE  Times(s \o u, t) = Times(s, t) + Times(u, t)
<1>1. \A r : Times(r, t) = Cardinality(Occurrences(r, t))
  BY DEF Times, Occurrences
<1> QED
  BY <1>1, OccurrencesConcat

LEMMA TimesOne ==
  ASSUME NEW x, NEW t
  PROVE  Times(<<x>>, t) = IF x = t THEN 1 ELSE 0
<1>1. x = t => {i \in DOMAIN <<x>> : <<x>>[i] = t} = {1}
  OBVIOUS
<1>2. x # t => {i \in DOMAIN <<x>> : <<x>>[i] = t} = {}
  OBVIOUS
<1> QED
  BY <1>1, <1>2, FS_EmptySet, FS_Singleton DEF Times

\* A symbol that looks at a token has one.
LEMMA HasToken ==
  ASSUME TInv, NEW kinds, Ready(kinds), kinds \cap {"node", "fail", "pipe", "pratt", "nt"} = {}
  PROVE  /\ ahead # <<>> /\ Peek \in FileTokens /\ Tail(ahead) \in Seq(FileTokens)
         /\ ahead = <<Peek>> \o Tail(ahead)
<1>1. ahead \in Seq(FileTokens)
  BY DEF TInv
<1>2. Top.sym \notin {"node", "fail", "pipe", "pratt", "nt"}
  BY DEF Ready
<1>3. Looks(Top) = 1
  BY <1>2 DEF Looks
<1>4. Len(ahead) >= 1 \/ Drawn
  BY <1>1, <1>3 DEF Ready, Wanting
<1>5. ahead # <<>>
  BY <1>1, <1>4 DEF Drawn
<1> QED
  BY <1>1, <1>5 DEF Peek

\* The types at the start, and in each kind of step.
LEMMA InitTInv == Init => TInv
<1> SUFFICES ASSUME Init PROVE TInv
  OBVIOUS
<1> DEFINE P == {scene.prefix[j] : j \in DOMAIN scene.prefix}
<1>1. /\ scene \in Scenes /\ ahead = scene.prefix /\ left = scene.size
      /\ depth = Times(scene.prefix, "Indent") - Times(scene.prefix, "Dedent")
      /\ built = "other" /\ status = "parsing" /\ swallowed = 0
  BY DEF Init
<1>2. /\ scene.prefix \in Seq(STRING) /\ scene.size \in Nat
      /\ Times(scene.prefix, "Indent") >= Times(scene.prefix, "Dedent")
  BY <1>1, ScenesAssumption
<1>3. depth \in Nat
  <2>1. Times(scene.prefix, "Indent") \in Nat /\ Times(scene.prefix, "Dedent") \in Nat
    BY <1>2, TimesIsNat
  <2> QED
    BY <1>1, <1>2, <2>1
<1>4. ahead \in Seq(P)
  BY <1>1, <1>2
<1>5. ahead \in Seq(FileTokens)
  <2>1. P \subseteq FileTokens
    BY DEF FileTokens
  <2> HIDE DEF P
  <2> QED
    BY <1>4, <2>1, SeqMonotonic
<1>6. \A i \in DOMAIN ahead : ahead[i] \in FileTokens
  BY <1>5
<1>7. left \in 0 .. scene.size
  BY <1>1, <1>2
<1> QED
  BY <1>1, <1>3, <1>5, <1>6, <1>7 DEF TInv, TypeOK, FileTokens

\* The tokens of a line start, and of the end.
LEMMA LayoutTokens ==
  ASSUME NEW d \in Nat
  PROVE  /\ Lines!Dedents(d) \in Seq(Structure)
         /\ \A e \in Lines!NextDepths(d) : e \in Nat /\ Lines!LineStart(d, e) \in Seq(Structure)
<1>1. \A n \in Nat : Lines!Dedents(n) \in Seq(Structure)
  BY DEF Lines!Dedents, Structure
<1>2. ASSUME NEW e \in Lines!NextDepths(d)
      PROVE  e \in Nat /\ Lines!LineStart(d, e) \in Seq(Structure)
  <2>1. e \in Nat /\ (~(e > d) => d - e \in Nat)
    BY DEF Lines!NextDepths
  <2>2. <<"Newline">> \in Seq(Structure) /\ <<"Indent">> \in Seq(Structure)
    BY DEF Structure
  <2>3. (IF e > d THEN <<"Indent">> ELSE Lines!Dedents(d - e)) \in Seq(Structure)
    BY <1>1, <2>1, <2>2
  <2> QED
    BY <2>1, <2>2, <2>3 DEF Lines!LineStart
<1> QED
  BY <1>1, <1>2

\* The tokens are typed, and so is the rest.
LEMMA TypedStep ==
  ASSUME TInv, scene' = scene, ahead' \in Seq(FileTokens), depth' \in Nat, swallowed' \in Int,
         left' \in 0 .. scene.size, built' \in {"ident", "call", "other"},
         status' \in {"parsing", "accepted", "rejected"}
  PROVE  TInv'
<1>1. FileTokens' = FileTokens
  BY DEF FileTokens
<1>2. ahead' \in Seq(FileTokens')
  BY <1>1
<1>3. \A i \in DOMAIN ahead' : ahead'[i] \in FileTokens'
  BY <1>2
<1> QED
  BY <1>2, <1>3 DEF TInv, TypeOK, FileTokens

LEMMA DrawTypes ==
  ASSUME TInv, DrawCode \/ DrawLine \/ DrawEnd
  PROVE  TInv'
<1>1. /\ scene \in Scenes /\ depth \in Nat /\ swallowed \in Int /\ left \in 0 .. scene.size
      /\ built \in {"ident", "call", "other"}
      /\ status \in {"parsing", "accepted", "rejected"} /\ ahead \in Seq(FileTokens)
      /\ scene.size \in Nat
  BY ScenesAssumption DEF TInv, TypeOK
<1>2. Structure \subseteq FileTokens /\ "End" \in FileTokens /\ scene.alphabet \subseteq FileTokens
  BY DEF FileTokens
<1>3. \A s \in Seq(Structure) : s \in Seq(FileTokens)
  BY <1>2, SeqMonotonic
<1>4. CASE DrawCode
  <2>1. PICK t \in scene.alphabet : Draw(<<t>>) /\ depth' = depth
    BY <1>4 DEF DrawCode
  <2>2. ahead \o <<t>> \in Seq(FileTokens)
    <3>1. <<t>> \in Seq(FileTokens)
      BY <1>2
    <3> QED
      BY <1>1, <3>1
  <2>3. left' \in 0 .. scene.size
    BY <1>1, <2>1 DEF Draw
  <2> QED
    BY <1>1, <2>1, <2>2, <2>3, TypedStep DEF Draw, history
<1>5. CASE DrawLine
  <2>1. PICK d \in Lines!NextDepths(depth) : Draw(Lines!LineStart(depth, d)) /\ depth' = d
    BY <1>5 DEF DrawLine
  <2>2. d \in Nat /\ Lines!LineStart(depth, d) \in Seq(FileTokens)
    BY <1>1, <1>3, LayoutTokens
  <2>3. ahead \o Lines!LineStart(depth, d) \in Seq(FileTokens)
    BY <1>1, <2>2
  <2>4. left' \in 0 .. scene.size
    BY <1>1, <2>1 DEF Draw
  <2> QED
    BY <1>1, <2>1, <2>2, <2>3, <2>4, TypedStep DEF Draw, history
<1>6. CASE DrawEnd
  <2>1. Lines!Dedents(depth) \in Seq(FileTokens) /\ <<"End">> \in Seq(FileTokens)
    BY <1>1, <1>2, <1>3, LayoutTokens
  <2>2. ahead \o Lines!Dedents(depth) \o <<"End">> \in Seq(FileTokens)
    <3> HIDE DEF FileTokens
    <3> QED
      BY <1>1, <2>1, ConcatProperties
  <2>3. /\ ahead' = ahead \o Lines!Dedents(depth) \o <<"End">> /\ depth' = 0 /\ left' = 0
        /\ UNCHANGED <<scene, built, status, swallowed>>
    BY <1>6 DEF DrawEnd, history
  <2>4. left' \in 0 .. scene.size
    BY <1>1, <2>3
  <2> QED
    BY <1>1, <2>2, <2>3, <2>4, TypedStep
<1> QED
  BY <1>4, <1>5, <1>6

LEMMA ConsumeTypes ==
  ASSUME TInv, Expect \/ Eat \/ Operator \/ CloseAngle \/ SplitShift \/ SkipLayout
  PROVE  TInv'
<1>1. /\ scene \in Scenes /\ depth \in Nat /\ swallowed \in Int /\ left \in 0 .. scene.size
      /\ built \in {"ident", "call", "other"}
      /\ status \in {"parsing", "accepted", "rejected"} /\ scene.size \in Nat
  BY ScenesAssumption DEF TInv, TypeOK
<1>2. ahead # <<>> /\ Tail(ahead) \in Seq(FileTokens)
  <2>1. \/ Ready({"tok"}) \/ Ready({"opt", "star"}) \/ Ready({"ops"}) \/ Ready({"angle"})
        \/ Ready({"skip"})
    BY DEF Expect, Eat, Operator, CloseAngle, SplitShift, SkipLayout
  <2> QED
    BY <2>1, HasToken
<1>3. ahead' \in Seq(FileTokens)
  <2>1. ">" \in FileTokens
    BY DEF FileTokens
  <2>2. <<">">> \o Tail(ahead) \in Seq(FileTokens)
    BY <1>2, <2>1
  <2>3. ahead' \in {Tail(ahead), <<">">> \o Tail(ahead)}
    BY DEF Expect, Eat, Operator, CloseAngle, SplitShift, SkipLayout, Advance, Consume
  <2> QED
    BY <1>2, <2>2, <2>3
<1>4. UNCHANGED <<scene, depth, left, built, status>>
  BY DEF Expect, Eat, Operator, CloseAngle, SplitShift, SkipLayout, Advance, Consume,
         history
<1>5. swallowed' \in Int
  <2>1. CASE SkipLayout
    <3>1. swallowed' = CASE Peek = "Indent" -> swallowed + 1
                         [] Peek = "Dedent" -> swallowed - 1
                         [] OTHER -> swallowed
      BY <2>1 DEF SkipLayout
    <3>2. swallowed' \in {swallowed + 1, swallowed - 1, swallowed}
      BY <3>1
    <3> QED
      BY <1>1, <3>2
  <2>2. CASE ~SkipLayout
    <3>1. swallowed' = swallowed
      BY <2>2 DEF Expect, Eat, Operator, CloseAngle, SplitShift, Advance, Consume,
                       history
    <3> QED
      BY <1>1, <3>1
  <2> QED
    BY <2>1, <2>2
<1>6. /\ scene' = scene /\ depth' \in Nat /\ left' \in 0 .. scene.size
      /\ built' \in {"ident", "call", "other"}
      /\ status' \in {"parsing", "accepted", "rejected"}
  BY <1>1, <1>4
<1> QED
  BY <1>3, <1>5, <1>6, TypedStep

LEMMA OtherTypes ==
  ASSUME TInv,
         \/ Call \/ CallPratt \/ DeclineToEat \/ EndSkip \/ NextElement \/ NextListed \/ EndLoop
         \/ EndOperators \/ Build \/ CheckPipe \/ Accept \/ Reject \/ UNCHANGED vars
  PROVE  TInv'
<1>1. /\ scene \in Scenes /\ depth \in Nat /\ swallowed \in Int /\ left \in 0 .. scene.size
      /\ built \in {"ident", "call", "other"} /\ ahead \in Seq(FileTokens)
      /\ status \in {"parsing", "accepted", "rejected"} /\ scene.size \in Nat
  BY ScenesAssumption DEF TInv, TypeOK
<1>2. CASE Reject
  <2>1. /\ scene' = scene /\ ahead' = <<>> /\ depth' = 0 /\ left' = 0 /\ built' = "other"
        /\ swallowed' = 0 /\ status' = "rejected"
    BY <1>2 DEF Reject
  <2>2. left' \in 0 .. scene.size
    BY <1>1, <2>1
  <2>3. ahead' \in Seq(FileTokens)
    BY <2>1
  <2> QED
    BY <2>1, <2>2, <2>3, TypedStep
<1>3. CASE ~Reject
  <2>1. UNCHANGED <<scene, ahead, depth, left, swallowed>>
    BY <1>3 DEF Call, CallPratt, DeclineToEat, EndSkip, NextElement, NextListed, EndLoop,
                EndOperators, Build, CheckPipe, Accept, Replace, history, vars
  <2>2. built' \in {built, "ident", "call", "other"}
    BY <1>3 DEF Call, CallPratt, DeclineToEat, EndSkip, NextElement, NextListed, EndLoop,
                EndOperators, Build, CheckPipe, Accept, Replace, history, vars
  <2>3. status' \in {status, "accepted"}
    BY <1>3 DEF Call, CallPratt, DeclineToEat, EndSkip, NextElement, NextListed, EndLoop,
                EndOperators, Build, CheckPipe, Accept, Replace, history, vars
  <2> QED
    BY <1>1, <2>1, <2>2, <2>3, TypedStep
<1> QED
  BY <1>2, <1>3

LEMMA NextTInv ==
  ASSUME TInv, [Next]_vars
  PROVE  TInv'
BY DrawTypes, ConsumeTypes, OtherTypes DEF Next

-----------------------------------------------------------------------------

(* Blocks and lines. *)

\* The end is the last token, and no block is open after it.
EndIsLast == \A i \in DOMAIN ahead : ahead[i] = "End" => i = Len(ahead) /\ depth = 0

\* The line at the cursor is as deep as the blocks the reader sees open and
\* what lists have swallowed.
LinesAgree == status = "parsing" => LineDepth = Times(open, "Dedent") + swallowed

\* The loop over the items is what is done last.
FileIsLast == status = "parsing" /\ stack # <<>> => stack[Len(stack)] = Nt("parse_file")

\* When nothing is left to do nothing is swallowed.
NothingSwallowed ==
  /\ status = "parsing" /\ stack = <<>> => swallowed = 0
  /\ status = "accepted" => swallowed = 0

\* The inductive invariant.
IInv == TInv /\ DInv /\ EndIsLast /\ LinesAgree /\ FileIsLast /\ NothingSwallowed

\* Indents and Dedents that a token stands for.
LEMMA DedentCount ==
  ASSUME NEW n \in Nat
  PROVE  /\ Times(Lines!Dedents(n), "Dedent") = n
         /\ Times(Lines!Dedents(n), "Indent") = 0
<1>1. {i \in DOMAIN Lines!Dedents(n) : Lines!Dedents(n)[i] = "Dedent"} = 1 .. n
  BY DEF Lines!Dedents
<1>2. {i \in DOMAIN Lines!Dedents(n) : Lines!Dedents(n)[i] = "Indent"} = {}
  BY DEF Lines!Dedents
<1>3. Cardinality(1 .. n) = n
  BY FS_Interval
<1> QED
  BY <1>1, <1>2, <1>3, FS_EmptySet DEF Times

\* A line start leads from as many open blocks to as many as it says.
LEMMA LineCount ==
  ASSUME NEW d \in Nat, NEW e \in Lines!NextDepths(d)
  PROVE  /\ Times(Lines!LineStart(d, e), "Indent") \in Nat
         /\ Times(Lines!LineStart(d, e), "Dedent") \in Nat
         /\ e = d + Times(Lines!LineStart(d, e), "Indent") - Times(Lines!LineStart(d, e), "Dedent")
<1>1. e \in 0 .. d + 1
  BY DEF Lines!NextDepths
<1>2. <<"Newline">> \in Seq(Structure) /\ <<"Indent">> \in Seq(Structure)
  BY DEF Structure
<1>3. /\ Times(<<"Newline">>, "Indent") = 0 /\ Times(<<"Newline">>, "Dedent") = 0
      /\ Times(<<"Indent">>, "Indent") = 1 /\ Times(<<"Indent">>, "Dedent") = 0
  BY TimesOne
<1>4. CASE e > d
  <2>1. Lines!LineStart(d, e) = <<"Newline">> \o <<"Indent">> /\ e = d + 1
    BY <1>1, <1>4 DEF Lines!LineStart
  <2>2. \A t : Times(<<"Newline">> \o <<"Indent">>, t)
               = Times(<<"Newline">>, t) + Times(<<"Indent">>, t)
    BY <1>2, TimesConcat
  <2> QED
    BY <1>3, <2>1, <2>2
<1>5. CASE ~(e > d)
  <2>1. Lines!LineStart(d, e) = <<"Newline">> \o Lines!Dedents(d - e) /\ d - e \in Nat
    BY <1>1, <1>5 DEF Lines!LineStart
  <2>2. /\ Lines!Dedents(d - e) \in Seq(Structure)
        /\ Times(Lines!Dedents(d - e), "Dedent") = d - e
        /\ Times(Lines!Dedents(d - e), "Indent") = 0
    BY <2>1, LayoutTokens, DedentCount
  <2>3. \A t : Times(<<"Newline">> \o Lines!Dedents(d - e), t)
               = Times(<<"Newline">>, t) + Times(Lines!Dedents(d - e), t)
    BY <1>2, <2>2, TimesConcat
  <2>4. /\ Times(Lines!LineStart(d, e), "Indent") = 0
        /\ Times(Lines!LineStart(d, e), "Dedent") = d - e
    BY <1>3, <2>1, <2>2, <2>3
  <2> QED
    BY <1>1, <2>1, <2>4
<1> QED
  BY <1>4, <1>5

\* What has been drawn does not change what is at the cursor.
LEMMA DrawKeeps ==
  ASSUME IInv, Wanting, NEW tokens \in Seq(FileTokens), ahead' = ahead \o tokens, depth' \in Nat,
         depth' = depth + Times(tokens, "Indent") - Times(tokens, "Dedent"),
         \A i \in DOMAIN tokens : tokens[i] = "End" => i = Len(tokens) /\ depth' = 0,
         UNCHANGED <<stack, status, open, swallowed>>
  PROVE  EndIsLast' /\ LinesAgree' /\ FileIsLast' /\ NothingSwallowed'
<1>1. ahead \in Seq(FileTokens) /\ depth \in Nat
  BY DEF IInv, TInv, TypeOK
<1>2. EndIsLast'
  <2>1. \A i \in DOMAIN ahead : ahead[i] # "End"
    BY DEF Wanting, Drawn
  <2>2. ASSUME NEW i \in DOMAIN ahead', ahead'[i] = "End"
        PROVE  i = Len(ahead') /\ depth' = 0
    <3>1. /\ i \in 1 .. Len(ahead) + Len(tokens) /\ Len(ahead') = Len(ahead) + Len(tokens)
          /\ Len(ahead) \in Nat /\ Len(tokens) \in Nat
          /\ i \in 1 .. Len(ahead) => ahead'[i] = ahead[i]
      BY <1>1, <2>2
    <3>2. i \notin 1 .. Len(ahead)
      BY <1>1, <2>1, <2>2, <3>1
    <3>3. PICK k \in 1 .. Len(tokens) : k = i - Len(ahead)
      BY <3>1, <3>2
    <3>4. tokens[k] = "End"
      <4>1. i > Len(ahead) /\ i \in 1 .. Len(ahead) + Len(tokens)
        BY <3>1, <3>2
      <4>2. \A j \in 1 .. Len(ahead) + Len(tokens) :
              (ahead \o tokens)[j] = IF j <= Len(ahead) THEN ahead[j] ELSE tokens[j - Len(ahead)]
        BY <1>1, ConcatProperties, Zenon
      <4>3. ~(i <= Len(ahead))
        BY <3>1, <4>1
      <4>4. (ahead \o tokens)[i] =
              IF i <= Len(ahead) THEN ahead[i] ELSE tokens[i - Len(ahead)]
        BY <4>1, <4>2, Zenon
      <4>5. (ahead \o tokens)[i] = tokens[i - Len(ahead)]
        BY <4>3, <4>4, Zenon
      <4>6. (ahead \o tokens)[i] = "End"
        BY <2>2, Zenon
      <4> QED
        BY <3>3, <4>5, <4>6, Zenon
    <3>5. k = Len(tokens) /\ depth' = 0
      BY <3>4
    <3>6. i = Len(ahead) + k
      BY <3>1, <3>3
    <3>7. i = Len(ahead) + Len(tokens)
      BY <3>5, <3>6
    <3> QED
      BY <3>1, <3>5, <3>7, Zenon
  <2> QED
    BY <2>2 DEF EndIsLast
<1>3. LineDepth' = LineDepth
  <2>1. /\ Times(ahead', "Indent") = Times(ahead, "Indent") + Times(tokens, "Indent")
        /\ Times(ahead', "Dedent") = Times(ahead, "Dedent") + Times(tokens, "Dedent")
    BY <1>1, TimesConcat
  <2>2. /\ Times(ahead, "Indent") \in Nat /\ Times(tokens, "Indent") \in Nat
        /\ Times(ahead, "Dedent") \in Nat /\ Times(tokens, "Dedent") \in Nat
    BY <1>1, TimesIsNat
  <2> DEFINE a == Times(ahead, "Indent")
             b == Times(ahead, "Dedent")
             m == Times(tokens, "Indent")
             n == Times(tokens, "Dedent")
  <2>3. LineDepth = depth - a + b /\ LineDepth' = depth' - (a + m) + (b + n)
    BY <2>1 DEF LineDepth
  <2>4. depth' = depth + m - n
    OBVIOUS
  <2>5. a \in Nat /\ b \in Nat /\ m \in Nat /\ n \in Nat
    BY <2>2
  <2> HIDE DEF a, b, m, n
  <2>6. (depth + m - n) - (a + m) + (b + n) = depth - a + b
    BY <1>1, <2>5
  <2>7. LineDepth' = (depth + m - n) - (a + m) + (b + n)
    BY <2>3, <2>4, Zenon
  <2> QED
    BY <2>3, <2>6, <2>7, Zenon
<1> QED
  BY <1>2, <1>3 DEF IInv, LinesAgree, FileIsLast, NothingSwallowed

\* A token, a line start or the end is drawn.
LEMMA DrawBlocks ==
  ASSUME IInv, DrawCode \/ DrawLine \/ DrawEnd
  PROVE  EndIsLast' /\ LinesAgree' /\ FileIsLast' /\ NothingSwallowed'
<1>1. /\ scene \in Scenes /\ depth \in Nat /\ ahead \in Seq(FileTokens)
  BY DEF IInv, TInv, TypeOK
<1>2. /\ Structure \subseteq FileTokens /\ "End" \in FileTokens
      /\ scene.alphabet \subseteq FileTokens
  BY DEF FileTokens
<1>3. \A s \in Seq(Structure) : s \in Seq(FileTokens)
  BY <1>2, SeqMonotonic
<1>4. \A s \in Seq(Structure) : \A i \in DOMAIN s : s[i] # "End"
  BY DEF Structure
<1>5. CASE DrawCode
  <2>1. PICK t \in scene.alphabet : Draw(<<t>>) /\ depth' = depth
    BY <1>5 DEF DrawCode
  <2>2. t \notin {"Indent", "Dedent", "End"}
    BY <1>1, ScenesAssumption DEF Structure
  <2>3. Times(<<t>>, "Indent") = 0 /\ Times(<<t>>, "Dedent") = 0
    BY <2>2, TimesOne
  <2>4. <<t>> \in Seq(FileTokens)
    BY <1>2
  <2>5. \A i \in DOMAIN <<t>> : <<t>>[i] # "End"
    BY <2>2
  <2>6. depth' \in Nat /\ depth' = depth + Times(<<t>>, "Indent") - Times(<<t>>, "Dedent")
    BY <1>1, <2>1, <2>3
  <2>7. Wanting /\ ahead' = ahead \o <<t>> /\ UNCHANGED <<stack, status, open, swallowed>>
    BY <2>1 DEF Draw, history
  <2> QED
    BY <2>4, <2>5, <2>6, <2>7, DrawKeeps
<1>6. CASE DrawLine
  <2>1. PICK d \in Lines!NextDepths(depth) : Draw(Lines!LineStart(depth, d)) /\ depth' = d
    BY <1>6 DEF DrawLine
  <2> DEFINE tokens == Lines!LineStart(depth, d)
  <2>2. d \in Nat /\ tokens \in Seq(Structure)
    BY <1>1, LayoutTokens
  <2>3. d = depth + Times(tokens, "Indent") - Times(tokens, "Dedent")
    BY <1>1, LineCount
  <2>4. Wanting /\ ahead' = ahead \o tokens /\ UNCHANGED <<stack, status, open, swallowed>>
    BY <2>1 DEF Draw, history
  <2> HIDE DEF tokens
  <2>5. tokens \in Seq(FileTokens) /\ \A i \in DOMAIN tokens : tokens[i] # "End"
    BY <1>3, <1>4, <2>2
  <2> QED
    BY <2>1, <2>2, <2>3, <2>4, <2>5, DrawKeeps
<1>7. CASE DrawEnd
  <2> DEFINE dedents == Lines!Dedents(depth)
             tokens == dedents \o <<"End">>
  <2>1. /\ dedents \in Seq(Structure) /\ Times(dedents, "Dedent") = depth
        /\ Times(dedents, "Indent") = 0
    BY <1>1, LayoutTokens, DedentCount
  <2>2. /\ Wanting /\ ahead' = ahead \o dedents \o <<"End">> /\ depth' = 0
        /\ UNCHANGED <<stack, status, open, swallowed>>
    BY <1>7 DEF DrawEnd, history
  <2> HIDE DEF dedents
  <2>3. dedents \in Seq(FileTokens) /\ <<"End">> \in Seq(FileTokens)
    BY <1>2, <1>3, <2>1
  <2>4. tokens \in Seq(FileTokens) /\ ahead \o dedents \o <<"End">> = ahead \o tokens
    BY <1>1, <2>3, ConcatProperties
  <2>5. Times(tokens, "Indent") = 0 /\ Times(tokens, "Dedent") = depth
    <3>1. Times(<<"End">>, "Indent") = 0 /\ Times(<<"End">>, "Dedent") = 0
      BY TimesOne
    <3>2. /\ Times(tokens, "Indent") = Times(dedents, "Indent") + Times(<<"End">>, "Indent")
          /\ Times(tokens, "Dedent") = Times(dedents, "Dedent") + Times(<<"End">>, "Dedent")
      BY <2>3, TimesConcat
    <3> QED
      BY <1>1, <2>1, <3>1, <3>2
  <2>6. \A i \in DOMAIN tokens : tokens[i] = "End" => i = Len(tokens)
    <3>1. \A i \in 1 .. Len(dedents) : tokens[i] = dedents[i]
      BY <2>1
    <3>2. Len(tokens) = Len(dedents) + 1 /\ DOMAIN tokens = 1 .. Len(dedents) + 1 /\ Len(dedents) \in Nat
      BY <2>1
    <3>3. \A i \in 1 .. Len(dedents) : tokens[i] # "End"
      BY <1>4, <2>1, <3>1
    <3> QED
      BY <3>2, <3>3
  <2> HIDE DEF tokens
  <2>7. depth' \in Nat /\ depth' = depth + Times(tokens, "Indent") - Times(tokens, "Dedent")
    BY <1>1, <2>2, <2>5
  <2>8. ahead' = ahead \o tokens
    BY <2>2, <2>4
  <2> QED
    BY <2>2, <2>4, <2>6, <2>7, <2>8, DrawKeeps
<1> QED
  BY <1>5, <1>6, <1>7

\* The tokens behind the one at the cursor.
LEMMA PassToken ==
  ASSUME IInv, ahead # <<>>, ahead' = Tail(ahead), depth' = depth
  PROVE  /\ EndIsLast'
         /\ LineDepth' = LineDepth + (IF Peek = "Indent" THEN 1 ELSE 0)
                                   - (IF Peek = "Dedent" THEN 1 ELSE 0)
<1>1. ahead \in Seq(FileTokens) /\ depth \in Nat /\ EndIsLast
  BY DEF IInv, TInv, TypeOK
<1>2. /\ Tail(ahead) \in Seq(FileTokens) /\ <<Peek>> \in Seq(FileTokens)
      /\ ahead = <<Peek>> \o Tail(ahead) /\ Len(Tail(ahead)) = Len(ahead) - 1
      /\ \A i \in 1 .. Len(Tail(ahead)) : Tail(ahead)[i] = ahead[i + 1]
  BY <1>1 DEF Peek
<1>3. EndIsLast'
  <2>1. ASSUME NEW i \in DOMAIN ahead', ahead'[i] = "End"
        PROVE  i = Len(ahead') /\ depth' = 0
    <3>1. i \in 1 .. Len(Tail(ahead)) /\ i + 1 \in 1 .. Len(ahead) /\ ahead[i + 1] = "End"
      BY <1>1, <1>2, <2>1
    <3>2. i + 1 = Len(ahead) /\ depth = 0
      BY <1>1, <3>1 DEF EndIsLast
    <3>3. Len(ahead) \in Nat /\ Len(ahead') = Len(ahead) - 1
      BY <1>1, <1>2
    <3>4. i = Len(ahead')
      BY <3>1, <3>2, <3>3
    <3>5. depth' = 0
      BY <3>2
    <3> QED
      BY <3>4, <3>5
  <2> QED
    BY <2>1 DEF EndIsLast
<1>4. \A t : Times(ahead, t) = Times(<<Peek>>, t) + Times(Tail(ahead), t)
  <2>1. \A t : Times(<<Peek>> \o Tail(ahead), t) = Times(<<Peek>>, t) + Times(Tail(ahead), t)
    BY <1>2, TimesConcat
  <2>2. \A s : s = <<Peek>> \o Tail(ahead) =>
          \A t : Times(s, t) = Times(<<Peek>>, t) + Times(Tail(ahead), t)
    BY <2>1, Zenon
  <2> QED
    BY <1>2, <2>2, Zenon
<1>5. \A t : Times(<<Peek>>, t) = IF Peek = t THEN 1 ELSE 0
  BY TimesOne
<1>6. \A t : Times(ahead, t) \in Nat /\ Times(Tail(ahead), t) \in Nat
  BY <1>1, <1>2, TimesIsNat
<1>7. LineDepth' = depth - Times(Tail(ahead), "Indent") + Times(Tail(ahead), "Dedent")
  BY DEF LineDepth
<1>8. /\ Times(ahead, "Indent") = (IF Peek = "Indent" THEN 1 ELSE 0) + Times(Tail(ahead), "Indent")
      /\ Times(ahead, "Dedent") = (IF Peek = "Dedent" THEN 1 ELSE 0) + Times(Tail(ahead), "Dedent")
  BY <1>4, <1>5
<1>9. LineDepth' = LineDepth + (IF Peek = "Indent" THEN 1 ELSE 0)
                             - (IF Peek = "Dedent" THEN 1 ELSE 0)
  <2> DEFINE a == IF Peek = "Indent" THEN 1 ELSE 0
             b == IF Peek = "Dedent" THEN 1 ELSE 0
             m == Times(Tail(ahead), "Indent")
             n == Times(Tail(ahead), "Dedent")
  <2>1. LineDepth = depth - (a + m) + (b + n)
    BY <1>8 DEF LineDepth
  <2>2. a \in Nat /\ b \in Nat /\ m \in Nat /\ n \in Nat
    BY <1>6
  <2>3. LineDepth' = depth - m + n
    BY <1>7
  <2> HIDE DEF a, b, m, n
  <2>4. LineDepth' = LineDepth + a - b
    BY <1>1, <2>1, <2>2, <2>3
  <2> QED
    BY <2>4 DEF a, b
<1> QED
  BY <1>3, <1>9

\* The blocks the reader sees open after the token at the cursor.
LEMMA OpenBlocks ==
  ASSUME DInv, ClosesLast
  PROVE  /\ Times(open, "Dedent") \in Nat
         /\ Times(Opened(Peek), "Dedent")
              = Times(open, "Dedent") + (IF Peek = "Indent" THEN 1 ELSE 0)
                                      - (IF Peek = "Dedent" THEN 1 ELSE 0)
<1>1. open \in Seq(Closers) /\ Times(open, "Dedent") \in Nat
  <2>1. open \in Seq(Closers)
    BY DEF DInv
  <2> QED
    BY <2>1, TimesIsNat
<1>2. \A x \in Closers : <<x>> \in Seq(Closers) /\ Times(<<x>>, "Dedent") = IF x = "Dedent" THEN 1 ELSE 0
  BY TimesOne
<1>3. \A x \in Closers : \A s \in Seq(Closers) :
        Times(<<x>> \o s, "Dedent") = (IF x = "Dedent" THEN 1 ELSE 0) + Times(s, "Dedent")
  <2> SUFFICES ASSUME NEW x \in Closers, NEW s \in Seq(Closers)
               PROVE  Times(<<x>> \o s, "Dedent") = (IF x = "Dedent" THEN 1 ELSE 0) + Times(s, "Dedent")
    OBVIOUS
  <2>1. <<x>> \in Seq(Closers) /\ Times(<<x>>, "Dedent") = IF x = "Dedent" THEN 1 ELSE 0
    BY <1>2
  <2>2. Times(<<x>> \o s, "Dedent") = Times(<<x>>, "Dedent") + Times(s, "Dedent")
    BY <2>1, TimesConcat
  <2> QED
    BY <2>1, <2>2
<1>4. CASE Peek \in DOMAIN Closing
  <2>1. /\ Closing[Peek] \in Closers /\ Peek # "Dedent"
        /\ Closing[Peek] = "Dedent" <=> Peek = "Indent"
    BY <1>4, BracketSets
  <2>2. Opened(Peek) = <<Closing[Peek]>> \o open
    BY <1>4, BracketSets DEF Opened, Delimited
  <2>3. Times(Opened(Peek), "Dedent")
          = (IF Closing[Peek] = "Dedent" THEN 1 ELSE 0) + Times(open, "Dedent")
    BY <1>1, <1>3, <2>1, <2>2
  <2> QED
    BY <1>1, <2>1, <2>3
<1>5. CASE Peek \in Closers
  <2>1. open # <<>> /\ open[1] = Peek
    BY <1>5 DEF ClosesLast
  <2>2. Opened(Peek) = Tail(open) /\ Peek # "Indent"
    BY <1>5, <2>1, BracketSets DEF Opened, Delimited
  <2>3. Tail(open) \in Seq(Closers) /\ open = <<Peek>> \o Tail(open)
    BY <1>1, <2>1
  <2>4. Times(Tail(open), "Dedent") \in Nat
    BY <2>3, TimesIsNat
  <2>5. Times(<<Peek>> \o Tail(open), "Dedent")
          = (IF Peek = "Dedent" THEN 1 ELSE 0) + Times(Tail(open), "Dedent")
    BY <1>3, <1>5, <2>3
  <2>6. Times(open, "Dedent") = (IF Peek = "Dedent" THEN 1 ELSE 0) + Times(Tail(open), "Dedent")
    BY <2>3, <2>5, Zenon
  <2> QED
    BY <1>1, <2>2, <2>4, <2>6
<1>6. CASE Peek \notin Brackets
  <2>1. Opened(Peek) = open
    BY <1>6 DEF Opened, Delimited, Brackets
  <2>2. Peek # "Indent" /\ Peek # "Dedent"
    BY <1>6, BracketsAre
  <2> QED
    BY <1>1, <2>1, <2>2
<1> QED
  BY <1>1, <1>4, <1>5, <1>6 DEF Brackets

\* The loop over the items stays last as long as something is above it.
LEMMA FileStays ==
  ASSUME IInv, status = "parsing", stack # <<>>, Len(stack) # 1, Replaced
  PROVE  stack' # <<>> /\ FileIsLast'
<1>1. Proper(stack) /\ stack[Len(stack)] = Nt("parse_file")
  BY DEF IInv, DInv, FileIsLast
<1>2. PICK S : stack \in Seq(S)
  BY <1>1 DEF Proper
<1>3. PICK then : Proper(then) /\ stack' = then \o Rest
  BY DEF Replaced
<1>4. /\ Rest \in Seq(S) /\ Len(Rest) = Len(stack) - 1 /\ Len(Rest) \in Nat \ {0}
      /\ Rest[Len(Rest)] = Nt("parse_file")
  <2>1. Rest \in Seq(S) /\ Len(Rest) = Len(stack) - 1 /\ Len(stack) \in Nat \ {0}
    BY <1>2 DEF Rest
  <2>2. Len(Rest) \in Nat \ {0}
    BY <2>1
  <2>3. \A i \in 1 .. Len(Rest) : Rest[i] = stack[i + 1]
    BY <1>2 DEF Rest
  <2>4. Rest[Len(Rest)] = stack[Len(Rest) + 1] /\ Len(Rest) + 1 = Len(stack)
    BY <2>1, <2>2, <2>3
  <2>5. Rest[Len(Rest)] = stack[Len(stack)]
    BY <2>4
  <2> QED
    BY <1>1, <2>1, <2>2, <2>5, Zenon
<1>5. PICK U : then \in Seq(U)
  BY <1>3 DEF Proper
<1> DEFINE V == U \union S
<1>6. then \in Seq(V) /\ Rest \in Seq(V)
  <2>1. U \subseteq V /\ S \subseteq V
    OBVIOUS
  <2> HIDE DEF V
  <2> QED
    BY <1>4, <1>5, <2>1, SeqMonotonic
<1> HIDE DEF V
<1> DEFINE next == then \o Rest
<1>7. Len(next) = Len(then) + Len(Rest) /\ Len(then) \in Nat
  BY <1>6
<1>8. next[Len(then) + Len(Rest)] = Rest[Len(Rest)]
  <2>1. \A j \in 1 .. Len(then) + Len(Rest) :
          (then \o Rest)[j] = IF j <= Len(then) THEN then[j] ELSE Rest[j - Len(then)]
    BY <1>6, ConcatProperties, Zenon
  <2> DEFINE n == Len(then) + Len(Rest)
  <2>2. /\ n \in 1 .. Len(then) + Len(Rest) /\ ~(n <= Len(then))
        /\ n - Len(then) = Len(Rest)
    BY <1>4, <1>7
  <2>3. (then \o Rest)[n] = Rest[n - Len(then)]
    BY <2>1, <2>2
  <2> QED
    BY <2>2, <2>3, Zenon
<1>9. next # <<>> /\ next[Len(next)] = Nt("parse_file")
  BY <1>4, <1>6, <1>7, <1>8
<1>10. stack' = next
  BY <1>3
<1> HIDE DEF next
<1> QED
  BY <1>9, <1>10, Zenon DEF FileIsLast

\* A step in which neither layout nor what is open changes.
LEMMA SameLayout ==
  ASSUME IInv, UNCHANGED <<ahead, depth, open, swallowed>>, status' = "parsing" => status = "parsing"
  PROVE  EndIsLast' /\ LinesAgree'
<1>1. EndIsLast' /\ LineDepth' = LineDepth
  BY DEF IInv, EndIsLast, LineDepth
<1> QED
  BY <1>1 DEF IInv, LinesAgree

\* A symbol that is not the call of a function is not the loop over the items.
LEMMA FileStaysBelow ==
  ASSUME IInv, NEW kinds, Ready(kinds), "nt" \notin kinds, Replaced, status' = "parsing"
  PROVE  FileIsLast' /\ NothingSwallowed'
<1>1. /\ status = "parsing" /\ stack # <<>> /\ Top.sym # "nt"
      /\ stack[Len(stack)] = Nt("parse_file")
  BY DEF Ready, IInv, FileIsLast
<1>2. Len(stack) # 1
  BY <1>1 DEF Top, Nt
<1>3. stack' # <<>> /\ FileIsLast'
  BY <1>1, <1>2, FileStays
<1> QED
  BY <1>3 DEF NothingSwallowed

\* A token is consumed, and the blocks that are open are counted with it.
LEMMA AdvanceLayout ==
  ASSUME IInv, NEW kinds, Ready(kinds), NEW then, NEW opened, Consume(then, opened), ahead # <<>>,
         Times(opened, "Dedent")
           = Times(open, "Dedent") + (IF Peek = "Indent" THEN 1 ELSE 0)
                                   - (IF Peek = "Dedent" THEN 1 ELSE 0)
  PROVE  EndIsLast' /\ LinesAgree' /\ status' = "parsing"
<1>1. /\ ahead' = Tail(ahead) /\ depth' = depth /\ swallowed' = swallowed /\ status' = status
      /\ open' = opened /\ status = "parsing"
  BY DEF Consume, Ready
<1> DEFINE a == IF Peek = "Indent" THEN 1 ELSE 0
           b == IF Peek = "Dedent" THEN 1 ELSE 0
<1>2. EndIsLast' /\ LineDepth' = LineDepth + a - b
  BY <1>1, PassToken
<1>3. Times(open, "Dedent") \in Nat /\ Times(opened, "Dedent") = Times(open, "Dedent") + a - b
  BY TimesIsNat DEF IInv, DInv
<1>4. LineDepth = Times(open, "Dedent") + swallowed /\ swallowed \in Int
  BY <1>1 DEF IInv, LinesAgree, TInv, TypeOK
<1>5. a \in Nat /\ b \in Nat
  OBVIOUS
<1> HIDE DEF a, b
<1>6. LineDepth' = Times(opened, "Dedent") + swallowed
  BY <1>2, <1>3, <1>4, <1>5
<1>7. LineDepth' = Times(open', "Dedent") + swallowed'
  BY <1>1, <1>6, Zenon
<1> QED
  BY <1>1, <1>2, <1>7 DEF LinesAgree

\* No operator is a line start.
LEMMA OperatorToken ==
  ASSUME Operator
  PROVE  Peek # "Indent" /\ Peek # "Dedent"
<1>1. Peek \in Infix
  BY DEF Operator, GoesOn
<1>2. PICK i \in DOMAIN BindingPowers : Peek \in BindingPowers[i]
  BY <1>1 DEF Infix
<1>3. i \in 1 .. 14
  BY <1>2 DEF BindingPowers
<1>4. BindingPowers[i] \in {{"implies"}, {"or"}, {"and"}, {"|"}, {"^"}, {"&"}, {"==", "!="},
        {"<", ">", "<=", ">="}, {"..", "..="}, {"<<", ">>", ">>>"}, {"++"}, {"+", "-"},
        {"*", "/", "%"}, {"**"}}
  BY <1>3 DEF BindingPowers
<1>5. Peek \in {"implies", "or", "and", "|", "^", "&", "==", "!=", "<", ">", "<=", ">=",
                "..", "..=", "<<", ">>", ">>>", "++", "+", "-", "*", "/", "%", "**"}
  BY <1>2, <1>4
<1> QED
  BY <1>5, Zenon

\* expect_token, the options, the operators and the closing angle.
LEMMA ConsumeBlocks ==
  ASSUME IInv, Expect \/ Eat \/ Operator \/ CloseAngle
  PROVE  EndIsLast' /\ LinesAgree' /\ FileIsLast' /\ NothingSwallowed'
<1>1. PICK kinds \in {{"tok"}, {"opt", "star"}, {"ops"}, {"angle"}} : Ready(kinds)
  BY DEF Expect, Eat, Operator, CloseAngle
<1>2. ahead # <<>>
  BY <1>1, HasToken DEF IInv
<1>3. CASE Operator
  <2>1. PICK then : Consume(then, open)
    BY <1>3 DEF Operator
  <2>2. Times(open, "Dedent") \in Nat /\ Peek # "Indent" /\ Peek # "Dedent"
    BY <1>3, OperatorToken, TimesIsNat DEF IInv, DInv
  <2>3. Times(open, "Dedent")
          = Times(open, "Dedent") + (IF Peek = "Indent" THEN 1 ELSE 0)
                                  - (IF Peek = "Dedent" THEN 1 ELSE 0)
    BY <2>2
  <2>4. EndIsLast' /\ LinesAgree' /\ status' = "parsing"
    BY <1>1, <1>2, <2>1, <2>3, AdvanceLayout
  <2>5. Replaced
    BY <1>3, OperatorStep DEF IInv
  <2> QED
    BY <1>1, <2>4, <2>5, FileStaysBelow
<1>4. CASE Expect \/ Eat \/ CloseAngle
  <2>1. PICK then : Consume(then, Opened(Peek))
    BY <1>4 DEF Expect, Eat, CloseAngle, Advance
  <2>2. ClosesLast /\ Replaced
    <3>1. CASE CloseAngle
      <4>1. Peek = ">"
        BY <3>1 DEF CloseAngle
      <4> QED
        BY <3>1, <4>1, AngleStep DEF IInv, ClosesLast
    <3> QED
      BY <1>4, <3>1, ExpectStep, EatStep DEF IInv
  <2>3. EndIsLast' /\ LinesAgree' /\ status' = "parsing"
    BY <1>1, <1>2, <2>1, <2>2, OpenBlocks, AdvanceLayout DEF IInv
  <2> QED
    BY <1>1, <2>2, <2>3, FileStaysBelow
<1> QED
  BY <1>3, <1>4

\* What a list swallows is counted.
LEMMA SkipBlocks ==
  ASSUME IInv, SkipLayout
  PROVE  EndIsLast' /\ LinesAgree' /\ FileIsLast' /\ NothingSwallowed'
<1>1. /\ ahead' = Tail(ahead) /\ UNCHANGED <<depth, stack, status, open>>
      /\ swallowed' = CASE Peek = "Indent" -> swallowed + 1
                        [] Peek = "Dedent" -> swallowed - 1
                        [] OTHER -> swallowed
      /\ Ready({"skip"})
  BY DEF SkipLayout
<1>2. ahead # <<>>
  BY <1>1, HasToken DEF IInv
<1>3. status = "parsing" /\ stack # <<>>
  BY <1>1 DEF Ready
<1> DEFINE a == IF Peek = "Indent" THEN 1 ELSE 0
           b == IF Peek = "Dedent" THEN 1 ELSE 0
<1>4. EndIsLast' /\ LineDepth' = LineDepth + a - b
  BY <1>1, <1>2, PassToken
<1>5. /\ LineDepth = Times(open, "Dedent") + swallowed /\ swallowed \in Int
      /\ Times(open, "Dedent") \in Nat
  BY <1>3, TimesIsNat DEF IInv, LinesAgree, TInv, TypeOK, DInv
<1>6. swallowed' = swallowed + a - b
  BY <1>1, <1>5
<1>7. a \in Nat /\ b \in Nat
  OBVIOUS
<1> HIDE DEF a, b
<1>8. LineDepth' = Times(open, "Dedent") + swallowed'
  BY <1>4, <1>5, <1>6, <1>7
<1> QED
  BY <1>1, <1>3, <1>4, <1>8 DEF IInv, LinesAgree, FileIsLast, NothingSwallowed

\* Of a `>>` the second half stays, and the first closes no block.
LEMMA SplitBlocks ==
  ASSUME IInv, SplitShift
  PROVE  EndIsLast' /\ LinesAgree' /\ FileIsLast' /\ NothingSwallowed'
<1>1. /\ ahead' = <<">">> \o Tail(ahead) /\ UNCHANGED <<depth, status, swallowed>>
      /\ Peek = ">>" /\ Ready({"angle"})
      /\ open' = Opened(">")
  BY DEF SplitShift
<1>2. Replaced /\ open # <<>> /\ open[1] = ">" /\ open \in Seq(Closers)
  BY AngleStep DEF IInv, DInv
<1>3. FileIsLast' /\ NothingSwallowed'
  BY <1>1, <1>2, FileStaysBelow DEF Ready
<1>4. /\ ahead # <<>> /\ ahead \in Seq(FileTokens) /\ Tail(ahead) \in Seq(FileTokens)
      /\ ahead = <<Peek>> \o Tail(ahead) /\ Peek \in FileTokens
  BY <1>1, HasToken DEF IInv, TInv
<1>5. ">" \in FileTokens
  BY DEF FileTokens
<1>6. \A x \in FileTokens : \A t :
        Times(<<x>> \o Tail(ahead), t) = Times(<<x>>, t) + Times(Tail(ahead), t)
  <2> TAKE x \in FileTokens
  <2>1. <<x>> \in Seq(FileTokens)
    OBVIOUS
  <2> QED
    BY <1>4, <2>1, TimesConcat
<1>7. \A t \in {"Indent", "Dedent"} : Times(<<">">>, t) = 0 /\ Times(<<">>">>, t) = 0
  BY TimesOne
<1>8. \A t \in {"Indent", "Dedent"} : Times(ahead', t) = Times(ahead, t)
  <2> TAKE t \in {"Indent", "Dedent"}
  <2>1. ahead' = <<">">> \o Tail(ahead) /\ ahead = <<">>">> \o Tail(ahead) /\ ">>" \in FileTokens
    BY <1>1, <1>4
  <2>2. /\ Times(<<">">> \o Tail(ahead), t) = Times(<<">">>, t) + Times(Tail(ahead), t)
        /\ Times(<<">>">> \o Tail(ahead), t) = Times(<<">>">>, t) + Times(Tail(ahead), t)
    BY <1>5, <1>6, <2>1
  <2>3. Times(<<">">> \o Tail(ahead), t) = Times(<<">>">> \o Tail(ahead), t)
    BY <1>7, <2>2
  <2> QED
    BY <2>1, <2>3, Zenon
<1>9. LineDepth' = LineDepth
  BY <1>1, <1>8 DEF LineDepth
<1>10. EndIsLast'
  <2>1. Len(ahead') = Len(ahead) /\ DOMAIN ahead' = DOMAIN ahead
    BY <1>1, <1>4, <1>5
  <2>2. \A i \in DOMAIN ahead' : ahead'[i] = IF i = 1 THEN ">" ELSE ahead[i]
    BY <1>1, <1>4, <1>5
  <2> QED
    BY <1>1, <2>1, <2>2 DEF IInv, EndIsLast
<1>11. Times(open', "Dedent") = Times(open, "Dedent")
  <2>1. ">" \in Closers /\ ">" \notin DOMAIN Closing
    BY BracketSets
  <2>2. open' = Tail(open)
    BY <1>1, <1>2, <2>1 DEF Opened, Delimited
  <2>3. open = <<">">> \o Tail(open) /\ Tail(open) \in Seq(Closers) /\ <<">">> \in Seq(Closers)
    BY <1>2, <2>1
  <2>4. Times(<<">">> \o Tail(open), "Dedent")
          = Times(<<">">>, "Dedent") + Times(Tail(open), "Dedent")
    BY <2>3, TimesConcat
  <2>5. Times(open, "Dedent") = Times(<<">">>, "Dedent") + Times(Tail(open), "Dedent")
    BY <2>3, <2>4, Zenon
  <2>6. Times(<<">">>, "Dedent") = 0 /\ Times(Tail(open), "Dedent") \in Nat
    BY <1>7, <2>3, TimesIsNat
  <2> QED
    BY <2>2, <2>5, <2>6
<1> QED
  BY <1>1, <1>3, <1>9, <1>10, <1>11 DEF IInv, LinesAgree

\* The loop over the items is called: it stays, or there is nothing left.
LEMMA FileCall ==
  ASSUME IInv, DInv', Call, Len(stack) = 1
  PROVE  FileIsLast' /\ NothingSwallowed'
<1>1. /\ Ready({"nt"}) /\ stack' = Rule(Top.name, Peek, PeekNext) \o Rest
      /\ UNCHANGED <<ahead, depth, status, open, swallowed>>
  BY DEF Call
<1>2. /\ status = "parsing" /\ stack # <<>> /\ ~Wanting /\ Top = Nt("parse_file")
      /\ Proper(stack)
  BY <1>1 DEF Ready, IInv, FileIsLast, Top, DInv
<1>3. Rest = <<>>
  <2>1. PICK S : stack \in Seq(S)
    BY <1>2 DEF Proper
  <2>2. Len(stack) = 1 /\ Tail(stack) \in Seq(S) /\ Len(Tail(stack)) = Len(stack) - 1
    BY <1>2, <2>1
  <2>3. Len(Tail(stack)) = 0
    BY <2>2
  <2>4. Tail(stack) = <<>>
    BY <2>2, <2>3, EmptySeq
  <2> QED
    BY <2>4 DEF Rest
<1>4. Rule("parse_file", Peek, PeekNext) = parse_file(Peek)
  BY DEF Rule, Blind
<1>5. stack' = parse_file(Peek)
  <2>1. PICK S : parse_file(Peek) \in Seq(S)
    BY FileRule DEF Whole, Proper
  <2>2. parse_file(Peek) \o <<>> = parse_file(Peek)
    BY <2>1
  <2>3. Top.name = "parse_file"
    BY <1>2 DEF Nt
  <2> QED
    BY <1>1, <1>3, <1>4, <2>2, <2>3, Zenon
<1>6. CASE Peek = "End"
  <2>1. stack' = <<>>
    BY <1>5, <1>6 DEF parse_file
  <2>2. Looks(Top) = 1
    <3>1. Top.sym = "nt" /\ Top.name = "parse_file"
      BY <1>2 DEF Nt
    <3> QED
      BY <3>1 DEF Looks, Blind, TwoAhead
  <2>3. ahead \in Seq(FileTokens) /\ depth \in Nat /\ swallowed \in Int
    BY DEF IInv, TInv, TypeOK
  <2>4. ahead # <<>>
    <3>1. Len(ahead) >= 1 \/ Drawn
      BY <1>2, <2>2, <2>3 DEF Wanting
    <3> QED
      BY <2>3, <3>1 DEF Drawn
  <2>5. depth = 0 /\ ahead = <<"End">>
    <3>1. 1 \in DOMAIN ahead /\ ahead[1] = "End"
      BY <1>6, <2>3, <2>4 DEF Peek
    <3>2. Len(ahead) = 1 /\ depth = 0
      BY <3>1 DEF IInv, EndIsLast
    <3> QED
      BY <2>3, <3>1, <3>2
  <2>6. LineDepth = 0
    <3>1. Times(ahead, "Indent") = 0 /\ Times(ahead, "Dedent") = 0
      BY <2>5, TimesOne
    <3> QED
      BY <2>5, <3>1 DEF LineDepth
  <2>7. open = <<>>
    <3>1. Due' = <<>>
      <4>1. <<>> \in Seq(Marks) /\ Neutral(<<>>)
        BY NothingIsWhole DEF Whole
      <4>2. DueBefore(<<>>, <<>>) = <<>>
        BY <4>1 DEF Neutral
      <4> QED
        BY <2>1, <4>2, Zenon DEF Due
    <3>2. Due' = open'
      BY <1>1, <1>2, <2>1 DEF DInv, DelimitersAgree, Failing
    <3> QED
      BY <1>1, <3>1, <3>2
  <2>8. Times(open, "Dedent") = 0
    <3>1. {i \in DOMAIN open : open[i] = "Dedent"} = {}
      BY <2>7
    <3> QED
      BY <3>1, FS_EmptySet DEF Times
  <2>9. swallowed = 0
    BY <1>2, <2>3, <2>6, <2>8 DEF IInv, LinesAgree
  <2> QED
    BY <1>1, <1>2, <2>1, <2>9 DEF FileIsLast, NothingSwallowed
<1>7. CASE Peek # "End"
  <2>1. PICK before : Proper(before) /\ stack' = before \o <<Nt("parse_file")>>
    <3>1. Proper(Newlines) /\ Proper(Item \o Newlines)
      BY Parts, Joins DEF Whole
    <3>2. Item \o Newlines \o <<Nt("parse_file")>> = (Item \o Newlines) \o <<Nt("parse_file")>>
      OBVIOUS
    <3> QED
      BY <1>5, <1>7, <3>1, <3>2 DEF parse_file
  <2>2. PICK S : before \in Seq(S)
    BY <2>1 DEF Proper
  <2> DEFINE x == Nt("parse_file")
             V == S \union {x}
  <2>3. before \in Seq(V) /\ x \in V
    <3>1. S \subseteq V /\ x \in V
      OBVIOUS
    <3> HIDE DEF V
    <3> QED
      BY <2>2, <3>1, SeqMonotonic
  <2> HIDE DEF V, x
  <2>4. before \o <<x>> # <<>> /\ (before \o <<x>>)[Len(before \o <<x>>)] = x
    <3>1. before \o <<x>> = Append(before, x) /\ Len(before) \in Nat
      BY <2>3
    <3>2. Append(before, x) # <<>> /\ Append(before, x)[Len(Append(before, x))] = x
      BY <2>3, AppendProperties
    <3> QED
      BY <3>1, <3>2, Zenon
  <2>5. stack' = before \o <<x>>
    BY <2>1 DEF x
  <2>6. stack' # <<>> /\ stack'[Len(stack')] = x
    BY <2>4, <2>5, Zenon
  <2> QED
    BY <1>1, <1>2, <2>6 DEF FileIsLast, NothingSwallowed, x
<1> QED
  BY <1>6, <1>7

\* A function is called.
LEMMA CallBlocks ==
  ASSUME IInv, Call
  PROVE  EndIsLast' /\ LinesAgree' /\ FileIsLast' /\ NothingSwallowed'
<1>1. DInv' /\ Replaced
  BY CallStep DEF IInv
<1>2. Ready({"nt"}) /\ UNCHANGED <<ahead, depth, status, open, swallowed>>
  BY DEF Call
<1>3. EndIsLast' /\ LinesAgree' /\ status = "parsing" /\ status' = "parsing" /\ stack # <<>>
  BY <1>2, SameLayout DEF Ready
<1>4. FileIsLast' /\ NothingSwallowed'
  <2>1. CASE Len(stack) = 1
    BY <1>1, <2>1, FileCall
  <2>2. CASE Len(stack) # 1
    BY <1>1, <1>3, <2>2, FileStays DEF NothingSwallowed
  <2> QED
    BY <2>1, <2>2
<1> QED
  BY <1>3, <1>4

\* The symbol at the top is replaced while the cursor stays.
LEMMA ReplaceBlocks ==
  ASSUME IInv,
         \/ CallPratt \/ DeclineToEat \/ EndSkip \/ NextElement \/ NextListed \/ EndLoop
         \/ EndOperators \/ Build \/ CheckPipe
  PROVE  EndIsLast' /\ LinesAgree' /\ FileIsLast' /\ NothingSwallowed'
<1>1. Replaced
  BY LoopStep, PrattStep, DropStep DEF IInv
<1>2. UNCHANGED <<ahead, depth, status, open, swallowed>>
  BY DEF CallPratt, DeclineToEat, EndSkip, NextElement, NextListed, EndLoop, EndOperators, Build,
         CheckPipe, Replace, history
<1>3. PICK kinds \in {{"pratt"}, {"opt", "star"}, {"skip"}, {"many"}, {"list"}, {"ops"}, {"node"},
                      {"pipe"}} : Ready(kinds)
  BY DEF CallPratt, DeclineToEat, EndSkip, NextElement, NextListed, EndLoop, EndOperators, Build,
         CheckPipe
<1>4. "nt" \notin kinds /\ status' = "parsing"
  BY <1>2, <1>3 DEF Ready
<1>5. FileIsLast' /\ NothingSwallowed'
  BY <1>1, <1>3, <1>4, FileStaysBelow
<1> QED
  BY <1>2, <1>5, SameLayout

\* The verdict.
LEMMA EndBlocks ==
  ASSUME IInv, Accept \/ Reject \/ UNCHANGED vars
  PROVE  EndIsLast' /\ LinesAgree' /\ FileIsLast' /\ NothingSwallowed'
<1>1. CASE Accept
  <2>1. /\ UNCHANGED <<ahead, depth, stack, open, swallowed>> /\ status' = "accepted"
        /\ status = "parsing" /\ stack = <<>>
    BY <1>1 DEF Accept, history
  <2>2. EndIsLast' /\ LinesAgree'
    BY <2>1, SameLayout
  <2> QED
    BY <2>1, <2>2 DEF IInv, FileIsLast, NothingSwallowed
<1>2. CASE Reject
  <2>1. ahead' = <<>> /\ status' = "rejected"
    BY <1>2 DEF Reject
  <2>2. EndIsLast'
    BY <2>1 DEF EndIsLast
  <2> QED
    BY <2>1, <2>2 DEF LinesAgree, FileIsLast, NothingSwallowed
<1>3. CASE UNCHANGED vars
  <2>1. UNCHANGED <<ahead, depth, stack, open, swallowed, status>>
    BY <1>3 DEF vars, history
  <2>2. EndIsLast' /\ LinesAgree'
    BY <2>1, SameLayout
  <2> QED
    BY <2>1, <2>2 DEF IInv, FileIsLast, NothingSwallowed
<1> QED
  BY <1>1, <1>2, <1>3

\* The invariant at the start, and in every step.
LEMMA InitIInv == Init => IInv
<1> SUFFICES ASSUME Init PROVE IInv
  OBVIOUS
<1>1. /\ scene \in Scenes /\ ahead = scene.prefix /\ stack = <<Nt("parse_file")>> /\ open = <<>>
      /\ depth = Times(scene.prefix, "Indent") - Times(scene.prefix, "Dedent")
      /\ status = "parsing" /\ swallowed = 0
  BY DEF Init
<1>2. ahead \in Seq(STRING) /\ Times(ahead, "End") = 0
  BY <1>1, ScenesAssumption
<1>3. EndIsLast
  <2>1. Occurrences(ahead, "End") = {}
    <3>1. /\ IsFiniteSet(Occurrences(ahead, "End"))
          /\ Cardinality(Occurrences(ahead, "End")) = 0
      BY <1>2, OccurrencesFinite DEF Times, Occurrences
    <3> QED
      BY <3>1, FS_EmptySet
  <2> QED
    BY <2>1 DEF EndIsLast, Occurrences
<1>4. LinesAgree
  <2>1. LineDepth = 0
    <3>1. Times(ahead, "Indent") \in Nat /\ Times(ahead, "Dedent") \in Nat
      BY <1>2, TimesIsNat
    <3>2. depth = Times(ahead, "Indent") - Times(ahead, "Dedent")
      BY <1>1
    <3> QED
      BY <3>1, <3>2 DEF LineDepth
  <2>2. Times(open, "Dedent") = 0
    <3>1. {i \in DOMAIN open : open[i] = "Dedent"} = {}
      BY <1>1
    <3> QED
      BY <3>1, FS_EmptySet DEF Times
  <2> QED
    BY <1>1, <2>1, <2>2 DEF LinesAgree
<1>5. FileIsLast /\ NothingSwallowed
  BY <1>1 DEF FileIsLast, NothingSwallowed
<1> QED
  BY <1>3, <1>4, <1>5, InitTInv, InitDInv DEF IInv

LEMMA NextIInv == IInv /\ [Next]_vars => IInv'
<1> SUFFICES ASSUME IInv, [Next]_vars PROVE IInv'
  OBVIOUS
<1>1. TInv' /\ DInv'
  BY NextTInv, NextDInv DEF IInv
<1>2. EndIsLast' /\ LinesAgree' /\ FileIsLast' /\ NothingSwallowed'
  BY DrawBlocks, ConsumeBlocks, SkipBlocks, SplitBlocks, CallBlocks, ReplaceBlocks, EndBlocks
  DEF Next
<1> QED
  BY <1>1, <1>2 DEF IInv

-----------------------------------------------------------------------------

(***************************************************************************)
(* The inductive invariant holds whatever the scene: Parser::parse         *)
(* (mod.rs:150-192) keeps it from its first token to its verdict.          *)
(***************************************************************************)
THEOREM Invariant == Spec => []IInv
BY InitIInv, NextIInv, PTL DEF Spec

(***************************************************************************)
(* Wherever the parser is, what it has yet to ask for closes exactly what  *)
(* the reader of the file sees open, in that order, with a `>>` that       *)
(* closes two generic lists counted by its halves (parser/*.rs;            *)
(* expect_token in mod.rs:82-92, expect_close_angle in types.rs:11-31):    *)
(* for files of every length and depth.                                    *)
(***************************************************************************)
THEOREM DelimitersMatch == Spec => []DelimitersAgree
<1>1. IInv => DelimitersAgree
  BY DEF IInv, DInv
<1> QED
  BY <1>1, Invariant, PTL

(***************************************************************************)
(* A statement is as deep in the tree as its line is in the file, unless   *)
(* lists have swallowed layout (skip_structural, mod.rs:120-127), and a    *)
(* file in which they have, all in all, is not accepted.                   *)
(***************************************************************************)
THEOREM BlocksMatch == Spec => []BlocksAgree
<1>1. ASSUME IInv PROVE BlocksAgree
  <2>1. ASSUME Ready({"nt"}), Top.name = "parse_stmt", swallowed = 0
        PROVE  Times(Due, "Dedent") = LineDepth
    <3>1. status = "parsing" /\ ~Failing /\ Due = open
      BY <1>1, <2>1, Started DEF IInv, DInv, DelimitersAgree
    <3>2. LineDepth = Times(open, "Dedent") + swallowed /\ Times(open, "Dedent") \in Nat
      BY <1>1, <3>1, TimesIsNat DEF IInv, DInv, LinesAgree
    <3> QED
      BY <2>1, <3>1, <3>2
  <2> QED
    BY <1>1, <2>1 DEF BlocksAgree, IInv, NothingSwallowed
<1> QED
  BY <1>1, Invariant, PTL

====================================================================================
