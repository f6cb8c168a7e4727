----------------------------- MODULE AnalysisProofs -----------------------------
(***************************************************************************)
(* The walks of the type checker and the validator use the table that the  *)
(* resolver has left as lexical scoping has it.                            *)
(*                                                                         *)
(* The argument is in three layers, each an invariant of its own.  Shaped: *)
(* the program that the resolver has met is a tree, a construct holds an   *)
(* interval of positions, and what may stand in what is what the parser    *)
(* lets stand there; so a statement that is walked has one module that     *)
(* knows its scope.  WInv: the walk is in all the walked modules around    *)
(* what it comes to next, entered outermost first, and each keeps the      *)
(* scope around it.  RInv: what has been looked up and reported is what    *)
(* the walk has come by, and was found in the module around it.            *)
(***************************************************************************)
EXTENDS Analysis, ResolverProofs

-----------------------------------------------------------------------------
(* The program is a tree. *)

\* Every statement lies in a construct that began before it, or in the file.
Treelike(p) ==
  /\ Len(p) \in Nat /\ DOMAIN p = 1 .. Len(p)
  /\ \A k \in DOMAIN p : p[k].block \in 0 .. k - 1

\* Enclosing, for any program, with k among them and without.
Chain(p, k) ==
  LET enclosing[j \in 0 .. Len(p)] == IF j = 0 THEN {} ELSE {j} \union enclosing[p[j].block]
  IN  enclosing[k]

Outside(p, k) == Chain(p, k) \ {k}

LEMMA EnclosingMeans == \A k : Enclosing(k) = Outside(prog, k)
BY DEF Enclosing, Outside, Chain

\* What holds of a statement when it holds of the construct around it holds of all.
LEMMA Inward ==
  ASSUME NEW p, Treelike(p), NEW T \in SUBSET DOMAIN p,
         \A k \in DOMAIN p : (p[k].block = 0 \/ p[k].block \in T) => k \in T
  PROVE  T = DOMAIN p
<1> DEFINE U == {k \in Nat : k \in DOMAIN p => k \in T}
<1>0. /\ Len(p) \in Nat /\ DOMAIN p = 1 .. Len(p)
      /\ \A k \in DOMAIN p : p[k].block \in 0 .. k - 1
  BY DEF Treelike
<1>1. ASSUME NEW k \in Nat, \A m \in 0 .. k - 1 : m \in U PROVE k \in U
  <2>1. SUFFICES ASSUME k \in DOMAIN p PROVE k \in T
    OBVIOUS
  <2>2. p[k].block \in 0 .. k - 1 /\ (p[k].block = 0 \/ p[k].block \in DOMAIN p)
    BY <1>0, <2>1
  <2>3. p[k].block = 0 \/ p[k].block \in T
    BY <1>1, <2>2
  <2> QED
    BY <2>1, <2>3
<1>2. U = Nat
  <2> HIDE DEF U
  <2>1. U \subseteq Nat
    BY DEF U
  <2> QED
    BY <1>1, <2>1, Below
<1>3. \A k \in DOMAIN p : k \in T
  BY <1>0, <1>2
<1> QED
  BY <1>3

\* The recursion of Enclosing, unfolded once.
LEMMA ChainStep ==
  ASSUME NEW p, Treelike(p)
  PROVE  /\ Chain(p, 0) = {}
         /\ \A k \in DOMAIN p : Chain(p, k) = {k} \union Chain(p, p[k].block)
<1> DEFINE n == Len(p)
           Step(f) == [j \in 0 .. n |-> IF j = 0 THEN {} ELSE {j} \union f[p[j].block]]
           enclosing == CHOOSE f : f = Step(f)
           up == [j \in 1 .. n |-> p[j].block]
           G == [j \in 1 .. n |-> [v \in SUBSET Nat |-> {j} \union v]]
<1>1. /\ n \in Nat /\ DOMAIN p = 1 .. n
      /\ \A j \in 1 .. n : p[j].block \in Nat /\ p[j].block < j
  BY DEF Treelike
<1>2. PICK f : Computed(f, n, SUBSET Nat, {}, up, G)
  <2>1. G \in [1 .. n -> [SUBSET Nat -> SUBSET Nat]]
    <3>1. \A j \in 1 .. n, v \in SUBSET Nat : {j} \union v \in SUBSET Nat
      BY <1>1
    <3> HIDE DEF n
    <3> QED
      BY <3>1
  <2>2. up \in [1 .. n -> Nat] /\ (\A j \in 1 .. n : up[j] < j) /\ {} \in SUBSET Nat
    BY <1>1
  <2>3. Descending(n, SUBSET Nat, {}, up, G)
    <3> HIDE DEF G, up, n
    <3> QED
      BY <1>1, <2>1, <2>2 DEF Descending
  <2> HIDE DEF up, G, n
  <2> QED
    BY <2>3, Descent, Zenon
<1>3. f \in [0 .. n -> SUBSET Nat] /\ f[0] = {} /\ \A j \in 1 .. n : f[j] = G[j][f[up[j]]]
  BY <1>2 DEF Computed
<1>4. f = Step(f)
  <2>1. ASSUME NEW j \in 1 .. n PROVE f[j] = Step(f)[j]
    <3>1. up[j] = p[j].block /\ f[up[j]] \in SUBSET Nat
      BY <1>1, <1>3
    <3>2. G[j][f[up[j]]] = {j} \union f[up[j]]
      BY <3>1
    <3>3. j \in 0 .. n /\ j # 0
      BY <1>1
    <3>4. Step(f)[j] = {j} \union f[p[j].block]
      BY <3>3
    <3> HIDE DEF Step, G, up
    <3> QED
      BY <3>1, <3>2, <3>4, <1>3
  <2>2. f[0] = Step(f)[0]
    BY <1>1, <1>3
  <2>3. Step(f) = [j \in 0 .. n |-> Step(f)[j]]
    OBVIOUS
  <2> HIDE DEF Step
  <2>4. \A j \in 0 .. n : f[j] = Step(f)[j]
    BY <2>1, <2>2, <1>1
  <2> QED
    BY <2>3, <2>4, <1>3
<1>5. enclosing = Step(enclosing)
  <2> HIDE DEF Step
  <2> QED
    BY <1>4, Zenon
<1>6. \A k : Chain(p, k) = enclosing[k]
  BY Zenon DEF Chain, enclosing, Step
<1> HIDE DEF enclosing
<1>7. enclosing[0] = {}
  <2>1. 0 \in 0 .. n /\ enclosing[0] = Step(enclosing)[0]
    BY <1>1, <1>5
  <2> QED
    BY <2>1
<1>8. ASSUME NEW k \in 1 .. n PROVE enclosing[k] = {k} \union enclosing[p[k].block]
  <2>1. k \in 0 .. n /\ k # 0 /\ enclosing[k] = Step(enclosing)[k]
    BY <1>1, <1>5
  <2> QED
    BY <2>1
<1> QED
  BY <1>1, <1>6, <1>7, <1>8

\* What lies around a statement begins before it.
LEMMA ChainBounds ==
  ASSUME NEW p, Treelike(p), NEW k \in DOMAIN p
  PROVE  \A j \in Chain(p, k) : j \in 1 .. k
<1> DEFINE T == {i \in DOMAIN p : \A j \in Chain(p, i) : j \in 1 .. i}
<1>1. ASSUME NEW i \in DOMAIN p, p[i].block = 0 \/ p[i].block \in T
      PROVE  i \in T
  <2>1. p[i].block \in 0 .. i - 1 /\ i \in Nat /\ i >= 1
    BY DEF Treelike
  <2>2. Chain(p, i) = {i} \union Chain(p, p[i].block)
    BY ChainStep
  <2>3. CASE p[i].block = 0
    BY <2>1, <2>2, <2>3, ChainStep
  <2>4. CASE p[i].block # 0
    BY <1>1, <2>1, <2>2, <2>4
  <2> QED
    BY <2>3, <2>4
<1>2. T \subseteq DOMAIN p
  OBVIOUS
<1>3. T = DOMAIN p
  <2> HIDE DEF T
  <2> QED
    BY <1>1, <1>2, Inward
<1> QED
  BY <1>3

\* Enclosing, unfolded once.
LEMMA OutsideStep ==
  ASSUME NEW p, Treelike(p), NEW k \in DOMAIN p
  PROVE  /\ p[k].block = 0 => Outside(p, k) = {}
         /\ p[k].block # 0 =>
              p[k].block \in DOMAIN p /\ Outside(p, k) = {p[k].block} \union Outside(p, p[k].block)
         /\ \A j \in Outside(p, k) : j \in DOMAIN p /\ j \in 1 .. k - 1 /\ j < k
<1>1. /\ Len(p) \in Nat /\ DOMAIN p = 1 .. Len(p) /\ k \in Nat
      /\ p[k].block \in 0 .. k - 1
  BY DEF Treelike
<1>2. Chain(p, k) = {k} \union Chain(p, p[k].block) /\ Chain(p, 0) = {}
  BY ChainStep
<1>3. CASE p[k].block = 0
  BY <1>1, <1>2, <1>3 DEF Outside
<1>4. CASE p[k].block # 0
  <2> DEFINE b == p[k].block
  <2>1. b \in DOMAIN p /\ b < k
    BY <1>1, <1>4
  <2>2. Chain(p, b) = {b} \union Chain(p, p[b].block) /\ \A j \in Chain(p, b) : j \in 1 .. b
    BY <2>1, ChainStep, ChainBounds
  <2>3. Chain(p, b) = {b} \union Outside(p, b)
    BY <2>2 DEF Outside
  <2>4. k \notin Chain(p, b)
    BY <1>1, <2>1, <2>2
  <2>5. Outside(p, k) = Chain(p, b)
    BY <1>2, <2>4 DEF Outside
  <2> QED
    BY <1>1, <1>4, <2>1, <2>2, <2>3, <2>5
<1> QED
  BY <1>3, <1>4

\* What lies around a construct lies around what is in it.
LEMMA OutsideTransitive ==
  ASSUME NEW p, Treelike(p), NEW k \in DOMAIN p, NEW j \in Outside(p, k)
  PROVE  Outside(p, j) \subseteq Outside(p, k)
<1> DEFINE T == {i \in DOMAIN p : \A h \in Outside(p, i) : Outside(p, h) \subseteq Outside(p, i)}
<1>1. ASSUME NEW i \in DOMAIN p, p[i].block = 0 \/ p[i].block \in T
      PROVE  i \in T
  BY <1>1, OutsideStep
<1>2. T \subseteq DOMAIN p
  OBVIOUS
<1>3. T = DOMAIN p
  <2> HIDE DEF T
  <2> QED
    BY <1>1, <1>2, Inward
<1> QED
  BY <1>3

\* A later statement changes nothing around the earlier ones.
LEMMA OutsideSame ==
  ASSUME NEW p, NEW q, Treelike(p), Treelike(q), DOMAIN p \subseteq DOMAIN q,
         \A k \in DOMAIN p : q[k].block = p[k].block
  PROVE  \A k \in DOMAIN p : Outside(q, k) = Outside(p, k)
<1> DEFINE T == {i \in DOMAIN p : Outside(q, i) = Outside(p, i)}
<1>1. ASSUME NEW i \in DOMAIN p, p[i].block = 0 \/ p[i].block \in T
      PROVE  i \in T
  <2>1. i \in DOMAIN q /\ q[i].block = p[i].block
    OBVIOUS
  <2>2. CASE p[i].block = 0
    BY <2>1, <2>2, OutsideStep
  <2>3. CASE p[i].block # 0
    <3>1. Outside(p, i) = {p[i].block} \union Outside(p, p[i].block)
      BY <2>3, OutsideStep
    <3>2. Outside(q, i) = {p[i].block} \union Outside(q, p[i].block)
      BY <2>1, <2>3, OutsideStep
    <3> QED
      BY <1>1, <2>3, <3>1, <3>2
  <2> QED
    BY <2>2, <2>3
<1>2. T \subseteq DOMAIN p
  OBVIOUS
<1>3. T = DOMAIN p
  <2> HIDE DEF T
  <2> QED
    BY <1>1, <1>2, Inward
<1> QED
  BY <1>3

\* All that comes between a construct and a statement in it lies in it, too.
Laminar(p) ==
  \A k, i \in DOMAIN p : (p[k].block # 0 /\ p[k].block < i /\ i < k) => p[k].block \in Outside(p, i)

LEMMA Between ==
  ASSUME NEW p, Treelike(p), Laminar(p), NEW k \in DOMAIN p, NEW j \in Outside(p, k),
         NEW i \in DOMAIN p, j < i, i < k
  PROVE  j \in Outside(p, i)
<1> DEFINE T == {m \in DOMAIN p : \A h \in Outside(p, m), l \in DOMAIN p :
                                    h < l /\ l < m => h \in Outside(p, l)}
<1>1. ASSUME NEW m \in DOMAIN p, p[m].block = 0 \/ p[m].block \in T,
             NEW h \in Outside(p, m), NEW l \in DOMAIN p, h < l, l < m
      PROVE  h \in Outside(p, l)
  <2> DEFINE b == p[m].block
  <2>1. b # 0 /\ b \in DOMAIN p /\ Outside(p, m) = {b} \union Outside(p, b)
    BY OutsideStep
  <2>2. b \in Nat /\ l \in Nat
    BY <2>1 DEF Treelike
  <2>3. CASE h = b
    BY <1>1, <2>1, <2>3 DEF Laminar
  <2>4. CASE h # b
    <3>1. h \in Outside(p, b)
      BY <2>1, <2>4
    <3>2. CASE l < b
      BY <1>1, <2>1, <3>1, <3>2
    <3>3. CASE l = b
      BY <3>1, <3>3
    <3>4. CASE b < l
      <4>1. b \in Outside(p, l)
        BY <1>1, <2>1, <3>4 DEF Laminar
      <4> QED
        BY <3>1, <4>1, OutsideTransitive
    <3> QED
      BY <2>2, <3>2, <3>3, <3>4
  <2> QED
    BY <2>3, <2>4
<1>2. T \subseteq DOMAIN p
  OBVIOUS
<1>3. \A m \in DOMAIN p : p[m].block = 0 \/ p[m].block \in T => m \in T
  <2> SUFFICES ASSUME NEW m \in DOMAIN p, p[m].block = 0 \/ p[m].block \in T
               PROVE  \A h \in Outside(p, m), l \in DOMAIN p :
                        h < l /\ l < m => h \in Outside(p, l)
    OBVIOUS
  <2> HIDE DEF T
  <2> QED
    BY <1>1
<1>4. T = DOMAIN p
  <2> HIDE DEF T
  <2> QED
    BY <1>2, <1>3, Inward
<1> QED
  BY <1>4

-----------------------------------------------------------------------------
(* What stands where in a program, as the resolver has met it. *)

\* What a file, module or gen item may hold beside statements.
Items == {"module", "extern", "fn", "gen"}

\* The constructs that statements stand in.
Holding == Scoping \union {"body", "gen"}

\* The construct with a scope, b or one around it.
ScopeIn(p, b) == IF b = 0 THEN 0 ELSE IF p[b].what \in Scoping THEN b ELSE p[b].scope

PlacedAt(p, k) ==
  /\ p[k].scope = ScopeIn(p, p[k].block)
  /\ p[k].block # 0 => p[p[k].block].what \in Holding
  /\ p[k].block # 0 /\ p[p[k].block].what = "extern" => p[k].what \notin Holding \union Mentions
  /\ p[k].block # 0 /\ p[k].what \in Items => p[p[k].block].what \in {"module", "gen"}
  /\ p[k].what \in Mentions => p[k].name \in Names

Placed(p) == \A k \in DOMAIN p : PlacedAt(p, k)

\* The innermost construct with a scope of the first i open ones.
ScopeUpTo(constructs, i) ==
  LET scoping == {j \in 1 .. i : constructs[j].kind \in Scoping}
  IN  IF scoping = {} THEN 0
      ELSE constructs[CHOOSE j \in scoping : \A h \in scoping : h <= j].at

\* An open construct lies in those opened before it, and all that came after in it.
Opened(p, constructs) ==
  \A i \in DOMAIN constructs :
    /\ p[constructs[i].at].scope = ScopeUpTo(constructs, i - 1)
    /\ \A k \in DOMAIN p : constructs[i].at < k => constructs[i].at \in Outside(p, k)

Arranged == Treelike(prog) /\ Laminar(prog) /\ Placed(prog) /\ Opened(prog, open)

\* A symbol of a constant is one that `const` or `let` declares.
KindsSay(t, p) ==
  \A i \in DOMAIN t.symbols :
    t.symbols[i].kind \in {"Const", "Let"} <=> p[t.symbols[i].span].what \in {"const", "let"}

Shaped == Arranged /\ KindsSay(table, prog)

\* Where the grammar lets a statement stand.
Grammatical(rec) ==
  /\ rec.block = Innermost.at /\ rec.scope = ScopeAt
  /\ rec.what \in Items => InItems
  /\ Innermost.kind = "extern" => rec.what \notin Holding \union Mentions
  /\ rec.what \in Mentions => rec.name \in Names

\* What a step does to the program and to the open constructs.
ProgramStep ==
  \/ prog' = prog /\ open' = open
  \/ prog' = prog /\ open # <<>> /\ open' = SubSeq(open, 1, Len(open) - 1)
  \/ \E rec \in Statement :
       /\ prog' = Append(prog, rec) /\ Grammatical(rec)
       /\ \/ open' = open
          \/ rec.what \in Holding /\ open' = Append(open, [kind |-> rec.what, at |-> Here])

\* What it does to the symbols.
KindStep ==
  \/ table'.symbols = table.symbols
  \/ \E sym \in Symbol :
       /\ table'.symbols = Append(table.symbols, sym)
       /\ sym.span = Here /\ Here \in DOMAIN prog'
       /\ sym.kind \in {"Const", "Let"} <=> prog'[Here].what \in {"const", "let"}

\* What is met is a statement that the grammar lets stand here, if it is in
\* the right kind of construct.
LEMMA MeetGrammatical ==
  ASSUME IInv, NEW what, NEW x \in Names \union {NoName}, NEW form, Meet(what, x, form),
         what \in Items => InItems,
         Innermost.kind = "extern" => what \notin Holding \union Mentions,
         what \in Mentions => x \in Names
  PROVE  /\ Met(what, x, form) \in Statement /\ prog' = Append(prog, Met(what, x, form))
         /\ Grammatical(Met(what, x, form)) /\ Met(what, x, form).what = what
         /\ Here \in DOMAIN prog' /\ prog'[Here].what = what
<1>1. Met(what, x, form) \in Statement /\ prog' = Append(prog, Met(what, x, form))
  BY MeetFacts
<1>2. Here \in DOMAIN prog' /\ prog'[Here] = Met(what, x, form)
  <2>1. DOMAIN prog' = 1 .. Here /\ prog'[Here] = Met(what, x, form) /\ Here = Len(prog) + 1 /\ Len(prog) \in Nat
    BY <1>1, ProgGrows
  <2> QED
    BY <2>1
<1>3. Met(what, x, form).what = what /\ Met(what, x, form).name = x
      /\ Met(what, x, form).block = Innermost.at /\ Met(what, x, form).scope = ScopeAt
  BY DEF Met
<1>4. Grammatical(Met(what, x, form))
  <2> HIDE DEF Met
  <2> QED
    BY <1>3 DEF Grammatical
<1> QED
  BY <1>1, <1>2, <1>3, <1>4

LEMMA DeclareArranges ==
  ASSUME IInv, NEW what, NEW x \in Names, NEW form, Meet(what, x, form), open' = open,
         what \notin Items \union Holding \union Mentions,
         NEW kind \in SymbolKind, NEW ty \in Ty, table' = Defined(x, kind, ty),
         kind \in {"Const", "Let"} <=> what \in {"const", "let"}
  PROVE  ProgramStep /\ KindStep
<1>1. /\ Met(what, x, form) \in Statement /\ prog' = Append(prog, Met(what, x, form))
      /\ Grammatical(Met(what, x, form)) /\ Here \in DOMAIN prog' /\ prog'[Here].what = what
  BY MeetGrammatical
<1>2. ProgramStep
  BY <1>1 DEF ProgramStep
<1> DEFINE sym == Made(current_scope, x, kind, ty, Here)
<1>3. /\ \/ table'.symbols = table.symbols
         \/ table'.symbols = Append(table.symbols, sym)
      /\ sym \in Symbol
  BY DefinedSymbols
<1>4. sym.span = Here /\ sym.kind = kind
  BY DEF Made
<1> HIDE DEF sym
<1>5. KindStep
  BY <1>1, <1>3, <1>4 DEF KindStep
<1> QED
  BY <1>2, <1>5

LEMMA QuietArranges ==
  ASSUME IInv, NEW what, NEW x \in Names \union {NoName}, NEW form, Meet(what, x, form),
         what \in Items => InItems,
         Innermost.kind = "extern" => what \notin Holding \union Mentions,
         what \in Mentions => x \in Names,
         \/ open' = open
         \/ what \in Holding /\ open' = Append(open, [kind |-> what, at |-> Here])
  PROVE  ProgramStep
<1>1. /\ Met(what, x, form) \in Statement /\ prog' = Append(prog, Met(what, x, form))
      /\ Grammatical(Met(what, x, form)) /\ Met(what, x, form).what = what
  BY MeetGrammatical
<1> QED
  BY <1>1 DEF ProgramStep

LEMMA EnterItemArranges ==
  ASSUME IInv, NEW what \in {"module", "extern", "fn"}, NEW x \in Names, EnterItem(what, x)
  PROVE  ProgramStep /\ KindStep
<1> DEFINE kind == IF what = "fn" THEN "Fn" ELSE "Module"
           sym == Made(current_scope, x, kind, NoType("Void"), Here)
<1>1. Meet(what, x, "None") /\ InItems /\ Innermost.kind # "extern"
      /\ open' = Append(open, [kind |-> what, at |-> Here])
  BY DEF EnterItem, InItems
<1>2. ProgramStep
  BY <1>1, QuietArranges DEF Holding, Scoping, Mentions
<1>3. Here \in DOMAIN prog' /\ prog'[Here].what = what
  BY <1>1, MeetGrammatical DEF Mentions
<1>4. table'.symbols = Defined(x, kind, NoType("Void")).symbols
  BY DEF EnterItem, Enter, push_scope
<1>5. kind \in SymbolKind /\ NoType("Void") \in Ty
  BY TyFacts DEF SymbolKind, NoType
<1>6. /\ \/ table'.symbols = table.symbols
         \/ table'.symbols = Append(table.symbols, sym)
      /\ sym \in Symbol
  <2> HIDE DEF kind
  <2> QED
    BY <1>4, <1>5, DefinedSymbols
<1>7. sym.span = Here /\ sym.kind = kind
  BY DEF Made
<1> HIDE DEF sym
<1>8. KindStep
  BY <1>3, <1>6, <1>7 DEF KindStep
<1> QED
  BY <1>2, <1>8

LEMMA EnterForArranges ==
  ASSUME IInv, NEW x \in Names, EnterFor(x)
  PROVE  ProgramStep /\ KindStep
<1> DEFINE child == push_scope(table, current_scope, "Block")
           id == Len(child.scopes)
           sym == Made(id, x, "LoopVar", NoType("MetaUInt"), Here)
<1>1. /\ Meet("for", x, "None") /\ Innermost.kind # "extern"
      /\ open' = Append(open, [kind |-> "for", at |-> Here])
      /\ table' = define(child, id, x, "LoopVar", NoType("MetaUInt"), Here)
  BY DEF EnterFor, InStatements
<1>2. ProgramStep
  BY <1>1, QuietArranges DEF Holding, Scoping, Mentions, Items
<1>3. Here \in DOMAIN prog' /\ prog'[Here].what = "for"
  BY <1>1, MeetGrammatical DEF Mentions, Items
<1>4. child.symbols = table.symbols
  BY DEF push_scope
<1>5. table'.symbols = table.symbols \/ table'.symbols = Append(table.symbols, sym)
  <2> HIDE DEF child, id
  <2> QED
    BY <1>1, <1>4 DEF define, Made
<1>6. Here \in Nat /\ id \in Nat /\ NoType("MetaUInt") \in Ty
  <2>1. table.scopes \in Seq(Scope)
    BY DEF IInv, TypeOK, Table
  <2>2. id = Len(Append(table.scopes, NewScope(current_scope, "Block")))
    BY DEF push_scope
  <2>3. Len(Append(table.scopes, NewScope(current_scope, "Block"))) = Len(table.scopes) + 1
    BY <2>1
  <2>4. Len(table.scopes) \in Nat
    BY <2>1
  <2>5. Here \in Nat
    BY OpenFacts DEF IInv
  <2>6. NoType("MetaUInt") \in Ty
    BY TyFacts DEF NoType
  <2> HIDE DEF id
  <2> QED
    BY <2>2, <2>3, <2>4, <2>5, <2>6
<1>7. sym \in Symbol /\ sym.span = Here /\ sym.kind = "LoopVar"
  <2> HIDE DEF id
  <2> QED
    BY <1>6 DEF Made, Symbol, SymbolKind
<1> HIDE DEF sym
<1>8. KindStep
  BY <1>3, <1>5, <1>7 DEF KindStep
<1> QED
  BY <1>2, <1>8

\* A declaration with a type.
LEMMA TypedArranges ==
  ASSUME IInv, NEW what \in {"parameter", "signal", "type", "let"}, NEW x \in Names,
         NEW kind \in SymbolKind, NEW te \in OptType, NEW head,
         DeclareTyped(what, x, kind, te, "Void", head),
         kind \in {"Const", "Let"} <=> what \in {"const", "let"}
  PROVE  ProgramStep /\ KindStep
<1>1. resolve_opt(te, "Void").ty \in Ty
  BY ResolveType DEF IInv
<1>2. what \notin Items \union Holding \union Mentions
  BY DEF Items, Holding, Scoping, Mentions
<1>3. /\ Meet(what, x, te.form) /\ open' = open
      /\ table' = Defined(x, kind, resolve_opt(te, "Void").ty)
  BY DEF DeclareTyped
<1> QED
  BY <1>1, <1>2, <1>3, DeclareArranges

\* A declaration whose type is given.
LEMMA GivenArranges ==
  ASSUME IInv, NEW what \in {"nominal", "variant", "opaque"}, NEW x \in Names,
         NEW kind \in SymbolKind \ {"Const", "Let"}, NEW ty \in Ty, NEW head,
         DeclareAs(what, x, kind, ty, head)
  PROVE  ProgramStep /\ KindStep
<1>1. what \notin Items \union Holding \union Mentions
  BY DEF Items, Holding, Scoping, Mentions
<1>2. Meet(what, x, "None") /\ open' = open /\ table' = Defined(x, kind, ty)
  BY DEF DeclareAs
<1>3. kind \in SymbolKind /\ (kind \in {"Const", "Let"} <=> what \in {"const", "let"})
  OBVIOUS
<1> QED
  BY <1>1, <1>2, <1>3, DeclareArranges

LEMMA NextArranges == IInv /\ [Next]_vars => ProgramStep /\ KindStep
<1> SUFFICES ASSUME IInv, [Next]_vars PROVE ProgramStep /\ KindStep
  OBVIOUS
<1>0. table' = table => KindStep
  BY DEF KindStep
<1>1. CASE UNCHANGED vars
  BY <1>0, <1>1 DEF vars, ProgramStep
<1>2. ASSUME NEW x \in Names, Generic(x) PROVE ProgramStep /\ KindStep
  <2>1. Meet("generic", x, "None") /\ open' = open /\ table' = table
    BY <1>2 DEF Generic
  <2>2. "generic" \notin Items \union Holding \union Mentions
    BY DEF Items, Holding, Scoping, Mentions
  <2>3. x \in Names \union {NoName}
    OBVIOUS
  <2>4. ProgramStep
    BY <2>1, <2>2, <2>3, QuietArranges
  <2> QED
    BY <1>0, <2>1, <2>4
<1>3. ASSUME NEW x \in Names, Variant(x) PROVE ProgramStep /\ KindStep
  <2>1. next_id["Enum"] - 1 \in Nat
    BY <1>3 DEF Variant, VariantsCounted, Nominal, IInv, TypeOK
  <2>2. [ty |-> "Enum", n |-> next_id["Enum"] - 1] \in Ty
    BY <2>1, TyFacts
  <2>3. DeclareAs("variant", x, "EnumVariant", [ty |-> "Enum", n |-> next_id["Enum"] - 1], "variants")
    BY <1>3 DEF Variant
  <2>4. "EnumVariant" \in SymbolKind \ {"Const", "Let"}
    BY DEF SymbolKind
  <2> QED
    BY <2>2, <2>3, <2>4, GivenArranges
<1>4. ASSUME NEW x \in Names, NEW te \in OptType, Parameter(x, te)
      PROVE  ProgramStep /\ KindStep
  <2> DEFINE kind == IF Innermost.kind = "fn" THEN "GenericParam" ELSE "Port"
  <2>1. DeclareTyped("parameter", x, kind, te, "Void", "parameters")
    BY <1>4 DEF Parameter
  <2>2. kind \in SymbolKind /\ kind \notin {"Const", "Let"}
    BY DEF SymbolKind
  <2> HIDE DEF kind
  <2> QED
    BY <2>1, <2>2, TypedArranges
<1>5. ASSUME NEW x \in Names, NEW te \in OptType, Signal(x, te)
      PROVE  ProgramStep /\ KindStep
  BY <1>5, TypedArranges DEF Signal, SymbolKind
<1>6. ASSUME NEW x \in Names, NEW te \in OptType, TypeAlias(x, te)
      PROVE  ProgramStep /\ KindStep
  BY <1>6, TypedArranges DEF TypeAlias, SymbolKind
<1>7. ASSUME NEW x \in Names, NEW te \in OptType, Let(x, te)
      PROVE  ProgramStep /\ KindStep
  BY <1>7, TypedArranges DEF Let, SymbolKind
<1>8. ASSUME NEW x \in Names, NEW kind \in Nominal, DeclareNominal(x, kind)
      PROVE  ProgramStep /\ KindStep
  <2>1. [ty |-> kind, n |-> next_id[kind]] \in Ty
    BY TyFacts DEF Nominal, IInv, TypeOK
  <2>2. kind \in SymbolKind \ {"Const", "Let"}
    BY DEF Nominal, SymbolKind
  <2>3. PICK head : DeclareAs("nominal", x, kind, [ty |-> kind, n |-> next_id[kind]], head)
    BY <1>8 DEF DeclareNominal
  <2> QED
    BY <2>1, <2>2, <2>3, GivenArranges
<1>9. ASSUME NEW x \in Names, NEW kind \in Opaque, DeclareOpaque(x, kind)
      PROVE  ProgramStep /\ KindStep
  <2>1. NoType("Void") \in Ty
    BY TyFacts DEF NoType
  <2>2. kind \in SymbolKind \ {"Const", "Let"}
    BY DEF Opaque, SymbolKind
  <2>3. DeclareAs("opaque", x, kind, NoType("Void"), "none")
    BY <1>9 DEF DeclareOpaque
  <2> QED
    BY <2>1, <2>2, <2>3, GivenArranges
<1>10. ASSUME NEW x \in Names, NEW te \in OptType, NEW init \in Initialiser, Const(x, te, init)
       PROVE  ProgramStep /\ KindStep
  <2>1. resolve_opt(te, "MetaUInt").ty \in Ty
    BY ResolveType DEF IInv
  <2>2. "const" \notin Items \union Holding \union Mentions /\ "Const" \in SymbolKind
    BY DEF Items, Holding, Scoping, Mentions, SymbolKind
  <2>3. /\ Meet("const", x, te.form) /\ open' = open
        /\ table' = Defined(x, "Const", resolve_opt(te, "MetaUInt").ty)
    BY <1>10 DEF Const
  <2> QED
    BY <2>1, <2>2, <2>3, DeclareArranges
<1>11. ASSUME NEW kind \in {"body", "gen"}, EnterBody(kind) PROVE ProgramStep /\ KindStep
  <2>1. /\ Meet(kind, NoName, "None") /\ Innermost.kind # "extern" /\ (kind = "gen" => InItems)
        /\ open' = Append(open, [kind |-> kind, at |-> Here]) /\ table' = table
    BY <1>11 DEF EnterBody, InItems, InStatements
  <2>2. kind \in Holding /\ kind \notin Mentions /\ (kind \in Items => kind = "gen")
    BY DEF Items, Holding, Scoping, Mentions
  <2>3. NoName \in Names \union {NoName}
    OBVIOUS
  <2> QED
    BY <1>0, <2>1, <2>2, <2>3, QuietArranges
<1>12. ASSUME NEW what \in Mentions, NEW x \in Names, Mention(what, x)
       PROVE  ProgramStep /\ KindStep
  <2>1. Meet(what, x, "None") /\ Innermost.kind # "extern" /\ open' = open /\ table' = table
    BY <1>12 DEF Mention, InStatements
  <2>2. what \notin Items
    BY DEF Items, Mentions
  <2>3. x \in Names \union {NoName}
    OBVIOUS
  <2>4. ProgramStep
    BY <2>1, <2>2, <2>3, QuietArranges
  <2> QED
    BY <1>0, <2>1, <2>4
<1>13. CASE Leave
  BY <1>0, <1>13 DEF Leave, ProgramStep
<1>14. TypeExpr \subseteq OptType
  BY DEF OptType
<1> QED
  BY <1>1, <1>2, <1>3, <1>4, <1>5, <1>6, <1>7, <1>8, <1>9, <1>10, <1>11, <1>12, <1>13, <1>14,
     EnterItemArranges, EnterForArranges DEF Next

LEMMA ScopeUpToStep ==
  ASSUME NEW c, NEW i \in Nat \ {0}
  PROVE  ScopeUpTo(c, i) = IF c[i].kind \in Scoping THEN c[i].at ELSE ScopeUpTo(c, i - 1)
<1> DEFINE S(k) == {j \in 1 .. k : c[j].kind \in Scoping}
           T == S(i)
           m == CHOOSE j \in T : \A h \in T : h <= j
<1>1. ScopeUpTo(c, i) = IF T = {} THEN 0 ELSE c[m].at
  BY DEF ScopeUpTo
<1>2. CASE c[i].kind \in Scoping
  <2>1. i \in T /\ \A h \in T : h <= i
    BY <1>2
  <2>2. m \in T /\ \A h \in T : h <= m
    <3> HIDE DEF T
    <3> QED
      BY <2>1
  <2>3. m = i
    <3>1. m <= i /\ i <= m /\ m \in Nat
      <4> HIDE DEF m
      <4> QED
        BY <2>1, <2>2
    <3> HIDE DEF m
    <3> QED
      BY <3>1
  <2> HIDE DEF m, T
  <2> QED
    BY <1>1, <1>2, <2>1, <2>3
<1>3. CASE c[i].kind \notin Scoping
  <2>1. S(i) = S(i - 1)
    BY <1>3
  <2>2. \A k : ScopeUpTo(c, k) = IF S(k) = {} THEN 0
                                 ELSE c[CHOOSE j \in S(k) : \A h \in S(k) : h <= j].at
    BY DEF ScopeUpTo
  <2>3. ScopeUpTo(c, i) = ScopeUpTo(c, i - 1)
    <3> HIDE DEF S
    <3> QED
      BY <2>1, <2>2
  <2> QED
    BY <1>3, <2>3
<1> QED
  BY <1>2, <1>3

LEMMA ScopeUpToSame ==
  ASSUME NEW c, NEW d, NEW i \in Nat, \A j \in 1 .. i : d[j] = c[j]
  PROVE  ScopeUpTo(d, i) = ScopeUpTo(c, i)
<1> DEFINE Same(k) == (\A j \in 1 .. k : d[j] = c[j]) => ScopeUpTo(d, k) = ScopeUpTo(c, k)
           T == {k \in Nat : Same(k)}
<1>1. ASSUME NEW k \in Nat, \A m \in 0 .. k - 1 : m \in T PROVE k \in T
  <2>1. SUFFICES ASSUME \A j \in 1 .. k : d[j] = c[j]
                 PROVE  ScopeUpTo(d, k) = ScopeUpTo(c, k)
    OBVIOUS
  <2>2. CASE k = 0
    <3>1. \A x : ScopeUpTo(x, 0) = 0
      BY DEF ScopeUpTo
    <3> QED
      BY <2>2, <3>1
  <2>3. CASE k # 0
    <3>1. k - 1 \in 0 .. k - 1 /\ k \in 1 .. k /\ k \in Nat \ {0} /\ \A j \in 1 .. k - 1 : j \in 1 .. k
      BY <2>3
    <3>2. ScopeUpTo(d, k - 1) = ScopeUpTo(c, k - 1)
      BY <1>1, <2>1, <3>1
    <3> QED
      BY <2>1, <3>1, <3>2, ScopeUpToStep
  <2> QED
    BY <2>2, <2>3
<1>2. T = Nat
  <2> HIDE DEF T
  <2>1. T \subseteq Nat
    BY DEF T
  <2> QED
    BY <1>1, <2>1, Below
<1> QED
  BY <1>2

\* The program grows by a statement that the grammar lets stand here.
LEMMA ArrangedGrows ==
  ASSUME IInv, Arranged, NEW rec \in Statement, Grammatical(rec),
         NEW q, q = Append(prog, rec)
  PROVE  /\ Treelike(q) /\ Laminar(q) /\ Placed(q) /\ Opened(q, open)
         /\ rec.what \in Holding =>
              Opened(q, Append(open, [kind |-> rec.what, at |-> Here]))
<1> DEFINE l == Len(open)
           b == Innermost.at
<1>1. /\ prog \in Seq(Statement) /\ Len(prog) \in Nat /\ DOMAIN prog = 1 .. Len(prog)
      /\ Here = Len(prog) + 1 /\ Here \in Nat
      /\ l \in Nat /\ DOMAIN open = 1 .. l /\ open \in Seq(Construct)
  BY OpenFacts DEF IInv, Construct
<1>2. /\ DOMAIN q = 1 .. Here /\ Len(q) = Here /\ q[Here] = rec
      /\ \A k \in DOMAIN prog : q[k] = prog[k] /\ k \in DOMAIN q /\ k < Here
  BY <1>1, Appended
<1>3. \A k \in DOMAIN q : k \in DOMAIN prog \/ k = Here
  BY <1>1, <1>2
<1>4. Treelike(prog) /\ Laminar(prog) /\ Placed(prog) /\ Opened(prog, open)
  BY DEF Arranged
<1>5. \A i \in DOMAIN open : /\ open[i].at \in DOMAIN prog /\ prog[open[i].at].what = open[i].kind
                             /\ open[i].kind \in Holding
  <2>1. \A i \in DOMAIN open : open[i] \in Construct
    BY <1>1
  <2> QED
    BY <2>1 DEF IInv, Nested, Construct, Holding
<1>6. open # <<>> => l \in DOMAIN open /\ l # 0 /\ b = open[l].at /\ Innermost.kind = open[l].kind
                     /\ b \in DOMAIN prog /\ b # 0
  BY <1>1, <1>5, EmptySeq DEF Innermost
<1>7. open = <<>> => b = 0 /\ l = 0
  BY EmptySeq DEF Innermost
<1>8. rec.block = b /\ rec.scope = ScopeAt
  BY DEF Grammatical
<1> HIDE DEF b
<1>9. Treelike(q)
  <2>1. \A k \in DOMAIN prog : prog[k].block \in 0 .. k - 1
    BY <1>4 DEF Treelike
  <2>2. b \in 0 .. Here - 1
    BY <1>1, <1>6, <1>7
  <2>3. \A k \in DOMAIN q : q[k].block \in 0 .. k - 1
    BY <1>2, <1>3, <1>8, <2>1, <2>2
  <2> QED
    BY <1>1, <1>2, <2>3 DEF Treelike
<1>10. \A k \in DOMAIN prog : Outside(q, k) = Outside(prog, k)
  BY <1>2, <1>4, <1>9, OutsideSame
<1>11. ASSUME NEW i \in DOMAIN open, NEW k \in DOMAIN q, open[i].at < k
       PROVE  open[i].at \in Outside(q, k)
  <2>1. CASE k \in DOMAIN prog
    BY <1>4, <1>10, <1>11, <2>1 DEF Opened
  <2>2. CASE k = Here
    <3>1. open # <<>>
      BY <1>1, EmptySeq
    <3>2. Outside(q, k) = {b} \union Outside(prog, b)
      <4>1. k \in DOMAIN q /\ q[k].block = b /\ b # 0 /\ b \in DOMAIN prog
        BY <1>2, <1>6, <1>8, <2>2, <3>1
      <4>2. Outside(q, k) = {b} \union Outside(q, b)
        BY <1>9, <4>1, OutsideStep
      <4> QED
        BY <1>10, <4>1, <4>2
    <3>3. CASE i = l
      BY <1>6, <3>1, <3>2, <3>3
    <3>4. CASE i # l
      <4>1. i < l
        BY <1>1, <3>4
      <4>2. open[i].at < b
        BY <1>6, <3>1, <4>1 DEF IInv, Nested
      <4> QED
        BY <1>4, <1>6, <3>1, <3>2, <4>2 DEF Opened
    <3> QED
      BY <3>3, <3>4
  <2> QED
    BY <1>3, <2>1, <2>2
<1>12. Laminar(q)
  <2>1. SUFFICES ASSUME NEW k \in DOMAIN q, NEW i \in DOMAIN q,
                        q[k].block # 0, q[k].block < i, i < k
                 PROVE  q[k].block \in Outside(q, i)
    BY DEF Laminar
  <2>2. i \in DOMAIN prog
    BY <1>1, <1>2, <2>1
  <2>3. CASE k = Here
    <3>1. q[k].block = b /\ open # <<>>
      BY <1>2, <1>7, <1>8, <2>1, <2>3
    <3> QED
      BY <1>6, <1>11, <2>1, <3>1
  <2>4. CASE k \in DOMAIN prog
    BY <1>2, <1>4, <1>10, <2>1, <2>2, <2>4 DEF Laminar
  <2> QED
    BY <1>3, <2>3, <2>4
<1>13. ScopeAt = ScopeUpTo(open, l)
  BY <1>1 DEF ScopeAt, ScopeUpTo
<1>14. Placed(q)
  <2>1. ASSUME NEW k \in DOMAIN prog PROVE PlacedAt(q, k)
    <3>1. PlacedAt(prog, k) /\ q[k] = prog[k]
      BY <1>2, <1>4 DEF Placed
    <3>2. prog[k].block = 0 \/ prog[k].block \in DOMAIN prog
      BY <1>1, <1>4 DEF Treelike
    <3>3. prog[k].block # 0 => q[prog[k].block] = prog[prog[k].block]
      BY <1>2, <3>2
    <3> QED
      BY <3>1, <3>3 DEF PlacedAt, ScopeIn
  <2>2. PlacedAt(q, Here)
    <3>1. q[Here].block = b /\ q[Here].scope = ScopeAt /\ q[Here] = rec
      BY <1>2, <1>8
    <3>2. CASE open = <<>>
      <4>1. ScopeAt = 0
        BY <3>2 DEF ScopeAt
      <4> QED
        BY <1>7, <3>1, <3>2, <4>1 DEF PlacedAt, ScopeIn, Grammatical
    <3>3. CASE open # <<>>
      <4>1. q[b] = prog[b] /\ prog[b].what = Innermost.kind /\ Innermost.kind \in Holding /\ b # 0
        BY <1>2, <1>5, <1>6, <3>3
      <4>2. ScopeAt = IF open[l].kind \in Scoping THEN b ELSE ScopeUpTo(open, l - 1)
        BY <1>1, <1>6, <1>13, <3>3, ScopeUpToStep
      <4>3. prog[b].scope = ScopeUpTo(open, l - 1)
        BY <1>4, <1>6, <3>3 DEF Opened
      <4>4. ScopeAt = ScopeIn(q, b)
        BY <1>6, <3>3, <4>1, <4>2, <4>3 DEF ScopeIn
      <4>5. rec.what \in Items => q[b].what \in {"module", "gen"}
        <5>1. "file" \notin Holding
          BY DEF Holding, Scoping
        <5> QED
          BY <4>1, <5>1 DEF Grammatical, InItems
      <4> QED
        BY <3>1, <4>1, <4>4, <4>5 DEF PlacedAt, Grammatical
    <3> QED
      BY <3>2, <3>3
  <2> QED
    BY <1>3, <2>1, <2>2 DEF Placed
<1>15. Opened(q, open)
  BY <1>2, <1>4, <1>5, <1>11 DEF Opened
<1>16. ASSUME rec.what \in Holding
       PROVE  Opened(q, Append(open, [kind |-> rec.what, at |-> Here]))
  <2> DEFINE con == [kind |-> rec.what, at |-> Here]
             opn == Append(open, con)
  <2>1. con \in Construct /\ con.at = Here
    BY <1>1, <1>16 DEF Construct, Holding
  <2> HIDE DEF con
  <2>2. /\ DOMAIN opn = 1 .. l + 1 /\ opn[l + 1] = con
        /\ \A i \in DOMAIN open : opn[i] = open[i]
    BY <1>1, <2>1, Appended
  <2> HIDE DEF opn
  <2>3. ASSUME NEW i \in 1 .. l + 1
        PROVE  /\ q[opn[i].at].scope = ScopeUpTo(opn, i - 1)
               /\ \A k \in DOMAIN q : opn[i].at < k => opn[i].at \in Outside(q, k)
    <3>1. i - 1 \in Nat /\ \A j \in 1 .. i - 1 : j \in DOMAIN open
      BY <1>1
    <3>2. ScopeUpTo(opn, i - 1) = ScopeUpTo(open, i - 1)
      BY <2>2, <3>1, ScopeUpToSame
    <3>3. CASE i = l + 1
      <4>1. opn[i].at = Here /\ \A k \in DOMAIN q : ~ (Here < k)
        BY <1>2, <1>1, <2>1, <2>2, <3>3
      <4>2. ScopeUpTo(opn, i - 1) = ScopeAt
        BY <1>1, <1>13, <3>2, <3>3
      <4> QED
        BY <1>2, <1>8, <4>1, <4>2
    <3>4. CASE i # l + 1
      <4>1. i \in DOMAIN open
        BY <1>1, <3>4
      <4> QED
        BY <1>15, <2>2, <3>2, <4>1 DEF Opened
    <3> QED
      BY <3>3, <3>4
  <2>4. Opened(q, opn)
    BY <2>2, <2>3 DEF Opened
  <2> QED
    BY <2>4 DEF opn, con
<1> QED
  BY <1>9, <1>12, <1>14, <1>15, <1>16

\* The innermost construct is left.
LEMMA ArrangedLeaves ==
  ASSUME IInv, Arranged, open # <<>>
  PROVE  Opened(prog, SubSeq(open, 1, Len(open) - 1))
<1> DEFINE opn == SubSeq(open, 1, Len(open) - 1)
<1>1. open \in Seq(Construct)
  BY OpenFacts DEF IInv, Construct
<1>2. /\ DOMAIN opn = 1 .. Len(open) - 1 /\ DOMAIN open = 1 .. Len(open) /\ Len(open) \in Nat \ {0}
      /\ \A i \in DOMAIN opn : opn[i] = open[i]
  BY <1>1, Shortened
<1> HIDE DEF opn
<1>3. ASSUME NEW i \in DOMAIN opn
      PROVE  /\ prog[opn[i].at].scope = ScopeUpTo(opn, i - 1)
             /\ \A k \in DOMAIN prog : opn[i].at < k => opn[i].at \in Outside(prog, k)
  <2>1. i - 1 \in Nat /\ (\A j \in 1 .. i - 1 : j \in DOMAIN opn) /\ i \in DOMAIN open
    BY <1>2
  <2>2. ScopeUpTo(opn, i - 1) = ScopeUpTo(open, i - 1)
    BY <1>2, <2>1, ScopeUpToSame
  <2> QED
    BY <1>2, <2>1, <2>2 DEF Arranged, Opened
<1>4. Opened(prog, opn)
  BY <1>3 DEF Opened
<1> QED
  BY <1>4 DEF opn

LEMMA KindsKept ==
  ASSUME IInv, KindsSay(table, prog), ProgramStep, KindStep
  PROVE  KindsSay(table', prog')
<1>1. /\ DOMAIN table.symbols = 1 .. Len(table.symbols) /\ Len(table.symbols) \in Nat
      /\ table.symbols \in Seq(Symbol)
  BY TableFacts DEF IInv, TypeOK, Table
<1>2. \A i \in DOMAIN table.symbols : table.symbols[i].span \in DOMAIN prog
  BY DEF IInv, Linked, LinkedIn, Links
<1>3. \A k \in DOMAIN prog : prog'[k] = prog[k]
  <2>1. CASE prog' = prog
    BY <2>1
  <2>2. CASE \E rec \in Statement : prog' = Append(prog, rec)
    BY <2>2, ProgGrows
  <2> QED
    BY <2>1, <2>2 DEF ProgramStep
<1>4. \A i \in DOMAIN table.symbols :
        table.symbols[i].kind \in {"Const", "Let"} <=> prog'[table.symbols[i].span].what \in {"const", "let"}
  BY <1>2, <1>3 DEF KindsSay
<1>5. CASE table'.symbols = table.symbols
  BY <1>4, <1>5 DEF KindsSay
<1>6. ASSUME NEW sym \in Symbol, table'.symbols = Append(table.symbols, sym), sym.span = Here,
             sym.kind \in {"Const", "Let"} <=> prog'[Here].what \in {"const", "let"}
      PROVE  KindsSay(table', prog')
  <2>1. /\ DOMAIN table'.symbols = 1 .. Len(table.symbols) + 1
        /\ table'.symbols[Len(table.symbols) + 1] = sym
        /\ \A i \in DOMAIN table.symbols : table'.symbols[i] = table.symbols[i]
    BY <1>1, <1>6, Appended
  <2>2. \A i \in DOMAIN table'.symbols : i \in DOMAIN table.symbols \/ i = Len(table.symbols) + 1
    BY <1>1, <2>1
  <2> QED
    BY <1>4, <1>6, <2>1, <2>2 DEF KindsSay
<1> QED
  BY <1>5, <1>6 DEF KindStep

LEMMA ShapedKept == IInv /\ Shaped /\ [Next]_vars => Shaped'
<1> SUFFICES ASSUME IInv, Shaped, [Next]_vars PROVE Shaped'
  OBVIOUS
<1>1. ProgramStep /\ KindStep
  BY NextArranges
<1>2. KindsSay(table, prog)'
  BY <1>1, KindsKept DEF Shaped
<1>3. CASE prog' = prog /\ open' = open
  BY <1>2, <1>3 DEF Shaped, Arranged
<1>4. CASE prog' = prog /\ open # <<>> /\ open' = SubSeq(open, 1, Len(open) - 1)
  BY <1>2, <1>4, ArrangedLeaves DEF Shaped, Arranged
<1>5. ASSUME NEW rec \in Statement, prog' = Append(prog, rec), Grammatical(rec),
             \/ open' = open
             \/ rec.what \in Holding /\ open' = Append(open, [kind |-> rec.what, at |-> Here])
      PROVE  Shaped'
  <2>1. /\ Treelike(prog') /\ Laminar(prog') /\ Placed(prog') /\ Opened(prog', open)
        /\ rec.what \in Holding => Opened(prog', Append(open, [kind |-> rec.what, at |-> Here]))
    BY <1>5, ArrangedGrows DEF Shaped
  <2>2. Opened(prog', open')
    BY <1>5, <2>1
  <2> QED
    BY <1>2, <2>1, <2>2 DEF Shaped, Arranged
<1> QED
  BY <1>1, <1>3, <1>4, <1>5 DEF ProgramStep

LEMMA InitShaped == Init => Shaped
<1> SUFFICES ASSUME Init PROVE Shaped
  OBVIOUS
<1>1. prog = <<>> /\ open = <<>> /\ table.symbols = <<>>
  BY DEF Init, EmptyTable
<1>2. Treelike(prog) /\ Laminar(prog) /\ Placed(prog) /\ Opened(prog, open) /\ KindsSay(table, prog)
  BY <1>1 DEF Treelike, Laminar, Placed, Opened, KindsSay
<1> QED
  BY <1>2 DEF Shaped, Arranged

-----------------------------------------------------------------------------
(* What a walk meets, and where it stands. *)

\* A set of numbers with a bound that is not empty has a greatest one.
LEMMA Greatest ==
  ASSUME NEW n \in Nat, NEW T \in SUBSET (0 .. n), T # {}
  PROVE  \E x \in T : \A y \in T : y <= x
<1> DEFINE U == {n - y : y \in T}
<1>1. U \in SUBSET Nat /\ U # {}
  <2>1. \A y \in T : y \in 0 .. n
    OBVIOUS
  <2>2. \A y \in T : n - y \in Nat
    BY <2>1
  <2>3. PICK y : y \in T
    OBVIOUS
  <2>4. n - y \in U
    BY <2>3
  <2> QED
    BY <2>2, <2>4
<1>2. PICK u \in U : \A v \in U : u <= v
  <2> HIDE DEF U
  <2> QED
    BY <1>1, Least
<1>3. PICK x \in T : u = n - x
  BY <1>2
<1>4. \A y \in T : n - x <= n - y
  BY <1>2, <1>3
<1>5. \A y \in T : y <= x
  BY <1>3, <1>4
<1> QED
  BY <1>5

LEMMA ProgFacts ==
  ASSUME IInv, Arranged
  PROVE  /\ Treelike(prog) /\ Laminar(prog) /\ Placed(prog)
         /\ Len(prog) \in Nat /\ DOMAIN prog = 1 .. Len(prog)
         /\ \A k \in DOMAIN prog : prog[k].block # 0 => prog[k].block \in DOMAIN prog
         /\ \A k \in DOMAIN prog : \A j \in Outside(prog, k) : j \in DOMAIN prog /\ j < k
<1>1. Treelike(prog) /\ Laminar(prog) /\ Placed(prog)
  BY DEF Arranged
<1> QED
  BY <1>1, OutsideStep DEF Treelike

\* The statement at k is in the module m, with only bodies and `for`s between.
Home(k, m) ==
  /\ m \in Outside(prog, k) /\ WalkedModule(m)
  /\ \A j \in Outside(prog, k) \ ({m} \union Outside(prog, m)) : prog[j].what \in {"for", "body"}

LEMMA WalkedMeans ==
  \A k : WalkedStatement(k) <=> (prog[k].what \in Mentions /\ \E m : Home(k, m))
<1> QED
  BY EnclosingMeans DEF WalkedStatement, Home

\* That module is the one whose scope the walk knows.
LEMMA HomeIsAround ==
  ASSUME IInv, Arranged, NEW k \in DOMAIN prog, NEW m, Home(k, m)
  PROVE  ModuleAround(k) = m /\ m \in DOMAIN prog /\ m < k /\ m # 0
<1> DEFINE modules == {j \in Outside(prog, k) : prog[j].what = "module"}
           c == CHOOSE i \in modules : \A j \in modules : j <= i
<1>1. m \in modules /\ m \in DOMAIN prog /\ m < k /\ m \in Nat \ {0}
  BY ProgFacts DEF Home, WalkedModule
<1>2. \A j \in modules : j <= m /\ j \in Nat
  <2>1. SUFFICES ASSUME NEW j \in modules PROVE j <= m /\ j \in Nat
    OBVIOUS
  <2>2. j \in DOMAIN prog /\ j \in Nat
    BY ProgFacts
  <2>3. j = m \/ j \in Outside(prog, m)
    BY DEF Home
  <2> QED
    BY <1>1, <2>2, <2>3, ProgFacts
<1>3. ModuleAround(k) = IF modules = {} THEN 0 ELSE c
  <2> DEFINE mods == {j \in Enclosing(k) : prog[j].what = "module"}
  <2>1. mods = modules
    BY EnclosingMeans
  <2>2. ModuleAround(k) = IF mods = {} THEN 0 ELSE CHOOSE i \in mods : \A j \in mods : j <= i
    BY DEF ModuleAround
  <2> HIDE DEF mods, modules
  <2> QED
    BY <2>1, <2>2
<1>4. c \in modules /\ \A j \in modules : j <= c
  <2> HIDE DEF modules
  <2> QED
    BY <1>1, <1>2
<1>5. c = m
  <2> HIDE DEF modules, c
  <2>1. c <= m /\ m <= c /\ c \in Nat
    BY <1>1, <1>2, <1>4
  <2> QED
    BY <1>1, <2>1
<1> QED
  BY <1>1, <1>3, <1>5

\* The scopes around the statement are those around the module, and those of
\* the `for`s between.
Enclosed(k, m) ==
  /\ Around(m) \subseteq Around(prog[k].scope)
  /\ \A c \in Around(prog[k].scope) \ Around(m) : c \in DOMAIN prog /\ m < c /\ prog[c].what = "for"

LEMMA ScopesBetween ==
  ASSUME IInv, Arranged, NEW k \in DOMAIN prog, NEW m, Home(k, m)
  PROVE  Enclosed(k, m)
<1> DEFINE T == {i \in DOMAIN prog : Home(i, m) => Enclosed(i, m)}
<1>1. ASSUME NEW i \in DOMAIN prog, prog[i].block = 0 \/ prog[i].block \in T, Home(i, m)
      PROVE  Enclosed(i, m)
  <2> DEFINE b == prog[i].block
  <2>1. /\ b # 0 /\ b \in DOMAIN prog /\ b < i
        /\ Outside(prog, i) = {b} \union Outside(prog, b)
    BY <1>1, ProgFacts, OutsideStep DEF Home
  <2>2. PlacedAt(prog, i) /\ m \in DOMAIN prog /\ prog[m].what = "module"
    BY <1>1, ProgFacts DEF Placed, Home, WalkedModule
  <2>3. CASE b = m
    <3>1. prog[i].scope = m
      BY <2>1, <2>2, <2>3 DEF PlacedAt, ScopeIn, Scoping
    <3> QED
      BY <3>1 DEF Enclosed
  <2>4. CASE b # m
    <3>1. m \in Outside(prog, b)
      BY <1>1, <2>1, <2>4 DEF Home
    <3>2. m < b /\ m \in Nat /\ b \in Nat /\ b \notin Outside(prog, m)
      BY <2>1, <2>2, <3>1, ProgFacts
    <3>3. Home(b, m) /\ prog[b].what \in {"for", "body"}
      BY <1>1, <2>1, <2>4, <3>1, <3>2 DEF Home
    <3>4. Enclosed(b, m)
      BY <1>1, <2>1, <3>3
    <3>5. CASE prog[b].what = "for"
      <4>1. prog[i].scope = b
        BY <2>1, <2>2, <3>5 DEF PlacedAt, ScopeIn, Scoping
      <4>2. Around(b) = {b} \union Around(prog[b].scope)
        BY <2>1, AroundStep
      <4> QED
        BY <2>1, <3>2, <3>4, <3>5, <4>1, <4>2 DEF Enclosed
    <3>6. CASE prog[b].what = "body"
      <4>1. prog[i].scope = prog[b].scope
        BY <2>1, <2>2, <3>6 DEF PlacedAt, ScopeIn, Scoping
      <4> QED
        BY <3>4, <4>1 DEF Enclosed
    <3> QED
      BY <3>3, <3>5, <3>6
  <2> QED
    BY <2>3, <2>4
<1>2. T \subseteq DOMAIN prog
  OBVIOUS
<1>3. \A i \in DOMAIN prog : prog[i].block = 0 \/ prog[i].block \in T => i \in T
  <2> SUFFICES ASSUME NEW i \in DOMAIN prog, prog[i].block = 0 \/ prog[i].block \in T, Home(i, m)
               PROVE  Enclosed(i, m)
    OBVIOUS
  <2> HIDE DEF T
  <2> QED
    BY <1>1
<1>4. T = DOMAIN prog
  <2> HIDE DEF T
  <2> QED
    BY <1>2, <1>3, ProgFacts, Inward
<1> QED
  BY <1>4

\* The declaration that is meant is in the innermost scope of those seen.
LEMMA NearestFacts ==
  ASSUME NEW D, D # {}, NEW n \in Nat,
         \A k \in D : k \in Nat \ {0} /\ BlockOf(k) \in 0 .. n
  PROVE  Nearest(D) \in D /\ \A j \in D : BlockOf(j) <= BlockOf(Nearest(D))
<1> DEFINE T == {BlockOf(k) : k \in D}
           inner == {k \in D : \A j \in D : BlockOf(j) <= BlockOf(k)}
<1>1. PICK t \in T : \A s \in T : s <= t
  <2>1. T \in SUBSET (0 .. n) /\ T # {}
    OBVIOUS
  <2> HIDE DEF T
  <2> QED
    BY <2>1, Greatest
<1>2. PICK k \in D : t = BlockOf(k)
  BY <1>1
<1>3. k \in inner
  BY <1>1, <1>2
<1>4. inner \in SUBSET Nat /\ inner # {}
  BY <1>3
<1>5. \E f \in inner : \A j \in inner : f <= j
  <2> HIDE DEF inner
  <2> QED
    BY <1>4, Least
<1>6. Nearest(D) = CHOOSE f \in inner : \A j \in inner : f <= j
  BY DEF Nearest
<1>7. Nearest(D) \in inner
  <2> HIDE DEF inner
  <2> QED
    BY <1>5, <1>6
<1> QED
  BY <1>7

\* A name means what it means in the module, or is one of a `for` around it.
LEMMA MeansInModule ==
  ASSUME IInv, Arranged, NEW k \in DOMAIN prog, NEW m, Home(k, m)
  PROVE  OfLoop(k) \/ Means(k) = Visible(m, prog[k].name)
<1> DEFINE x == prog[k].name
           b == prog[k].scope
           D == Seen(b, x)
           E == Seen(m, x)
<1>1. Enclosed(k, m)
  BY ScopesBetween
<1>2. Means(k) = Nearest(D) /\ Visible(m, x) = Nearest(E)
  BY VisibleMeans DEF Means
<1>3. E \subseteq D
  BY <1>1 DEF Enclosed, Seen
<1>4. CASE D = E
  BY <1>2, <1>4
<1>5. CASE D # E
  <2>1. PICK d \in D : d \notin E
    BY <1>3, <1>5
  <2>2. BlockOf(d) \in Around(b) \ Around(m) /\ m < BlockOf(d) /\ BlockOf(d) \in DOMAIN prog
    BY <1>1, <2>1 DEF Enclosed, Seen
  <2>3. /\ Len(prog) \in Nat /\ DOMAIN prog = 1 .. Len(prog) /\ m \in DOMAIN prog
        /\ b \in 0 .. Len(prog)
    <3>1. b < k /\ b \in Nat
      <4>1. prog[k] \in Statement
        BY OpenFacts DEF IInv
      <4> QED
        BY <4>1 DEF IInv, Nested, Statement
    <3> QED
      BY <3>1, ProgFacts, HomeIsAround
  <2>4. \A i \in D : i \in Nat \ {0} /\ BlockOf(i) \in 0 .. Len(prog)
    <3>1. \A c \in Around(b) : c \in 0 .. b
      BY <2>3, AroundBounds
    <3>2. \A i \in D : i \in DOMAIN prog /\ BlockOf(i) \in Around(b)
      BY DEF Seen
    <3> QED
      BY <2>3, <3>1, <3>2
  <2> DEFINE n == Nearest(D)
  <2>5. n \in D /\ BlockOf(d) <= BlockOf(n)
    <3> HIDE DEF D
    <3> QED
      BY <2>1, <2>3, <2>4, NearestFacts
  <2>6. BlockOf(n) \in Around(b) /\ n # 0 /\ BlockOf(n) \in Nat
    BY <2>4, <2>5 DEF Seen
  <2> HIDE DEF n
  <2>7. m < BlockOf(n)
    <3>1. m \in Nat /\ BlockOf(d) \in Nat
      BY <2>2, <2>3
    <3> QED
      BY <2>2, <2>5, <2>6, <3>1
  <2>8. BlockOf(n) \notin Around(m)
    <3>1. \A c \in Around(m) : c \in 0 .. m
      BY <2>3, AroundBounds
    <3> QED
      BY <2>3, <2>7, <3>1
  <2>9. BlockOf(n) # 0 /\ prog[BlockOf(n)].what = "for"
    BY <1>1, <2>3, <2>6, <2>8 DEF Enclosed
  <2>10. Means(k) = n
    BY <1>2 DEF n
  <2> QED
    BY <2>6, <2>9, <2>10 DEF OfLoop
<1> QED
  BY <1>4, <1>5

\* Modules and gen items stand in modules and gen items.
LEMMA ItemsAround ==
  ASSUME IInv, Arranged, NEW k \in DOMAIN prog, prog[k].what \in {"module", "gen"}
  PROVE  \A j \in Outside(prog, k) : prog[j].what \in {"module", "gen"}
<1> DEFINE T == {i \in DOMAIN prog : prog[i].what \in {"module", "gen"} =>
                                       \A j \in Outside(prog, i) : prog[j].what \in {"module", "gen"}}
<1>1. ASSUME NEW i \in DOMAIN prog, prog[i].block = 0 \/ prog[i].block \in T PROVE i \in T
  <2>1. CASE prog[i].block = 0
    BY <2>1, ProgFacts, OutsideStep
  <2>2. CASE prog[i].block # 0
    <3>1. Outside(prog, i) = {prog[i].block} \union Outside(prog, prog[i].block)
      BY <2>2, ProgFacts, OutsideStep
    <3>2. prog[i].what \in {"module", "gen"} => prog[prog[i].block].what \in {"module", "gen"}
      BY <2>2, ProgFacts DEF Placed, PlacedAt, Items
    <3> QED
      BY <1>1, <2>2, <3>1, <3>2
  <2> QED
    BY <2>1, <2>2
<1>2. T \subseteq DOMAIN prog
  OBVIOUS
<1>3. T = DOMAIN prog
  <2> HIDE DEF T
  <2> QED
    BY <1>1, <1>2, ProgFacts, Inward
<1> QED
  BY <1>3

\* Nothing that holds statements stands in an extern module, nor a statement.
LEMMA HoldingAround ==
  ASSUME IInv, Arranged, NEW k \in DOMAIN prog
  PROVE  \A j \in Outside(prog, k) :
           /\ prog[j].what \in Holding
           /\ prog[k].what \in Holding \union Mentions => prog[j].what # "extern"
<1> DEFINE T == {i \in DOMAIN prog : \A j \in Outside(prog, i) :
                   /\ prog[j].what \in Holding
                   /\ prog[i].what \in Holding \union Mentions => prog[j].what # "extern"}
<1>1. ASSUME NEW i \in DOMAIN prog, prog[i].block = 0 \/ prog[i].block \in T PROVE i \in T
  <2>1. CASE prog[i].block = 0
    BY <2>1, ProgFacts, OutsideStep
  <2>2. CASE prog[i].block # 0
    <3>1. Outside(prog, i) = {prog[i].block} \union Outside(prog, prog[i].block)
      BY <2>2, ProgFacts, OutsideStep
    <3>2. /\ prog[prog[i].block].what \in Holding
          /\ prog[i].what \in Holding \union Mentions => prog[prog[i].block].what # "extern"
      BY <2>2, ProgFacts DEF Placed, PlacedAt
    <3> QED
      BY <1>1, <2>2, <3>1, <3>2
  <2> QED
    BY <2>1, <2>2
<1>2. T \subseteq DOMAIN prog
  OBVIOUS
<1>3. T = DOMAIN prog
  <2> HIDE DEF T
  <2> QED
    BY <1>1, <1>2, ProgFacts, Inward
<1> QED
  BY <1>3

\* A statement in a module is walked, unless a gen item or function is around it.
LEMMA AllWalked ==
  ASSUME IInv, Arranged, NEW k \in DOMAIN prog, prog[k].what \in Mentions,
         \A j \in Outside(prog, k) : prog[j].what \notin {"fn", "gen"},
         ModuleAround(k) # 0
  PROVE  WalkedStatement(k)
<1> DEFINE modules == {j \in Outside(prog, k) : prog[j].what = "module"}
<1>1. modules # {}
  BY EnclosingMeans DEF ModuleAround
<1>2. modules \in SUBSET (0 .. Len(prog)) /\ Len(prog) \in Nat
  BY ProgFacts
<1>3. PICK m \in modules : \A j \in modules : j <= m
  <2> HIDE DEF modules
  <2> QED
    BY <1>1, <1>2, Greatest
<1>4. m \in Outside(prog, k) /\ m \in DOMAIN prog /\ prog[m].what = "module" /\ m < k
  BY ProgFacts
<1>5. WalkedModule(m)
  <2>1. \A j \in Outside(prog, m) : prog[j].what \in {"module", "gen"} /\ j \in Outside(prog, k)
    BY <1>4, ItemsAround, ProgFacts, OutsideTransitive
  <2>2. \A j \in Outside(prog, m) : prog[j].what = "module"
    BY <2>1
  <2> QED
    BY <1>4, <2>2, EnclosingMeans DEF WalkedModule
<1>6. ASSUME NEW j \in Outside(prog, k) \ ({m} \union Outside(prog, m))
      PROVE  prog[j].what \in {"for", "body"}
  <2>1. j \in DOMAIN prog /\ j < k /\ j \in Nat /\ m \in Nat /\ k \in Nat
    BY <1>4, ProgFacts
  <2>2. ~ (j < m)
    <3>1. j < m => j \in Outside(prog, m)
      BY <1>4, ProgFacts, Between
    <3> QED
      BY <3>1
  <2>3. prog[j].what # "module"
    <3>1. j \in modules => j <= m
      BY <1>3
    <3> QED
      BY <2>1, <2>2, <3>1
  <2>4. prog[j].what \in Holding /\ prog[j].what # "extern"
    BY HoldingAround
  <2> QED
    BY <2>3, <2>4 DEF Holding, Scoping
<1>7. Home(k, m)
  BY <1>4, <1>5, <1>6 DEF Home
<1> QED
  BY <1>7, WalkedMeans

\* Where a walk stops.
Stop(k) == WalkedModule(k) \/ WalkedStatement(k)

LEMMA ComesFacts ==
  ASSUME IInv, Arranged, NEW k \in 1 .. Len(prog) + 1
  PROVE  /\ Comes(k) \in 1 .. Len(prog) + 1 /\ k <= Comes(k)
         /\ Comes(k) \in DOMAIN prog => Stop(Comes(k))
         /\ \A j \in DOMAIN prog : k <= j /\ j < Comes(k) => ~Stop(j)
<1> DEFINE visited == {j \in k .. Len(prog) : Stop(j)}
<1>1. Len(prog) \in Nat /\ DOMAIN prog = 1 .. Len(prog)
  BY ProgFacts
<1>2. Comes(k) = IF visited = {} THEN Len(prog) + 1
                 ELSE CHOOSE j \in visited : \A i \in visited : j <= i
  BY DEF Comes, Stop
<1>3. CASE visited = {}
  BY <1>1, <1>2, <1>3
<1>4. CASE visited # {}
  <2>1. visited \in SUBSET Nat
    BY <1>1
  <2>2. \E j \in visited : \A i \in visited : j <= i
    <3> HIDE DEF visited
    <3> QED
      BY <1>4, <2>1, Least
  <2>3. Comes(k) \in visited /\ \A i \in visited : Comes(k) <= i
    <3> HIDE DEF visited
    <3> QED
      BY <1>2, <1>4, <2>2
  <2>4. Comes(k) \in 1 .. Len(prog) /\ k <= Comes(k) /\ Stop(Comes(k))
    BY <1>1, <2>3
  <2>5. ASSUME NEW j \in DOMAIN prog, k <= j, j < Comes(k) PROVE ~Stop(j)
    <3>1. j \in k .. Len(prog)
      BY <1>1, <2>5
    <3>2. j \notin visited
      <4> HIDE DEF visited
      <4> QED
        BY <1>1, <2>3, <2>4, <2>5
    <3> QED
      BY <3>1, <3>2
  <2> QED
    BY <1>1, <2>4, <2>5
<1> QED
  BY <1>3, <1>4

-----------------------------------------------------------------------------
(* The walk. *)

AInv == IInv /\ Shaped

\* How far the walk is.
OnTheWay ==
  /\ pass \in {"resolve", "check", "validate", "done"}
  /\ next \in 1 .. Len(prog) + 1
  /\ pass = "resolve" => next = 1 /\ found = {} /\ reports = {}
  /\ pass \in {"resolve", "done"} => walked = <<>>
  /\ pass # "resolve" /\ next \in DOMAIN prog => Stop(next)

\* The modules it is in are walked modules in each other, later ones further
\* in, and `prev` is the scope of the one around each.
EnteredAt(w, i, n) ==
  /\ w[i].at \in DOMAIN prog /\ WalkedModule(w[i].at) /\ w[i].at < n
  /\ w[i].prev = IF i = 1 THEN root_scope ELSE scope_map[w[i - 1].at]
  /\ i > 1 => w[i - 1].at \in Outside(prog, w[i].at)
  /\ \A j \in 1 .. i - 1 : w[j].at < w[i].at

Entered ==
  /\ walked \in Seq([at : Nat, prev : Nat])
  /\ \A i \in DOMAIN walked : EnteredAt(walked, i, next)
  /\ current = IF walked = <<>> THEN root_scope ELSE scope_map[walked[Len(walked)].at]

\* It is in all modules around what comes next.
Complete ==
  pass # "resolve" /\ next \in DOMAIN prog =>
    \A m \in Outside(prog, next) : WalkedModule(m) => \E i \in DOMAIN walked : walked[i].at = m

WInv == OnTheWay /\ Entered /\ Complete

SameProgram ==
  /\ prog' = prog /\ scope_map' = scope_map /\ table' = table
  /\ \A k : /\ WalkedModule(k)' <=> WalkedModule(k)
            /\ WalkedStatement(k)' <=> WalkedStatement(k)
            /\ Stop(k)' <=> Stop(k)
            /\ ModuleAround(k)' = ModuleAround(k)
  /\ \A k, x : Visible(k, x)' = Visible(k, x)

LEMMA Framed ==
  ASSUME UNCHANGED vars
  PROVE  SameProgram
<1>1. prog' = prog /\ scope_map' = scope_map /\ table' = table
  BY DEF vars
<1>2. \A k : Enclosing(k)' = Enclosing(k)
  BY <1>1 DEF Enclosing
<1>3. \A k : WalkedModule(k)' <=> WalkedModule(k)
  BY <1>1, <1>2 DEF WalkedModule
<1>4. \A k : WalkedStatement(k)' <=> WalkedStatement(k)
  BY <1>1, <1>2, <1>3 DEF WalkedStatement
<1>5. \A k : Stop(k)' <=> Stop(k)
  BY <1>3, <1>4 DEF Stop
<1>6. \A k : ModuleAround(k)' = ModuleAround(k)
  <2>1. TAKE k
  <2> DEFINE old == {j \in Enclosing(k) : prog[j].what = "module"}
             new == {j \in Enclosing(k)' : prog'[j].what = "module"}
  <2>2. new = old
    BY <1>1, <1>2
  <2>3. ModuleAround(k) = IF old = {} THEN 0 ELSE CHOOSE m \in old : \A j \in old : j <= m
    BY DEF ModuleAround
  <2>4. ModuleAround(k)' = IF new = {} THEN 0 ELSE CHOOSE m \in new : \A j \in new : j <= m
    BY DEF ModuleAround
  <2> HIDE DEF old, new
  <2> QED
    BY <2>2, <2>3, <2>4
<1>7. \A k, x : Visible(k, x)' = Visible(k, x)
  BY <1>1 DEF Visible, Declares, BlockOf, Around
<1> QED
  BY <1>1, <1>3, <1>4, <1>5, <1>6, <1>7 DEF SameProgram

\* The walk goes on to what comes after `next`: a module around that which the
\* walk is not in yet is at `next` itself.
LEMMA GoesOn ==
  ASSUME AInv, WInv, pass # "resolve", next \in DOMAIN prog, NEW c, c = Comes(next + 1)
  PROVE  /\ c \in 1 .. Len(prog) + 1 /\ next < c
         /\ c \in DOMAIN prog =>
              /\ Stop(c)
              /\ \A m \in Outside(prog, c) :
                   WalkedModule(m) => m = next \/ \E i \in DOMAIN walked : walked[i].at = m
         /\ \A j \in DOMAIN prog : next < j /\ j < c => ~Stop(j)
<1>1. Len(prog) \in Nat /\ DOMAIN prog = 1 .. Len(prog)
  BY ProgFacts DEF AInv, Shaped
<1>2. next + 1 \in 1 .. Len(prog) + 1 /\ next \in Nat
  BY <1>1
<1>3. /\ c \in 1 .. Len(prog) + 1 /\ next + 1 <= c
      /\ c \in DOMAIN prog => Stop(c)
      /\ \A j \in DOMAIN prog : next + 1 <= j /\ j < c => ~Stop(j)
  BY <1>2, ComesFacts DEF AInv, Shaped
<1>4. ASSUME NEW j \in DOMAIN prog, next < j, j < c PROVE ~Stop(j)
  <2>1. next + 1 <= j
    BY <1>1, <1>4
  <2> QED
    BY <1>3, <1>4, <2>1
<1>5. ASSUME c \in DOMAIN prog, NEW m \in Outside(prog, c), WalkedModule(m), m # next
      PROVE  \E i \in DOMAIN walked : walked[i].at = m
  <2>1. m \in DOMAIN prog /\ m < c
    BY <1>5, ProgFacts DEF AInv, Shaped
  <2>2. ~ (next < m)
    BY <1>4, <1>5, <2>1 DEF Stop
  <2>3. m < next
    BY <1>1, <1>5, <2>1, <2>2
  <2>4. next < c
    BY <1>1, <1>3
  <2>5. m \in Outside(prog, next)
    BY <1>5, <2>3, <2>4, ProgFacts, Between DEF AInv, Shaped
  <2> QED
    BY <1>5, <2>5 DEF WInv, Complete
<1>6. next < c
  BY <1>1, <1>3
<1> QED
  BY <1>3, <1>4, <1>5, <1>6

\* A walk begins at the first module of the file.
LEMMA Begins ==
  ASSUME AInv, NEW c, c = Comes(1)
  PROVE  /\ c \in 1 .. Len(prog) + 1
         /\ c \in DOMAIN prog => Stop(c) /\ \A m \in Outside(prog, c) : ~WalkedModule(m)
         /\ \A j \in DOMAIN prog : j < c => ~Stop(j)
<1>1. Len(prog) \in Nat /\ DOMAIN prog = 1 .. Len(prog)
  BY ProgFacts DEF AInv, Shaped
<1>2. 1 \in 1 .. Len(prog) + 1
  BY <1>1
<1>3. /\ c \in 1 .. Len(prog) + 1
      /\ c \in DOMAIN prog => Stop(c)
      /\ \A j \in DOMAIN prog : 1 <= j /\ j < c => ~Stop(j)
  BY <1>2, ComesFacts DEF AInv, Shaped
<1>4. \A j \in DOMAIN prog : j < c => ~Stop(j)
  BY <1>1, <1>3
<1>5. c \in DOMAIN prog => \A m \in Outside(prog, c) : ~WalkedModule(m)
  BY <1>4, ProgFacts DEF AInv, Shaped, Stop
<1> QED
  BY <1>3, <1>4, <1>5

LEMMA MapFacts ==
  ASSUME AInv
  PROVE  /\ \A k \in DOMAIN prog : WalkedModule(k) => k \in DOMAIN scope_map
         /\ \A k \in DOMAIN scope_map : scope_map[k] \in 1 .. Len(table.scopes) /\ scope_map[k] \in Nat
         /\ root_scope \in 1 .. Len(table.scopes) /\ root_scope \in Nat
<1>1. DOMAIN scope_map = {k \in DOMAIN prog : prog[k].what \in {"module", "fn"}}
  BY DEF AInv, IInv, Nested
<1>2. scope_map \in [DOMAIN scope_map -> 1 .. Len(table.scopes)]
  BY DEF AInv, IInv, TypeOK
<1>3. PICK owner, place : Owner(owner) /\ Place(owner, place)
  BY DEF AInv, IInv, Owned
<1>4. root_scope \in DOMAIN table.scopes
  BY <1>3 DEF Owner, Owns
<1>5. DOMAIN table.scopes = 1 .. Len(table.scopes) /\ Len(table.scopes) \in Nat
  BY TableFacts DEF AInv, IInv, TypeOK
<1> QED
  BY <1>1, <1>2, <1>4, <1>5 DEF WalkedModule

LEMMA WalkEnters ==
  ASSUME AInv, WInv, EnterModule
  PROVE  WInv'
<1> DEFINE l == Len(walked)
           e == [at |-> next, prev |-> current]
<1>1. /\ SameProgram /\ pass' = pass /\ found' = found /\ reports' = reports
      /\ pass \in {"check", "validate"} /\ next' = Comes(next + 1)
      /\ walked' = Append(walked, e)
      /\ current' = IF next \in DOMAIN scope_map THEN scope_map[next] ELSE current
  BY Framed DEF EnterModule, Walking
<1>2. Len(prog) \in Nat /\ DOMAIN prog = 1 .. Len(prog)
  BY ProgFacts DEF AInv, Shaped
<1>3. next \in DOMAIN prog /\ WalkedModule(next) /\ Within /\ next \in Nat
  BY <1>2 DEF EnterModule, WInv, OnTheWay
<1>4. /\ next' \in 1 .. Len(prog) + 1 /\ next < next' /\ next' \in Nat
      /\ next' \in DOMAIN prog =>
           /\ Stop(next')
           /\ \A m \in Outside(prog, next') :
                WalkedModule(m) => m = next \/ \E i \in DOMAIN walked : walked[i].at = m
  BY <1>1, <1>2, <1>3, GoesOn
<1>5. walked \in Seq([at : Nat, prev : Nat]) /\ current \in Nat
  <2>1. walked \in Seq([at : Nat, prev : Nat])
    BY DEF WInv, Entered
  <2>2. CASE walked = <<>>
    BY <2>1, <2>2, MapFacts DEF WInv, Entered
  <2>3. CASE walked # <<>>
    <3>1. Len(walked) \in DOMAIN walked
      BY <2>1, <2>3, EmptySeq
    <3>2. walked[Len(walked)].at \in DOMAIN scope_map
      BY <3>1, MapFacts DEF WInv, Entered, EnteredAt
    <3> QED
      BY <2>1, <2>3, <3>2, MapFacts DEF WInv, Entered
  <2> QED
    BY <2>2, <2>3
<1>6. e \in [at : Nat, prev : Nat] /\ e.at = next /\ e.prev = current
  BY <1>3, <1>5
<1> HIDE DEF e
<1>7. /\ l \in Nat /\ DOMAIN walked = 1 .. l
      /\ walked' \in Seq([at : Nat, prev : Nat])
      /\ DOMAIN walked' = 1 .. l + 1 /\ Len(walked') = l + 1 /\ walked'[l + 1] = e
      /\ \A i \in DOMAIN walked : walked'[i] = walked[i]
  BY <1>1, <1>5, <1>6, Appended
<1>8. OnTheWay'
  BY <1>1, <1>4 DEF WInv, OnTheWay, SameProgram
<1>9. next \in DOMAIN scope_map /\ current' = scope_map[next]
  BY <1>1, <1>3, MapFacts
<1>10. ASSUME NEW i \in DOMAIN walked'
       PROVE  EnteredAt(walked', i, next')
  <2>1. CASE i \in DOMAIN walked
    <3>1. EnteredAt(walked, i, next)
      BY <2>1 DEF WInv, Entered
    <3>2. i > 1 => i - 1 \in DOMAIN walked
      BY <1>7, <2>1
    <3>3. walked[i].at < next'
      BY <1>2, <1>3, <1>4, <3>1 DEF EnteredAt
    <3>4. i = 1 \/ i > 1
      BY <1>7, <2>1
    <3>5. \A j \in 1 .. i - 1 : walked'[j] = walked[j]
      <4> HIDE DEF l
      <4>1. \A j \in 1 .. i - 1 : j \in DOMAIN walked
        BY <1>7, <2>1
      <4> QED
        BY <1>7, <4>1
    <3> QED
      BY <1>7, <2>1, <3>1, <3>2, <3>3, <3>4, <3>5 DEF EnteredAt
  <2>2. CASE i = l + 1
    <3>1. walked'[i].at = next /\ walked'[i].prev = current
      BY <1>6, <1>7, <2>2
    <3>5. \A j \in 1 .. i - 1 : walked'[j].at < walked'[i].at
      <4>1. \A j \in 1 .. i - 1 : j \in DOMAIN walked
        BY <1>7, <2>2
      <4>2. \A j \in DOMAIN walked : walked[j].at < next
        BY DEF WInv, Entered, EnteredAt
      <4> QED
        BY <1>7, <3>1, <4>1, <4>2
    <3>2. CASE l = 0
      <4>1. walked = <<>>
        BY <1>5, <3>2, EmptySeq
      <4>2. current = root_scope
        BY <4>1 DEF WInv, Entered
      <4> QED
        BY <1>3, <1>4, <2>2, <3>1, <3>2, <3>5, <4>2 DEF EnteredAt
    <3>3. CASE l # 0
      <4>1. walked # <<>> /\ l \in DOMAIN walked /\ (l + 1) - 1 = l /\ l + 1 # 1
        BY <1>5, <1>7, <3>3, EmptySeq
      <4>2. current = scope_map[walked[l].at]
        BY <4>1 DEF WInv, Entered
      <4>3. walked[l].at \in Outside(prog, next)
        BY <1>3, <4>1, EnclosingMeans DEF Within
      <4>4. walked'[i - 1] = walked[l] /\ i # 1
        BY <1>7, <2>2, <4>1
      <4> QED
        BY <1>3, <1>4, <3>1, <3>5, <4>2, <4>3, <4>4 DEF EnteredAt
    <3> QED
      BY <3>2, <3>3
  <2> QED
    BY <1>7, <2>1, <2>2
<1>11. walked' # <<>> /\ walked'[Len(walked')].at = next
  BY <1>6, <1>7, EmptySeq
<1>12. Entered'
  <2>1. ASSUME NEW i \in DOMAIN walked' PROVE EnteredAt(walked, i, next)'
    BY <1>1, <1>10 DEF EnteredAt, SameProgram
  <2>2. current' = scope_map'[walked'[Len(walked')].at]
    BY <1>1, <1>9, <1>11 DEF SameProgram
  <2> QED
    BY <1>7, <1>11, <2>1, <2>2 DEF Entered, EnteredAt
<1>13. Complete'
  <2>1. SUFFICES ASSUME next' \in DOMAIN prog, NEW m \in Outside(prog, next'), WalkedModule(m)
                 PROVE  \E i \in DOMAIN walked' : walked'[i].at = m
    BY <1>1 DEF Complete, SameProgram
  <2>2. CASE m = next
    <3>1. l + 1 \in DOMAIN walked'
      BY <1>7
    <3> QED
      BY <1>6, <1>7, <2>2, <3>1
  <2>3. CASE m # next
    <3>1. PICK i \in DOMAIN walked : walked[i].at = m
      BY <1>4, <2>1, <2>3
    <3>2. i \in DOMAIN walked'
      BY <1>7
    <3> QED
      BY <1>7, <3>1, <3>2
  <2> QED
    BY <2>2, <2>3
<1> QED
  BY <1>8, <1>12, <1>13 DEF WInv

\* Nothing was entered since and the walk is further on.
LEMMA EnteredLater ==
  ASSUME Entered, SameProgram, walked' = walked, current' = current,
         \A i \in DOMAIN walked : walked[i].at < next'
  PROVE  Entered'
<1>1. ASSUME NEW i \in DOMAIN walked' PROVE EnteredAt(walked, i, next)'
  BY DEF Entered, EnteredAt, SameProgram
<1>2. /\ walked' \in Seq([at : Nat, prev : Nat])
      /\ current' = IF walked' = <<>> THEN root_scope ELSE scope_map'[walked'[Len(walked')].at]
  BY DEF Entered, SameProgram
<1> QED
  BY <1>1, <1>2 DEF Entered, EnteredAt

LEMMA WalkLeaves ==
  ASSUME AInv, WInv, LeaveModule
  PROVE  WInv'
<1> DEFINE l == Len(walked)
<1>1. /\ SameProgram /\ pass' = pass /\ next' = next /\ found' = found /\ reports' = reports
      /\ pass \in {"check", "validate"} /\ ~Within
      /\ walked' = SubSeq(walked, 1, l - 1) /\ current' = walked[l].prev
  BY Framed DEF LeaveModule, Walking
<1>2. walked # <<>> /\ walked \in Seq([at : Nat, prev : Nat])
  BY <1>1 DEF Within, WInv, Entered
<1>3. /\ l \in Nat \ {0} /\ DOMAIN walked = 1 .. l
      /\ walked' \in Seq([at : Nat, prev : Nat])
      /\ Len(walked') = l - 1 /\ DOMAIN walked' = 1 .. l - 1
      /\ \A i \in DOMAIN walked' : i \in DOMAIN walked /\ walked'[i] = walked[i]
  <2> DEFINE w == SubSeq(walked, 1, l - 1)
  <2>1. /\ l \in Nat \ {0} /\ DOMAIN walked = 1 .. l /\ w \in Seq([at : Nat, prev : Nat])
        /\ Len(w) = l - 1 /\ DOMAIN w = 1 .. l - 1
        /\ \A i \in DOMAIN w : w[i] = walked[i]
    BY <1>2, Shortened
  <2>2. walked' = w
    BY <1>1
  <2> HIDE DEF w, l
  <2>3. \A i \in 1 .. l - 1 : i \in 1 .. l
    BY <2>1
  <2> QED
    BY <2>1, <2>2, <2>3
<1>4. OnTheWay'
  BY <1>1 DEF WInv, OnTheWay, SameProgram
<1>5. Entered'
  <2>1. ASSUME NEW i \in DOMAIN walked' PROVE EnteredAt(walked, i, next)'
    <3>1. EnteredAt(walked, i, next) /\ walked'[i] = walked[i]
      BY <1>3 DEF WInv, Entered
    <3>2. i > 1 => walked'[i - 1] = walked[i - 1]
      BY <1>3
    <3>3. i = 1 \/ i > 1
      BY <1>3
    <3>4. \A j \in 1 .. i - 1 : walked'[j] = walked[j]
      <4> HIDE DEF l
      <4>1. \A j \in 1 .. i - 1 : j \in DOMAIN walked'
        BY <1>3
      <4> QED
        BY <1>3, <4>1
    <3> QED
      BY <1>1, <3>1, <3>2, <3>3, <3>4 DEF EnteredAt, SameProgram
  <2>2. current' = IF walked' = <<>> THEN root_scope ELSE scope_map'[walked'[Len(walked')].at]
    <3>1. EnteredAt(walked, l, next)
      <4>1. l \in DOMAIN walked
        BY <1>3
      <4> HIDE DEF l
      <4> QED
        BY <4>1 DEF WInv, Entered
    <3>2. CASE l = 1
      <4>1. walked' = <<>>
        BY <1>3, <3>2, EmptySeq
      <4> QED
        BY <1>1, <3>1, <3>2, <4>1 DEF EnteredAt
    <3>3. CASE l # 1
      <4>1. l - 1 \in DOMAIN walked' /\ walked' # <<>>
        BY <1>3, <3>3, EmptySeq
      <4> QED
        BY <1>1, <1>3, <3>1, <3>3, <4>1 DEF EnteredAt, SameProgram
    <3> QED
      BY <3>2, <3>3
  <2> QED
    BY <1>3, <2>1, <2>2 DEF Entered, EnteredAt
<1>6. Complete'
  <2>1. SUFFICES ASSUME next \in DOMAIN prog, NEW m \in Outside(prog, next), WalkedModule(m)
                 PROVE  \E i \in DOMAIN walked' : walked'[i].at = m
    BY <1>1 DEF Complete, SameProgram
  <2>2. PICK i \in DOMAIN walked : walked[i].at = m
    BY <1>1, <2>1 DEF WInv, Complete
  <2>3. i # l
    <3>1. next <= Len(prog)
      BY <2>1, ProgFacts DEF AInv, Shaped
    <3>2. walked[l].at \notin Outside(prog, next)
      BY <1>1, <3>1, EnclosingMeans DEF Within
    <3> QED
      BY <2>1, <2>2, <3>2
  <2>4. i \in DOMAIN walked'
    BY <1>3, <2>3
  <2> QED
    BY <1>3, <2>2, <2>4
<1> QED
  BY <1>4, <1>5, <1>6 DEF WInv

LEMMA WalkLooksUp ==
  ASSUME AInv, WInv, LookUp
  PROVE  WInv'
<1>1. /\ SameProgram /\ pass' = pass /\ walked' = walked /\ current' = current
      /\ pass \in {"check", "validate"} /\ next' = Comes(next + 1)
  BY Framed DEF LookUp, Walking
<1>2. Len(prog) \in Nat /\ DOMAIN prog = 1 .. Len(prog)
  BY ProgFacts DEF AInv, Shaped
<1>3. next \in DOMAIN prog /\ WalkedStatement(next) /\ next \in Nat
  BY <1>2 DEF LookUp, WInv, OnTheWay
<1>4. /\ next' \in 1 .. Len(prog) + 1 /\ next < next' /\ next' \in Nat
      /\ next' \in DOMAIN prog =>
           /\ Stop(next')
           /\ \A m \in Outside(prog, next') :
                WalkedModule(m) => m = next \/ \E i \in DOMAIN walked : walked[i].at = m
  BY <1>1, <1>2, <1>3, GoesOn
<1>5. ~WalkedModule(next)
  BY <1>3 DEF WalkedStatement, WalkedModule, Mentions
<1>6. OnTheWay'
  BY <1>1, <1>4 DEF WInv, OnTheWay, SameProgram
<1>7. Entered'
  <2>1. ASSUME NEW i \in DOMAIN walked PROVE walked[i].at < next'
    <3>1. walked[i].at \in DOMAIN prog /\ walked[i].at < next
      BY DEF WInv, Entered, EnteredAt
    <3> QED
      BY <1>2, <1>3, <1>4, <3>1
  <2> QED
    BY <1>1, <2>1, EnteredLater DEF WInv
<1>8. Complete'
  BY <1>1, <1>4, <1>5 DEF Complete, SameProgram
<1> QED
  BY <1>6, <1>7, <1>8 DEF WInv

\* A walk begins: resolution is done, or the pass before.
LEMMA WalkBegins ==
  ASSUME AInv, WInv, Resolved \/ NextPass
  PROVE  WInv'
<1>1. /\ SameProgram /\ walked = <<>> /\ walked' = <<>> /\ current' = root_scope
      /\ pass' \in {"check", "validate", "done"} /\ next' = Comes(1)
  <2>1. CASE Resolved
    <3>1. walked = <<>> /\ current = root_scope
      BY <2>1 DEF Resolved, WInv, OnTheWay, Entered
    <3> QED
      BY <2>1, <3>1, Framed DEF Resolved
  <2>2. CASE NextPass
    BY <2>2, Framed DEF NextPass
  <2> QED
    BY <2>1, <2>2
<1>2. /\ next' \in 1 .. Len(prog) + 1
      /\ next' \in DOMAIN prog => Stop(next') /\ \A m \in Outside(prog, next') : ~WalkedModule(m)
  BY <1>1, Begins
<1>3. OnTheWay'
  BY <1>1, <1>2 DEF OnTheWay, SameProgram
<1>4. Entered'
  BY <1>1, EmptySeq DEF Entered
<1>5. Complete'
  BY <1>1, <1>2 DEF Complete, SameProgram
<1> QED
  BY <1>3, <1>4, <1>5 DEF WInv

\* During resolution the walk waits.
LEMMA WalkWaits ==
  ASSUME AInv, AInv', WInv, ResolveOn
  PROVE  WInv'
<1>1. /\ pass' = "resolve" /\ next' = 1 /\ walked' = <<>> /\ current' = root_scope
      /\ found' = {} /\ reports' = {}
  BY DEF ResolveOn, walk, WInv, OnTheWay, Entered
<1>2. Len(prog') \in Nat
  <2>1. Arranged'
    BY DEF AInv, Shaped
  <2> QED
    BY <2>1 DEF Arranged, Treelike
<1>3. OnTheWay'
  BY <1>1, <1>2 DEF OnTheWay
<1>4. Entered'
  BY <1>1, EmptySeq DEF Entered
<1>5. Complete'
  BY <1>1 DEF Complete
<1> QED
  BY <1>3, <1>4, <1>5 DEF WInv

LEMMA WalkStutters ==
  ASSUME AInv, WInv, UNCHANGED avars
  PROVE  WInv'
<1>1. /\ SameProgram /\ pass' = pass /\ next' = next /\ walked' = walked /\ current' = current
      /\ found' = found /\ reports' = reports
  BY Framed DEF avars, walk
<1>2. OnTheWay' /\ Complete'
  BY <1>1 DEF WInv, OnTheWay, Complete, SameProgram
<1>3. Entered'
  BY <1>1, EnteredLater DEF WInv, Entered, EnteredAt
<1> QED
  BY <1>2, <1>3 DEF WInv

LEMMA ResolverSteps == [ANext]_avars => [Next]_vars
BY DEF ANext, avars, ResolveOn, Resolved, EnterModule, LeaveModule, LookUp, NextPass

LEMMA AInvKept == AInv /\ [ANext]_avars => AInv'
BY ResolverSteps, NextKeeps, ShapedKept DEF AInv

LEMMA WInvKept == AInv /\ AInv' /\ WInv /\ [ANext]_avars => WInv'
BY WalkWaits, WalkBegins, WalkEnters, WalkLeaves, WalkLooksUp, WalkStutters DEF ANext

LEMMA InitWalk == AInit => AInv /\ WInv
<1> SUFFICES ASSUME AInit PROVE AInv /\ WInv
  OBVIOUS
<1>1. AInv
  BY InitHolds, InitShaped DEF AInit, AInv
<1>2. pass = "resolve" /\ next = 1 /\ walked = <<>> /\ current = root_scope /\ reports = {} /\ found = {}
  BY DEF AInit
<1>3. Len(prog) \in Nat
  BY <1>1 DEF AInv, Shaped, Arranged, Treelike
<1>4. OnTheWay /\ Complete
  BY <1>2, <1>3 DEF OnTheWay, Complete
<1>5. Entered
  BY <1>2, EmptySeq DEF Entered
<1> QED
  BY <1>1, <1>4, <1>5 DEF WInv

-----------------------------------------------------------------------------
(* What the walk finds, and reports. *)

\* Whether the pass has come by the statement k when it looks the name up there.
Due(p, k) ==
  /\ p = "validate" => prog[k].what = "assign"
  /\ \/ pass = "done"
     \/ pass = p /\ k < next
     \/ pass = "validate" /\ p = "check"

\* The name at k is that of a constant in the module around it.
OfConstant(k) ==
  /\ Visible(ModuleAround(k), prog[k].name) # 0
  /\ prog[Visible(ModuleAround(k), prog[k].name)].what \in {"let", "const"}

\* What a lookup finds is what the name means in the module around it.
FindsInModule ==
  \A f \in found :
    /\ f.pass \in {"check", "validate"}
    /\ f.at \in DOMAIN prog /\ WalkedStatement(f.at)
    /\ f.decl \in 0 .. Len(prog)
    /\ f.decl = Visible(ModuleAround(f.at), prog[f.at].name)

\* Each pass has looked up what it has come by, and nothing else.
FindsAll ==
  pass # "resolve" =>
    \A k \in DOMAIN prog, p \in {"check", "validate"} :
      WalkedStatement(k) => ((\E f \in found : f.at = k /\ f.pass = p) <=> Due(p, k))

\* The validator has reported the assignments to constants, and nothing else.
Reported ==
  /\ \A r \in reports : r.at \in DOMAIN prog /\ r.name = prog[r.at].name
  /\ pass # "resolve" =>
       \A k \in DOMAIN prog :
         WalkedStatement(k) =>
           ((\E r \in reports : r.at = k) <=> (Due("validate", k) /\ OfConstant(k)))

RInv == FindsInModule /\ FindsAll /\ Reported

\* The walk is in the module around the statement that it comes to.
LEMMA WalkHome ==
  ASSUME AInv, WInv, pass # "resolve", next \in DOMAIN prog, WalkedStatement(next), Within
  PROVE  /\ ModuleAround(next) \in DOMAIN scope_map
         /\ current = scope_map[ModuleAround(next)]
<1> DEFINE l == Len(walked)
<1>1. PICK m : Home(next, m)
  BY WalkedMeans
<1>2. /\ ModuleAround(next) = m /\ m \in DOMAIN prog /\ m \in Nat
      /\ m \in Outside(prog, next) /\ WalkedModule(m)
  BY <1>1, HomeIsAround, ProgFacts DEF AInv, Shaped, Home
<1>3. PICK i \in DOMAIN walked : walked[i].at = m
  BY <1>2 DEF WInv, Complete
<1>4. walked \in Seq([at : Nat, prev : Nat]) /\ walked # <<>>
  BY <1>3 DEF WInv, Entered
<1>5. l \in Nat \ {0} /\ DOMAIN walked = 1 .. l
  BY <1>4, EmptySeq
<1>6. l \in DOMAIN walked
  BY <1>5
<1>7. EnteredAt(walked, l, next)
  <2> HIDE DEF l
  <2> QED
    BY <1>6 DEF WInv, Entered
<1>8. next <= Len(prog)
  BY ProgFacts DEF AInv, Shaped
<1>9. walked[l].at \in Outside(prog, next)
  BY <1>4, <1>8, EnclosingMeans DEF Within
<1>10. walked[l].at \in Nat /\ prog[walked[l].at].what = "module"
  BY <1>7, ProgFacts DEF AInv, Shaped, EnteredAt, WalkedModule
<1>11. walked[l].at = m \/ walked[l].at < m
  <2>1. walked[l].at = m \/ walked[l].at \in Outside(prog, m)
    BY <1>1, <1>9, <1>10 DEF Home
  <2> QED
    BY <1>2, <2>1, ProgFacts DEF AInv, Shaped
<1>12. walked[l].at = m
  <2>1. CASE i = l
    BY <1>3, <2>1
  <2>2. CASE i # l
    <3>1. i \in 1 .. l - 1
      BY <1>5, <2>2
    <3>2. m < walked[l].at
      BY <1>3, <1>7, <3>1 DEF EnteredAt
    <3> QED
      BY <1>2, <1>10, <1>11, <3>2
  <2> QED
    BY <2>1, <2>2
<1>13. current = scope_map[m]
  BY <1>4, <1>12 DEF WInv, Entered
<1> QED
  BY <1>2, <1>13, MapFacts

\* What is looked up is found in the module around it.
LEMMA WalkFinds ==
  ASSUME AInv, WInv, pass # "resolve", next \in DOMAIN prog, WalkedStatement(next), Within
  PROVE  /\ Declaration(next) = Visible(ModuleAround(next), prog[next].name)
         /\ Declaration(next) \in 0 .. Len(prog)
         /\ KindIn(next, {"Const", "Let"}) <=> OfConstant(next)
<1> DEFINE m == ModuleAround(next)
           x == prog[next].name
           id == lookup(table, current, x)
<1>1. m \in DOMAIN scope_map /\ current = scope_map[m]
  BY WalkHome
<1>2. x \in Names
  BY ProgFacts DEF AInv, Shaped, Placed, PlacedAt, WalkedStatement
<1>3. Declaration(next) = Found(current, x) /\ SymbolAt(next) = id
  BY DEF Declaration, SymbolAt, Found
<1>4. Found(scope_map[m], x) = Visible(m, x)
  <2>1. LookupIsLexical
    BY LookupFinds DEF AInv
  <2> HIDE DEF m, x
  <2> QED
    BY <1>1, <1>2, <2>1 DEF LookupIsLexical
<1>5. current \in 0 .. Len(table.scopes)
  <2>1. Len(table.scopes) \in Nat
    BY TableFacts DEF AInv, IInv, TypeOK
  <2> QED
    BY <1>1, <2>1, MapFacts
<1>6. id = 0 \/ id \in DOMAIN table.symbols
  <2> HIDE DEF x
  <2> QED
    BY <1>2, <1>5, LookupLands DEF AInv, IInv, TypeOK
<1>7. /\ Len(prog) \in Nat /\ DOMAIN prog = 1 .. Len(prog)
      /\ DOMAIN table.symbols = 1 .. Len(table.symbols) /\ Len(table.symbols) \in Nat
  BY ProgFacts, TableFacts DEF AInv, Shaped, IInv, TypeOK
<1>8. id # 0 => /\ table.symbols[id].span \in DOMAIN prog
                /\ table.symbols[id].kind \in {"Const", "Let"}
                     <=> prog[table.symbols[id].span].what \in {"const", "let"}
  BY <1>6 DEF AInv, Shaped, KindsSay, IInv, Linked, LinkedIn, Links
<1>9. Declaration(next) = IF id = 0 THEN 0 ELSE table.symbols[id].span
  BY <1>3 DEF Declaration
<1>10. KindIn(next, {"Const", "Let"}) <=> (id # 0 /\ table.symbols[id].kind \in {"Const", "Let"})
  BY <1>3 DEF KindIn
<1>11. OfConstant(next) <=> (Declaration(next) # 0 /\ prog[Declaration(next)].what \in {"let", "const"})
  BY <1>1, <1>3, <1>4 DEF OfConstant
<1> HIDE DEF id
<1>12. id = 0 \/ (id # 0 /\ Declaration(next) \in 1 .. Len(prog) /\ Declaration(next) # 0)
  BY <1>7, <1>8, <1>9
<1> QED
  BY <1>1, <1>3, <1>4, <1>7, <1>8, <1>9, <1>10, <1>11, <1>12

LEMMA ConstantsSame == SameProgram => \A k : OfConstant(k)' <=> OfConstant(k)
BY DEF SameProgram, OfConstant

\* A step on which no statement is come by changes nothing about them.
LEMMA RInvSame ==
  ASSUME RInv, SameProgram, found' = found, reports' = reports,
         pass # "resolve" /\ pass' # "resolve",
         \A k \in DOMAIN prog, p \in {"check", "validate"} :
           WalkedStatement(k) => (Due(p, k)' <=> Due(p, k))
  PROVE  RInv'
<1>1. FindsInModule'
  BY DEF RInv, FindsInModule, SameProgram
<1>2. FindsAll'
  BY DEF RInv, FindsAll, SameProgram
<1>3. \A k : OfConstant(k)' <=> OfConstant(k)
  BY ConstantsSame
<1>4. Reported'
  BY <1>3 DEF RInv, Reported, SameProgram
<1> QED
  BY <1>1, <1>2, <1>4 DEF RInv

\* Only what lies between here and the next stop is come by, which is nothing.
LEMMA DueMoves ==
  ASSUME AInv, WInv, SameProgram, next \in DOMAIN prog,
         pass \in {"check", "validate"}, pass' = pass, next' = Comes(next + 1),
         NEW k \in DOMAIN prog, NEW p \in {"check", "validate"}, WalkedStatement(k), k # next
  PROVE  Due(p, k)' <=> Due(p, k)
<1>1. Len(prog) \in Nat /\ DOMAIN prog = 1 .. Len(prog)
  BY ProgFacts DEF AInv, Shaped
<1>2. /\ next' \in 1 .. Len(prog) + 1 /\ next < next'
      /\ \A j \in DOMAIN prog : next < j /\ j < next' => ~Stop(j)
  BY GoesOn
<1>3. k < next' <=> k < next
  <2>1. ~ (next < k /\ k < next')
    BY <1>2 DEF Stop
  <2> QED
    BY <1>1, <1>2, <2>1
<1> QED
  BY <1>3 DEF Due, SameProgram

LEMMA RInvEnters ==
  ASSUME AInv, WInv, RInv, EnterModule
  PROVE  RInv'
<1>1. /\ SameProgram /\ pass' = pass /\ found' = found /\ reports' = reports
      /\ pass \in {"check", "validate"} /\ next' = Comes(next + 1)
  BY Framed DEF EnterModule, Walking
<1>2. next \in DOMAIN prog /\ WalkedModule(next)
  BY ProgFacts DEF EnterModule, WInv, OnTheWay, AInv, Shaped
<1>3. ~WalkedStatement(next)
  BY <1>2 DEF WalkedModule, WalkedStatement, Mentions
<1>4. \A k \in DOMAIN prog, p \in {"check", "validate"} :
        WalkedStatement(k) => (Due(p, k)' <=> Due(p, k))
  BY <1>1, <1>2, <1>3, DueMoves
<1> QED
  BY <1>1, <1>4, RInvSame

LEMMA RInvLeaves ==
  ASSUME AInv, WInv, RInv, LeaveModule
  PROVE  RInv'
<1>1. /\ SameProgram /\ pass' = pass /\ next' = next /\ found' = found /\ reports' = reports
      /\ pass \in {"check", "validate"}
  BY Framed DEF LeaveModule, Walking
<1>2. \A k \in DOMAIN prog, p \in {"check", "validate"} :
        WalkedStatement(k) => (Due(p, k)' <=> Due(p, k))
  BY <1>1 DEF Due, SameProgram
<1> QED
  BY <1>1, <1>2, RInvSame

\* The next pass has everything before it, the last one nothing.
LEMMA RInvNext ==
  ASSUME AInv, WInv, RInv, NextPass
  PROVE  RInv'
<1>1. /\ SameProgram /\ found' = found /\ reports' = reports
      /\ pass \in {"check", "validate"} /\ next' = Comes(1) /\ next > Len(prog)
      /\ pass' = IF pass = "check" THEN "validate" ELSE "done"
  BY Framed DEF NextPass, Walking
<1>2. Len(prog) \in Nat /\ DOMAIN prog = 1 .. Len(prog) /\ next \in Nat
  BY ProgFacts DEF AInv, Shaped, WInv, OnTheWay
<1>3. /\ next' \in 1 .. Len(prog) + 1 /\ \A j \in DOMAIN prog : j < next' => ~Stop(j)
  BY <1>1, Begins
<1>4. ASSUME NEW k \in DOMAIN prog, NEW p \in {"check", "validate"}, WalkedStatement(k)
      PROVE  Due(p, k)' <=> Due(p, k)
  <2>1. k < next /\ ~ (k < next')
    BY <1>1, <1>2, <1>3, <1>4 DEF Stop
  <2> QED
    BY <1>1, <2>1 DEF Due, SameProgram
<1> QED
  BY <1>1, <1>4, RInvSame

LEMMA RInvBegins ==
  ASSUME AInv, WInv, RInv, Resolved
  PROVE  RInv'
<1>1. /\ SameProgram /\ found = {} /\ found' = {} /\ reports = {} /\ reports' = {}
      /\ pass' = "check" /\ next' = Comes(1)
  BY Framed DEF Resolved, WInv, OnTheWay
<1>2. Len(prog) \in Nat /\ DOMAIN prog = 1 .. Len(prog)
  BY ProgFacts DEF AInv, Shaped
<1>3. /\ next' \in 1 .. Len(prog) + 1 /\ \A j \in DOMAIN prog : j < next' => ~Stop(j)
  BY <1>1, Begins
<1>4. ASSUME NEW k \in DOMAIN prog, NEW p \in {"check", "validate"}, WalkedStatement(k)
      PROVE  ~Due(p, k)'
  <2>1. ~ (k < next')
    BY <1>3, <1>4 DEF Stop
  <2> QED
    BY <1>1, <2>1 DEF Due
<1>5. FindsInModule'
  BY <1>1 DEF FindsInModule
<1>6. FindsAll'
  BY <1>1, <1>4 DEF FindsAll, SameProgram
<1>7. Reported'
  BY <1>1, <1>4 DEF Reported, SameProgram
<1> QED
  BY <1>5, <1>6, <1>7 DEF RInv

LEMMA RInvLooksUp ==
  ASSUME AInv, WInv, RInv, LookUp
  PROVE  RInv'
<1> DEFINE f0 == [pass |-> pass, at |-> next, decl |-> Declaration(next)]
           r0 == [error |-> "InvalidAssignTarget", name |-> prog[next].name, at |-> next]
<1>1. /\ SameProgram /\ pass' = pass /\ pass \in {"check", "validate"}
      /\ next' = Comes(next + 1) /\ Within /\ WalkedStatement(next)
      /\ found' = IF LooksUp(next) THEN found \union {f0} ELSE found
      /\ reports' = reports \union check_immutability(next)
  BY Framed DEF LookUp, Walking
<1>2. Len(prog) \in Nat /\ DOMAIN prog = 1 .. Len(prog)
  BY ProgFacts DEF AInv, Shaped
<1>3. next \in DOMAIN prog /\ next \in Nat
  BY <1>2 DEF LookUp, WInv, OnTheWay
<1>4. /\ Declaration(next) = Visible(ModuleAround(next), prog[next].name)
      /\ Declaration(next) \in 0 .. Len(prog)
      /\ KindIn(next, {"Const", "Let"}) <=> OfConstant(next)
  BY <1>1, <1>3, WalkFinds
<1>5. next' \in 1 .. Len(prog) + 1 /\ next < next'
  BY <1>1, <1>3, GoesOn
<1>6. f0.pass = pass /\ f0.at = next /\ f0.decl = Declaration(next)
  OBVIOUS
<1>7. r0.at = next /\ r0.name = prog[next].name
  OBVIOUS
<1>8. check_immutability(next)
        = IF pass = "validate" /\ prog[next].what = "assign" /\ OfConstant(next) THEN {r0} ELSE {}
  BY <1>4 DEF check_immutability
<1> HIDE DEF f0, r0
<1>9. LooksUp(next) <=> (pass = "check" \/ prog[next].what = "assign")
  BY DEF LooksUp
\* What is due at `next` before the step, and after it.
<1>10. ASSUME NEW k \in DOMAIN prog, NEW p \in {"check", "validate"}, k = next
       PROVE  /\ p = pass => /\ Due(p, k)' <=> LooksUp(next)
                             /\ ~Due(p, k)
              /\ p # pass => (Due(p, k)' <=> Due(p, k))
  BY <1>1, <1>3, <1>5, <1>9, <1>10 DEF Due, SameProgram
<1>11. \A k \in DOMAIN prog, p \in {"check", "validate"} :
         WalkedStatement(k) /\ k # next => (Due(p, k)' <=> Due(p, k))
  BY <1>1, <1>3, DueMoves
<1>12. FindsInModule'
  <2>1. \A f \in found' : f \in found \/ f = f0
    BY <1>1
  <2>2. \A f \in found : /\ f.pass \in {"check", "validate"}
                         /\ f.at \in DOMAIN prog /\ WalkedStatement(f.at)
                         /\ f.decl \in 0 .. Len(prog)
                         /\ f.decl = Visible(ModuleAround(f.at), prog[f.at].name)
    BY DEF RInv, FindsInModule
  <2>3. \A f \in found' : /\ f.pass \in {"check", "validate"}
                          /\ f.at \in DOMAIN prog /\ WalkedStatement(f.at)
                          /\ f.decl \in 0 .. Len(prog)
                          /\ f.decl = Visible(ModuleAround(f.at), prog[f.at].name)
    BY <1>1, <1>3, <1>4, <1>6, <2>1, <2>2
  <2> QED
    BY <1>1, <2>3 DEF FindsInModule, SameProgram
<1>13. FindsAll'
  <2>1. ASSUME NEW k \in DOMAIN prog, NEW p \in {"check", "validate"}, WalkedStatement(k)
        PROVE  (\E f \in found' : f.at = k /\ f.pass = p) <=> Due(p, k)'
    <3>1. (\E f \in found : f.at = k /\ f.pass = p) <=> Due(p, k)
      BY <1>1, <2>1 DEF RInv, FindsAll
    <3>2. CASE k = next /\ p = pass
      <4>1. f0 \in found' <=> LooksUp(next)
        <5>1. f0 \notin found
          BY <1>6, <1>10, <2>1, <3>1, <3>2
        <5> QED
          BY <1>1, <5>1
      <4>2. (\E f \in found' : f.at = k /\ f.pass = p) <=> LooksUp(next)
        BY <1>1, <1>6, <1>10, <2>1, <3>1, <3>2, <4>1
      <4> QED
        BY <1>10, <2>1, <3>2, <4>2
    <3>3. CASE k # next \/ p # pass
      <4>1. Due(p, k)' <=> Due(p, k)
        BY <1>10, <1>11, <2>1, <3>3
      <4>2. (\E f \in found' : f.at = k /\ f.pass = p) <=> (\E f \in found : f.at = k /\ f.pass = p)
        BY <1>1, <1>6, <3>3
      <4> QED
        BY <3>1, <4>1, <4>2
    <3> QED
      BY <3>2, <3>3
  <2> QED
    BY <1>1, <2>1 DEF FindsAll, SameProgram
<1>14. Reported'
  <2>1. \A r \in reports' : r.at \in DOMAIN prog /\ r.name = prog[r.at].name
    BY <1>1, <1>3, <1>7, <1>8 DEF RInv, Reported
  <2>2. ASSUME NEW k \in DOMAIN prog, WalkedStatement(k)
        PROVE  (\E r \in reports' : r.at = k) <=> (Due("validate", k)' /\ OfConstant(k))
    <3>1. (\E r \in reports : r.at = k) <=> (Due("validate", k) /\ OfConstant(k))
      BY <1>1, <2>2 DEF RInv, Reported
    <3>2. CASE k = next /\ pass = "validate"
      <4>1. \A r \in reports : r.at # next
        BY <1>10, <2>2, <3>1, <3>2
      <4>2. (\E r \in reports' : r.at = k) <=> (prog[next].what = "assign" /\ OfConstant(next))
        BY <1>1, <1>7, <1>8, <3>2, <4>1
      <4>3. Due("validate", k)' <=> prog[next].what = "assign"
        BY <1>9, <1>10, <2>2, <3>2
      <4> QED
        BY <3>2, <4>2, <4>3
    <3>3. CASE k # next \/ pass # "validate"
      <4>1. Due("validate", k)' <=> Due("validate", k)
        BY <1>10, <1>11, <2>2, <3>3
      <4>2. (\E r \in reports' : r.at = k) <=> (\E r \in reports : r.at = k)
        BY <1>1, <1>7, <1>8, <3>3
      <4> QED
        BY <3>1, <4>1, <4>2
    <3> QED
      BY <3>2, <3>3
  <2>3. \A k : OfConstant(k)' <=> OfConstant(k)
    BY <1>1, ConstantsSame
  <2> QED
    BY <1>1, <2>1, <2>2, <2>3 DEF Reported, SameProgram
<1> QED
  BY <1>12, <1>13, <1>14 DEF RInv

LEMMA RInvWaits ==
  ASSUME WInv, RInv, ResolveOn
  PROVE  RInv'
BY DEF ResolveOn, walk, WInv, OnTheWay, RInv, FindsInModule, FindsAll, Reported

LEMMA RInvStutters ==
  ASSUME WInv, RInv, UNCHANGED avars
  PROVE  RInv'
<1>1. /\ SameProgram /\ pass' = pass /\ next' = next /\ found' = found /\ reports' = reports
  BY Framed DEF avars, walk
<1>2. CASE pass = "resolve"
  BY <1>1, <1>2 DEF WInv, OnTheWay, RInv, FindsInModule, FindsAll, Reported
<1>3. CASE pass # "resolve"
  <2>1. \A k \in DOMAIN prog, p \in {"check", "validate"} :
          WalkedStatement(k) => (Due(p, k)' <=> Due(p, k))
    BY <1>1 DEF Due, SameProgram
  <2> QED
    BY <1>1, <1>3, <2>1, RInvSame
<1> QED
  BY <1>2, <1>3

LEMMA RInvKept == AInv /\ WInv /\ RInv /\ [ANext]_avars => RInv'
BY RInvWaits, RInvBegins, RInvEnters, RInvLeaves, RInvLooksUp, RInvNext, RInvStutters DEF ANext

LEMMA InitReports == AInit => RInv
BY DEF AInit, RInv, FindsInModule, FindsAll, Reported

LEMMA AnalysisInvariant == ASpec => [](AInv /\ WInv /\ RInv)
<1>1. AInit => AInv /\ WInv /\ RInv
  BY InitWalk, InitReports
<1>2. AInv /\ WInv /\ RInv /\ [ANext]_avars => (AInv /\ WInv /\ RInv)'
  BY AInvKept, WInvKept, RInvKept
<1> QED
  BY <1>1, <1>2, PTL DEF ASpec

-----------------------------------------------------------------------------
(* The theorems. *)

(***************************************************************************)
(* The walks of the later passes keep the current scope that of the        *)
(* innermost module they are in, and leave every module they have entered  *)
(* (check.rs:39-90, validate.rs:49-126).                                   *)
(***************************************************************************)
THEOREM WalksAreCorrect == ASpec => []WalkOK
<1>1. ASSUME AInv, WInv, RInv PROVE WalkOK
  <2>1. /\ pass \in {"resolve", "check", "validate", "done"} /\ next \in 1 .. Len(prog) + 1
        /\ pass \in {"resolve", "done"} => walked = <<>>
    BY <1>1 DEF WInv, OnTheWay
  <2>2. current = IF walked = <<>> THEN root_scope ELSE scope_map[walked[Len(walked)].at]
    BY <1>1 DEF WInv, Entered
  <2>3. ASSUME NEW i \in DOMAIN walked
        PROVE  /\ walked[i].prev \in 1 .. Len(table.scopes)
               /\ walked[i].at < next
               /\ i > 1 => walked[i - 1].at \in Enclosing(walked[i].at)
    <3>1. EnteredAt(walked, i, next)
      BY <1>1 DEF WInv, Entered
    <3>2. i \in Nat /\ (i # 1 => i - 1 \in DOMAIN walked)
      <4>1. DOMAIN walked = 1 .. Len(walked) /\ Len(walked) \in Nat
        BY <1>1 DEF WInv, Entered
      <4> QED
        BY <4>1
    <3>3. i # 1 => walked[i - 1].at \in DOMAIN scope_map
      BY <1>1, <3>2, MapFacts DEF WInv, Entered, EnteredAt
    <3> QED
      BY <1>1, <3>1, <3>3, MapFacts, EnclosingMeans DEF EnteredAt
  <2>4. /\ \A r \in reports : r.at \in DOMAIN prog /\ r.name = prog[r.at].name
        /\ \A f \in found : f.at \in DOMAIN prog /\ f.decl \in 0 .. Len(prog)
    BY <1>1 DEF RInv, Reported, FindsInModule
  <2> QED
    BY <2>1, <2>2, <2>3, <2>4 DEF WalkOK
<1> QED
  BY <1>1, AnalysisInvariant, PTL

\* A name means what it means in the module, but for those of a `for`.
LEMMA FoundMeans ==
  ASSUME AInv, RInv, NEW f \in found
  PROVE  /\ f.at \in DOMAIN prog /\ WalkedStatement(f.at)
         /\ f.decl = Visible(ModuleAround(f.at), prog[f.at].name)
         /\ OfLoop(f.at) \/ f.decl = Means(f.at)
<1>1. /\ f.at \in DOMAIN prog /\ WalkedStatement(f.at)
      /\ f.decl = Visible(ModuleAround(f.at), prog[f.at].name)
  BY DEF RInv, FindsInModule
<1>2. PICK m : Home(f.at, m)
  BY <1>1, WalkedMeans
<1>3. ModuleAround(f.at) = m
  BY <1>1, <1>2, HomeIsAround DEF AInv, Shaped
<1>4. OfLoop(f.at) \/ Means(f.at) = Visible(m, prog[f.at].name)
  BY <1>1, <1>2, MeansInModule DEF AInv, Shaped
<1> QED
  BY <1>1, <1>3, <1>4

(***************************************************************************)
(* The type checker and the validator find the declaration that lexical    *)
(* scoping gives a name, whatever the program, and pass by no statement in *)
(* a module but those in gen items and functions (check.rs:54-90,          *)
(* validate.rs:66-126).                                                    *)
(***************************************************************************)
THEOREM UsesAlwaysFindDeclarations == ASpec => []UsesFindDeclarations
<1>1. ASSUME AInv, RInv PROVE UsesFindDeclarations
  <2>1. \A f \in found :
          f.decl = IF OfLoop(f.at) THEN Visible(ModuleAround(f.at), prog[f.at].name) ELSE Means(f.at)
    BY <1>1, FoundMeans
  <2>2. ASSUME pass = "done", NEW k \in DOMAIN prog, prog[k].what \in Mentions,
               \A j \in Enclosing(k) : prog[j].what \notin {"fn", "gen"}, ModuleAround(k) # 0
        PROVE  {f.pass : f \in {g \in found : g.at = k}}
                 = IF prog[k].what = "assign" THEN {"check", "validate"} ELSE {"check"}
    <3>1. WalkedStatement(k)
      BY <1>1, <2>2, AllWalked, EnclosingMeans DEF AInv, Shaped
    <3>2. \A p \in {"check", "validate"} :
            (\E f \in found : f.at = k /\ f.pass = p) <=> (p = "validate" => prog[k].what = "assign")
      BY <1>1, <2>2, <3>1 DEF RInv, FindsAll, Due
    <3>3. \A f \in found : f.pass \in {"check", "validate"}
      BY <1>1 DEF RInv, FindsInModule
    <3> QED
      BY <3>2, <3>3
  <2>3. pass = "done" =>
          \A k \in DOMAIN prog :
            prog[k].what \in Mentions =>
              \/ {f.pass : f \in {g \in found : g.at = k}} =
                   IF prog[k].what = "assign" THEN {"check", "validate"} ELSE {"check"}
              \/ \E j \in Enclosing(k) : prog[j].what \in {"fn", "gen"}
              \/ ModuleAround(k) = 0
    BY <2>2
  <2> QED
    BY <2>1, <2>3 DEF UsesFindDeclarations
<1> QED
  BY <1>1, AnalysisInvariant, PTL

(***************************************************************************)
(* An assignment that the validator walks is reported exactly if its       *)
(* target is a constant (check_immutability, validate.rs:301-309).         *)
(***************************************************************************)
THEOREM ConstantsAreProtected == ASpec => []ConstantsProtected
<1>1. ASSUME AInv, RInv PROVE ConstantsProtected
  <2>1. SUFFICES ASSUME pass = "done", NEW f \in found, prog[f.at].what = "assign", ~OfLoop(f.at)
                 PROVE  (Means(f.at) # 0 /\ prog[Means(f.at)].what \in {"let", "const"})
                          <=> \E r \in reports : r.at = f.at
    BY DEF ConstantsProtected
  <2>2. /\ f.at \in DOMAIN prog /\ WalkedStatement(f.at)
        /\ Means(f.at) = Visible(ModuleAround(f.at), prog[f.at].name)
    BY <1>1, <2>1, FoundMeans
  <2>3. (\E r \in reports : r.at = f.at) <=> (Due("validate", f.at) /\ OfConstant(f.at))
    BY <1>1, <2>1, <2>2 DEF RInv, Reported
  <2>4. Due("validate", f.at)
    BY <2>1 DEF Due
  <2> QED
    BY <2>2, <2>3, <2>4 DEF OfConstant
<1> QED
  BY <1>1, AnalysisInvariant, PTL

(***************************************************************************)
(* What holds of the resolver holds while the later passes use its table:  *)
(* they change none of it (sema/mod.rs:34-61).                             *)
(***************************************************************************)
THEOREM TableStaysCorrect ==
  ASpec => [](LookupIsLexical /\ DeclarationsAccounted /\ ErrorTypesReported /\ ConstWidthsExact)
<1>1. AInit => History
  BY InitHistory DEF AInit
<1>2. IInv /\ IInv' /\ History /\ [ANext]_avars => History'
  BY ResolverSteps, NextGoes, HistoryKept DEF History
<1>3. AInv => IInv /\ LookupIsLexical /\ DeclarationsAccounted
  BY LookupFinds DEF AInv, IInv
<1>4. History => ErrorTypesReported /\ ConstWidthsExact
  BY DEF History
<1> QED
  BY <1>1, <1>2, <1>3, <1>4, AnalysisInvariant, PTL DEF ASpec

================================================================================
