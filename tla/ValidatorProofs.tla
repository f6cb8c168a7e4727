---------------------------- MODULE ValidatorProofs ----------------------------
(***************************************************************************)
(* Proofs about the validation pass, for every set of names and programs   *)
(* of any size and nesting.  FrameInv relates what the walks compute about *)
(* a construct to the paths through it; it is what makes the reporting of  *)
(* flaws an invariant.                                                     *)
(***************************************************************************)
EXTENDS Validator, TLAPS

\* What is computed of the current branch bounds its paths.
BranchInv(f) ==
  /\ f.paths # {}
  /\ \A p \in f.paths : f.def \subseteq p /\ p \subseteq f.all \union f.parts
  /\ \A x \in f.all : \E p \in f.paths : x \in p

\* What is kept of the earlier branches bounds theirs.
EarlierInv(f) ==
  /\ \A q \in f.alts : (\E s \in f.ends : s \subseteq q) /\ q \subseteq f.earlier \union f.parts
  /\ \A x \in f.earlier : \E q \in f.alts : x \in q
  /\ f.kind \in Blocks => f.alts = {}
  /\ f.total => f.kind \in {"if", "match", "priority"}

\* While the frame is exact, a name that is missing is missing on a path.
ExactInv(f) ==
  f.exact =>
    \A x \in Signals \ f.parts :
      /\ x \notin f.def => \E p \in f.paths : x \notin p
      /\ \A s \in f.ends : x \notin s => \E q \in f.alts : x \notin q

FrameInv(f) == BranchInv(f) /\ EarlierInv(f) /\ ExactInv(f)

FramesInv ==
  /\ \A i \in 1 .. Len(frames) : FrameInv(frames[i])
  /\ frames # <<>> => frames[1].kind = "module"

IInv == TypeOK /\ FramesInv /\ FlawsReported

-----------------------------------------------------------------------------

LEMMA NewFrameInv ==
  ASSUME NEW kind \in Statements \union Items, NEW total \in BOOLEAN,
         total => kind = "match"
  PROVE  NewFrame(kind, total) \in Frame /\ FrameInv(NewFrame(kind, total))
BY DEF NewFrame, Frame, FrameInv, BranchInv, EarlierInv, ExactInv

\* What a construct contributes to its parent bounds its outcomes.
LEMMA OutcomesBounded ==
  ASSUME NEW f \in Frame, FrameInv(f), f.kind \in Statements, NEW certain \in BOOLEAN,
         certain => ~f.total, NEW o \in Outcomes(f, certain)
  PROVE  o \in SUBSET Signals /\ Definite(f) \subseteq o /\ o \subseteq Collected(f) \union f.parts
<1> USE DEF FrameInv, BranchInv, EarlierInv
<1>1. /\ f.paths \in SUBSET SUBSET Signals /\ f.alts \in SUBSET SUBSET Signals
      /\ f.all \subseteq Collected(f) /\ f.earlier \subseteq Collected(f)
  BY DEF Frame, Collected
<1>2. CASE f.kind \in {"comb", "unchecked"}
  BY <1>1, <1>2 DEF Outcomes, Definite
<1>3. CASE f.kind = "for"
  <2>1. Definite(f) = {}
    BY <1>3 DEF Definite
  <2>2. o = {} \/ \E S \in SUBSET f.paths : o = UNION S
    BY <1>3 DEF Outcomes
  <2> QED
    BY <1>1, <2>1, <2>2
<1>4. CASE f.kind \in Branching
  <2>1. o \in f.alts \/ o \in f.paths \/ (o = {} /\ ~f.total)
    BY <1>4 DEF Outcomes, Branching
  <2>2. o \in SUBSET Signals /\ o \subseteq Collected(f) \union f.parts
    BY <1>1, <2>1
  <2>3. \A x \in Definite(f) : x \in f.def /\ f.total /\ \A s \in f.ends : x \in s
    BY <1>4 DEF Definite, Branching
  <2>4. Definite(f) \subseteq o
    BY <2>1, <2>3
  <2> QED
    BY <2>2, <2>4
<1>5. CASE f.kind = "reg"
  <2>1. Definite(f) = {}
    BY <1>5 DEF Definite
  <2>2. o = {} \/ o \in f.alts \/ o \in f.paths
    BY <1>5 DEF Outcomes
  <2> QED
    BY <1>1, <2>1, <2>2
<1> QED
  BY <1>2, <1>3, <1>4, <1>5 DEF Statements, Blocks

\* Every name collected is one some outcome assigns.
LEMMA OutcomesWitness ==
  ASSUME NEW f \in Frame, FrameInv(f), f.kind \in Statements, NEW certain \in BOOLEAN
  PROVE  /\ Outcomes(f, certain) # {}
         /\ \A x \in Collected(f) : \E o \in Outcomes(f, certain) : x \in o
<1> USE DEF FrameInv, BranchInv, EarlierInv
<1>1. \A x \in Collected(f) : \E o \in f.paths \union f.alts : x \in o
  BY DEF Collected
<1>2. CASE f.kind \in {"comb", "unchecked"}
  BY <1>1, <1>2 DEF Outcomes, Blocks
<1>3. CASE f.kind = "for"
  <2>1. \A p \in f.paths : p \in Outcomes(f, certain)
    <3> SUFFICES ASSUME NEW p \in f.paths PROVE p \in Outcomes(f, certain)
      OBVIOUS
    <3>1. p = UNION {p} /\ {p} \in (SUBSET f.paths) \ {{}}
      OBVIOUS
    <3> QED
      BY <3>1, <1>3 DEF Outcomes
  <2>2. f.alts = {}
    BY <1>3 DEF Blocks
  <2> QED
    BY <1>1, <2>1, <2>2
<1>4. CASE f.kind \in Branching
  <2>1. f.paths \union f.alts \subseteq Outcomes(f, certain)
    BY <1>4 DEF Outcomes, Branching
  <2> QED
    BY <1>1, <2>1
<1>5. CASE f.kind = "reg"
  <2>1. f.paths \union f.alts \subseteq Outcomes(f, certain)
    BY <1>5 DEF Outcomes
  <2> QED
    BY <1>1, <2>1
<1> QED
  BY <1>2, <1>3, <1>4, <1>5 DEF Statements, Blocks

\* Where the contribution is exact, a name that is not definite is missing in
\* some outcome.
LEMMA OutcomesExact ==
  ASSUME NEW f \in Frame, FrameInv(f), f.kind \in Statements, NEW certain \in BOOLEAN,
         ExactOn(f, certain), NEW x \in Signals \ f.parts, x \notin Definite(f)
  PROVE  \E o \in Outcomes(f, certain) : x \notin o
<1> USE DEF FrameInv, ExactInv, ExactOn
<1>1. CASE f.kind \in {"comb", "unchecked"}
  BY <1>1 DEF Outcomes, Definite
<1>2. CASE f.kind = "for"
  <2>1. {} \in Outcomes(f, certain)
    BY <1>2 DEF Outcomes
  <2> QED
    BY <2>1
<1>3. CASE f.kind \in Branching /\ f.total
  <2>1. f.paths \union f.alts \subseteq Outcomes(f, certain)
    BY <1>3 DEF Outcomes, Branching
  <2>2. CASE f.kind \in {"if", "match"}
    <3>1. x \notin f.def \/ \E s \in f.ends : x \notin s
      BY <1>3, <2>2 DEF Definite
    <3> QED
      BY <2>1, <3>1
  <2> QED
    BY <1>3, <2>2 DEF EarlierInv
<1>4. CASE f.kind \in Branching /\ ~f.total
  <2>1. {} \in Outcomes(f, certain)
    BY <1>4 DEF Outcomes, Branching
  <2> QED
    BY <2>1
<1>5. CASE f.kind = "reg"
  <2>1. {} \in Outcomes(f, certain)
    BY <1>5 DEF Outcomes
  <2> QED
    BY <2>1
<1> QED
  BY <1>1, <1>2, <1>3, <1>4, <1>5 DEF Statements, Blocks

-----------------------------------------------------------------------------

\* The stack cut down to m frames, and one more.
LEMMA Prefix ==
  ASSUME frames \in Seq(Frame), NEW m \in 0 .. Len(frames), NEW f \in Frame,
         NEW s, s = Append(SubSeq(frames, 1, m), f)
  PROVE  /\ s \in Seq(Frame)
         /\ Len(s) = m + 1
         /\ s[m + 1] = f
         /\ \A i \in 1 .. m : s[i] = frames[i]
<1> DEFINE b == SubSeq(frames, 1, m)
<1>1. b \in Seq(Frame) /\ Len(b) = m /\ \A i \in 1 .. m : b[i] = frames[i]
  OBVIOUS
<1>2. s = Append(b, f)
  OBVIOUS
<1>3. m \in Nat
  OBVIOUS
<1> HIDE DEF b
<1> QED
  BY <1>1, <1>2, <1>3

\* What a stack keeps when its innermost frame is replaced, or left.
LEMMA ReplaceTop ==
  ASSUME frames \in Seq(Frame), frames # <<>>, FramesInv,
         NEW f \in Frame, FrameInv(f), f.kind = Top.kind, frames' = Replace(f)
  PROVE  frames' \in Seq(Frame) /\ FramesInv'
<1> DEFINE n == Len(frames)
<1>1. /\ n \in Nat \ {0}
      /\ frames' \in Seq(Frame)
      /\ Len(frames') = n
      /\ frames'[n] = f
      /\ \A i \in 1 .. n - 1 : frames'[i] = frames[i]
  <2> DEFINE m == n - 1
  <2>1. n \in Nat \ {0} /\ m \in 0 .. Len(frames) /\ n = m + 1
    OBVIOUS
  <2>2. frames' = Append(SubSeq(frames, 1, m), f)
    BY DEF Replace, Below
  <2> HIDE DEF m
  <2>3. /\ frames' \in Seq(Frame) /\ Len(frames') = m + 1 /\ frames'[m + 1] = f
        /\ \A i \in 1 .. m : frames'[i] = frames[i]
    BY <2>1, <2>2, Prefix
  <2> QED
    BY <2>1, <2>3
<1>2. \A i \in 1 .. Len(frames') : FrameInv(frames'[i])
  BY <1>1 DEF FramesInv
<1>3. frames'[1].kind = "module"
  <2>1. CASE n = 1
    BY <1>1, <2>1 DEF FramesInv, Top
  <2>2. CASE n # 1
    BY <1>1, <2>2 DEF FramesInv
  <2> QED
    BY <2>1, <2>2
<1> QED
  BY <1>1, <1>2, <1>3 DEF FramesInv

LEMMA PushFrame ==
  ASSUME frames \in Seq(Frame), FramesInv, NEW f \in Frame, FrameInv(f),
         frames = <<>> => f.kind = "module", frames' = Append(frames, f)
  PROVE  frames' \in Seq(Frame) /\ FramesInv'
<1> DEFINE n == Len(frames)
<1>1. /\ n \in Nat
      /\ frames' \in Seq(Frame)
      /\ Len(frames') = n + 1
      /\ frames'[n + 1] = f
      /\ \A i \in 1 .. n : frames'[i] = frames[i]
  OBVIOUS
<1>2. \A i \in 1 .. Len(frames') : FrameInv(frames'[i])
  BY <1>1 DEF FramesInv
<1>3. frames'[1].kind = "module"
  <2>1. CASE n = 0
    BY <1>1, <2>1
  <2>2. CASE n # 0
    BY <1>1, <2>2 DEF FramesInv
  <2> QED
    BY <2>1, <2>2
<1> QED
  BY <1>1, <1>2, <1>3 DEF FramesInv

LEMMA LeaveFrame ==
  ASSUME frames \in Seq(Frame), FramesInv, Len(frames) > 1,
         NEW f \in Frame, FrameInv(f), f.kind = Parent.kind, frames' = PopTo(f)
  PROVE  frames' \in Seq(Frame) /\ FramesInv'
<1> DEFINE n == Len(frames)
<1>1. /\ n \in Nat /\ n > 1
      /\ frames' \in Seq(Frame)
      /\ Len(frames') = n - 1
      /\ frames'[n - 1] = f
      /\ \A i \in 1 .. n - 2 : frames'[i] = frames[i]
  <2> DEFINE m == n - 2
  <2>1. n \in Nat /\ n > 1 /\ m \in 0 .. Len(frames) /\ n = m + 2
    OBVIOUS
  <2>2. frames' = Append(SubSeq(frames, 1, m), f)
    BY DEF PopTo
  <2> HIDE DEF m
  <2>3. /\ frames' \in Seq(Frame) /\ Len(frames') = m + 1 /\ frames'[m + 1] = f
        /\ \A i \in 1 .. m : frames'[i] = frames[i]
    BY <2>1, <2>2, Prefix
  <2> QED
    BY <2>1, <2>3
<1>2. \A i \in 1 .. Len(frames') : FrameInv(frames'[i])
  BY <1>1 DEF FramesInv
<1>3. frames'[1].kind = "module"
  <2>1. CASE n = 2
    <3>1. frames'[1] = f
      BY <1>1, <2>1
    <3>2. Parent = frames[1]
      BY <2>1 DEF Parent
    <3>3. frames[1].kind = "module"
      BY <1>1 DEF FramesInv
    <3> QED
      BY <3>1, <3>2, <3>3
  <2>2. CASE n # 2
    BY <1>1, <2>2 DEF FramesInv
  <2> QED
    BY <2>1, <2>2
<1> QED
  BY <1>1, <1>2, <1>3 DEF FramesInv

LEMMA TopFrame ==
  ASSUME frames \in Seq(Frame), frames # <<>>, FramesInv
  PROVE  /\ Top \in Frame /\ FrameInv(Top)
         /\ Len(frames) > 1 => Parent \in Frame /\ FrameInv(Parent)
         /\ Top.kind # "module" => Len(frames) > 1
<1>1. Len(frames) \in Nat \ {0} /\ \A i \in 1 .. Len(frames) : frames[i] \in Frame
  OBVIOUS
<1> QED
  BY <1>1 DEF FramesInv, Top, Parent

LEMMA UpdatedFrame ==
  ASSUME NEW g \in Frame, NEW d \in SUBSET Signals, NEW c \in SUBSET Signals,
         NEW P \in SUBSET SUBSET Signals, NEW q \in SUBSET Signals, NEW e \in BOOLEAN
  PROVE  [g EXCEPT !.def = d, !.all = c, !.paths = P, !.parts = q, !.exact = e] \in Frame
BY DEF Frame

\* The parent of a statement that is left, with its contribution.
Absorb(g, f, certain) ==
  [g EXCEPT !.def = @ \union Definite(f),
            !.all = @ \union Collected(f),
            !.paths = Joined(@, Outcomes(f, certain)),
            !.parts = @ \union f.parts,
            !.exact = @ /\ ExactOn(f, certain)]

LEMMA AbsorbInv ==
  ASSUME NEW f \in Frame, FrameInv(f), f.kind \in Statements,
         NEW g \in Frame, FrameInv(g),
         NEW certain \in BOOLEAN, certain => ~f.total
  PROVE  Absorb(g, f, certain) \in Frame /\ FrameInv(Absorb(g, f, certain))
<1> DEFINE h == Absorb(g, f, certain)
           O == Outcomes(f, certain)
           D == Definite(f)
           C == Collected(f)
           X == ExactOn(f, certain)
<1>1. /\ h.kind = g.kind /\ h.total = g.total
      /\ h.def = g.def \union D /\ h.all = g.all \union C
      /\ h.ends = g.ends /\ h.earlier = g.earlier /\ h.alts = g.alts
      /\ h.paths = Joined(g.paths, O)
      /\ h.parts = g.parts \union f.parts
      /\ h.exact = (g.exact /\ X)
      /\ h.wired = g.wired /\ h.generated = g.generated
  BY DEF Absorb, Frame
<1>2. /\ \A o \in O : o \in SUBSET Signals /\ D \subseteq o /\ o \subseteq C \union f.parts
      /\ O # {}
      /\ \A x \in C : \E o \in O : x \in o
  BY OutcomesBounded, OutcomesWitness
<1>3. D \in SUBSET Signals /\ C \in SUBSET Signals /\ X \in BOOLEAN
  BY DEF Frame, Definite, Collected, ExactOn
<1>4. X => \A x \in Signals \ f.parts : x \notin D => \E o \in O : x \notin o
  BY OutcomesExact
<1> HIDE DEF O, D, C, X
<1>5. h \in Frame
  <2>1. h = [g EXCEPT !.def = h.def, !.all = h.all, !.paths = h.paths,
                      !.parts = h.parts, !.exact = h.exact]
    BY DEF Absorb, Frame
  <2>2. h.def \in SUBSET Signals /\ h.all \in SUBSET Signals /\ h.parts \in SUBSET Signals
    BY <1>1, <1>3 DEF Frame
  <2>3. h.paths \in SUBSET SUBSET Signals
    BY <1>1 DEF Joined
  <2>4. h.exact \in BOOLEAN
    BY <1>1, <1>3 DEF Frame
  <2> HIDE DEF h
  <2>5. [g EXCEPT !.def = h.def, !.all = h.all, !.paths = h.paths,
                  !.parts = h.parts, !.exact = h.exact] \in Frame
    BY <2>2, <2>3, <2>4, UpdatedFrame
  <2> QED
    BY <2>1, <2>5
<1> HIDE DEF h
<1>9. \A q \in g.paths, o \in O : q \union o \in h.paths
  BY <1>1, <1>2 DEF Joined, Frame
<1>6. BranchInv(h)
  <2>1. h.paths # {}
    BY <1>2, <1>9 DEF FrameInv, BranchInv
  <2>2. ASSUME NEW p \in h.paths PROVE h.def \subseteq p /\ p \subseteq h.all \union h.parts
    <3>1. PICK q \in g.paths, o \in O : p = q \union o
      BY <1>1 DEF Joined
    <3> QED
      BY <3>1, <1>1, <1>2 DEF FrameInv, BranchInv
  <2>3. ASSUME NEW x \in h.all PROVE \E p \in h.paths : x \in p
    <3>1. CASE x \in g.all
      <4>1. PICK q \in g.paths : x \in q
        BY <3>1 DEF FrameInv, BranchInv
      <4>2. PICK o \in O : TRUE
        BY <1>2
      <4> QED
        BY <4>1, <4>2, <1>9
    <3>2. CASE x \in C
      <4>1. PICK o \in O : x \in o
        BY <3>2, <1>2
      <4>2. PICK q \in g.paths : TRUE
        BY DEF FrameInv, BranchInv
      <4> QED
        BY <4>1, <4>2, <1>9
    <3> QED
      BY <3>1, <3>2, <1>1
  <2> QED
    BY <2>1, <2>2, <2>3 DEF BranchInv
<1>7. EarlierInv(h)
  BY <1>1 DEF FrameInv, EarlierInv
<1>8. ExactInv(h)
  <2> SUFFICES ASSUME h.exact, NEW x \in Signals \ h.parts
               PROVE  /\ x \notin h.def => \E p \in h.paths : x \notin p
                      /\ \A s \in h.ends : x \notin s => \E q \in h.alts : x \notin q
    BY DEF ExactInv
  <2>1. g.exact /\ X /\ x \notin g.parts /\ x \notin f.parts
    BY <1>1
  <2>2. \A s \in h.ends : x \notin s => \E q \in h.alts : x \notin q
    BY <2>1, <1>1 DEF FrameInv, ExactInv
  <2>3. ASSUME x \notin h.def PROVE \E p \in h.paths : x \notin p
    <3>1. PICK p \in g.paths : x \notin p
      BY <2>1, <2>3, <1>1 DEF FrameInv, ExactInv
    <3>2. PICK o \in O : x \notin o
      BY <2>1, <2>3, <1>1, <1>4
    <3> QED
      BY <3>1, <3>2, <1>9
  <2> QED
    BY <2>2, <2>3
<1> QED
  BY <1>5, <1>6, <1>7, <1>8 DEF FrameInv, h

-----------------------------------------------------------------------------

Reports == [error : Errors, name : Signals]
FlawType == [error : Errors, name : Signals, via : Escapes]

\* A step that reports the flaws it makes.
LEMMA ReportStep ==
  ASSUME TypeOK, FlawsReported,
         NEW E \in SUBSET Reports, NEW F \in SUBSET FlawType,
         \A t \in F : t.via = "plain" => [error |-> t.error, name |-> t.name] \in E,
         errors' = errors \union E, flaws' = flaws \union F
  PROVE  /\ errors' \subseteq Reports /\ flaws' \subseteq FlawType
         /\ FlawsReported'
BY DEF TypeOK, FlawsReported, Reports, FlawType

LEMMA ReportType ==
  ASSUME NEW error \in Errors, NEW names \in SUBSET Signals
  PROVE  /\ Report(error, names) \in SUBSET Reports
         /\ ~InGen => \A x \in names : [error |-> error, name |-> x] \in Report(error, names)
BY DEF Report, Reports

LEMMA FlawsType ==
  ASSUME NEW error \in Errors, NEW names \in SUBSET Signals, NEW f
  PROVE  /\ Flaw(error, f, names) \in SUBSET FlawType
         /\ \A t \in Flaw(error, f, names) :
              /\ t.error = error /\ t.name \in names
              /\ t.via = "plain" => ~InGen /\ t.name \notin f.parts /\ t.name \notin ErrorTyped
<1>1. \A x : Via(f, x) \in Escapes
  BY DEF Via, Escapes
<1>2. \A x : Via(f, x) = "plain" => ~InGen /\ x \notin f.parts /\ x \notin ErrorTyped
  BY DEF Via
<1> QED
  BY <1>1, <1>2 DEF Flaw, FlawType

LEMMA GrowType == TypeOK /\ Grow => size' \in 0 .. MaxSize
BY BoundsAssumption DEF TypeOK, Grow

\* A statement that assigns the name x, wholly or in part.
LEMMA AssignedInv ==
  ASSUME NEW f \in Frame, FrameInv(f), NEW x \in Signals
  PROVE  LET g == [f EXCEPT !.def = @ \union {x}, !.all = @ \union {x},
                            !.paths = {p \union {x} : p \in @}]
             h == [f EXCEPT !.parts = @ \union {x}, !.paths = {p \union {x} : p \in @}]
         IN  g \in Frame /\ FrameInv(g) /\ h \in Frame /\ FrameInv(h)
<1> DEFINE P == {p \union {x} : p \in f.paths}
           g == [f EXCEPT !.def = @ \union {x}, !.all = @ \union {x}, !.paths = P]
           h == [f EXCEPT !.parts = @ \union {x}, !.paths = P]
<1>1. P \in SUBSET SUBSET Signals
  BY DEF Frame
<1>2. g \in Frame /\ h \in Frame
  <2> HIDE DEF P
  <2> QED
    BY <1>1 DEF Frame
<1>3. /\ g.kind = f.kind /\ g.total = f.total /\ g.exact = f.exact /\ g.parts = f.parts
      /\ g.ends = f.ends /\ g.alts = f.alts /\ g.earlier = f.earlier
      /\ g.def = f.def \union {x} /\ g.all = f.all \union {x} /\ g.paths = P
      /\ h.kind = f.kind /\ h.total = f.total /\ h.exact = f.exact
      /\ h.ends = f.ends /\ h.alts = f.alts /\ h.earlier = f.earlier
      /\ h.def = f.def /\ h.all = f.all /\ h.parts = f.parts \union {x} /\ h.paths = P
  BY DEF Frame
<1>7. /\ \A q \in P : \E p \in f.paths : q = p \union {x}
      /\ \A p \in f.paths : p \union {x} \in P
  OBVIOUS
<1> HIDE DEF g, h, P
<1>4. BranchInv(g) /\ BranchInv(h)
  <2>1. P # {}
    BY <1>7 DEF FrameInv, BranchInv
  <2>2. ASSUME NEW q \in P
        PROVE  /\ g.def \subseteq q /\ q \subseteq g.all \union g.parts
               /\ h.def \subseteq q /\ q \subseteq h.all \union h.parts
    <3>1. PICK p \in f.paths : q = p \union {x}
      BY <1>7
    <3>2. f.def \subseteq p /\ p \subseteq f.all \union f.parts
      BY DEF FrameInv, BranchInv
    <3> QED
      BY <1>3, <3>1, <3>2
  <2>3. ASSUME NEW y \in f.all \union {x} PROVE \E q \in P : y \in q
    <3>1. CASE y = x
      BY <2>1, <3>1, <1>7
    <3>2. CASE y \in f.all
      <4>1. PICK p \in f.paths : y \in p
        BY <3>2 DEF FrameInv, BranchInv
      <4> QED
        BY <4>1, <1>7
    <3> QED
      BY <3>1, <3>2
  <2> QED
    BY <1>3, <2>1, <2>2, <2>3 DEF BranchInv
<1>5. EarlierInv(g) /\ EarlierInv(h)
  BY <1>3 DEF FrameInv, EarlierInv
<1>6. ExactInv(g) /\ ExactInv(h)
  <2>1. ASSUME f.exact, NEW y \in Signals \ f.parts, y # x, y \notin f.def
        PROVE  \E q \in P : y \notin q
    <3>1. PICK p \in f.paths : y \notin p
      BY <2>1 DEF FrameInv, ExactInv
    <3> QED
      BY <2>1, <3>1, <1>7
  <2>2. ASSUME f.exact, NEW y \in Signals \ f.parts, NEW s \in f.ends, y \notin s
        PROVE  \E q \in f.alts : y \notin q
    BY <2>2 DEF FrameInv, ExactInv
  <2> QED
    BY <1>3, <2>1, <2>2 DEF ExactInv
<1> QED
  BY <1>2, <1>4, <1>5, <1>6 DEF FrameInv, g, h, P

\* The next branch of a construct.
LEMMA BranchedInv ==
  ASSUME NEW f \in Frame, FrameInv(f), NEW last \in BOOLEAN, f.kind \notin Blocks,
         last => f.kind \in {"if", "match", "priority"}
  PROVE  LET g == [f EXCEPT !.total = @ \/ last,
                            !.def = {}, !.ends = @ \union {f.def},
                            !.all = {}, !.earlier = @ \union f.all,
                            !.paths = {{}}, !.alts = @ \union f.paths]
         IN  g \in Frame /\ FrameInv(g)
<1> DEFINE t == f.total \/ last
           g == [f EXCEPT !.total = t,
                          !.def = {}, !.ends = @ \union {f.def},
                          !.all = {}, !.earlier = @ \union f.all,
                          !.paths = {{}}, !.alts = @ \union f.paths]
<1>1. t \in BOOLEAN
  BY DEF Frame
<1>2. g \in Frame
  <2> HIDE DEF t
  <2> QED
    BY <1>1 DEF Frame
<1>3. /\ g.kind = f.kind /\ g.total = t /\ g.exact = f.exact /\ g.parts = f.parts
      /\ g.ends = f.ends \union {f.def} /\ g.alts = f.alts \union f.paths
      /\ g.earlier = f.earlier \union f.all
      /\ g.def = {} /\ g.all = {} /\ g.paths = {{}}
  BY DEF Frame
<1> HIDE DEF g
<1>4. BranchInv(g)
  BY <1>3 DEF BranchInv
<1>5. EarlierInv(g)
  BY <1>3 DEF FrameInv, BranchInv, EarlierInv
<1>6. ExactInv(g)
  BY <1>3 DEF FrameInv, ExactInv
<1> QED
  BY <1>2, <1>4, <1>5, <1>6 DEF FrameInv, g

-----------------------------------------------------------------------------

LEMMA InitIInv == Init => IInv
<1> SUFFICES ASSUME Init PROVE IInv
  OBVIOUS
<1>1. frames = <<>> /\ errors = {} /\ flaws = {} /\ size = 0
  BY DEF Init
<1>2. Len(frames) = 0 /\ frames \in Seq(Frame)
  BY <1>1
<1> QED
  BY <1>1, <1>2, BoundsAssumption DEF IInv, TypeOK, FramesInv, FlawsReported

\* A step that changes neither the errors nor the flaws.
LEMMA QuietStep ==
  ASSUME TypeOK, FlawsReported, UNCHANGED <<errors, flaws>>,
         frames' \in Seq(Frame), FramesInv', size' \in 0 .. MaxSize
  PROVE  IInv'
BY DEF IInv, TypeOK, FramesInv, FlawsReported

\* A step that reports the flaws it makes.
LEMMA LoudStep ==
  ASSUME TypeOK, FlawsReported,
         NEW E \in SUBSET Reports, NEW F \in SUBSET FlawType,
         \A t \in F : t.via = "plain" => [error |-> t.error, name |-> t.name] \in E,
         errors' = errors \union E, flaws' = flaws \union F,
         frames' \in Seq(Frame), FramesInv', size' \in 0 .. MaxSize
  PROVE  IInv'
BY ReportStep DEF IInv, TypeOK, FramesInv, Reports, FlawType

LEMMA AssignStep ==
  ASSUME IInv, NEW x \in Signals, Assign(x)
  PROVE  IInv'
<1> DEFINE f == [Top EXCEPT !.def = @ \union {x}, !.all = @ \union {x},
                            !.paths = {p \union {x} : p \in @}]
           N == {x} \intersect Immutable
           E == Report("InvalidAssignTarget", N)
           F == {[error |-> "InvalidAssignTarget", name |-> y,
                  via |-> IF InGen THEN "gen" ELSE "plain"] : y \in N}
<1>1. /\ frames # <<>> /\ Grow /\ frames' = Replace(f)
      /\ errors' = errors \union E /\ flaws' = flaws \union F
  BY DEF Assign
<1>2. TypeOK /\ FramesInv /\ FlawsReported /\ frames \in Seq(Frame)
  BY DEF IInv, TypeOK
<1>3. Top \in Frame /\ FrameInv(Top)
  BY <1>1, <1>2, TopFrame
<1>4. f \in Frame /\ FrameInv(f)
  BY <1>3, AssignedInv
<1>5. f.kind = Top.kind
  BY <1>3 DEF Frame
<1>6. frames' \in Seq(Frame) /\ FramesInv'
  <2> HIDE DEF f
  <2> QED
    BY <1>1, <1>2, <1>4, <1>5, ReplaceTop
<1>7. /\ E \in SUBSET Reports
      /\ ~InGen => \A y \in N : [error |-> "InvalidAssignTarget", name |-> y] \in E
  <2>1. "InvalidAssignTarget" \in Errors /\ N \in SUBSET Signals
    BY DEF Errors
  <2> QED
    BY <2>1, ReportType
<1>8. F \in SUBSET FlawType
  BY DEF FlawType, Errors, Escapes
<1>9. \A t \in F : t.via = "plain" => [error |-> t.error, name |-> t.name] \in E
  <2> HIDE DEF E
  <2> QED
    BY <1>7
<1>10. size' \in 0 .. MaxSize
  BY <1>1, <1>2, GrowType
<1> HIDE DEF f, E, F
<1> QED
  BY <1>1, <1>2, <1>6, <1>7, <1>8, <1>9, <1>10, LoudStep

LEMMA AssignPartStep ==
  ASSUME IInv, NEW x \in Signals, AssignPart(x)
  PROVE  IInv'
<1> DEFINE f == [Top EXCEPT !.parts = @ \union {x}, !.paths = {p \union {x} : p \in @}]
           F == {[error |-> "InvalidAssignTarget", name |-> y, via |-> "part"] :
                   y \in {x} \intersect Immutable}
<1>1. /\ frames # <<>> /\ Grow /\ frames' = Replace(f)
      /\ errors' = errors \union {} /\ flaws' = flaws \union F
  BY DEF AssignPart
<1>2. TypeOK /\ FramesInv /\ FlawsReported /\ frames \in Seq(Frame)
  BY DEF IInv, TypeOK
<1>3. Top \in Frame /\ FrameInv(Top)
  BY <1>1, <1>2, TopFrame
<1>4. f \in Frame /\ FrameInv(f)
  BY <1>3, AssignedInv
<1>5. f.kind = Top.kind
  BY <1>3 DEF Frame
<1>6. frames' \in Seq(Frame) /\ FramesInv'
  <2> HIDE DEF f
  <2> QED
    BY <1>1, <1>2, <1>4, <1>5, ReplaceTop
<1>7. F \in SUBSET FlawType /\ \A t \in F : t.via # "plain"
  BY DEF FlawType, Errors, Escapes
<1>8. size' \in 0 .. MaxSize
  BY <1>1, <1>2, GrowType
<1> HIDE DEF f, F
<1> QED
  BY <1>1, <1>2, <1>6, <1>7, <1>8, LoudStep

LEMMA OpenStep ==
  ASSUME IInv, NEW kind \in Statements \union Items, NEW wild \in BOOLEAN,
         \/ OpenStmt(kind, wild)
         \/ OpenItem(kind) /\ ~wild
  PROVE  IInv'
<1> DEFINE f == NewFrame(kind, wild)
<1>1. /\ Grow /\ frames' = Append(frames, f) /\ UNCHANGED <<errors, flaws>>
      /\ wild => kind = "match"
      /\ frames = <<>> => kind = "module"
  BY DEF OpenStmt, OpenItem
<1>2. TypeOK /\ FramesInv /\ FlawsReported /\ frames \in Seq(Frame)
  BY DEF IInv, TypeOK
<1>3. f \in Frame /\ FrameInv(f)
  BY <1>1, NewFrameInv
<1>4. f.kind = kind
  BY DEF NewFrame
<1> HIDE DEF f
<1>5. frames' \in Seq(Frame) /\ FramesInv'
  BY <1>1, <1>2, <1>3, <1>4, PushFrame
<1> QED
  BY <1>1, <1>2, <1>5, GrowType, QuietStep

LEMMA InstanceStep ==
  ASSUME IInv, NEW x \in Signals, Instance(x)
  PROVE  IInv'
<1> DEFINE f == [Top EXCEPT !.wired = @ \union {x}]
<1>1. frames # <<>> /\ Grow /\ frames' = Replace(f) /\ UNCHANGED <<errors, flaws>>
  BY DEF Instance
<1>2. TypeOK /\ FramesInv /\ FlawsReported /\ frames \in Seq(Frame)
  BY DEF IInv, TypeOK
<1>3. Top \in Frame /\ FrameInv(Top)
  BY <1>1, <1>2, TopFrame
<1>4. f \in Frame /\ f.kind = Top.kind
  BY <1>3 DEF Frame
<1>5. FrameInv(f)
  <2>1. /\ f.total = Top.total /\ f.def = Top.def /\ f.ends = Top.ends /\ f.all = Top.all
        /\ f.earlier = Top.earlier /\ f.paths = Top.paths /\ f.alts = Top.alts
        /\ f.parts = Top.parts /\ f.exact = Top.exact
    BY <1>3 DEF Frame
  <2> HIDE DEF f
  <2> QED
    BY <1>3, <1>4, <2>1 DEF FrameInv, BranchInv, EarlierInv, ExactInv
<1> HIDE DEF f
<1>6. frames' \in Seq(Frame) /\ FramesInv'
  BY <1>1, <1>2, <1>4, <1>5, ReplaceTop
<1> QED
  BY <1>1, <1>2, <1>6, GrowType, QuietStep

LEMMA NextBranchStep ==
  ASSUME IInv, NEW last \in BOOLEAN, NextBranch(last)
  PROVE  IInv'
<1> DEFINE f == [Top EXCEPT !.total = @ \/ last,
                            !.def = {}, !.ends = @ \union {Top.def},
                            !.all = {}, !.earlier = @ \union Top.all,
                            !.paths = {{}}, !.alts = @ \union Top.paths]
<1>1. /\ frames # <<>> /\ Grow /\ frames' = Replace(f) /\ UNCHANGED <<errors, flaws>>
      /\ Top.kind \notin Blocks
      /\ last => Top.kind \in {"if", "match", "priority"}
  BY DEF NextBranch, Blocks
<1>2. TypeOK /\ FramesInv /\ FlawsReported /\ frames \in Seq(Frame)
  BY DEF IInv, TypeOK
<1>3. Top \in Frame /\ FrameInv(Top)
  BY <1>1, <1>2, TopFrame
<1>4. f \in Frame /\ FrameInv(f)
  BY <1>1, <1>3, BranchedInv
<1>5. f.kind = Top.kind
  BY <1>3 DEF Frame
<1> HIDE DEF f
<1>6. frames' \in Seq(Frame) /\ FramesInv'
  BY <1>1, <1>2, <1>4, <1>5, ReplaceTop
<1> QED
  BY <1>1, <1>2, <1>6, GrowType, QuietStep

\* A latch is reported where the comb block ends, a missing reset where the
\* reg block does.
LEMMA LatchCaught ==
  ASSUME NEW f \in Frame, FrameInv(f),
         NEW x \in Latches(f), x \notin f.parts, x \notin ErrorTyped
  PROVE  x \in LatchErrors(f)
<1>1. PICK p \in f.paths, q \in f.paths : x \in p /\ x \notin q
  BY DEF Latches
<1> QED
  BY <1>1 DEF FrameInv, BranchInv, LatchErrors, Collected

LEMMA ResetCaught ==
  ASSUME NEW f \in Frame, FrameInv(f),
         NEW x \in Unreset(f), x \notin f.parts, x \notin ErrorTyped
  PROVE  x \in ResetErrors(f)
<1>1. PICK p \in f.paths : x \in p
  BY DEF Unreset
<1>2. x \in f.all
  BY <1>1 DEF FrameInv, BranchInv
<1>3. x \notin f.earlier
  BY DEF Unreset, FrameInv, EarlierInv
<1> QED
  BY <1>2, <1>3 DEF ResetErrors

\* The errors and flaws of one kind that a block adds where it ends.
LEMMA BlockReports ==
  ASSUME NEW error \in Errors, NEW f, NEW B \in SUBSET Signals, NEW R \in SUBSET Signals,
         \A x \in B : x \notin f.parts /\ x \notin ErrorTyped => x \in R,
         NEW here \in BOOLEAN
  PROVE  LET E == IF here THEN Report(error, R) ELSE {}
             F == IF here THEN Flaw(error, f, B) ELSE {}
         IN  /\ E \in SUBSET Reports /\ F \in SUBSET FlawType
             /\ \A t \in F : t.via = "plain" => [error |-> t.error, name |-> t.name] \in E
<1>1. /\ Report(error, R) \in SUBSET Reports
      /\ ~InGen => \A x \in R : [error |-> error, name |-> x] \in Report(error, R)
  BY ReportType
<1>2. /\ Flaw(error, f, B) \in SUBSET FlawType
      /\ \A t \in Flaw(error, f, B) :
           /\ t.error = error /\ t.name \in B
           /\ t.via = "plain" => ~InGen /\ t.name \notin f.parts /\ t.name \notin ErrorTyped
  BY FlawsType
<1>3. \A t \in Flaw(error, f, B) :
        t.via = "plain" => [error |-> t.error, name |-> t.name] \in Report(error, R)
  BY <1>1, <1>2
<1> QED
  BY <1>1, <1>2, <1>3

LEMMA CloseStmtStep ==
  ASSUME IInv, NEW certain \in BOOLEAN, CloseStmt(certain)
  PROVE  IInv'
<1> DEFINE f == Top
           g == Absorb(Parent, f, certain)
           comb == f.kind = "comb"
           reg == f.kind = "reg"
           E1 == IF comb THEN Report("LatchInferred", LatchErrors(f)) ELSE {}
           E2 == IF reg THEN Report("NoReset", ResetErrors(f)) ELSE {}
           F1 == IF comb THEN Flaw("LatchInferred", f, Latches(f)) ELSE {}
           F2 == IF reg THEN Flaw("NoReset", f, Unreset(f)) ELSE {}
<1>1. /\ frames # <<>> /\ f.kind \in Statements
      /\ certain => ~f.total
      /\ frames' = PopTo(g)
      /\ errors' = errors \union E1 \union E2 /\ flaws' = flaws \union F1 \union F2
      /\ size' = size
  BY DEF CloseStmt, Absorb
<1>2. TypeOK /\ FramesInv /\ FlawsReported /\ frames \in Seq(Frame) /\ size \in 0 .. MaxSize
  BY DEF IInv, TypeOK
<1>3. f.kind # "module"
  BY <1>1 DEF Statements, Blocks, Branching
<1>4. Top \in Frame /\ FrameInv(Top) /\ Len(frames) > 1 /\ Parent \in Frame /\ FrameInv(Parent)
  BY <1>1, <1>2, <1>3, TopFrame
<1>5. g \in Frame /\ FrameInv(g)
  BY <1>1, <1>4, AbsorbInv
<1>6. g.kind = Parent.kind
  BY <1>4 DEF Absorb, Frame
<1>7. frames' \in Seq(Frame) /\ FramesInv'
  <2> HIDE DEF g
  <2> QED
    BY <1>1, <1>2, <1>4, <1>5, <1>6, LeaveFrame
<1>8. /\ LatchErrors(f) \in SUBSET Signals /\ Latches(f) \in SUBSET Signals
      /\ ResetErrors(f) \in SUBSET Signals /\ Unreset(f) \in SUBSET Signals
  BY <1>4 DEF LatchErrors, Latches, ResetErrors, Unreset, Collected, Frame
<1>9. /\ E1 \in SUBSET Reports /\ F1 \in SUBSET FlawType
      /\ \A t \in F1 : t.via = "plain" => [error |-> t.error, name |-> t.name] \in E1
  <2>1. \A x \in Latches(f) : x \notin f.parts /\ x \notin ErrorTyped => x \in LatchErrors(f)
    BY <1>4, LatchCaught
  <2>2. "LatchInferred" \in Errors /\ comb \in BOOLEAN
    BY DEF Errors
  <2> HIDE DEF f, comb
  <2> QED
    BY <2>1, <2>2, <1>8, BlockReports
<1>10. /\ E2 \in SUBSET Reports /\ F2 \in SUBSET FlawType
       /\ \A t \in F2 : t.via = "plain" => [error |-> t.error, name |-> t.name] \in E2
  <2>1. \A x \in Unreset(f) : x \notin f.parts /\ x \notin ErrorTyped => x \in ResetErrors(f)
    BY <1>4, ResetCaught
  <2>2. "NoReset" \in Errors /\ reg \in BOOLEAN
    BY DEF Errors
  <2> HIDE DEF f, reg
  <2> QED
    BY <2>1, <2>2, <1>8, BlockReports
<1> HIDE DEF E1, E2, F1, F2, f, g
<1>11. /\ errors' = errors \union (E1 \union E2) /\ flaws' = flaws \union (F1 \union F2)
       /\ (E1 \union E2) \in SUBSET Reports /\ (F1 \union F2) \in SUBSET FlawType
  BY <1>1, <1>9, <1>10
<1>12. \A t \in F1 \union F2 :
         t.via = "plain" => [error |-> t.error, name |-> t.name] \in E1 \union E2
  BY <1>9, <1>10
<1> QED
  BY <1>1, <1>2, <1>7, <1>11, <1>12, LoudStep

LEMMA CloseGenStep ==
  ASSUME IInv, CloseGen
  PROVE  IInv'
<1> DEFINE inside == Collected(Top) \union Top.parts \union Top.wired \union Top.generated
           g == [Parent EXCEPT !.generated = @ \union inside]
<1>1. /\ frames # <<>> /\ Top.kind = "gen" /\ frames' = PopTo(g)
      /\ UNCHANGED <<errors, flaws, size>>
  BY DEF CloseGen
<1>2. TypeOK /\ FramesInv /\ FlawsReported /\ frames \in Seq(Frame) /\ size \in 0 .. MaxSize
  BY DEF IInv, TypeOK
<1>3. Top \in Frame /\ Len(frames) > 1 /\ Parent \in Frame /\ FrameInv(Parent)
  BY <1>1, <1>2, TopFrame
<1>4. inside \in SUBSET Signals
  BY <1>3 DEF Frame, Collected
<1> HIDE DEF inside
<1>5. g \in Frame /\ g.kind = Parent.kind
  BY <1>3, <1>4 DEF Frame
<1>6. FrameInv(g)
  <2>1. /\ g.total = Parent.total /\ g.def = Parent.def /\ g.ends = Parent.ends
        /\ g.all = Parent.all /\ g.earlier = Parent.earlier /\ g.paths = Parent.paths
        /\ g.alts = Parent.alts /\ g.parts = Parent.parts /\ g.exact = Parent.exact
    BY <1>3 DEF Frame
  <2> HIDE DEF g
  <2> QED
    BY <1>3, <1>5, <2>1 DEF FrameInv, BranchInv, EarlierInv, ExactInv
<1> HIDE DEF g
<1>7. frames' \in Seq(Frame) /\ FramesInv'
  BY <1>1, <1>2, <1>3, <1>5, <1>6, LeaveFrame
<1> QED
  BY <1>1, <1>2, <1>7, QuietStep

LEMMA CloseModuleStep ==
  ASSUME IInv, CloseModule
  PROVE  IInv'
<1> DEFINE driven == Collected(Top) \union Top.parts \union Top.wired \union Top.generated
           B == OutPorts \ driven
           E == Report("UnconnectedPort", PortErrors(Top))
           F == {[error |-> "UnconnectedPort", name |-> x,
                  via |-> IF InGen THEN "gen" ELSE "plain"] : x \in B}
<1>1. /\ frames # <<>> /\ frames' = Below
      /\ errors' = errors \union E /\ flaws' = flaws \union F
      /\ size' = size
  BY DEF CloseModule
<1>2. TypeOK /\ FramesInv /\ FlawsReported /\ frames \in Seq(Frame) /\ size \in 0 .. MaxSize
  BY DEF IInv, TypeOK
<1>3. frames' \in Seq(Frame) /\ FramesInv'
  <2> DEFINE m == Len(frames) - 1
  <2>1. m \in Nat /\ m < Len(frames)
    BY <1>1, <1>2
  <2>4. frames' = SubSeq(frames, 1, m)
    BY <1>1 DEF Below
  <2>2. /\ frames' \in Seq(Frame) /\ Len(frames') = m
        /\ \A i \in 1 .. m : frames'[i] = frames[i]
    <3> HIDE DEF m, E, F
    <3> QED
      BY <1>2, <2>1, <2>4
  <2>3. frames' # <<>> => m > 0
    BY <2>1, <2>2
  <2> HIDE DEF m
  <2> QED
    BY <1>1, <1>2, <2>1, <2>2, <2>3 DEF FramesInv
<1>4. PortErrors(Top) \in SUBSET Signals /\ B \in SUBSET Signals /\ B \subseteq PortErrors(Top)
  BY NamesAssumption DEF PortErrors
<1>5. /\ E \in SUBSET Reports
      /\ ~InGen => \A x \in PortErrors(Top) : [error |-> "UnconnectedPort", name |-> x] \in E
  <2>1. "UnconnectedPort" \in Errors
    BY DEF Errors
  <2> QED
    BY <2>1, <1>4, ReportType
<1> HIDE DEF E, B
<1>6. F \in SUBSET FlawType
  BY <1>4 DEF FlawType, Errors, Escapes
<1>7. \A t \in F : t.via = "plain" => [error |-> t.error, name |-> t.name] \in E
  BY <1>4, <1>5
<1> HIDE DEF F
<1> QED
  BY <1>1, <1>2, <1>3, <1>5, <1>6, <1>7, LoudStep

LEMMA NextIInv == IInv /\ [Next]_vars => IInv'
<1> SUFFICES ASSUME IInv, [Next]_vars PROVE IInv'
  OBVIOUS
<1>1. ASSUME NEW x \in Signals, Assign(x) PROVE IInv'
  BY <1>1, AssignStep
<1>2. ASSUME NEW x \in Signals, AssignPart(x) PROVE IInv'
  BY <1>2, AssignPartStep
<1>3. ASSUME NEW x \in Signals, Instance(x) PROVE IInv'
  BY <1>3, InstanceStep
<1>4. ASSUME NEW kind \in Statements, NEW wild \in BOOLEAN, OpenStmt(kind, wild) PROVE IInv'
  BY <1>4, OpenStep
<1>5. ASSUME NEW kind \in Items, OpenItem(kind) PROVE IInv'
  BY <1>5, OpenStep
<1>6. ASSUME NEW last \in BOOLEAN, NextBranch(last) PROVE IInv'
  BY <1>6, NextBranchStep
<1>7. ASSUME NEW certain \in BOOLEAN, CloseStmt(certain) PROVE IInv'
  BY <1>7, CloseStmtStep
<1>8. CASE CloseGen
  BY <1>8, CloseGenStep
<1>9. CASE CloseModule
  BY <1>9, CloseModuleStep
<1>10. CASE UNCHANGED vars
  BY <1>10 DEF vars, IInv, TypeOK, FramesInv, FlawsReported
<1> QED
  BY <1>1, <1>2, <1>3, <1>4, <1>5, <1>6, <1>7, <1>8, <1>9, <1>10 DEF Next

LEMMA Inductive == Spec => []IInv
BY InitIInv, NextIInv, PTL DEF Spec

\* The variables of the walk have their types, whatever the program, and
\* nothing outside a module is ever validated.
THEOREM WalkTypeCorrect == Spec => []TypeOK
<1>1. IInv => TypeOK
  BY DEF IInv
<1> QED
  BY Inductive, <1>1, PTL

\* assigned_on_all_paths is sound for every program: a name it returns is
\* assigned on every path through the block.
THEOREM DefiniteCorrect == Spec => []DefiniteOnEveryPath
<1>1. IInv => DefiniteOnEveryPath
  <2> SUFFICES ASSUME IInv, NEW i \in DOMAIN frames, NEW p \in frames[i].paths
               PROVE  frames[i].def \subseteq p
    BY DEF DefiniteOnEveryPath
  <2>1. FrameInv(frames[i])
    BY DEF IInv, FramesInv, TypeOK
  <2> QED
    BY <2>1 DEF FrameInv, BranchInv
<1> QED
  BY Inductive, <1>1, PTL

\* validate_module reports every latch, every register without reset, every
\* undriven port and every assigned constant that is none of the exceptions.
THEOREM ReportingComplete == Spec => []FlawsReported
<1>1. IInv => FlawsReported
  BY DEF IInv
<1> QED
  BY Inductive, <1>1, PTL

\* Where the walk loses nothing, validate_comb_block reports no latch that the
\* block does not have.
THEOREM LatchReportsExact == Spec => []ExactLatchReports
<1>1. IInv => ExactLatchReports
  <2> SUFFICES ASSUME IInv, NEW i \in DOMAIN frames,
                      frames[i].kind = "comb", frames[i].exact,
                      NEW x \in LatchErrors(frames[i]) \ frames[i].parts
               PROVE  x \in Latches(frames[i])
    BY DEF ExactLatchReports
  <2> DEFINE f == frames[i]
  <2>1. f \in Frame /\ FrameInv(f)
    BY DEF IInv, FramesInv, TypeOK
  <2> HIDE DEF f
  <2>2. f.kind = "comb" /\ f.exact /\ x \in LatchErrors(f) \ f.parts
    BY DEF f
  <2>3. x \in Signals /\ x \in f.all /\ x \notin f.def
    BY <2>1, <2>2 DEF LatchErrors, Collected, FrameInv, EarlierInv, Blocks, Frame
  <2>4. (\E p \in f.paths : x \in p) /\ (\E q \in f.paths : x \notin q)
    BY <2>1, <2>2, <2>3 DEF FrameInv, BranchInv, ExactInv
  <2>5. x \in Latches(f)
    BY <2>3, <2>4 DEF Latches
  <2> QED
    BY <2>5 DEF f
<1> QED
  BY Inductive, <1>1, PTL

================================================================================
