------------------------------ MODULE LexerProofs ------------------------------
(***************************************************************************)
(* What holds of the first pass over every text, of any length.            *)
(*                                                                         *)
(* The order of the tokens and what they cover is an induction along the   *)
(* text: a token begins where the position is, and ends where it goes      *)
(* (PushKeeps).  That comments nest compares a loop with a definition that *)
(* has none.  Of the places where a delimiter can be read, Delimiters      *)
(* chooses those that no chosen one covers.  There is such a choice        *)
(* (ChoiceExists) and only one, which depends on nothing further on        *)
(* (ChoiceUnique), so the delimiters of a comment are those of the text it *)
(* begins (DelimitersOfPrefix).  The loop stands where it has read exactly *)
(* the chosen delimiters before (Scanned), which is why it may skip two    *)
(* characters at each and no more than one elsewhere.                      *)
(*                                                                         *)
(* That numbers are as written compares two ways to count.  from_str_radix *)
(* and dont_care_mask read the digits from the left, the reference weighs  *)
(* each by the digits behind it.  Horner relates them: what has been read, *)
(* moved by the digits behind, is the sum so far.  The functions that the  *)
(* operators are made of exist and are what their steps say (Recursion,    *)
(* StepsExist).  Where a number ends, LongerNumber says that a pattern     *)
(* would have matched one character more.                                  *)
(***************************************************************************)
EXTENDS Lexer, FiniteSetTheorems, Induction

-----------------------------------------------------------------------------
(* The text between two places. *)

\* A slice of a text, in its own terms.
LEMMA Slices ==
  ASSUME NEW s \in Seq(STRING), NEW m \in Nat, NEW n \in Nat, m <= n, n <= Len(s)
  PROVE  /\ SubSeq(s, m + 1, n) \in Seq(STRING)
         /\ Len(SubSeq(s, m + 1, n)) = n - m
         /\ DOMAIN SubSeq(s, m + 1, n) = 1 .. n - m
         /\ \A i \in 1 .. n - m : SubSeq(s, m + 1, n)[i] = s[m + i]
<1>1. Len(s) \in Nat
  OBVIOUS
<1>2. /\ SubSeq(s, m + 1, n) \in Seq(STRING)
      /\ Len(SubSeq(s, m + 1, n)) = n - m
  BY <1>1
<1>3. \A i \in 1 .. n - m : SubSeq(s, m + 1, n)[i] = s[m + i]
  BY <1>1
<1> QED
  BY <1>2, <1>3

\* A non-empty set of places in a text has a last one.
LEMMA Latest ==
  ASSUME NEW n \in Nat, NEW T \in SUBSET (0 .. n), T # {}
  PROVE  Max(T) \in T /\ \A i \in T : i <= Max(T)
<1> DEFINE U == {n - i : i \in T}
<1>1. U \in SUBSET Nat /\ U # {}
  <2>1. \A i \in T : n - i \in Nat
    OBVIOUS
  <2> QED
    BY <2>1
<1>2. PICK u \in U : \A v \in U : u <= v
  BY <1>1, Least
<1>3. PICK m \in T : u = n - m
  BY <1>2
<1>4. \A i \in T : m >= i
  <2>1. ASSUME NEW i \in T PROVE m >= i
    <3>1. n - i \in U
      OBVIOUS
    <3> QED
      BY <1>2, <1>3, <3>1
  <2> QED
    BY <2>1
<1>5. \E x \in T : \A y \in T : x >= y
  BY <1>4
<1>6. Max(T) \in T /\ \A y \in T : Max(T) >= y
  BY <1>5 DEF Max
<1> QED
  BY <1>6

-----------------------------------------------------------------------------
(* Of places that may hold a delimiter those count that no counted one     *)
(* covers: there is one choice of them, whatever the places.               *)

Chosen(D, P) ==
  P \subseteq Nat \ {0} /\ D \subseteq P /\ \A p \in P : p \in D <=> p - 1 \notin D

Agree(D, E, m, n) == \A p \in m .. n : p \in D <=> p \in E

LEMMA ChoiceExists ==
  ASSUME NEW n \in Nat, NEW P \in SUBSET (1 .. n)
  PROVE  \E D \in SUBSET P : Chosen(D, P)
<1> DEFINE up == [i \in 1 .. n |-> i - 1]
           G == [i \in 1 .. n |-> [v \in BOOLEAN |-> i \in P /\ ~v]]
<1>1. Descending(n, BOOLEAN, FALSE, up, G)
  <2>1. up \in [1 .. n -> Nat] /\ \A i \in 1 .. n : up[i] < i
    OBVIOUS
  <2>2. G \in [1 .. n -> [BOOLEAN -> BOOLEAN]]
    BY Zenon
  <2> QED
    BY <2>1, <2>2 DEF Descending
<1>2. PICK f : Computed(f, n, BOOLEAN, FALSE, up, G)
  BY <1>1, Descent
<1> DEFINE D == {i \in P : f[i]}
<1>3. \A i \in 0 .. n : f[i] \in BOOLEAN
  BY <1>2 DEF Computed
<1>4. f[0] = FALSE /\ \A i \in 1 .. n : f[i] = G[i][f[up[i]]]
  BY <1>2 DEF Computed
<1>5. ASSUME NEW i \in P
      PROVE  i \in D <=> i - 1 \notin D
  <2>1. i \in 1 .. n /\ i - 1 \in 0 .. n /\ up[i] = i - 1
    OBVIOUS
  <2>2. f[i] = (~ f[i - 1])
    <3>1. f[i] = G[i][f[i - 1]] /\ f[i - 1] \in BOOLEAN
      BY <1>3, <1>4, <2>1
    <3>2. \A v \in BOOLEAN : G[i][v] = (~v)
      BY <2>1
    <3> QED
      BY <3>1, <3>2
  <2>3. CASE i - 1 \in P
    BY <2>2, <2>3
  <2>4. CASE i - 1 \notin P
    <3>1. f[i - 1] = FALSE
      <4>1. CASE i = 1
        BY <1>4, <4>1
      <4>2. CASE i # 1
        <5>1. i - 1 \in 1 .. n /\ up[i - 1] \in 0 .. n
          BY <2>1, <4>2
        <5>2. f[i - 1] = G[i - 1][f[up[i - 1]]] /\ f[up[i - 1]] \in BOOLEAN
          BY <1>3, <1>4, <5>1
        <5>3. \A v \in BOOLEAN : G[i - 1][v] = FALSE
          BY <5>1, <2>4
        <5> QED
          BY <5>2, <5>3
      <4> QED
        BY <4>1, <4>2
    <3> QED
      BY <2>2, <2>4, <3>1
  <2> QED
    BY <2>3, <2>4
<1>6. D \in SUBSET P
  OBVIOUS
<1> HIDE DEF D
<1> QED
  BY <1>5, <1>6 DEF Chosen

\* Two choices are the same as far as the places are.
LEMMA ChoiceUnique ==
  ASSUME NEW P, NEW Q, NEW m \in Nat, Agree(P, Q, 1, m),
         NEW D, NEW E, Chosen(D, P), Chosen(E, Q)
  PROVE  Agree(D, E, 0, m)
<1> DEFINE T == {p \in Nat : p <= m => (p \in D <=> p \in E)}
<1>1. ASSUME NEW p \in Nat, \A q \in 0 .. p - 1 : q \in T
      PROVE  p \in T
  <2>1. CASE p = 0
    BY <2>1 DEF Chosen
  <2>2. CASE p # 0
    <3>1. p - 1 \in T /\ p - 1 \in Nat
      BY <1>1, <2>2
    <3>2. SUFFICES ASSUME p <= m PROVE p \in D <=> p \in E
      OBVIOUS
    <3>3. p - 1 \in D <=> p - 1 \in E
      BY <3>1, <3>2
    <3>4. p \in P <=> p \in Q
      BY <2>2, <3>2 DEF Agree
    <3> QED
      BY <3>3, <3>4 DEF Chosen
  <2> QED
    BY <2>1, <2>2
<1>2. T = Nat
  <2> HIDE DEF T
  <2>1. T \in SUBSET Nat
    BY DEF T
  <2> QED
    BY <1>1, <2>1, Below
<1> QED
  BY <1>2 DEF Agree

-----------------------------------------------------------------------------
(* Delimiters of comments. *)

Readable(s) == Openers(s) \union Closers(s)

\* Where delimiters can be read, and that no place holds both.
LEMMA PlacesFacts ==
  ASSUME NEW s \in Seq(STRING)
  PROVE  /\ Len(s) \in Nat /\ (s = <<>> => Readable(s) = {})
         /\ Openers(s) \in SUBSET (1 .. Len(s)) /\ Closers(s) \in SUBSET (1 .. Len(s))
         /\ Readable(s) \in SUBSET (1 .. Len(s))
         /\ \A p : p \in Openers(s) <=> p \in 1 .. Len(s) - 1 /\ s[p] = "/" /\ s[p + 1] = "*"
         /\ \A p : p \in Closers(s) <=> p \in 1 .. Len(s) - 1 /\ s[p] = "*" /\ s[p + 1] = "/"
         /\ Openers(s) \intersect Closers(s) = {}
<1>1. Len(s) \in Nat /\ (s = <<>> => Len(s) = 0)
  OBVIOUS
<1>2. \A p : p \in Openers(s) <=> p \in 1 .. Len(s) - 1 /\ s[p] = "/" /\ s[p + 1] = "*"
  BY DEF Openers, Pairs
<1>3. \A p : p \in Closers(s) <=> p \in 1 .. Len(s) - 1 /\ s[p] = "*" /\ s[p + 1] = "/"
  BY DEF Closers, Pairs
<1>4. "/" # "*"
  OBVIOUS
<1>5. /\ Openers(s) \in SUBSET (1 .. Len(s)) /\ Closers(s) \in SUBSET (1 .. Len(s))
      /\ s = <<>> => Openers(s) = {} /\ Closers(s) = {}
  BY <1>1, <1>2, <1>3
<1> QED
  BY <1>1, <1>2, <1>3, <1>4, <1>5 DEF Readable

\* The delimiters that count are such a choice.
LEMMA DelimitersChosen ==
  ASSUME NEW s \in Seq(STRING)
  PROVE  Chosen(Delimiters(s), Readable(s))
<1>1. PICK D \in SUBSET Readable(s) : Chosen(D, Readable(s))
  BY PlacesFacts, ChoiceExists
<1>2. Delimiters(s) = CHOOSE E \in SUBSET Readable(s) :
                        \A p \in Readable(s) : p \in E <=> p - 1 \notin E
  BY DEF Delimiters, Readable
<1>3. \E E \in SUBSET Readable(s) : \A p \in Readable(s) : p \in E <=> p - 1 \notin E
  BY <1>1 DEF Chosen
<1> DEFINE C == Delimiters(s)
<1>4. C \in SUBSET Readable(s) /\ \A p \in Readable(s) : p \in C <=> p - 1 \notin C
  BY <1>2, <1>3
<1> QED
  BY <1>4, PlacesFacts DEF Chosen

\* Those of a text that starts another one are those of the other one in it.
LEMMA DelimitersOfPrefix ==
  ASSUME NEW r \in Seq(STRING), NEW n \in 1 .. Len(r)
  PROVE  LET s == SubSeq(r, 1, n)
         IN  \A p \in 1 .. n - 1 : /\ p \in Delimiters(s) <=> p \in Delimiters(r)
                                   /\ p \in Openers(s) <=> p \in Openers(r)
                                   /\ p \in Closers(s) <=> p \in Closers(r)
<1> DEFINE s == SubSeq(r, 1, n)
<1>1. /\ s \in Seq(STRING) /\ Len(s) = n /\ n \in Nat /\ Len(r) \in Nat
      /\ \A i \in 1 .. n : s[i] = r[i]
  BY Slices
<1> HIDE DEF s
<1>2. \A p \in 1 .. n - 1 : /\ p \in Openers(s) <=> p \in Openers(r)
                            /\ p \in Closers(s) <=> p \in Closers(r)
  <2>1. ASSUME NEW p \in 1 .. n - 1
        PROVE  /\ p \in Openers(s) <=> p \in Openers(r)
               /\ p \in Closers(s) <=> p \in Closers(r)
    <3>1. p \in 1 .. Len(s) - 1 /\ p \in 1 .. Len(r) - 1 /\ s[p] = r[p] /\ s[p + 1] = r[p + 1]
      <4>1. p \in 1 .. n /\ p + 1 \in 1 .. n /\ p \in 1 .. Len(r) - 1
        BY <1>1
      <4> QED
        BY <1>1, <4>1
    <3> QED
      BY <3>1 DEF Openers, Closers, Pairs
  <2> QED
    BY <2>1
<1>3. \A p \in 1 .. n - 1 : p \in Readable(s) <=> p \in Readable(r)
  BY <1>2 DEF Readable
<1> DEFINE m == n - 1
           P == Readable(s)
           Q == Readable(r)
           D == Delimiters(s)
           E == Delimiters(r)
<1>4. Agree(D, E, 0, m)
  <2>1. Chosen(D, P) /\ Chosen(E, Q)
    BY <1>1, DelimitersChosen
  <2>2. m \in Nat /\ Agree(P, Q, 1, m)
    BY <1>1, <1>3 DEF Agree
  <2> HIDE DEF m, P, Q, D, E
  <2> QED
    BY <2>1, <2>2, ChoiceUnique
<1>5. \A p \in 1 .. n - 1 : p \in 0 .. n - 1
  BY <1>1
<1> QED
  BY <1>2, <1>4, <1>5 DEF s, Agree

-----------------------------------------------------------------------------
(* How many comments are open. *)

UpTo(D, p) == {q \in D : q <= p}

\* One more place counts one more if it is of the set.
LEMMA CountStep ==
  ASSUME NEW n \in Nat, NEW D \in SUBSET (1 .. n), NEW p \in Nat
  PROVE  /\ Cardinality(UpTo(D, p)) \in Nat
         /\ Cardinality(UpTo(D, p + 1)) = Cardinality(UpTo(D, p)) + (IF p + 1 \in D THEN 1 ELSE 0)
<1>0. \A q \in D : q \in Nat
  OBVIOUS
<1>1. UpTo(D, p) \subseteq 1 .. n
  BY DEF UpTo
<1>2. IsFiniteSet(1 .. n)
  BY FS_Interval
<1>3. IsFiniteSet(UpTo(D, p))
  BY <1>1, <1>2, FS_Subset
<1>4. Cardinality(UpTo(D, p)) \in Nat
  BY <1>3, FS_CardinalityType
<1>5. CASE p + 1 \in D
  <2>1. UpTo(D, p + 1) = UpTo(D, p) \union {p + 1} /\ p + 1 \notin UpTo(D, p)
    <3>1. \A q \in D : q <= p + 1 <=> q <= p \/ q = p + 1
      BY <1>0
    <3>2. ~ (p + 1 <= p) /\ p + 1 <= p + 1
      OBVIOUS
    <3> QED
      BY <1>5, <3>1, <3>2 DEF UpTo
  <2>2. Cardinality(UpTo(D, p) \union {p + 1}) = Cardinality(UpTo(D, p)) + 1
    BY <1>3, <2>1, FS_AddElement
  <2> QED
    BY <1>4, <1>5, <2>1, <2>2
<1>6. CASE p + 1 \notin D
  <2>1. UpTo(D, p + 1) = UpTo(D, p)
    <3>1. \A q \in D : q <= p + 1 <=> q <= p
      BY <1>0, <1>6
    <3> QED
      BY <3>1 DEF UpTo
  <2> QED
    BY <1>4, <1>6, <2>1
<1> QED
  BY <1>4, <1>5, <1>6

LEMMA CountNone ==
  ASSUME NEW n \in Nat, NEW D \in SUBSET (1 .. n)
  PROVE  Cardinality(UpTo(D, 0)) = 0
<1>1. \A q \in D : ~ (q <= 0)
  OBVIOUS
<1>2. UpTo(D, 0) = {}
  BY <1>1 DEF UpTo
<1> QED
  BY <1>2, FS_EmptySet

\* An opener opens one more, a closer one less, anything else changes nothing.
LEMMA OpenStep ==
  ASSUME NEW s \in Seq(STRING), NEW p \in Nat
  PROVE  /\ OpenBehind(s, p) \in Int
         /\ OpenBehind(s, 0) = 0
         /\ OpenBehind(s, p + 1) = OpenBehind(s, p)
              + (IF p + 1 \in Delimiters(s) \intersect Openers(s) THEN 1 ELSE 0)
              - (IF p + 1 \in Delimiters(s) \intersect Closers(s) THEN 1 ELSE 0)
<1> DEFINE O == Delimiters(s) \intersect Openers(s)
           C == Delimiters(s) \intersect Closers(s)
           n == Len(s)
<1>1. n \in Nat /\ O \in SUBSET (1 .. n) /\ C \in SUBSET (1 .. n)
  BY PlacesFacts
<1>2. \A q : OpenBehind(s, q) = Cardinality(UpTo(O, q)) - Cardinality(UpTo(C, q))
  BY DEF OpenBehind, UpTo
<1> HIDE DEF O, C, n
<1>3. /\ Cardinality(UpTo(O, p)) \in Nat /\ Cardinality(UpTo(C, p)) \in Nat
      /\ Cardinality(UpTo(O, p + 1)) = Cardinality(UpTo(O, p)) + (IF p + 1 \in O THEN 1 ELSE 0)
      /\ Cardinality(UpTo(C, p + 1)) = Cardinality(UpTo(C, p)) + (IF p + 1 \in C THEN 1 ELSE 0)
  BY <1>1, CountStep
<1>4. Cardinality(UpTo(O, 0)) = 0 /\ Cardinality(UpTo(C, 0)) = 0
  BY <1>1, CountNone
<1>5. OpenBehind(s, p) \in Int /\ OpenBehind(s, 0) = 0
  BY <1>2, <1>3, <1>4
<1>6. OpenBehind(s, p + 1) = OpenBehind(s, p) + (IF p + 1 \in O THEN 1 ELSE 0)
                                              - (IF p + 1 \in C THEN 1 ELSE 0)
  <2>1. OpenBehind(s, p) = Cardinality(UpTo(O, p)) - Cardinality(UpTo(C, p))
    BY <1>2
  <2>2. OpenBehind(s, p + 1) = Cardinality(UpTo(O, p + 1)) - Cardinality(UpTo(C, p + 1))
    BY <1>2
  <2> QED
    BY <1>3, <2>1, <2>2
<1> QED
  BY <1>5, <1>6 DEF O, C

\* As many are open in a text as in one that it starts.
LEMMA OpenInPrefix ==
  ASSUME NEW r \in Seq(STRING), NEW n \in 1 .. Len(r)
  PROVE  \A p \in 0 .. n - 1 : OpenBehind(SubSeq(r, 1, n), p) = OpenBehind(r, p)
<1> DEFINE s == SubSeq(r, 1, n)
<1>1. s \in Seq(STRING) /\ n \in Nat
  BY Slices
<1>2. \A p \in 1 .. n - 1 : /\ p \in Delimiters(s) <=> p \in Delimiters(r)
                            /\ p \in Openers(s) <=> p \in Openers(r)
                            /\ p \in Closers(s) <=> p \in Closers(r)
  BY DelimitersOfPrefix
<1> HIDE DEF s
<1> DEFINE T == {p \in Nat : p <= n - 1 => OpenBehind(s, p) = OpenBehind(r, p)}
<1>3. ASSUME NEW p \in Nat, \A q \in 0 .. p - 1 : q \in T
      PROVE  p \in T
  <2>1. CASE p = 0
    BY <1>1, <2>1, OpenStep
  <2>2. CASE p # 0
    <3>1. SUFFICES ASSUME p <= n - 1 PROVE OpenBehind(s, p) = OpenBehind(r, p)
      OBVIOUS
    <3> DEFINE q == p - 1
    <3>2. q \in Nat /\ p = q + 1 /\ q \in 0 .. p - 1 /\ p \in 1 .. n - 1
      BY <1>1, <2>2, <3>1
    <3> HIDE DEF q
    <3>3. q \in T
      BY <1>3, <3>2
    <3>4. OpenBehind(s, q) = OpenBehind(r, q)
      BY <1>1, <3>2, <3>3
    <3>5. OpenBehind(s, q + 1) = OpenBehind(s, q)
              + (IF q + 1 \in Delimiters(s) \intersect Openers(s) THEN 1 ELSE 0)
              - (IF q + 1 \in Delimiters(s) \intersect Closers(s) THEN 1 ELSE 0)
      BY <1>1, <3>2, OpenStep
    <3>6. OpenBehind(r, q + 1) = OpenBehind(r, q)
              + (IF q + 1 \in Delimiters(r) \intersect Openers(r) THEN 1 ELSE 0)
              - (IF q + 1 \in Delimiters(r) \intersect Closers(r) THEN 1 ELSE 0)
      BY <3>2, OpenStep
    <3>7. /\ q + 1 \in Delimiters(s) \intersect Openers(s) <=> q + 1 \in Delimiters(r) \intersect Openers(r)
          /\ q + 1 \in Delimiters(s) \intersect Closers(s) <=> q + 1 \in Delimiters(r) \intersect Closers(r)
      BY <1>2, <3>2
    <3> QED
      BY <3>2, <3>4, <3>5, <3>6, <3>7
  <2> QED
    BY <2>1, <2>2
<1>4. T = Nat
  <2> HIDE DEF T
  <2>1. T \in SUBSET Nat
    BY DEF T
  <2> QED
    BY <1>3, <2>1, Below
<1>5. \A p \in 0 .. n - 1 : p \in T
  BY <1>4
<1> QED
  BY <1>5 DEF s

LEMMA OpenMoves ==
  ASSUME NEW s \in Seq(STRING), NEW p \in Nat, NEW q, q = p + 1
  PROVE  /\ q \notin Delimiters(s) => OpenBehind(s, q) = OpenBehind(s, p)
         /\ q \in Delimiters(s) /\ q \in Openers(s) => OpenBehind(s, q) = OpenBehind(s, p) + 1
         /\ q \in Delimiters(s) /\ q \in Closers(s) => OpenBehind(s, q) = OpenBehind(s, p) - 1
<1>1. /\ OpenBehind(s, p) \in Int
      /\ OpenBehind(s, q) = OpenBehind(s, p)
              + (IF q \in Delimiters(s) \intersect Openers(s) THEN 1 ELSE 0)
              - (IF q \in Delimiters(s) \intersect Closers(s) THEN 1 ELSE 0)
  BY OpenStep
<1>2. ~ (q \in Openers(s) /\ q \in Closers(s))
  BY PlacesFacts
<1> QED
  BY <1>1, <1>2

-----------------------------------------------------------------------------
(* The loop of lex_block_comment. *)

\* The loop has read o characters of r and is in d comments: it stands on no
\* delimiter that the one before covers, and never was in none.
Scanned(r, o, d) ==
  /\ o \in 2 .. Len(r)
  /\ 1 \in Delimiters(r) /\ 1 \in Openers(r)
  /\ o \notin Delimiters(r)
  /\ \A p \in Delimiters(r) : p < o => OpenBehind(r, p) > 0
  /\ OpenBehind(r, o) = d

LEMMA DelimiterFacts ==
  ASSUME NEW r \in Seq(STRING)
  PROVE  /\ Delimiters(r) \subseteq Readable(r) /\ Delimiters(r) \subseteq 1 .. Len(r) - 1
         /\ 0 \notin Delimiters(r)
         /\ \A p \in Readable(r) : p \in Delimiters(r) <=> p - 1 \notin Delimiters(r)
         /\ \A p \in Delimiters(r) : p - 1 \notin Delimiters(r) /\ p + 1 \notin Delimiters(r)
<1>1. Chosen(Delimiters(r), Readable(r))
  BY DelimitersChosen
<1>2. Readable(r) \subseteq 1 .. Len(r) - 1 /\ Len(r) \in Nat
  BY PlacesFacts DEF Readable
<1>3. \A p \in Delimiters(r) : p + 1 - 1 = p /\ p \in Int
  BY <1>1, <1>2 DEF Chosen
<1> QED
  BY <1>1, <1>2, <1>3 DEF Chosen

LEMMA ScanOpens ==
  ASSUME NEW r \in Seq(STRING), Len(r) >= 2, r[1] = "/", r[2] = "*"
  PROVE  Scanned(r, 2, 1)
<1> DEFINE D == Delimiters(r)
<1>1. Len(r) \in Nat /\ 1 \in Openers(r) /\ 1 \in Readable(r)
  BY PlacesFacts DEF Readable
<1>2. 1 \in D /\ 2 \notin D
  BY <1>1, DelimiterFacts
<1>4. OpenBehind(r, 1) = 1
  <2>1. OpenBehind(r, 1) = OpenBehind(r, 0) + 1
    BY <1>1, <1>2, OpenMoves
  <2> QED
    BY <2>1, OpenStep
<1>5. OpenBehind(r, 2) = 1
  BY <1>2, <1>4, OpenMoves
<1>6. \A p \in D : p < 2 => p = 1
  BY <1>1, DelimiterFacts
<1> QED
  BY <1>1, <1>2, <1>4, <1>5, <1>6 DEF Scanned

\* A delimiter is read: the next two places.
LEMMA ScanReads ==
  ASSUME NEW r \in Seq(STRING), NEW o \in Nat, NEW d \in Nat, Scanned(r, o, d),
         o + 1 \in Readable(r)
  PROVE  /\ o + 1 \in Delimiters(r) /\ o + 2 \notin Delimiters(r) /\ o + 2 \in 2 .. Len(r)
         /\ OpenBehind(r, o + 1) = IF o + 1 \in Openers(r) THEN d + 1 ELSE d - 1
         /\ OpenBehind(r, o + 2) = OpenBehind(r, o + 1)
<1>1. o \in Nat /\ Len(r) \in Nat /\ o + 1 <= Len(r) - 1
  BY PlacesFacts DEF Scanned, Readable
<1>2. o + 1 \in Delimiters(r) /\ o + 2 \notin Delimiters(r)
  <2>1. o + 1 - 1 = o /\ o + 1 + 1 = o + 2
    BY <1>1
  <2> QED
    BY <2>1, DelimiterFacts DEF Scanned
<1>3. o + 1 \in Openers(r) <=> o + 1 \notin Closers(r)
  BY PlacesFacts DEF Readable
<1>4. OpenBehind(r, o + 1) = IF o + 1 \in Openers(r) THEN d + 1 ELSE d - 1
  BY <1>1, <1>2, <1>3, OpenMoves DEF Scanned, Readable
<1>5. OpenBehind(r, o + 2) = OpenBehind(r, o + 1)
  <2>1. o + 1 \in Nat /\ o + 2 = o + 1 + 1
    BY <1>1
  <2> QED
    BY <1>2, <2>1, OpenMoves
<1> QED
  BY <1>1, <1>2, <1>4, <1>5

LEMMA ScanNests ==
  ASSUME NEW r \in Seq(STRING), NEW o \in Nat, NEW d \in Nat \ {0}, Scanned(r, o, d),
         o + 1 \in Openers(r)
  PROVE  Scanned(r, o + 2, d + 1)
<1>1. /\ o + 2 \notin Delimiters(r) /\ o + 2 \in 2 .. Len(r)
      /\ OpenBehind(r, o + 1) = d + 1 /\ OpenBehind(r, o + 2) = d + 1
  BY ScanReads DEF Readable
<1>2. \A p \in Delimiters(r) : p < o + 2 => p < o \/ p = o + 1
  BY DelimiterFacts DEF Scanned
<1> QED
  BY <1>1, <1>2 DEF Scanned

LEMMA ScanCloses ==
  ASSUME NEW r \in Seq(STRING), NEW o \in Nat, NEW d \in Nat \ {0, 1}, Scanned(r, o, d),
         o + 1 \in Closers(r)
  PROVE  Scanned(r, o + 2, d - 1)
<1>1. o + 1 \notin Openers(r) /\ o + 1 \in Readable(r)
  BY PlacesFacts DEF Readable
<1>2. /\ o + 2 \notin Delimiters(r) /\ o + 2 \in 2 .. Len(r)
      /\ OpenBehind(r, o + 1) = d - 1 /\ OpenBehind(r, o + 2) = d - 1
  BY <1>1, ScanReads
<1>3. \A p \in Delimiters(r) : p < o + 2 => p < o \/ p = o + 1
  BY DelimiterFacts DEF Scanned
<1> QED
  BY <1>2, <1>3 DEF Scanned

LEMMA ScanPasses ==
  ASSUME NEW r \in Seq(STRING), NEW o \in Nat, NEW d \in Nat, Scanned(r, o, d),
         o < Len(r), o + 1 \notin Readable(r)
  PROVE  Scanned(r, o + 1, d)
<1>1. o + 1 \notin Delimiters(r) /\ o \in Nat /\ o + 1 \in 2 .. Len(r)
  BY DelimiterFacts, PlacesFacts DEF Scanned
<1>2. OpenBehind(r, o + 1) = d
  BY <1>1, OpenMoves DEF Scanned
<1>3. \A p \in Delimiters(r) : p < o + 1 => p < o
  BY DelimiterFacts DEF Scanned
<1> QED
  BY <1>1, <1>2, <1>3 DEF Scanned

\* The closer of the outermost comment ends a text that is one comment.
LEMMA ScanEnds ==
  ASSUME NEW r \in Seq(STRING), NEW o \in Nat, Scanned(r, o, 1), o + 1 \in Closers(r)
  PROVE  IsComment(SubSeq(r, 1, o + 2))
<1> DEFINE s == SubSeq(r, 1, o + 2)
<1>1. o + 1 \notin Openers(r) /\ o + 1 \in Readable(r) /\ o \in Nat /\ Len(r) \in Nat
  BY PlacesFacts DEF Readable, Scanned
<1>2. /\ o + 1 \in Delimiters(r) /\ o + 2 \in 2 .. Len(r)
      /\ OpenBehind(r, o + 1) = 0
  BY <1>1, ScanReads
<1>3. o + 2 \in 1 .. Len(r) /\ s \in Seq(STRING) /\ Len(s) = o + 2 /\ o + 2 - 1 = o + 1
  BY <1>1, <1>2, Slices
<1>4. \A p \in 1 .. o + 1 : /\ p \in Delimiters(s) <=> p \in Delimiters(r)
                            /\ OpenBehind(s, p) = OpenBehind(r, p)
  <2> DEFINE n == o + 2
  <2>1. n \in 1 .. Len(r) /\ s = SubSeq(r, 1, n)
    BY <1>3
  <2> HIDE DEF n, s
  <2>2. \A p \in 1 .. n - 1 : p \in Delimiters(s) <=> p \in Delimiters(r)
    BY <2>1, DelimitersOfPrefix
  <2>3. \A p \in 0 .. n - 1 : OpenBehind(s, p) = OpenBehind(r, p)
    BY <2>1, OpenInPrefix
  <2> QED
    BY <1>1, <1>3, <2>2, <2>3 DEF n
<1> HIDE DEF s
<1>5. \A p \in Delimiters(s) : p \in 1 .. o + 1
  BY <1>1, <1>3, DelimiterFacts
<1>6. Len(s) - 1 = o + 1 /\ o + 1 \in 1 .. o + 1
  BY <1>1, <1>3
<1>7. \A p \in Delimiters(s) : OpenBehind(s, p) = 0 <=> p = o + 1
  <2>1. ASSUME NEW p \in Delimiters(s) PROVE OpenBehind(s, p) = 0 <=> p = o + 1
    <3>1. p \in Delimiters(r) /\ p \in 1 .. o + 1 /\ OpenBehind(s, p) = OpenBehind(r, p)
      BY <1>4, <1>5
    <3>2. CASE p = o + 1
      BY <1>2, <3>1, <3>2
    <3>3. CASE p # o + 1
      <4>1. p < o
        BY <1>1, <3>1, <3>3 DEF Scanned
      <4> QED
        BY <3>1, <3>3, <4>1 DEF Scanned
    <3> QED
      BY <3>2, <3>3
  <2> QED
    BY <2>1
<1> QED
  BY <1>2, <1>4, <1>6, <1>7 DEF IsComment, s

\* At the end of the text no comment was closed.
LEMMA ScanFails ==
  ASSUME NEW r \in Seq(STRING), NEW d, Scanned(r, Len(r), d)
  PROVE  NeverCloses(r)
<1>1. \A p \in Delimiters(r) : p < Len(r)
  BY DelimiterFacts, PlacesFacts
<1> QED
  BY <1>1 DEF Scanned, NeverCloses

-----------------------------------------------------------------------------
(* What the patterns match. *)

Breaks == {"newline", "return"}

Lacks(s, c) == \A i \in DOMAIN s : s[i] # c

\* Numbers, words and operators stay on their line.
LEMMA NumbersStay ==
  ASSUME NEW s \in Seq(STRING), Len(s) > 0, Number(s), NEW c \in Breaks
  PROVE  Lacks(s, c)
<1>1. Len(s) \in Nat /\ DOMAIN s = 1 .. Len(s)
  OBVIOUS
<1>0. c # Gap
  <2>1. "newline" # Gap /\ "return" # Gap
    BY Zenon DEF Gap
  <2> QED
    BY <2>1 DEF Breaks
<1>2. /\ c \notin Digits \union {Gap} /\ c \notin DOMAIN DigitValue \union {Gap}
      /\ c # "0" /\ c # "1" /\ c # "?" /\ c # "'"
      /\ c # "b" /\ c # "h" /\ c # "d" /\ c # "x"
  BY <1>0 DEF Digits, DigitValue, Breaks
<1>3. \A b \in DOMAIN PatternOf : b # c /\ c \notin PatternOf[b]
  <2>1. DOMAIN PatternOf = {"b", "h", "d"}
    BY DEF PatternOf
  <2>2. /\ PatternOf["b"] = {"0", "1", Gap, "?"}
        /\ PatternOf["h"] = DOMAIN DigitValue \union {Gap}
        /\ PatternOf["d"] = DOMAIN DigitValue \union {Gap}
    BY DEF PatternOf
  <2>3. /\ c \notin PatternOf["b"] /\ c \notin PatternOf["h"]
        /\ c \notin PatternOf["d"]
    BY <1>0, <1>2, <2>2
  <2> QED
    BY <1>2, <2>1, <2>3
<1>4. CASE SizedNumber(s)
  <2>1. PICK tick \in 2 .. Len(s) - 2 :
          /\ s[tick] = "'"
          /\ All(SubSeq(s, 1, tick - 1), Digits)
          /\ s[tick + 1] \in DOMAIN PatternOf
          /\ All(SubSeq(s, tick + 2, Len(s)), PatternOf[s[tick + 1]])
    BY <1>4 DEF SizedNumber
  <2>2. tick \in Nat /\ tick - 1 \in Nat /\ tick + 1 \in Nat
    BY <1>1
  <2>3. \A i \in 1 .. tick - 1 : s[i] # c
    <3>1. /\ DOMAIN SubSeq(s, 0 + 1, tick - 1) = 1 .. tick - 1 - 0
          /\ \A i \in 1 .. tick - 1 - 0 : SubSeq(s, 0 + 1, tick - 1)[i] = s[0 + i]
      BY <1>1, <2>2, Slices
    <3>2. DOMAIN SubSeq(s, 1, tick - 1) = 1 .. tick - 1
          /\ \A i \in 1 .. tick - 1 : SubSeq(s, 1, tick - 1)[i] = s[i]
      BY <2>2, <3>1
    <3> DEFINE v == SubSeq(s, 1, tick - 1)
    <3>3. \A i \in DOMAIN v : v[i] \in Digits
      BY <2>1 DEF All
    <3> HIDE DEF v
    <3>4. \A i \in DOMAIN v : v[i] # c
      BY <1>2, <3>3
    <3> QED
      BY <3>2, <3>4 DEF v
  <2>4. \A i \in tick + 2 .. Len(s) : s[i] # c
    <3> DEFINE m == tick + 1
               t == SubSeq(s, m + 1, Len(s))
    <3>1. m \in Nat /\ m <= Len(s) /\ t = SubSeq(s, tick + 2, Len(s))
      BY <1>1, <2>2
    <3> HIDE DEF m
    <3>2. DOMAIN t = 1 .. Len(s) - m /\ \A i \in 1 .. Len(s) - m : t[i] = s[m + i]
      BY <1>1, <3>1, Slices
    <3>3. \A i \in DOMAIN t : t[i] # c
      BY <1>3, <2>1, <3>1 DEF All
    <3> HIDE DEF t
    <3>4. ASSUME NEW i \in tick + 2 .. Len(s) PROVE s[i] # c
      <4>1. i - m \in 1 .. Len(s) - m /\ m + (i - m) = i
        BY <1>1, <2>2 DEF m
      <4>2. t[i - m] = s[m + (i - m)]
        BY <3>2, <4>1
      <4> QED
        BY <3>2, <3>3, <4>1, <4>2
    <3> QED
      BY <3>4
  <2>5. s[tick] # c /\ s[tick + 1] # c
    BY <1>2, <1>3, <2>1
  <2>6. \A i \in 1 .. Len(s) :
          i \in 1 .. tick - 1 \/ i = tick \/ i = tick + 1 \/ i \in tick + 2 .. Len(s)
    BY <1>1, <2>2
  <2> QED
    BY <1>1, <2>3, <2>4, <2>5, <2>6 DEF Lacks
<1>5. ASSUME NEW chars, c \notin chars, Len(s) > 2, s[1] # c, s[2] # c,
             All(SubSeq(s, 3, Len(s)), chars)
      PROVE  Lacks(s, c)
  <2> DEFINE t == SubSeq(s, 2 + 1, Len(s))
  <2>1. DOMAIN t = 1 .. Len(s) - 2 /\ \A i \in 1 .. Len(s) - 2 : t[i] = s[2 + i]
    BY <1>1, <1>5, Slices
  <2>2. \A i \in DOMAIN t : t[i] # c
    BY <1>5 DEF All
  <2> HIDE DEF t
  <2>3. ASSUME NEW i \in 3 .. Len(s) PROVE s[i] # c
    <3>1. i - 2 \in 1 .. Len(s) - 2 /\ 2 + (i - 2) = i
      BY <1>1
    <3>2. t[i - 2] = s[2 + (i - 2)]
      BY <2>1, <3>1
    <3> QED
      BY <2>1, <2>2, <3>1, <3>2
  <2>4. \A i \in 1 .. Len(s) : i = 1 \/ i = 2 \/ i \in 3 .. Len(s)
    BY <1>1
  <2> QED
    BY <1>1, <1>5, <2>3, <2>4 DEF Lacks
<1>6. CASE HexNumber(s)
  BY <1>2, <1>5, <1>6 DEF HexNumber
<1>7. CASE BinaryNumber(s)
  BY <1>0, <1>2, <1>5, <1>7 DEF BinaryNumber
<1>8. CASE DecimalNumber(s)
  BY <1>2, <1>8 DEF DecimalNumber, All, Lacks
<1> QED
  BY <1>4, <1>6, <1>7, <1>8 DEF Number

LEMMA FewCharacters ==
  /\ \A e, c : c # e => Lacks(<<c>>, e)
  /\ \A e, c, d : c # e /\ d # e => Lacks(<<c, d>>, e)
<1>1. \A c : DOMAIN <<c>> = {1} /\ <<c>>[1] = c
  OBVIOUS
<1>2. \A c, d : DOMAIN <<c, d>> = {1, 2} /\ <<c, d>>[1] = c /\ <<c, d>>[2] = d
  OBVIOUS
<1> QED
  BY <1>1, <1>2 DEF Lacks

\* What a text is of which the patterns make a kind of token.
LEMMA KindFacts ==
  ASSUME NEW s \in Seq(STRING), Len(s) > 0, NEW k \in Kinds(s)
  PROVE  /\ k \in KindNames \union {"Skipped"} /\ k # "Newline"
         /\ k = "Block" => s = <<"/", "*">>
         /\ k = "Skipped" => \A i \in DOMAIN s : s[i] = "blank"
         /\ k \in {"Doc", "Line"} => LineComment(s)
         /\ k # "StringLit" => Lacks(s, "newline")
         /\ k \notin {"StringLit", "Doc", "Line"} => Lacks(s, "return")
<1>1. k \in KindNames \union {"Skipped"} /\ k # "Newline"
  BY DEF Kinds, KindNames
<1>2. /\ k = "Numeric" => Number(s)
      /\ k = "Ident" => Word(s)
      /\ k = "Underscore" => s = <<"_">>
      /\ k = "Doc" => DocComment(s)
      /\ k = "Line" => LineComment(s)
      /\ k = "Block" => s = <<"/", "*">>
      /\ k = "Operator" => s \in Operators
      /\ k = "Skipped" => All(s, {"blank"})
  <2> DEFINE match == CASE k = "Numeric" -> Number(s)
                        [] k = "Ident" -> Word(s) /\ s # <<"_">>
                        [] k = "Underscore" -> s = <<"_">>
                        [] k = "StringLit" -> StringText(s)
                        [] k = "Doc" -> DocComment(s)
                        [] k = "Line" -> LineComment(s) /\ ~DocComment(s)
                        [] k = "Block" -> s = <<"/", "*">>
                        [] k = "Operator" -> s \in Operators
                        [] k = "Skipped" -> All(s, {"blank"})
  <2>1. match
    BY Zenon DEF Kinds
  <2>2. k = "Numeric" => Number(s)
    BY <2>1
  <2>3. k = "Ident" => Word(s)
    BY <2>1
  <2>4. k = "Underscore" => s = <<"_">>
    BY <2>1
  <2>5. k = "Doc" => DocComment(s)
    BY <2>1
  <2>6. k = "Line" => LineComment(s)
    BY <2>1
  <2>7. k = "Block" => s = <<"/", "*">>
    BY <2>1
  <2>8. k = "Operator" => s \in Operators
    BY <2>1
  <2>9. k = "Skipped" => All(s, {"blank"})
    BY <2>1
  <2> QED
    BY <2>2, <2>3, <2>4, <2>5, <2>6, <2>7, <2>8, <2>9
<1>3. k = "Skipped" => \A i \in DOMAIN s : s[i] = "blank"
  BY <1>2 DEF All
<1>4. k \in {"Doc", "Line"} => LineComment(s) /\ Lacks(s, "newline")
  BY <1>2 DEF DocComment, LineComment, Lacks, Range
<1>5. ASSUME NEW c \in Breaks, k \notin {"StringLit", "Doc", "Line"} PROVE Lacks(s, c)
  <2>1. CASE k = "Numeric"
    BY <1>2, <2>1, NumbersStay
  <2>2. CASE k = "Ident"
    BY <1>2, <2>2 DEF Word, All, Lacks, Letters, Digits, Breaks
  <2>3. CASE k = "Underscore"
    <3>1. s = <<"_">> /\ "_" # c
      BY <1>2, <2>3 DEF Breaks
    <3> QED
      BY <3>1, FewCharacters
  <2>4. CASE k \in {"Block", "Operator"}
    <3>1. "/" # c /\ "*" # c /\ "?" # c
      BY DEF Breaks
    <3>2. s = <<"/", "*">> \/ s = <<"*", "*">> \/ s = <<"/">> \/ s = <<"*">> \/ s = <<"?">>
      BY <1>2, <2>4 DEF Operators
    <3> QED
      BY <3>1, <3>2, FewCharacters
  <2>5. CASE k = "Skipped"
    BY <1>3, <2>5 DEF Lacks, Breaks
  <2> QED
    BY <1>1, <1>5, <2>1, <2>2, <2>3, <2>4, <2>5 DEF KindNames
<1> QED
  BY <1>1, <1>2, <1>3, <1>4, <1>5 DEF Breaks

\* What logos picks.
LEMMA MatchFacts ==
  ASSUME text \in Seq(STRING), position \in 0 .. Len(text), Matches # {}
  PROVE  /\ Longest \in position + 1 .. Len(text)
         /\ Slice(position, Longest) \in Seq(STRING)
         /\ Len(Slice(position, Longest)) = Longest - position
         /\ \A i \in 1 .. Longest - position : Slice(position, Longest)[i] = text[position + i]
         /\ Kind \in Kinds(Slice(position, Longest))
<1>1. Len(text) \in Nat
  OBVIOUS
<1>2. Matches \in SUBSET (0 .. Len(text)) /\ \A to \in Matches : to \in position + 1 .. Len(text)
  BY <1>1 DEF Matches
<1>3. Longest \in Matches
  BY <1>1, <1>2, Latest DEF Longest
<1>4. Longest \in position + 1 .. Len(text) /\ Kinds(Slice(position, Longest)) # {}
  BY <1>3 DEF Matches
<1>5. Kind \in Kinds(Slice(position, Longest))
  BY <1>4 DEF Kind
<1> HIDE DEF Longest
<1>6. position \in Nat /\ Longest \in Nat /\ position <= Longest /\ Longest <= Len(text)
  BY <1>1, <1>4
<1> QED
  BY <1>4, <1>5, <1>6, Slices DEF Slice

\* The text u is s and one character more.
OneMore(s, u) ==
  Len(u) = Len(s) + 1 /\ \A i \in 1 .. Len(s) : u[i] = s[i]

\* A text that is one character longer.
LEMMA NextSlice ==
  ASSUME text \in Seq(STRING), NEW m \in Nat, NEW n \in Nat, m <= n, n < Len(text)
  PROVE  /\ Slice(m, n + 1) \in Seq(STRING) /\ OneMore(Slice(m, n), Slice(m, n + 1))
         /\ Slice(m, n + 1)[Len(Slice(m, n)) + 1] = text[n + 1]
<1> DEFINE s == Slice(m, n)
           u == Slice(m, n + 1)
           k == n + 1
<1>1. Len(text) \in Nat /\ k \in Nat /\ m <= k /\ k <= Len(text) /\ n <= Len(text)
  OBVIOUS
<1>2. s \in Seq(STRING) /\ Len(s) = n - m /\ \A i \in 1 .. n - m : s[i] = text[m + i]
  BY <1>1, Slices DEF Slice
<1>3. /\ SubSeq(text, m + 1, k) \in Seq(STRING) /\ Len(SubSeq(text, m + 1, k)) = k - m
      /\ \A i \in 1 .. k - m : SubSeq(text, m + 1, k)[i] = text[m + i]
  <2> HIDE DEF k
  <2> QED
    BY <1>1, Slices
<1>4. u \in Seq(STRING) /\ Len(u) = n - m + 1 /\ \A i \in 1 .. n - m + 1 : u[i] = text[m + i]
  <2>1. k - m = n - m + 1 /\ u = SubSeq(text, m + 1, k)
    BY DEF Slice
  <2> HIDE DEF k, u
  <2> QED
    BY <1>3, <2>1
<1> HIDE DEF s, u
<1>5. Len(u) = Len(s) + 1 /\ Len(s) + 1 = n - m + 1 /\ n - m + 1 \in 1 .. n - m + 1
      /\ m + (n - m + 1) = n + 1
  BY <1>2, <1>4
<1>6. u[Len(s) + 1] = text[n + 1]
  BY <1>4, <1>5
<1>7. \A i \in 1 .. n - m : i \in 1 .. n - m + 1
  OBVIOUS
<1>8. \A i \in 1 .. Len(s) : u[i] = s[i]
  BY <1>2, <1>4, <1>7
<1> QED
  BY <1>2, <1>4, <1>5, <1>6, <1>8 DEF s, u, OneMore

\* What TokensCoverText asks of a token: where it may go over line ends, and
\* where a line comment ends.
Fits(kind, from, to) ==
  LET s == SubSeq(text, from + 1, to)
  IN  /\ "newline" \in Range(s) => kind \in {"Block", "StringLit", "Newline"}
      /\ "return" \in Range(s) => kind \in {"Block", "StringLit", "Newline", "Line", "Doc"}
      /\ kind = "Newline" => s \in LineEnds
      /\ kind \in {"Line", "Doc"} => to = Len(text) \/ text[to + 1] = "newline"

\* The longest match of a line comment leaves no character of its line.
LEMMA CommentGoesOn ==
  ASSUME NEW s \in Seq(STRING), NEW u \in Seq(STRING), OneMore(s, u), LineComment(s),
         u[Len(s) + 1] # "newline"
  PROVE  Kinds(u) # {}
<1>1. Len(s) \in Nat /\ Len(s) >= 2 /\ s[1] = "/" /\ s[2] = "/" /\ \A i \in 1 .. Len(s) : s[i] # "newline"
  BY DEF LineComment, Slashes, Range
<1>2. Len(u) = Len(s) + 1 /\ \A i \in 1 .. Len(s) : u[i] = s[i]
  BY DEF OneMore
<1>3. Slashes(u, 2)
  BY <1>1, <1>2 DEF Slashes
<1>4. \A i \in 1 .. Len(u) : i \in 1 .. Len(s) \/ i = Len(s) + 1
  BY <1>1, <1>2
<1>5. LineComment(u)
  BY <1>1, <1>2, <1>3, <1>4 DEF LineComment, Range
<1> QED
  BY <1>5 DEF Kinds

LEMMA MatchFits ==
  ASSUME text \in Seq(STRING), position \in 0 .. Len(text), Matches # {}
  PROVE  Fits(Kind, position, Longest)
<1> DEFINE n == Longest
           s == Slice(position, n)
           k == Kind
<1>1. /\ n \in position + 1 .. Len(text) /\ s \in Seq(STRING) /\ Len(s) = n - position
      /\ k \in Kinds(s)
  BY MatchFacts
<1>2. Matches \in SUBSET (0 .. Len(text)) /\ Len(text) \in Nat
  BY DEF Matches
<1>3. \A to \in Matches : to <= n
  BY <1>2, Latest DEF Longest
<1> HIDE DEF n, k
<1>4. n \in Nat /\ position \in Nat /\ position <= n /\ Len(s) > 0
  BY <1>1, <1>2
<1>5. /\ k # "Newline"
      /\ k \in {"Doc", "Line"} => LineComment(s)
      /\ k # "StringLit" => Lacks(s, "newline")
      /\ k \notin {"StringLit", "Doc", "Line"} => Lacks(s, "return")
  BY <1>1, <1>4, KindFacts
<1>6. ASSUME k \in {"Doc", "Line"}, n # Len(text) PROVE text[n + 1] = "newline"
  <2>1. SUFFICES ASSUME text[n + 1] # "newline" PROVE FALSE
    OBVIOUS
  <2>2. n < Len(text) /\ n + 1 \in position + 1 .. Len(text)
    BY <1>1, <1>2, <1>4, <1>6
  <2> DEFINE u == Slice(position, n + 1)
  <2>3. u \in Seq(STRING) /\ OneMore(s, u) /\ u[Len(s) + 1] = text[n + 1]
    BY <1>4, <2>2, NextSlice
  <2>4. LineComment(s)
    BY <1>5, <1>6
  <2> HIDE DEF s, u
  <2>5. Kinds(u) # {}
    BY <1>1, <2>1, <2>3, <2>4, CommentGoesOn
  <2>6. n + 1 \in Matches
    BY <2>2, <2>5 DEF Matches, u
  <2> QED
    BY <1>3, <1>4, <2>6
<1>7. s = SubSeq(text, position + 1, n)
  BY DEF Slice
<1> HIDE DEF s
<1>8. Fits(k, position, n)
  BY <1>5, <1>6, <1>7 DEF Fits, Lacks, Range
<1> QED
  BY <1>8 DEF n, k

-----------------------------------------------------------------------------
(* The invariant. *)

\* A token is a part of the text, of the shape of its kind, and a block
\* comment is one comment.
TokenFits(t) ==
  /\ t.kind \in KindNames /\ t.from \in Nat /\ t.to \in Nat /\ t.from < t.to
  /\ Fits(t.kind, t.from, t.to)
  /\ t.kind = "Block" => IsComment(TextOf(t))

Tokens ==
  /\ tokens \in Seq(Range(tokens))
  /\ \A i \in DOMAIN tokens :
       /\ TokenFits(tokens[i]) /\ tokens[i].to <= position
       /\ i > 1 => tokens[i - 1].to <= tokens[i].from

\* What is behind the position is blank or in a token.
Covered ==
  \A p \in 1 .. position :
    \/ text[p] = "blank"
    \/ \E i \in DOMAIN tokens : p \in tokens[i].from + 1 .. tokens[i].to

\* In a comment its loop is under way.
InComment == depth > 0 => Scanned(Rest, at - position, depth)

\* Where the two ways to end leave the position and the loop.
Ended ==
  /\ status = "lexed" => position = Len(text)
  /\ status = "rejected" /\ depth > 0 => at = Len(text)

\* Where the loops stand (TypeOK without the tokens).
Where ==
  /\ text \in Texts
  /\ status \in {"lexing", "lexed", "rejected"}
  /\ position \in 0 .. Len(text)
  /\ depth \in Nat
  /\ depth = 0 <=> at = 0
  /\ depth > 0 => at \in position + 2 .. Len(text)

IInv == Where /\ Tokens /\ Covered /\ InComment /\ Ended

LEMMA TextFacts ==
  ASSUME Where
  PROVE  /\ text \in Seq(STRING) /\ Len(text) \in Nat
         /\ position \in Nat /\ position <= Len(text)
         /\ Rest \in Seq(STRING) /\ Len(Rest) = Len(text) - position
         /\ \A i \in 1 .. Len(text) - position : Rest[i] = text[position + i]
<1>1. text \in Seq(STRING) /\ Len(text) \in Nat
  BY TextsAssumption DEF Where
<1>2. position \in Nat /\ position <= Len(text)
  BY <1>1 DEF Where
<1> QED
  BY <1>1, <1>2, Slices DEF Rest, Slice

LEMMA Pushed ==
  ASSUME NEW s, s \in Seq(Range(s)), NEW e
  PROVE  LET t == Append(s, e)
         IN  /\ t \in Seq(Range(t)) /\ Len(s) \in Nat
             /\ DOMAIN s = 1 .. Len(s) /\ DOMAIN t = 1 .. Len(s) + 1
             /\ \A i \in 1 .. Len(s) : t[i] = s[i]
             /\ t[Len(s) + 1] = e
<1> DEFINE S == Range(s)
           t == Append(s, e)
           n == Len(s)
<1>1. s \in Seq(S) /\ n \in Nat /\ DOMAIN s = 1 .. n
  OBVIOUS
<1>2. \A i \in DOMAIN s : s[i] \in S \union {e}
  BY DEF Range
<1>3. s \in Seq(S \union {e})
  BY <1>1, <1>2
<1> HIDE DEF S
<1>4. /\ Len(t) = n + 1 /\ DOMAIN t = 1 .. n + 1 /\ t \in Seq(S \union {e})
      /\ \A i \in 1 .. n : t[i] = s[i]
      /\ t[n + 1] = e
  BY <1>1, <1>3
<1>5. \A i \in DOMAIN t : t[i] \in Range(t)
  BY DEF Range
<1>6. t \in Seq(Range(t))
  <2> HIDE DEF t
  <2> QED
    BY <1>4, <1>5
<1> QED
  BY <1>1, <1>4, <1>6

\* The token that an action pushes.
LEMMA PushKeeps ==
  ASSUME Where, Tokens, Covered, NEW kind \in KindNames, NEW to, NEW literal,
         Push(kind, to, literal), text' = text,
         to \in position + 1 .. Len(text), Fits(kind, position, to),
         kind = "Block" => IsComment(Slice(position, to))
  PROVE  Tokens' /\ Covered'
<1> DEFINE t == [kind |-> kind, from |-> position, to |-> to,
                 value |-> literal.value, mask |-> literal.mask]
           n == Len(tokens)
<1>1. tokens' = Append(tokens, t) /\ position' = to
  BY DEF Push
<1>2. t.kind = kind /\ t.from = position /\ t.to = to
  OBVIOUS
<1> HIDE DEF t
<1>3. /\ tokens' \in Seq(Range(tokens')) /\ n \in Nat
      /\ DOMAIN tokens = 1 .. n /\ DOMAIN tokens' = 1 .. n + 1
      /\ \A i \in 1 .. n : tokens'[i] = tokens[i]
      /\ tokens'[n + 1] = t
  BY <1>1, Pushed DEF Tokens
<1>4. position \in Nat /\ to \in Nat /\ position < to
  BY TextFacts
<1>5. \A e : TextOf(e)' = SubSeq(text, e.from + 1, e.to)
  BY DEF TextOf
<1>6. TokenFits(t)
  <2>1. TextOf(t) = Slice(position, to)
    BY <1>2 DEF TextOf, Slice
  <2> QED
    BY <1>2, <1>4, <2>1 DEF TokenFits
<1>7. \A e : TokenFits(e)' <=> TokenFits(e)
  BY DEF TokenFits, TextOf, Fits
<1>8. Tokens'
  <2>1. ASSUME NEW i \in DOMAIN tokens'
        PROVE  /\ TokenFits(tokens'[i]) /\ tokens'[i].to <= to
               /\ i > 1 => tokens'[i - 1].to <= tokens'[i].from
    <3>1. CASE i \in 1 .. n
      <4>1. i > 1 => i - 1 \in 1 .. n
        BY <1>3, <3>1
      <4>2. /\ TokenFits(tokens[i]) /\ tokens[i].to <= position
            /\ i > 1 => tokens[i - 1].to <= tokens[i].from
        BY <1>3, <3>1 DEF Tokens
      <4>3. tokens'[i] = tokens[i] /\ (i > 1 => tokens'[i - 1] = tokens[i - 1])
        BY <1>3, <3>1, <4>1
      <4>4. tokens[i].to \in Nat
        BY <4>2 DEF TokenFits
      <4> QED
        BY <1>4, <4>2, <4>3, <4>4
    <3>2. CASE i = n + 1
      <4>1. i > 1 => n \in 1 .. n /\ i - 1 = n
        BY <1>3, <3>2
      <4>2. i > 1 => tokens'[i - 1] = tokens[n] /\ tokens[n].to <= position
        BY <1>3, <4>1 DEF Tokens
      <4> QED
        BY <1>2, <1>3, <1>4, <1>6, <3>2, <4>2
    <3> QED
      BY <1>3, <3>1, <3>2
  <2> QED
    BY <1>1, <1>3, <1>7, <2>1 DEF Tokens
<1>9. Covered'
  <2>1. ASSUME NEW p \in 1 .. to
        PROVE  text[p] = "blank" \/ \E i \in DOMAIN tokens' : p \in tokens'[i].from + 1 .. tokens'[i].to
    <3>1. CASE p <= position
      <4>1. p \in 1 .. position
        BY <1>4, <3>1
      <4>2. text[p] = "blank" \/ \E i \in DOMAIN tokens : p \in tokens[i].from + 1 .. tokens[i].to
        BY <4>1 DEF Covered
      <4>3. \A i \in DOMAIN tokens : i \in DOMAIN tokens' /\ tokens'[i] = tokens[i]
        BY <1>3
      <4> QED
        BY <4>2, <4>3
    <3>2. CASE ~ (p <= position)
      <4>1. p \in position + 1 .. to
        BY <1>4, <3>2
      <4>2. n + 1 \in DOMAIN tokens' /\ tokens'[n + 1] = t
        BY <1>3
      <4> QED
        BY <1>2, <4>1, <4>2
    <3> QED
      BY <3>1, <3>2
  <2> QED
    BY <1>1, <2>1 DEF Covered
<1> QED
  BY <1>8, <1>9

\* No token is pushed.
LEMMA TokensSame ==
  ASSUME Tokens, Covered, UNCHANGED <<text, position, tokens>>
  PROVE  Tokens' /\ Covered'
<1>1. \A e : TokenFits(e)' <=> TokenFits(e)
  BY DEF TokenFits, TextOf, Fits
<1> QED
  BY <1>1 DEF Tokens, Covered

LEMMA CommentSame ==
  ASSUME InComment, UNCHANGED <<text, position, depth, at>>
  PROVE  InComment'
<1>1. Rest' = Rest
  BY DEF Rest, Slice
<1> QED
  BY <1>1 DEF InComment

-----------------------------------------------------------------------------
(* Every action keeps it. *)

LEMMA EmitKeeps ==
  ASSUME IInv, Emit
  PROVE  IInv'
<1>1. /\ Matches # {} /\ Kind \notin {"Numeric", "Block"} /\ status = "lexing" /\ depth = 0
      /\ text' = text /\ depth' = depth /\ at' = at /\ status' = status
  BY DEF Emit, Between
<1>2. /\ text \in Seq(STRING) /\ Len(text) \in Nat /\ position \in Nat /\ position \in 0 .. Len(text)
  BY TextFacts DEF IInv, Where
<1>3. /\ Longest \in position + 1 .. Len(text)
      /\ Slice(position, Longest) \in Seq(STRING)
      /\ Len(Slice(position, Longest)) = Longest - position
      /\ \A i \in 1 .. Longest - position : Slice(position, Longest)[i] = text[position + i]
      /\ Kind \in Kinds(Slice(position, Longest))
  BY <1>1, <1>2, MatchFacts
<1> DEFINE k == Kind
           to == Longest
           s == Slice(position, to)
<1> HIDE DEF k, to, s
<1>4. s \in Seq(STRING) /\ Len(s) > 0 /\ Len(s) = to - position /\ k \in Kinds(s) /\ to \in position + 1 .. Len(text)
  BY <1>2, <1>3 DEF k, to, s
<1>5. /\ k \in KindNames \union {"Skipped"} /\ k # "Newline" /\ k # "Block"
      /\ k = "Skipped" => \A i \in DOMAIN s : s[i] = "blank"
  BY <1>1, <1>4, KindFacts DEF k
<1>6. Tokens' /\ Covered' /\ position' = to
  <2>1. CASE k = "Skipped"
    <3>1. position' = to /\ tokens' = tokens
      BY <1>1, <2>1 DEF Emit, k, to
    <3>2. \A e : TokenFits(e)' <=> TokenFits(e)
      BY <1>1 DEF TokenFits, TextOf, Fits
    <3>3. \A i \in DOMAIN tokens : tokens[i].to <= position /\ tokens[i].to \in Nat
      BY DEF IInv, Tokens, TokenFits
    <3>4. Tokens'
      <4>1. \A i \in DOMAIN tokens : tokens[i].to <= to
        BY <1>2, <1>4, <3>3
      <4> QED
        BY <3>1, <3>2, <4>1 DEF IInv, Tokens
    <3>5. ASSUME NEW p \in 1 .. to, ~ (p <= position) PROVE text[p] = "blank"
      <4>1. p - position \in 1 .. to - position /\ position + (p - position) = p
        BY <1>2, <1>4, <3>5
      <4>2. s[p - position] = text[position + (p - position)]
        BY <1>3, <4>1 DEF s, to
      <4>3. s[p - position] = "blank"
        BY <1>4, <1>5, <2>1, <4>1
      <4> QED
        BY <4>1, <4>2, <4>3
    <3>6. \A p \in 1 .. to : p <= position => p \in 1 .. position
      BY <1>2, <1>4
    <3>7. Covered'
      BY <1>1, <3>1, <3>5, <3>6 DEF IInv, Covered
    <3> QED
      BY <3>1, <3>4, <3>7
  <2>2. CASE k # "Skipped"
    <3>1. Push(k, to, NoLiteral)
      BY <2>2 DEF Emit, k, to
    <3>2. k \in KindNames
      BY <1>5, <2>2
    <3>3. position' = to
      BY <3>1 DEF Push
    <3>4. Fits(k, position, to)
      BY <1>1, <1>2, MatchFits DEF k, to
    <3> QED
      BY <1>1, <1>4, <1>5, <3>1, <3>2, <3>3, <3>4, PushKeeps DEF IInv
  <2> QED
    BY <2>1, <2>2
<1>7. Where'
  BY <1>1, <1>2, <1>4, <1>6 DEF IInv, Where
<1>8. InComment' /\ Ended'
  BY <1>1 DEF InComment, Ended
<1> QED
  BY <1>6, <1>7, <1>8 DEF IInv

LEMMA EmitNumberKeeps ==
  ASSUME IInv, EmitNumber
  PROVE  IInv'
<1> DEFINE to == Longest
           literal == parse_numeric(Slice(position, Longest))
<1>1. /\ Matches # {} /\ Kind = "Numeric" /\ status = "lexing" /\ depth = 0
      /\ text' = text /\ depth' = depth /\ at' = at /\ status' = status
      /\ Push("Numeric", to, literal)
  BY DEF EmitNumber, Between
<1>2. /\ text \in Seq(STRING) /\ Len(text) \in Nat /\ position \in Nat /\ position \in 0 .. Len(text)
  BY TextFacts DEF IInv, Where
<1>3. /\ to \in position + 1 .. Len(text)
      /\ Slice(position, to) \in Seq(STRING) /\ Len(Slice(position, to)) = to - position
      /\ "Numeric" \in Kinds(Slice(position, to))
  BY <1>1, <1>2, MatchFacts
<1>4. Fits("Numeric", position, to)
  BY <1>1, <1>2, MatchFits
<1> HIDE DEF to, literal
<1>5. Tokens' /\ Covered'
  <2>1. "Numeric" \in KindNames
    BY DEF KindNames
  <2> QED
    BY <1>1, <1>3, <1>4, <2>1, PushKeeps DEF IInv
<1>6. position' = to
  BY <1>1 DEF Push
<1>7. Where'
  BY <1>1, <1>2, <1>3, <1>6 DEF IInv, Where
<1>8. InComment' /\ Ended'
  BY <1>1 DEF InComment, Ended
<1> QED
  BY <1>5, <1>7, <1>8 DEF IInv

LEMMA EmitNewlineKeeps ==
  ASSUME IInv, EmitNewline
  PROVE  IInv'
<1>1. PICK to \in position + 1 .. Len(text) :
        /\ status = "lexing" /\ depth = 0
        /\ text' = text /\ depth' = depth /\ at' = at /\ status' = status
        /\ Slice(position, to) \in LineEnds /\ Push("Newline", to, NoLiteral)
  BY DEF EmitNewline, Between
<1>2. /\ Len(text) \in Nat /\ position \in Nat
  BY TextFacts DEF IInv
<1>3. to \in 0 .. Len(text) /\ position' = to
  BY <1>1, <1>2 DEF Push
<1>4. Tokens' /\ Covered'
  <2>1. "Newline" \in KindNames
    BY DEF KindNames
  <2>2. Fits("Newline", position, to)
    BY <1>1 DEF Fits, Slice
  <2> QED
    BY <1>1, <2>1, <2>2, PushKeeps DEF IInv
<1>5. Where' /\ InComment' /\ Ended'
  BY <1>1, <1>3 DEF IInv, Where, InComment, Ended
<1> QED
  BY <1>4, <1>5 DEF IInv

\* Nothing but the status changes.
LEMMA EndsKeep ==
  ASSUME IInv, RejectNumber \/ RejectCharacter \/ Finish \/ Unterminated \/ UNCHANGED vars
  PROVE  IInv'
<1>1. /\ UNCHANGED <<text, position, tokens, depth, at>>
      /\ status' \in {"lexing", "lexed", "rejected"}
      /\ \/ status' = status
         \/ status' = "lexed" /\ position = Len(text)
         \/ status' = "rejected" /\ (depth = 0 \/ at >= Len(text))
  BY DEF RejectNumber, RejectCharacter, Finish, Unterminated, Reject, Between, vars, IInv, Where
<1>2. Tokens' /\ Covered' /\ InComment'
  BY <1>1, TokensSame, CommentSame DEF IInv
<1>3. Where'
  BY <1>1 DEF IInv, Where
<1>4. depth > 0 => at <= Len(text) /\ at \in Int /\ Len(text) \in Nat
  BY TextFacts DEF IInv, Where
<1>5. Ended'
  BY <1>1, <1>4 DEF IInv, Where, Ended
<1> QED
  BY <1>2, <1>3, <1>5 DEF IInv

LEMMA OpenCommentKeeps ==
  ASSUME IInv, OpenComment
  PROVE  IInv'
<1>1. /\ Matches # {} /\ Kind = "Block" /\ status = "lexing" /\ depth = 0
      /\ UNCHANGED <<text, position, tokens, status>> /\ depth' = 1 /\ at' = Longest
  BY DEF OpenComment, Between
<1>2. /\ text \in Seq(STRING) /\ Len(text) \in Nat /\ position \in Nat /\ position \in 0 .. Len(text)
      /\ Rest \in Seq(STRING) /\ Len(Rest) = Len(text) - position
      /\ \A i \in 1 .. Len(text) - position : Rest[i] = text[position + i]
  BY TextFacts DEF IInv, Where
<1> DEFINE to == Longest
           s == Slice(position, to)
<1>3. /\ to \in position + 1 .. Len(text)
      /\ s \in Seq(STRING) /\ Len(s) = to - position /\ "Block" \in Kinds(s)
      /\ \A i \in 1 .. to - position : s[i] = text[position + i]
  BY <1>1, <1>2, MatchFacts
<1> HIDE DEF to, s
<1>4. s = <<"/", "*">>
  BY <1>2, <1>3, KindFacts
<1>5. Len(s) = 2 /\ s[1] = "/" /\ s[2] = "*"
  BY <1>4
<1>6. to = position + 2 /\ Len(text) - position >= 2
  <2>1. to \in position + 1 .. Len(text) /\ position \in Nat /\ Len(text) \in Nat
    BY <1>2, <1>3
  <2>2. Len(s) = to - position /\ Len(s) = 2
    BY <1>3, <1>5
  <2>3. to - position = 2
    BY <2>2
  <2> QED
    BY <2>1, <2>3
<1>7. Rest[1] = "/" /\ Rest[2] = "*"
  <2>1. /\ 1 \in 1 .. Len(text) - position /\ 2 \in 1 .. Len(text) - position
        /\ 1 \in 1 .. to - position /\ 2 \in 1 .. to - position
    BY <1>2, <1>6
  <2>2. Rest[1] = text[position + 1] /\ Rest[2] = text[position + 2]
    BY <1>2, <2>1
  <2>3. s[1] = text[position + 1] /\ s[2] = text[position + 2]
    BY <1>3, <2>1
  <2> QED
    BY <1>5, <2>2, <2>3
<1>8. Scanned(Rest, 2, 1)
  BY <1>2, <1>6, <1>7, ScanOpens
<1>9. Rest' = Rest /\ at' = to /\ to - position = 2
  BY <1>1, <1>2, <1>6 DEF Rest, Slice, to
<1>10. InComment'
  BY <1>1, <1>8, <1>9 DEF InComment
<1>11. Tokens' /\ Covered'
  BY <1>1, TokensSame DEF IInv
<1>12. Where'
  BY <1>1, <1>2, <1>3, <1>6, <1>9 DEF IInv, Where
<1>13. Ended'
  BY <1>1 DEF Ended
<1> QED
  BY <1>10, <1>11, <1>12, <1>13 DEF IInv

\* What the loop looks at, in the rest of the text.
LEMMA HereMeans ==
  ASSUME IInv, depth > 0
  PROVE  /\ at - position \in Nat /\ at \in Nat /\ depth \in Nat \ {0}
         /\ Scanned(Rest, at - position, depth) /\ Rest \in Seq(STRING)
         /\ Len(Rest) = Len(text) - position /\ Len(text) \in Nat /\ position \in Nat
         /\ at \in position + 2 .. Len(text)
         /\ Here(<<"/", "*">>) <=> at - position + 1 \in Openers(Rest)
         /\ Here(<<"*", "/">>) <=> at - position + 1 \in Closers(Rest)
<1>1. /\ text \in Seq(STRING) /\ Len(text) \in Nat /\ position \in Nat
      /\ Rest \in Seq(STRING) /\ Len(Rest) = Len(text) - position
      /\ \A i \in 1 .. Len(text) - position : Rest[i] = text[position + i]
  BY TextFacts DEF IInv
<1>2. /\ depth \in Nat \ {0} /\ at \in position + 2 .. Len(text)
      /\ Scanned(Rest, at - position, depth)
  BY DEF IInv, Where, InComment
<1> DEFINE o == at - position
<1>3. at \in Nat /\ o \in Nat /\ o >= 2
  BY <1>1, <1>2
<1>4. at + 1 < Len(text) <=> o + 1 \in 1 .. Len(Rest) - 1
  BY <1>1, <1>2, <1>3
<1>5. ASSUME at + 1 < Len(text), NEW a, NEW b
      PROVE  Slice(at, at + 2) = <<a, b>> <=> Rest[o + 1] = a /\ Rest[o + 2] = b
  <2> DEFINE s == Slice(at, at + 2)
             n == at + 2
  <2>1. n \in Nat /\ at <= n /\ n <= Len(text) /\ n - at = 2
    BY <1>1, <1>3, <1>5
  <2>2. /\ SubSeq(text, at + 1, n) \in Seq(STRING)
        /\ Len(SubSeq(text, at + 1, n)) = n - at
        /\ \A i \in 1 .. n - at : SubSeq(text, at + 1, n)[i] = text[at + i]
    <3> HIDE DEF n
    <3> QED
      BY <1>1, <1>3, <2>1, Slices
  <2>3. s \in Seq(STRING) /\ Len(s) = 2 /\ s[1] = text[at + 1] /\ s[2] = text[at + 2]
    BY <2>1, <2>2 DEF Slice
  <2>4. Rest[o + 1] = text[at + 1] /\ Rest[o + 2] = text[at + 2]
    <3>1. /\ o + 1 \in 1 .. Len(text) - position /\ o + 2 \in 1 .. Len(text) - position
          /\ position + (o + 1) = at + 1 /\ position + (o + 2) = at + 2
      BY <1>1, <1>3, <1>5
    <3>2. Rest[o + 1] = text[position + (o + 1)] /\ Rest[o + 2] = text[position + (o + 2)]
      BY <1>1, <3>1
    <3> QED
      BY <3>1, <3>2
  <2> HIDE DEF s
  <2>5. s = <<a, b>> <=> s[1] = a /\ s[2] = b
    BY <2>3
  <2> QED
    BY <2>3, <2>4, <2>5 DEF s
<1> DEFINE q == o + 1
<1>6. q + 1 = o + 2
  BY <1>3
<1> HIDE DEF q
<1>7. /\ q \in Openers(Rest) <=> at + 1 < Len(text) /\ Rest[q] = "/" /\ Rest[o + 2] = "*"
      /\ q \in Closers(Rest) <=> at + 1 < Len(text) /\ Rest[q] = "*" /\ Rest[o + 2] = "/"
  <2>1. /\ q \in Openers(Rest) <=> q \in 1 .. Len(Rest) - 1 /\ Rest[q] = "/" /\ Rest[q + 1] = "*"
        /\ q \in Closers(Rest) <=> q \in 1 .. Len(Rest) - 1 /\ Rest[q] = "*" /\ Rest[q + 1] = "/"
    BY <1>1, PlacesFacts
  <2>2. at + 1 < Len(text) <=> q \in 1 .. Len(Rest) - 1
    BY <1>4 DEF q
  <2> QED
    BY <1>6, <2>1, <2>2
<1>8. /\ Here(<<"/", "*">>) <=> q \in Openers(Rest)
      /\ Here(<<"*", "/">>) <=> q \in Closers(Rest)
  <2>1. ASSUME NEW a, NEW b
        PROVE  Here(<<a, b>>) <=> at + 1 < Len(text) /\ Rest[q] = a /\ Rest[o + 2] = b
    BY <1>5 DEF Here, q
  <2> QED
    BY <1>7, <2>1
<1> QED
  BY <1>1, <1>2, <1>3, <1>8 DEF q

\* The loop goes on in the comment.
LEMMA LoopKeeps ==
  ASSUME IInv, Scanning, NEW o \in Nat, UNCHANGED <<text, position, tokens, status>>,
         depth' \in Nat \ {0}, at' = position + o, Scanned(Rest, o, depth')
  PROVE  IInv'
<1>1. position \in Nat /\ Len(Rest) = Len(text) - position /\ Len(text) \in Nat
  BY TextFacts DEF IInv
<1>2. at' - position' = o /\ Rest' = Rest
  BY <1>1 DEF Rest, Slice
<1>3. InComment'
  BY <1>2 DEF InComment
<1>4. o \in 2 .. Len(Rest)
  BY DEF Scanned
<1>5. Where'
  BY <1>1, <1>4 DEF IInv, Where
<1>6. Tokens' /\ Covered'
  BY TokensSame DEF IInv
<1>7. Ended'
  BY DEF Scanning, Ended
<1> QED
  BY <1>3, <1>5, <1>6, <1>7 DEF IInv

LEMMA NestKeeps ==
  ASSUME IInv, Nest
  PROVE  IInv'
<1> DEFINE o == at - position
<1>1. /\ Scanning /\ Here(<<"/", "*">>) /\ depth' = depth + 1 /\ at' = at + 2 /\ depth > 0
      /\ UNCHANGED <<text, position, tokens, status>>
  BY DEF Nest, Scanning
<1>2. /\ o \in Nat /\ at \in Nat /\ depth \in Nat \ {0} /\ position \in Nat
      /\ Scanned(Rest, o, depth) /\ Rest \in Seq(STRING)
      /\ o + 1 \in Openers(Rest)
  BY <1>1, HereMeans
<1>3. position + (o + 2) = at + 2 /\ o + 2 \in Nat
  BY <1>2
<1> HIDE DEF o
<1>4. Scanned(Rest, o + 2, depth + 1) /\ depth + 1 \in Nat \ {0}
  BY <1>2, ScanNests
<1> QED
  BY <1>1, <1>3, <1>4, LoopKeeps

LEMMA PassOverKeeps ==
  ASSUME IInv, PassOver
  PROVE  IInv'
<1> DEFINE o == at - position
<1>1. /\ Scanning /\ ~Here(<<"/", "*">>) /\ ~Here(<<"*", "/">>) /\ at' = at + 1 /\ depth > 0
      /\ at < Len(text) /\ UNCHANGED <<text, position, tokens, depth, status>>
  BY DEF PassOver, Scanning
<1>2. /\ o \in Nat /\ at \in Nat /\ depth \in Nat \ {0} /\ position \in Nat /\ Len(text) \in Nat
      /\ Scanned(Rest, o, depth) /\ Rest \in Seq(STRING) /\ Len(Rest) = Len(text) - position
      /\ o + 1 \notin Openers(Rest) /\ o + 1 \notin Closers(Rest)
  BY <1>1, HereMeans
<1>3. position + (o + 1) = at + 1 /\ o + 1 \in Nat /\ o < Len(Rest)
  BY <1>1, <1>2
<1> HIDE DEF o
<1>4. Scanned(Rest, o + 1, depth)
  BY <1>2, <1>3, ScanPasses DEF Readable
<1> QED
  BY <1>1, <1>2, <1>3, <1>4, LoopKeeps

LEMMA CloseCommentKeeps ==
  ASSUME IInv, CloseComment
  PROVE  IInv'
<1> DEFINE o == at - position
<1>1. /\ Scanning /\ Here(<<"*", "/">>) /\ depth' = depth - 1 /\ depth > 0 /\ status = "lexing"
      /\ UNCHANGED <<text, status>>
  BY DEF CloseComment, Scanning
<1>2. /\ o \in Nat /\ at \in Nat /\ depth \in Nat \ {0} /\ position \in Nat /\ Len(text) \in Nat
      /\ Scanned(Rest, o, depth) /\ Rest \in Seq(STRING) /\ Len(Rest) = Len(text) - position
      /\ o + 1 \in Closers(Rest)
      /\ at \in position + 2 .. Len(text) /\ text \in Seq(STRING)
  BY <1>1, HereMeans, TextFacts DEF IInv
<1>3. position + (o + 2) = at + 2 /\ o + 2 \in Nat
  BY <1>2
<1>4. CASE depth = 1
  <2> DEFINE to == at + 2
  <2>1. Push("Block", to, NoLiteral) /\ at' = 0 /\ depth' = 0
    BY <1>1, <1>4 DEF CloseComment
  <2>2. to \in position + 1 .. Len(text) /\ to \in Nat /\ position' = to
    <3>1. o + 1 <= Len(Rest) - 1
      BY <1>2, PlacesFacts
    <3> QED
      BY <1>2, <2>1, <3>1 DEF Push
  <2>3. Slice(position, to) = SubSeq(Rest, 1, o + 2)
    <3> DEFINE n == o + 2
               s == Slice(position, to)
               r == SubSeq(Rest, 0 + 1, n)
    <3>1. n \in Nat /\ to = position + n /\ n <= Len(Rest) /\ to - position = n /\ n - 0 = n
      BY <1>2, <2>2
    <3>2. s \in Seq(STRING) /\ Len(s) = n /\ \A i \in 1 .. n : s[i] = text[position + i]
      <4>1. /\ s \in Seq(STRING) /\ Len(s) = to - position
            /\ \A i \in 1 .. to - position : s[i] = text[position + i]
        <5> HIDE DEF to, n
        <5>1. position <= to /\ to <= Len(text)
          BY <1>2, <2>2
        <5> QED
          BY <1>2, <2>2, <5>1, Slices DEF Slice
      <4> HIDE DEF to, n, s
      <4> QED
        BY <3>1, <4>1
    <3>3. r \in Seq(STRING) /\ Len(r) = n /\ \A i \in 1 .. n : r[i] = Rest[0 + i]
      <4> HIDE DEF n
      <4> QED
        BY <1>2, <3>1, Slices
    <3>4. \A i \in 1 .. n : Rest[0 + i] = text[position + i]
      <4>1. \A i \in 1 .. Len(text) - position : Rest[i] = text[position + i]
        BY TextFacts DEF IInv
      <4> QED
        BY <1>2, <3>1, <4>1
    <3> HIDE DEF s, r, n
    <3>5. s = r
      BY <3>2, <3>3, <3>4
    <3> QED
      BY <3>5 DEF s, r, n
  <2>4. IsComment(Slice(position, to))
    <3> HIDE DEF o
    <3> QED
      BY <1>2, <1>4, <2>3, ScanEnds
  <2>5. Tokens' /\ Covered'
    <3>1. "Block" \in KindNames
      BY DEF KindNames
    <3> HIDE DEF to
    <3>2. Fits("Block", position, to)
      BY DEF Fits
    <3> QED
      BY <1>1, <2>1, <2>2, <2>4, <3>1, <3>2, PushKeeps DEF IInv
  <2>6. Where' /\ InComment' /\ Ended'
    BY <1>1, <1>2, <2>1, <2>2 DEF IInv, Where, InComment, Ended
  <2> QED
    BY <2>5, <2>6 DEF IInv
<1>5. CASE depth # 1
  <2>1. at' = at + 2 /\ UNCHANGED <<tokens, position>>
    BY <1>5 DEF CloseComment
  <2> HIDE DEF o
  <2>2. Scanned(Rest, o + 2, depth - 1) /\ depth - 1 \in Nat \ {0}
    BY <1>2, <1>5, ScanCloses
  <2> QED
    BY <1>1, <1>3, <2>1, <2>2, LoopKeeps
<1> QED
  BY <1>4, <1>5

LEMMA InitHolds == Init => IInv
<1> SUFFICES ASSUME Init PROVE IInv
  OBVIOUS
<1>1. text \in Seq(STRING) /\ Len(text) \in Nat
  BY TextsAssumption DEF Init
<1>2. Where /\ InComment /\ Ended /\ Covered
  BY <1>1 DEF Init, Where, InComment, Ended, Covered
<1>3. Tokens
  BY DEF Init, Tokens
<1> QED
  BY <1>2, <1>3 DEF IInv

LEMMA NextKeeps == IInv /\ [Next]_vars => IInv'
BY EmitKeeps, EmitNumberKeeps, EmitNewlineKeeps, EndsKeep, OpenCommentKeeps, NestKeeps,
   PassOverKeeps, CloseCommentKeeps DEF Next

LEMMA Invariant == Spec => []IInv
BY InitHolds, NextKeeps, PTL DEF Spec

-----------------------------------------------------------------------------
(* Powers of a base. *)

\* A power is what is computed for it, a product of the base.
LEMMA PowFacts ==
  ASSUME NEW b \in Nat
  PROVE  /\ Pow(b, 0) = 1
         /\ \A n \in Nat : Pow(b, n) \in Nat /\ Pow(b, n + 1) = b * Pow(b, n)
<1> DEFINE Rule(f) == f = [k \in Nat |-> IF k = 0 THEN 1 ELSE b * f[k - 1]]
           power == CHOOSE f : Rule(f)
           G == [k \in Nat |-> [v \in Nat |-> b * v]]
<1>1. \A v \in Nat : b * v \in Nat
  OBVIOUS
<1>2. G \in [Nat -> [Nat -> Nat]] /\ \A k \in Nat : \A v \in Nat : G[k][v] = b * v
  BY <1>1
<1>3. PICK g \in [Nat -> Nat] : Follows(g, 1, G)
  <2> HIDE DEF G
  <2>1. 1 \in Nat /\ G \in [Nat -> [Nat -> Nat]]
    BY <1>2
  <2> QED
    BY <2>1, Recursion
<1>4. ASSUME NEW k \in Nat PROVE g[k] = IF k = 0 THEN 1 ELSE b * g[k - 1]
  <2> HIDE DEF G
  <2>1. CASE k = 0
    BY <1>3, <2>1 DEF Follows
  <2>2. CASE k # 0
    <3>1. k \in Nat \ {0} /\ k - 1 \in Nat
      BY <2>2
    <3>2. g[k] = G[k][g[k - 1]] /\ g[k - 1] \in Nat
      BY <1>3, <3>1 DEF Follows
    <3> QED
      BY <1>2, <2>2, <3>2
  <2> QED
    BY <2>1, <2>2
<1>5. Rule(g)
  BY <1>3, <1>4
<1>6. Rule(power)
  <2> HIDE DEF Rule
  <2> QED
    BY <1>5
<1>7. \A n : Pow(b, n) = power[n]
  BY DEF Pow
<1> HIDE DEF power
<1>8. power[0] = 1 /\ \A k \in Nat : power[k + 1] = b * power[k]
  BY <1>6
<1> DEFINE T == {n \in Nat : power[n] \in Nat}
<1>9. ASSUME NEW n \in Nat, \A m \in 0 .. n - 1 : m \in T
      PROVE  n \in T
  <2>1. CASE n = 0
    BY <1>8, <2>1
  <2>2. CASE n # 0
    <3>1. n - 1 \in 0 .. n - 1 /\ n - 1 \in Nat /\ (n - 1) + 1 = n
      BY <2>2
    <3>2. power[n - 1] \in Nat
      BY <1>9, <3>1
    <3>3. power[n] = b * power[n - 1]
      BY <1>8, <3>1
    <3> QED
      BY <1>1, <3>2, <3>3
  <2> QED
    BY <2>1, <2>2
<1>10. T = Nat
  <2> HIDE DEF T
  <2>1. T \subseteq Nat
    BY DEF T
  <2> QED
    BY <1>9, <2>1, Below
<1>11. \A n \in Nat : power[n] \in Nat
  BY <1>10
<1> HIDE DEF T
<1>12. \A n \in Nat : Pow(b, n) \in Nat /\ Pow(b, n + 1) = b * Pow(b, n)
  <2>1. ASSUME NEW n \in Nat PROVE Pow(b, n) \in Nat /\ Pow(b, n + 1) = b * Pow(b, n)
    <3>1. Pow(b, n) = power[n] /\ Pow(b, n + 1) = power[n + 1]
      BY <1>7
    <3> QED
      BY <1>8, <1>11, <3>1
  <2> QED
    BY <2>1
<1> QED
  BY <1>7, <1>8, <1>12

\* Powers of a base are no zero.
LEMMA PowPositive ==
  ASSUME NEW b \in Nat \ {0}, NEW n \in Nat
  PROVE  Pow(b, n) \in Nat \ {0}
<1> DEFINE f == [k \in Nat |-> Pow(b, k)]
<1>1. \A k \in Nat : f[k] = Pow(b, k)
  OBVIOUS
<1> HIDE DEF f
<1>2. f[0] \in Nat \ {0}
  <2>1. Pow(b, 0) = 1 /\ f[0] = Pow(b, 0)
    BY <1>1, PowFacts
  <2> QED
    BY <2>1
<1>3. ASSUME NEW k \in 1 .. n, f[k - 1] \in Nat \ {0}
      PROVE  f[k] \in Nat \ {0}
  <2>1. k - 1 \in Nat /\ k \in Nat /\ (k - 1) + 1 = k
    OBVIOUS
  <2>2. f[k] = b * f[k - 1]
    <3>1. \A i \in Nat : Pow(b, i + 1) = b * Pow(b, i)
      BY PowFacts
    <3>2. Pow(b, (k - 1) + 1) = b * Pow(b, k - 1)
      BY <2>1, <3>1
    <3> QED
      BY <1>1, <2>1, <3>2
  <2>3. \A x, y \in Nat \ {0} : x * y \in Nat \ {0}
    OBVIOUS
  <2> QED
    BY <1>3, <2>2, <2>3
<1>4. \A k \in 0 .. n : f[k] \in Nat \ {0}
  BY <1>2, <1>3, StepsTyped
<1> QED
  BY <1>1, <1>4

\* Powers of two grow, and faster than their exponents.
LEMMA TwoGrows ==
  ASSUME NEW m \in Nat, NEW n \in Nat, m <= n
  PROVE  Pow(2, m) <= Pow(2, n) /\ n < Pow(2, n)
<1>1. \A k \in Nat : Pow(2, k) \in Nat \ {0} /\ Pow(2, k + 1) = 2 * Pow(2, k)
  BY PowPositive, PowFacts
<1> DEFINE f == [k \in Nat |-> <<Pow(2, k) <= Pow(2, n), k>>]
           T == {k \in Nat : k < Pow(2, k) /\ (m <= k => Pow(2, m) <= Pow(2, k))}
<1>2. ASSUME NEW k \in Nat, \A i \in 0 .. k - 1 : i \in T
      PROVE  k \in T
  <2>1. CASE k = 0
    <3>1. 0 < Pow(2, 0) /\ (m <= 0 => m = 0)
      BY <1>1
    <3>2. Pow(2, 0) \in Nat
      BY <1>1
    <3>3. m <= 0 => Pow(2, m) <= Pow(2, 0)
      BY <3>1, <3>2
    <3> QED
      BY <2>1, <3>1, <3>3
  <2>2. CASE k # 0
    <3> DEFINE i == k - 1
    <3>1. i \in Nat /\ i \in 0 .. k - 1 /\ k = i + 1
      BY <2>2
    <3> HIDE DEF i
    <3>2. i < Pow(2, i) /\ (m <= i => Pow(2, m) <= Pow(2, i))
      BY <1>2, <3>1
    <3>3. Pow(2, i) \in Nat /\ Pow(2, m) \in Nat /\ Pow(2, k) \in Nat /\ Pow(2, k) = 2 * Pow(2, i)
      BY <1>1, <3>1
    <3>4. k < Pow(2, k)
      BY <3>1, <3>2, <3>3
    <3>5. m <= k => Pow(2, m) <= Pow(2, k)
      <4>1. CASE m = k
        BY <3>3, <4>1
      <4>2. CASE m # k
        BY <3>1, <3>2, <3>3, <4>2
      <4> QED
        BY <4>1, <4>2
    <3> QED
      BY <3>4, <3>5
  <2> QED
    BY <2>1, <2>2
<1>3. T = Nat
  <2> HIDE DEF T
  <2>1. T \subseteq Nat
    BY DEF T
  <2> QED
    BY <1>2, <2>1, Below
<1> QED
  BY <1>3

-----------------------------------------------------------------------------
(* The recursive functions of parse_numeric and of the reference, as steps. *)

\* Stripped, character by character.
LEMMA StripSteps ==
  ASSUME NEW S, NEW s \in Seq(S)
  PROVE  \E f \in [0 .. Len(s) -> Seq(S \ {Gap})] :
           /\ f[0] = <<>> /\ Stripped(s) = f[Len(s)]
           /\ \A k \in 1 .. Len(s) :
                f[k] = IF s[k] = Gap THEN f[k - 1] ELSE Append(f[k - 1], s[k])
<1> DEFINE n == Len(s)
           V == Seq(S \ {Gap})
           Kept(v, k) == IF s[k] = Gap THEN v ELSE Append(v, s[k])
           Rule(f) == f = [k \in 0 .. n |-> IF k = 0 THEN <<>> ELSE Kept(f[k - 1], k)]
           kept == CHOOSE f : Rule(f)
           G == [k \in 1 .. n |-> [v \in V |-> Kept(v, k)]]
<1>1. n \in Nat /\ \A k \in 1 .. n : s[k] \in S /\ k \in Nat /\ k - 1 \in 0 .. n /\ k # 0 /\ k \in 0 .. n
  OBVIOUS
<1>2. <<>> \in V
  OBVIOUS
<1>3. \A v \in V : \A k \in 1 .. n : Kept(v, k) \in V
  <2> HIDE DEF n
  <2>1. ASSUME NEW v \in V, NEW k \in 1 .. n, s[k] # Gap
        PROVE  Append(v, s[k]) \in V
    <3>1. s[k] \in S \ {Gap}
      BY <1>1, <2>1
    <3> QED
      BY <3>1
  <2> QED
    BY <2>1
<1> HIDE DEF V, Kept
<1>4. /\ G \in [1 .. n -> [V -> V]]
      /\ \A k \in 1 .. n : \A v \in V : G[k][v] = Kept(v, k)
  BY <1>1, <1>3
<1>5. PICK g \in [0 .. n -> V] : Steps(g, n, <<>>, G)
  <2> HIDE DEF G, n
  <2> QED
    BY <1>1, <1>2, <1>4, StepsExist
<1>6. Rule(g)
  <2>1. ASSUME NEW k \in 0 .. n
        PROVE  g[k] = IF k = 0 THEN <<>> ELSE Kept(g[k - 1], k)
    <3> HIDE DEF G
    <3>1. CASE k = 0
      BY <1>5, <3>1 DEF Steps
    <3>2. CASE k # 0
      <4>1. k \in 1 .. n
        BY <1>1, <3>2
      <4>2. g[k] = G[k][g[k - 1]] /\ g[k - 1] \in V
        BY <1>1, <1>5, <4>1 DEF Steps
      <4> QED
        BY <1>4, <3>2, <4>1, <4>2
    <3> QED
      BY <3>1, <3>2
  <2> QED
    BY <2>1
<1>7. Rule(kept)
  <2> HIDE DEF Rule
  <2> QED
    BY <1>6
<1>8. Stripped(s) = kept[n]
  BY DEF Stripped, Kept
<1> HIDE DEF kept, n
<1>9. /\ kept[0] = <<>>
      /\ \A k \in 1 .. n : kept[k] = Kept(kept[k - 1], k)
  <2>1. \A k \in 0 .. n : kept[k] = IF k = 0 THEN <<>> ELSE Kept(kept[k - 1], k)
    BY <1>7
  <2> QED
    BY <1>1, <2>1
<1>10. \A k \in 0 .. n : kept[k] \in V
  <2>1. \A k \in 1 .. n : kept[k - 1] \in V => kept[k] \in V
    BY <1>1, <1>3, <1>9
  <2> QED
    BY <1>1, <1>2, <1>9, <2>1, StepsTyped
<1>11. kept \in [0 .. n -> V]
  BY <1>7, <1>10
<1> QED
  BY <1>8, <1>9, <1>11 DEF n, V, Kept

\* The digits and their values.
LEMMA DigitFacts ==
  /\ DOMAIN DigitValue = Digits \union {"b", "d"}
  /\ Gap \notin DOMAIN DigitValue /\ "?" \notin DOMAIN DigitValue /\ Gap # "?"
  /\ "0" \in Digits /\ DigitValue["0"] = 0
  /\ \A c \in DOMAIN DigitValue : DigitValue[c] \in 0 .. 15
  /\ \A c \in Digits : DigitValue[c] < 10 /\ (DigitValue[c] < 2 => c \in {"0", "1"})
<1>1. DOMAIN DigitValue = Digits \union {"b", "d"}
  BY DEF DigitValue
<1>2. /\ DigitValue["0"] = 0 /\ DigitValue["1"] = 1 /\ DigitValue["2"] = 2
      /\ DigitValue["3"] = 3 /\ DigitValue["4"] = 4
      /\ DigitValue["b"] = 11 /\ DigitValue["d"] = 13
  BY DEF DigitValue, Digits
<1>3. Gap \notin {"0", "1", "2", "3", "4", "b", "d", "?"}
  BY Zenon DEF Gap
<1>4. "?" \notin {"0", "1", "2", "3", "4", "b", "d"}
  OBVIOUS
<1> QED
  BY <1>1, <1>2, <1>3, <1>4 DEF Digits

\* The limit is a power of two, and larger than every width.
LEMMA LimitFacts == Limit \in Nat \ {0, 1} /\ Bits < Limit /\ Limit = Pow(2, Bits)
<1>1. Bits \in Nat /\ Bits >= 1
  BY BitsAssumption
<1>2. Bits < Pow(2, Bits) /\ Pow(2, Bits) \in Nat
  BY <1>1, TwoGrows, PowFacts
<1> QED
  BY <1>1, <1>2 DEF Limit

\* from_str_radix, digit by digit.
LEMMA ReadSteps ==
  ASSUME NEW s \in Seq(DOMAIN DigitValue), NEW radix \in Nat
  PROVE  \E f \in [0 .. Len(s) -> 0 .. Limit] :
           /\ f[0] = 0 /\ from_str_radix(s, radix) = IF s = <<>> THEN Err ELSE f[Len(s)]
           /\ \A k \in 1 .. Len(s) : f[k] = WithDigit(f[k - 1], DigitValue[s[k]], radix)
<1> DEFINE n == Len(s)
           V == 0 .. Limit
           Rule(f) == f = [k \in 0 .. n |->
                             IF k = 0 THEN 0
                             ELSE WithDigit(f[k - 1], DigitValue[s[k]], radix)]
           read == CHOOSE f : Rule(f)
           G == [k \in 1 .. n |-> [v \in V |-> WithDigit(v, DigitValue[s[k]], radix)]]
<1>1. n \in Nat /\ \A k \in 1 .. n : DigitValue[s[k]] \in Nat /\ k \in Nat /\ k - 1 \in 0 .. n /\ k # 0 /\ k \in 0 .. n
  BY DigitFacts
<1>2. Limit \in Nat /\ Err = Limit /\ 0 \in V
  BY LimitFacts DEF Err
<1>3. ASSUME NEW v \in V, NEW d \in Nat
      PROVE  WithDigit(v, d, radix) \in V
  <2>1. v * radix + d \in Nat
    BY <1>2
  <2> QED
    BY <1>2, <2>1 DEF WithDigit
<1> HIDE DEF V
<1>4. /\ G \in [1 .. n -> [V -> V]]
      /\ \A k \in 1 .. n : \A v \in V : G[k][v] = WithDigit(v, DigitValue[s[k]], radix)
  BY <1>1, <1>3
<1>5. PICK g \in [0 .. n -> V] : Steps(g, n, 0, G)
  <2> HIDE DEF G, n
  <2> QED
    BY <1>1, <1>2, <1>4, StepsExist
<1>6. Rule(g)
  <2>1. ASSUME NEW k \in 0 .. n
        PROVE  g[k] = IF k = 0 THEN 0 ELSE WithDigit(g[k - 1], DigitValue[s[k]], radix)
    <3> HIDE DEF G
    <3>1. CASE k = 0
      BY <1>5, <3>1 DEF Steps
    <3>2. CASE k # 0
      <4>1. k \in 1 .. n
        BY <1>1, <3>2
      <4>2. g[k] = G[k][g[k - 1]] /\ g[k - 1] \in V
        BY <1>1, <1>5, <4>1 DEF Steps
      <4> QED
        BY <1>4, <3>2, <4>1, <4>2
    <3> QED
      BY <3>1, <3>2
  <2> QED
    BY <2>1
<1>7. Rule(read)
  <2> HIDE DEF Rule
  <2> QED
    BY <1>6
<1>8. from_str_radix(s, radix) = IF s = <<>> THEN Err ELSE read[n]
  BY DEF from_str_radix
<1> HIDE DEF read, n
<1>9. /\ read[0] = 0
      /\ \A k \in 1 .. n : read[k] = WithDigit(read[k - 1], DigitValue[s[k]], radix)
  <2>1. \A k \in 0 .. n : read[k] = IF k = 0 THEN 0
                                    ELSE WithDigit(read[k - 1], DigitValue[s[k]], radix)
    BY <1>7
  <2> QED
    BY <1>1, <2>1
<1>10. \A k \in 0 .. n : read[k] \in V
  <2>1. \A k \in 1 .. n : read[k - 1] \in V => read[k] \in V
    BY <1>1, <1>3, <1>9
  <2> QED
    BY <1>1, <1>2, <1>9, <2>1, StepsTyped
<1>11. read \in [0 .. n -> V]
  BY <1>7, <1>10
<1> QED
  BY <1>8, <1>9, <1>11 DEF n, V

\* The sum of the reference, digit by digit.
LEMMA SumSteps ==
  ASSUME NEW digits, NEW base, Len(digits) \in Nat,
         \A i \in 1 .. Len(digits) : Weighted(digits, base, i) \in Nat
  PROVE  \E f \in [0 .. Len(digits) -> Nat] :
           /\ f[0] = 0 /\ Positional(digits, base) = f[Len(digits)]
           /\ \A i \in 1 .. Len(digits) : f[i] = f[i - 1] + Weighted(digits, base, i)
<1> DEFINE n == Len(digits)
           Rule(f) == f = [i \in 0 .. n |->
                             IF i = 0 THEN 0 ELSE f[i - 1] + Weighted(digits, base, i)]
           sum == CHOOSE f : Rule(f)
           G == [i \in 1 .. n |-> [v \in Nat |-> v + Weighted(digits, base, i)]]
<1>1. n \in Nat /\ \A k \in 1 .. n : Weighted(digits, base, k) \in Nat /\ k \in Nat /\ k - 1 \in 0 .. n /\ k # 0 /\ k \in 0 .. n
  OBVIOUS
<1>2. /\ G \in [1 .. n -> [Nat -> Nat]] /\ 0 \in Nat
      /\ \A k \in 1 .. n : \A v \in Nat : G[k][v] = v + Weighted(digits, base, k)
  BY <1>1
<1>3. PICK g \in [0 .. n -> Nat] : Steps(g, n, 0, G)
  <2> HIDE DEF G, n
  <2> QED
    BY <1>1, <1>2, StepsExist
<1>4. Rule(g)
  <2>1. ASSUME NEW k \in 0 .. n
        PROVE  g[k] = IF k = 0 THEN 0 ELSE g[k - 1] + Weighted(digits, base, k)
    <3> HIDE DEF G
    <3>1. CASE k = 0
      BY <1>3, <3>1 DEF Steps
    <3>2. CASE k # 0
      <4>1. k \in 1 .. n
        BY <1>1, <3>2
      <4>2. g[k] = G[k][g[k - 1]] /\ g[k - 1] \in Nat
        BY <1>1, <1>3, <4>1 DEF Steps
      <4> QED
        BY <1>2, <3>2, <4>1, <4>2
    <3> QED
      BY <3>1, <3>2
  <2> QED
    BY <2>1
<1>5. Rule(sum)
  <2> HIDE DEF Rule
  <2> QED
    BY <1>4
<1>6. Positional(digits, base) = sum[n]
  BY DEF Positional
<1> HIDE DEF sum, n
<1>7. /\ sum[0] = 0
      /\ \A k \in 1 .. n : sum[k] = sum[k - 1] + Weighted(digits, base, k)
  <2>1. \A k \in 0 .. n : sum[k] = IF k = 0 THEN 0 ELSE sum[k - 1] + Weighted(digits, base, k)
    BY <1>5
  <2> QED
    BY <1>1, <2>1
<1>8. \A k \in 0 .. n : sum[k] \in Nat
  <2>1. ASSUME NEW k \in 1 .. n, sum[k - 1] \in Nat
        PROVE  sum[k] \in Nat
    <3>1. sum[k] = sum[k - 1] + Weighted(digits, base, k) /\ Weighted(digits, base, k) \in Nat
      BY <1>1, <1>7
    <3> QED
      BY <2>1, <3>1
  <2>2. sum[0] \in Nat /\ n \in Nat
    BY <1>1, <1>7
  <2> QED
    BY <2>1, <2>2, StepsTyped
<1>9. sum \in [0 .. n -> Nat]
  BY <1>5, <1>8
<1> QED
  BY <1>6, <1>7, <1>9 DEF n

\* dont_care_mask, character by character.
LEMMA MaskSteps ==
  ASSUME NEW s, Len(s) \in Nat
  PROVE  \E f \in [0 .. Len(s) -> 0 .. Limit - 1] :
           /\ f[0] = 0 /\ dont_care_mask(s) = f[Len(s)]
           /\ \A k \in 1 .. Len(s) :
                f[k] = (2 * f[k - 1] + (IF s[k] = "?" THEN 1 ELSE 0)) % Limit
<1> DEFINE n == Len(s)
           V == 0 .. Limit - 1
           Shifted(v, k) == (2 * v + (IF s[k] = "?" THEN 1 ELSE 0)) % Limit
           Rule(f) == f = [k \in 0 .. n |-> IF k = 0 THEN 0 ELSE Shifted(f[k - 1], k)]
           mask == CHOOSE f : Rule(f)
           G == [k \in 1 .. n |-> [v \in V |-> Shifted(v, k)]]
<1>1. n \in Nat /\ \A k \in 1 .. n : k \in Nat /\ k - 1 \in 0 .. n /\ k # 0 /\ k \in 0 .. n
  OBVIOUS
<1>2. Limit \in Nat /\ 0 \in V
  BY LimitFacts
<1>3. \A v \in V : \A k : Shifted(v, k) \in V
  <2>1. ASSUME NEW v \in V, NEW k PROVE Shifted(v, k) \in V
    <3>1. 2 * v + (IF s[k] = "?" THEN 1 ELSE 0) \in Nat
      BY <1>2
    <3>2. \A m \in Nat : m % Limit \in V
      BY LimitFacts
    <3> QED
      BY <3>1, <3>2
  <2> QED
    BY <2>1
<1> HIDE DEF V, Shifted
<1>4. /\ G \in [1 .. n -> [V -> V]]
      /\ \A k \in 1 .. n : \A v \in V : G[k][v] = Shifted(v, k)
  BY <1>1, <1>3
<1>5. PICK g \in [0 .. n -> V] : Steps(g, n, 0, G)
  <2> HIDE DEF G, n
  <2> QED
    BY <1>1, <1>2, <1>4, StepsExist
<1>6. Rule(g)
  <2>1. ASSUME NEW k \in 0 .. n
        PROVE  g[k] = IF k = 0 THEN 0 ELSE Shifted(g[k - 1], k)
    <3> HIDE DEF G
    <3>1. CASE k = 0
      BY <1>5, <3>1 DEF Steps
    <3>2. CASE k # 0
      <4>1. k \in 1 .. n
        BY <1>1, <3>2
      <4>2. g[k] = G[k][g[k - 1]] /\ g[k - 1] \in V
        BY <1>1, <1>5, <4>1 DEF Steps
      <4> QED
        BY <1>4, <3>2, <4>1, <4>2
    <3> QED
      BY <3>1, <3>2
  <2> QED
    BY <2>1
<1>7. Rule(mask)
  <2> HIDE DEF Rule
  <2> QED
    BY <1>6
<1>8. dont_care_mask(s) = mask[n]
  BY DEF dont_care_mask, Shifted
<1> HIDE DEF mask, n
<1>9. /\ mask[0] = 0
      /\ \A k \in 1 .. n : mask[k] = Shifted(mask[k - 1], k)
  <2>1. \A k \in 0 .. n : mask[k] = IF k = 0 THEN 0 ELSE Shifted(mask[k - 1], k)
    BY <1>7
  <2> QED
    BY <1>1, <2>1
<1>10. \A k \in 0 .. n : mask[k] \in V
  <2>1. \A k \in 1 .. n : mask[k - 1] \in V => mask[k] \in V
    BY <1>1, <1>3, <1>9
  <2> QED
    BY <1>1, <1>2, <1>9, <2>1, StepsTyped
<1>11. mask \in [0 .. n -> V]
  BY <1>7, <1>10
<1> QED
  BY <1>8, <1>9, <1>11 DEF n, V, Shifted

-----------------------------------------------------------------------------
(* What is left of a text without its gaps. *)

\* u is the text s without its gaps: c of its characters are among the first
\* k of s.
Strips(s, u, c) ==
  /\ c \in [0 .. Len(s) -> 0 .. Len(u)] /\ c[0] = 0 /\ c[Len(s)] = Len(u)
  /\ \A k \in 1 .. Len(s) :
       /\ s[k] = Gap => c[k] = c[k - 1]
       /\ s[k] # Gap => c[k] = c[k - 1] + 1 /\ u[c[k]] = s[k]

\* Stripped leaves out the gaps and nothing else.
LEMMA StripFacts ==
  ASSUME NEW S, NEW s \in Seq(S)
  PROVE  Stripped(s) \in Seq(S \ {Gap}) /\ \E c : Strips(s, Stripped(s), c)
<1> DEFINE n == Len(s)
           V == Seq(S \ {Gap})
<1>1. n \in Nat /\ \A k \in 1 .. n : s[k] \in S
  OBVIOUS
<1>2. PICK f \in [0 .. n -> V] :
        /\ f[0] = <<>> /\ Stripped(s) = f[n]
        /\ \A k \in 1 .. n : f[k] = IF s[k] = Gap THEN f[k - 1] ELSE Append(f[k - 1], s[k])
  BY StripSteps
<1> DEFINE Extends(m, k) == /\ Len(f[k]) <= Len(f[m])
                            /\ \A j \in 1 .. Len(f[k]) : f[m][j] = f[k][j]
           c == [k \in 0 .. n |-> Len(f[k])]
<1>3. \A k \in 0 .. n : f[k] \in V /\ Len(f[k]) \in Nat
  <2> HIDE DEF n
  <2>1. \A v \in V : Len(v) \in Nat
    OBVIOUS
  <2> QED
    BY <1>2, <2>1
<1> HIDE DEF n
<1>4. ASSUME NEW k \in 1 .. n
      PROVE  /\ s[k] = Gap => f[k] = f[k - 1]
             /\ s[k] # Gap => /\ Len(f[k]) = Len(f[k - 1]) + 1 /\ f[k][Len(f[k])] = s[k]
                              /\ \A j \in 1 .. Len(f[k - 1]) : f[k][j] = f[k - 1][j]
  <2>1. k - 1 \in 0 .. n
    BY <1>1
  <2>2. f[k - 1] \in V
    BY <1>3, <2>1
  <2>3. s[k] # Gap => s[k] \in S \ {Gap} /\ f[k] = Append(f[k - 1], s[k])
    BY <1>1, <1>2
  <2>4. \A v \in V : \A e \in S \ {Gap} :
          /\ Len(Append(v, e)) = Len(v) + 1 /\ Append(v, e)[Len(v) + 1] = e
          /\ \A j \in 1 .. Len(v) : Append(v, e)[j] = v[j]
    OBVIOUS
  <2>5. s[k] = Gap => f[k] = f[k - 1]
    BY <1>2
  <2>6. ASSUME s[k] # Gap
        PROVE  /\ Len(f[k]) = Len(f[k - 1]) + 1 /\ f[k][Len(f[k])] = s[k]
               /\ \A j \in 1 .. Len(f[k - 1]) : f[k][j] = f[k - 1][j]
    <3> DEFINE v == f[k - 1]
    <3> HIDE DEF V
    <3>1. v \in V /\ s[k] \in S \ {Gap} /\ f[k] = Append(v, s[k])
      BY <2>2, <2>3, <2>6
    <3>2. /\ Len(Append(v, s[k])) = Len(v) + 1 /\ Append(v, s[k])[Len(v) + 1] = s[k]
          /\ \A j \in 1 .. Len(v) : Append(v, s[k])[j] = v[j]
      BY <2>4, <3>1
    <3> HIDE DEF v
    <3>3. Len(f[k]) = Len(v) + 1
      BY <3>1, <3>2
    <3>4. f[k][Len(v) + 1] = s[k] /\ \A j \in 1 .. Len(v) : f[k][j] = v[j]
      BY <3>1, <3>2
    <3> QED
      BY <3>3, <3>4 DEF v
  <2> QED
    BY <2>5, <2>6
<1> HIDE DEF V
<1>5. ASSUME NEW k \in 0 .. n
      PROVE  \A m \in 0 .. n : k <= m => Extends(m, k)
  <2> DEFINE T == {m \in Nat : k <= m /\ m <= n => Extends(m, k)}
  <2>1. ASSUME NEW m \in Nat, \A i \in 0 .. m - 1 : i \in T
        PROVE  m \in T
    <3>1. SUFFICES ASSUME k <= m, m <= n PROVE Extends(m, k)
      OBVIOUS
    <3>2. CASE m = k
      BY <1>3, <3>2
    <3>3. CASE m # k
      <4>1. m - 1 \in 0 .. m - 1 /\ k <= m - 1 /\ m - 1 <= n /\ m \in 1 .. n /\ m - 1 \in 0 .. n
        BY <1>1, <3>1, <3>3
      <4>2. Extends(m - 1, k)
        <5> HIDE DEF Extends
        <5>1. m - 1 \in T
          <6> HIDE DEF T
          <6> QED
            BY <2>1, <4>1
        <5> QED
          BY <4>1, <5>1
      <4>3. CASE s[m] = Gap
        BY <1>4, <4>1, <4>2, <4>3
      <4>4. CASE s[m] # Gap
        <5>1. /\ Len(f[m]) = Len(f[m - 1]) + 1
              /\ \A j \in 1 .. Len(f[m - 1]) : f[m][j] = f[m - 1][j]
          BY <1>4, <4>1, <4>4
        <5>2. Len(f[m - 1]) \in Nat /\ Len(f[k]) \in Nat /\ Len(f[m]) \in Nat
          BY <1>1, <1>3, <3>1, <4>1
        <5> QED
          BY <4>2, <5>1, <5>2
      <4> QED
        BY <4>3, <4>4
    <3> QED
      BY <3>2, <3>3
  <2>2. T = Nat
    <3> HIDE DEF T
    <3>1. T \subseteq Nat
      BY DEF T
    <3> QED
      BY <2>1, <3>1, Below
  <2> HIDE DEF Extends
  <2>3. \A m \in 0 .. n : m \in T /\ m <= n
    BY <1>1, <2>2
  <2> QED
    BY <2>3
<1>6. n \in 0 .. n /\ 0 \in 0 .. n /\ \A k \in 1 .. n : k \in 0 .. n /\ k - 1 \in 0 .. n
  BY <1>1
<1>7. c \in [0 .. n -> 0 .. Len(f[n])]
  <2>1. ASSUME NEW k \in 0 .. n PROVE Len(f[k]) \in 0 .. Len(f[n])
    <3>1. k <= n
      BY <1>1
    <3>2. Extends(n, k)
      BY <1>5, <1>6, <3>1
    <3> QED
      BY <1>3, <1>6, <3>2
  <2> QED
    BY <2>1
<1>8. c[0] = 0 /\ c[n] = Len(f[n])
  <2>1. f[0] = <<>> /\ Len(<<>>) = 0
    BY <1>2
  <2> QED
    BY <1>6, <2>1
<1>9. ASSUME NEW k \in 1 .. n
      PROVE  /\ s[k] = Gap => c[k] = c[k - 1]
             /\ s[k] # Gap => c[k] = c[k - 1] + 1 /\ f[n][c[k]] = s[k]
  <2>1. c[k] = Len(f[k]) /\ c[k - 1] = Len(f[k - 1])
    BY <1>6
  <2>2. Len(f[k]) \in Nat /\ Len(f[k - 1]) \in Nat
    BY <1>3, <1>6
  <2>3. \A j \in 1 .. Len(f[k]) : f[n][j] = f[k][j]
    <3>1. k <= n
      BY <1>1
    <3> QED
      BY <1>5, <1>6, <3>1
  <2> HIDE DEF c
  <2>4. s[k] = Gap => c[k] = c[k - 1]
    BY <1>4, <2>1
  <2>5. ASSUME s[k] # Gap PROVE c[k] = c[k - 1] + 1 /\ f[n][c[k]] = s[k]
    <3>1. Len(f[k]) = Len(f[k - 1]) + 1 /\ f[k][Len(f[k])] = s[k]
      BY <1>4, <2>5
    <3>2. Len(f[k]) \in 1 .. Len(f[k])
      BY <2>2, <3>1
    <3> QED
      BY <2>1, <2>3, <3>1, <3>2
  <2> QED
    BY <2>4, <2>5
<1> HIDE DEF c
<1>10. Strips(s, f[n], c)
  BY <1>7, <1>8, <1>9 DEF Strips, n
<1> QED
  BY <1>2, <1>3, <1>6, <1>10 DEF V

\* Behind a digit stand those that are kept behind it.
LEMMA BehindFacts ==
  ASSUME NEW S, NEW s \in Seq(S), NEW u, Len(u) \in Nat, NEW c, Strips(s, u, c)
  PROVE  /\ \A k \in 1 .. Len(s) : Behind(s, k) = Len(u) - c[k]
         /\ Places(s) = {} <=> Len(u) = 0
<1> DEFINE n == Len(s)
           P == Places(s)
           m == [k \in Nat |-> Cardinality(UpTo(P, k))]
<1>1. n \in Nat /\ P \in SUBSET (1 .. n) /\ \A k \in 1 .. n : k \in P <=> s[k] # Gap
  BY DEF Places
<1>2. /\ c[0] = 0 /\ c[n] = Len(u) /\ \A k \in 0 .. n : c[k] \in Nat
      /\ \A k \in 1 .. n : /\ s[k] = Gap => c[k] = c[k - 1]
                           /\ s[k] # Gap => c[k] = c[k - 1] + 1
  <2>1. c \in [0 .. n -> 0 .. Len(u)] /\ c[0] = 0 /\ c[n] = Len(u)
    BY DEF Strips
  <2>2. \A k \in 1 .. n : /\ s[k] = Gap => c[k] = c[k - 1]
                          /\ s[k] # Gap => c[k] = c[k - 1] + 1
    BY DEF Strips
  <2> HIDE DEF n
  <2>3. \A k \in 0 .. n : c[k] \in Nat
    BY <2>1
  <2> QED
    BY <2>1, <2>2, <2>3
<1> HIDE DEF n, P
<1>0. \A k \in Nat :
        /\ m[k] \in Nat
        /\ m[k + 1] = m[k] + (IF k + 1 \in P THEN 1 ELSE 0)
  <2>1. ASSUME NEW k \in Nat
        PROVE  /\ m[k] \in Nat
               /\ m[k + 1] = m[k] + (IF k + 1 \in P THEN 1 ELSE 0)
    <3>1. m[k] = Cardinality(UpTo(P, k)) /\ m[k + 1] = Cardinality(UpTo(P, k + 1))
      OBVIOUS
    <3> HIDE DEF m
    <3> QED
      BY <1>1, <3>1, CountStep
  <2> QED
    BY <2>1
<1>3. m[0] = 0
  BY <1>1, CountNone
<1> HIDE DEF m
<1> DEFINE T == {k \in Nat : k <= n => c[k] = m[k]}
<1>4. \A k \in 0 .. n : c[k] = m[k]
  <2>1. ASSUME NEW k \in Nat, \A j \in 0 .. k - 1 : j \in T
        PROVE  k \in T
    <3>1. CASE k = 0
      BY <1>2, <1>3, <3>1
    <3>2. CASE k # 0
      <4>1. SUFFICES ASSUME k <= n PROVE c[k] = m[k]
        OBVIOUS
      <4> DEFINE i == k - 1
      <4>2. i \in Nat /\ i + 1 = k /\ i \in 0 .. k - 1 /\ i <= n /\ k \in 1 .. n
        BY <1>1, <3>2, <4>1
      <4>3. c[k] = c[i] + (IF k \in P THEN 1 ELSE 0) /\ c[i] \in Nat
        BY <1>1, <1>2, <4>2
      <4> HIDE DEF i
      <4>4. c[i] = m[i]
        BY <2>1, <4>2
      <4>5. m[k] = m[i] + (IF k \in P THEN 1 ELSE 0)
        BY <1>0, <4>2
      <4> QED
        BY <4>3, <4>4, <4>5
    <3> QED
      BY <3>1, <3>2
  <2>2. T = Nat
    <3> HIDE DEF T
    <3>1. T \subseteq Nat
      BY DEF T
    <3> QED
      BY <2>1, <3>1, Below
  <2> QED
    BY <1>1, <2>2
<1>5. IsFiniteSet(P)
  <2>1. IsFiniteSet(1 .. n)
    BY <1>1, FS_Interval
  <2> QED
    BY <1>1, <2>1, FS_Subset
<1>6. Cardinality(P) = Len(u)
  <2>1. UpTo(P, n) = P
    <3>1. \A j \in P : j <= n
      BY <1>1
    <3> QED
      BY <3>1 DEF UpTo
  <2>2. n \in 0 .. n
    BY <1>1
  <2> QED
    BY <1>1, <1>2, <1>4, <2>1, <2>2 DEF m
<1>7. ASSUME NEW k \in 1 .. n
      PROVE  Behind(s, k) = Len(u) - c[k]
  <2>1. {j \in P : j > k} = P \ UpTo(P, k) /\ P \intersect UpTo(P, k) = UpTo(P, k)
    <3>1. \A j \in P : j > k <=> ~ (j <= k)
      BY <1>1
    <3> QED
      BY <3>1 DEF UpTo
  <2>2. Cardinality(P \ UpTo(P, k)) = Cardinality(P) - Cardinality(P \intersect UpTo(P, k))
    BY <1>5, FS_Difference
  <2>3. k \in 0 .. n
    BY <1>1
  <2>5. Cardinality(UpTo(P, k)) = c[k]
    BY <1>1, <1>4, <2>3 DEF m
  <2>4. Behind(s, k) = Cardinality({j \in P : j > k})
    BY DEF Behind, P
  <2> QED
    BY <1>6, <2>1, <2>2, <2>4, <2>5
<1>8. P = {} <=> Len(u) = 0
  BY <1>5, <1>6, FS_EmptySet
<1> QED
  BY <1>7, <1>8 DEF n, P

-----------------------------------------------------------------------------
(* The value of the digits. *)

Chars == DOMAIN DigitValue \union {Gap, "?"}

\* The digit that a character stands for.
DigitAt(s, k) == IF s[k] = "?" THEN 0 ELSE DigitValue[s[k]]

\* Horner's rule: one digit more.
LEMMA Carry ==
  ASSUME NEW v \in Nat, NEW b \in Nat, NEW d \in Nat, NEW w \in Nat
  PROVE  v * (b * w) + d * w = (v * b + d) * w
OBVIOUS

\* A product is not below its factor.
LEMMA AtLeast ==
  ASSUME NEW v \in Nat, NEW w \in Nat \ {0}
  PROVE  v * w \in Nat /\ v * w >= v
OBVIOUS

(***************************************************************************)
(* from_str_radix reads from the left, by Horner's rule; the digits are    *)
(* counted from the right.  What has been read, moved by the digits        *)
(* behind, is the sum so far: it is above the limit as soon as the value   *)
(* is.                                                                     *)
(***************************************************************************)
Horner(s, base, k, value, rest, sum) ==
  /\ value # Err => /\ value * Pow(base, rest) = sum
                    /\ \A i \in 1 .. k : s[i] # Gap => DigitAt(s, i) < base
  /\ value = Err => \/ sum >= Limit
                    \/ \E i \in 1 .. k : s[i] # Gap /\ DigitAt(s, i) >= base

\* A digit that is read keeps the two ways to count together.
LEMMA HornerStep ==
  ASSUME NEW s, NEW base \in Nat \ {0}, NEW k \in Nat \ {0}, NEW value \in 0 .. Limit,
         NEW rest \in Nat, NEW sum \in Nat, DigitAt(s, k) \in Nat, s[k] # Gap,
         Horner(s, base, k - 1, value, rest + 1, sum)
  PROVE  Horner(s, base, k, WithDigit(value, DigitAt(s, k), base), rest,
                sum + DigitAt(s, k) * Pow(base, rest))
<1> DEFINE d == DigitAt(s, k)
           w == Pow(base, rest)
           next == value * base + d
           new == sum + d * w
<1>1. w \in Nat \ {0} /\ Pow(base, rest + 1) = base * w
  BY PowPositive, PowFacts
<1>2. Limit \in Nat /\ Err = Limit /\ value \in Nat /\ d \in Nat
  BY LimitFacts DEF Err
<1>3. next \in Nat /\ d * w \in Nat
  BY <1>1, <1>2
<1>4. \A i \in 1 .. k : i \in 1 .. k - 1 \/ i = k
  OBVIOUS
<1>5. \A i \in 1 .. k - 1 : i \in 1 .. k
  OBVIOUS
<1>6. value # Err => next * w = new
  <2>1. value # Err => value * (base * w) = sum
    BY <1>1 DEF Horner
  <2>2. value * (base * w) + d * w = next * w
    BY <1>1, <1>2, Carry
  <2> HIDE DEF next, w, d
  <2> QED
    BY <2>1, <2>2
<1>7. next * w >= next
  BY <1>1, <1>3, AtLeast
<1>8. k \in 1 .. k
  OBVIOUS
<1> HIDE DEF d, w, next, new
<1>9. WithDigit(value, d, base) = IF value = Err \/ d >= base \/ next >= Limit THEN Err ELSE next
  BY DEF WithDigit, next
<1>10. CASE value = Err
  <2>1. sum >= Limit => new >= Limit
    BY <1>2, <1>3 DEF new
  <2>2. WithDigit(value, d, base) = Err
    BY <1>9, <1>10
  <2>3. sum >= Limit \/ \E i \in 1 .. k - 1 : s[i] # Gap /\ DigitAt(s, i) >= base
    BY <1>10 DEF Horner
  <2>4. Horner(s, base, k, Err, rest, new)
    BY <1>5, <2>1, <2>3 DEF Horner
  <2> QED
    BY <2>2, <2>4 DEF d, w, new
<1>11. CASE value # Err /\ d >= base
  <2>1. WithDigit(value, d, base) = Err
    BY <1>9, <1>11
  <2>2. Horner(s, base, k, Err, rest, new)
    BY <1>8, <1>11 DEF Horner, d
  <2> QED
    BY <2>1, <2>2 DEF d, w, new
<1>12. CASE value # Err /\ d < base /\ next >= Limit
  <2>1. WithDigit(value, d, base) = Err
    BY <1>9, <1>12
  <2>2. new \in Int /\ new >= Limit
    BY <1>2, <1>3, <1>6, <1>7, <1>12 DEF new
  <2>3. Horner(s, base, k, Err, rest, new)
    BY <2>2 DEF Horner
  <2> QED
    BY <2>1, <2>3 DEF d, w, new
<1>13. CASE value # Err /\ d < base /\ next < Limit
  <2>1. WithDigit(value, d, base) = next /\ next # Err
    BY <1>2, <1>3, <1>9, <1>13
  <2>2. \A i \in 1 .. k : s[i] # Gap => DigitAt(s, i) < base
    BY <1>4, <1>13 DEF Horner, d
  <2>3. Horner(s, base, k, next, rest, new)
    BY <1>6, <1>13, <2>1, <2>2 DEF Horner, w
  <2> QED
    BY <2>1, <2>3 DEF d, w, new
<1> QED
  BY <1>2, <1>3, <1>10, <1>11, <1>12, <1>13

Proper(s, base) ==
  /\ Places(s) # {}
  /\ \A i \in Places(s) : s[i] = "?" \/ DigitValue[s[i]] < base

\* The digit strings that are read, and the weights of their digits.
LEMMA CharFacts ==
  ASSUME NEW s \in Seq(Chars), NEW k \in 1 .. Len(s), NEW base \in Nat, Behind(s, k) \in Nat
  PROVE  /\ s[k] # Gap => DigitAt(s, k) \in Nat
         /\ s[k] # Gap => Weighted(s, base, k) = DigitAt(s, k) * Pow(base, Behind(s, k))
         /\ s[k] = Gap => Weighted(s, base, k) = 0
         /\ Weighted(s, base, k) \in Nat
<1>1. s[k] \in DOMAIN DigitValue \/ s[k] = "?" \/ s[k] = Gap
  BY DEF Chars
<1>2. s[k] # Gap => DigitAt(s, k) \in Nat
  <2>1. \A d \in DOMAIN DigitValue : DigitValue[d] \in Nat
    <3>1. \A d \in DOMAIN DigitValue : DigitValue[d] \in 0 .. 15
      BY DigitFacts
    <3>2. \A v \in 0 .. 15 : v \in Nat
      OBVIOUS
    <3> QED
      BY <3>1, <3>2
  <2> QED
    BY <1>1, <2>1 DEF DigitAt
<1>3. Pow(base, Behind(s, k)) \in Nat /\ \A w \in Nat : 0 * w = 0
  <2>1. \A m \in Nat : Pow(base, m) \in Nat
    BY PowFacts
  <2> QED
    BY <2>1
<1>4. s[k] = Gap => Weighted(s, base, k) = 0
  BY DEF Weighted
<1>5. s[k] # Gap => Weighted(s, base, k) = DigitAt(s, k) * Pow(base, Behind(s, k))
  <2>1. CASE s[k] = "?"
    BY <1>3, <2>1 DEF Weighted, DigitAt
  <2>2. CASE s[k] # "?"
    BY <2>2 DEF Weighted, DigitAt
  <2> QED
    BY <2>1, <2>2
<1>6. \A v, w \in Nat : v * w \in Nat
  OBVIOUS
<1> QED
  BY <1>2, <1>3, <1>4, <1>5, <1>6

\* Cleaned makes digits of question marks.
LEMMA CleanFacts ==
  ASSUME NEW u \in Seq(Chars \ {Gap})
  PROVE  /\ Cleaned(u) \in Seq(DOMAIN DigitValue) /\ Len(Cleaned(u)) = Len(u)
         /\ \A j \in 1 .. Len(u) : DigitValue[Cleaned(u)[j]] = DigitAt(u, j)
<1>1. Len(u) \in Nat /\ DOMAIN u = 1 .. Len(u)
  OBVIOUS
<1>2. ASSUME NEW j \in 1 .. Len(u)
      PROVE  /\ Cleaned(u)[j] \in DOMAIN DigitValue
             /\ DigitValue[Cleaned(u)[j]] = DigitAt(u, j)
  <2>1. u[j] \in DOMAIN DigitValue \/ u[j] = "?"
    BY DEF Chars
  <2>2. Cleaned(u)[j] = IF u[j] = "?" THEN "0" ELSE u[j]
    BY <1>1 DEF Cleaned
  <2> QED
    BY <2>1, <2>2, DigitFacts DEF DigitAt
<1>3. Cleaned(u) = [j \in 1 .. Len(u) |-> Cleaned(u)[j]]
  BY <1>1 DEF Cleaned
<1>4. Cleaned(u) \in [1 .. Len(u) -> DOMAIN DigitValue]
  <2> DEFINE e == Cleaned(u)
  <2> HIDE DEF e
  <2>1. e = [j \in 1 .. Len(u) |-> e[j]] /\ \A j \in 1 .. Len(u) : e[j] \in DOMAIN DigitValue
    BY <1>2, <1>3 DEF e
  <2>2. e \in [1 .. Len(u) -> DOMAIN DigitValue]
    BY <2>1
  <2> QED
    BY <2>2 DEF e
<1>5. \A n \in Nat : \A e \in [1 .. n -> DOMAIN DigitValue] : e \in Seq(DOMAIN DigitValue) /\ Len(e) = n
  OBVIOUS
<1> QED
  BY <1>1, <1>2, <1>4, <1>5

\* A number is read as the sum of its digits at their places, or not at all.
LEMMA ReadsPositional ==
  ASSUME NEW s \in Seq(Chars), NEW base \in Nat \ {0}
  PROVE  /\ Positional(s, base) \in Nat
         /\ from_str_radix(Cleaned(Stripped(s)), base) =
              IF Proper(s, base) /\ Positional(s, base) < Limit
              THEN Positional(s, base) ELSE Err
<1> DEFINE n == Len(s)
           u == Stripped(s)
           e == Cleaned(u)
           l == Len(u)
<1>1. n \in Nat /\ u \in Seq(Chars \ {Gap}) /\ l \in Nat
  BY StripFacts
<1>2. PICK c : Strips(s, u, c)
  BY StripFacts
<1>3. /\ \A k \in 1 .. n : Behind(s, k) = l - c[k]
      /\ Places(s) = {} <=> l = 0
  BY <1>1, <1>2, BehindFacts
<1>4. /\ c[0] = 0 /\ c[n] = l /\ \A k \in 0 .. n : c[k] \in 0 .. l
      /\ \A k \in 1 .. n :
           /\ s[k] = Gap => c[k] = c[k - 1]
           /\ s[k] # Gap => c[k] = c[k - 1] + 1 /\ u[c[k]] = s[k]
  BY <1>2 DEF Strips
<1> HIDE DEF u
<1>5. e \in Seq(DOMAIN DigitValue) /\ Len(e) = l /\ \A j \in 1 .. l : DigitValue[e[j]] = DigitAt(u, j)
  BY <1>1, CleanFacts
<1>6. e = <<>> <=> l = 0
  BY <1>5
<1> HIDE DEF e, l, n
<1>7. PICK f \in [0 .. l -> 0 .. Limit] :
        /\ f[0] = 0 /\ from_str_radix(e, base) = IF e = <<>> THEN Err ELSE f[l]
        /\ \A k \in 1 .. l : f[k] = WithDigit(f[k - 1], DigitValue[e[k]], base)
  BY <1>5, ReadSteps
<1>8. \A k \in 1 .. n : /\ s[k] # Gap => DigitAt(s, k) \in Nat
                        /\ s[k] # Gap => Weighted(s, base, k) = DigitAt(s, k) * Pow(base, l - c[k])
                        /\ s[k] = Gap => Weighted(s, base, k) = 0
                        /\ Weighted(s, base, k) \in Nat
  <2>1. ASSUME NEW k \in 1 .. n
        PROVE  /\ s[k] # Gap => DigitAt(s, k) \in Nat
               /\ s[k] # Gap => Weighted(s, base, k) = DigitAt(s, k) * Pow(base, l - c[k])
               /\ s[k] = Gap => Weighted(s, base, k) = 0
               /\ Weighted(s, base, k) \in Nat
    <3>1. Behind(s, k) = l - c[k] /\ l - c[k] \in Nat /\ k \in 1 .. Len(s)
      <4>1. k \in 0 .. n
        BY <1>1
      <4> QED
        BY <1>1, <1>3, <1>4, <4>1 DEF n
    <3> QED
      BY <3>1, CharFacts
  <2> QED
    BY <2>1
<1>9. PICK g \in [0 .. n -> Nat] :
        /\ g[0] = 0 /\ Positional(s, base) = g[n]
        /\ \A i \in 1 .. n : g[i] = g[i - 1] + Weighted(s, base, i)
  BY <1>1, <1>8, SumSteps DEF n
<1> DEFINE At(k) == Horner(s, base, k, f[c[k]], l - c[k], g[k])
           T == {k \in Nat : k <= n => At(k)}
<1>10. \A k \in 0 .. n : At(k)
  <2>1. ASSUME NEW k \in Nat, \A j \in 0 .. k - 1 : j \in T
        PROVE  k \in T
    <3>1. SUFFICES ASSUME k <= n PROVE At(k)
      OBVIOUS
    <3>2. CASE k = 0
      <4>1. Limit # 0 /\ Err = Limit /\ l - c[0] = l
        BY <1>1, <1>4, LimitFacts DEF Err
      <4>2. 0 * Pow(base, l) = 0
        <5>1. Pow(base, l) \in Nat
          BY <1>1, PowFacts
        <5>2. \A x \in Nat : 0 * x = 0
          OBVIOUS
        <5> QED
          BY <5>1, <5>2, Zenon
      <4>3. Horner(s, base, 0, 0, l, 0)
        BY <4>1, <4>2 DEF Horner
      <4>4. c[0] = 0 /\ f[0] = 0 /\ g[0] = 0
        BY <1>4, <1>7, <1>9
      <4>5. At(0)
        BY <4>1, <4>3, <4>4
      <4> QED
        BY <3>2, <4>5
    <3>3. CASE k # 0
      <4> DEFINE i == k - 1
      <4>1. i \in 0 .. k - 1 /\ i <= n /\ k \in 1 .. n /\ i \in 0 .. n /\ k \in 0 .. n /\ k \in Nat \ {0}
        BY <1>1, <3>1, <3>3
      <4>2. At(i)
        <5> HIDE DEF At
        <5>1. i \in T
          <6> HIDE DEF T
          <6> QED
            BY <2>1, <4>1
        <5> QED
          BY <4>1, <5>1
      <4>3. CASE s[k] = Gap
        <5>1. c[k] = c[i] /\ g[k] = g[i]
          <6>1. g[i] \in Nat /\ g[k] = g[i] + 0
            BY <1>8, <1>9, <4>1, <4>3
          <6> QED
            BY <1>4, <4>1, <4>3, <6>1
        <5>2. \A j \in 1 .. k : j \in 1 .. i \/ j = k
          OBVIOUS
        <5>3. \A j \in 1 .. i : j \in 1 .. k
          OBVIOUS
        <5> HIDE DEF i
        <5> QED
          BY <4>2, <4>3, <5>1, <5>2, <5>3 DEF Horner
      <4>4. CASE s[k] # Gap
        <5> DEFINE rest == l - c[k]
                   d == DigitAt(s, k)
        <5>1. c[k] = c[i] + 1 /\ u[c[k]] = s[k] /\ c[i] \in 0 .. l /\ c[k] \in 0 .. l
          BY <1>4, <4>1, <4>4
        <5>2. rest \in Nat /\ l - c[i] = rest + 1 /\ c[k] \in 1 .. l /\ c[k] - 1 = c[i]
          <6>1. \A x, y \in 0 .. l : x = y + 1 =>
                  l - x \in Nat /\ l - y = (l - x) + 1 /\ x \in 1 .. l /\ x - 1 = y
            BY <1>1
          <6> HIDE DEF i
          <6> QED
            BY <5>1, <6>1
        <5>3. d \in Nat /\ g[k] = g[i] + d * Pow(base, rest) /\ g[i] \in Nat
          BY <1>8, <1>9, <4>1, <4>4
        <5>4. DigitValue[e[c[k]]] = d
          BY <1>5, <5>1, <5>2 DEF DigitAt
        <5>5. f[c[k]] = WithDigit(f[c[i]], d, base) /\ f[c[i]] \in 0 .. Limit
          BY <1>7, <5>1, <5>2, <5>4
        <5> HIDE DEF rest, d
        <5>6. Horner(s, base, k - 1, f[c[i]], rest + 1, g[i])
          BY <4>2, <5>2
        <5> HIDE DEF i
        <5>7. Horner(s, base, k, WithDigit(f[c[i]], DigitAt(s, k), base), rest,
                     g[i] + DigitAt(s, k) * Pow(base, rest))
          <6> DEFINE v == f[c[i]]
                     w == g[i]
          <6>1. /\ k \in Nat \ {0} /\ v \in 0 .. Limit /\ rest \in Nat /\ w \in Nat
                /\ DigitAt(s, k) \in Nat /\ Horner(s, base, k - 1, v, rest + 1, w)
            BY <4>1, <5>2, <5>3, <5>5, <5>6 DEF d
          <6> HIDE DEF v, w
          <6>2. Horner(s, base, k, WithDigit(v, DigitAt(s, k), base), rest,
                       w + DigitAt(s, k) * Pow(base, rest))
            BY <4>4, <6>1, HornerStep
          <6> QED
            BY <6>2 DEF v, w
        <5> QED
          BY <5>3, <5>5, <5>7 DEF d, rest
      <4> QED
        BY <4>3, <4>4
    <3> QED
      BY <3>2, <3>3
  <2>2. T = Nat
    <3> HIDE DEF T
    <3>1. T \subseteq Nat
      BY DEF T
    <3> QED
      BY <2>1, <3>1, Below
  <2>3. ASSUME NEW k \in 0 .. n PROVE At(k)
    <3> HIDE DEF At
    <3>1. k \in Nat /\ k <= n
      BY <1>1
    <3>2. k \in T
      <4> HIDE DEF T
      <4> QED
        BY <2>2, <3>1
    <3> QED
      BY <3>1, <3>2
  <2> QED
    BY <2>3
<1> DEFINE sum == g[n]
           r == f[l]
<1>11. sum \in Nat /\ r \in 0 .. Limit /\ Limit \in Nat /\ Err = Limit
  BY <1>1, <1>7, <1>9, LimitFacts DEF Err
<1>12. Horner(s, base, n, r, 0, sum)
  <2>1. n \in 0 .. n /\ l - c[n] = 0
    BY <1>1, <1>4
  <2>2. At(n)
    BY <1>10, <2>1
  <2> QED
    BY <1>4, <2>1, <2>2
<1>13. Pow(base, 0) = 1
  BY PowFacts
<1>14. /\ \A i \in 1 .. n : s[i] # Gap <=> i \in Places(s)
       /\ \A i \in Places(s) : i \in 1 .. n
  BY DEF Places, n
<1>15. \A i \in Places(s) : DigitAt(s, i) < base <=> s[i] = "?" \/ DigitValue[s[i]] < base
  BY DEF DigitAt
<1>16. \A i \in Places(s) : DigitAt(s, i) \in Nat
  BY <1>8, <1>14
<1> HIDE DEF sum, r, At
<1>17. r # Err => /\ r = sum /\ r < Limit
                  /\ \A i \in Places(s) : s[i] = "?" \/ DigitValue[s[i]] < base
  <2>1. r # Err => r * 1 = sum
    BY <1>12, <1>13 DEF Horner
  <2>2. r # Err => \A i \in Places(s) : DigitAt(s, i) < base
    BY <1>12, <1>14 DEF Horner
  <2> QED
    BY <1>11, <1>15, <2>1, <2>2
<1>18. r = Err => \/ sum >= Limit
                  \/ ~ \A i \in Places(s) : s[i] = "?" \/ DigitValue[s[i]] < base
  <2>1. r = Err => sum >= Limit \/ \E i \in Places(s) : DigitAt(s, i) >= base
    BY <1>12, <1>14 DEF Horner
  <2>2. \A i \in Places(s) : DigitAt(s, i) >= base => ~ (DigitAt(s, i) < base)
    BY <1>16
  <2> QED
    BY <1>15, <2>1, <2>2
<1>19. from_str_radix(e, base) = IF l = 0 THEN Err ELSE r
  BY <1>6, <1>7 DEF r
<1>20. Proper(s, base) <=> l # 0 /\ \A i \in Places(s) : s[i] = "?" \/ DigitValue[s[i]] < base
  BY <1>3 DEF Proper
<1>21. Positional(s, base) = sum
  BY <1>9 DEF sum
<1>22. from_str_radix(e, base) = IF Proper(s, base) /\ sum < Limit THEN sum ELSE Err
  BY <1>11, <1>17, <1>18, <1>19, <1>20
<1> QED
  BY <1>11, <1>21, <1>22 DEF e, u

-----------------------------------------------------------------------------
(* Bits of the mask. *)

\* Quotient and remainder.
LEMMA DivFacts ==
  ASSUME NEW m \in Nat, NEW p \in Nat \ {0}
  PROVE  m \div p \in Nat /\ m % p \in Nat /\ m % p < p /\ m = p * (m \div p) + (m % p)
<1>1. m \div p \in Int /\ m % p \in Nat /\ m % p < p
  OBVIOUS
<1>2. m = p * (m \div p) + (m % p)
  BY Z3
<1>3. m \div p >= 0
  BY Z3
<1> QED
  BY <1>1, <1>2, <1>3

\* Multiples grow by their factor.
LEMMA Grows ==
  ASSUME NEW a \in Int, NEW b \in Int, NEW p \in Nat, a < b
  PROVE  p * b >= p * a + p
OBVIOUS

\* Division is what it undoes.
LEMMA DivUnique ==
  ASSUME NEW m \in Nat, NEW p \in Nat \ {0}, NEW q \in Int, NEW r \in Nat, r < p, m = p * q + r
  PROVE  m \div p = q
<1> DEFINE k == m \div p
           l == m % p
<1>1. k \in Nat /\ l \in Nat /\ l < p /\ m = p * k + l
  BY DivFacts
<1> HIDE DEF k, l
<1>2. p * k \in Int /\ p * q \in Int
  BY <1>1
<1>3. ~ (k < q)
  <2>1. k < q => p * q >= p * k + p
    BY <1>1, Grows
  <2> QED
    BY <1>1, <1>2, <2>1
<1>4. ~ (q < k)
  <2>1. q < k => p * k >= p * q + p
    BY <1>1, Grows
  <2> QED
    BY <1>1, <1>2, <2>1
<1>5. k = q
  BY <1>1, <1>3, <1>4
<1> QED
  BY <1>5 DEF k

\* Powers of two.
LEMMA TwoFacts ==
  \A n \in Nat : Pow(2, n) \in Nat \ {0} /\ Pow(2, n + 1) = 2 * Pow(2, n)
BY PowFacts, PowPositive

\* Exponents add up.
LEMMA PowSum ==
  ASSUME NEW m \in Nat, NEW n \in Nat
  PROVE  Pow(2, m + n) = Pow(2, m) * Pow(2, n)
<1> DEFINE T == {k \in Nat : Pow(2, m + k) = Pow(2, m) * Pow(2, k)}
<1>1. ASSUME NEW k \in Nat, \A i \in 0 .. k - 1 : i \in T
      PROVE  k \in T
  <2>1. CASE k = 0
    <3>1. Pow(2, 0) = 1 /\ Pow(2, m) \in Nat /\ m + 0 = m
      BY PowFacts
    <3> QED
      BY <2>1, <3>1
  <2>2. CASE k # 0
    <3> DEFINE i == k - 1
    <3>1. i \in Nat /\ i \in 0 .. k - 1 /\ k = i + 1 /\ m + k = (m + i) + 1 /\ m + i \in Nat
      BY <2>2
    <3> HIDE DEF i
    <3>2. Pow(2, m + i) = Pow(2, m) * Pow(2, i)
      BY <1>1, <3>1
    <3>3. \A n1 \in Nat : Pow(2, n1) \in Nat /\ Pow(2, n1 + 1) = 2 * Pow(2, n1)
      BY PowFacts
    <3>4. Pow(2, m + k) = 2 * Pow(2, m + i) /\ Pow(2, k) = 2 * Pow(2, i)
      BY <3>1, <3>3
    <3>5. \A x, y \in Nat : 2 * (x * y) = x * (2 * y)
      OBVIOUS
    <3>6. Pow(2, m + k) = Pow(2, m) * Pow(2, k)
      BY <3>1, <3>2, <3>3, <3>4, <3>5
    <3> QED
      BY <3>6
  <2> QED
    BY <2>1, <2>2
<1>2. T = Nat
  <2> HIDE DEF T
  <2>1. T \subseteq Nat
    BY DEF T
  <2> QED
    BY <1>1, <2>1, Below
<1> QED
  BY <1>2

\* What is shifted out of a number below l does not change it below.
LEMMA Wraps ==
  ASSUME NEW l \in Nat \ {0}, NEW m \in 0 .. l - 1, NEW d \in {0, 1}
  PROVE  \E t \in {0, 1} : (2 * m + d) % l = 2 * m + d - l * t /\ (2 * m + d) % l \in Nat
<1> DEFINE x == 2 * m + d
<1>1. x \in Nat /\ x < 2 * l
  OBVIOUS
<1> HIDE DEF x
<1>2. x % l \in Nat /\ x % l < l /\ x \div l \in Nat /\ x = l * (x \div l) + (x % l)
  BY <1>1, DivFacts
<1> DEFINE k == x \div l
<1>3. k \in {0, 1}
  <2> HIDE DEF k
  <2>1. k \in Nat /\ l * k <= x
    BY <1>1, <1>2 DEF k
  <2>2. 1 < k => l * k >= l * 1 + l
    BY <2>1, Grows
  <2> QED
    BY <1>1, <2>1, <2>2
<1>4. x % l = x - l * k
  <2> HIDE DEF k
  <2>1. x = l * k + (x % l) /\ l * k \in Int
    BY <1>2, <1>3 DEF k
  <2> QED
    BY <1>1, <1>2, <2>1
<1> HIDE DEF k
<1> QED
  BY <1>2, <1>3, <1>4 DEF x

\* A shift of the mask moves every bit by one place.
LEMMA ShiftBits ==
  ASSUME NEW m \in 0 .. Limit - 1, NEW d \in {0, 1}
  PROVE  LET x == (2 * m + d) % Limit
         IN  /\ (x \div Pow(2, 0)) % 2 = d
             /\ \A b \in Nat : b + 1 < Bits =>
                  (x \div Pow(2, b + 1)) % 2 = (m \div Pow(2, b)) % 2
<1> DEFINE x == (2 * m + d) % Limit
<1>1. PICK t \in {0, 1} : x = 2 * m + d - Limit * t /\ x \in Nat
  BY LimitFacts, Wraps
<1>2. Bits \in Nat \ {0} /\ Limit = Pow(2, Bits) /\ m \in Nat /\ Limit \in Nat
  BY BitsAssumption, LimitFacts
<1> HIDE DEF x
<1>3. \A a, k \in Int : (a - 2 * k) % 2 = a % 2
  OBVIOUS
<1>4. (x \div Pow(2, 0)) % 2 = d
  <2> DEFINE h == Pow(2, Bits - 1)
  <2>1. Bits - 1 \in Nat /\ (Bits - 1) + 1 = Bits
    BY <1>2
  <2>2. h \in Nat /\ Limit = 2 * h
    <3>1. \A n \in Nat : Pow(2, n) \in Nat /\ Pow(2, n + 1) = 2 * Pow(2, n)
      BY PowFacts
    <3> QED
      BY <1>2, <2>1, <3>1
  <2> HIDE DEF h
  <2>3. x = d - 2 * (h * t - m)
    BY <1>1, <1>2, <2>2
  <2>4. x % 2 = d % 2 /\ d % 2 = d
    <3>1. h * t - m \in Int /\ d \in Int
      BY <1>1, <1>2, <2>2
    <3>2. (d - 2 * (h * t - m)) % 2 = d % 2
      BY <1>3, <3>1
    <3>3. d % 2 = d
      OBVIOUS
    <3> QED
      BY <2>3, <3>2, <3>3
  <2>5. Pow(2, 0) = 1 /\ x \div 1 = x
    BY <1>1, PowFacts
  <2> QED
    BY <2>4, <2>5
<1>5. ASSUME NEW b \in Nat, b + 1 < Bits
      PROVE  (x \div Pow(2, b + 1)) % 2 = (m \div Pow(2, b)) % 2
  <2> DEFINE p == Pow(2, b)
             j == Bits - (b + 2)
             h == Pow(2, j)
             q == m \div p
             r == m % p
  <2>1. j \in Nat /\ (b + 2) + j = Bits
    BY <1>2, <1>5
  <2>2. p \in Nat \ {0} /\ Pow(2, b + 1) = 2 * p /\ Pow(2, b + 2) = 2 * (2 * p)
    <3>1. \A n \in Nat : Pow(2, n) \in Nat \ {0} /\ Pow(2, n + 1) = 2 * Pow(2, n)
      BY TwoFacts
    <3>2. b + 2 = (b + 1) + 1 /\ b + 1 \in Nat
      OBVIOUS
    <3> QED
      BY <3>1, <3>2
  <2>3. h \in Nat /\ Limit = (2 * (2 * p)) * h
    <3>1. Pow(2, (b + 2) + j) = Pow(2, b + 2) * Pow(2, j) /\ Pow(2, j) \in Nat
      <4> DEFINE i == b + 2
      <4>1. i \in Nat /\ j \in Nat
        BY <2>1
      <4> HIDE DEF i, j
      <4>2. Pow(2, i + j) = Pow(2, i) * Pow(2, j) /\ Pow(2, j) \in Nat
        BY <4>1, PowSum, TwoFacts
      <4> QED
        BY <4>2 DEF i
    <3> QED
      BY <1>2, <2>1, <2>2, <3>1
  <2> HIDE DEF p, j, h
  <2>4. q \in Nat /\ r \in Nat /\ r < p /\ m = p * q + r
    BY <1>2, <2>2, DivFacts
  <2> HIDE DEF q, r
  <2> DEFINE k == q - 2 * (h * t)
             s == 2 * r + d
  <2>5. k \in Int /\ s \in Nat /\ s < 2 * p /\ 2 * p \in Nat \ {0}
    BY <1>1, <2>2, <2>3, <2>4
  <2>6. x = (2 * p) * k + s
    <3>1. Limit * t = (2 * p) * (2 * (h * t))
      BY <1>1, <2>2, <2>3
    <3>2. (2 * p) * k = (2 * p) * q - (2 * p) * (2 * (h * t))
      BY <1>1, <2>2, <2>3, <2>4
    <3>3. 2 * m = (2 * p) * q + 2 * r
      BY <2>2, <2>4
    <3> QED
      BY <1>1, <1>2, <2>2, <2>3, <2>4, <3>1, <3>2, <3>3
  <2>7. x \div (2 * p) = k
    <3> HIDE DEF k, s
    <3> QED
      BY <1>1, <2>5, <2>6, DivUnique
  <2>8. k % 2 = q % 2
    <3>1. h * t \in Int /\ q \in Int
      BY <1>1, <2>3, <2>4
    <3> QED
      BY <1>3, <3>1
  <2> QED
    BY <2>2, <2>7, <2>8 DEF p, q
<1> QED
  BY <1>4, <1>5 DEF x

\* The bits of the mask of a text without gaps.
LEMMA MaskOf ==
  ASSUME NEW u, Len(u) \in Nat, NEW b \in 0 .. Bits - 1
  PROVE  (dont_care_mask(u) \div Pow(2, b)) % 2 = 1 <=> b < Len(u) /\ u[Len(u) - b] = "?"
<1> DEFINE l == Len(u)
<1>1. PICK f \in [0 .. l -> 0 .. Limit - 1] :
        /\ f[0] = 0 /\ dont_care_mask(u) = f[l]
        /\ \A k \in 1 .. l : f[k] = (2 * f[k - 1] + (IF u[k] = "?" THEN 1 ELSE 0)) % Limit
  BY MaskSteps
<1> HIDE DEF l
<1> DEFINE Bit(v, i) == (v \div Pow(2, i)) % 2 = 1
           Right(k) == \A i \in 0 .. Bits - 1 : Bit(f[k], i) <=> i < k /\ u[k - i] = "?"
           T == {k \in Nat : k <= l => Right(k)}
<1>2. Bits \in Nat \ {0} /\ Limit \in Nat \ {0} /\ l \in Nat
  BY BitsAssumption, LimitFacts DEF l
<1>3. ASSUME NEW k \in Nat, \A i \in 0 .. k - 1 : i \in T
      PROVE  k \in T
  <2>1. SUFFICES ASSUME k <= l PROVE Right(k)
    OBVIOUS
  <2>2. CASE k = 0
    <3>1. ASSUME NEW i \in 0 .. Bits - 1
          PROVE  ~ Bit(0, i)
      <4>1. Pow(2, i) \in Nat \ {0}
        BY TwoFacts
      <4>2. \A p \in Nat \ {0} : 0 \div p = 0
        OBVIOUS
      <4>3. 0 % 2 = 0
        OBVIOUS
      <4> QED
        BY <4>1, <4>2, <4>3
    <3>2. \A i \in 0 .. Bits - 1 : ~ (i < 0)
      OBVIOUS
    <3> HIDE DEF Bit
    <3> QED
      BY <1>1, <2>2, <3>1, <3>2
  <2>3. CASE k # 0
    <3> DEFINE j == k - 1
               m == f[j]
               d == IF u[k] = "?" THEN 1 ELSE 0
    <3>1. j \in Nat /\ j \in 0 .. k - 1 /\ j <= l /\ j \in 0 .. l /\ k = j + 1 /\ k \in 1 .. l
      BY <1>2, <2>1, <2>3
    <3>2. Right(j)
      <4> HIDE DEF Right
      <4>1. j \in T
        <5> HIDE DEF T
        <5> QED
          BY <1>3, <3>1
      <4> QED
        BY <3>1, <4>1
    <3>3. m \in 0 .. Limit - 1 /\ f[k] = (2 * m + d) % Limit
      BY <1>1, <3>1
    <3>4. d \in {0, 1} /\ (d = 1 <=> u[k] = "?")
      OBVIOUS
    <3> HIDE DEF m, d
    <3>5. /\ (f[k] \div Pow(2, 0)) % 2 = d
          /\ \A b1 \in Nat : b1 + 1 < Bits => (f[k] \div Pow(2, b1 + 1)) % 2 = (m \div Pow(2, b1)) % 2
      <4>1. LET x == (2 * m + d) % Limit
            IN  /\ (x \div Pow(2, 0)) % 2 = d
                /\ \A b1 \in Nat : b1 + 1 < Bits =>
                     (x \div Pow(2, b1 + 1)) % 2 = (m \div Pow(2, b1)) % 2
        BY <3>3, <3>4, ShiftBits
      <4> QED
        BY <3>3, <4>1, Zenon
    <3>6. Bit(f[k], 0) <=> u[k] = "?"
      BY <3>4, <3>5
    <3>7. \A i \in Nat : i + 1 < Bits => (Bit(f[k], i + 1) <=> Bit(m, i))
      BY <3>5
    <3> HIDE DEF Bit
    <3>8. ASSUME NEW i \in 0 .. Bits - 1 PROVE Bit(f[k], i) <=> i < k /\ u[k - i] = "?"
      <4>1. CASE i = 0
        <5>1. k - 0 = k /\ 0 < k
          BY <3>1
        <5> QED
          BY <3>6, <4>1, <5>1
      <4>2. CASE i # 0
        <5> DEFINE h == i - 1
        <5>1. h \in Nat /\ i = h + 1 /\ h + 1 < Bits /\ h \in 0 .. Bits - 1 /\ k - i = j - h /\ (i < k <=> h < j)
          BY <1>2, <3>1, <4>2
        <5> HIDE DEF h, j
        <5>2. Bit(f[k], i) <=> Bit(m, h)
          BY <3>7, <5>1
        <5>3. Bit(m, h) <=> h < j /\ u[j - h] = "?"
          BY <3>2, <5>1 DEF m
        <5> QED
          BY <5>1, <5>2, <5>3
      <4> QED
        BY <4>1, <4>2
    <3> QED
      BY <3>8
  <2> QED
    BY <2>2, <2>3
<1>4. T = Nat
  <2> HIDE DEF T
  <2>1. T \subseteq Nat
    BY DEF T
  <2> QED
    BY <1>3, <2>1, Below
<1>5. Right(l)
  <2> HIDE DEF Right
  <2>1. l \in T /\ l <= l
    BY <1>2, <1>4
  <2> QED
    BY <2>1
<1> QED
  BY <1>1, <1>5 DEF l

\* Every character that is left was one of the text.
LEMMA StripOnto ==
  ASSUME NEW S, NEW s \in Seq(S), NEW u, Len(u) \in Nat, NEW c, Strips(s, u, c), NEW j \in 1 .. Len(u)
  PROVE  \E i \in 1 .. Len(s) : s[i] # Gap /\ c[i] = j
<1> DEFINE n == Len(s)
           T == {k \in Nat : k <= n /\ j <= c[k] => \E i \in 1 .. n : s[i] # Gap /\ c[i] = j}
<1>1. /\ n \in Nat /\ c[0] = 0 /\ c[n] = Len(u) /\ \A k \in 0 .. n : c[k] \in Nat
      /\ \A k \in 1 .. n : /\ s[k] = Gap => c[k] = c[k - 1]
                           /\ s[k] # Gap => c[k] = c[k - 1] + 1
  BY DEF Strips
<1> HIDE DEF n
<1>2. ASSUME NEW k \in Nat, \A i \in 0 .. k - 1 : i \in T
      PROVE  k \in T
  <2>1. SUFFICES ASSUME k <= n, j <= c[k] PROVE \E i \in 1 .. n : s[i] # Gap /\ c[i] = j
    OBVIOUS
  <2>2. k # 0
    BY <1>1, <2>1
  <2>3. k \in 1 .. n /\ k - 1 \in 0 .. n /\ k - 1 \in 0 .. k - 1 /\ k - 1 <= n /\ k \in 0 .. n
    BY <1>1, <2>1, <2>2
  <2>4. CASE j <= c[k - 1]
    BY <1>2, <2>3, <2>4
  <2>5. CASE ~ (j <= c[k - 1])
    <3>1. c[k] \in Nat /\ c[k - 1] \in Nat
      BY <1>1, <2>3
    <3>2. s[k] # Gap /\ c[k] = c[k - 1] + 1
      BY <1>1, <2>1, <2>3, <2>5
    <3>3. c[k] = j
      BY <2>1, <2>5, <3>1, <3>2
    <3> QED
      BY <2>3, <3>2, <3>3
  <2> QED
    BY <2>4, <2>5
<1>3. T = Nat
  <2> HIDE DEF T
  <2>1. T \subseteq Nat
    BY DEF T
  <2> QED
    BY <1>2, <2>1, Below
<1>4. n \in T /\ j <= c[n] /\ n <= n
  BY <1>1, <1>3
<1> QED
  BY <1>4 DEF n

\* The bits of the mask are the don't-cares of the text.
LEMMA MaskBits ==
  ASSUME NEW s \in Seq(Chars), NEW b \in 0 .. Bits - 1
  PROVE  b \in DontCares(s) <=> (dont_care_mask(Stripped(s)) \div Pow(2, b)) % 2 = 1
<1> DEFINE n == Len(s)
           u == Stripped(s)
           l == Len(u)
<1>1. n \in Nat /\ l \in Nat
  <2>1. u \in Seq(Chars \ {Gap})
    BY StripFacts
  <2> QED
    BY <2>1
<1>2. PICK c : Strips(s, u, c)
  BY StripFacts
<1> HIDE DEF u
<1>3. \A k \in 1 .. n : Behind(s, k) = l - c[k]
  BY <1>1, <1>2, BehindFacts
<1>4. /\ \A k \in 0 .. n : c[k] \in 0 .. l
      /\ \A k \in 1 .. n : s[k] # Gap => c[k] = c[k - 1] + 1 /\ u[c[k]] = s[k]
  BY <1>2 DEF Strips
<1>5. (dont_care_mask(u) \div Pow(2, b)) % 2 = 1 <=> b < l /\ u[l - b] = "?"
  BY <1>1, MaskOf
<1>6. "?" # Gap
  BY DigitFacts
<1>7. ASSUME NEW k \in 1 .. n PROVE c[k] \in 0 .. l /\ (s[k] # Gap => c[k] \in 1 .. l)
  <2>1. k \in 0 .. n /\ k - 1 \in 0 .. n
    BY <1>1
  <2>2. c[k] \in 0 .. l /\ c[k - 1] \in 0 .. l
    BY <1>4, <2>1
  <2>3. s[k] # Gap => c[k] = c[k - 1] + 1
    BY <1>4
  <2> HIDE DEF l
  <2> QED
    BY <1>1, <2>2, <2>3
<1>8. b \in DontCares(s) <=> \E k \in 1 .. n : s[k] = "?" /\ b = l - c[k]
  <2>1. \A k : k \in {j \in Places(s) : s[j] = "?"} <=> k \in 1 .. n /\ s[k] = "?"
    BY <1>6 DEF Places
  <2> HIDE DEF n, l
  <2> QED
    BY <1>3, <2>1 DEF DontCares
<1>9. ASSUME NEW k \in 1 .. n, s[k] = "?", b = l - c[k]
      PROVE  b < l /\ u[l - b] = "?"
  <2>1. c[k] \in 1 .. l /\ u[c[k]] = "?"
    BY <1>4, <1>6, <1>7, <1>9
  <2>2. b < l /\ l - b = c[k]
    <3> HIDE DEF l
    <3> QED
      BY <1>1, <1>9, <2>1
  <2> QED
    BY <2>1, <2>2
<1>10. ASSUME b < l, u[l - b] = "?"
       PROVE  \E k \in 1 .. n : s[k] = "?" /\ b = l - c[k]
  <2>1. l - b \in 1 .. l /\ b \in Nat
    BY <1>1, <1>10
  <2>2. PICK k \in 1 .. n : s[k] # Gap /\ c[k] = l - b
    <3> DEFINE j == l - b
    <3> HIDE DEF j
    <3>1. j \in 1 .. l
      BY <2>1 DEF j
    <3>2. \E i \in 1 .. n : s[i] # Gap /\ c[i] = j
      BY <1>1, <1>2, <3>1, StripOnto
    <3> QED
      BY <3>2 DEF j
  <2>3. s[k] = "?"
    BY <1>4, <1>10, <2>2
  <2>4. b = l - c[k]
    BY <1>1, <2>1, <2>2
  <2> QED
    BY <2>3, <2>4
<1> QED
  BY <1>5, <1>8, <1>9, <1>10 DEF u

\* Nothing is left out of a text without gaps.
LEMMA StripSame ==
  ASSUME NEW S, NEW s \in Seq(S), Gap \notin S
  PROVE  Stripped(s) = s
<1> DEFINE n == Len(s)
           u == Stripped(s)
<1>1. PICK c : Strips(s, u, c)
  BY StripFacts
<1>2. u \in Seq(S \ {Gap})
  BY StripFacts
<1>3. S \ {Gap} = S
  OBVIOUS
<1>4. n \in Nat /\ u \in Seq(S) /\ \A k \in 1 .. n : s[k] \in S
  BY <1>2, <1>3
<1> HIDE DEF u
<1>5. /\ c[0] = 0 /\ c[n] = Len(u)
      /\ \A k \in 1 .. n : c[k] = c[k - 1] + 1 /\ u[c[k]] = s[k]
  BY <1>1, <1>4 DEF Strips
<1> HIDE DEF n
<1> DEFINE T == {k \in Nat : k <= n => c[k] = k}
<1>6. ASSUME NEW k \in Nat, \A i \in 0 .. k - 1 : i \in T
      PROVE  k \in T
  <2>1. CASE k = 0
    BY <1>5, <2>1
  <2>2. CASE k # 0
    <3> DEFINE i == k - 1
    <3>1. SUFFICES ASSUME k <= n PROVE c[k] = k
      OBVIOUS
    <3>2. i \in 0 .. k - 1 /\ i <= n /\ i + 1 = k /\ k \in 1 .. n
      BY <1>4, <2>2, <3>1
    <3>3. c[k] = c[i] + 1
      BY <1>5, <3>2
    <3> HIDE DEF i
    <3>4. c[i] = i
      BY <1>6, <3>2
    <3> QED
      BY <3>2, <3>3, <3>4
  <2> QED
    BY <2>1, <2>2
<1>7. T = Nat
  <2> HIDE DEF T
  <2>1. T \subseteq Nat
    BY DEF T
  <2> QED
    BY <1>6, <2>1, Below
<1>8. \A k \in 0 .. n : c[k] = k
  BY <1>4, <1>7
<1>9. Len(u) = n /\ \A k \in 1 .. n : u[k] = s[k]
  <2>1. n \in 0 .. n /\ \A k \in 1 .. n : k \in 0 .. n
    BY <1>4
  <2> QED
    BY <1>5, <1>8, <2>1
<1>10. u = s
  BY <1>4, <1>9 DEF n
<1> QED
  BY <1>10 DEF u

\* Nothing is replaced in a text without question marks.
LEMMA CleanSame ==
  ASSUME NEW S, NEW s \in Seq(S), "?" \notin S
  PROVE  Cleaned(s) = s
<1>1. \A i \in DOMAIN s : s[i] # "?"
  OBVIOUS
<1>2. Cleaned(s) = [i \in DOMAIN s |-> s[i]]
  BY <1>1 DEF Cleaned
<1> QED
  BY <1>2

\* The prefix of a number is left as it is.
LEMMA StripBehind ==
  ASSUME NEW S, NEW s \in Seq(S), Len(s) > 2, s[1] # Gap, s[2] # Gap
  PROVE  LET u == Stripped(s)
         IN  SubSeq(u, 3, Len(u)) = Stripped(SubSeq(s, 3, Len(s)))
<1> DEFINE n == Len(s)
           u == Stripped(s)
           t == SubSeq(s, 3, n)
           v == Stripped(t)
           l == n - 2
<1>1. /\ n \in Nat /\ l \in Nat /\ t \in Seq(S) /\ Len(t) = l
      /\ \A k \in 1 .. l : t[k] = s[k + 2]
  OBVIOUS
<1> HIDE DEF t
<1>2. /\ u \in Seq(S \ {Gap}) /\ v \in Seq(S \ {Gap})
      /\ Len(u) \in Nat /\ Len(v) \in Nat
  <2>1. u \in Seq(S \ {Gap}) /\ v \in Seq(S \ {Gap})
    BY <1>1, StripFacts
  <2> HIDE DEF u, v
  <2> QED
    BY <2>1
<1>3. PICK c : Strips(s, u, c)
  BY StripFacts
<1>4. PICK d : Strips(t, v, d)
  BY <1>1, StripFacts
<1> HIDE DEF u, v
<1>5. /\ c[0] = 0 /\ c[n] = Len(u) /\ \A k \in 0 .. n : c[k] \in Nat
      /\ \A k \in 1 .. n : /\ s[k] = Gap => c[k] = c[k - 1]
                           /\ s[k] # Gap => c[k] = c[k - 1] + 1 /\ u[c[k]] = s[k]
  BY <1>3 DEF Strips
<1>6. /\ d[0] = 0 /\ d[l] = Len(v) /\ \A k \in 0 .. l : d[k] \in Nat
      /\ \A k \in 1 .. l : /\ s[k + 2] = Gap => d[k] = d[k - 1]
                           /\ s[k + 2] # Gap => d[k] = d[k - 1] + 1 /\ v[d[k]] = s[k + 2]
  <2> HIDE DEF l
  <2>1. d[0] = 0 /\ d[l] = Len(v) /\ d \in [0 .. l -> 0 .. Len(v)]
    BY <1>1, <1>4 DEF Strips
  <2>2. \A k \in 1 .. l : /\ t[k] = Gap => d[k] = d[k - 1]
                          /\ t[k] # Gap => d[k] = d[k - 1] + 1 /\ v[d[k]] = t[k]
    BY <1>1, <1>4 DEF Strips
  <2>3. \A k \in 0 .. l : d[k] \in Nat
    BY <2>1
  <2> QED
    BY <1>1, <2>1, <2>2, <2>3
<1> HIDE DEF n, l
<1>7. n = l + 2 /\ n > 2
  BY <1>1 DEF n, l
<1> DEFINE T == {k \in Nat : k <= l => c[k + 2] = d[k] + 2}
<1>8. ASSUME NEW k \in Nat, \A i \in 0 .. k - 1 : i \in T
      PROVE  k \in T
  <2>1. CASE k = 0
    <3>1. 1 \in 1 .. n /\ 2 \in 1 .. n
      BY <1>1, <1>7
    <3>2. c[1] = c[0] + 1 /\ c[2] = c[1] + 1
      BY <1>5, <3>1
    <3>3. c[2] = 2
      BY <1>5, <3>2
    <3> QED
      BY <1>6, <2>1, <3>3
  <2>2. CASE k # 0
    <3> DEFINE i == k - 1
    <3>1. SUFFICES ASSUME k <= l PROVE c[k + 2] = d[k] + 2
      OBVIOUS
    <3>2. /\ i \in 0 .. k - 1 /\ i <= l /\ k \in 1 .. l /\ k + 2 \in 1 .. n /\ (k + 2) - 1 = i + 2
          /\ i \in 0 .. l /\ k \in 0 .. l
      BY <1>1, <1>7, <2>2, <3>1
    <3>3. /\ s[k + 2] = Gap => c[k + 2] = c[i + 2] /\ d[k] = d[i]
          /\ s[k + 2] # Gap => c[k + 2] = c[i + 2] + 1 /\ d[k] = d[i] + 1
      BY <1>5, <1>6, <3>2
    <3>4. d[i] \in Nat
      BY <1>6, <3>2
    <3> HIDE DEF i
    <3>5. c[i + 2] = d[i] + 2
      BY <1>8, <3>2
    <3> QED
      BY <3>3, <3>4, <3>5
  <2> QED
    BY <2>1, <2>2
<1>9. T = Nat
  <2> HIDE DEF T
  <2>1. T \subseteq Nat
    BY DEF T
  <2> QED
    BY <1>8, <2>1, Below
<1>10. \A k \in 0 .. l : c[k + 2] = d[k] + 2
  <2>1. \A k \in Nat : k \in T
    BY <1>9
  <2>2. \A k \in 0 .. l : k \in Nat /\ k <= l
    BY <1>1
  <2> QED
    BY <2>1, <2>2
<1>11. Len(u) = Len(v) + 2
  <2>1. l \in 0 .. l /\ l + 2 = n
    BY <1>1, <1>7
  <2> QED
    BY <1>5, <1>6, <1>10, <2>1
<1>12. ASSUME NEW j \in 1 .. Len(v) PROVE v[j] = u[j + 2]
  <2>1. PICK k \in 1 .. l : t[k] # Gap /\ d[k] = j
    BY <1>1, <1>2, <1>4, StripOnto
  <2>2. k \in 0 .. l /\ k + 2 \in 1 .. n
    BY <1>1, <1>7
  <2>3. s[k + 2] # Gap /\ v[j] = s[k + 2]
    BY <1>1, <1>6, <2>1
  <2>4. c[k + 2] = j + 2
    BY <1>10, <2>1, <2>2
  <2> QED
    BY <1>5, <2>2, <2>3, <2>4
<1>13. /\ SubSeq(u, 3, Len(u)) \in Seq(S \ {Gap}) /\ Len(SubSeq(u, 3, Len(u))) = Len(v)
       /\ \A j \in 1 .. Len(v) : SubSeq(u, 3, Len(u))[j] = u[j + 2]
  BY <1>2, <1>11
<1>14. SubSeq(u, 3, Len(u)) = v
  <2> DEFINE w == SubSeq(u, 3, Len(u))
  <2> HIDE DEF w
  <2>1. w \in Seq(S \ {Gap}) /\ Len(w) = Len(v) /\ \A j \in 1 .. Len(v) : w[j] = v[j]
    BY <1>12, <1>13 DEF w
  <2>2. w = v
    BY <1>2, <2>1
  <2> QED
    BY <2>2 DEF w
<1> QED
  BY <1>14 DEF u, v, t, n

-----------------------------------------------------------------------------
(* What the patterns of numbers match. *)

\* A pattern for a part of a text.
LEMMA AllOf ==
  ASSUME NEW s \in Seq(STRING), NEW m \in Nat, NEW n \in Nat, m <= n, n <= Len(s), NEW chars
  PROVE  All(SubSeq(s, m + 1, n), chars) <=> \A i \in m + 1 .. n : s[i] \in chars
<1> DEFINE t == SubSeq(s, m + 1, n)
<1>1. DOMAIN t = 1 .. n - m /\ \A i \in 1 .. n - m : t[i] = s[m + i]
  BY Slices
<1> HIDE DEF t
<1>2. All(t, chars) <=> \A i \in 1 .. n - m : s[m + i] \in chars
  BY <1>1 DEF All
<1>3. \A i \in m + 1 .. n : i - m \in 1 .. n - m /\ m + (i - m) = i
  OBVIOUS
<1>4. \A i \in 1 .. n - m : m + i \in m + 1 .. n
  OBVIOUS
<1> QED
  BY <1>2, <1>3, <1>4 DEF t

\* A sized number with its tick at t, character by character.
SizedAt(s, t) ==
  /\ t \in 2 .. Len(s) - 2 /\ s[t] = "'"
  /\ \A i \in 1 .. t - 1 : s[i] \in Digits
  /\ s[t + 1] \in DOMAIN PatternOf
  /\ \A i \in t + 2 .. Len(s) : s[i] \in PatternOf[s[t + 1]]

\* Sized numbers, character by character.
LEMMA SizedMeans ==
  ASSUME NEW s \in Seq(STRING)
  PROVE  SizedNumber(s) <=> \E t \in 2 .. Len(s) - 2 : SizedAt(s, t)
<1>1. ASSUME NEW t \in 2 .. Len(s) - 2
      PROVE  SizedAt(s, t) <=>
               /\ s[t] = "'"
               /\ All(SubSeq(s, 1, t - 1), Digits)
               /\ s[t + 1] \in DOMAIN PatternOf
               /\ All(SubSeq(s, t + 2, Len(s)), PatternOf[s[t + 1]])
  <2>1. Len(s) \in Nat /\ t \in Nat
    OBVIOUS
  <2>2. All(SubSeq(s, 1, t - 1), Digits) <=> \A i \in 1 .. t - 1 : s[i] \in Digits
    <3> DEFINE m == t - 1
    <3>1. 0 \in Nat /\ m \in Nat /\ 0 <= m /\ m <= Len(s) /\ 0 + 1 = 1
      BY <2>1
    <3> HIDE DEF m
    <3>2. All(SubSeq(s, 0 + 1, m), Digits) <=> \A i \in 0 + 1 .. m : s[i] \in Digits
      BY <3>1, AllOf
    <3> QED
      BY <3>1, <3>2 DEF m
  <2>3. \A chars : All(SubSeq(s, t + 2, Len(s)), chars) <=> \A i \in t + 2 .. Len(s) : s[i] \in chars
    <3> DEFINE m == t + 1
    <3>1. m \in Nat /\ m <= Len(s) /\ m + 1 = t + 2 /\ Len(s) <= Len(s)
      BY <2>1
    <3> HIDE DEF m
    <3>2. \A chars : All(SubSeq(s, m + 1, Len(s)), chars) <=> \A i \in m + 1 .. Len(s) : s[i] \in chars
      BY <2>1, <3>1, AllOf
    <3> QED
      BY <3>1, <3>2
  <2> QED
    BY <2>2, <2>3 DEF SizedAt
<1> QED
  BY <1>1 DEF SizedNumber

\* Numbers with a prefix, character by character.
LEMMA PrefixedMeans ==
  ASSUME NEW s \in Seq(STRING)
  PROVE  /\ HexNumber(s) <=>
              /\ Len(s) > 2 /\ s[1] = "0" /\ s[2] = "x"
              /\ \A i \in 3 .. Len(s) : s[i] \in DOMAIN DigitValue \union {Gap}
         /\ BinaryNumber(s) <=>
              /\ Len(s) > 2 /\ s[1] = "0" /\ s[2] = "b"
              /\ \A i \in 3 .. Len(s) : s[i] \in {"0", "1", Gap}
<1>1. ASSUME Len(s) > 2, NEW chars
      PROVE  All(SubSeq(s, 3, Len(s)), chars) <=> \A i \in 3 .. Len(s) : s[i] \in chars
  <2>1. 2 \in Nat /\ Len(s) \in Nat /\ 2 <= Len(s) /\ Len(s) <= Len(s) /\ 2 + 1 = 3
    BY <1>1
  <2>2. All(SubSeq(s, 2 + 1, Len(s)), chars) <=> \A i \in 2 + 1 .. Len(s) : s[i] \in chars
    BY <2>1, AllOf
  <2> QED
    BY <2>1, <2>2
<1> QED
  BY <1>1 DEF HexNumber, BinaryNumber

\* What the patterns of digits have in common.
LEMMA PatternFacts ==
  /\ DOMAIN PatternOf = {"b", "h", "d"}
  /\ \A k \in {"b", "h", "d"} : PatternOf[k] \subseteq Chars /\ Gap \in PatternOf[k]
  /\ \A k \in {"h", "d"} : "?" \notin PatternOf[k] /\ Digits \subseteq PatternOf[k]
  /\ "0" \in PatternOf["b"] /\ "1" \in PatternOf["b"]
  /\ Radix["b"] = 2 /\ Radix["h"] = 16 /\ Radix["d"] = 10
  /\ "'" \notin Chars /\ "'" \notin Digits /\ "'" \notin {"b", "h", "d"}
  /\ Digits \subseteq DOMAIN DigitValue
<1>1. /\ DOMAIN PatternOf = {"b", "h", "d"}
      /\ PatternOf["b"] = {"0", "1", Gap, "?"}
      /\ PatternOf["h"] = DOMAIN DigitValue \union {Gap}
      /\ PatternOf["d"] = DOMAIN DigitValue \union {Gap}
  BY DEF PatternOf
<1>2. /\ Digits \subseteq DOMAIN DigitValue /\ "0" \in Digits /\ "1" \in Digits
      /\ "?" \notin DOMAIN DigitValue \union {Gap}
  BY DigitFacts DEF Digits
<1>3. Radix["b"] = 2 /\ Radix["h"] = 16 /\ Radix["d"] = 10
  BY DEF Radix
<1>4. "'" \notin {"0", "1", "2", "3", "4", "b", "h", "d", "?"}
  OBVIOUS
<1>5. "'" # Gap
  BY Zenon DEF Gap
<1>6. "'" \notin Chars /\ "'" \notin Digits /\ "'" \notin {"b", "h", "d"}
  BY <1>4, <1>5, DigitFacts DEF Chars, Digits
<1>7. \A k \in {"b", "h", "d"} : PatternOf[k] \subseteq Chars /\ Gap \in PatternOf[k]
  BY <1>1, <1>2 DEF Chars
<1> QED
  BY <1>1, <1>2, <1>3, <1>6, <1>7

\* The tick of a sized number is where it is found, and no other has one.
LEMMA TickFacts ==
  ASSUME NEW s \in Seq(STRING), Len(s) > 0, Number(s)
  PROVE  /\ "'" \in Range(s) => SizedAt(s, Tick(s))
         /\ "'" \notin Range(s) => HexNumber(s) \/ BinaryNumber(s) \/ DecimalNumber(s)
<1>1. Len(s) \in Nat /\ DOMAIN s = 1 .. Len(s)
  OBVIOUS
<1>2. "'" \in Range(s) <=> \E i \in 1 .. Len(s) : s[i] = "'"
  BY <1>1 DEF Range
<1>3. ASSUME NEW t \in 2 .. Len(s) - 2, SizedAt(s, t)
      PROVE  "'" \in Range(s) /\ Tick(s) = t
  <2>1. t \in 1 .. Len(s) /\ s[t] = "'"
    BY <1>1, <1>3 DEF SizedAt
  <2>2. ASSUME NEW i \in 1 .. Len(s), s[i] = "'" PROVE i = t
    <3>1. i \in 1 .. t - 1 \/ i = t \/ i = t + 1 \/ i \in t + 2 .. Len(s)
      BY <1>1
    <3>2. \A j \in 1 .. t - 1 : s[j] # "'"
      BY <1>3, PatternFacts DEF SizedAt
    <3>3. s[t + 1] \in {"b", "h", "d"}
      BY <1>3, PatternFacts DEF SizedAt
    <3>4. \A j \in t + 2 .. Len(s) : s[j] # "'"
      BY <1>3, <3>3, PatternFacts DEF SizedAt
    <3> QED
      BY <2>2, <3>1, <3>2, <3>3, <3>4, PatternFacts
  <2>3. Tick(s) = CHOOSE i \in 1 .. Len(s) : s[i] = "'"
    BY <1>1 DEF Tick
  <2>4. Tick(s) \in 1 .. Len(s) /\ s[Tick(s)] = "'"
    BY <2>1, <2>3
  <2> QED
    BY <1>2, <2>1, <2>2, <2>4
<1>4. SizedNumber(s) => "'" \in Range(s) /\ SizedAt(s, Tick(s))
  BY <1>3, SizedMeans
<1>5. HexNumber(s) \/ BinaryNumber(s) \/ DecimalNumber(s) => "'" \notin Range(s)
  <2>1. HexNumber(s) \/ BinaryNumber(s) => \A i \in 1 .. Len(s) : i \in {1, 2} \/ i \in 3 .. Len(s)
    BY <1>1
  <2>2. "'" \notin {"0", "x", "b"} /\ "'" \notin DOMAIN DigitValue \union {Gap}
        /\ "'" \notin {"0", "1", Gap} /\ "'" \notin Digits \union {Gap}
    <3>1. "'" # Gap /\ "'" \notin DOMAIN DigitValue
      BY PatternFacts DEF Chars
    <3> QED
      BY <3>1, PatternFacts
  <2>3. HexNumber(s) => \A i \in 1 .. Len(s) : s[i] # "'"
    BY <2>1, <2>2, PrefixedMeans
  <2>4. BinaryNumber(s) => \A i \in 1 .. Len(s) : s[i] # "'"
    BY <2>1, <2>2, PrefixedMeans
  <2>5. DecimalNumber(s) => \A i \in 1 .. Len(s) : s[i] # "'"
    BY <1>1, <2>2 DEF DecimalNumber, All
  <2> QED
    BY <1>2, <2>3, <2>4, <2>5
<1> QED
  BY <1>4, <1>5 DEF Number

-----------------------------------------------------------------------------
(* What a number is made of. *)

\* A part of a text whose characters are of a set.
LEMMA SliceOf ==
  ASSUME NEW s \in Seq(STRING), NEW m \in Nat, NEW n \in Nat, m <= n, n <= Len(s),
         NEW S, \A i \in m + 1 .. n : s[i] \in S
  PROVE  SubSeq(s, m + 1, n) \in Seq(S)
<1> DEFINE t == SubSeq(s, m + 1, n)
<1>1. t \in Seq(STRING) /\ Len(t) = n - m /\ \A i \in 1 .. n - m : t[i] = s[m + i]
  BY Slices
<1> HIDE DEF t
<1>2. \A i \in 1 .. n - m : m + i \in m + 1 .. n
  OBVIOUS
<1>3. \A i \in 1 .. Len(t) : t[i] \in S
  BY <1>1, <1>2
<1> QED
  BY <1>1, <1>3 DEF t

\* What stands before the tick and behind it.
LEMMA SizedFacts ==
  ASSUME NEW s \in Seq(STRING), Len(s) > 0, Number(s), "'" \in Range(s)
  PROVE  LET w == SubSeq(s, 1, Tick(s) - 1)
             b == s[Tick(s) + 1]
             d == DigitsOf(s)
         IN  /\ w \in Seq(Digits) /\ Len(w) > 0
             /\ b \in {"b", "h", "d"} /\ Base(s) = Radix[b]
             /\ d = SubSeq(s, Tick(s) + 2, Len(s)) /\ d \in Seq(Chars)
             /\ b # "b" => d \in Seq(Chars \ {"?"})
<1> DEFINE t == Tick(s)
           b == s[t + 1]
<1>1. SizedAt(s, t)
  BY TickFacts
<1>2. Base(s) = Radix[b] /\ DigitsOf(s) = SubSeq(s, t + 1 + 1, Len(s))
  BY DEF Base, DigitsOf, Prefix
<1> HIDE DEF t
<1>3. /\ t \in 2 .. Len(s) - 2 /\ Len(s) \in Nat /\ t \in Nat /\ t + 1 \in Nat /\ t - 1 \in Nat
      /\ t + 1 <= Len(s) /\ t - 1 <= Len(s) /\ Len(s) <= Len(s) /\ 0 <= t - 1
      /\ \A i \in 1 .. t - 1 : s[i] \in Digits
      /\ b \in {"b", "h", "d"}
      /\ \A i \in t + 2 .. Len(s) : s[i] \in PatternOf[b]
  BY <1>1, PatternFacts DEF SizedAt
<1>4. PatternOf[b] \subseteq Chars /\ (b # "b" => "?" \notin PatternOf[b])
  BY <1>3, PatternFacts
<1> HIDE DEF b
<1>5. t + 1 + 1 = t + 2
  BY <1>3
<1>6. SubSeq(s, t + 1 + 1, Len(s)) \in Seq(PatternOf[b])
  <2> DEFINE m == t + 1
  <2>1. m \in Nat /\ m <= Len(s) /\ m + 1 = t + 2
    BY <1>3
  <2> HIDE DEF m
  <2>2. SubSeq(s, m + 1, Len(s)) \in Seq(PatternOf[b])
    BY <1>3, <2>1, SliceOf
  <2> QED
    BY <2>2 DEF m
<1>7. SubSeq(s, 1, t - 1) \in Seq(Digits) /\ Len(SubSeq(s, 1, t - 1)) > 0
  <2> DEFINE n == t - 1
  <2>1. 0 \in Nat /\ n \in Nat /\ 0 <= n /\ n <= Len(s) /\ 0 + 1 = 1 /\ n - 0 = n /\ n > 0
    BY <1>3
  <2>2. \A i \in 0 + 1 .. n : s[i] \in Digits
    BY <1>3
  <2> HIDE DEF n
  <2>3. SubSeq(s, 0 + 1, n) \in Seq(Digits) /\ Len(SubSeq(s, 0 + 1, n)) = n - 0
    BY <2>1, <2>2, SliceOf, Slices
  <2> QED
    BY <2>1, <2>3 DEF n
<1>8. DigitsOf(s) \in Seq(Chars) /\ (b # "b" => DigitsOf(s) \in Seq(Chars \ {"?"}))
  <2> DEFINE d == DigitsOf(s)
             P == PatternOf[b]
  <2>1. d \in Seq(P)
    BY <1>2, <1>6
  <2> HIDE DEF d, P
  <2>2. P \subseteq Chars /\ (b # "b" => P \subseteq Chars \ {"?"})
    BY <1>4 DEF P
  <2>3. \A S : P \subseteq S => d \in Seq(S)
    BY <2>1
  <2> QED
    BY <2>2, <2>3 DEF d
<1> QED
  BY <1>2, <1>3, <1>5, <1>7, <1>8 DEF t, b

\* The digits of a number that has no tick.
LEMMA UnsizedFacts ==
  ASSUME NEW s \in Seq(STRING), Len(s) > 0, Number(s), "'" \notin Range(s)
  PROVE  /\ DigitsOf(s) \in Seq(Chars \ {"?"}) /\ Base(s) \in {2, 10, 16}
         /\ HexNumber(s) => ~BinaryNumber(s) /\ Base(s) = 16
         /\ BinaryNumber(s) => Base(s) = 2
         /\ HexNumber(s) \/ BinaryNumber(s) =>
              /\ DigitsOf(s) = SubSeq(s, 3, Len(s)) /\ Len(s) > 2 /\ s[1] # Gap /\ s[2] # Gap
         /\ ~HexNumber(s) /\ ~BinaryNumber(s) =>
              DigitsOf(s) = s /\ Base(s) = 10 /\ s \in Seq(Digits \union {Gap}) /\ s[1] \in Digits
<1>1. Len(s) \in Nat /\ DOMAIN s = 1 .. Len(s)
  OBVIOUS
<1>2. HexNumber(s) => s[2] = "x"
  BY PrefixedMeans
<1>3. BinaryNumber(s) => s[2] = "b"
  BY PrefixedMeans
<1>4. HexNumber(s) => ~BinaryNumber(s)
  BY <1>2, <1>3
<1>5. Base(s) = IF HexNumber(s) THEN 16 ELSE IF BinaryNumber(s) THEN 2 ELSE 10
  BY DEF Base
<1>6. /\ HexNumber(s) \/ BinaryNumber(s) => DigitsOf(s) = SubSeq(s, 2 + 1, Len(s))
      /\ ~HexNumber(s) /\ ~BinaryNumber(s) => DigitsOf(s) = SubSeq(s, 0 + 1, Len(s))
  BY DEF DigitsOf, Prefix
<1>7. /\ DOMAIN DigitValue \union {Gap} \subseteq Chars \ {"?"} /\ {"0", "1", Gap} \subseteq Chars \ {"?"}
      /\ Digits \union {Gap} \subseteq Chars \ {"?"}
  BY DigitFacts, PatternFacts DEF Chars, Digits
<1>8. CASE HexNumber(s) \/ BinaryNumber(s)
  <2>1. Len(s) > 2 /\ \A i \in 3 .. Len(s) : s[i] \in Chars \ {"?"}
    BY <1>7, <1>8, PrefixedMeans
  <2>2. 2 \in Nat /\ 2 <= Len(s) /\ Len(s) <= Len(s) /\ 2 + 1 = 3
    BY <1>1, <2>1
  <2>3. SubSeq(s, 2 + 1, Len(s)) \in Seq(Chars \ {"?"})
    BY <1>1, <2>1, <2>2, SliceOf
  <2>4. s[1] = "0" /\ s[2] \in {"x", "b"}
    BY <1>2, <1>3, <1>8, PrefixedMeans
  <2>5. "0" # Gap /\ "x" # Gap /\ "b" # Gap
    BY Zenon DEF Gap
  <2>6. DigitsOf(s) = SubSeq(s, 2 + 1, Len(s)) /\ 2 + 1 = 3
    BY <1>6, <1>8
  <2>7. s[1] # Gap /\ s[2] # Gap
    BY <2>4, <2>5
  <2>8. Base(s) = (IF HexNumber(s) THEN 16 ELSE 2) /\ Base(s) \in {2, 10, 16}
    BY <1>5, <1>8
  <2> QED
    BY <1>4, <1>8, <2>1, <2>3, <2>6, <2>7, <2>8
<1>9. CASE ~HexNumber(s) /\ ~BinaryNumber(s)
  <2>1. DecimalNumber(s)
    BY <1>9, TickFacts
  <2>2. s[1] \in Digits /\ \A i \in 1 .. Len(s) : s[i] \in Digits \union {Gap}
    BY <1>1, <2>1 DEF DecimalNumber, All
  <2>3. SubSeq(s, 1, Len(s)) = s
    BY <1>1
  <2>4. s \in Seq(Digits \union {Gap}) /\ s \in Seq(Chars \ {"?"})
    <3> DEFINE S == Digits \union {Gap}
               T == Chars \ {"?"}
    <3>1. \A i \in 1 .. Len(s) : s[i] \in S /\ s[i] \in T
      BY <1>7, <2>2
    <3> HIDE DEF S, T
    <3> QED
      BY <1>1, <3>1 DEF S, T
  <2>5. Base(s) = 10 /\ 10 \in {2, 10, 16}
    BY <1>5, <1>9
  <2>6. DigitsOf(s) = s
    <3>1. DigitsOf(s) = SubSeq(s, 0 + 1, Len(s)) /\ 0 + 1 = 1
      BY <1>6, <1>9
    <3> QED
      BY <2>3, <3>1
  <2> QED
    BY <1>9, <2>2, <2>4, <2>5, <2>6
<1> QED
  BY <1>8, <1>9

-----------------------------------------------------------------------------
(* parse_numeric. *)

\* Digits without `?` are read as they are.
LEMMA ReadsDigits ==
  ASSUME NEW d \in Seq(Chars \ {"?"}), NEW base \in Nat \ {0}
  PROVE  /\ Positional(d, base) \in Nat
         /\ from_str_radix(Stripped(d), base) =
              IF Proper(d, base) /\ Positional(d, base) < Limit THEN Positional(d, base) ELSE Err
         /\ DontCares(d) = {}
<1> DEFINE u == Stripped(d)
           S == Chars \ {"?"}
<1>1. d \in Seq(Chars) /\ d \in Seq(S) /\ \A i \in DOMAIN d : d[i] # "?"
  OBVIOUS
<1>2. u \in Seq(S \ {Gap}) /\ "?" \notin S \ {Gap}
  <2>1. "?" \notin S \ {Gap}
    OBVIOUS
  <2> HIDE DEF S
  <2> QED
    BY <1>1, <2>1, StripFacts
<1> HIDE DEF u, S
<1>3. Cleaned(u) = u
  BY <1>2, CleanSame
<1>4. DontCares(d) = {}
  BY <1>1 DEF DontCares, Places
<1> QED
  BY <1>1, <1>3, <1>4, ReadsPositional DEF u

\* The width before the tick.
LEMMA ReadsWidth ==
  ASSUME NEW w \in Seq(Digits), Len(w) > 0
  PROVE  /\ Positional(w, 10) \in Nat
         /\ from_str_radix(w, 10) = IF Positional(w, 10) < Limit THEN Positional(w, 10) ELSE Err
<1>1. Gap \notin Digits /\ "?" \notin Digits /\ Digits \subseteq Chars
  BY DigitFacts DEF Chars
<1>2. w \in Seq(Chars \ {"?"}) /\ Len(w) \in Nat /\ DOMAIN w = 1 .. Len(w)
  <2> DEFINE S == Chars \ {"?"}
  <2>1. Digits \subseteq S
    BY <1>1
  <2> HIDE DEF S
  <2>2. w \in Seq(S)
    BY <2>1
  <2> QED
    BY <2>2 DEF S
<1>3. Stripped(w) = w
  BY <1>1, StripSame
<1>4. Proper(w, 10)
  <2>1. \A i \in 1 .. Len(w) : w[i] \in Digits
    OBVIOUS
  <2>2. 1 \in Places(w)
    BY <1>1, <1>2, <2>1 DEF Places
  <2>3. \A i \in Places(w) : w[i] \in Digits
    BY <1>2, <2>1 DEF Places
  <2> QED
    BY <2>2, <2>3, DigitFacts DEF Proper
<1>5. 10 \in Nat \ {0}
  OBVIOUS
<1> QED
  BY <1>2, <1>3, <1>4, <1>5, ReadsDigits

\* A width has no more values than the limit.
LEMMA WidthFacts ==
  ASSUME NEW w \in 1 .. Bits
  PROVE  w < Limit /\ Pow(2, w) \in Nat /\ Pow(2, w) <= Limit /\ (w = Bits => Pow(2, w) = Limit)
<1>1. Bits \in Nat /\ w \in Nat /\ w <= Bits
  BY BitsAssumption
<1>2. Limit = Pow(2, Bits) /\ Bits < Limit /\ Limit \in Nat
  BY LimitFacts
<1>3. Pow(2, w) \in Nat \ {0}
  BY <1>1, TwoFacts
<1>4. Pow(2, w) <= Pow(2, Bits)
  BY <1>1, TwoGrows
<1> QED
  BY <1>1, <1>2, <1>3, <1>4

\* What a width and a value that were read make.
\* A number as far as it is below the limit.
Checked(n) == IF n < Limit THEN n ELSE Err

\* What a sized literal makes of its text.
SizedAs(r, w, p, mask) ==
  IF w \in 1 .. Bits /\ p < Pow(2, w)
  THEN r.value = p /\ r.mask = mask /\ p < Limit ELSE r.value = Err

\* sized_literal keeps a value that fits its width.
LEMMA SizedValue ==
  ASSUME NEW w \in Nat, NEW p \in Nat, NEW mask
  PROVE  SizedAs(sized_literal(Checked(w), Checked(p), mask), w, p, mask)
<1> DEFINE width == Checked(w)
           value == Checked(p)
           good == w \in 1 .. Bits /\ p < Pow(2, w)
           bad == width = Err \/ width = 0 \/ width > Bits \/ value = Err
                    \/ (width < Bits /\ value >= Pow(2, width))
<1>0. Err = Limit /\ Limit \in Nat /\ Limit = Pow(2, Bits) /\ Bits \in Nat
  BY LimitFacts, BitsAssumption DEF Err
<1>1. good => w < Limit /\ Pow(2, w) \in Nat /\ Pow(2, w) <= Limit
  BY WidthFacts
<1>2. w \in 1 .. Bits => (w = Bits => Pow(2, w) = Limit)
  BY WidthFacts
<1>3. width = (IF w < Limit THEN w ELSE Err) /\ value = (IF p < Limit THEN p ELSE Err)
  BY DEF Checked
<1>4. sized_literal(width, value, mask) = IF bad THEN NoLiteral ELSE [value |-> value, mask |-> mask]
  BY DEF sized_literal
<1> HIDE DEF width, value
<1>5. good => width = w /\ value = p /\ p < Limit /\ ~bad
  BY <1>0, <1>1, <1>3
<1>6. ~good => bad
  <2>1. CASE w \notin 1 .. Bits
    BY <1>0, <1>3, <2>1
  <2>2. CASE w \in 1 .. Bits /\ ~(p < Pow(2, w))
    <3>1. w < Limit /\ Pow(2, w) \in Nat /\ width = w
      BY <1>3, <2>2, WidthFacts
    <3>2. CASE w = Bits
      BY <1>0, <1>2, <1>3, <2>2, <3>2
    <3>3. CASE w # Bits
      <4>1. w < Bits /\ p >= Pow(2, w)
        BY <1>0, <2>2, <3>1, <3>3
      <4>2. value = Err \/ value = p
        BY <1>3
      <4> QED
        BY <3>1, <4>1, <4>2
    <3> QED
      BY <3>2, <3>3
  <2> QED
    BY <2>1, <2>2
<1>7. NoLiteral.value = Err
  BY DEF NoLiteral
<1>8. [value |-> value, mask |-> mask].value = value /\ [value |-> value, mask |-> mask].mask = mask
  OBVIOUS
<1> HIDE DEF bad
<1>9. SizedAs(sized_literal(width, value, mask), w, p, mask)
  BY <1>4, <1>5, <1>6, <1>7, <1>8 DEF SizedAs
<1> QED
  BY <1>9 DEF width, value

\* It makes nothing of digits that have no value.
LEMMA NoSizedValue ==
  ASSUME NEW width, NEW mask
  PROVE  sized_literal(width, Err, mask).value = Err
BY DEF sized_literal, NoLiteral

\* What a number needs to have a value.
LEMMA MeaningfulMeans ==
  \A s : Meaningful(s) <=>
    Proper(DigitsOf(s), Base(s)) /\ WidthOf(s) \in 1 .. Bits /\ ValueOf(s) < Pow(2, WidthOf(s))
BY DEF Meaningful, Proper

\* A literal is what its text says, bit by bit, and none if that is nothing.
Faithful(s) ==
  LET r == parse_numeric(s)
  IN  IF Meaningful(s)
      THEN /\ r.value = ValueOf(s) /\ r.value # Err
           /\ \A b \in 0 .. Bits - 1 :
                b \in DontCares(DigitsOf(s)) <=> (r.mask \div Pow(2, b)) % 2 = 1
      ELSE r.value = Err

\* A mask of zero has no bits.
LEMMA NoBits ==
  ASSUME NEW b \in Nat
  PROVE  (0 \div Pow(2, b)) % 2 # 1
<1> DEFINE p == Pow(2, b)
<1>1. p \in Nat \ {0}
  BY TwoFacts
<1> HIDE DEF p
<1>2. 0 \div p = 0
  BY <1>1
<1> QED
  BY <1>2 DEF p

\* Sized literals are what they say.
LEMMA SizedFaithful ==
  ASSUME NEW s \in Seq(STRING), Len(s) > 0, Number(s), "'" \in Range(s)
  PROVE  Faithful(s)
<1> DEFINE w == SubSeq(s, 1, Tick(s) - 1)
           b == s[Tick(s) + 1]
           d == DigitsOf(s)
           m == IF b = "b" THEN dont_care_mask(Stripped(d)) ELSE 0
           width == from_str_radix(w, 10)
           value == from_str_radix(Cleaned(Stripped(d)), Radix[b])
           W == Positional(w, 10)
           P == Positional(d, Radix[b])
<1>1. /\ w \in Seq(Digits) /\ Len(w) > 0
      /\ b \in {"b", "h", "d"} /\ Base(s) = Radix[b]
      /\ d = SubSeq(s, Tick(s) + 2, Len(s)) /\ d \in Seq(Chars)
      /\ b # "b" => d \in Seq(Chars \ {"?"})
  BY SizedFacts
<1>2. parse_numeric(s) = sized_literal(width, value, m)
  BY <1>1 DEF parse_numeric
<1>3. ValueOf(s) = P /\ WidthOf(s) = W
  BY <1>1 DEF ValueOf, WidthOf
<1> HIDE DEF w, b, d
<1>4. Radix[b] \in Nat \ {0}
  BY <1>1, PatternFacts
<1>5. W \in Nat /\ width = IF W < Limit THEN W ELSE Err
  BY <1>1, ReadsWidth
<1>6. P \in Nat /\ value = IF Proper(d, Radix[b]) /\ P < Limit THEN P ELSE Err
  BY <1>1, <1>4, ReadsPositional
<1>7. \A k \in 0 .. Bits - 1 : k \in DontCares(d) <=> (m \div Pow(2, k)) % 2 = 1
  <2>1. CASE b = "b"
    BY <1>1, <2>1, MaskBits
  <2>2. CASE b # "b"
    <3>1. DontCares(d) = {} /\ m = 0
      BY <1>1, <1>4, <2>2, ReadsDigits
    <3>2. \A k \in 0 .. Bits - 1 : k \in Nat
      OBVIOUS
    <3> QED
      BY <3>1, <3>2, NoBits
  <2> QED
    BY <2>1, <2>2
<1> HIDE DEF m, width, value, W, P
<1> DEFINE proper == Proper(d, Radix[b])
           r == sized_literal(width, value, m)
<1>8. Meaningful(s) <=> proper /\ W \in 1 .. Bits /\ P < Pow(2, W)
  BY <1>1, <1>3, MeaningfulMeans DEF d
<1> HIDE DEF r
<1>9. value = IF proper /\ P < Limit THEN P ELSE Err
  BY <1>6
<1> HIDE DEF proper
<1>10. IF proper /\ W \in 1 .. Bits /\ P < Pow(2, W)
       THEN r.value = P /\ r.mask = m /\ P < Limit ELSE r.value = Err
  <2>1. CASE proper
    <3>1. value = Checked(P) /\ width = Checked(W)
      BY <1>5, <1>9, <2>1 DEF Checked
    <3>2. SizedAs(sized_literal(Checked(W), Checked(P), m), W, P, m)
      BY <1>5, <1>6, SizedValue
    <3>3. SizedAs(r, W, P, m)
      BY <3>1, <3>2 DEF r
    <3> QED
      BY <2>1, <3>3 DEF SizedAs
  <2>2. CASE ~proper
    <3>1. value = Err
      BY <1>9, <2>2
    <3>2. r.value = Err
      BY <3>1, NoSizedValue DEF r
    <3> QED
      BY <2>2, <3>2
  <2> QED
    BY <2>1, <2>2
<1>11. P < Limit => P # Err
  BY <1>6, LimitFacts DEF Err
<1>12. parse_numeric(s) = r
  BY <1>2 DEF r
<1> QED
  BY <1>3, <1>7, <1>8, <1>10, <1>11, <1>12 DEF Faithful, d

\* And so are the others.
LEMMA UnsizedFaithful ==
  ASSUME NEW s \in Seq(STRING), Len(s) > 0, Number(s), "'" \notin Range(s)
  PROVE  Faithful(s)
<1> DEFINE d == DigitsOf(s)
           base == Base(s)
           clean == Stripped(s)
           rest == SubSeq(clean, 3, Len(clean))
           P == Positional(d, base)
<1>1. /\ d \in Seq(Chars \ {"?"}) /\ base \in {2, 10, 16}
      /\ HexNumber(s) => ~BinaryNumber(s) /\ base = 16
      /\ BinaryNumber(s) => base = 2
      /\ HexNumber(s) \/ BinaryNumber(s) =>
           /\ d = SubSeq(s, 3, Len(s)) /\ Len(s) > 2 /\ s[1] # Gap /\ s[2] # Gap
      /\ ~HexNumber(s) /\ ~BinaryNumber(s) => d = s /\ base = 10
  BY UnsizedFacts
<1>2. HexNumber(s) \/ BinaryNumber(s) => rest = Stripped(d)
  <2>1. HexNumber(s) \/ BinaryNumber(s) => rest = Stripped(SubSeq(s, 3, Len(s)))
    BY <1>1, StripBehind
  <2> QED
    BY <1>1, <2>1
<1>3. ~HexNumber(s) /\ ~BinaryNumber(s) => clean = Stripped(d)
  BY <1>1
<1>4. parse_numeric(s) =
        [value |-> CASE HexNumber(s) -> from_str_radix(rest, 16)
                     [] BinaryNumber(s) -> from_str_radix(rest, 2)
                     [] OTHER -> from_str_radix(clean, 10),
         mask |-> 0]
  BY Zenon DEF parse_numeric
<1>5. ValueOf(s) = P /\ WidthOf(s) = Bits
  <2>1. ValueOf(s) = P
    BY Zenon DEF ValueOf
  <2>2. WidthOf(s) = Bits
    BY Zenon DEF WidthOf
  <2> QED
    BY <2>1, <2>2
<1> HIDE DEF d, base, rest, clean
<1>6. parse_numeric(s).value = from_str_radix(Stripped(d), base) /\ parse_numeric(s).mask = 0
  <2>1. CASE HexNumber(s)
    BY <1>1, <1>2, <1>4, <2>1
  <2>2. CASE BinaryNumber(s)
    BY <1>1, <1>2, <1>4, <2>2
  <2>3. CASE ~HexNumber(s) /\ ~BinaryNumber(s)
    BY <1>1, <1>3, <1>4, <2>3
  <2> QED
    BY <2>1, <2>2, <2>3
<1>7. base \in Nat \ {0}
  BY <1>1
<1>8. /\ P \in Nat /\ DontCares(d) = {}
      /\ from_str_radix(Stripped(d), base) = IF Proper(d, base) /\ P < Limit THEN P ELSE Err
  BY <1>1, <1>7, ReadsDigits
<1> HIDE DEF P
<1>9. Meaningful(s) <=> Proper(d, base) /\ P < Limit
  <2>1. Bits \in 1 .. Bits /\ Pow(2, Bits) = Limit
    BY BitsAssumption, LimitFacts
  <2> QED
    BY <1>5, <2>1, MeaningfulMeans DEF d, base
<1>10. P < Limit => P # Err
  BY <1>8, LimitFacts DEF Err
<1>11. \A b \in 0 .. Bits - 1 : (0 \div Pow(2, b)) % 2 # 1
  <2>1. \A b \in 0 .. Bits - 1 : b \in Nat
    OBVIOUS
  <2> QED
    BY <2>1, NoBits
<1> QED
  BY <1>5, <1>6, <1>8, <1>9, <1>10, <1>11 DEF Faithful, d

-----------------------------------------------------------------------------
(* Where a number ends. *)

\* A number with one character more that its base allows is a number.
LEMMA LongerNumber ==
  ASSUME NEW s \in Seq(STRING), Len(s) > 0, Number(s), NEW u \in Seq(STRING), OneMore(s, u), NEW c, c = u[Len(s) + 1],
         c = Gap \/ (c \in Digits /\ DigitValue[c] < Base(s))
  PROVE  Number(u)
<1> DEFINE n == Len(s)
<1>1. /\ n \in Nat /\ DOMAIN s = 1 .. n /\ Len(u) = n + 1 /\ DOMAIN u = 1 .. n + 1
      /\ \A i \in 1 .. n : u[i] = s[i]
      /\ u[n + 1] = c
  BY DEF OneMore
<1>2. CASE "'" \in Range(s)
  <2> DEFINE t == Tick(s)
             b == s[t + 1]
  <2>1. SizedAt(s, t) /\ Base(s) = Radix[b]
    <3>1. SizedAt(s, Tick(s))
      BY <1>2, TickFacts
    <3>2. Base(s) = Radix[s[Tick(s) + 1]]
      BY <1>2, SizedFacts
    <3> QED
      BY <3>1, <3>2
  <2> HIDE DEF t
  <2>2. /\ t \in 2 .. n - 2 /\ s[t] = "'" /\ b \in {"b", "h", "d"}
        /\ \A i \in 1 .. t - 1 : s[i] \in Digits
        /\ \A i \in t + 2 .. n : s[i] \in PatternOf[b]
    BY <2>1, PatternFacts DEF SizedAt
  <2>3. t \in 1 .. n /\ t + 1 \in 1 .. n /\ t \in 2 .. Len(u) - 2 /\ t \in Int
    BY <1>1, <2>2
  <2>4. u[t] = "'" /\ u[t + 1] = b
    BY <1>1, <2>2, <2>3
  <2> HIDE DEF b
  <2>5. c \in PatternOf[b]
    <3>1. CASE c = Gap
      BY <2>2, <3>1, PatternFacts
    <3>2. CASE c \in Digits /\ b \in {"h", "d"}
      BY <3>2, PatternFacts
    <3>3. CASE c \in Digits /\ b = "b" /\ DigitValue[c] < Base(s)
      <4>1. DigitValue[c] < 2
        BY <2>1, <3>3, PatternFacts
      <4> QED
        BY <3>3, <4>1, DigitFacts, PatternFacts
    <3> QED
      BY <2>2, <3>1, <3>2, <3>3
  <2>6. \A i \in 1 .. t - 1 : u[i] \in Digits
    <3>1. \A i \in 1 .. t - 1 : i \in 1 .. n
      BY <1>1, <2>2
    <3> QED
      BY <1>1, <2>2, <3>1
  <2>7. \A i \in t + 2 .. Len(u) : u[i] \in PatternOf[b]
    <3>1. \A i \in t + 2 .. n + 1 : i = n + 1 \/ (i \in 1 .. n /\ i \in t + 2 .. n)
      BY <1>1, <2>2
    <3> QED
      BY <1>1, <2>2, <2>5, <3>1
  <2>8. SizedAt(u, t)
    BY <2>2, <2>3, <2>4, <2>6, <2>7, PatternFacts DEF SizedAt
  <2>9. SizedNumber(u)
    BY <1>1, <2>3, <2>8, SizedMeans
  <2> QED
    BY <2>9 DEF Number
<1>3. CASE "'" \notin Range(s)
  <2>1. /\ HexNumber(s) => ~BinaryNumber(s) /\ Base(s) = 16
        /\ BinaryNumber(s) => Base(s) = 2
        /\ ~HexNumber(s) /\ ~BinaryNumber(s) => s \in Seq(Digits \union {Gap}) /\ s[1] \in Digits
    BY <1>3, UnsizedFacts
  <2>2. n > 2 => /\ u[1] = s[1] /\ u[2] = s[2]
                 /\ \A i \in 3 .. n + 1 : i = n + 1 \/ (i \in 1 .. n /\ i \in 3 .. n)
    BY <1>1
  <2>3. CASE HexNumber(s)
    <3>1. n > 2 /\ s[1] = "0" /\ s[2] = "x"
          /\ \A i \in 3 .. n : s[i] \in DOMAIN DigitValue \union {Gap}
      BY <2>3, PrefixedMeans
    <3>2. c \in DOMAIN DigitValue \union {Gap}
      BY PatternFacts
    <3>3. \A i \in 3 .. Len(u) : u[i] \in DOMAIN DigitValue \union {Gap}
      BY <1>1, <2>2, <3>1, <3>2
    <3>4. HexNumber(u)
      BY <1>1, <2>2, <3>1, <3>3, PrefixedMeans
    <3> QED
      BY <3>4 DEF Number
  <2>4. CASE BinaryNumber(s)
    <3>1. n > 2 /\ s[1] = "0" /\ s[2] = "b" /\ \A i \in 3 .. n : s[i] \in {"0", "1", Gap}
      BY <2>4, PrefixedMeans
    <3>2. c \in {"0", "1", Gap}
      BY <2>1, <2>4, DigitFacts
    <3>3. \A i \in 3 .. Len(u) : u[i] \in {"0", "1", Gap}
      BY <1>1, <2>2, <3>1, <3>2
    <3>4. BinaryNumber(u)
      BY <1>1, <2>2, <3>1, <3>3, PrefixedMeans
    <3> QED
      BY <3>4 DEF Number
  <2>5. CASE ~HexNumber(s) /\ ~BinaryNumber(s)
    <3>1. s[1] \in Digits /\ \A i \in 1 .. n : s[i] \in Digits \union {Gap}
      BY <2>1, <2>5
    <3>2. u[1] = s[1] /\ \A i \in 1 .. n + 1 : i = n + 1 \/ i \in 1 .. n
      BY <1>1
    <3>3. DecimalNumber(u)
      BY <1>1, <3>1, <3>2 DEF DecimalNumber, All
    <3> QED
      BY <3>3 DEF Number
  <2> QED
    BY <2>3, <2>4, <2>5
<1> QED
  BY <1>2, <1>3

\* Number is the pattern of the kind Numeric.
LEMMA NumericKind ==
  \A s : "Numeric" \in Kinds(s) <=> Number(s)
BY DEF Kinds

\* The longest match stops before no character that its base allows.
LEMMA StopsAt ==
  ASSUME text \in Seq(STRING), position \in 0 .. Len(text), Matches # {},
         Number(Slice(position, Longest)), Longest < Len(text)
  PROVE  LET c == text[Longest + 1]
         IN  c # Gap /\ (c \in Digits => ~(DigitValue[c] < Base(Slice(position, Longest))))
<1> DEFINE n == Longest
           s == Slice(position, n)
           c == text[n + 1]
<1>1. /\ n \in position + 1 .. Len(text) /\ s \in Seq(STRING) /\ Len(s) = n - position
  BY MatchFacts
<1>2. Matches \in SUBSET (0 .. Len(text)) /\ Len(text) \in Nat
  BY DEF Matches
<1>3. \A to \in Matches : to <= n
  BY <1>2, Latest DEF Longest
<1>4. n < Len(text)
  OBVIOUS
<1> HIDE DEF n
<1>5. /\ n \in Nat /\ position \in Nat /\ position <= n /\ Len(s) > 0
      /\ n + 1 \in position + 1 .. Len(text)
  BY <1>1, <1>2, <1>4
<1> DEFINE u == Slice(position, n + 1)
<1>6. u \in Seq(STRING) /\ OneMore(s, u) /\ u[Len(s) + 1] = c
  BY <1>4, <1>5, NextSlice
<1>7. SUFFICES ASSUME c = Gap \/ (c \in Digits /\ DigitValue[c] < Base(s)) PROVE FALSE
  BY DEF n
<1>8. Number(s)
  BY DEF n
<1> HIDE DEF s, c, u
<1>9. Number(u)
  BY <1>1, <1>5, <1>6, <1>7, <1>8, LongerNumber
<1>10. n + 1 \in Matches
  BY <1>5, <1>9, NumericKind DEF Matches, u
<1> QED
  BY <1>3, <1>5, <1>10

-----------------------------------------------------------------------------
(* Numbers, step by step. *)

\* What NumbersAsWritten says of a token.
NumberFits(t) ==
  t.kind = "Numeric" =>
    LET s == TextOf(t)
    IN  /\ Meaningful(s)
        /\ t.value = ValueOf(s)
        /\ \A b \in 0 .. Bits - 1 :
             b \in DontCares(DigitsOf(s)) <=> (t.mask \div Pow(2, b)) % 2 = 1
        /\ t.to < Len(text) =>
             /\ text[t.to + 1] # Gap
             /\ text[t.to + 1] \in Digits => DigitValue[text[t.to + 1]] >= Base(s)

RightlyRefused ==
  status = "rejected" /\ depth = 0 /\ Matches # {} => ~Meaningful(Slice(position, Longest))

NumbersFit == \A i \in DOMAIN tokens : NumberFits(tokens[i])

NInv == NumbersFit /\ RightlyRefused

\* Every number is what it says.
LEMMA NumberFaithful ==
  ASSUME NEW s \in Seq(STRING), Len(s) > 0, Number(s)
  PROVE  Faithful(s) /\ Base(s) \in {2, 10, 16}
<1>1. CASE "'" \in Range(s)
  <2>1. Faithful(s)
    BY <1>1, SizedFaithful
  <2>2. s[Tick(s) + 1] \in {"b", "h", "d"} /\ Base(s) = Radix[s[Tick(s) + 1]]
    BY <1>1, SizedFacts
  <2> QED
    BY <2>1, <2>2, PatternFacts
<1>2. CASE "'" \notin Range(s)
  BY <1>2, UnsizedFaithful, UnsizedFacts
<1> QED
  BY <1>1, <1>2

\* The token that an action pushes, and those before it.
LEMMA NumbersPushed ==
  ASSUME Tokens, NInv, NEW kind, NEW to, NEW literal, Push(kind, to, literal), text' = text,
         NumberFits([kind |-> kind, from |-> position, to |-> to,
                     value |-> literal.value, mask |-> literal.mask])
  PROVE  NumbersFit'
<1> DEFINE t == [kind |-> kind, from |-> position, to |-> to,
                 value |-> literal.value, mask |-> literal.mask]
           n == Len(tokens)
<1>1. tokens' = Append(tokens, t)
  BY DEF Push
<1> HIDE DEF t
<1>2. /\ n \in Nat /\ DOMAIN tokens = 1 .. n /\ DOMAIN tokens' = 1 .. n + 1
      /\ \A i \in 1 .. n : tokens'[i] = tokens[i]
      /\ tokens'[n + 1] = t
  BY <1>1, Pushed DEF Tokens
<1>3. \A i \in 1 .. n : NumberFits(tokens[i])
  BY <1>2 DEF NInv, NumbersFit
<1>4. NumberFits(t)
  BY DEF t
<1>5. \A i \in 1 .. n + 1 : i \in 1 .. n \/ i = n + 1
  BY <1>2
<1>6. \A i \in DOMAIN tokens' : NumberFits(tokens'[i])
  BY <1>2, <1>3, <1>4, <1>5
<1>7. \A e : NumberFits(e) <=> NumberFits(e)'
  BY DEF NumberFits, TextOf
<1> QED
  BY <1>6, <1>7 DEF NumbersFit

\* No token is pushed.
LEMMA NumbersSame ==
  ASSUME NInv, text' = text, tokens' = tokens
  PROVE  NumbersFit'
<1>1. \A e : NumberFits(e) <=> NumberFits(e)'
  BY DEF NumberFits, TextOf
<1> QED
  BY <1>1 DEF NInv, NumbersFit

\* What is kept by a step that leaves the text as it is, and its number.
LEMMA NumberPicked ==
  ASSUME IInv, Matches # {}, Kind = "Numeric"
  PROVE  LET s == Slice(position, Longest)
         IN  /\ s \in Seq(STRING) /\ Len(s) > 0 /\ Number(s)
             /\ Longest \in Nat /\ text \in Seq(STRING) /\ position \in 0 .. Len(text)
<1>1. text \in Seq(STRING) /\ position \in 0 .. Len(text) /\ position \in Nat /\ Len(text) \in Nat
  BY TextFacts DEF IInv, Where
<1> DEFINE s == Slice(position, Longest)
           n == Longest
<1>2. /\ n \in position + 1 .. Len(text) /\ s \in Seq(STRING) /\ Len(s) = n - position
      /\ "Numeric" \in Kinds(s)
  BY <1>1, MatchFacts
<1> HIDE DEF s, n
<1>3. Number(s)
  BY <1>2, NumericKind
<1>4. n \in Nat /\ Len(s) > 0
  BY <1>1, <1>2
<1> QED
  BY <1>1, <1>2, <1>3, <1>4 DEF s, n

\* The number that is pushed.
LEMMA EmitNumberFits ==
  ASSUME IInv, NInv, EmitNumber
  PROVE  NumbersFit'
<1> DEFINE s == Slice(position, Longest)
           r == parse_numeric(s)
           n == Longest
           t == [kind |-> "Numeric", from |-> position, to |-> n, value |-> r.value, mask |-> r.mask]
<1>1. /\ Matches # {} /\ Kind = "Numeric" /\ r.value # Err /\ Push("Numeric", n, r) /\ text' = text
  BY DEF EmitNumber
<1>2. /\ s \in Seq(STRING) /\ Len(s) > 0 /\ Number(s) /\ n \in Nat
      /\ text \in Seq(STRING) /\ position \in 0 .. Len(text)
  BY <1>1, NumberPicked
<1>3. n < Len(text) =>
        /\ text[n + 1] # Gap
        /\ text[n + 1] \in Digits => ~(DigitValue[text[n + 1]] < Base(s))
  BY <1>1, <1>2, StopsAt
<1>4. TextOf(t) = s /\ t.kind = "Numeric" /\ t.value = r.value /\ t.mask = r.mask /\ t.to = n
  BY DEF TextOf, Slice
<1> HIDE DEF s, n
<1>5. Faithful(s) /\ Base(s) \in {2, 10, 16}
  BY <1>2, NumberFaithful
<1>6. /\ Meaningful(s) /\ r.value = ValueOf(s)
      /\ \A b \in 0 .. Bits - 1 : b \in DontCares(DigitsOf(s)) <=> (r.mask \div Pow(2, b)) % 2 = 1
  BY <1>1, <1>5 DEF Faithful
<1>7. n < Len(text) =>
        /\ text[n + 1] # Gap
        /\ text[n + 1] \in Digits => DigitValue[text[n + 1]] >= Base(s)
  <2>1. \A c \in Digits : DigitValue[c] \in Int
    BY DigitFacts, PatternFacts
  <2>2. \A x \in Int : ~(x < Base(s)) => x >= Base(s)
    BY <1>5
  <2> QED
    BY <1>3, <2>1, <2>2
<1> HIDE DEF t, r
<1>8. NumberFits(t)
  BY <1>4, <1>6, <1>7 DEF NumberFits
<1> QED
  BY <1>1, <1>8, NumbersPushed DEF t, IInv

\* A number is refused because it is none.
LEMMA RefusesRightly ==
  ASSUME IInv, NInv, [Next]_vars
  PROVE  RightlyRefused'
<1>1. CASE RejectNumber
  <2> DEFINE s == Slice(position, Longest)
  <2>1. Matches # {} /\ Kind = "Numeric" /\ parse_numeric(s).value = Err
        /\ text' = text /\ position' = position
    BY <1>1 DEF RejectNumber, Reject
  <2>2. s \in Seq(STRING) /\ Len(s) > 0 /\ Number(s)
    BY <2>1, NumberPicked
  <2>3. s' = s
    BY <2>1 DEF Slice, Longest, Matches
  <2> HIDE DEF s
  <2>4. ~Meaningful(s)
    BY <2>1, <2>2, NumberFaithful DEF Faithful
  <2>5. ~Meaningful(s')
    BY <2>3, <2>4
  <2> QED
    BY <2>5 DEF RightlyRefused, s
<1>2. CASE RejectCharacter
  BY <1>2 DEF RejectCharacter, Reject, RightlyRefused, Matches, Slice
<1>3. CASE Unterminated
  BY <1>3 DEF Unterminated, Reject, RightlyRefused, IInv, Where
<1>4. CASE Finish
  BY <1>4 DEF Finish, RightlyRefused
<1>5. CASE Emit \/ EmitNumber \/ EmitNewline \/ OpenComment \/ Nest \/ CloseComment \/ PassOver
  <2>1. status' = "lexing"
    BY <1>5 DEF Emit, EmitNumber, EmitNewline, OpenComment, Nest, CloseComment, PassOver,
                Scanning, Between
  <2> QED
    BY <2>1 DEF RightlyRefused
<1>6. CASE UNCHANGED vars
  BY <1>6 DEF vars, NInv, RightlyRefused, Longest, Matches, Slice
<1> QED
  BY <1>1, <1>2, <1>3, <1>4, <1>5, <1>6 DEF Next

\* No other action pushes a number.
LEMMA NumbersFitKept ==
  ASSUME IInv, NInv, [Next]_vars
  PROVE  NumbersFit'
<1>1. ASSUME NEW kind, kind # "Numeric", NEW to, NEW literal, Push(kind, to, literal), text' = text
      PROVE  NumbersFit'
  <2>1. NumberFits([kind |-> kind, from |-> position, to |-> to,
                    value |-> literal.value, mask |-> literal.mask])
    BY <1>1 DEF NumberFits
  <2> QED
    BY <1>1, <2>1, NumbersPushed DEF IInv
<1>2. CASE Emit
  <2>1. CASE Kind = "Skipped"
    BY <1>2, <2>1, NumbersSame DEF Emit
  <2>2. CASE Kind # "Skipped"
    <3>1. Kind # "Numeric" /\ Push(Kind, Longest, NoLiteral) /\ text' = text
      BY <1>2, <2>2 DEF Emit
    <3> QED
      BY <1>1, <3>1
  <2> QED
    BY <2>1, <2>2
<1>3. CASE EmitNumber
  BY <1>3, EmitNumberFits
<1>4. CASE EmitNewline
  <2>1. PICK to \in position + 1 .. Len(text) :
          "Newline" # "Numeric" /\ Push("Newline", to, NoLiteral) /\ text' = text
    BY <1>4 DEF EmitNewline
  <2> QED
    BY <1>1, <2>1
<1>5. CASE CloseComment
  <2>1. CASE depth = 1
    <3>1. "Block" # "Numeric" /\ Push("Block", at + 2, NoLiteral) /\ text' = text
      BY <1>5, <2>1 DEF CloseComment
    <3> QED
      BY <1>1, <3>1
  <2>2. CASE depth # 1
    BY <1>5, <2>2, NumbersSame DEF CloseComment
  <2> QED
    BY <2>1, <2>2
<1>6. CASE \/ RejectNumber \/ RejectCharacter \/ Finish \/ OpenComment \/ Nest \/ PassOver
           \/ Unterminated \/ UNCHANGED vars
  <2>1. text' = text /\ tokens' = tokens
    BY <1>6 DEF RejectNumber, RejectCharacter, Finish, OpenComment, Nest, PassOver,
                Unterminated, Reject, vars
  <2> QED
    BY <2>1, NumbersSame
<1> QED
  BY <1>2, <1>3, <1>4, <1>5, <1>6 DEF Next

-----------------------------------------------------------------------------
(* The theorems. *)

(***************************************************************************)
(* The tokens follow each other in the text, and the loop in a comment     *)
(* never leaves it (lex.rs:5-30, token.rs:349-375).                        *)
(***************************************************************************)
THEOREM TypeCorrect == Spec => []TypeOK
<1>1. IInv => TypeOK
  BY DEF IInv, Where, Tokens, TokenFits, TypeOK
<1> QED
  BY <1>1, Invariant, PTL

(***************************************************************************)
(* Of a text of any length nothing is lost but blanks, every newline       *)
(* outside block comments and strings ends a line of its own, and so does  *)
(* every return that is not in a line comment, which goes on to the next   *)
(* newline or the end of the text (lex.rs:9-26, token.rs:324-345).         *)
(***************************************************************************)
THEOREM TextIsCovered == Spec => []TokensCoverText
<1>1. IInv => TokensCoverText
  <2> SUFFICES ASSUME IInv PROVE TokensCoverText
    OBVIOUS
  <2>1. status = "lexed" => DOMAIN text = 1 .. position
    BY TextFacts DEF IInv, Ended
  <2> QED
    BY <2>1 DEF IInv, Covered, Tokens, TokenFits, Fits, TextOf, TokensCoverText
<1> QED
  BY <1>1, Invariant, PTL

(***************************************************************************)
(* Block comments nest to any depth: one ends at the closer of its opener, *)
(* and is rejected only if there is none (token.rs:349-375).               *)
(***************************************************************************)
THEOREM CommentsAreNested == Spec => []CommentsNest
<1>1. IInv => CommentsNest
  <2> SUFFICES ASSUME IInv PROVE CommentsNest
    OBVIOUS
  <2>1. status = "rejected" /\ depth > 0 => NeverCloses(Rest)
    <3>1. SUFFICES ASSUME status = "rejected", depth > 0 PROVE NeverCloses(Rest)
      OBVIOUS
    <3>2. at - position = Len(Rest)
      BY <3>1, TextFacts DEF IInv, Ended
    <3> QED
      BY <3>1, <3>2, HereMeans, ScanFails
  <2> QED
    BY <2>1 DEF IInv, Tokens, TokenFits, CommentsNest, Of
<1> QED
  BY <1>1, Invariant, PTL

(***************************************************************************)
(* In every text, a literal of any length and base has the value of its    *)
(* digits and the mask of its question marks, a number that has no such    *)
(* value is refused, and no other is (numeric.rs:13-94,                    *)
(* token.rs:304-314).                                                      *)
(***************************************************************************)
THEOREM NumbersAreAsWritten == Spec => []NumbersAsWritten
<1>1. Init => NInv
  BY DEF Init, NInv, NumbersFit, RightlyRefused
<1>2. IInv /\ NInv /\ [Next]_vars => NInv'
  BY NumbersFitKept, RefusesRightly DEF NInv
<1>3. NInv => NumbersAsWritten
  BY DEF NInv, NumbersFit, NumberFits, RightlyRefused, NumbersAsWritten, Of
<1> QED
  BY <1>1, <1>2, <1>3, Invariant, PTL DEF Spec

================================================================================
