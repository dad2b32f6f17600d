----------------------------- MODULE LoopLemmas -----------------------------
(***************************************************************************)
(* Loops over a text, which the specifications write as FoldLeft: what a   *)
(* proof needs to reason about one by induction.                           *)
(*                                                                         *)
(* The provers cannot take an operator, so the body of a loop is a         *)
(* function here, from a state and an element to a state.  FoldLeft is a   *)
(* CHOOSE of a function on sets of places that solves a recursive          *)
(* equation: Solution shows that there is one, Agree that all its          *)
(* solutions end alike.                                                    *)
(***************************************************************************)
EXTENDS Integers, Sequences, SequencesExt, SequenceTheorems, WellFoundedInduction, TLAPS

\* The loop over a text.
Looped(h, start, text) == FoldLeft(LAMBDA r, b : h[<<r, b>>], start, text)

\* A set of numbers that is not empty has a least one.
LEMMA LeastOf ==
  ASSUME NEW P \in SUBSET Nat, P # {}
  PROVE  \E m \in P : \A k \in P : m <= k
<1> DEFINE R == OpToRel(<, Nat)
<1>1. IsWellFoundedOn(R, Nat)
  BY NatLessThanWellFounded
<1>2. \A x, y \in Nat : <<x, y>> \in R <=> x < y
  BY DEF OpToRel
<1> HIDE DEF R
<1>3. PICK m \in P : \A k \in P : ~ (<<k, m>> \in R)
  BY <1>1, WFMin
<1>4. ASSUME NEW k \in P PROVE m <= k
  <2>1. m \in Nat /\ k \in Nat
    OBVIOUS
  <2>2. ~ (<<k, m>> \in R)
    BY <1>3
  <2>3. ~ (k < m)
    BY <1>2, <2>1, <2>2
  <2> QED BY <2>1, <2>3
<1> QED BY <1>4

\* Induction on a set of numbers: a number that is not in it would have a
\* least one of its kind.
LEMMA Induction ==
  ASSUME NEW P \in SUBSET Nat, 0 \in P, \A n \in Nat : n \in P => n + 1 \in P
  PROVE  P = Nat
<1>1. SUFFICES ASSUME P # Nat PROVE FALSE
  OBVIOUS
<1>2. PICK m \in Nat \ P : \A k \in Nat \ P : m <= k
  <2>1. Nat \ P \in SUBSET Nat /\ Nat \ P # {}
    BY <1>1
  <2> QED BY <2>1, LeastOf
<1>3. m - 1 \in Nat /\ m - 1 \in P
  BY <1>2
<1> QED BY <1>2, <1>3

\* The same for sequences, by their length.
LEMMA TextInduction ==
  ASSUME NEW T, NEW P \in SUBSET Seq(T), <<>> \in P,
         \A text \in P, b \in T : Append(text, b) \in P
  PROVE  P = Seq(T)
<1> DEFINE All(n) == \A text \in Seq(T) : Len(text) = n => text \in P
           N == {n \in Nat : All(n)}
<1>a. N \in SUBSET Nat /\ \A n \in Nat : n \in N <=> All(n)
  <2> HIDE DEF All
  <2> QED OBVIOUS
<1> HIDE DEF N
<1>1. 0 \in N
  <2>1. \A text \in Seq(T) : Len(text) = 0 => text = <<>>
    BY EmptySeq
  <2> QED BY <1>a, <2>1
<1>2. ASSUME NEW n \in Nat, n \in N PROVE n + 1 \in N
  <2>1. ASSUME NEW text \in Seq(T), Len(text) = n + 1 PROVE text \in P
    <3>1. PICK r \in Seq(T), b \in T : text = Append(r, b)
      <4>1. text # <<>>
        BY <2>1
      <4> QED BY <4>1, SequenceEmptyOrAppend
    <3>2. Len(r) = n
      BY <2>1, <3>1
    <3> QED BY <1>2, <1>a, <3>1, <3>2
  <2> QED BY <1>a, <2>1
<1>3. N = Nat
  BY <1>1, <1>2, <1>a, Induction
<1> QED BY <1>3, <1>a

\* iter solves the equation of FoldLeft.
Solves(iter, h, start, text) ==
  iter = [s \in SUBSET DOMAIN text |->
            IF s = {} THEN start ELSE h[<<iter[s \ {Max(s)}], text[Max(s)]>>]]

\* The greatest of the numbers up to one, and of some of them with it.
LEMMA MaxFacts ==
  /\ \A n \in Nat : Max(1..n + 1) = n + 1
  /\ \A n \in Nat : \A s \in SUBSET (1..n + 1) : n + 1 \in s => Max(s) = n + 1
<1>1. ASSUME NEW n \in Nat, NEW s \in SUBSET (1..n + 1), n + 1 \in s PROVE Max(s) = n + 1
  <2>1. \A y \in s : n + 1 >= y
    BY <1>1
  <2>2. \A x \in s : (\A y \in s : x >= y) => x = n + 1
    BY <1>1
  <2> QED BY <1>1, <2>1, <2>2 DEF Max
<1> QED BY <1>1

\* The greatest element of a set of places is one of them.
LEMMA MaxIn ==
  ASSUME NEW n \in Nat, NEW s \in SUBSET (1..n), s # {}
  PROVE  Max(s) \in s
<1> DEFINE P == {n - k : k \in s}
<1>1. P \in SUBSET Nat /\ P # {}
  <2>1. \A k \in s : n - k \in Nat
    OBVIOUS
  <2>2. PICK k \in s : TRUE
    OBVIOUS
  <2>3. n - k \in P
    BY <2>2
  <2> QED BY <2>1, <2>3
<1>2. PICK m \in P : \A k \in P : m <= k
  <2> HIDE DEF P
  <2> QED BY <1>1, LeastOf
<1>3. PICK x \in s : m = n - x
  BY <1>2
<1>4. ASSUME NEW y \in s PROVE x >= y
  <2>1. n - y \in P /\ x \in Int /\ y \in Int
    OBVIOUS
  <2>2. m <= n - y
    BY <1>2, <2>1
  <2> QED BY <1>3, <2>1, <2>2
<1>5. \E z \in s : \A y \in s : z >= y
  BY <1>4
<1> QED BY <1>5, Zenon DEF Max

\* The sets on the way from no element to all.
LEMMA UpTo ==
  ASSUME NEW n \in Nat, NEW k \in 1..n
  PROVE  1..k \in SUBSET (1..n) /\ 1..k # {} /\ Max(1..k) = k /\ (1..k) \ {k} = 1..k - 1
<1>1. k \in Nat /\ 1 <= k /\ k <= n /\ k - 1 \in Nat /\ (k - 1) + 1 = k
  OBVIOUS
<1>2. 1..k \in SUBSET (1..n) /\ k \in 1..k
  BY <1>1
<1>3. Max(1..k) = k
  BY <1>1, MaxFacts
<1>4. (1..k) \ {k} = 1..k - 1
  BY <1>1
<1> QED BY <1>2, <1>3, <1>4

\* The equation of the fold has a solution, by induction on the number of
\* elements.
LEMMA Solution ==
  ASSUME NEW S, NEW T, NEW h \in [S \X T -> S], NEW start \in S, NEW text \in Seq(T)
  PROVE  \E g \in [SUBSET DOMAIN text -> S] : Solves(g, h, start, text)
<1> DEFINE N == Len(text)
           Eq(g, n) == g = [s \in SUBSET (1..n) |->
                              IF s = {} THEN start ELSE h[<<g[s \ {Max(s)}], text[Max(s)]>>]]
           Solved(n) == \E g \in [SUBSET (1..n) -> S] : Eq(g, n)
           P == {n \in Nat : n <= N => Solved(n)}
<1>0. N \in Nat /\ DOMAIN text = 1..N /\ \A i \in 1..N : text[i] \in T
  BY LenProperties, ElementOfSeq
<1>a. P \in SUBSET Nat /\ \A n \in Nat : n \in P <=> (n <= N => Solved(n))
  <2> HIDE DEF Solved
  <2> QED OBVIOUS
<1> HIDE DEF P
<1>1. 0 \in P
  <2> DEFINE g0 == [s \in SUBSET (1..0) |-> start]
  <2>1. g0 \in [SUBSET (1..0) -> S]
    OBVIOUS
  <2>2. Eq(g0, 0)
    <3>1. \A s \in SUBSET (1..0) : s = {}
      OBVIOUS
    <3> QED BY <3>1
  <2> HIDE DEF g0, Eq
  <2> QED BY <1>a, <2>1, <2>2
<1>2. ASSUME NEW n \in Nat, n \in P PROVE n + 1 \in P
  <2>a. SUFFICES ASSUME n + 1 <= N PROVE Solved(n + 1)
    <3> HIDE DEF Solved
    <3> QED BY <1>a
  <2>1. PICK g \in [SUBSET (1..n) -> S] : Eq(g, n)
    <3>1. Solved(n)
      <4> HIDE DEF Solved
      <4> QED BY <1>0, <1>2, <1>a, <2>a
    <3> HIDE DEF Eq
    <3> QED BY <3>1
  <2> DEFINE more == [s \in SUBSET (1..n + 1) |->
                        IF n + 1 \in s THEN h[<<g[s \ {n + 1}], text[n + 1]>>] ELSE g[s]]
  <2>2. ASSUME NEW s \in SUBSET (1..n + 1) PROVE
          /\ n + 1 \in s => s \ {n + 1} \in SUBSET (1..n)
          /\ n + 1 \notin s => s \in SUBSET (1..n)
    OBVIOUS
  <2>3. text[n + 1] \in T
    BY <1>0, <2>a
  <2>4. more \in [SUBSET (1..n + 1) -> S]
    <3>1. ASSUME NEW s \in SUBSET (1..n + 1) PROVE more[s] \in S
      <4>1. CASE n + 1 \in s
        <5>1. g[s \ {n + 1}] \in S
          BY <2>2, <4>1
        <5>2. h[<<g[s \ {n + 1}], text[n + 1]>>] \in S
          BY <2>3, <5>1
        <5> QED BY <4>1, <5>2
      <4>2. CASE n + 1 \notin s
        BY <2>2, <4>2
      <4> QED BY <4>1, <4>2
    <3> QED BY <3>1
  <2>5. ASSUME NEW s \in SUBSET (1..n + 1) PROVE
          more[s] = IF s = {} THEN start ELSE h[<<more[s \ {Max(s)}], text[Max(s)]>>]
    <3>1. CASE n + 1 \in s
      <4>1. Max(s) = n + 1
        BY <3>1, MaxFacts
      <4>2. s \ {n + 1} \in SUBSET (1..n + 1) /\ n + 1 \notin s \ {n + 1}
        OBVIOUS
      <4>3. more[s \ {n + 1}] = g[s \ {n + 1}]
        BY <4>2
      <4>4. more[s] = h[<<g[s \ {n + 1}], text[n + 1]>>]
        BY <3>1
      <4> HIDE DEF more
      <4> QED BY <3>1, <4>1, <4>3, <4>4
    <3>2. CASE n + 1 \notin s
      <4>1. more[s] = g[s] /\ s \in SUBSET (1..n)
        BY <2>2, <3>2
      <4>2. g[s] = IF s = {} THEN start ELSE h[<<g[s \ {Max(s)}], text[Max(s)]>>]
        BY <2>1, <4>1
      <4>3. s \ {Max(s)} \in SUBSET (1..n + 1) /\ n + 1 \notin s \ {Max(s)}
        BY <3>2
      <4>4. more[s \ {Max(s)}] = g[s \ {Max(s)}]
        BY <4>3
      <4> HIDE DEF more
      <4> QED BY <4>1, <4>2, <4>4
    <3> QED BY <3>1, <3>2
  <2>6. Eq(more, n + 1)
    <3>1. more = [s \in SUBSET (1..n + 1) |-> more[s]]
      BY <2>4
    <3> HIDE DEF more
    <3> QED BY <2>5, <3>1
  <2> HIDE DEF more, Eq
  <2> QED BY <2>4, <2>6
<1>3. P = Nat
  BY <1>1, <1>2, <1>a, Induction
<1>4. Solved(N)
  <2> HIDE DEF Solved
  <2> QED BY <1>0, <1>3, <1>a
<1> QED BY <1>0, <1>4 DEF Solves

\* h takes a state of S and an element of T to the next state.
Machine(S, T, h, start) == h \in [S \X T -> S] /\ start \in S

\* I follows h along the first n elements, as long as it is in S.
Follows(I, S, h, start, text, n) ==
  /\ I[{}] = start
  /\ \A k \in 1..n : I[1..k - 1] \in S => I[1..k] = h[<<I[1..k - 1], text[k]>>]

\* The first n elements are of T.
Over(T, text, n) == n \in Nat /\ \A k \in 1..n : text[k] \in T

\* Two functions that follow h are equal where they end.
LEMMA Agree ==
  ASSUME NEW S, NEW T, NEW h, NEW start, Machine(S, T, h, start),
         NEW text, NEW n, Over(T, text, n),
         NEW I, Follows(I, S, h, start, text, n), NEW J, Follows(J, S, h, start, text, n)
  PROVE  I[1..n] = J[1..n] /\ I[1..n] \in S
<1> DEFINE Same(k) == I[1..k] = J[1..k] /\ I[1..k] \in S
           P == {k \in Nat : k <= n => Same(k)}
<1>a. P \in SUBSET Nat /\ \A k \in Nat : k \in P <=> (k <= n => Same(k))
  <2> HIDE DEF Same
  <2> QED OBVIOUS
<1> HIDE DEF P
<1>b. n \in Nat
  BY DEF Over
<1>1. Same(0)
  <2>1. 1..0 = {}
    OBVIOUS
  <2> QED BY <2>1 DEF Machine, Follows
<1>2. ASSUME NEW k \in Nat, k + 1 <= n, Same(k) PROVE Same(k + 1)
  <2>1. k + 1 \in 1..n /\ (k + 1) - 1 = k
    BY <1>2, <1>b
  <2>2. I[1..k + 1] = h[<<I[1..k], text[k + 1]>>]
    <3>1. I[1..k] \in S
      BY <1>2
    <3> QED BY <2>1, <3>1 DEF Follows
  <2>3. J[1..k + 1] = h[<<J[1..k], text[k + 1]>>]
    <3>1. J[1..k] \in S
      BY <1>2
    <3> QED BY <2>1, <3>1 DEF Follows
  <2>4. I[1..k] = J[1..k] /\ I[1..k] \in S /\ text[k + 1] \in T
    BY <1>2, <2>1 DEF Over
  <2> QED BY <2>2, <2>3, <2>4 DEF Machine
<1> HIDE DEF Same
<1>3. 0 \in P
  BY <1>a, <1>1
<1>4. ASSUME NEW k \in Nat, k \in P PROVE k + 1 \in P
  BY <1>a, <1>b, <1>2, <1>4
<1>5. P = Nat
  BY <1>a, <1>3, <1>4, Induction
<1>6. Same(n)
  BY <1>a, <1>b, <1>5
<1> QED BY <1>6 DEF Same

\* What a solution is worth to Agree.
Walks(I, h, text) == \A k \in 1..Len(text) : I[1..k] = h[<<I[1..k - 1], text[k]>>]

\* A solution of the equation follows h, and without the condition.
LEMMA SolutionFollows ==
  ASSUME NEW T, NEW h, NEW start, NEW text \in Seq(T), NEW I, Solves(I, h, start, text)
  PROVE  /\ \A S : Follows(I, S, h, start, text, Len(text))
         /\ Walks(I, h, text)
<1> DEFINE n == Len(text)
<1>a. n \in Nat /\ DOMAIN text = 1..n
  BY LenProperties
<1> HIDE DEF n
<1>1. I = [s \in SUBSET (1..n) |->
             IF s = {} THEN start ELSE h[<<I[s \ {Max(s)}], text[Max(s)]>>]]
  BY <1>a DEF Solves
<1>2. I[{}] = start
  <2>1. {} \in SUBSET (1..n)
    OBVIOUS
  <2> QED BY <1>1, <2>1
<1>3. ASSUME NEW k \in 1..n PROVE I[1..k] = h[<<I[1..k - 1], text[k]>>]
  <2>1. 1..k \in SUBSET (1..n) /\ 1..k # {} /\ Max(1..k) = k /\ (1..k) \ {k} = 1..k - 1
    BY <1>a, UpTo
  <2>2. I[1..k] = h[<<I[(1..k) \ {Max(1..k)}], text[Max(1..k)]>>]
    BY <1>1, <2>1
  <2> QED BY <2>1, <2>2
<1> QED BY <1>2, <1>3 DEF Follows, Walks, n

\* The solution that FoldLeft takes.
Chosen(h, start, text) == CHOOSE I : Solves(I, h, start, text)

\* The fold is a solution, taken of all the elements.
LEMMA LoopedIs ==
  ASSUME NEW S, NEW T, NEW h, NEW start, Machine(S, T, h, start), NEW text \in Seq(T)
  PROVE  /\ Looped(h, start, text) = Chosen(h, start, text)[1..Len(text)]
         /\ Over(T, text, Len(text))
         /\ Follows(Chosen(h, start, text), S, h, start, text, Len(text))
         /\ Walks(Chosen(h, start, text), h, text)
<1>1. Looped(h, start, text) = Chosen(h, start, text)[DOMAIN text]
  BY DEF Looped, Chosen, Solves, FoldLeft, MapThenFoldSet
<1>2. Len(text) \in Nat /\ DOMAIN text = 1..Len(text) /\ \A k \in 1..Len(text) : text[k] \in T
  BY LenProperties, ElementOfSeq
<1>3. Solves(Chosen(h, start, text), h, start, text)
  <2>1. \E I : Solves(I, h, start, text)
    BY Solution DEF Machine
  <2> QED BY <2>1, Zenon DEF Chosen
<1> DEFINE I == Chosen(h, start, text)
<1> HIDE DEF I
<1>4. (\A X : Follows(I, X, h, start, text, Len(text))) /\ Walks(I, h, text)
  <2>1. Solves(I, h, start, text)
    BY <1>3 DEF I
  <2> QED BY <2>1, SolutionFollows
<1>5. Over(T, text, Len(text))
  BY <1>2 DEF Over
<1> QED BY <1>1, <1>2, <1>4, <1>5 DEF I

\* What a proof needs of a loop: its value on nothing, its type, and its
\* value on one element more.
LEMMA LoopedFacts ==
  ASSUME NEW S, NEW T, NEW h, NEW start, Machine(S, T, h, start)
  PROVE  /\ Looped(h, start, <<>>) = start
         /\ \A text \in Seq(T) : Looped(h, start, text) \in S
         /\ \A text \in Seq(T), b \in T :
              Looped(h, start, Append(text, b)) = h[<<Looped(h, start, text), b>>]
<1>1. Looped(h, start, <<>>) = start
  <2>1. <<>> \in Seq(T) /\ Len(<<>>) = 0 /\ 1..0 = {}
    BY EmptySeq
  <2>a. 1..Len(<<>>) = {}
    BY <2>1
  <2>2. Looped(h, start, <<>>) = Chosen(h, start, <<>>)[{}]
    <3>1. Looped(h, start, <<>>) = Chosen(h, start, <<>>)[1..Len(<<>>)]
      <4> DEFINE t == <<>>
      <4>1. t \in Seq(T)
        BY <2>1
      <4> HIDE DEF t
      <4>2. Looped(h, start, t) = Chosen(h, start, t)[1..Len(t)]
        BY <4>1, LoopedIs
      <4> QED BY <4>2 DEF t
    <3> QED BY <2>a, <3>1
  <2>3. Follows(Chosen(h, start, <<>>), S, h, start, <<>>, 0)
    BY <2>1, LoopedIs
  <2> QED BY <2>2, <2>3 DEF Follows
<1>2. ASSUME NEW text \in Seq(T)
      PROVE  Looped(h, start, text) \in S
  BY LoopedIs, Agree
<1>3. ASSUME NEW text \in Seq(T), NEW b \in T
      PROVE  Looped(h, start, Append(text, b)) = h[<<Looped(h, start, text), b>>]
  <2> DEFINE I == Chosen(h, start, text)
             more == Append(text, b)
             J == Chosen(h, start, more)
             n == Len(text)
  <2>1. /\ Looped(h, start, text) = I[1..n]
        /\ Over(T, text, n)
        /\ Follows(I, S, h, start, text, n)
    <3> HIDE DEF I
    <3> QED BY LoopedIs DEF I
  <2>2. /\ more \in Seq(T) /\ Len(more) = n + 1
        /\ more[n + 1] = b /\ \A k \in 1..n : more[k] = text[k]
    OBVIOUS
  <2> HIDE DEF more
  <2>3. /\ Looped(h, start, more) = J[1..n + 1]
        /\ Follows(J, S, h, start, more, n + 1)
        /\ Walks(J, h, more)
    BY <2>2, LoopedIs
  <2> HIDE DEF I, J
  <2>4. n \in Nat
    OBVIOUS
  <2> HIDE DEF n
  <2>5. Follows(J, S, h, start, text, n)
    <3>1. \A k \in 1..n : k \in 1..n + 1
      BY <2>4
    <3> QED BY <2>2, <2>3, <3>1 DEF Follows, Walks
  <2>6. I[1..n] = J[1..n]
    BY <2>1, <2>5, Agree
  <2>7. J[1..n + 1] = h[<<J[1..n], b>>]
    <3>1. n + 1 \in 1..n + 1 /\ (n + 1) - 1 = n
      BY <2>4
    <3> QED BY <2>2, <2>3, <3>1 DEF Walks
  <2> QED BY <2>1, <2>3, <2>6, <2>7 DEF more
<1> QED BY <1>1, <1>2, <1>3

\* Whatever the fold makes of it: a function that takes one element more
\* the way h does, where it has an element of S before.
LEMMA FoldIsLooped ==
  ASSUME NEW S, NEW T, NEW h, NEW start, Machine(S, T, h, start), NEW text \in Seq(T),
         NEW K, Follows(K, S, h, start, text, Len(text))
  PROVE  K[1..Len(text)] = Looped(h, start, text)
<1> DEFINE I == Chosen(h, start, text)
<1>1. /\ Looped(h, start, text) = I[1..Len(text)]
      /\ Over(T, text, Len(text))
      /\ Follows(I, S, h, start, text, Len(text))
  BY LoopedIs
<1> HIDE DEF I
<1> QED BY <1>1, Agree

-----------------------------------------------------------------------------
(***************************************************************************)
(* A loop that several specifications have.                                *)
(***************************************************************************)

\* The sum of a sequence of lengths.
Total(start, s) == FoldLeft(+, start, s)

SumStep == [x \in Nat \X Nat |-> x[1] + x[2]]

\* The sum of lengths as a loop, whose body is a function.
LEMMA TotalLooped ==
  ASSUME NEW start \in Nat, NEW s \in Seq(Nat)
  PROVE  Total(start, s) = Looped(SumStep, start, s)
<1> DEFINE Eq(I) == I = [d \in SUBSET DOMAIN s |->
                           IF d = {} THEN start ELSE I[d \ {Max(d)}] + s[Max(d)]]
           K == CHOOSE I : Eq(I)
<1>1. Total(start, s) = K[DOMAIN s]
  BY DEF Total, FoldLeft, MapThenFoldSet
<1>2. Machine(Nat, Nat, SumStep, start)
  BY DEF Machine, SumStep
<1>3. DOMAIN s = 1..Len(s) /\ Len(s) \in Nat /\ \A k \in 1..Len(s) : s[k] \in Nat
  BY LenProperties, ElementOfSeq
<1>4. PICK g \in [SUBSET DOMAIN s -> Nat] : Solves(g, SumStep, start, s)
  BY <1>2, Solution DEF Machine
<1>5. Eq(g)
  <2>1. ASSUME NEW d \in SUBSET DOMAIN s, d # {}
        PROVE  g[d] = g[d \ {Max(d)}] + s[Max(d)]
    <3>1. g[d \ {Max(d)}] \in Nat /\ d \ {Max(d)} \in SUBSET DOMAIN s
      OBVIOUS
    <3>2. Max(d) \in DOMAIN s /\ s[Max(d)] \in Nat
      BY <1>3, <2>1, MaxIn
    <3>3. g[d] = SumStep[<<g[d \ {Max(d)}], s[Max(d)]>>]
      BY <1>4, <2>1 DEF Solves
    <3> QED BY <3>1, <3>2, <3>3 DEF SumStep
  <2> QED BY <1>4, <2>1 DEF Solves
<1>6. Eq(K)
  <2> HIDE DEF Eq
  <2> QED BY <1>5, Zenon
<1> HIDE DEF K
<1>7. K[{}] = start
  <2>1. {} \in SUBSET DOMAIN s
    OBVIOUS
  <2> QED BY <1>6, <2>1
<1>8. ASSUME NEW k \in 1..Len(s) PROVE K[1..k] = K[1..k - 1] + s[k]
  <2>1. 1..k \in SUBSET DOMAIN s /\ 1..k # {} /\ Max(1..k) = k /\ (1..k) \ {k} = 1..k - 1
    BY <1>3, UpTo
  <2>2. K[1..k] = K[(1..k) \ {Max(1..k)}] + s[Max(1..k)]
    BY <1>6, <2>1
  <2> QED BY <2>1, <2>2
<1>9. Follows(K, Nat, SumStep, start, s, Len(s))
  BY <1>3, <1>7, <1>8 DEF Follows, SumStep
<1>10. K[1..Len(s)] = Looped(SumStep, start, s)
  BY <1>2, <1>9, FoldIsLooped
<1> QED BY <1>1, <1>3, <1>10

\* The sum of nothing, and that of one length more.
LEMMA TotalFacts ==
  ASSUME NEW start \in Nat
  PROVE  /\ Total(start, <<>>) = start
         /\ \A s \in Seq(Nat) : Total(start, s) \in Nat
         /\ \A s \in Seq(Nat), n \in Nat : Total(start, Append(s, n)) = Total(start, s) + n
<1>1. Machine(Nat, Nat, SumStep, start)
  BY DEF Machine, SumStep
<1>2. /\ Looped(SumStep, start, <<>>) = start
      /\ \A s \in Seq(Nat) : Looped(SumStep, start, s) \in Nat
      /\ \A s \in Seq(Nat), n \in Nat :
           Looped(SumStep, start, Append(s, n)) = SumStep[<<Looped(SumStep, start, s), n>>]
  BY <1>1, LoopedFacts
<1>3. <<>> \in Seq(Nat) /\ \A s \in Seq(Nat), n \in Nat : Append(s, n) \in Seq(Nat)
  OBVIOUS
<1>4. \A s \in Seq(Nat) : Total(start, s) = Looped(SumStep, start, s)
  BY TotalLooped
<1>5. \A m \in Nat, n \in Nat : SumStep[<<m, n>>] = m + n
  BY DEF SumStep
<1>6. Total(start, <<>>) = start
  BY <1>2, <1>3, <1>4
<1>7. \A s \in Seq(Nat) : Total(start, s) \in Nat
  BY <1>2, <1>4
<1>8. ASSUME NEW s \in Seq(Nat), NEW n \in Nat PROVE Total(start, Append(s, n)) = Total(start, s) + n
  <2>1. Total(start, Append(s, n)) = SumStep[<<Total(start, s), n>>]
    BY <1>2, <1>3, <1>4
  <2> QED BY <1>5, <1>7, <2>1
<1> QED BY <1>6, <1>7, <1>8
=============================================================================
