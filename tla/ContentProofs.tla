----------------------------- MODULE ContentProofs -----------------------------
(***************************************************************************)
(* Theorems about what an answer and a request carry, however long.        *)
(*                                                                         *)
(* The text of an answer, however it is cut: what has arrived is what is   *)
(* shown and what is kept back, and the markdown kept is that after all    *)
(* that is shown, though it was computed piece by piece: advancing over    *)
(* two parts is advancing over the whole, unless they part a run of        *)
(* backticks.  So a marker in what is kept back is the marker of the whole *)
(* text, and what follows from the whole text follows for every way of     *)
(* cutting it.                                                             *)
(*                                                                         *)
(* The conversation a request carries: what is made of a longer one is     *)
(* what was made of the shorter one and what is made of the new message.   *)
(*                                                                         *)
(* The markdown after a text, the blocks of a message that have some type  *)
(* and the messages made of a conversation are recursions over a length,   *)
(* so there is an induction first.                                         *)
(***************************************************************************)
EXTENDS MCServices, FiniteSetTheorems, FunctionTheorems, SequenceTheorems,
        NaturalsInduction, WellFoundedInduction, TLAPS

-----------------------------------------------------------------------------
(* Recursion over the naturals up to a bound.                              *)

LEMMA Induction ==
  ASSUME NEW X, 0 \in X, \A n \in Nat : n \in X => n + 1 \in X
  PROVE  Nat \subseteq X
<1> DEFINE missing == Nat \ X
<1> SUFFICES ASSUME missing # {} PROVE FALSE
  OBVIOUS
<1>1. PICK least \in missing :
        \A m \in missing : ~(<<m, least>> \in OpToRel(<, Nat))
  BY NatLessThanWellFounded, WFMin, missing \subseteq Nat
<1>2. \A m \in missing : ~(m < least)
  BY <1>1 DEF OpToRel
<1>3. least \in Nat /\ least # 0 /\ least - 1 \in Nat /\ least - 1 < least
  OBVIOUS
<1>4. least - 1 \in X
  BY <1>2, <1>3
<1>5. (least - 1) + 1 = least
  BY <1>3
<1> QED
  BY <1>3, <1>4, <1>5

\* f is built from a by the functions G[1], G[2], ...
Solves(f, m, a, G) ==
  \A n \in 0 .. m : f[n] = IF n = 0 THEN a ELSE G[n][f[n - 1]]

LEMMA RecursionStep ==
  ASSUME NEW X, NEW a \in X, NEW m \in Nat, NEW G, G[m + 1] \in [X -> X],
         NEW f \in [0 .. m -> X], Solves(f, m, a, G)
  PROVE  \E g \in [0 .. m + 1 -> X] : Solves(g, m + 1, a, G)
<1> DEFINE h == G[m + 1]
           final == h[f[m]]
           g == [n \in 0 .. m + 1 |-> IF n = m + 1 THEN final ELSE f[n]]
<1>1. m \in 0 .. m /\ f[m] \in X
  OBVIOUS
<1>2. final \in X
  BY <1>1
<1> HIDE DEF final
<1>3. g \in [0 .. m + 1 -> X]
  BY <1>2
<1>4. g[m + 1] = final
  OBVIOUS
<1>5. \A n \in 0 .. m : g[n] = f[n]
  OBVIOUS
<1> HIDE DEF g
<1>6. ASSUME NEW n \in 0 .. m + 1
      PROVE  g[n] = IF n = 0 THEN a ELSE G[n][g[n - 1]]
  <2>1. CASE n = m + 1
    <3>1. n # 0 /\ n - 1 = m /\ m \in 0 .. m
      BY <2>1
    <3>2. g[n - 1] = f[m]
      BY <1>5, <3>1
    <3> QED
      BY <1>4, <2>1, <3>1, <3>2 DEF final
  <2>2. CASE n \in 1 .. m
    <3>1. n \in 0 .. m /\ n - 1 \in 0 .. m /\ n # 0
      BY <2>2
    <3>2. g[n] = f[n] /\ g[n - 1] = f[n - 1]
      BY <1>5, <3>1
    <3>3. f[n] = G[n][f[n - 1]]
      BY <3>1 DEF Solves
    <3> QED
      BY <3>1, <3>2, <3>3
  <2>3. CASE n = 0
    <3>1. 0 \in 0 .. m
      OBVIOUS
    <3>2. g[0] = f[0] /\ f[0] = a
      BY <1>5, <3>1 DEF Solves
    <3> QED
      BY <2>3, <3>2
  <2>4. n = m + 1 \/ n = 0 \/ n \in 1 .. m
    OBVIOUS
  <2> QED
    BY <2>1, <2>2, <2>3, <2>4
<1> QED
  BY <1>3, <1>6 DEF Solves

LEMMA Recursion ==
  ASSUME NEW N \in Nat, NEW X, NEW a \in X, NEW G,
         \A n \in 1 .. N : G[n] \in [X -> X]
  PROVE  \E f \in [0 .. N -> X] : Solves(f, N, a, G)
<1> DEFINE good == {m \in Nat : m <= N => \E f \in [0 .. m -> X] : Solves(f, m, a, G)}
<1>1. 0 \in good
  <2> DEFINE first == [n \in 0 .. 0 |-> a]
  <2>1. first \in [0 .. 0 -> X]
    OBVIOUS
  <2>2. Solves(first, 0, a, G)
    BY DEF Solves
  <2> HIDE DEF first
  <2> QED
    BY <2>1, <2>2
<1>2. ASSUME NEW m \in Nat, m \in good PROVE m + 1 \in good
  <2> SUFFICES ASSUME m + 1 <= N
               PROVE  \E g \in [0 .. m + 1 -> X] : Solves(g, m + 1, a, G)
    OBVIOUS
  <2>1. m <= N /\ m + 1 \in 1 .. N
    OBVIOUS
  <2>2. PICK f \in [0 .. m -> X] : Solves(f, m, a, G)
    BY <1>2, <2>1
  <2> QED
    BY <2>1, <2>2, RecursionStep
<1>3. N \in good
  <2> HIDE DEF good
  <2> QED
    BY <1>1, <1>2, Induction
<1> QED
  BY <1>3

-----------------------------------------------------------------------------
(* What begins and what ends a sequence.                                   *)

LEMMA BeforeIs ==
  ASSUME NEW X, NEW s \in Seq(X), NEW i \in 1 .. Len(s) + 1
  PROVE  /\ T!Before(s, i) \in Seq(X)
         /\ Len(T!Before(s, i)) = i - 1
         /\ \A j \in 1 .. i - 1 : T!Before(s, i)[j] = s[j]
<1>1. Len(s) \in Nat /\ \A j \in 1 .. i - 1 : s[j] \in X
  BY LenProperties, ElementOfSeq
<1>2. i - 1 \in Int /\ 1 \in Int
  BY <1>1
<1> QED
  BY <1>1, <1>2, SubSeqProperties DEF T!Before

LEMMA FromIs ==
  ASSUME NEW X, NEW s \in Seq(X), NEW i \in 1 .. Len(s) + 1
  PROVE  /\ T!From(s, i) \in Seq(X)
         /\ Len(T!From(s, i)) = Len(s) - i + 1
         /\ \A j \in 1 .. Len(s) - i + 1 : T!From(s, i)[j] = s[i + j - 1]
<1>1. Len(s) \in Nat /\ \A j \in i .. Len(s) : s[j] \in X
  BY LenProperties, ElementOfSeq
<1>2. i \in Int /\ Len(s) \in Int
  BY <1>1
<1>3. /\ SubSeq(s, i, Len(s)) \in Seq(X)
      /\ Len(SubSeq(s, i, Len(s))) = IF i <= Len(s) THEN Len(s) - i + 1 ELSE 0
      /\ \A j \in 1 .. Len(s) - i + 1 : SubSeq(s, i, Len(s))[j] = s[i + j - 1]
  BY <1>1, <1>2, SubSeqProperties
<1> QED
  BY <1>1, <1>3 DEF T!From

LEMMA Parted ==
  ASSUME NEW X, NEW s \in Seq(X), NEW i \in 1 .. Len(s) + 1
  PROVE  T!Before(s, i) \o T!From(s, i) = s
<1> DEFINE x == T!Before(s, i)
           y == T!From(s, i)
<1>1. Len(s) \in Nat
  BY LenProperties
<1>2. x \in Seq(X) /\ Len(x) = i - 1 /\ \A j \in 1 .. i - 1 : x[j] = s[j]
  BY BeforeIs
<1>3. /\ y \in Seq(X) /\ Len(y) = Len(s) - i + 1
      /\ \A j \in 1 .. Len(s) - i + 1 : y[j] = s[i + j - 1]
  BY FromIs
<1> HIDE DEF x, y
<1> DEFINE u == x \o y
<1>4. /\ u \in Seq(X) /\ Len(u) = Len(x) + Len(y)
      /\ \A j \in 1 .. Len(x) + Len(y) :
           u[j] = IF j <= Len(x) THEN x[j] ELSE y[j - Len(x)]
  BY <1>2, <1>3, ConcatProperties
<1> HIDE DEF u
<1>5. \A j \in 1 .. Len(s) : u[j] = s[j]
  <2> SUFFICES ASSUME NEW j \in 1 .. Len(s) PROVE u[j] = s[j]
    OBVIOUS
  <2>0. u[j] = IF j <= i - 1 THEN x[j] ELSE y[j - (i - 1)]
    <3>1. j \in 1 .. Len(x) + Len(y)
      BY <1>1, <1>2, <1>3
    <3> QED
      BY <1>2, <1>4, <3>1
  <2>1. CASE j <= i - 1
    BY <1>1, <1>2, <2>0, <2>1
  <2>2. CASE j > i - 1
    <3> DEFINE k == j - (i - 1)
    <3>1. k \in 1 .. Len(s) - i + 1 /\ i + k - 1 = j
      BY <1>1, <2>2
    <3>2. u[j] = y[k]
      BY <1>1, <2>0, <2>2
    <3> HIDE DEF k
    <3> QED
      BY <1>3, <3>1, <3>2
  <2> QED
    BY <1>1, <2>1, <2>2
<1>6. u = s
  BY <1>1, <1>2, <1>3, <1>4, <1>5, SeqEqual
<1> QED
  BY <1>6 DEF u, x, y

LEMMA BeforeOfConcat ==
  ASSUME NEW X, NEW x \in Seq(X), NEW y \in Seq(X), NEW j \in 1 .. Len(y) + 1
  PROVE  T!Before(x \o y, Len(x) + j) = x \o T!Before(y, j)
<1> DEFINE s == x \o y
           a == T!Before(s, Len(x) + j)
           b == T!Before(y, j)
<1>1. Len(x) \in Nat /\ Len(y) \in Nat
  BY LenProperties
<1>2. /\ s \in Seq(X) /\ Len(s) = Len(x) + Len(y)
      /\ \A k \in 1 .. Len(x) + Len(y) : s[k] = IF k <= Len(x) THEN x[k] ELSE y[k - Len(x)]
  BY ConcatProperties
<1> HIDE DEF s
<1> DEFINE i == Len(x) + j
<1>3. i \in 1 .. Len(s) + 1 /\ i - 1 = Len(x) + (j - 1)
  BY <1>1, <1>2
<1> HIDE DEF i
<1>4. a \in Seq(X) /\ Len(a) = i - 1 /\ \A k \in 1 .. i - 1 : a[k] = s[k]
  BY <1>2, <1>3, BeforeIs DEF i
<1>5. b \in Seq(X) /\ Len(b) = j - 1 /\ \A k \in 1 .. j - 1 : b[k] = y[k]
  BY BeforeIs
<1> HIDE DEF a, b
<1> DEFINE u == x \o b
<1>6. /\ u \in Seq(X) /\ Len(u) = Len(x) + Len(b)
      /\ \A k \in 1 .. Len(x) + Len(b) :
           u[k] = IF k <= Len(x) THEN x[k] ELSE b[k - Len(x)]
  BY <1>5, ConcatProperties
<1> HIDE DEF u
<1>7. \A k \in 1 .. Len(a) : a[k] = u[k]
  <2> SUFFICES ASSUME NEW k \in 1 .. Len(a) PROVE a[k] = u[k]
    OBVIOUS
  <2>1. a[k] = s[k] /\ k \in 1 .. Len(x) + Len(y)
    BY <1>1, <1>3, <1>4
  <2>2. CASE k <= Len(x)
    BY <1>1, <1>2, <1>3, <1>4, <1>5, <1>6, <2>1, <2>2
  <2>3. CASE k > Len(x)
    <3>1. k - Len(x) \in 1 .. j - 1
      BY <1>1, <1>3, <1>4, <2>3
    <3>2. u[k] = b[k - Len(x)] /\ s[k] = y[k - Len(x)]
      BY <1>1, <1>2, <1>3, <1>4, <1>5, <1>6, <2>1, <2>3
    <3> QED
      BY <1>5, <2>1, <3>1, <3>2
  <2> QED
    BY <1>1, <2>1, <2>2, <2>3
<1>8. a = u
  BY <1>1, <1>3, <1>4, <1>5, <1>6, <1>7, SeqEqual
<1> QED
  BY <1>8 DEF u, a, b, s, i

LEMMA FromOfConcat ==
  ASSUME NEW X, NEW x \in Seq(X), NEW y \in Seq(X), NEW j \in 1 .. Len(y) + 1
  PROVE  T!From(x \o y, Len(x) + j) = T!From(y, j)
<1> DEFINE s == x \o y
           a == T!From(s, Len(x) + j)
           b == T!From(y, j)
<1>1. Len(x) \in Nat /\ Len(y) \in Nat
  BY LenProperties
<1>2. /\ s \in Seq(X) /\ Len(s) = Len(x) + Len(y)
      /\ \A k \in 1 .. Len(x) + Len(y) : s[k] = IF k <= Len(x) THEN x[k] ELSE y[k - Len(x)]
  BY ConcatProperties
<1> HIDE DEF s
<1>3. Len(x) + j \in 1 .. Len(s) + 1
  BY <1>1, <1>2
<1>4. /\ a \in Seq(X) /\ Len(a) = Len(s) - (Len(x) + j) + 1
      /\ \A k \in 1 .. Len(s) - (Len(x) + j) + 1 : a[k] = s[(Len(x) + j) + k - 1]
  BY <1>2, <1>3, FromIs
<1>5. /\ b \in Seq(X) /\ Len(b) = Len(y) - j + 1
      /\ \A k \in 1 .. Len(y) - j + 1 : b[k] = y[j + k - 1]
  BY FromIs
<1> HIDE DEF a, b
<1>6. Len(a) = Len(b)
  BY <1>1, <1>2, <1>4, <1>5
<1>7. \A k \in 1 .. Len(a) : a[k] = b[k]
  <2> SUFFICES ASSUME NEW k \in 1 .. Len(a) PROVE a[k] = b[k]
    OBVIOUS
  <2>1. a[k] = s[Len(x) + (j + k - 1)] /\ b[k] = y[j + k - 1]
    BY <1>1, <1>2, <1>4, <1>5
  <2>2. j + k - 1 \in 1 .. Len(y)
    BY <1>1, <1>2, <1>4
  <2>3. s[Len(x) + (j + k - 1)] = y[j + k - 1]
    BY <1>1, <1>2, <2>2
  <2> QED
    BY <2>1, <2>3
<1>8. a = b
  BY <1>4, <1>5, <1>6, <1>7, SeqEqual
<1> QED
  BY <1>8 DEF a, b, s

LEMMA FromFrom ==
  ASSUME NEW X, NEW s \in Seq(X), NEW i \in 1 .. Len(s) + 1,
         NEW j \in 1 .. Len(s) - i + 2
  PROVE  T!From(T!From(s, i), j) = T!From(s, i + j - 1)
<1> DEFINE x == T!Before(s, i)
           y == T!From(s, i)
<1>1. x \in Seq(X) /\ Len(x) = i - 1
  BY BeforeIs
<1>2. y \in Seq(X) /\ Len(y) = Len(s) - i + 1
  BY FromIs
<1>3. x \o y = s
  BY Parted
<1> HIDE DEF x, y
<1>4. Len(s) \in Nat
  BY LenProperties
<1>5. j \in 1 .. Len(y) + 1 /\ Len(x) + j = i + j - 1
  BY <1>1, <1>2, <1>4
<1>6. T!From(x \o y, Len(x) + j) = T!From(y, j)
  BY <1>1, <1>2, <1>5, FromOfConcat
<1> QED
  BY <1>3, <1>5, <1>6 DEF y

LEMMA WholeAndNothing ==
  ASSUME NEW X, NEW s \in Seq(X)
  PROVE  /\ T!Before(s, 1) = <<>> /\ T!From(s, 1) = s
         /\ T!Before(s, Len(s) + 1) = s /\ T!From(s, Len(s) + 1) = <<>>
         /\ <<>> \in Seq(X)
         /\ s \o <<>> = s /\ <<>> \o s = s
         /\ (Len(s) = 0 <=> s = <<>>)
<1>1. Len(s) \in Nat /\ (Len(s) + 1) - 1 = Len(s)
  BY LenProperties
<1>2. T!Before(s, 1) = <<>> /\ T!From(s, Len(s) + 1) = <<>>
  <2>1. 1 \in Int /\ 0 \in Int /\ 1 - 1 = 0 /\ Len(s) \in Int /\ Len(s) + 1 \in Int
    BY <1>1
  <2>2. SubSeq(s, 1, 0) = <<>>
    BY <2>1, SubSeqEmpty
  <2>3. SubSeq(s, Len(s) + 1, Len(s)) = <<>>
    BY <1>1, <2>1, SubSeqEmpty
  <2> QED
    BY <2>1, <2>2, <2>3 DEF T!Before, T!From
<1>3. SubSeq(s, 1, Len(s)) = s
  BY SubSeqFull
<1>4. T!From(s, 1) = s /\ T!Before(s, Len(s) + 1) = s
  BY <1>1, <1>3 DEF T!From, T!Before
<1> QED
  BY <1>2, <1>4, ConcatEmptySeq, EmptySeq
-----------------------------------------------------------------------------
(* The state of the markdown after a text that is told in two parts.       *)

MarkdownState == [fence : Nat, inline : Nat, quoted : BOOLEAN, margin : BOOLEAN]
Walking == [run : Nat, state : MarkdownState]
TickTokens == DOMAIN T!Ticks

\* after[n] is what the first n tokens of s make of m.
Advancing(after, m, s) ==
  /\ after[0] = [run |-> 0, state |-> m]
  /\ \A n \in 1 .. Len(s) : after[n] = T!Passed(after[n - 1], s[n])
  /\ T!Advance(m, s) = T!Run(after[Len(s)].state, after[Len(s)].run)

LEMMA PlainTyped == T!Plain \in MarkdownState
BY DEF T!Plain, MarkdownState

LEMMA RunTyped ==
  ASSUME NEW m \in MarkdownState, NEW n \in Nat
  PROVE  T!Run(m, n) \in MarkdownState
BY DEF T!Run, MarkdownState

LEMMA LineTyped ==
  ASSUME NEW m \in MarkdownState, NEW t
  PROVE  T!Line(m, t) \in MarkdownState
<1> DEFINE yes == TRUE
           no == FALSE
           quoted == m.quoted \/ (m.margin /\ t = ">")
<1>1. yes \in BOOLEAN /\ no \in BOOLEAN /\ quoted \in BOOLEAN
  OBVIOUS
<1>2. T!Line(m, t) = IF t = "\n" THEN [m EXCEPT !.margin = yes, !.quoted = no]
                     ELSE [m EXCEPT !.margin = no, !.quoted = quoted]
  BY DEF T!Line, MarkdownState
<1> HIDE DEF yes, no, quoted
<1> QED
  BY <1>1, <1>2 DEF MarkdownState

LEMMA PassedTyped ==
  ASSUME NEW a \in Walking, NEW t
  PROVE  T!Passed(a, t) \in Walking
<1>1. a.run \in Nat /\ a.state \in MarkdownState
  BY DEF Walking
<1>2. T!Run(a.state, a.run) \in MarkdownState
  BY <1>1, RunTyped
<1>3. T!Line(a.state, t) \in MarkdownState
  BY <1>1, LineTyped
<1>4. T!Line(T!Run(a.state, a.run), t) \in MarkdownState
  BY <1>2, LineTyped
<1>5. CASE t \in DOMAIN T!Ticks
  <2>1. T!Ticks[t] \in Nat
    BY <1>5 DEF T!Ticks
  <2>2. a.run + T!Ticks[t] \in Nat
    BY <1>1, <2>1
  <2> QED
    BY <1>3, <1>5, <2>2 DEF T!Passed, Walking
<1>6. CASE t \notin DOMAIN T!Ticks
  BY <1>4, <1>6 DEF T!Passed, Walking
<1> QED
  BY <1>5, <1>6

LEMMA AdvancePasses ==
  ASSUME NEW m \in MarkdownState, NEW s \in Seq(T!Token)
  PROVE  \E after \in [0 .. Len(s) -> Walking] : Advancing(after, m, s)
<1> DEFINE N == Len(s)
           start == [run |-> 0, state |-> m]
           G == [n \in 1 .. N |-> [a \in Walking |-> T!Passed(a, s[n])]]
           Rule(f) == [n \in 0 .. N |-> IF n = 0 THEN [run |-> 0, state |-> m]
                                        ELSE T!Passed(f[n - 1], s[n])]
           after == CHOOSE f : f = Rule(f)
<1>1. N \in Nat
  BY LenProperties
<1>2. \A n \in 1 .. N : G[n] \in [Walking -> Walking]
  BY PassedTyped
<1>3. start \in Walking
  BY DEF Walking
<1>4. PICK f \in [0 .. N -> Walking] : Solves(f, N, start, G)
  <2> HIDE DEF G, N, start
  <2> QED
    BY <1>1, <1>2, <1>3, Recursion
<1>5. \A n \in 0 .. N :
        f[n] = IF n = 0 THEN [run |-> 0, state |-> m] ELSE T!Passed(f[n - 1], s[n])
  <2> SUFFICES ASSUME NEW n \in 0 .. N
               PROVE  f[n] = IF n = 0 THEN start ELSE T!Passed(f[n - 1], s[n])
    OBVIOUS
  <2>1. f[n] = IF n = 0 THEN start ELSE G[n][f[n - 1]]
    BY <1>4 DEF Solves
  <2>2. ASSUME n # 0
        PROVE  G[n][f[n - 1]] = T!Passed(f[n - 1], s[n])
    <3>1. n \in 1 .. N /\ n - 1 \in 0 .. N
      BY <1>1, <2>2
    <3>2. f[n - 1] \in Walking
      BY <3>1
    <3> QED
      BY <3>1, <3>2, Zenon
  <2> QED
    BY <2>1, <2>2
<1> HIDE DEF G
<1>6. f = Rule(f)
  BY <1>5
<1>7. after = Rule(after)
  <2> HIDE DEF Rule
  <2> QED
    BY <1>6
<1>8. T!Advance(m, s) = T!Run(after[N].state, after[N].run)
  BY DEF T!Advance
<1> HIDE DEF after
<1>9. \A n \in 0 .. N :
        after[n] = IF n = 0 THEN start ELSE T!Passed(after[n - 1], s[n])
  BY <1>7
<1>10. after[0] = start
  BY <1>1, <1>9
<1>11. \A n \in 1 .. N : after[n] = T!Passed(after[n - 1], s[n])
  BY <1>1, <1>9
<1>12. \A n \in 0 .. N : after[n] \in Walking
  <2> DEFINE good == {n \in Nat : n <= N => after[n] \in Walking}
  <2>1. 0 \in good
    BY <1>3, <1>10
  <2>2. ASSUME NEW n \in Nat, n \in good PROVE n + 1 \in good
    <3> SUFFICES ASSUME n + 1 <= N PROVE after[n + 1] \in Walking
      OBVIOUS
    <3>1. n <= N /\ n + 1 \in 1 .. N /\ (n + 1) - 1 = n
      BY <1>1
    <3>2. after[n] \in Walking
      BY <2>2, <3>1
    <3>3. T!Passed(after[n], s[n + 1]) \in Walking
      BY <3>2, PassedTyped
    <3> QED
      BY <1>11, <3>1, <3>3
  <2>3. Nat \subseteq good
    <3> HIDE DEF good
    <3> QED
      BY <2>1, <2>2, Induction
  <2> QED
    BY <1>1, <2>3
<1>13. after \in [0 .. N -> Walking]
  <2>1. after = [n \in 0 .. N |-> after[n]]
    BY <1>7
  <2> QED
    BY <1>12, <2>1
<1> QED
  BY <1>8, <1>10, <1>11, <1>13 DEF Advancing
\* s ends and t begins within a run of backticks.
Meets(s, t) == s # <<>> /\ t # <<>> /\ T!Last(s) \in TickTokens /\ Head(t) \in TickTokens

LEMMA AdvanceTyped ==
  ASSUME NEW m \in MarkdownState, NEW s \in Seq(T!Token)
  PROVE  T!Advance(m, s) \in MarkdownState
<1>1. PICK after \in [0 .. Len(s) -> Walking] : Advancing(after, m, s)
  BY AdvancePasses
<1>2. Len(s) \in Nat /\ after[Len(s)] \in Walking
  BY LenProperties
<1> QED
  BY <1>1, <1>2, RunTyped DEF Advancing, Walking

LEMMA AdvanceOfNothing ==
  ASSUME NEW m \in MarkdownState
  PROVE  T!Advance(m, <<>>) = m
<1>1. <<>> \in Seq(T!Token) /\ Len(<<>>) = 0
  BY EmptySeq
<1>2. PICK after \in [0 .. Len(<<>>) -> Walking] : Advancing(after, m, <<>>)
  BY <1>1, AdvancePasses
<1>3. T!Advance(m, <<>>) = T!Run(m, 0)
  BY <1>1, <1>2 DEF Advancing
<1> QED
  BY <1>3 DEF T!Run

\* Advancing over s and then t is advancing over u.
InParts(m, s, t, u) == T!Advance(T!Advance(m, s), t) = T!Advance(m, u)

\* So it is unless they part a run of backticks.
LEMMA AdvanceOfParts ==
  ASSUME NEW m \in MarkdownState, NEW s \in Seq(T!Token), NEW t \in Seq(T!Token),
         NEW u, u = s \o t, ~Meets(s, t)
  PROVE  InParts(m, s, t, u)
<1> DEFINE p == Len(s)
           q == Len(t)
           between == T!Advance(m, s)
<1>1. p \in Nat /\ q \in Nat
  BY LenProperties
<1>2. /\ u \in Seq(T!Token) /\ Len(u) = p + q
      /\ \A n \in 1 .. p + q : u[n] = IF n <= p THEN s[n] ELSE t[n - p]
  BY ConcatProperties
<1>3. between \in MarkdownState
  BY AdvanceTyped
<1>4. PICK f \in [0 .. p -> Walking] : Advancing(f, m, s)
  BY AdvancePasses
<1>5. PICK g \in [0 .. p + q -> Walking] : Advancing(g, m, u)
  BY <1>2, AdvancePasses
<1> HIDE DEF between
<1>6. PICK h \in [0 .. q -> Walking] : Advancing(h, between, t)
  BY <1>3, AdvancePasses
<1>7. \A n \in 0 .. p : g[n] = f[n]
  <2> DEFINE good == {n \in Nat : n <= p => g[n] = f[n]}
  <2>1. 0 \in good
    BY <1>4, <1>5 DEF Advancing
  <2>2. ASSUME NEW n \in Nat, n \in good PROVE n + 1 \in good
    <3> SUFFICES ASSUME n + 1 <= p PROVE g[n + 1] = f[n + 1]
      OBVIOUS
    <3>1. n <= p /\ n + 1 \in 1 .. p /\ n + 1 \in 1 .. p + q /\ (n + 1) - 1 = n
      BY <1>1
    <3>2. g[n] = f[n] /\ u[n + 1] = s[n + 1]
      BY <1>2, <2>2, <3>1
    <3>3. f[n + 1] = T!Passed(f[n], s[n + 1])
      BY <1>4, <3>1 DEF Advancing
    <3>4. g[n + 1] = T!Passed(g[n], u[n + 1])
      BY <1>2, <1>5, <3>1 DEF Advancing
    <3> QED
      BY <3>2, <3>3, <3>4
  <2>3. Nat \subseteq good
    <3> HIDE DEF good
    <3> QED
      BY <2>1, <2>2, Induction
  <2> QED
    BY <1>1, <2>3
<1>8. between = T!Run(f[p].state, f[p].run) /\ g[p] = f[p] /\ f[p] \in Walking
  BY <1>1, <1>4, <1>7 DEF Advancing, between
<1>9. h[0] = [run |-> 0, state |-> between]
  BY <1>6 DEF Advancing
<1>10. T!Run(between, 0) = between
  BY DEF T!Run
<1>11. T!Advance(m, u) = T!Run(g[p + q].state, g[p + q].run)
  BY <1>2, <1>5 DEF Advancing
<1>12. T!Advance(between, t) = T!Run(h[q].state, h[q].run)
  BY <1>6 DEF Advancing
<1>13. CASE q = 0
  <2>1. T!Advance(between, t) = between
    BY <1>9, <1>10, <1>12, <1>13
  <2>2. T!Advance(m, u) = between
    BY <1>1, <1>8, <1>11, <1>13
  <2> QED
    BY <2>1, <2>2 DEF between, InParts
<1>14. CASE q # 0
  <2>1. 1 \in 1 .. q /\ p + 1 \in 1 .. p + q /\ 1 - 1 = 0 /\ (p + 1) - 1 = p
    BY <1>1, <1>14
  <2>2. u[p + 1] = t[1]
    BY <1>1, <1>2, <2>1
  <2>3. g[p + 1] = T!Passed(f[p], t[1])
    BY <1>2, <1>5, <1>8, <2>1, <2>2 DEF Advancing
  <2>4. h[1] = T!Passed([run |-> 0, state |-> between], t[1])
    BY <1>6, <1>9, <2>1 DEF Advancing
  <2>5. g[p + 1] = h[1]
    <3>1. CASE t[1] \notin TickTokens
      BY <1>8, <1>10, <2>3, <2>4, <3>1 DEF T!Passed, TickTokens
    <3>2. CASE t[1] \in TickTokens
      <4>1. t # <<>> /\ Head(t) = t[1]
        BY <1>14, EmptySeq
      <4>2. f[p].run = 0
        <5>1. CASE p = 0
          BY <1>4, <5>1 DEF Advancing
        <5>2. CASE p # 0
          <6>1. s # <<>> /\ T!Last(s) = s[p]
            BY <5>2, EmptySeq DEF T!Last
          <6>2. s[p] \notin TickTokens
            BY <3>2, <4>1, <6>1 DEF Meets
          <6>3. p \in 1 .. p
            BY <1>1, <5>2
          <6>4. f[p] = T!Passed(f[p - 1], s[p])
            BY <1>4, <6>3 DEF Advancing
          <6> QED
            BY <6>2, <6>4 DEF T!Passed, TickTokens
        <5> QED
          BY <5>1, <5>2
      <4>3. between = f[p].state
        BY <1>8, <4>2 DEF T!Run
      <4> QED
        BY <2>3, <2>4, <3>2, <4>2, <4>3 DEF T!Passed, TickTokens
    <3> QED
      BY <3>1, <3>2
  <2> DEFINE good == {n \in Nat : n + 1 <= q => g[p + (n + 1)] = h[n + 1]}
  <2>6. 0 \in good
    BY <2>5
  <2>7. ASSUME NEW n \in Nat, n \in good PROVE n + 1 \in good
    <3> SUFFICES ASSUME (n + 1) + 1 <= q
                 PROVE  g[p + ((n + 1) + 1)] = h[(n + 1) + 1]
      OBVIOUS
    <3> DEFINE k == (n + 1) + 1
               j == p + k
    <3>1. /\ k \in 1 .. q /\ k - 1 = n + 1
          /\ j \in 1 .. p + q /\ j - 1 = p + (n + 1) /\ ~(j <= p) /\ j - p = k
      BY <1>1
    <3>2. g[p + (n + 1)] = h[n + 1]
      BY <1>1, <2>7
    <3> HIDE DEF k, j
    <3>3. h[k] = T!Passed(h[n + 1], t[k])
      BY <1>6, <3>1 DEF Advancing
    <3>4. g[j] = T!Passed(g[p + (n + 1)], u[j])
      BY <1>2, <1>5, <3>1 DEF Advancing
    <3>5. u[j] = t[k]
      BY <1>2, <3>1
    <3> QED
      BY <3>2, <3>3, <3>4, <3>5 DEF k, j
  <2>8. Nat \subseteq good
    <3> HIDE DEF good
    <3> QED
      BY <2>6, <2>7, Induction
  <2>9. q - 1 \in Nat /\ (q - 1) + 1 = q
    BY <1>1, <1>14
  <2>10. g[p + q] = h[q]
    <3>1. q - 1 \in good
      BY <2>8, <2>9
    <3> QED
      BY <2>9, <3>1
  <2> QED
    BY <1>11, <1>12, <2>10 DEF between, InParts
<1> QED
  BY <1>13, <1>14 DEF InParts
-----------------------------------------------------------------------------
(* The invariant.                                                          *)

\* A text has one head at most, and a call follows its head.
OneHead(s) == \A j, k \in 1 .. Len(s) : s[j] = "head" /\ s[k] = "head" => j = k
Led(s) == \A k \in 1 .. Len(s) : s[k] = "call" => k > 1 /\ s[k - 1] = "head"

HasClosed == \E i \in 1 .. Len(text) : T!Closed(text, i)
Prose == T!Before(text, T!Where)

\* What the parser's state may be, whatever the text.
TextShape ==
  /\ text \in Seq(T!Token) /\ arriving \in Seq(T!Token)
  /\ buffer \in Seq(T!Token) /\ shown \in Seq(T!Token)
  /\ markdown \in MarkdownState
  /\ chunks \in 0 .. 2 /\ step \in {"receive", "parse", "leftover", "done"}
  /\ refused \in {"none", "rejected", "retry"}
  /\ OneHead(text \o arriving) /\ Led(text \o arriving)
  /\ step # "receive" => arriving = <<>>
  /\ step = "receive" => ~flushing
  /\ step = "leftover" => flushing
  /\ refused # "none" => step = "done"
  /\ chunks = 0 => text = <<>> /\ ~activated
  /\ chunks # 2 => ~torn
  /\ shown = <<>> => markdown = T!Plain
  /\ activated => offered /\ ~literal
  /\ called => offered /\ flushing
  /\ offered => tools

\* What arrived is what is shown and what is kept back.
InStep ==
  /\ text = shown \o buffer
  /\ ~torn => markdown = T!Advance(T!Plain, shown) /\ ~Meets(shown, buffer)

\* An announcement is dropped, its marker kept back.
Dropped ==
  /\ shown = <<>> /\ T!Where > 1 /\ buffer = T!From(text, T!Where)
  /\ T!Announces(Prose) /\ activated

\* In u, a claim from j on goes up to the marker at i; u without it.
ClaimIn(u, j, i) ==
  /\ i \in 1 .. Len(u) /\ u[i] = "head" /\ T!Called(u, i)
  /\ j \in 1 .. i - 1 /\ T!Claims(SubSeq(u, j, i - 1))
Without(u, j, i) == T!Before(u, j) \o T!From(u, i)

\* A claim was suppressed, its marker is kept back.
SuppressedFrom(j, i) ==
  /\ ClaimIn(text, j, i)
  /\ shown = T!Before(text, j) /\ buffer = T!From(text, i)
  /\ ~torn \/ shown = <<>> => T!Where = i
Suppressed == \E i, j \in Nat : SuppressedFrom(j, i)

\* A claim was suppressed, its marker is shown.
Passing ==
  /\ \A k \in 1 .. Len(buffer) : buffer[k] # "head"
  /\ \E i, j \in Nat : ClaimIn(text, j, i) /\ shown \o buffer = Without(text, j, i)

OpenInv == ~called /\ step # "done" => InStep \/ Dropped \/ Suppressed \/ Passing

\* Once the call has run, what is shown is what is spared of the prose before it,
\* and what follows the call when it is shown.
CallInContext ==
  /\ T!Where # 0
  /\ \E s \in T!Spared :
       \/ step \in {"parse", "leftover"} /\ shown = s /\ buffer = T!After
       \/ step \in {"leftover", "done"} /\ buffer = <<>> /\ shown \in {s, s \o T!After}

CalledInv ==
  called => /\ literal => step = "done" /\ ~HasClosed
            /\ ~torn => CallInContext

\* When the stream has ended, a marker that the user asked for is not complete, and
\* text in which no call ran is shown, but for a claim.
EndInv ==
  /\ step = "leftover" /\ ~called /\ literal /\ T!Marker(buffer, markdown) # 0 => ~HasClosed
  /\ step = "done" /\ ~called /\ refused = "none" =>
       \/ shown = text
       \/ \E i, j \in Nat : ClaimIn(text, j, i) /\ shown = Without(text, j, i)

\* With tools in the request, no claim is shown unless no call can run any more.
ClaimInv ==
  tools /\ T!Claims(shown) =>
    ~called /\ (step = "done" \/ (step = "leftover" /\ buffer = <<>>))

\* A text that begins with a marker is kept back from its first token on.
LeadingCall == text # <<>> /\ text[1] = "head" /\ (Len(text) = 1 \/ text[2] = "call")
WholeCall ==
  Len(text) >= 3 /\ text[1] = "head" /\ T!Closed(text, 1) /\ T!Blank(T!From(text, 4))

LeadInv ==
  /\ LeadingCall /\ ~called /\ step \in {"receive", "parse"} => shown = <<>> /\ buffer = text
  /\ WholeCall /\ ~literal /\ step \in {"leftover", "done"} =>
       called \/ (step = "done" /\ refused = "rejected" /\ ~offered)

\* The texts whose call fares as in an answer that is not streamed.
OnePiece ==
  /\ chunks = 1 /\ T!Where > 0 /\ T!Closed(text, T!Where) /\ T!Blank(T!After)
  /\ Head(text) # "\n" /\ ~T!Claims(Prose)

\* Such a text is yet to be judged, was announced, has its prose shown, or is shown.
OnePieceStage ==
  \/ /\ step \in {"receive", "parse"} /\ shown = <<>> /\ buffer = text /\ ~activated
  \/ /\ step \in {"receive", "parse"} /\ shown = <<>> /\ buffer = T!From(text, T!Where)
     /\ activated /\ T!SyncOutcome = "called"
  \/ /\ step \in {"receive", "parse"} /\ T!Where > 1 /\ shown = Prose
     /\ buffer = T!From(text, T!Where) /\ ~activated /\ T!SyncOutcome = "shown"
     /\ T!Executable(markdown)
  \/ /\ step \in {"leftover", "done"} /\ buffer = <<>> /\ T!SyncOutcome = "shown"

OnePieceInv ==
  OnePiece =>
    /\ called => T!SyncOutcome = "called"
    /\ refused # "none" => refused = T!SyncOutcome
    /\ ~called /\ refused = "none" => OnePieceStage

TextInv == TextShape /\ OpenInv /\ CalledInv /\ EndInv /\ LeadInv /\ OnePieceInv

-----------------------------------------------------------------------------
(* Markers.                                                                *)

\* A marker begins at i.
MarkerAt(s, m, i) ==
  /\ i \in 1 .. Len(s) /\ s[i] = "head" /\ T!Called(s, i)
  /\ T!Executable(T!Advance(m, T!Before(s, i)))

LEMMA MarkerIs ==
  ASSUME NEW s, NEW m, T!Marker(s, m) # 0
  PROVE  MarkerAt(s, m, T!Marker(s, m))
BY DEF T!Marker, MarkerAt

LEMMA MarkerThere ==
  ASSUME NEW s, OneHead(s), NEW m, NEW i, MarkerAt(s, m, i), Len(s) \in Nat
  PROVE  T!Marker(s, m) = i /\ i # 0
<1> DEFINE at == {k \in 1 .. Len(s) : s[k] = "head" /\ T!Called(s, k)
                                   /\ T!Executable(T!Advance(m, T!Before(s, k)))}
<1>1. at = {i}
  BY DEF OneHead, MarkerAt
<1>2. T!Marker(s, m) = IF at = {} THEN 0 ELSE CHOOSE k \in at : TRUE
  BY DEF T!Marker
<1> HIDE DEF at
<1>3. (CHOOSE k \in at : TRUE) = i
  BY <1>1
<1> QED
  BY <1>1, <1>2, <1>3 DEF MarkerAt

LEMMA OneHeadOfPart ==
  ASSUME NEW x \in Seq(T!Token), NEW y \in Seq(T!Token), NEW u, u = x \o y, OneHead(u)
  PROVE  OneHead(x) /\ OneHead(y)
<1>1. Len(x) \in Nat /\ Len(y) \in Nat
  BY LenProperties
<1>2. /\ Len(u) = Len(x) + Len(y)
      /\ \A n \in 1 .. Len(x) + Len(y) : u[n] = IF n <= Len(x) THEN x[n] ELSE y[n - Len(x)]
  BY ConcatProperties
<1>3. \A n \in 1 .. Len(x) : n \in 1 .. Len(u) /\ u[n] = x[n]
  BY <1>1, <1>2
<1>4. ASSUME NEW n \in 1 .. Len(y)
      PROVE  Len(x) + n \in 1 .. Len(u) /\ u[Len(x) + n] = y[n]
  <2>1. Len(x) + n \in 1 .. Len(x) + Len(y) /\ ~(Len(x) + n <= Len(x)) /\ (Len(x) + n) - Len(x) = n
    BY <1>1
  <2> QED
    BY <1>2, <2>1
<1>5. OneHead(x)
  BY <1>3 DEF OneHead
<1>6. ASSUME NEW j \in 1 .. Len(y), NEW k \in 1 .. Len(y), y[j] = "head", y[k] = "head"
      PROVE  j = k
  <2>1. Len(x) + j = Len(x) + k
    BY <1>4, <1>6 DEF OneHead
  <2> QED
    BY <1>1, <2>1
<1> QED
  BY <1>5, <1>6 DEF OneHead

MarkerPlus(u, m, n, i) == T!Marker(u, m) = n + i

\* Where the marker of the part that is kept back is in the whole text.
LEMMA MarkerMoves ==
  ASSUME NEW m \in MarkdownState, NEW x \in Seq(T!Token), NEW y \in Seq(T!Token),
         NEW u, u = x \o y, OneHead(u), ~Meets(x, y),
         NEW between, between = T!Advance(m, x), NEW i, MarkerAt(y, between, i)
  PROVE  MarkerPlus(u, m, Len(x), i)
<1> DEFINE p == Len(x)
<1>1. p \in Nat /\ Len(y) \in Nat /\ i \in 1 .. Len(y) /\ i + 0 = i
  BY LenProperties DEF MarkerAt
<1>2. /\ u \in Seq(T!Token) /\ Len(u) = p + Len(y)
      /\ \A n \in 1 .. p + Len(y) : u[n] = IF n <= p THEN x[n] ELSE y[n - p]
  BY ConcatProperties
<1>3. T!Before(u, p + i) = x \o T!Before(y, i)
  BY <1>1, BeforeOfConcat
<1>4. /\ T!Before(y, i) \in Seq(T!Token) /\ Len(T!Before(y, i)) = i - 1
      /\ \A j \in 1 .. i - 1 : T!Before(y, i)[j] = y[j]
  BY <1>1, BeforeIs
<1>5. ~Meets(x, T!Before(y, i))
  <2> SUFFICES ASSUME T!Before(y, i) # <<>>, Head(T!Before(y, i)) \in TickTokens,
                      x # <<>>, T!Last(x) \in TickTokens
               PROVE  FALSE
    BY DEF Meets
  <2>1. Len(T!Before(y, i)) # 0
    BY <1>4, EmptySeq
  <2>2. Head(T!Before(y, i)) = T!Before(y, i)[1]
    BY <1>4
  <2>3. 1 \in 1 .. i - 1
    BY <1>1, <1>4, <2>1
  <2>4. Head(y) = y[1] /\ y # <<>>
    BY <1>1, <2>3, EmptySeq
  <2> QED
    BY <1>4, <2>2, <2>3, <2>4 DEF Meets
<1>6. T!Advance(m, T!Before(u, p + i)) = T!Advance(T!Advance(m, x), T!Before(y, i))
  <2> DEFINE v == T!Before(u, p + i)
             z == T!Before(y, i)
  <2>1. v = x \o z /\ z \in Seq(T!Token) /\ ~Meets(x, z)
    BY <1>3, <1>4, <1>5
  <2> HIDE DEF v, z
  <2>2. InParts(m, x, z, v)
    BY <2>1, AdvanceOfParts
  <2> QED
    BY <2>2 DEF v, z, InParts
<1>7. p + i \in 1 .. Len(u) /\ u[p + i] = y[i]
  BY <1>1, <1>2
<1>8. T!Called(u, p + i)
  <2>1. i < Len(y) /\ y[i + 1] = "call"
    BY DEF MarkerAt, T!Called
  <2>2. /\ (p + i) + 1 \in 1 .. p + Len(y) /\ ~((p + i) + 1 <= p)
        /\ ((p + i) + 1) - p = i + 1 /\ p + i < Len(u)
    BY <1>1, <1>2, <2>1
  <2>3. u[(p + i) + 1] = y[i + 1]
    BY <1>2, <2>2
  <2> QED
    BY <2>1, <2>2, <2>3 DEF T!Called
<1>9. MarkerAt(u, m, p + i)
  BY <1>6, <1>7, <1>8 DEF MarkerAt
<1> QED
  BY <1>1, <1>2, <1>9, MarkerThere DEF MarkerPlus

\* What arrives later moves no marker.
LEMMA MarkerStays ==
  ASSUME NEW m, NEW x \in Seq(T!Token), NEW y \in Seq(T!Token),
         NEW u, u = x \o y, OneHead(u), T!Marker(x, m) # 0
  PROVE  T!Marker(u, m) = T!Marker(x, m) /\ T!Before(u, T!Marker(x, m)) = T!Before(x, T!Marker(x, m))
<1> DEFINE i == T!Marker(x, m)
<1>1. MarkerAt(x, m, i)
  BY MarkerIs
<1> HIDE DEF i
<1>2. Len(x) \in Nat /\ Len(y) \in Nat /\ i \in 1 .. Len(x) /\ i < Len(x)
  BY <1>1, LenProperties DEF MarkerAt, T!Called
<1>3. /\ u \in Seq(T!Token) /\ Len(u) = Len(x) + Len(y)
      /\ \A n \in 1 .. Len(x) + Len(y) : u[n] = IF n <= Len(x) THEN x[n] ELSE y[n - Len(x)]
  BY ConcatProperties
<1>4. T!Before(u, i) = T!Before(x, i)
  <2>1. T!Before(u, i) \in Seq(T!Token) /\ Len(T!Before(u, i)) = i - 1
        /\ \A j \in 1 .. i - 1 : T!Before(u, i)[j] = u[j]
    <3>1. i \in 1 .. Len(u) + 1
      BY <1>2, <1>3
    <3> QED
      BY <1>3, <3>1, BeforeIs
  <2>2. T!Before(x, i) \in Seq(T!Token) /\ Len(T!Before(x, i)) = i - 1
        /\ \A j \in 1 .. i - 1 : T!Before(x, i)[j] = x[j]
    <3>1. i \in 1 .. Len(x) + 1
      BY <1>2
    <3> QED
      BY <3>1, BeforeIs
  <2>3. \A j \in 1 .. i - 1 : u[j] = x[j]
    BY <1>2, <1>3
  <2> DEFINE a == T!Before(u, i)
             b == T!Before(x, i)
  <2>4. a \in Seq(T!Token) /\ b \in Seq(T!Token) /\ Len(a) = Len(b)
        /\ \A j \in 1 .. Len(a) : a[j] = b[j]
    BY <2>1, <2>2, <2>3
  <2> HIDE DEF a, b
  <2>5. a = b
    BY <2>4, SeqEqual
  <2> QED
    BY <2>5 DEF a, b
<1>5. MarkerAt(u, m, i)
  <2>1. u[i] = x[i] /\ u[i + 1] = x[i + 1] /\ i \in 1 .. Len(u) /\ i < Len(u)
    BY <1>2, <1>3
  <2> QED
    BY <1>1, <1>4, <2>1 DEF MarkerAt, T!Called
<1>6. T!Marker(u, m) = i
  BY <1>2, <1>3, <1>5, MarkerThere
<1> QED
  BY <1>4, <1>6 DEF i

\* A marker at the very beginning is in no code and no quote.
LEMMA MarkerFirst ==
  ASSUME NEW s \in Seq(T!Token), OneHead(s), NEW m \in MarkdownState, T!Executable(m),
         Len(s) >= 2, s[1] = "head", s[2] = "call"
  PROVE  T!Marker(s, m) = 1 /\ MarkerAt(s, m, 1)
<1>1. Len(s) \in Nat
  BY LenProperties
<1>2. T!Before(s, 1) = <<>>
  BY WholeAndNothing
<1>3. T!Advance(m, T!Before(s, 1)) = m
  BY <1>2, AdvanceOfNothing
<1>4. MarkerAt(s, m, 1)
  BY <1>1, <1>3 DEF MarkerAt, T!Called
<1> QED
  BY <1>1, <1>4, MarkerThere

LEMMA PlainExecutes == T!Executable(T!Plain)
BY DEF T!Executable, T!Plain

\* Closed or called, only the one head can be.
LEMMA ClosedIsLed ==
  ASSUME NEW s, Led(s), NEW i \in 1 .. Len(s), T!Called(s, i), Len(s) \in Nat
  PROVE  s[i] = "head"
<1>1. i + 1 \in 1 .. Len(s) /\ s[i + 1] = "call" /\ (i + 1) - 1 = i
  BY DEF T!Called
<1> QED
  BY <1>1 DEF Led
-----------------------------------------------------------------------------
(* What is kept back, and where it is in the text.                         *)

LEMMA TextStays ==
  ASSUME UNCHANGED <<literal, offered, text>>
  PROVE  /\ T!Where' = T!Where
         /\ Prose' = Prose /\ T!After' = T!After
         /\ (HasClosed' <=> HasClosed) /\ (LeadingCall' <=> LeadingCall)
         /\ (WholeCall' <=> WholeCall)
         /\ T!SyncOutcome' = T!SyncOutcome /\ T!Spared' = T!Spared
<1>1. T!Where' = T!Where
  BY DEF T!Where
<1>2. Prose' = Prose /\ T!After' = T!After
  BY <1>1 DEF Prose, T!After
<1>3. (HasClosed' <=> HasClosed) /\ (LeadingCall' <=> LeadingCall) /\ (WholeCall' <=> WholeCall)
  BY DEF HasClosed, LeadingCall, WholeCall
<1>4. T!SyncOutcome' = T!SyncOutcome
  BY DEF T!SyncOutcome, T!Classify
<1>5. T!Spared' = T!Spared
  BY <1>1 DEF T!Spared, T!ClaimedFrom
<1> QED
  BY <1>1, <1>2, <1>3, <1>4, <1>5

\* What is before that which is kept back.
Ahead(f) ==
  /\ f \in Seq(T!Token) /\ text = f \o buffer
  /\ \/ InStep /\ f = shown
     \/ Dropped /\ f = Prose
     \/ \E i, j \in Nat : SuppressedFrom(j, i) /\ f = T!Before(text, i)

LEMMA WhereIs ==
  ASSUME TextShape
  PROVE  /\ OneHead(text) /\ Led(text) /\ Len(text) \in Nat
         /\ T!Where # 0 => /\ MarkerAt(text, T!Plain, T!Where)
                           /\ T!Where \in 1 .. Len(text) /\ T!Where < Len(text)
                           /\ Prose \in Seq(T!Token) /\ Len(Prose) = T!Where - 1
                           /\ Prose \o T!From(text, T!Where) = text
                           /\ T!From(text, T!Where) \in Seq(T!Token)
<1>1. text \in Seq(T!Token) /\ arriving \in Seq(T!Token)
  BY DEF TextShape
<1>2. Len(text) \in Nat /\ Len(arriving) \in Nat
  BY <1>1, LenProperties
<1> DEFINE u == text \o arriving
<1>3. /\ Len(u) = Len(text) + Len(arriving)
      /\ \A n \in 1 .. Len(text) + Len(arriving) :
           u[n] = IF n <= Len(text) THEN text[n] ELSE arriving[n - Len(text)]
  BY <1>1, ConcatProperties
<1>4. OneHead(u) /\ Led(u)
  BY DEF TextShape
<1> HIDE DEF u
<1>5. \A n \in 1 .. Len(text) : n \in 1 .. Len(u) /\ u[n] = text[n]
  BY <1>2, <1>3
<1>6. OneHead(text)
  BY <1>4, <1>5 DEF OneHead
<1>7. Led(text)
  <2> SUFFICES ASSUME NEW k \in 1 .. Len(text), text[k] = "call"
               PROVE  k > 1 /\ text[k - 1] = "head"
    BY DEF Led
  <2>1. k > 1 /\ u[k - 1] = "head"
    BY <1>4, <1>5 DEF Led
  <2>2. k - 1 \in 1 .. Len(text)
    BY <1>2, <2>1
  <2> QED
    BY <1>5, <2>1, <2>2
<1>8. ASSUME T!Where # 0
      PROVE  /\ MarkerAt(text, T!Plain, T!Where)
             /\ T!Where \in 1 .. Len(text) /\ T!Where < Len(text)
             /\ Prose \in Seq(T!Token) /\ Len(Prose) = T!Where - 1
             /\ Prose \o T!From(text, T!Where) = text
             /\ T!From(text, T!Where) \in Seq(T!Token)
  <2>1. MarkerAt(text, T!Plain, T!Where)
    BY <1>8, MarkerIs DEF T!Where
  <2>2. T!Where \in 1 .. Len(text) /\ T!Where < Len(text)
    BY <2>1 DEF MarkerAt, T!Called
  <2>3. T!Where \in 1 .. Len(text) + 1
    BY <1>2, <2>2
  <2> QED
    BY <1>1, <2>1, <2>2, <2>3, BeforeIs, FromIs, Parted DEF Prose
<1> QED
  BY <1>2, <1>6, <1>7, <1>8

\* Where the text is parted by a claim before a marker.
LEMMA ClaimIs ==
  ASSUME TextShape, NEW i, NEW j, ClaimIn(text, j, i)
  PROVE  /\ i \in Nat /\ j \in Nat /\ j < i /\ j >= 1 /\ i < Len(text) /\ j \in 1 .. i - 1
         /\ T!Before(text, j) \in Seq(T!Token) /\ Len(T!Before(text, j)) = j - 1
         /\ T!Before(text, i) \in Seq(T!Token) /\ Len(T!Before(text, i)) = i - 1
         /\ T!From(text, i) \in Seq(T!Token)
         /\ text = T!Before(text, i) \o T!From(text, i)
         /\ Len(T!From(text, i)) >= 2 /\ T!From(text, i)[1] = "head"
         /\ OneHead(T!From(text, i))
<1>1. text \in Seq(T!Token) /\ Len(text) \in Nat /\ OneHead(text)
  BY WhereIs DEF TextShape
<1>2. /\ i \in 1 .. Len(text) /\ i < Len(text) /\ text[i] = "head"
      /\ j \in 1 .. i - 1
  BY DEF ClaimIn, T!Called
<1>3. /\ i \in 1 .. Len(text) + 1 /\ j \in 1 .. Len(text) + 1
      /\ i \in Nat /\ j \in Nat /\ j < i /\ j >= 1
  BY <1>1, <1>2
<1>4. /\ T!Before(text, j) \in Seq(T!Token) /\ Len(T!Before(text, j)) = j - 1
      /\ T!Before(text, i) \in Seq(T!Token) /\ Len(T!Before(text, i)) = i - 1
  BY <1>1, <1>3, BeforeIs
<1>5. /\ T!From(text, i) \in Seq(T!Token) /\ Len(T!From(text, i)) = Len(text) - i + 1
      /\ \A n \in 1 .. Len(text) - i + 1 : T!From(text, i)[n] = text[i + n - 1]
  BY <1>1, <1>3, FromIs
<1>6. T!Before(text, i) \o T!From(text, i) = text
  BY <1>1, <1>3, Parted
<1>7. Len(text) - i + 1 >= 2 /\ 1 \in 1 .. Len(text) - i + 1 /\ i + 1 - 1 = i
  BY <1>1, <1>2
<1>8. T!From(text, i)[1] = "head"
  BY <1>2, <1>5, <1>7
<1>9. OneHead(T!From(text, i))
  BY <1>1, <1>4, <1>5, <1>6, OneHeadOfPart
<1> QED
  BY <1>2, <1>3, <1>4, <1>5, <1>6, <1>7, <1>8, <1>9

\* What is spared of the prose before the call.
LEMMA SparedIs ==
  ASSUME TextShape, T!Where # 0
  PROVE  /\ Prose \in T!Spared
         /\ T!Announces(Prose) => <<>> \in T!Spared
         /\ \A j : ClaimIn(text, j, T!Where) => T!Before(text, j) \in T!Spared
<1>1. Prose \in T!Spared
  BY DEF T!Spared, Prose
<1>2. T!Announces(Prose) => <<>> \in T!Spared
  BY DEF T!Spared, Prose
<1>3. ASSUME NEW j, ClaimIn(text, j, T!Where) PROVE T!Before(text, j) \in T!Spared
  <2>1. j \in T!ClaimedFrom(T!Where)
    BY <1>3 DEF ClaimIn, T!ClaimedFrom
  <2> QED
    BY <2>1 DEF T!Spared
<1> QED
  BY <1>1, <1>2, <1>3

LEMMA AheadIs ==
  ASSUME TextShape, InStep \/ Dropped \/ Suppressed
  PROVE  \E f : Ahead(f)
<1>1. CASE InStep
  BY <1>1 DEF Ahead, InStep, TextShape
<1>2. CASE Dropped
  <2>1. T!Where # 0
    BY <1>2 DEF Dropped
  <2>2. Ahead(Prose)
    BY <1>2, <2>1, WhereIs DEF Ahead, Dropped
  <2> QED
    BY <2>2
<1>3. CASE Suppressed
  <2>1. PICK i \in Nat, j \in Nat : SuppressedFrom(j, i)
    BY <1>3 DEF Suppressed
  <2>2. ClaimIn(text, j, i) /\ buffer = T!From(text, i)
    BY <2>1 DEF SuppressedFrom
  <2>3. T!Before(text, i) \in Seq(T!Token) /\ text = T!Before(text, i) \o T!From(text, i)
    BY <2>2, ClaimIs
  <2>4. Ahead(T!Before(text, i))
    BY <2>1, <2>2, <2>3 DEF Ahead
  <2> QED
    BY <2>4
<1> QED
  BY <1>1, <1>2, <1>3

\* Position i of y is the same in u, where n comes before.
SameEnd(y, u, n, i) ==
  /\ T!Closed(y, i) <=> T!Closed(u, n + i)
  /\ T!Closed(y, i) => T!From(y, i + 3) = T!From(u, n + i + 3)

LEMMA ClosedMoves ==
  ASSUME NEW x \in Seq(T!Token), NEW y \in Seq(T!Token), NEW u, u = x \o y,
         NEW i \in 1 .. Len(y)
  PROVE  SameEnd(y, u, Len(x), i)
<1>1. Len(x) \in Nat /\ Len(y) \in Nat
  BY LenProperties
<1>2. /\ Len(u) = Len(x) + Len(y)
      /\ \A n \in 1 .. Len(x) + Len(y) : u[n] = IF n <= Len(x) THEN x[n] ELSE y[n - Len(x)]
  BY ConcatProperties
<1>3. ASSUME i < Len(y) PROVE u[(Len(x) + i) + 1] = y[i + 1]
  <2>1. /\ (Len(x) + i) + 1 \in 1 .. Len(x) + Len(y) /\ ~((Len(x) + i) + 1 <= Len(x))
        /\ ((Len(x) + i) + 1) - Len(x) = i + 1
    BY <1>1, <1>3
  <2> QED
    BY <1>2, <2>1
<1>4. i < Len(y) <=> Len(x) + i < Len(u)
  BY <1>1, <1>2
<1>5. i + 1 < Len(y) <=> (Len(x) + i) + 1 < Len(u)
  BY <1>1, <1>2
<1>6. T!Closed(y, i) <=> T!Closed(u, Len(x) + i)
  BY <1>3, <1>4, <1>5 DEF T!Closed, T!Called
<1>7. ASSUME T!Closed(y, i) PROVE T!From(y, i + 3) = T!From(u, Len(x) + i + 3)
  <2>1. i + 3 \in 1 .. Len(y) + 1 /\ Len(x) + (i + 3) = Len(x) + i + 3
    BY <1>1, <1>7 DEF T!Closed
  <2> DEFINE k == i + 3
  <2>2. k \in 1 .. Len(y) + 1 /\ Len(x) + k = Len(x) + i + 3
    BY <2>1
  <2> HIDE DEF k
  <2>3. T!From(x \o y, Len(x) + k) = T!From(y, k)
    BY <2>2, FromOfConcat
  <2> QED
    BY <2>2, <2>3 DEF k
<1> QED
  BY <1>6, <1>7 DEF SameEnd

\* The marker that is kept back is that of the text.
Kept(f, i) ==
  /\ i \in 1 .. Len(buffer) /\ i < Len(buffer) /\ buffer[i] = "head" /\ buffer[i + 1] = "call"
  /\ Dropped \/ Suppressed => i = 1
  /\ ~torn \/ shown = <<>> => T!Where = Len(f) + i /\ Prose = f \o T!Before(buffer, i)
  /\ SameEnd(buffer, text, Len(f), i)
  /\ HasClosed => T!Closed(buffer, i)

LEMMA MarkerKept ==
  ASSUME TextShape, NEW f, Ahead(f), T!Marker(buffer, markdown) # 0
  PROVE  Kept(f, T!Marker(buffer, markdown))
<1> DEFINE i == T!Marker(buffer, markdown)
<1>1. MarkerAt(buffer, markdown, i)
  BY MarkerIs
<1>2. /\ text \in Seq(T!Token) /\ buffer \in Seq(T!Token) /\ f \in Seq(T!Token)
      /\ text = f \o buffer /\ markdown \in MarkdownState /\ shown \in Seq(T!Token)
  BY DEF TextShape, Ahead
<1>3. Len(text) \in Nat /\ Len(buffer) \in Nat /\ Len(f) \in Nat
  BY <1>2, LenProperties
<1>4. OneHead(text) /\ Led(text)
  BY WhereIs
<1>5. OneHead(buffer)
  BY <1>2, <1>4, OneHeadOfPart
<1> HIDE DEF i
<1>6. /\ i \in 1 .. Len(buffer) /\ i < Len(buffer)
      /\ buffer[i] = "head" /\ buffer[i + 1] = "call"
  BY <1>1 DEF MarkerAt, T!Called
<1>7. /\ Len(text) = Len(f) + Len(buffer)
      /\ \A n \in 1 .. Len(f) + Len(buffer) :
           text[n] = IF n <= Len(f) THEN f[n] ELSE buffer[n - Len(f)]
  BY <1>2, ConcatProperties
<1>8. Len(f) + i \in 1 .. Len(text) /\ text[Len(f) + i] = "head"
  <2>1. Len(f) + i \in 1 .. Len(f) + Len(buffer) /\ ~(Len(f) + i <= Len(f)) /\ (Len(f) + i) - Len(f) = i
    BY <1>3, <1>6
  <2> QED
    BY <1>6, <1>7, <2>1
<1>9. Dropped => i = 1
  <2> SUFFICES ASSUME Dropped PROVE i = 1
    OBVIOUS
  <2>1. T!Where # 0 /\ buffer = T!From(text, T!Where)
    BY DEF Dropped
  <2>2. MarkerAt(text, T!Plain, T!Where) /\ T!Where \in 1 .. Len(text) + 1
    BY <1>3, <2>1, WhereIs DEF MarkerAt
  <2>3. /\ Len(buffer) = Len(text) - T!Where + 1
        /\ \A j \in 1 .. Len(text) - T!Where + 1 : buffer[j] = text[T!Where + j - 1]
    BY <1>2, <2>1, <2>2, FromIs
  <2>4. 1 \in 1 .. Len(text) - T!Where + 1 /\ T!Where + 1 - 1 = T!Where
    BY <1>3, <2>2 DEF MarkerAt
  <2>5. buffer[1] = "head" /\ 1 \in 1 .. Len(buffer)
    BY <2>2, <2>3, <2>4 DEF MarkerAt
  <2> QED
    BY <1>5, <1>6, <2>5 DEF OneHead
<1>14. ASSUME NEW a \in Nat, NEW b \in Nat, SuppressedFrom(b, a) PROVE i = 1
  <2>1. ClaimIn(text, b, a) /\ buffer = T!From(text, a)
    BY <1>14 DEF SuppressedFrom
  <2>2. buffer[1] = "head" /\ 1 \in 1 .. Len(buffer)
    BY <1>3, <2>1, ClaimIs
  <2> QED
    BY <1>5, <1>6, <2>2 DEF OneHead
<1>10. ASSUME ~torn \/ shown = <<>>
       PROVE  T!Where = Len(f) + i /\ Prose = f \o T!Before(buffer, i)
  <2>1. T!Where = Len(f) + i
    <3>1. CASE Dropped /\ f = Prose
      <4>1. T!Where # 0
        BY <3>1 DEF Dropped
      <4>2. Len(f) = T!Where - 1 /\ T!Where \in 1 .. Len(text)
        BY <3>1, <4>1, WhereIs
      <4> QED
        BY <1>3, <1>9, <3>1, <4>2
    <3>2. CASE InStep /\ f = shown
      <4>1. markdown = T!Advance(T!Plain, shown) /\ ~Meets(shown, buffer)
        <5>1. CASE ~torn
          BY <3>2, <5>1 DEF InStep
        <5>2. CASE shown = <<>>
          BY <5>2, PlainTyped, AdvanceOfNothing DEF TextShape, Meets
        <5> QED
          BY <1>10, <5>1, <5>2
      <4>2. MarkerAt(buffer, markdown, i) /\ markdown = T!Advance(T!Plain, f)
        BY <1>1, <3>2, <4>1
      <4>3. ~Meets(f, buffer)
        BY <3>2, <4>1
      <4>4. MarkerPlus(text, T!Plain, Len(f), i)
        BY <1>2, <1>4, <4>2, <4>3, PlainTyped, MarkerMoves
      <4> QED
        BY <4>4 DEF T!Where, MarkerPlus
    <3>3. ASSUME NEW a \in Nat, NEW b \in Nat, SuppressedFrom(b, a), f = T!Before(text, a)
          PROVE  T!Where = Len(f) + i
      <4>1. ClaimIn(text, b, a) /\ T!Where = a
        BY <1>10, <3>3 DEF SuppressedFrom
      <4>2. Len(f) = a - 1
        BY <3>3, <4>1, ClaimIs
      <4>3. i = 1
        BY <1>14, <3>3
      <4> QED
        BY <4>1, <4>2, <4>3
    <3> QED
      BY <3>1, <3>2, <3>3 DEF Ahead
  <2>2. i \in 1 .. Len(buffer) + 1
    BY <1>3, <1>6
  <2>3. T!Before(f \o buffer, Len(f) + i) = f \o T!Before(buffer, i)
    BY <1>2, <2>2, BeforeOfConcat
  <2> QED
    BY <1>2, <2>1, <2>3 DEF Prose
<1>11. SameEnd(buffer, text, Len(f), i)
  BY <1>2, <1>6, ClosedMoves
<1>12. HasClosed => T!Closed(buffer, i)
  <2> SUFFICES ASSUME NEW k \in 1 .. Len(text), T!Closed(text, k) PROVE T!Closed(buffer, i)
    BY DEF HasClosed
  <2>1. text[k] = "head"
    BY <1>3, <1>4, ClosedIsLed DEF T!Closed
  <2>2. k = Len(f) + i
    BY <1>4, <1>8, <2>1 DEF OneHead
  <2> QED
    BY <1>11, <2>2 DEF SameEnd
<1>13. Kept(f, i)
  BY <1>6, <1>9, <1>10, <1>11, <1>12, <1>14 DEF Kept, Suppressed
<1> QED
  BY <1>13 DEF i
-----------------------------------------------------------------------------
(* What the steps of the parser have in common.                            *)

LEMMA Regrouped ==
  \A a \in Seq(T!Token) : \A b \in Seq(T!Token) : \A c \in Seq(T!Token) :
    (a \o b) \o c = a \o (b \o c)
BY ConcatAssociative

\* The text z is shown.
Shows(z) == shown' = shown \o z /\ markdown' = T!Advance(markdown, z)

LEMMA ShowIs ==
  ASSUME NEW z, T!Show(z)
  PROVE  /\ Shows(z) \/ UNCHANGED <<shown, markdown>>
         /\ ~called \/ ~T!Claims(z) => Shows(z)
BY DEF T!Show, T!ShowNothing, Shows

LEMMA IntroduceIs ==
  ASSUME NEW z, T!Introduce(z)
  PROVE  /\ Shows(z) \/ UNCHANGED <<shown, markdown>>
         /\ T!Claims(z) => UNCHANGED <<shown, markdown>>
         /\ ~T!Claims(z) => Shows(z)
BY ShowIs DEF T!Introduce, T!ShowNothing

LEMMA ShowingTyped ==
  ASSUME TextShape, NEW k \in 1 .. Len(buffer) + 1,
         Shows(T!Before(buffer, k)) \/ UNCHANGED <<shown, markdown>>
  PROVE  /\ shown' \in Seq(T!Token) /\ markdown' \in MarkdownState
         /\ shown' = <<>> => markdown' = T!Plain
<1> SUFFICES ASSUME Shows(T!Before(buffer, k))
             PROVE  /\ shown' \in Seq(T!Token) /\ markdown' \in MarkdownState
                    /\ shown' = <<>> => markdown' = T!Plain
  BY DEF TextShape
<1> DEFINE z == T!Before(buffer, k)
<1>1. /\ buffer \in Seq(T!Token) /\ shown \in Seq(T!Token) /\ markdown \in MarkdownState
      /\ shown = <<>> => markdown = T!Plain
  BY DEF TextShape
<1>2. z \in Seq(T!Token)
  BY <1>1, BeforeIs
<1>3. shown' = shown \o z /\ markdown' = T!Advance(markdown, z)
  BY DEF Shows
<1> HIDE DEF z
<1>4. shown \o z \in Seq(T!Token)
  BY <1>1, <1>2, ConcatProperties
<1>5. T!Advance(markdown, z) \in MarkdownState
  BY <1>1, <1>2, AdvanceTyped
<1>6. ASSUME shown \o z = <<>> PROVE markdown' = T!Plain
  <2>1. shown = <<>> /\ z = <<>>
    BY <1>1, <1>2, <1>6, ConcatEqualIffEmpty
  <2> QED
    BY <1>1, <1>3, <2>1, PlainTyped, AdvanceOfNothing
<1> QED
  BY <1>3, <1>4, <1>5, <1>6

\* What is shown goes on where it ended.
LEMMA Showing ==
  ASSUME TextShape, InStep, NEW k \in 1 .. Len(buffer) + 1,
         k <= Len(buffer) => buffer[k] = "head",
         Shows(T!Before(buffer, k)), buffer' = T!From(buffer, k), UNCHANGED <<text, torn>>
  PROVE  InStep' /\ buffer' \in Seq(T!Token)
<1> DEFINE z == T!Before(buffer, k)
           y == T!From(buffer, k)
<1>1. buffer \in Seq(T!Token) /\ shown \in Seq(T!Token) /\ Len(buffer) \in Nat
  BY LenProperties DEF TextShape
<1>2. /\ z \in Seq(T!Token) /\ Len(z) = k - 1 /\ \A j \in 1 .. k - 1 : z[j] = buffer[j]
  BY <1>1, BeforeIs
<1>3. /\ y \in Seq(T!Token) /\ Len(y) = Len(buffer) - k + 1
      /\ \A j \in 1 .. Len(buffer) - k + 1 : y[j] = buffer[k + j - 1]
  BY <1>1, FromIs
<1>4. z \o y = buffer
  BY <1>1, Parted
<1>5. shown' = shown \o z /\ markdown' = T!Advance(markdown, z) /\ buffer' = y
  BY DEF Shows
<1> HIDE DEF z, y
<1>6. text = shown \o buffer
  BY DEF InStep
<1>7. (shown \o z) \o y = shown \o (z \o y)
  BY <1>1, <1>2, <1>3, Regrouped, Zenon
<1>8. text' = shown' \o buffer'
  <2>1. text = (shown \o z) \o y
    BY <1>4, <1>6, <1>7, Zenon
  <2>2. text' = text
    OBVIOUS
  <2> QED
    BY <1>5, <2>1, <2>2, Zenon
<1>9. ASSUME ~torn
      PROVE  markdown' = T!Advance(T!Plain, shown') /\ ~Meets(shown', buffer')
  <2>1. markdown = T!Advance(T!Plain, shown) /\ ~Meets(shown, buffer)
    BY <1>9 DEF InStep
  <2>2. ~Meets(shown, z)
    <3> SUFFICES ASSUME z # <<>>, Head(z) \in TickTokens, shown # <<>>,
                        T!Last(shown) \in TickTokens
                 PROVE  FALSE
      BY DEF Meets
    <3>1. Len(z) # 0 /\ Head(z) = z[1]
      BY <1>2, EmptySeq
    <3>2. 1 \in 1 .. k - 1 /\ Head(buffer) = buffer[1] /\ buffer # <<>>
      BY <1>1, <1>2, <3>1, EmptySeq
    <3> QED
      BY <1>2, <2>1, <3>1, <3>2 DEF Meets
  <2>3. InParts(T!Plain, shown, z, shown')
    BY <1>1, <1>2, <1>5, <2>2, PlainTyped, AdvanceOfParts
  <2>4. ~Meets(shown', y)
    <3> SUFFICES ASSUME y # <<>>, Head(y) \in TickTokens PROVE FALSE
      BY DEF Meets
    <3>1. Len(y) # 0 /\ Head(y) = y[1]
      BY <1>3, EmptySeq
    <3>2. 1 \in 1 .. Len(buffer) - k + 1 /\ k + 1 - 1 = k /\ k <= Len(buffer)
      BY <1>1, <1>3, <3>1
    <3>3. Head(y) = "head"
      BY <1>3, <3>1, <3>2
    <3> QED
      BY <3>3 DEF TickTokens, T!Ticks
  <2> QED
    BY <1>5, <2>1, <2>3, <2>4 DEF InParts
<1> QED
  BY <1>3, <1>5, <1>8, <1>9 DEF InStep

\* What parsing leaves alone.
Untouched ==
  UNCHANGED <<literal, offered, tools, text, arriving, flushing, chunks, torn>>

LEMMA ShapeStays ==
  ASSUME TextShape, Untouched, step # "receive",
         buffer' \in Seq(T!Token), shown' \in Seq(T!Token), markdown' \in MarkdownState,
         step' \in {"receive", "parse", "leftover", "done"},
         step' = "receive" => ~flushing, step' = "leftover" => flushing,
         refused' \in {"none", "rejected", "retry"}, refused' # "none" => step' = "done",
         shown' = <<>> => markdown' = T!Plain,
         activated' => offered /\ ~literal,
         activated' => activated \/ chunks # 0,
         called' => offered /\ flushing
  PROVE  TextShape'
BY DEF TextShape, Untouched

\* Once the call has run, little can go wrong.
LEMMA CalledStays ==
  ASSUME TextInv, called, called', step \notin {"receive", "done"}, Untouched,
         ~torn => CallInContext', OnePiece => refused' = refused
  PROVE  OpenInv' /\ CalledInv' /\ EndInv' /\ LeadInv' /\ OnePieceInv'
<1>1. OpenInv' /\ EndInv'
  BY DEF OpenInv, EndInv
<1>2. LeadInv'
  BY DEF LeadInv
<1>3. CalledInv'
  BY DEF TextInv, CalledInv, Untouched
<1>4. OnePiece' <=> OnePiece
  BY TextStays DEF Untouched, OnePiece
<1>5. T!SyncOutcome' = T!SyncOutcome
  BY TextStays DEF Untouched
<1>6. OnePieceInv'
  BY <1>4, <1>5 DEF TextInv, OnePieceInv
<1> QED
  BY <1>1, <1>2, <1>3, <1>6

LEMMA AfterIs ==
  ASSUME TextShape, T!Where # 0
  PROVE  /\ T!After \in Seq(T!Token)
         /\ \A j \in 1 .. Len(T!After) : T!After[j] # "head"
<1>1. CASE ~T!Closed(text, T!Where)
  <2>1. T!After = <<>>
    BY <1>1 DEF T!After
  <2> QED
    BY <2>1, EmptySeq
<1>2. CASE T!Closed(text, T!Where)
  <2> DEFINE i == T!Where
             y == T!From(text, i + 3)
  <2>1. T!After = y
    BY <1>2 DEF T!After
  <2>2. MarkerAt(text, T!Plain, i) /\ OneHead(text) /\ Len(text) \in Nat /\ i \in 1 .. Len(text)
    BY WhereIs
  <2>3. i + 3 \in 1 .. Len(text) + 1
    BY <1>2, <2>2 DEF T!Closed
  <2>4. /\ y \in Seq(T!Token) /\ Len(y) = Len(text) - (i + 3) + 1
        /\ \A j \in 1 .. Len(text) - (i + 3) + 1 : y[j] = text[(i + 3) + j - 1]
    BY <2>3, FromIs DEF TextShape
  <2> HIDE DEF i, y
  <2>5. ASSUME NEW j \in 1 .. Len(y) PROVE y[j] # "head"
    <3>1. j \in 1 .. Len(text) - (i + 3) + 1
      BY <2>4
    <3>2. y[j] = text[(i + 3) + j - 1]
      BY <2>4, <3>1
    <3>3. (i + 3) + j - 1 \in 1 .. Len(text) /\ (i + 3) + j - 1 # i
      BY <2>2, <3>1
    <3> QED
      BY <2>2, <3>2, <3>3 DEF OneHead, MarkerAt
  <2> QED
    BY <2>1, <2>4, <2>5
<1> QED
  BY <1>1, <1>2

\* Without a head there is no marker.
LEMMA HeadlessHasNoMarker ==
  ASSUME NEW s \in Seq(T!Token), \A k \in 1 .. Len(s) : s[k] # "head", NEW m
  PROVE  T!Marker(s, m) = 0 /\ ~T!EndsIn(s, {"head"})
<1>1. T!Marker(s, m) = 0
  BY MarkerIs DEF MarkerAt
<1>2. ~T!EndsIn(s, {"head"})
  <2> SUFFICES ASSUME s # <<>>, T!Last(s) = "head" PROVE FALSE
    BY DEF T!EndsIn
  <2>1. Len(s) \in 1 .. Len(s)
    BY EmptySeq
  <2> QED
    BY <2>1 DEF T!Last
<1> QED
  BY <1>1, <1>2

\* After the call there is no other.
LEMMA CalledHasNoMarker ==
  ASSUME TextShape, CallInContext, step \in {"parse", "leftover"}
  PROVE  T!Marker(buffer, markdown) = 0 /\ ~T!EndsIn(buffer, {"head"})
<1>1. T!Where # 0
  BY DEF CallInContext
<1>2. \A j \in 1 .. Len(buffer) : buffer[j] # "head"
  <2>1. buffer = T!After \/ buffer = <<>>
    BY DEF CallInContext
  <2> QED
    BY <1>1, <2>1, AfterIs, EmptySeq
<1> QED
  BY <1>2, HeadlessHasNoMarker DEF TextShape

\* A suppressed claim leaves its marker in front, with a call behind it.
LEMMA SuppressedEnds ==
  ASSUME TextShape, Suppressed
  PROVE  ~T!EndsIn(buffer, {"head"}) /\ buffer # <<>>
<1>1. PICK i \in Nat, j \in Nat : ClaimIn(text, j, i) /\ buffer = T!From(text, i)
  BY DEF Suppressed, SuppressedFrom
<1>2. Len(buffer) >= 2 /\ buffer[1] = "head" /\ OneHead(buffer)
  BY <1>1, ClaimIs
<1>3. Len(buffer) \in Nat
  BY LenProperties DEF TextShape
<1>4. buffer[Len(buffer)] # "head"
  <2>1. Len(buffer) \in 1 .. Len(buffer) /\ 1 \in 1 .. Len(buffer) /\ Len(buffer) # 1
    BY <1>2, <1>3
  <2> QED
    BY <1>2, <2>1 DEF OneHead
<1> QED
  BY <1>2, <1>4, EmptySeq DEF T!EndsIn, T!Last

\* What is kept back begins with its marker.
LEMMA MarkerInFront ==
  ASSUME TextShape, T!Where # 0, buffer = T!From(text, T!Where), T!Executable(markdown)
  PROVE  T!Marker(buffer, markdown) = 1
<1> DEFINE i == T!Where
<1>1. MarkerAt(text, T!Plain, i) /\ OneHead(text) /\ Len(text) \in Nat /\ i \in 1 .. Len(text) /\ i < Len(text)
  BY WhereIs
<1>2. /\ buffer \in Seq(T!Token) /\ Len(buffer) = Len(text) - i + 1
      /\ \A j \in 1 .. Len(text) - i + 1 : buffer[j] = text[i + j - 1]
  <2>1. i \in 1 .. Len(text) + 1 /\ text \in Seq(T!Token)
    BY <1>1 DEF TextShape
  <2> QED
    BY <2>1, FromIs
<1>3. Prose \in Seq(T!Token) /\ Prose \o buffer = text
  BY WhereIs
<1> HIDE DEF i
<1>4. OneHead(buffer)
  BY <1>1, <1>2, <1>3, OneHeadOfPart
<1>5. /\ 1 \in 1 .. Len(text) - i + 1 /\ 2 \in 1 .. Len(text) - i + 1
      /\ i + 1 - 1 = i /\ i + 2 - 1 = i + 1
  BY <1>1
<1>6. buffer[1] = "head" /\ buffer[2] = "call" /\ Len(buffer) >= 2
  BY <1>1, <1>2, <1>5 DEF MarkerAt, T!Called
<1> QED
  BY <1>2, <1>4, <1>6, MarkerFirst DEF TextShape

LEMMA MarkerLeads ==
  ASSUME TextShape, buffer = text, shown = <<>>, LeadingCall, Len(text) # 1
  PROVE  T!Marker(buffer, markdown) = 1
<1>1. /\ text \in Seq(T!Token) /\ Len(text) \in Nat /\ text # <<>>
      /\ text[1] = "head" /\ text[2] = "call"
  BY LenProperties DEF TextShape, LeadingCall
<1>2. Len(text) >= 2
  <2> DEFINE n == Len(text)
  <2>1. n \in Nat /\ n # 0 /\ n # 1
    BY <1>1, EmptySeq
  <2> HIDE DEF n
  <2>2. n >= 2
    BY <2>1
  <2> QED
    BY <2>2 DEF n
<1>3. OneHead(text)
  BY WhereIs
<1>4. markdown = T!Plain
  BY DEF TextShape
<1> QED
  BY <1>1, <1>2, <1>3, <1>4, PlainTyped, PlainExecutes, MarkerFirst
\* An answer in one piece is at one of three stages while it is parsed.
AtFirst ==
  /\ shown = <<>> /\ buffer = text /\ ~activated
  /\ T!Marker(buffer, markdown) = T!Where
Activated ==
  /\ shown = <<>> /\ buffer = T!From(text, T!Where) /\ activated /\ T!SyncOutcome = "called"
  /\ T!Marker(buffer, markdown) = 1
ProseShown ==
  /\ T!Where > 1 /\ shown = Prose /\ shown # <<>>
  /\ buffer = T!From(text, T!Where) /\ ~activated
  /\ T!SyncOutcome = "shown" /\ T!Marker(buffer, markdown) = 1

LEMMA OnePieceAt ==
  ASSUME TextInv, OnePiece, ~called, step = "parse"
  PROVE  (AtFirst \/ Activated \/ ProseShown) /\ ~torn /\ T!Where # 0
<1>1. /\ TextShape /\ OpenInv /\ OnePieceStage
  BY DEF TextInv, OnePieceInv, TextShape
<1>2. ~torn /\ T!Where # 0
  BY <1>1 DEF TextShape, OnePiece
<1>3. shown = <<>> => markdown = T!Plain
  BY <1>1 DEF TextShape
<1>4. CASE shown = <<>> /\ buffer = text /\ ~activated
  BY <1>2, <1>3, <1>4 DEF AtFirst, T!Where
<1>5. CASE shown = <<>> /\ buffer = T!From(text, T!Where) /\ activated /\ T!SyncOutcome = "called"
  BY <1>1, <1>2, <1>3, <1>5, PlainExecutes, MarkerInFront DEF Activated
<1>6. CASE /\ T!Where > 1 /\ shown = Prose /\ buffer = T!From(text, T!Where)
           /\ ~activated /\ T!SyncOutcome = "shown" /\ T!Executable(markdown)
  <2>1. MarkerAt(text, T!Plain, T!Where) /\ Len(Prose) = T!Where - 1 /\ Prose \in Seq(T!Token)
        /\ T!Where \in 1 .. Len(text)
    BY <1>1, <1>2, WhereIs
  <2>2. shown # <<>>
    <3>1. Len(shown) # 0
      BY <1>6, <2>1
    <3> QED
      BY <3>1, EmptySeq
  <2>3. T!Marker(buffer, markdown) = 1
    BY <1>1, <1>2, <1>6, MarkerInFront
  <2> QED
    BY <1>2, <1>6, <2>2, <2>3 DEF ProseShown
<1>7. \/ shown = <<>> /\ buffer = text /\ ~activated
      \/ shown = <<>> /\ buffer = T!From(text, T!Where) /\ activated /\ T!SyncOutcome = "called"
      \/ /\ T!Where > 1 /\ shown = Prose /\ buffer = T!From(text, T!Where)
         /\ ~activated /\ T!SyncOutcome = "shown" /\ T!Executable(markdown)
  BY <1>1 DEF OnePieceStage
<1> QED
  BY <1>2, <1>4, <1>5, <1>6, <1>7

\* A whole call is in front of the text.
LEMMA WholeLeads ==
  ASSUME TextShape, WholeCall
  PROVE  LeadingCall /\ Len(text) # 1 /\ T!Closed(text, 1)
BY EmptySeq DEF TextShape, WholeCall, LeadingCall, T!Closed, T!Called

-----------------------------------------------------------------------------
(* The steps of the parser.                                                *)

LEMMA ParsingIs ==
  ASSUME T!Parsing
  PROVE  Untouched /\ step = "parse"
BY DEF T!Parsing, T!inputs, T!ghosts, Untouched

LEMMA ReturnedIs ==
  /\ T!Returned \in {"receive", "parse", "leftover", "done"} /\ T!Returned # "done"
  /\ T!Returned # "parse"
  /\ T!Returned = "receive" => ~flushing
  /\ T!Returned = "leftover" => flushing
BY DEF T!Returned

\* The parser returns and keeps all it has back.
LEMMA StillKeeps ==
  ASSUME TextInv, Untouched, step = "parse", step' = T!Returned,
         UNCHANGED <<shown, markdown, buffer, activated, called, refused>>,
         flushing /\ ~called =>
           /\ literal /\ T!Marker(buffer, markdown) # 0 => ~HasClosed
           /\ ~(WholeCall /\ ~literal) /\ ~OnePiece
  PROVE  TextInv'
<1>1. TextShape /\ OpenInv /\ CalledInv /\ EndInv /\ LeadInv /\ OnePieceInv
  BY DEF TextInv
<1>2. TextShape'
  BY <1>1, ReturnedIs, ShapeStays DEF TextShape
<1>3. /\ T!Where' = T!Where /\ Prose' = Prose /\ T!SyncOutcome' = T!SyncOutcome
      /\ T!After' = T!After /\ T!Spared' = T!Spared
      /\ (HasClosed' <=> HasClosed) /\ (LeadingCall' <=> LeadingCall)
      /\ (WholeCall' <=> WholeCall)
      /\ (OnePiece' <=> OnePiece)
      /\ UNCHANGED <<text, torn, literal, offered>>
  BY TextStays DEF Untouched, OnePiece
<1>4. CASE called
  <2>1. ASSUME ~torn PROVE CallInContext'
    <3>1. CallInContext
      BY <1>1, <1>4, <2>1 DEF CalledInv
    <3>2. PICK s \in T!Spared : shown = s /\ buffer = T!After
      BY <3>1 DEF CallInContext
    <3>3. step' = "leftover" /\ T!Where' # 0
      BY <1>1, <1>3, <1>4, <3>1 DEF TextShape, T!Returned, CallInContext
    <3> QED
      BY <1>3, <3>2, <3>3 DEF CallInContext
  <2> QED
    BY <1>2, <1>4, <2>1, CalledStays DEF TextInv
<1>5. CASE ~called
  <2>1. OpenInv' /\ CalledInv'
    <3>1. (InStep => InStep') /\ (Dropped => Dropped')
      BY <1>3 DEF InStep, Dropped
    <3>2. (Suppressed => Suppressed') /\ (Passing => Passing')
      BY <1>3 DEF Suppressed, SuppressedFrom, Passing, ClaimIn, Without
    <3> QED
      BY <1>1, <1>5, <3>1, <3>2 DEF OpenInv, CalledInv
  <2>2. step' # "done" /\ step' # "parse" /\ (step' = "leftover" => flushing)
    BY ReturnedIs
  <2>3. EndInv'
    BY <1>3, <1>5, <2>2 DEF EndInv
  <2>4. LeadInv'
    BY <1>1, <1>3, <1>5, <2>2 DEF LeadInv
  <2>5. OnePieceInv'
    <3> SUFFICES ASSUME OnePiece PROVE OnePieceStage'
      BY <1>1, <1>3, <1>5 DEF OnePieceInv, TextShape
    <3>1. step' = "receive"
      BY <1>5, <2>2 DEF T!Returned
    <3>2. OnePieceStage
      BY <1>1, <1>5 DEF OnePieceInv, TextShape
    <3> QED
      BY <1>3, <3>1, <3>2 DEF OnePieceStage
  <2> QED
    BY <1>2, <2>1, <2>3, <2>4, <2>5 DEF TextInv
<1> QED
  BY <1>4, <1>5

\* Once a claim was suppressed, its marker is shown with what follows it.
LEMMA Passes ==
  ASSUME TextShape, Suppressed \/ Passing, Untouched, Shows(buffer), buffer' = <<>>
  PROVE  /\ Passing'
         /\ \E i, j \in Nat : ClaimIn(text', j, i) /\ shown' = Without(text', j, i)
<1>1. shown' = shown \o buffer /\ text' = text
  BY DEF Shows, Untouched
<1>2. PICK i \in Nat, j \in Nat : ClaimIn(text, j, i) /\ shown \o buffer = Without(text, j, i)
  BY DEF Suppressed, SuppressedFrom, Passing, Without
<1>3. ClaimIn(text', j, i) /\ shown' = Without(text', j, i)
  BY <1>1, <1>2
<1>4. shown \o buffer \in Seq(T!Token)
  BY ConcatProperties DEF TextShape
<1>5. shown' \o buffer' = shown'
  BY <1>1, <1>4, ConcatEmptySeq
<1>6. \A k \in 1 .. Len(buffer') : buffer'[k] # "head"
  BY EmptySeq
<1>7. Passing'
  BY <1>3, <1>5, <1>6 DEF Passing
<1> QED
  BY <1>3, <1>7

\* A text that begins with a call has no claim before it.
LEMMA LeadsUnclaimed ==
  ASSUME TextInv, ~called, step = "parse", LeadingCall
  PROVE  ~Suppressed /\ ~Passing
<1>1. TextShape /\ LeadInv
  BY DEF TextInv
<1>2. shown = <<>> /\ buffer = text /\ text[1] = "head" /\ text # <<>>
  BY <1>1 DEF LeadInv, LeadingCall
<1>3. OneHead(text) /\ Len(text) \in Nat /\ 1 \in 1 .. Len(text)
  BY <1>1, <1>2, WhereIs, EmptySeq DEF TextShape
<1>4. ASSUME NEW i, NEW j, ClaimIn(text, j, i) PROVE FALSE
  BY <1>1, <1>2, <1>3, <1>4, ClaimIs DEF ClaimIn, OneHead
<1> QED
  BY <1>4 DEF Suppressed, SuppressedFrom, Passing

LEMMA ShowTextHolds ==
  ASSUME TextInv, T!ShowText, tools, T!Claims(buffer)
  PROVE  TextInv' /\ UNCHANGED <<shown, buffer, called>>
<1>1. Untouched /\ step = "parse"
  BY ParsingIs DEF T!ShowText
<1>2. TextShape /\ LeadInv /\ OnePieceInv
  BY DEF TextInv
<1>3. /\ T!Marker(buffer, markdown) = 0 /\ step' = T!Returned
      /\ UNCHANGED <<activated, called, refused>>
  BY DEF T!ShowText, T!At
<1>4. /\ buffer \in Seq(T!Token) /\ shown \in Seq(T!Token) /\ markdown \in MarkdownState
      /\ Len(buffer) \in Nat
  BY <1>2, LenProperties DEF TextShape
<1>5. /\ T!Pending(buffer) = Len(buffer)
      /\ Len(buffer) - T!Pending(buffer) = 0 /\ Len(buffer) - T!Pending(buffer) + 1 = 1
  BY <1>4 DEF T!Pending
<1>6. T!Before(buffer, 1) = <<>> /\ T!From(buffer, 1) = buffer
      /\ T!Before(buffer, 1) = SubSeq(buffer, 1, 0)
  BY <1>4, WholeAndNothing DEF T!Before
<1>7. T!Show(<<>>) /\ buffer' = buffer
  BY <1>5, <1>6 DEF T!ShowText
<1>8. ~T!Claims(<<>>)
  BY EmptySeq DEF T!Claims, T!Contains
<1>9. shown' = shown /\ markdown' = markdown
  BY <1>4, <1>7, <1>8, ConcatEmptySeq, AdvanceOfNothing DEF T!Show
<1>10. ASSUME ~called, WholeCall PROVE FALSE
  <2>1. LeadingCall /\ Len(text) # 1
    BY <1>2, <1>10, WholeLeads
  <2>2. shown = <<>> /\ buffer = text
    BY <1>1, <1>2, <1>10, <2>1 DEF LeadInv
  <2> QED
    BY <1>2, <1>3, <2>1, <2>2, MarkerLeads
<1>11. ASSUME ~called, OnePiece PROVE FALSE
  BY <1>1, <1>3, <1>11, OnePieceAt DEF AtFirst, Activated, ProseShown
<1> QED
  BY <1>1, <1>3, <1>7, <1>9, <1>10, <1>11, StillKeeps

LEMMA ShowTextKeeps == TextInv /\ T!ShowText => TextInv'
<1> SUFFICES ASSUME TextInv, T!ShowText, ~(tools /\ T!Claims(buffer)) PROVE TextInv'
  BY ShowTextHolds
<1>1. Untouched /\ step = "parse"
  BY ParsingIs DEF T!ShowText
<1>2. TextShape /\ OpenInv /\ CalledInv /\ EndInv /\ LeadInv /\ OnePieceInv
  BY DEF TextInv
<1> DEFINE k == Len(buffer) - T!Pending(buffer) + 1
<1>3. buffer \in Seq(T!Token) /\ Len(buffer) \in Nat
  BY <1>2, LenProperties DEF TextShape
<1>4. /\ k \in 1 .. Len(buffer) + 1 /\ k - 1 = Len(buffer) - T!Pending(buffer)
      /\ Len(buffer) - k + 1 <= 1
      /\ k <= Len(buffer) => buffer[k] = "head" /\ T!EndsIn(buffer, {"head"})
      /\ ~T!EndsIn(buffer, {"head"}) => k = Len(buffer) + 1
  <2>1. CASE T!EndsIn(buffer, {"head"})
    <3>1. buffer # <<>> /\ T!Last(buffer) = "head" /\ T!Pending(buffer) = 1
      BY <2>1 DEF T!EndsIn, T!Pending
    <3>2. Len(buffer) # 0
      BY <1>3, <3>1, EmptySeq
    <3>3. k = Len(buffer)
      BY <1>3, <3>1
    <3>4. buffer[k] = "head"
      BY <3>1, <3>3 DEF T!Last
    <3>5. k \in 1 .. Len(buffer) + 1 /\ k - 1 = Len(buffer) - 1 /\ Len(buffer) - k + 1 <= 1
      <4> DEFINE n == Len(buffer)
      <4>1. n \in Nat /\ n # 0 /\ k = n
        BY <1>3, <3>2, <3>3
      <4> HIDE DEF n, k
      <4>2. k \in 1 .. n + 1 /\ k - 1 = n - 1 /\ n - k + 1 <= 1
        BY <4>1
      <4> QED
        BY <4>2 DEF n
    <3>6. k - 1 = Len(buffer) - T!Pending(buffer)
      BY <3>1, <3>5
    <3> HIDE DEF k
    <3> QED
      BY <2>1, <3>4, <3>5, <3>6
  <2>2. CASE ~T!EndsIn(buffer, {"head"})
    <3>1. T!Pending(buffer) = 0
      BY <2>2 DEF T!Pending
    <3>2. k = Len(buffer) + 1 /\ k - 1 = Len(buffer) - T!Pending(buffer)
      BY <1>3, <3>1
    <3> HIDE DEF k
    <3> QED
      BY <1>3, <2>2, <3>2
  <2> QED
    BY <2>1, <2>2
<1>5. T!Show(T!Before(buffer, k)) /\ buffer' = T!From(buffer, k)
  <2>1. T!Show(SubSeq(buffer, 1, Len(buffer) - T!Pending(buffer)))
        /\ buffer' = T!From(buffer, Len(buffer) - T!Pending(buffer) + 1)
    BY DEF T!ShowText
  <2>2. T!Before(buffer, k) = SubSeq(buffer, 1, Len(buffer) - T!Pending(buffer))
    BY <1>4 DEF T!Before
  <2> QED
    BY <2>1, <2>2
<1>12. ~called => Shows(T!Before(buffer, k))
  BY <1>5, ShowIs
<1> HIDE DEF k
<1>6. /\ shown' \in Seq(T!Token) /\ markdown' \in MarkdownState
      /\ shown' = <<>> => markdown' = T!Plain
  BY <1>2, <1>4, <1>5, ShowIs, ShowingTyped
<1>7. buffer' \in Seq(T!Token) /\ Len(buffer') = Len(buffer) - k + 1
  BY <1>3, <1>4, <1>5, FromIs
<1>8. /\ T!Marker(buffer, markdown) = 0 /\ step' = T!Returned
      /\ UNCHANGED <<activated, called, refused>>
  BY DEF T!ShowText, T!At
<1>9. TextShape'
  BY <1>1, <1>2, <1>6, <1>7, <1>8, ReturnedIs, ShapeStays DEF TextShape
<1>10. CASE called
  <2>1. ASSUME ~torn PROVE CallInContext'
    <3>1. CallInContext
      BY <1>2, <1>10, <2>1 DEF CalledInv
    <3>2. k = Len(buffer) + 1
      BY <1>1, <1>2, <1>4, <3>1, CalledHasNoMarker
    <3>3. T!Before(buffer, k) = buffer /\ T!From(buffer, k) = <<>>
      BY <1>3, <3>2, WholeAndNothing
    <3>9. ~T!Claims(buffer)
      BY <1>2, <1>10 DEF TextShape
    <3>4. buffer' = <<>> /\ shown' = shown \o buffer
      BY <1>5, <3>3, <3>9 DEF T!Show
    <3>5. step' = "leftover"
      BY <1>2, <1>8, <1>10 DEF TextShape, T!Returned
    <3>6. PICK s \in T!Spared : shown = s /\ buffer = T!After
      BY <1>1, <3>1 DEF CallInContext
    <3>7. shown' = s \o T!After
      BY <3>4, <3>6
    <3>8. T!Where' = T!Where /\ T!Spared' = T!Spared /\ T!After' = T!After /\ T!Where # 0
      BY <1>1, <3>1, TextStays DEF Untouched, CallInContext
    <3> QED
      BY <3>4, <3>5, <3>6, <3>7, <3>8 DEF CallInContext
  <2> QED
    BY <1>1, <1>8, <1>9, <1>10, <2>1, CalledStays DEF TextInv
<1>11. CASE ~called
  <2>1. InStep \/ Suppressed \/ Passing
    <3>1. ASSUME Dropped PROVE FALSE
      <4>1. T!Where # 0 /\ buffer = T!From(text, T!Where) /\ markdown = T!Plain
        BY <1>2, <3>1 DEF Dropped, TextShape
      <4> QED
        BY <1>2, <1>8, <4>1, PlainExecutes, MarkerInFront
    <3> QED
      BY <1>1, <1>2, <1>11, <3>1 DEF OpenInv
  <2>2. InStep' \/ Passing'
    <3>1. CASE InStep
      BY <1>1, <1>2, <1>4, <1>5, <1>11, <1>12, <3>1, Showing DEF Untouched
    <3>2. CASE Suppressed \/ Passing
      <4>1. ~T!EndsIn(buffer, {"head"})
        BY <1>2, <3>2, SuppressedEnds, HeadlessHasNoMarker DEF Passing, TextShape
      <4>2. k = Len(buffer) + 1
        BY <1>4, <4>1
      <4>3. T!Before(buffer, k) = buffer /\ T!From(buffer, k) = <<>>
        BY <1>3, <4>2, WholeAndNothing
      <4> QED
        BY <1>1, <1>2, <1>5, <1>11, <1>12, <3>2, <4>3, Passes
    <3> QED
      BY <2>1, <3>1, <3>2
  <2>3. OpenInv' /\ CalledInv'
    BY <1>8, <1>11, <2>2 DEF OpenInv, CalledInv
  <2>4. T!Marker(buffer', markdown') = 0
    <3> SUFFICES ASSUME T!Marker(buffer', markdown') # 0 PROVE FALSE
      OBVIOUS
    <3>1. MarkerAt(buffer', markdown', T!Marker(buffer', markdown'))
      BY MarkerIs
    <3> QED
      BY <1>3, <1>4, <1>7, <3>1 DEF MarkerAt, T!Called
  <2>5. EndInv'
    BY <1>8, <2>4, ReturnedIs DEF EndInv
  <2>6. LeadingCall => shown = <<>> /\ buffer = text /\ Len(text) = 1
    <3>1. LeadingCall => shown = <<>> /\ buffer = text
      BY <1>1, <1>2, <1>11 DEF LeadInv
    <3> QED
      BY <1>2, <1>8, <3>1, MarkerLeads
  <2>7. LeadInv'
    <3>1. (LeadingCall' <=> LeadingCall) /\ (WholeCall' <=> WholeCall)
      BY <1>1, TextStays DEF Untouched
    <3>2. ~WholeCall
      BY <1>2, <2>6, WholeLeads
    <3>3. ASSUME LeadingCall PROVE shown' = <<>> /\ buffer' = text
      <4>1. shown = <<>> /\ buffer = text /\ Len(text) = 1 /\ text[1] = "head" /\ text # <<>>
        BY <2>6, <3>3 DEF LeadingCall
      <4>2. T!Pending(buffer) = 1
        BY <4>1 DEF T!Pending, T!EndsIn, T!Last
      <4>3. k = 1
        BY <4>1, <4>2 DEF k
      <4>4. T!Before(buffer, k) = <<>> /\ T!From(buffer, k) = buffer
        BY <1>3, <4>3, WholeAndNothing
      <4>5. shown' = <<>> \o <<>> /\ buffer' = text
        BY <1>5, <1>11, <1>12, <4>1, <4>4 DEF Shows
      <4> QED
        BY <4>5
    <3> QED
      BY <1>1, <3>1, <3>2, <3>3 DEF LeadInv, Untouched
  <2>8. OnePieceInv'
    <3>1. ASSUME OnePiece PROVE FALSE
      BY <1>1, <1>8, <1>11, <3>1, OnePieceAt DEF AtFirst, Activated, ProseShown
    <3>2. OnePiece' <=> OnePiece
      BY <1>1, TextStays DEF Untouched, OnePiece
    <3> QED
      BY <3>1, <3>2 DEF OnePieceInv
  <2> QED
    BY <1>9, <2>3, <2>5, <2>7, <2>8 DEF TextInv
<1> QED
  BY <1>10, <1>11

LEMMA SyncShown ==
  ASSUME TextShape, OnePiece, T!Where > 1, literal \/ ~T!Announces(Prose)
  PROVE  T!SyncOutcome = "shown"
<1>1. T!Marker(text, T!Plain) = T!Where /\ T!Closed(text, T!Where) /\ T!Before(text, T!Where) = Prose
  BY DEF OnePiece, T!Where, Prose
<1>2. ~T!Blank(Prose)
  <2>1. Prose \in Seq(T!Token) /\ Len(Prose) = T!Where - 1 /\ T!Where \in 1 .. Len(text)
        /\ Len(text) \in Nat
    BY WhereIs
  <2>2. 1 \in 1 .. Len(Prose)
    BY <2>1
  <2>3. Prose[1] = text[1]
    <3>1. T!Where \in 1 .. Len(text) + 1 /\ 1 \in 1 .. T!Where - 1
      BY <2>1
    <3> QED
      BY <3>1, BeforeIs DEF Prose, TextShape
  <2>4. Head(text) = text[1] /\ Head(text) # "\n"
    BY DEF OnePiece
  <2> QED
    BY <2>2, <2>3, <2>4 DEF T!Blank
<1>3. T!Classify(text, FALSE, FALSE) = "pass"
  BY <1>1, <1>2 DEF T!Classify
<1> QED
  BY <1>1, <1>3 DEF T!SyncOutcome

\* What is kept back of the text has its claim suppressed.
LEMMA ClaimThere ==
  ASSUME TextShape, text = shown \o buffer, NEW i, i > 1,
         i \in 1 .. Len(buffer), buffer[i] = "head", T!Called(buffer, i),
         T!Claims(T!Before(buffer, i)), NEW j, j = Len(shown) + 1, NEW h, h = Len(shown) + i
  PROVE  /\ ClaimIn(text, j, h) /\ j \in Nat /\ h \in Nat
         /\ shown = T!Before(text, j) /\ T!From(buffer, i) = T!From(text, h)
<1>1. /\ shown \in Seq(T!Token) /\ buffer \in Seq(T!Token)
      /\ Len(shown) \in Nat /\ Len(buffer) \in Nat
  BY LenProperties DEF TextShape
<1>2. /\ text \in Seq(T!Token) /\ Len(text) = Len(shown) + Len(buffer)
      /\ \A n \in 1 .. Len(shown) + Len(buffer) :
           text[n] = IF n <= Len(shown) THEN shown[n] ELSE buffer[n - Len(shown)]
  BY <1>1, ConcatProperties
<1>3. ASSUME NEW n \in 1 .. Len(buffer)
      PROVE  Len(shown) + n \in 1 .. Len(text) /\ text[Len(shown) + n] = buffer[n]
  <2>1. /\ Len(shown) + n \in 1 .. Len(shown) + Len(buffer) /\ ~(Len(shown) + n <= Len(shown))
        /\ (Len(shown) + n) - Len(shown) = n
    BY <1>1
  <2> QED
    BY <1>2, <2>1
<1>4. h \in 1 .. Len(text) /\ text[h] = "head" /\ h \in Nat /\ j \in Nat /\ j \in 1 .. h - 1
  BY <1>1, <1>3
<1>5. T!Called(text, h)
  <2>1. i < Len(buffer) /\ buffer[i + 1] = "call" /\ i + 1 \in 1 .. Len(buffer)
        /\ Len(shown) + (i + 1) = h + 1
    BY <1>1 DEF T!Called
  <2>2. text[h + 1] = "call" /\ h < Len(text)
    BY <1>1, <1>2, <1>3, <2>1
  <2> QED
    BY <2>2 DEF T!Called
<1>6. shown = T!Before(text, j)
  <2>1. Len(shown) + 1 \in 1 .. Len(shown) + 1 /\ 1 \in 1 .. Len(buffer) + 1
    BY <1>1
  <2>2. T!Before(shown \o buffer, Len(shown) + 1) = shown \o T!Before(buffer, 1)
    BY <1>1, <2>1, BeforeOfConcat
  <2>3. T!Before(buffer, 1) = <<>> /\ shown \o <<>> = shown
    BY <1>1, WholeAndNothing, ConcatEmptySeq
  <2> QED
    BY <2>2, <2>3
<1>7. T!From(buffer, i) = T!From(text, h)
  <2>1. i \in 1 .. Len(buffer) + 1
    BY <1>1
  <2>2. T!From(shown \o buffer, Len(shown) + i) = T!From(buffer, i)
    BY <1>1, <2>1, FromOfConcat
  <2> QED
    BY <2>2
<1>8. T!Claims(SubSeq(text, j, h - 1))
  <2> DEFINE z == T!Before(buffer, i)
             u == SubSeq(text, j, h - 1)
  <2>1. Len(z) = i - 1 /\ \A n \in 1 .. i - 1 : z[n] = buffer[n]
    BY <1>1, BeforeIs
  <2>2. Len(u) = i - 1 /\ \A n \in 1 .. i - 1 : u[n] = text[j + n - 1]
    BY <1>1, <1>2, <1>4
  <2>3. PICK n \in 1 .. Len(z) : z[n] = "done"
    BY DEF T!Claims, T!Contains
  <2>4. n \in 1 .. i - 1 /\ n \in 1 .. Len(buffer) /\ j + n - 1 = Len(shown) + n
    BY <1>1, <2>1
  <2> HIDE DEF z, u
  <2>5. n \in 1 .. Len(u) /\ u[n] = "done"
    BY <1>3, <2>1, <2>2, <2>3, <2>4
  <2> QED
    BY <2>5 DEF T!Claims, T!Contains, u
<1> QED
  BY <1>4, <1>5, <1>6, <1>7, <1>8 DEF ClaimIn

LEMMA SuppressedThere ==
  ASSUME TextShape, InStep, NEW i, i > 1, Kept(shown, i), T!Claims(T!Before(buffer, i)),
         UNCHANGED <<text, torn, shown>>, buffer' = T!From(buffer, i)
  PROVE  Suppressed'
<1>1. /\ i \in 1 .. Len(buffer) /\ buffer[i] = "head" /\ T!Called(buffer, i)
      /\ text = shown \o buffer /\ (~torn \/ shown = <<>> => T!Where = Len(shown) + i)
  BY DEF Kept, InStep, T!Called
<1>2. PICK j \in Nat, h \in Nat :
        /\ ClaimIn(text, j, h) /\ h = Len(shown) + i
        /\ shown = T!Before(text, j) /\ T!From(buffer, i) = T!From(text, h)
  BY <1>1, ClaimThere
<1>3. T!Where' = T!Where
  BY DEF T!Where
<1>4. SuppressedFrom(j, h)'
  BY <1>1, <1>2, <1>3 DEF SuppressedFrom
<1> QED
  BY <1>2, <1>4 DEF Suppressed

LEMMA ShowBeforeKeeps == TextInv /\ T!ShowBefore => TextInv'
<1> SUFFICES ASSUME TextInv, T!ShowBefore PROVE TextInv'
  OBVIOUS
<1>1. Untouched /\ step = "parse"
  BY ParsingIs DEF T!ShowBefore
<1>2. TextShape /\ OpenInv /\ CalledInv /\ EndInv /\ LeadInv /\ OnePieceInv
  BY DEF TextInv
<1> DEFINE i == T!Marker(buffer, markdown)
<1>3. /\ i > 1 /\ ~T!Announced /\ T!Introduce(T!Before(buffer, i)) /\ buffer' = T!From(buffer, i)
      /\ UNCHANGED <<activated, called, refused, step>>
  BY DEF T!ShowBefore, T!At
<1>4. MarkerAt(buffer, markdown, i)
  BY <1>3, MarkerIs
<1> HIDE DEF i
<1>5. /\ buffer \in Seq(T!Token) /\ Len(buffer) \in Nat
      /\ i \in 1 .. Len(buffer) + 1 /\ i \in 1 .. Len(buffer) /\ buffer[i] = "head"
  BY <1>2, <1>4, LenProperties DEF TextShape, MarkerAt
<1>6. /\ shown' \in Seq(T!Token) /\ markdown' \in MarkdownState
      /\ shown' = <<>> => markdown' = T!Plain
  BY <1>2, <1>3, <1>5, IntroduceIs, ShowingTyped
<1>7. buffer' \in Seq(T!Token)
  BY <1>3, <1>5, FromIs
<1>8. TextShape'
  BY <1>1, <1>2, <1>3, <1>6, <1>7, ShapeStays DEF TextShape
<1>9. CASE called
  <2>1. torn
    <3>1. ASSUME ~torn PROVE FALSE
      <4>1. CallInContext
        BY <1>2, <1>9, <3>1 DEF CalledInv
      <4> QED
        BY <1>1, <1>2, <1>3, <4>1, CalledHasNoMarker DEF i
    <3> QED
      BY <3>1
  <2> QED
    BY <1>1, <1>3, <1>8, <1>9, <2>1, CalledStays DEF TextInv
<1>10. CASE ~called
  <2>8. InStep \/ Dropped \/ Suppressed
    <3>1. ~Passing
      BY <1>2, <1>3, HeadlessHasNoMarker DEF Passing, TextShape, i
    <3> QED
      BY <1>1, <1>2, <1>10, <3>1 DEF OpenInv
  <2>1. PICK f : Ahead(f)
    BY <1>2, <2>8, AheadIs
  <2>2. Kept(f, i)
    BY <1>2, <1>3, <2>1, MarkerKept DEF i
  <2>3. InStep /\ f = shown
    BY <1>3, <2>1, <2>2 DEF Kept, Ahead, Suppressed
  <2>4. InStep' \/ Suppressed'
    <3>1. CASE T!Claims(T!Before(buffer, i))
      <4>1. UNCHANGED <<shown, markdown>>
        BY <1>3, <3>1, IntroduceIs
      <4>2. Suppressed'
        BY <1>1, <1>2, <1>3, <2>2, <2>3, <3>1, <4>1, SuppressedThere DEF Untouched
      <4> QED
        BY <4>2
    <3>2. CASE ~T!Claims(T!Before(buffer, i))
      BY <1>1, <1>2, <1>3, <1>5, <2>3, <3>2, IntroduceIs, Showing DEF Untouched
    <3> QED
      BY <3>1, <3>2
  <2>5. OpenInv' /\ CalledInv' /\ EndInv'
    BY <1>1, <1>3, <1>10, <2>4 DEF OpenInv, CalledInv, EndInv
  <2>6. LeadInv'
    <3>1. (LeadingCall' <=> LeadingCall) /\ (WholeCall' <=> WholeCall)
      BY <1>1, TextStays DEF Untouched
    <3>2. ASSUME LeadingCall PROVE FALSE
      <4>1. buffer = text /\ text[1] = "head" /\ OneHead(text) /\ 1 \in 1 .. Len(buffer)
        BY <1>1, <1>2, <1>5, <1>10, <3>2, WhereIs DEF LeadInv, LeadingCall
      <4> QED
        BY <1>3, <1>5, <4>1 DEF OneHead
    <3> QED
      BY <1>1, <1>3, <3>1, <3>2 DEF LeadInv
  <2>7. OnePieceInv'
    <3>1. (OnePiece' <=> OnePiece) /\ T!SyncOutcome' = T!SyncOutcome
          /\ T!Where' = T!Where /\ Prose' = Prose /\ text' = text
      BY <1>1, TextStays DEF Untouched, OnePiece
    <3> SUFFICES ASSUME OnePiece PROVE OnePieceStage'
      BY <1>1, <1>2, <1>3, <1>10, <3>1 DEF OnePieceInv, TextShape
    <3>2. AtFirst /\ ~torn
      BY <1>1, <1>3, <1>10, OnePieceAt DEF i, Activated, ProseShown
    <3>3. T!Where = i /\ shown = <<>> /\ buffer = text
      BY <3>2 DEF AtFirst, i
    <3>4. T!Before(buffer, i) = Prose
      BY <3>3 DEF Prose
    <3>9. Shows(Prose)
      BY <1>3, <3>4, IntroduceIs DEF OnePiece
    <3>10. T!Executable(markdown')
      <4>1. markdown' = T!Advance(markdown, T!Before(buffer, i))
        BY <3>4, <3>9 DEF Shows
      <4> QED
        BY <1>4, <4>1 DEF MarkerAt
    <3>5. shown' = Prose /\ buffer' = T!From(text, T!Where)
      <4>1. shown' = <<>> \o Prose
        BY <3>3, <3>9 DEF Shows
      <4>2. Prose \in Seq(T!Token)
        BY <1>2, <1>3, <3>3, WhereIs
      <4> QED
        BY <1>3, <3>3, <4>1, <4>2, ConcatEmptySeq
    <3>6. literal \/ ~T!Announces(Prose)
      BY <1>3, <1>10, <3>3, <3>4 DEF T!Announced, T!At, i
    <3>7. T!SyncOutcome = "shown"
      BY <1>2, <1>3, <3>3, <3>6, SyncShown
    <3>8. ~activated' /\ step' = "parse" /\ T!Where > 1
      BY <1>1, <1>3, <3>2, <3>3 DEF AtFirst
    <3> QED
      BY <3>1, <3>5, <3>7, <3>8, <3>10 DEF OnePieceStage
  <2> QED
    BY <1>8, <2>5, <2>6, <2>7 DEF TextInv
<1> QED
  BY <1>9, <1>10

LEMMA KeepKeeps == TextInv /\ T!Keep => TextInv'
<1> SUFFICES ASSUME TextInv, T!Keep PROVE TextInv'
  OBVIOUS
<1>1. Untouched /\ step = "parse"
  BY ParsingIs DEF T!Keep
<1>2. TextShape /\ OpenInv /\ LeadInv
  BY DEF TextInv
<1>3. /\ T!Marker(buffer, markdown) = 1 /\ step' = T!Returned
      /\ flushing => ~T!Closed(buffer, 1)
      /\ UNCHANGED <<shown, markdown, buffer, activated, called, refused>>
  BY DEF T!Keep, T!At, T!ShowNothing
<1>4. ASSUME flushing, ~called
      PROVE  /\ literal /\ T!Marker(buffer, markdown) # 0 => ~HasClosed
             /\ ~(WholeCall /\ ~literal) /\ ~OnePiece
  <2>1. InStep \/ Dropped \/ Suppressed
    <3>1. Passing => T!Marker(buffer, markdown) = 0
      BY <1>2, HeadlessHasNoMarker DEF Passing, TextShape
    <3> QED
      BY <1>1, <1>2, <1>3, <1>4, <3>1 DEF OpenInv
  <2>2. PICK f : Ahead(f)
    BY <1>2, <2>1, AheadIs
  <2>3. Kept(f, 1)
    BY <1>2, <1>3, <2>2, MarkerKept
  <2>4. ~HasClosed
    BY <1>3, <1>4, <2>3 DEF Kept
  <2>5. ~WholeCall
    <3>1. LeadingCall => buffer = text
      BY <1>1, <1>2, <1>4 DEF LeadInv
    <3> QED
      BY <1>2, <1>3, <1>4, <3>1, WholeLeads
  <2>6. ~OnePiece
    <3> SUFFICES ASSUME OnePiece PROVE FALSE
      OBVIOUS
    <3>1. T!Closed(text, T!Where) /\ T!Where # 0
      BY DEF OnePiece
    <3>2. T!Where \in 1 .. Len(text)
      BY <1>2, <3>1, WhereIs
    <3> QED
      BY <2>4, <3>1, <3>2 DEF HasClosed
  <2> QED
    BY <2>4, <2>5, <2>6
<1> QED
  BY <1>1, <1>3, <1>4, StillKeeps

LEMMA AnnouncedAt ==
  ASSUME TextInv, T!Announced, step = "parse"
  PROVE  /\ ~called /\ ~literal /\ shown = <<>> /\ buffer = text /\ InStep
         /\ T!Marker(buffer, markdown) = T!Where /\ T!Where > 1
         /\ T!Marker(text, T!Plain) = T!Where
         /\ T!Announces(Prose) /\ T!Before(buffer, T!Where) = Prose
         /\ ~LeadingCall
<1>1. TextShape /\ OpenInv /\ LeadInv
  BY DEF TextInv
<1> DEFINE i == T!Marker(buffer, markdown)
<1>2. i > 1 /\ shown = <<>> /\ ~called /\ T!Announces(T!Before(buffer, i)) /\ ~literal
  BY DEF T!Announced, T!At
<1>11. ~Passing
  BY <1>1, <1>2, HeadlessHasNoMarker DEF Passing, TextShape
<1>3. PICK f : Ahead(f)
  BY <1>1, <1>2, <1>11, AheadIs DEF OpenInv
<1>4. Kept(f, i)
  BY <1>1, <1>2, <1>3, MarkerKept
<1> HIDE DEF i
<1>5. InStep /\ f = shown
  BY <1>2, <1>3, <1>4 DEF Kept, Ahead, Suppressed
<1>6. buffer = text
  <2>1. buffer \in Seq(T!Token) /\ text = <<>> \o buffer
    BY <1>1, <1>2, <1>5 DEF InStep, TextShape
  <2> QED
    BY <2>1, ConcatEmptySeq
<1>7. markdown = T!Plain
  BY <1>1, <1>2 DEF TextShape
<1>8. T!Where = i /\ T!Marker(text, T!Plain) = i
  BY <1>6, <1>7 DEF T!Where, i
<1>9. T!Before(buffer, i) = Prose
  BY <1>6, <1>8 DEF Prose
<1>10. ~LeadingCall
  <2> SUFFICES ASSUME LeadingCall PROVE FALSE
    OBVIOUS
  <2>1. /\ text[1] = "head" /\ OneHead(text) /\ i \in 1 .. Len(text) /\ text[i] = "head"
    BY <1>1, <1>4, <1>6, WhereIs DEF LeadingCall, Kept
  <2>2. 1 \in 1 .. Len(text)
    BY <1>1, <2>1, WhereIs
  <2> QED
    BY <1>2, <2>1, <2>2 DEF OneHead
<1> QED
  BY <1>2, <1>5, <1>6, <1>8, <1>9, <1>10 DEF i

LEMMA JudgeAnnouncedKeeps == TextInv /\ T!JudgeAnnounced => TextInv'
<1> SUFFICES ASSUME TextInv, T!JudgeAnnounced PROVE TextInv'
  OBVIOUS
<1>1. Untouched /\ step = "parse" /\ T!Announced
  BY ParsingIs DEF T!JudgeAnnounced
<1>2. TextShape /\ OpenInv /\ CalledInv /\ EndInv /\ LeadInv /\ OnePieceInv
  BY DEF TextInv
<1>3. /\ ~called /\ ~literal /\ shown = <<>> /\ buffer = text /\ InStep
      /\ T!Marker(buffer, markdown) = T!Where /\ T!Where > 1
      /\ T!Marker(text, T!Plain) = T!Where
      /\ T!Announces(Prose) /\ T!Before(buffer, T!Where) = Prose
      /\ ~LeadingCall
  BY <1>1, AnnouncedAt
<1>4. UNCHANGED <<shown, markdown, called>>
  BY DEF T!JudgeAnnounced, T!ShowNothing
<1>5. /\ T!Where' = T!Where /\ Prose' = Prose /\ T!SyncOutcome' = T!SyncOutcome
      /\ (HasClosed' <=> HasClosed) /\ (LeadingCall' <=> LeadingCall)
      /\ (WholeCall' <=> WholeCall)
      /\ (OnePiece' <=> OnePiece) /\ text' = text /\ torn' = torn
  BY <1>1, TextStays DEF Untouched, OnePiece
<1>6. ~WholeCall
  BY <1>2, <1>3, WholeLeads
<1>7. LeadInv'
  BY <1>3, <1>5, <1>6 DEF LeadInv
<1>8. CalledInv'
  BY <1>3, <1>4 DEF CalledInv
<1>9. OnePiece => AtFirst
  BY <1>1, <1>3, OnePieceAt DEF Activated, ProseShown
<1> DEFINE d == T!Classify(buffer, FALSE, activated)
<1>10. \/ d = "reject" /\ T!Reject /\ activated' = activated
       \/ /\ d = "parse" /\ buffer' = T!From(buffer, T!Where) /\ activated' = TRUE
          /\ refused' = refused /\ step' = step
       \/ /\ d = "pass" /\ step' = T!Returned
          /\ UNCHANGED <<buffer, activated, refused>>
  BY <1>3 DEF T!JudgeAnnounced, T!At
<1>11. ~activated => d = T!Classify(text, FALSE, FALSE)
  BY <1>3 DEF T!Classify
<1>12. T!Marker(buffer, T!Plain) = T!Where
  BY <1>3
<1>13. d = "parse" => activated \/ offered
  BY <1>12 DEF T!Classify
<1>14. ~activated /\ OnePiece => d # "pass"
  BY <1>3, <1>12 DEF T!Classify, OnePiece, T!After
<1>15. buffer \in Seq(T!Token) /\ text # <<>> /\ T!From(text, T!Where) \in Seq(T!Token)
  <2>1. T!Where \in 1 .. Len(text) /\ T!From(text, T!Where) \in Seq(T!Token)
    BY <1>2, <1>3, WhereIs
  <2>2. text # <<>>
    BY <2>1, EmptySeq
  <2> QED
    BY <1>2, <2>1, <2>2 DEF TextShape
<1> HIDE DEF d
<1>16. CASE d = "reject" /\ T!Reject /\ activated' = activated
  <2>1. buffer' = <<>> /\ refused' = "rejected" /\ step' = "done"
    BY <1>16 DEF T!Reject
  <2>2. TextShape'
    BY <1>1, <1>2, <1>3, <1>4, <1>16, <2>1, EmptySeq, ShapeStays DEF TextShape
  <2>3. OpenInv' /\ EndInv'
    BY <2>1 DEF OpenInv, EndInv
  <2>4. OnePieceInv'
    <3> SUFFICES ASSUME OnePiece PROVE T!SyncOutcome = "rejected"
      BY <1>3, <1>4, <1>5, <2>1 DEF OnePieceInv
    <3> QED
      BY <1>9, <1>11, <1>16 DEF AtFirst, T!SyncOutcome
  <2> QED
    BY <1>7, <1>8, <2>2, <2>3, <2>4 DEF TextInv
<1>17. CASE /\ d = "parse" /\ buffer' = T!From(buffer, T!Where) /\ activated' = TRUE
            /\ refused' = refused /\ step' = step
  <2>1. TextShape'
    BY <1>1, <1>2, <1>3, <1>4, <1>13, <1>15, <1>17, ShapeStays DEF TextShape
  <2>2. Dropped'
    BY <1>3, <1>4, <1>5, <1>17 DEF Dropped
  <2>3. OpenInv' /\ EndInv'
    BY <1>1, <1>17, <2>2 DEF OpenInv, EndInv
  <2>4. OnePieceInv'
    <3> SUFFICES ASSUME OnePiece PROVE OnePieceStage'
      BY <1>1, <1>2, <1>3, <1>4, <1>5, <1>17 DEF OnePieceInv, TextShape
    <3>1. T!SyncOutcome = "called"
      BY <1>9, <1>11, <1>17 DEF AtFirst, T!SyncOutcome
    <3> QED
      BY <1>1, <1>3, <1>4, <1>5, <1>17, <3>1 DEF OnePieceStage
  <2> QED
    BY <1>7, <1>8, <2>1, <2>3, <2>4 DEF TextInv
<1>18. CASE /\ d = "pass" /\ step' = T!Returned
            /\ UNCHANGED <<buffer, activated, refused>>
  <2>1. TextShape'
    BY <1>1, <1>2, <1>3, <1>4, <1>15, <1>18, ReturnedIs, ShapeStays DEF TextShape
  <2>2. InStep'
    BY <1>3, <1>4, <1>5, <1>18 DEF InStep
  <2>3. OpenInv' /\ EndInv'
    BY <1>1, <1>3, <1>18, <2>2, ReturnedIs DEF OpenInv, EndInv, Untouched
  <2>4. OnePieceInv'
    BY <1>5, <1>9, <1>14, <1>18 DEF OnePieceInv, AtFirst
  <2> QED
    BY <1>7, <1>8, <2>1, <2>3, <2>4 DEF TextInv
<1> QED
  BY <1>10, <1>16, <1>17, <1>18

LEMMA JudgeMarkerKeeps == TextInv /\ T!JudgeMarker => TextInv'
<1> SUFFICES ASSUME TextInv, T!JudgeMarker PROVE TextInv'
  OBVIOUS
<1>1. Untouched /\ step = "parse"
  BY ParsingIs DEF T!JudgeMarker
<1>2. TextShape /\ OpenInv /\ CalledInv /\ EndInv /\ LeadInv /\ OnePieceInv
  BY DEF TextInv
<1> DEFINE d == T!Classify(buffer, shown # <<>>, activated)
<1>3. /\ T!Marker(buffer, markdown) = 1 /\ flushing /\ T!Closed(buffer, 1)
      /\ \/ /\ d = "reject" /\ T!Reject
            /\ UNCHANGED <<shown, markdown, activated, called>>
         \/ /\ d = "parse" /\ activated' = TRUE /\ called' = TRUE
            /\ buffer' = T!From(buffer, 4)
            /\ UNCHANGED <<shown, markdown, refused, step>>
         \/ /\ d = "pass" /\ T!Show(buffer) /\ buffer' = <<>> /\ step' = T!Returned
            /\ UNCHANGED <<activated, called, refused>>
  BY DEF T!JudgeMarker, T!At, T!ShowNothing
<1>4. MarkerAt(buffer, markdown, 1)
  BY <1>3, MarkerIs
<1>5. /\ buffer \in Seq(T!Token) /\ Len(buffer) \in Nat /\ 4 \in 1 .. Len(buffer) + 1
      /\ buffer[1] = "head" /\ Len(buffer) >= 2 /\ buffer[2] = "call" /\ buffer # <<>>
  BY <1>2, <1>3, <1>4, LenProperties, EmptySeq DEF TextShape, MarkerAt, T!Closed, T!Called
<1>6. T!From(buffer, 4) \in Seq(T!Token) /\ <<>> \in Seq(T!Token)
  BY <1>5, FromIs, EmptySeq
<1>7. T!Before(buffer, Len(buffer) + 1) = buffer /\ T!From(buffer, Len(buffer) + 1) = <<>>
      /\ T!Before(buffer, 1) = <<>> /\ Len(buffer) + 1 \in 1 .. Len(buffer) + 1
  BY <1>5, WholeAndNothing
<1>8. T!Show(buffer) =>
        /\ shown' \in Seq(T!Token) /\ markdown' \in MarkdownState
        /\ shown' = <<>> => markdown' = T!Plain
  BY <1>2, <1>7, ShowIs, ShowingTyped
<1>22. ~called => InStep \/ Dropped \/ Suppressed
  <2>1. Passing => T!Marker(buffer, markdown) = 0
    BY <1>5, HeadlessHasNoMarker DEF Passing
  <2> QED
    BY <1>1, <1>2, <1>3, <2>1 DEF OpenInv
<1>9. called \/ (T!Marker(buffer, T!Plain) = 1 /\ T!Blank(T!Before(buffer, 1)))
  <2> SUFFICES ASSUME ~called PROVE T!Marker(buffer, T!Plain) = 1 /\ T!Blank(T!Before(buffer, 1))
    OBVIOUS
  <2>1. PICK f : Ahead(f)
    BY <1>2, <1>22, AheadIs
  <2>2. OneHead(buffer)
    BY <1>2, <2>1, WhereIs, OneHeadOfPart DEF Ahead, TextShape
  <2>3. T!Marker(buffer, T!Plain) = 1
    BY <1>5, <2>2, PlainTyped, PlainExecutes, MarkerFirst
  <2> QED
    BY <1>7, <2>3, EmptySeq DEF T!Blank
<1>10. d = "parse" => ~literal /\ (activated \/ offered)
  BY DEF T!Classify
<1>11. d = "reject" => ~offered /\ ~literal
  BY DEF T!Classify
<1>12. ~called /\ activated => d = "parse"
  BY <1>2, <1>9 DEF T!Classify, TextShape
<1>13. ~called /\ shown # <<>> /\ ~activated => d = "pass"
  BY DEF T!Classify
<1>14. ~called /\ ~literal /\ shown = <<>> /\ T!Blank(T!From(buffer, 4)) => d # "pass"
  BY <1>3, <1>9 DEF T!Classify
<1>15. ~activated /\ shown = <<>> => d = T!Classify(buffer, FALSE, FALSE)
  BY DEF T!Classify
<1>16. \/ d = "parse"
       \/ d = "reject" /\ refused' = "rejected" /\ step' = "done" /\ buffer' = <<>>
       \/ d = "pass" /\ refused' = refused /\ step' = "leftover" /\ buffer' = <<>>
  BY <1>3 DEF T!Reject, T!Returned
<1> HIDE DEF d
<1>17. called => torn
  <2> SUFFICES ASSUME called, ~torn PROVE FALSE
    OBVIOUS
  <2>1. CallInContext
    BY <1>2 DEF CalledInv
  <2> QED
    BY <1>1, <1>2, <1>3, <2>1, CalledHasNoMarker
<1>18. chunks # 0
  <2>1. CASE called
    BY <1>2, <1>17, <2>1 DEF TextShape
  <2>2. CASE ~called
    <3>1. PICK f : Ahead(f)
      BY <1>2, <1>22, <2>2, AheadIs
    <3>2. text # <<>>
      BY <1>5, <3>1, ConcatEqualIffEmpty DEF Ahead
    <3> QED
      BY <1>2, <3>2 DEF TextShape
  <2> QED
    BY <2>1, <2>2
<1>19. TextShape'
  <2>1. /\ UNCHANGED <<literal, offered, tools, flushing, chunks>>
        /\ activated => offered /\ ~literal
        /\ called => offered /\ flushing
    BY <1>1, <1>2 DEF Untouched, TextShape
  <2>2. CASE d = "reject"
    <3>1. /\ refused' = "rejected" /\ step' = "done" /\ buffer' = <<>>
          /\ UNCHANGED <<shown, markdown, activated, called>>
      BY <1>3, <1>16, <2>2
    <3> QED
      BY <1>1, <1>2, <1>6, <2>1, <3>1, ShapeStays DEF TextShape
  <2>3. CASE d = "parse"
    <3>1. /\ activated' = TRUE /\ called' = TRUE /\ buffer' = T!From(buffer, 4)
          /\ UNCHANGED <<shown, markdown, refused, step>>
      BY <1>3, <2>3
    <3>2. offered /\ ~literal
      BY <1>10, <2>1, <2>3
    <3> QED
      BY <1>1, <1>2, <1>3, <1>6, <1>18, <2>1, <3>1, <3>2, ShapeStays DEF TextShape
  <2>4. CASE d = "pass"
    <3>1. /\ T!Show(buffer) /\ refused' = refused /\ step' = "leftover" /\ buffer' = <<>>
          /\ UNCHANGED <<activated, called>>
      BY <1>3, <1>16, <2>4
    <3>2. refused' = "none"
      BY <1>1, <1>2, <3>1 DEF TextShape
    <3> QED
      BY <1>1, <1>2, <1>3, <1>6, <1>8, <2>1, <3>1, <3>2, ShapeStays DEF TextShape
  <2> QED
    BY <1>16, <2>2, <2>3, <2>4
<1>20. CASE called
  <2>1. called'
    BY <1>3, <1>20
  <2>2. ~OnePiece
    BY <1>2, <1>17, <1>20 DEF OnePiece, TextShape
  <2> QED
    BY <1>1, <1>17, <1>19, <1>20, <2>1, <2>2, CalledStays DEF TextInv
<1>21. CASE ~called
  <2>1. PICK f : Ahead(f)
    BY <1>2, <1>21, <1>22, AheadIs
  <2>2. Kept(f, 1) /\ f \in Seq(T!Token)
    BY <1>2, <1>3, <2>1, MarkerKept DEF Ahead
  <2>3. /\ T!Where' = T!Where /\ Prose' = Prose /\ T!SyncOutcome' = T!SyncOutcome
        /\ T!After' = T!After /\ T!Spared' = T!Spared
        /\ (HasClosed' <=> HasClosed) /\ (LeadingCall' <=> LeadingCall)
        /\ (WholeCall' <=> WholeCall)
        /\ (OnePiece' <=> OnePiece) /\ text' = text /\ torn' = torn
    BY <1>1, TextStays DEF Untouched, OnePiece
  <2>4. LeadingCall => shown = <<>> /\ buffer = text
    BY <1>1, <1>2, <1>21 DEF LeadInv
  <2>5. WholeCall /\ ~literal => d # "pass"
    BY <1>2, <1>14, <1>21, <2>4, WholeLeads DEF WholeCall
  <2>6. OnePiece => AtFirst \/ Activated \/ ProseShown
    BY <1>1, <1>21, OnePieceAt
  <2>7. AtFirst => T!Classify(text, FALSE, FALSE) = d
    BY <1>15 DEF AtFirst
  <2>9. CASE d = "reject" /\ refused' = "rejected" /\ step' = "done" /\ buffer' = <<>>
    <3>1. called' = called
      BY <1>3, <2>9
    <3>2. OpenInv' /\ CalledInv' /\ EndInv'
      BY <1>21, <2>9, <3>1 DEF OpenInv, CalledInv, EndInv
    <3>3. LeadInv'
      BY <1>1, <1>11, <2>9 DEF LeadInv, Untouched
    <3>4. OnePieceInv'
      <4> SUFFICES ASSUME OnePiece PROVE T!SyncOutcome = "rejected"
        BY <1>21, <2>3, <2>9, <3>1 DEF OnePieceInv
      <4>1. AtFirst
        BY <1>12, <1>13, <1>21, <2>6, <2>9 DEF Activated, ProseShown
      <4> QED
        BY <2>7, <2>9, <4>1 DEF T!SyncOutcome
    <3> QED
      BY <1>19, <3>2, <3>3, <3>4 DEF TextInv
  <2>10. CASE d = "parse"
    <3>1. /\ called' /\ buffer' = T!From(buffer, 4) /\ activated' = TRUE
          /\ UNCHANGED <<shown, markdown, refused, step>>
      BY <1>3, <2>10
    <3>2. OpenInv' /\ EndInv' /\ LeadInv'
      BY <1>1, <3>1 DEF OpenInv, EndInv, LeadInv
    <3>3. ~literal /\ literal' = literal
      BY <1>1, <1>10, <2>10 DEF Untouched
    <3>4. ~torn => CallInContext'
      <4> SUFFICES ASSUME ~torn PROVE CallInContext'
        OBVIOUS
      <4> DEFINE rest == T!From(buffer, 4)
      <4>1. /\ T!Where = Len(f) + 1 /\ Prose = f \o T!Before(buffer, 1)
            /\ SameEnd(buffer, text, Len(f), 1)
        BY <2>2 DEF Kept
      <4>2. Prose = f
        BY <1>7, <2>2, <4>1, WholeAndNothing
      <4>3. T!Closed(text, T!Where) /\ T!From(buffer, 1 + 3) = T!From(text, T!Where + 3)
        BY <1>3, <4>1 DEF SameEnd
      <4>4. rest = T!After
        BY <4>3 DEF T!After
      <4>6. T!Where # 0
        BY <2>2, <4>1, LenProperties
      <4>5. shown \in T!Spared
        <5>1. CASE InStep /\ f = shown
          BY <1>2, <4>2, <4>6, <5>1, SparedIs
        <5>2. CASE Dropped
          BY <1>2, <4>6, <5>2, SparedIs DEF Dropped
        <5>3. ASSUME NEW a \in Nat, NEW b \in Nat, SuppressedFrom(b, a) PROVE shown \in T!Spared
          BY <1>2, <4>6, <5>3, SparedIs DEF SuppressedFrom
        <5> QED
          BY <2>1, <5>1, <5>2, <5>3 DEF Ahead
      <4> HIDE DEF rest
      <4>7. /\ shown' = shown /\ buffer' = T!After /\ step' = "parse"
        BY <1>1, <3>1, <4>4 DEF rest
      <4> QED
        BY <2>3, <4>5, <4>6, <4>7 DEF CallInContext
    <3>5. CalledInv'
      BY <2>3, <3>3, <3>4 DEF CalledInv
    <3>6. OnePieceInv'
      <4> SUFFICES ASSUME OnePiece PROVE T!SyncOutcome = "called"
        BY <1>1, <1>2, <2>3, <3>1 DEF OnePieceInv, TextShape
      <4>1. AtFirst \/ Activated
        BY <1>13, <1>21, <2>6, <2>10 DEF ProseShown
      <4> QED
        BY <2>7, <2>10, <4>1 DEF T!SyncOutcome, Activated
    <3> QED
      BY <1>19, <3>2, <3>5, <3>6 DEF TextInv
  <2>11. CASE d = "pass" /\ refused' = refused /\ step' = "leftover" /\ buffer' = <<>>
    <3>1. Shows(buffer) /\ UNCHANGED <<activated, called>>
      BY <1>3, <1>21, <2>11, ShowIs
    <3>2. ~activated
      BY <1>12, <1>21, <2>11
    <3>3. InStep \/ Suppressed
      BY <1>21, <1>22, <3>2 DEF Dropped
    <3>4. InStep' \/ Passing'
      <4>1. CASE InStep
        <5>1. ~(Len(buffer) + 1 <= Len(buffer))
          BY <1>5
        <5>2. Shows(T!Before(buffer, Len(buffer) + 1)) /\ buffer' = T!From(buffer, Len(buffer) + 1)
          BY <1>7, <2>11, <3>1
        <5> QED
          BY <1>2, <1>7, <2>3, <4>1, <5>1, <5>2, Showing
      <4>2. CASE Suppressed
        BY <1>1, <1>2, <2>11, <3>1, <4>2, Passes
      <4> QED
        BY <3>3, <4>1, <4>2
    <3>5. T!Marker(buffer', markdown') = 0
      <4> SUFFICES ASSUME T!Marker(buffer', markdown') # 0 PROVE FALSE
        OBVIOUS
      <4> QED
        BY <2>11, EmptySeq, MarkerIs DEF MarkerAt
    <3>6. OpenInv' /\ CalledInv'
      BY <1>21, <3>1, <3>4 DEF OpenInv, CalledInv
    <3>7. EndInv'
      BY <2>11, <3>5 DEF EndInv
    <3>8. LeadInv'
      BY <1>1, <2>3, <2>5, <2>11 DEF LeadInv, Untouched
    <3>9. OnePieceInv'
      <4> SUFFICES ASSUME OnePiece PROVE T!SyncOutcome = "shown"
        BY <1>1, <1>2, <1>21, <2>3, <2>11, <3>1 DEF OnePieceInv, OnePieceStage, TextShape
      <4>1. AtFirst \/ ProseShown
        BY <2>6, <3>2 DEF Activated
      <4>2. CASE AtFirst
        BY <2>7, <2>11, <4>2 DEF T!SyncOutcome, OnePiece, T!Where
      <4> QED
        BY <4>1, <4>2 DEF ProseShown
    <3> QED
      BY <1>19, <3>6, <3>7, <3>8, <3>9 DEF TextInv
  <2> QED
    BY <1>16, <2>9, <2>10, <2>11
<1> QED
  BY <1>20, <1>21

LEMMA LeftoverKeeps == TextInv /\ T!Leftover => TextInv'
<1> SUFFICES ASSUME TextInv, T!Leftover PROVE TextInv'
  OBVIOUS
<1>1. /\ Untouched /\ step = "leftover" /\ step' = "done" /\ buffer' = <<>>
      /\ activated' = activated
  BY DEF T!Leftover, T!inputs, T!ghosts, Untouched
<1>2. TextShape /\ OpenInv /\ CalledInv /\ EndInv /\ LeadInv /\ OnePieceInv
  BY DEF TextInv
<1> DEFINE i == T!Marker(buffer, markdown)
<1>3. \/ i = 0 /\ T!Show(buffer) /\ UNCHANGED <<called, refused>>
      \/ /\ i # 0 /\ T!Introduce(T!Before(buffer, i))
         /\ called' = (called \/ offered)
         /\ refused' = (IF offered THEN refused ELSE "retry")
  BY DEF T!Leftover
<1>4. refused = "none" /\ flushing /\ buffer \in Seq(T!Token) /\ shown \in Seq(T!Token)
  BY <1>1, <1>2 DEF TextShape
<1>5. i # 0 => i \in 1 .. Len(buffer) + 1 /\ i \in 1 .. Len(buffer) /\ buffer # <<>>
  BY <1>4, LenProperties, EmptySeq, MarkerIs DEF MarkerAt
<1>6. /\ T!Before(buffer, Len(buffer) + 1) = buffer
      /\ Len(buffer) + 1 \in 1 .. Len(buffer) + 1
      /\ <<>> \in Seq(T!Token)
  BY <1>4, LenProperties, WholeAndNothing
<1>7. /\ shown' \in Seq(T!Token) /\ markdown' \in MarkdownState
      /\ shown' = <<>> => markdown' = T!Plain
  BY <1>2, <1>3, <1>5, <1>6, ShowIs, IntroduceIs, ShowingTyped
<1>8. called' => offered /\ flushing
  BY <1>2, <1>3, <1>4 DEF TextShape
<1>9. TextShape'
  <2>1. refused' \in {"none", "rejected", "retry"}
    BY <1>3, <1>4
  <2> QED
    BY <1>1, <1>2, <1>6, <1>7, <1>8, <2>1, ShapeStays DEF TextShape
<1> HIDE DEF i
<1>10. CASE called
  <2>1. CalledInv /\ ~literal
    BY <1>1, <1>2, <1>10 DEF CalledInv
  <2>2. CASE torn
    <3>1. ~OnePiece
      BY <1>2, <2>2 DEF TextShape, OnePiece
    <3>2. called'
      BY <1>3, <1>10
    <3> QED
      BY <1>1, <1>9, <1>10, <2>2, <3>1, <3>2, CalledStays DEF TextInv
  <2>3. CASE ~torn
    <3>1. CallInContext
      BY <1>10, <2>1, <2>3 DEF CalledInv
    <3>2. i = 0
      BY <1>1, <1>2, <3>1, CalledHasNoMarker DEF i
    <3>3. T!Show(buffer) /\ UNCHANGED <<called, refused>>
      BY <1>3, <3>2
    <3>4. PICK s \in T!Spared :
            \/ shown = s /\ buffer = T!After
            \/ shown \in {s, s \o T!After} /\ buffer = <<>>
      BY <1>1, <3>1 DEF CallInContext
    <3>5. shown' \in {s, s \o T!After}
      <4>1. buffer = <<>> => shown' = shown
        BY <1>4, <3>3, ConcatEmptySeq, ShowIs DEF Shows
      <4>2. shown' = shown \/ shown' = shown \o buffer
        BY <3>3, ShowIs DEF Shows
      <4> QED
        BY <3>4, <4>1, <4>2
    <3>6. T!Where' = T!Where /\ T!Spared' = T!Spared /\ T!After' = T!After
      BY <1>1, TextStays DEF Untouched
    <3>7. T!Where # 0
      BY <3>1 DEF CallInContext
    <3>8. CallInContext'
      BY <1>1, <3>5, <3>6, <3>7 DEF CallInContext
    <3> QED
      BY <1>1, <1>9, <1>10, <3>3, <3>8, CalledStays DEF TextInv
  <2> QED
    BY <2>2, <2>3
<1>11. CASE ~called
  <2>1. InStep \/ Dropped \/ Suppressed \/ Passing
    BY <1>1, <1>2, <1>11 DEF OpenInv
  <2>2. /\ T!Where' = T!Where /\ Prose' = Prose /\ T!Spared' = T!Spared /\ T!SyncOutcome' = T!SyncOutcome
        /\ (HasClosed' <=> HasClosed) /\ (WholeCall' <=> WholeCall)
        /\ (OnePiece' <=> OnePiece) /\ text' = text /\ torn' = torn
        /\ literal' = literal
    BY <1>1, TextStays DEF Untouched, OnePiece
  <2>3. LeadInv'
    BY <1>1, <1>2, <1>11, <2>2 DEF LeadInv
  <2>4. OnePiece => buffer = <<>> /\ T!SyncOutcome = "shown"
    BY <1>1, <1>2, <1>4, <1>11 DEF OnePieceInv, OnePieceStage
  <2>5. OpenInv'
    BY <1>1 DEF OpenInv
  <2>6. CASE i = 0 /\ T!Show(buffer) /\ UNCHANGED <<called, refused>>
    <3>1. ~Dropped
      <4> SUFFICES ASSUME Dropped PROVE FALSE
        OBVIOUS
      <4>1. markdown = T!Plain /\ T!Where # 0 /\ buffer = T!From(text, T!Where)
        BY <1>2 DEF Dropped, TextShape
      <4> QED
        BY <1>2, <2>6, <4>1, PlainExecutes, MarkerInFront DEF i
    <3>5. Shows(buffer)
      BY <1>11, <2>6, ShowIs
    <3>2. \/ shown' = text'
          \/ \E a, b \in Nat : ClaimIn(text', b, a) /\ shown' = Without(text', b, a)
      <4>1. CASE InStep
        BY <2>2, <3>5, <4>1 DEF InStep, Shows
      <4>2. CASE Suppressed \/ Passing
        BY <1>1, <1>2, <3>5, <4>2, Passes
      <4> QED
        BY <2>1, <3>1, <4>1, <4>2
    <3>3. CalledInv' /\ EndInv'
      BY <1>1, <1>11, <2>6, <3>2 DEF CalledInv, EndInv
    <3>4. OnePieceInv'
      BY <1>1, <1>4, <1>11, <2>2, <2>4, <2>6 DEF OnePieceInv, OnePieceStage
    <3> QED
      BY <1>9, <2>3, <2>5, <3>3, <3>4 DEF TextInv
  <2>7. CASE /\ i # 0 /\ T!Introduce(T!Before(buffer, i))
             /\ called' = (called \/ offered)
             /\ refused' = (IF offered THEN refused ELSE "retry")
    <3>7. Passing => i = 0
      BY <1>4, HeadlessHasNoMarker DEF Passing, i
    <3>8. PICK f : Ahead(f)
      BY <1>2, <2>1, <2>7, <3>7, AheadIs
    <3>1. Kept(f, i)
      BY <1>2, <2>7, <3>8, MarkerKept DEF i
    <3>2. OnePieceInv'
      BY <1>5, <2>2, <2>4, <2>7 DEF OnePieceInv
    <3>3. EndInv'
      BY <1>1, <1>11, <2>7 DEF EndInv
    <3>4. literal => ~HasClosed
      BY <1>1, <1>2, <1>11, <2>7 DEF EndInv, i
    <3>5. ~torn => CallInContext'
      <4> SUFFICES ASSUME ~torn PROVE CallInContext'
        OBVIOUS
      <4>1. /\ T!Where = Len(f) + i /\ Prose = f \o T!Before(buffer, i)
            /\ Dropped \/ Suppressed => i = 1
        BY <3>1 DEF Kept
      <4>2. T!Where # 0
        BY <1>5, <2>7, <3>8, <4>1, LenProperties DEF Ahead
      <4>3. i = 1 => shown' = shown
        <5>1. T!Before(buffer, 1) = <<>> /\ ~T!Claims(<<>>) /\ shown \o <<>> = shown
          BY <1>4, WholeAndNothing, EmptySeq, ConcatEmptySeq DEF T!Claims, T!Contains
        <5> QED
          BY <2>7, <5>1, IntroduceIs DEF Shows
      <4>4. shown' \in T!Spared
        <5>1. CASE InStep /\ f = shown
          <6>1. CASE T!Claims(T!Before(buffer, i))
            <7>1. i # 1
              BY <1>4, <6>1, WholeAndNothing, EmptySeq DEF T!Claims, T!Contains
            <7>2. i > 1 /\ T!Called(buffer, i) /\ buffer[i] = "head" /\ text = shown \o buffer
              BY <1>5, <2>7, <3>1, <5>1, <7>1, LenProperties DEF Kept, T!Called, InStep
            <7>3. PICK b \in Nat, h \in Nat :
                    ClaimIn(text, b, h) /\ h = Len(shown) + i /\ shown = T!Before(text, b)
              BY <1>2, <1>5, <2>7, <6>1, <7>2, ClaimThere
            <7>4. shown' = shown
              BY <2>7, <6>1, IntroduceIs
            <7> QED
              BY <1>2, <4>1, <4>2, <5>1, <7>3, <7>4, SparedIs
          <6>2. CASE ~T!Claims(T!Before(buffer, i))
            <7>1. shown' = Prose
              BY <2>7, <4>1, <5>1, <6>2, IntroduceIs DEF Shows
            <7> QED
              BY <1>2, <4>2, <7>1, SparedIs
          <6> QED
            BY <6>1, <6>2
        <5>2. CASE Dropped
          BY <1>2, <4>1, <4>2, <4>3, <5>2, SparedIs DEF Dropped
        <5>3. ASSUME NEW a \in Nat, NEW b \in Nat, SuppressedFrom(b, a) PROVE shown' \in T!Spared
          <6>1. i = 1 /\ ClaimIn(text, b, T!Where) /\ shown = T!Before(text, b)
            BY <4>1, <5>3 DEF Suppressed, SuppressedFrom
          <6> QED
            BY <1>2, <4>2, <4>3, <6>1, SparedIs
        <5> QED
          BY <3>8, <5>1, <5>2, <5>3 DEF Ahead
      <4> QED
        BY <1>1, <2>2, <4>2, <4>4 DEF CallInContext
    <3>6. CalledInv'
      BY <1>1, <2>2, <3>4, <3>5 DEF CalledInv
    <3> QED
      BY <1>9, <2>3, <2>5, <3>2, <3>3, <3>6 DEF TextInv
  <2> QED
    BY <1>3, <2>6, <2>7
<1> QED
  BY <1>10, <1>11

-----------------------------------------------------------------------------
(* The steps of the stream.                                                *)

LEMMA ReceivingKeeps ==
  ASSUME TextInv, TextShape', step = "receive", step' \in {"receive", "parse"},
         UNCHANGED <<literal, offered, tools, text, buffer, shown, markdown, activated,
                     called, refused, chunks, torn>>
  PROVE  TextInv'
<1>1. TextShape /\ OpenInv /\ CalledInv /\ EndInv /\ LeadInv /\ OnePieceInv
  BY DEF TextInv
<1>2. ~called
  BY <1>1 DEF TextShape
<1>3. /\ T!Where' = T!Where /\ Prose' = Prose /\ T!SyncOutcome' = T!SyncOutcome
      /\ (LeadingCall' <=> LeadingCall)
      /\ (OnePiece' <=> OnePiece)
  BY TextStays DEF OnePiece
<1>4. OpenInv'
  <2>1. (InStep' <=> InStep) /\ (Dropped' <=> Dropped)
    BY <1>3 DEF InStep, Dropped
  <2>2. (Suppressed' <=> Suppressed) /\ (Passing' <=> Passing)
    BY <1>3 DEF Suppressed, SuppressedFrom, Passing, ClaimIn, Without
  <2> QED
    BY <1>1, <1>2, <2>1, <2>2 DEF OpenInv
<1>5. CalledInv' /\ EndInv'
  BY <1>2 DEF CalledInv, EndInv
<1>6. LeadInv'
  BY <1>1, <1>2, <1>3 DEF LeadInv
<1>7. OnePieceInv'
  BY <1>1, <1>2, <1>3 DEF OnePieceInv, OnePieceStage
<1> QED
  BY <1>4, <1>5, <1>6, <1>7 DEF TextInv

LEMMA OnePastLed ==
  ASSUME NEW w, NEW n \in Nat, Len(w) = n, OneHead(w), Led(w),
         NEW t \in T!Token, T!Follows(t, w),
         NEW u, Len(u) = n + 1, u[n + 1] = t, \A j \in 1 .. n : u[j] = w[j]
  PROVE  OneHead(u) /\ Led(u)
<1>1. t = "head" => \A j \in 1 .. n : w[j] # "head"
  BY DEF T!Follows, T!Contains
<1>2. t = "call" => n >= 1 /\ w[n] = "head"
  <2> SUFFICES ASSUME t = "call" PROVE n >= 1 /\ w[n] = "head"
    OBVIOUS
  <2>1. T!EndsIn(w, {"head"})
    BY DEF T!Follows
  <2>2. w[n] = "head"
    BY <2>1 DEF T!EndsIn, T!Last
  <2> QED
    BY <2>1, <2>2 DEF T!EndsIn
<1>3. /\ \A j, k \in 1 .. n : w[j] = "head" /\ w[k] = "head" => j = k
      /\ \A k \in 1 .. n : w[k] = "call" => k > 1 /\ w[k - 1] = "head"
  BY DEF OneHead, Led
<1>4. \A j, k \in 1 .. n + 1 : u[j] = "head" /\ u[k] = "head" => j = k
  BY <1>1, <1>3
<1>5. ASSUME NEW k \in 1 .. n + 1, u[k] = "call" PROVE k > 1 /\ u[k - 1] = "head"
  <2>1. CASE k = n + 1
    BY <1>2, <1>5, <2>1
  <2>2. CASE k \in 1 .. n
    <3>1. k > 1 /\ w[k - 1] = "head"
      BY <1>3, <1>5, <2>2
    <3> QED
      BY <2>2, <3>1
  <2> QED
    BY <2>1, <2>2
<1> QED
  BY <1>4, <1>5 DEF OneHead, Led

LEMMA ContinuesKeeps == ASSUME NEW t \in T!Token PROVE TextInv /\ T!Continues(t) => TextInv'
<1> SUFFICES ASSUME TextInv, T!Continues(t) PROVE TextInv'
  OBVIOUS
<1>1. TextShape /\ step = "receive" /\ T!Follows(t, text \o arriving)
  BY DEF T!Continues, TextInv
<1>2. /\ arriving' = Append(arriving, t)
      /\ UNCHANGED <<literal, offered, tools, text, buffer, shown, markdown, activated, flushing,
                     called, refused, step, chunks, torn>>
  BY DEF T!Continues, T!inputs, T!ghosts
<1>3. text \in Seq(T!Token) /\ arriving \in Seq(T!Token) /\ OneHead(text \o arriving)
      /\ Led(text \o arriving)
  BY <1>1 DEF TextShape
<1>4. /\ text \o arriving \in Seq(T!Token) /\ Append(arriving, t) \in Seq(T!Token)
      /\ text \o Append(arriving, t) = Append(text \o arriving, t)
  BY <1>3
<1> DEFINE w == text \o arriving
           u == text \o Append(arriving, t)
<1>5. w \in Seq(T!Token) /\ OneHead(w) /\ Led(w) /\ T!Follows(t, w) /\ u = Append(w, t)
  BY <1>1, <1>3, <1>4
<1> HIDE DEF w, u
<1>6. OneHead(u) /\ Led(u)
  <2>1. /\ Len(w) \in Nat /\ Len(u) = Len(w) + 1 /\ u[Len(w) + 1] = t
        /\ \A j \in 1 .. Len(w) : u[j] = w[j]
    BY <1>5, LenProperties, AppendProperties
  <2> QED
    BY <1>5, <2>1, OnePastLed
<1>7. TextShape'
  BY <1>1, <1>2, <1>4, <1>6 DEF TextShape, u
<1> QED
  BY <1>1, <1>2, <1>7, ReceivingKeeps

LEMMA StreamEndsKeeps == TextInv /\ T!StreamEnds => TextInv'
<1> SUFFICES ASSUME TextInv, T!StreamEnds PROVE TextInv'
  OBVIOUS
<1>1. TextShape /\ step = "receive" /\ arriving = <<>> /\ step' = "parse" /\ flushing' = TRUE
  BY DEF T!StreamEnds, TextInv
<1>2. UNCHANGED <<literal, offered, tools, text, arriving, buffer, shown, markdown, activated,
                  called, refused, chunks, torn>>
  BY DEF T!StreamEnds, T!inputs, T!ghosts
<1>3. TextShape'
  BY <1>1, <1>2 DEF TextShape
<1> QED
  BY <1>1, <1>2, <1>3, ReceivingKeeps

\* A claim before a marker stays where it is.
LEMMA ClaimStays ==
  ASSUME TextShape, NEW y \in Seq(T!Token), NEW u, u = text \o y, OneHead(u),
         NEW i, NEW j, ClaimIn(text, j, i)
  PROVE  /\ ClaimIn(u, j, i)
         /\ T!Before(u, j) = T!Before(text, j) /\ T!From(u, i) = T!From(text, i) \o y
         /\ \A k \in 1 .. Len(y) : y[k] # "head"
<1>1. /\ text \in Seq(T!Token) /\ Len(text) \in Nat /\ Len(y) \in Nat
      /\ i \in 1 .. Len(text) /\ i < Len(text) /\ j \in 1 .. i - 1
      /\ text[i] = "head" /\ text[i + 1] = "call"
  BY LenProperties DEF TextShape, ClaimIn, T!Called
<1>2. /\ u \in Seq(T!Token) /\ Len(u) = Len(text) + Len(y)
      /\ \A n \in 1 .. Len(text) + Len(y) : u[n] = IF n <= Len(text) THEN text[n] ELSE y[n - Len(text)]
  BY <1>1, ConcatProperties
<1>3. \A n \in 1 .. Len(text) : n \in 1 .. Len(u) /\ u[n] = text[n]
  BY <1>1, <1>2
<1>4. i \in 1 .. Len(u) /\ u[i] = "head" /\ T!Called(u, i)
  <2>1. i + 1 \in 1 .. Len(text)
    BY <1>1
  <2> QED
    BY <1>1, <1>2, <1>3, <2>1 DEF T!Called
<1>5. T!Claims(SubSeq(u, j, i - 1))
  <2> DEFINE a == SubSeq(text, j, i - 1)
             b == SubSeq(u, j, i - 1)
  <2>1. Len(a) = i - j /\ \A n \in 1 .. i - j : a[n] = text[j + n - 1]
    BY <1>1
  <2>2. Len(b) = i - j /\ \A n \in 1 .. i - j : b[n] = u[j + n - 1]
    BY <1>1, <1>2
  <2>3. PICK n \in 1 .. Len(a) : a[n] = "done"
    BY DEF ClaimIn, T!Claims, T!Contains
  <2>4. n \in 1 .. i - j /\ j + n - 1 \in 1 .. Len(text)
    BY <1>1, <2>1
  <2> HIDE DEF a, b
  <2>5. n \in 1 .. Len(b) /\ b[n] = "done"
    BY <1>3, <2>1, <2>2, <2>3, <2>4
  <2> QED
    BY <2>5 DEF T!Claims, T!Contains, b
<1>6. T!Before(u, j) = T!Before(text, j)
  <2> DEFINE a == T!Before(text, j)
             b == T!Before(u, j)
  <2>1. j \in 1 .. Len(text) + 1 /\ j \in 1 .. Len(u) + 1
    BY <1>1, <1>2
  <2>2. a \in Seq(T!Token) /\ Len(a) = j - 1 /\ \A n \in 1 .. j - 1 : a[n] = text[n]
    BY <1>1, <2>1, BeforeIs
  <2>3. b \in Seq(T!Token) /\ Len(b) = j - 1 /\ \A n \in 1 .. j - 1 : b[n] = u[n]
    BY <1>2, <2>1, BeforeIs
  <2>4. \A n \in 1 .. j - 1 : n \in 1 .. Len(text)
    BY <1>1
  <2> HIDE DEF a, b
  <2>5. Len(a) = Len(b) /\ \A n \in 1 .. Len(a) : a[n] = b[n]
    BY <1>3, <2>2, <2>3, <2>4
  <2>6. a = b
    BY <2>2, <2>3, <2>5, SeqEqual
  <2> QED
    BY <2>6 DEF a, b
<1>7. T!From(u, i) = T!From(text, i) \o y
  <2> DEFINE x == T!Before(text, i)
             z == T!From(text, i)
  <2>1. x \in Seq(T!Token) /\ z \in Seq(T!Token) /\ text = x \o z /\ Len(x) = i - 1
    BY ClaimIs
  <2> HIDE DEF x, z
  <2> DEFINE w == z \o y
  <2>2. w \in Seq(T!Token) /\ u = x \o w
    <3>1. (x \o z) \o y = x \o (z \o y)
      BY <2>1, Regrouped, Zenon
    <3> QED
      BY <2>1, <3>1, ConcatProperties
  <2> HIDE DEF w
  <2>3. 1 \in 1 .. Len(w) + 1 /\ Len(x) + 1 = i
    BY <1>1, <2>1, <2>2, LenProperties
  <2>4. T!From(x \o w, Len(x) + 1) = T!From(w, 1)
    BY <2>1, <2>2, <2>3, FromOfConcat
  <2>5. T!From(w, 1) = w
    BY <2>2, WholeAndNothing
  <2> QED
    BY <2>2, <2>3, <2>4, <2>5 DEF w, z
<1>8. ASSUME NEW k \in 1 .. Len(y), y[k] = "head" PROVE FALSE
  <2>1. /\ Len(text) + k \in 1 .. Len(text) + Len(y) /\ ~(Len(text) + k <= Len(text))
        /\ (Len(text) + k) - Len(text) = k /\ Len(text) + k # i
    BY <1>1
  <2>2. u[Len(text) + k] = "head" /\ Len(text) + k \in 1 .. Len(u)
    BY <1>2, <1>8, <2>1
  <2> QED
    BY <1>4, <2>1, <2>2 DEF OneHead
<1> QED
  BY <1>1, <1>4, <1>5, <1>6, <1>7, <1>8 DEF ClaimIn

LEMMA ClaimStaysWith ==
  ASSUME TextShape
  PROVE  \A y \in Seq(T!Token) : OneHead(text \o y) =>
           \A i, j : ClaimIn(text, j, i) =>
             /\ ClaimIn(text \o y, j, i)
             /\ T!Before(text \o y, j) = T!Before(text, j)
             /\ T!From(text \o y, i) = T!From(text, i) \o y
             /\ \A k \in 1 .. Len(y) : y[k] # "head"
<1> SUFFICES ASSUME NEW y \in Seq(T!Token), OneHead(text \o y), NEW i, NEW j, ClaimIn(text, j, i)
             PROVE  /\ ClaimIn(text \o y, j, i)
                    /\ T!Before(text \o y, j) = T!Before(text, j)
                    /\ T!From(text \o y, i) = T!From(text, i) \o y
                    /\ \A k \in 1 .. Len(y) : y[k] # "head"
  OBVIOUS
<1> DEFINE u == text \o y
<1>1. u = text \o y /\ OneHead(u)
  OBVIOUS
<1> HIDE DEF u
<1>2. /\ ClaimIn(u, j, i)
      /\ T!Before(u, j) = T!Before(text, j) /\ T!From(u, i) = T!From(text, i) \o y
      /\ \A k \in 1 .. Len(y) : y[k] # "head"
  BY <1>1, ClaimStays
<1> QED
  BY <1>1, <1>2

LEMMA ChunkKeeps == TextInv /\ T!Chunk => TextInv'
<1> SUFFICES ASSUME TextInv, T!Chunk PROVE TextInv'
  OBVIOUS
<1>1. TextShape /\ OpenInv /\ LeadInv /\ step = "receive" /\ arriving # <<>>
  BY DEF TextInv, T!Chunk
<1>2. /\ text' = text \o arriving /\ buffer' = buffer \o arriving /\ arriving' = <<>>
      /\ step' = "parse"
      /\ chunks' = (IF chunks = 0 THEN 1 ELSE 2)
      /\ torn' = (torn \/ (T!EndsIn(text, TickTokens) /\ Head(arriving) \in TickTokens))
      /\ UNCHANGED <<literal, offered, tools, shown, markdown, activated, flushing, called, refused>>
  BY DEF T!Chunk, T!inputs, TickTokens
<1>3. ~called /\ refused = "none"
  BY <1>1 DEF TextShape
<1>4. /\ text \in Seq(T!Token) /\ arriving \in Seq(T!Token) /\ buffer \in Seq(T!Token)
      /\ shown \in Seq(T!Token) /\ OneHead(text \o arriving) /\ Led(text \o arriving)
      /\ OneHead(text)
  BY <1>1, WhereIs DEF TextShape
<1>5. /\ text \o arriving \in Seq(T!Token) /\ buffer \o arriving \in Seq(T!Token)
      /\ <<>> \in Seq(T!Token) /\ (text \o arriving) \o <<>> = text \o arriving
  BY <1>4, ConcatProperties, ConcatEmptySeq, EmptySeq
<1>6. chunks = 0 => text = <<>> /\ ~activated /\ ~torn
  BY <1>1 DEF TextShape
<1>7. chunks' # 2 => ~torn'
  BY <1>1, <1>2, <1>6 DEF T!EndsIn
<1>8. TextShape'
  <2>1. text' \in Seq(T!Token) /\ arriving' \in Seq(T!Token) /\ buffer' \in Seq(T!Token)
    BY <1>2, <1>5
  <2>2. OneHead(text' \o arriving') /\ Led(text' \o arriving')
    BY <1>2, <1>4, <1>5
  <2>3. chunks' \in 0 .. 2 /\ chunks' # 0
    BY <1>1, <1>2 DEF TextShape
  <2> QED
    BY <1>1, <1>2, <1>7, <2>1, <2>2, <2>3 DEF TextShape
<1>9. InStep => InStep'
  <2> SUFFICES ASSUME InStep PROVE InStep'
    OBVIOUS
  <2>1. text' = shown' \o buffer'
    <3>1. text = shown \o buffer
      BY DEF InStep
    <3> QED
      BY <1>2, <1>4, <3>1, Regrouped, Zenon
  <2>2. ASSUME ~torn', Meets(shown, buffer \o arriving) PROVE FALSE
    <3>1. ~torn /\ ~(T!EndsIn(text, TickTokens) /\ Head(arriving) \in TickTokens)
      BY <1>2, <2>2
    <3>2. ~Meets(shown, buffer)
      BY <3>1 DEF InStep
    <3>3. shown # <<>> /\ T!Last(shown) \in TickTokens /\ Head(buffer \o arriving) \in TickTokens
      BY <2>2 DEF Meets
    <3>4. CASE buffer = <<>>
      <4>1. text = shown /\ buffer \o arriving = arriving
        BY <1>4, <3>4, ConcatEmptySeq DEF InStep
      <4> QED
        BY <3>1, <3>3, <4>1 DEF T!EndsIn
    <3>5. CASE buffer # <<>>
      <4>1. Head(buffer \o arriving) = Head(buffer)
        <5>1. Len(buffer) \in Nat /\ Len(buffer) >= 1
          BY <1>4, <3>5, LenProperties, EmptySeq
        <5>2. (buffer \o arriving)[1] = buffer[1]
          BY <1>4, <5>1, ConcatProperties
        <5>3. buffer \o arriving # <<>>
          BY <1>4, <3>5, ConcatEqualIffEmpty
        <5> QED
          BY <1>4, <1>5, <3>5, <5>2, <5>3
      <4> QED
        BY <3>2, <3>3, <3>5, <4>1 DEF Meets
    <3> QED
      BY <3>4, <3>5
  <2>3. ~torn' => ~torn
    BY <1>2
  <2> QED
    BY <1>2, <2>1, <2>2, <2>3 DEF InStep
<1>10. Dropped => Dropped'
  <2> SUFFICES ASSUME Dropped PROVE Dropped'
    OBVIOUS
  <2> DEFINE i == T!Where
             w == text \o arriving
             y == T!From(text, i)
  <2>1. shown = <<>> /\ i > 1 /\ buffer = y /\ T!Announces(Prose) /\ activated
    BY DEF Dropped
  <2>2. /\ Prose \in Seq(T!Token) /\ Len(Prose) = i - 1 /\ Prose \o y = text
        /\ y \in Seq(T!Token) /\ i \in Nat
    BY <1>1, <2>1, WhereIs
  <2>3. T!Marker(text, T!Plain) # 0
    BY <2>1 DEF T!Where
  <2>4. w = text \o arriving /\ OneHead(w)
    BY <1>4
  <2>5. T!Where' = T!Marker(w, T!Plain)
    BY <1>2 DEF T!Where
  <2> HIDE DEF w
  <2>6. T!Marker(w, T!Plain) = i /\ T!Before(w, i) = Prose
    BY <1>4, <2>3, <2>4, MarkerStays DEF T!Where, Prose
  <2>7. Prose' = Prose /\ T!Where' = i
    BY <1>2, <2>4, <2>5, <2>6 DEF Prose
  <2> HIDE DEF y
  <2>8. w = Prose \o (y \o arriving) /\ y \o arriving \in Seq(T!Token)
    <3>1. y \o arriving \in Seq(T!Token)
      BY <1>4, <2>2, ConcatProperties
    <3>2. (Prose \o y) \o arriving = Prose \o (y \o arriving)
      <4>1. Prose \in Seq(T!Token)
        BY <2>2
      <4>2. y \in Seq(T!Token) /\ arriving \in Seq(T!Token)
        BY <1>4, <2>2
      <4> QED
        BY <4>1, <4>2, Regrouped, Zenon
    <3> QED
      BY <2>2, <2>4, <3>1, <3>2
  <2>9. T!From(w, i) = y \o arriving
    <3> DEFINE z == y \o arriving
    <3>1. z \in Seq(T!Token) /\ w = Prose \o z
      BY <2>8
    <3> HIDE DEF z
    <3>2. 1 \in 1 .. Len(z) + 1 /\ Len(Prose) + 1 = i
      BY <2>2, <3>1, LenProperties
    <3>3. T!From(Prose \o z, Len(Prose) + 1) = T!From(z, 1)
      BY <2>2, <3>1, <3>2, FromOfConcat
    <3>4. T!From(z, 1) = z
      BY <3>1, WholeAndNothing
    <3> QED
      BY <3>1, <3>2, <3>3, <3>4 DEF z
  <2>10. buffer' = T!From(text', T!Where')
    BY <1>2, <2>1, <2>4, <2>7, <2>9
  <2> QED
    BY <1>2, <2>1, <2>7, <2>10 DEF Dropped
<1>17. Suppressed => Suppressed'
  <2> SUFFICES ASSUME NEW i \in Nat, NEW j \in Nat, SuppressedFrom(j, i) PROVE Suppressed'
    BY DEF Suppressed
  <2>1. /\ ClaimIn(text, j, i) /\ shown = T!Before(text, j) /\ buffer = T!From(text, i)
        /\ ~torn \/ shown = <<>> => T!Where = i
    BY DEF SuppressedFrom
  <2>2. /\ ClaimIn(text', j, i) /\ T!Before(text', j) = T!Before(text, j)
        /\ T!From(text', i) = T!From(text, i) \o arriving
    <3>1. text' = text \o arriving /\ OneHead(text')
      BY <1>2, <1>4
    <3> QED
      BY <1>1, <1>4, <2>1, <3>1, ClaimStaysWith, Zenon
  <2>3. ASSUME T!Where = i PROVE T!Where' = i
    <3>1. T!Where # 0 /\ T!Where' = T!Marker(text', T!Plain)
      BY <2>1, <2>3 DEF ClaimIn, T!Where
    <3> QED
      BY <1>2, <1>4, <2>3, <3>1, MarkerStays DEF T!Where
  <2>4. SuppressedFrom(j, i)'
    BY <1>2, <2>1, <2>2, <2>3 DEF SuppressedFrom
  <2> QED
    BY <2>4 DEF Suppressed
<1>18. Passing => Passing'
  <2> SUFFICES ASSUME Passing PROVE Passing'
    OBVIOUS
  <2>1. PICK i \in Nat, j \in Nat : ClaimIn(text, j, i) /\ shown \o buffer = Without(text, j, i)
    BY DEF Passing
  <2>2. /\ ClaimIn(text', j, i) /\ T!Before(text', j) = T!Before(text, j)
        /\ T!From(text', i) = T!From(text, i) \o arriving
        /\ \A k \in 1 .. Len(arriving) : arriving[k] # "head"
    <3>1. text' = text \o arriving /\ OneHead(text')
      BY <1>2, <1>4
    <3> QED
      BY <1>1, <1>4, <2>1, <3>1, ClaimStaysWith, Zenon
  <2>3. T!Before(text, j) \in Seq(T!Token) /\ T!From(text, i) \in Seq(T!Token)
    BY <1>1, <2>1, ClaimIs
  <2>4. shown' \o buffer' = Without(text', j, i)
    <3>1. shown \o (buffer \o arriving) = (shown \o buffer) \o arriving
      BY <1>4, Regrouped, Zenon
    <3>2. T!Before(text, j) \o (T!From(text, i) \o arriving)
            = (T!Before(text, j) \o T!From(text, i)) \o arriving
      <4> DEFINE x == T!Before(text, j)
                 z == T!From(text, i)
      <4>1. x \in Seq(T!Token) /\ z \in Seq(T!Token) /\ arriving \in Seq(T!Token)
        BY <1>4, <2>3
      <4> HIDE DEF x, z
      <4>2. x \o (z \o arriving) = (x \o z) \o arriving
        BY <4>1, Regrouped, Zenon
      <4> QED
        BY <4>2 DEF x, z
    <3>3. shown' \o buffer' = shown \o (buffer \o arriving)
      BY <1>2
    <3>4. Without(text', j, i) = T!Before(text, j) \o (T!From(text, i) \o arriving)
      BY <2>2 DEF Without
    <3>5. (shown \o buffer) \o arriving = (T!Before(text, j) \o T!From(text, i)) \o arriving
      BY <2>1 DEF Without
    <3> QED
      BY <3>1, <3>2, <3>3, <3>4, <3>5, Zenon
  <2>5. \A k \in 1 .. Len(buffer') : buffer'[k] # "head"
    <3>1. \A k \in 1 .. Len(buffer) : buffer[k] # "head"
      BY DEF Passing
    <3> DEFINE z == buffer \o arriving
    <3>2. /\ Len(z) = Len(buffer) + Len(arriving)
          /\ \A n \in 1 .. Len(buffer) + Len(arriving) :
               z[n] = IF n <= Len(buffer) THEN buffer[n] ELSE arriving[n - Len(buffer)]
      BY <1>4, ConcatProperties
    <3>3. Len(buffer) \in Nat /\ Len(arriving) \in Nat /\ buffer' = z
      BY <1>2, <1>4, LenProperties
    <3> HIDE DEF z
    <3> SUFFICES ASSUME NEW k \in 1 .. Len(z) PROVE z[k] # "head"
      BY <3>3
    <3>4. CASE k <= Len(buffer)
      BY <3>1, <3>2, <3>3, <3>4
    <3>5. CASE ~(k <= Len(buffer))
      <4>1. k - Len(buffer) \in 1 .. Len(arriving)
        BY <3>2, <3>3, <3>5
      <4> QED
        BY <2>2, <3>2, <3>5, <4>1
    <3> QED
      BY <3>4, <3>5
  <2> QED
    BY <2>1, <2>2, <2>4, <2>5 DEF Passing
<1>11. OpenInv'
  BY <1>1, <1>3, <1>9, <1>10, <1>17, <1>18 DEF OpenInv
<1>12. text = <<>> => shown = <<>> /\ buffer = <<>>
  <2> SUFFICES ASSUME text = <<>> PROVE shown = <<>> /\ buffer = <<>>
    OBVIOUS
  <2>1. ~Dropped
    BY <1>1, WhereIs, EmptySeq DEF Dropped
  <2>4. \A i, j : ~ClaimIn(text, j, i)
    BY <1>1, ClaimIs, EmptySeq DEF ClaimIn
  <2>2. text = shown \o buffer
    BY <1>1, <1>3, <2>1, <2>4 DEF OpenInv, InStep, Suppressed, SuppressedFrom, Passing
  <2>3. shown \o buffer = <<>>
    BY <2>2
  <2> QED
    BY <1>4, <2>3, ConcatEqualIffEmpty
<1>13. CalledInv' /\ EndInv'
  BY <1>2, <1>3 DEF CalledInv, EndInv
<1>14. text = <<>> => buffer' = text'
  BY <1>2, <1>12
<1>15. LeadInv'
  <2> SUFFICES ASSUME LeadingCall' PROVE shown = <<>> /\ buffer' = text'
    BY <1>2 DEF LeadInv
  <2>1. CASE text = <<>>
    BY <1>12, <1>14, <2>1
  <2>2. CASE text # <<>>
    <3> DEFINE n == Len(text)
               w == text \o arriving
    <3>1. n \in Nat /\ n >= 1
      BY <1>4, <2>2, LenProperties, EmptySeq
    <3>2. /\ Len(w) >= n
          /\ \A j \in 1 .. n : w[j] = text[j]
      BY <1>4, <3>1, LenProperties, ConcatProperties
    <3>3. w[1] = "head" /\ (Len(w) = 1 \/ w[2] = "call")
      BY <1>2 DEF LeadingCall
    <3>4. n = Len(text)
      OBVIOUS
    <3> HIDE DEF n, w
    <3>5. text[1] = "head" /\ (n = 1 \/ text[2] = "call")
      <4>1. n = 1 \/ n >= 2
        BY <3>1
      <4>2. Len(w) = 1 => n = 1
        BY <3>1, <3>2
      <4> QED
        BY <3>1, <3>2, <3>3, <4>1, <4>2
    <3>6. LeadingCall
      BY <2>2, <3>4, <3>5 DEF LeadingCall
    <3> QED
      BY <1>1, <1>2, <1>3, <3>6 DEF LeadInv
  <2> QED
    BY <2>1, <2>2
<1>16. OnePieceInv'
  <2> SUFFICES ASSUME OnePiece' PROVE OnePieceStage'
    BY <1>2, <1>3 DEF OnePieceInv
  <2>1. chunks = 0
    BY <1>2 DEF OnePiece
  <2> QED
    BY <1>2, <1>6, <1>12, <1>14, <2>1 DEF OnePieceStage
<1> QED
  BY <1>8, <1>11, <1>13, <1>15, <1>16 DEF TextInv

LEMMA TextStepKeeps == TextInv /\ T!Next => TextInv'
BY ContinuesKeeps, ChunkKeeps, StreamEndsKeeps, ShowTextKeeps, JudgeAnnouncedKeeps,
   ShowBeforeKeeps, KeepKeeps, JudgeMarkerKeeps, LeftoverKeeps DEF T!Next

LEMMA TextStutters == TextInv /\ UNCHANGED textVars => TextInv'
<1> SUFFICES ASSUME TextInv, UNCHANGED textVars PROVE TextInv'
  OBVIOUS
<1>1. UNCHANGED <<literal, offered, tools, text, arriving, buffer, shown, markdown, activated,
                  flushing, called, refused, step, chunks, torn>>
  BY DEF textVars
<1>2. /\ T!Where' = T!Where /\ Prose' = Prose /\ T!After' = T!After
      /\ (HasClosed' <=> HasClosed) /\ (LeadingCall' <=> LeadingCall)
      /\ (WholeCall' <=> WholeCall) /\ T!SyncOutcome' = T!SyncOutcome
      /\ T!Spared' = T!Spared
      /\ (OnePiece' <=> OnePiece)
  BY <1>1, TextStays DEF OnePiece
<1>3. TextShape /\ OpenInv /\ CalledInv /\ EndInv /\ LeadInv /\ OnePieceInv
  BY DEF TextInv
<1>4. TextShape'
  BY <1>1, <1>3 DEF TextShape
<1>5. OpenInv'
  <2>1. (InStep' <=> InStep) /\ (Dropped' <=> Dropped)
    BY <1>1, <1>2 DEF InStep, Dropped
  <2>2. (Suppressed' <=> Suppressed) /\ (Passing' <=> Passing)
    BY <1>1, <1>2 DEF Suppressed, SuppressedFrom, Passing, ClaimIn, Without
  <2> QED
    BY <1>1, <1>3, <2>1, <2>2 DEF OpenInv
<1>6. CalledInv'
  <2>1. CallInContext' <=> CallInContext
    BY <1>1, <1>2 DEF CallInContext
  <2> QED
    BY <1>1, <1>2, <1>3, <2>1 DEF CalledInv
<1>7. EndInv'
  BY <1>1, <1>2, <1>3 DEF EndInv, ClaimIn, Without
<1>8. LeadInv'
  BY <1>1, <1>2, <1>3 DEF LeadInv
<1>9. OnePieceInv'
  BY <1>1, <1>2, <1>3 DEF OnePieceInv, OnePieceStage
<1> QED
  BY <1>4, <1>5, <1>6, <1>7, <1>8, <1>9 DEF TextInv

LEMMA ClaimsOfParts ==
  ASSUME NEW x \in Seq(T!Token), NEW y \in Seq(T!Token), T!Claims(x \o y)
  PROVE  T!Claims(x) \/ T!Claims(y)
<1> DEFINE u == x \o y
<1>1. /\ Len(x) \in Nat /\ Len(y) \in Nat /\ Len(u) = Len(x) + Len(y)
      /\ \A n \in 1 .. Len(x) + Len(y) : u[n] = IF n <= Len(x) THEN x[n] ELSE y[n - Len(x)]
  BY LenProperties, ConcatProperties
<1>2. PICK n \in 1 .. Len(u) : u[n] = "done"
  BY DEF T!Claims, T!Contains
<1> HIDE DEF u
<1>3. CASE n <= Len(x)
  <2>1. n \in 1 .. Len(x) /\ x[n] = "done"
    BY <1>1, <1>2, <1>3
  <2> QED
    BY <2>1 DEF T!Claims, T!Contains
<1>4. CASE ~(n <= Len(x))
  <2>1. n - Len(x) \in 1 .. Len(y) /\ y[n - Len(x)] = "done"
    BY <1>1, <1>2, <1>4
  <2> QED
    BY <2>1 DEF T!Claims, T!Contains
<1> QED
  BY <1>3, <1>4

LEMMA ClaimsOfBefore ==
  ASSUME NEW s \in Seq(T!Token), NEW k \in 1 .. Len(s) + 1, T!Claims(T!Before(s, k))
  PROVE  T!Claims(s)
<1> DEFINE z == T!Before(s, k)
<1>1. Len(s) \in Nat /\ Len(z) = k - 1 /\ \A j \in 1 .. k - 1 : z[j] = s[j]
  BY LenProperties, BeforeIs
<1>2. PICK n \in 1 .. Len(z) : z[n] = "done"
  BY DEF T!Claims, T!Contains
<1> HIDE DEF z
<1>3. n \in 1 .. Len(s) /\ s[n] = "done"
  BY <1>1, <1>2
<1> QED
  BY <1>3 DEF T!Claims, T!Contains

LEMMA IntroducedUnclaimed ==
  ASSUME TextShape, ~T!Claims(shown), NEW k \in 1 .. Len(buffer) + 1,
         T!Introduce(T!Before(buffer, k))
  PROVE  ~T!Claims(shown')
<1> DEFINE z == T!Before(buffer, k)
<1>1. buffer \in Seq(T!Token) /\ shown \in Seq(T!Token)
  BY DEF TextShape
<1>2. z \in Seq(T!Token) /\ T!Introduce(z)
  BY <1>1, BeforeIs
<1> HIDE DEF z
<1>3. shown' = shown \/ (~T!Claims(z) /\ shown' = shown \o z)
  BY <1>2, IntroduceIs DEF Shows
<1> QED
  BY <1>1, <1>2, <1>3, ClaimsOfParts

\* As long as a call may still run, what is shown claims nothing.
LEMMA ClaimsKeep == TextInv /\ ClaimInv /\ T!Next => ClaimInv'
<1> SUFFICES ASSUME TextInv, ClaimInv, T!Next PROVE ClaimInv'
  OBVIOUS
<1>1. TextShape /\ CalledInv
  BY DEF TextInv
<1>2. /\ buffer \in Seq(T!Token) /\ shown \in Seq(T!Token) /\ Len(buffer) \in Nat
      /\ called => offered /\ flushing /\ tools
      /\ offered => tools
  BY <1>1, LenProperties DEF TextShape
<1>3. ASSUME UNCHANGED <<tools, shown>>, called' = called,
             step \in {"receive", "parse"} \/ (step' = "done" /\ ~called) \/ ~T!Claims(shown)
      PROVE  ClaimInv'
  BY <1>3 DEF ClaimInv
<1>4. ASSUME NEW t \in T!Token, T!Continues(t) PROVE ClaimInv'
  BY <1>3, <1>4 DEF T!Continues, T!inputs
<1>5. ASSUME T!Chunk \/ T!StreamEnds PROVE ClaimInv'
  BY <1>3, <1>5 DEF T!Chunk, T!StreamEnds, T!inputs
<1>6. ASSUME T!JudgeAnnounced \/ T!Keep PROVE ClaimInv'
  BY <1>3, <1>6 DEF T!JudgeAnnounced, T!Keep, T!Parsing, T!ShowNothing, T!inputs
<1>7. ASSUME T!ShowText PROVE ClaimInv'
  <2>1. Untouched /\ step = "parse"
    BY <1>7, ParsingIs DEF T!ShowText
  <2> SUFFICES ASSUME tools PROVE ~T!Claims(shown')
    BY <2>1 DEF ClaimInv, Untouched
  <2>2. ~T!Claims(shown)
    BY <2>1 DEF ClaimInv
  <2>3. CASE T!Claims(buffer)
    BY <1>7, <2>2, <2>3, ShowTextHolds
  <2>4. CASE ~T!Claims(buffer)
    <3> DEFINE k == Len(buffer) - T!Pending(buffer) + 1
               z == T!Before(buffer, k)
    <3>1. T!Pending(buffer) \in {0, 1} /\ (T!Pending(buffer) = 1 => buffer # <<>>)
      BY <2>4 DEF T!Pending, T!EndsIn
    <3>2. T!Pending(buffer) = 1 => Len(buffer) # 0
      BY <1>2, <3>1, EmptySeq
    <3>3. k \in 1 .. Len(buffer) + 1 /\ k - 1 = Len(buffer) - T!Pending(buffer)
      BY <1>2, <3>1, <3>2
    <3>4. T!Show(z)
      BY <1>7, <3>3 DEF T!ShowText, T!Before
    <3>5. ~T!Claims(z) /\ z \in Seq(T!Token)
      BY <1>2, <2>4, <3>3, ClaimsOfBefore, BeforeIs
    <3> HIDE DEF k, z
    <3>6. shown' = shown \o z
      BY <3>4, <3>5, ShowIs DEF Shows
    <3> QED
      BY <1>2, <2>2, <3>5, <3>6, ClaimsOfParts
  <2> QED
    BY <2>3, <2>4
<1>8. ASSUME T!ShowBefore PROVE ClaimInv'
  <2>1. Untouched /\ step = "parse" /\ T!Introduce(T!Before(buffer, T!Marker(buffer, markdown)))
        /\ T!Marker(buffer, markdown) > 1
    BY <1>8, ParsingIs DEF T!ShowBefore, T!At
  <2> SUFFICES ASSUME tools PROVE ~T!Claims(shown')
    BY <2>1 DEF ClaimInv, Untouched
  <2>2. ~T!Claims(shown)
    BY <2>1 DEF ClaimInv
  <2>3. T!Marker(buffer, markdown) \in 1 .. Len(buffer) + 1
    BY <1>2, <2>1, MarkerIs DEF MarkerAt
  <2> QED
    BY <1>1, <2>1, <2>2, <2>3, IntroducedUnclaimed
<1>9. ASSUME T!JudgeMarker PROVE ClaimInv'
  <2>1. Untouched /\ step = "parse"
    BY <1>9, ParsingIs DEF T!JudgeMarker
  <2>2. tools => ~T!Claims(shown)
    BY <2>1 DEF ClaimInv
  <2>3. CASE shown' = shown
    BY <2>1, <2>2, <2>3 DEF ClaimInv, Untouched
  <2>4. CASE shown' # shown
    <3>1. flushing /\ T!Show(buffer) /\ buffer' = <<>> /\ step' = T!Returned /\ called' = called
      BY <1>9, <2>4 DEF T!JudgeMarker, T!ShowNothing
    <3>2. step' = "leftover"
      BY <3>1 DEF T!Returned
    <3>3. CASE ~called
      BY <3>1, <3>2, <3>3 DEF ClaimInv
    <3>4. CASE called
      <4>1. ~T!Claims(buffer) /\ shown' = shown \o buffer
        BY <2>4, <3>1, <3>4 DEF T!Show, T!ShowNothing
      <4>2. ~T!Claims(shown')
        BY <1>2, <2>2, <3>4, <4>1, ClaimsOfParts
      <4> QED
        BY <4>2 DEF ClaimInv
    <3> QED
      BY <3>3, <3>4
  <2> QED
    BY <2>3, <2>4
<1>10. ASSUME T!Leftover PROVE ClaimInv'
  <2>1. /\ Untouched /\ step = "leftover" /\ step' = "done"
    BY <1>10 DEF T!Leftover, T!inputs, T!ghosts, Untouched
  <2> SUFFICES ASSUME tools, called' PROVE ~T!Claims(shown')
    BY <2>1 DEF ClaimInv, Untouched
  <2> DEFINE i == T!Marker(buffer, markdown)
  <2>2. \/ i = 0 /\ T!Show(buffer) /\ called' = called
        \/ i # 0 /\ T!Introduce(T!Before(buffer, i))
    <3>1. \/ i = 0 /\ T!Show(buffer) /\ UNCHANGED called
          \/ i > 0 /\ T!Introduce(T!Before(buffer, i))
      BY <1>10, Zenon DEF T!Leftover
    <3> HIDE DEF i
    <3>2. i > 0 => i # 0
      OBVIOUS
    <3> QED
      BY <3>1, <3>2, Zenon
  <2>3. i # 0 => i \in 1 .. Len(buffer) + 1 /\ buffer # <<>>
    BY <1>2, EmptySeq, MarkerIs DEF MarkerAt
  <2> HIDE DEF i
  <2>4. called \/ i # 0 => ~T!Claims(shown)
    BY <2>1, <2>3 DEF ClaimInv
  <2>5. CASE i = 0 /\ T!Show(buffer) /\ called
    <3>1. shown' = shown \/ (~T!Claims(buffer) /\ shown' = shown \o buffer)
      BY <2>5 DEF T!Show, T!ShowNothing
    <3> QED
      BY <1>2, <2>4, <2>5, <3>1, ClaimsOfParts
  <2>6. CASE i # 0 /\ T!Introduce(T!Before(buffer, i))
    BY <1>1, <2>3, <2>4, <2>6, IntroducedUnclaimed
  <2> QED
    BY <2>2, <2>5, <2>6
<1> QED
  BY <1>4, <1>5, <1>6, <1>7, <1>8, <1>9, <1>10 DEF T!Next

(* However the stream is cut, what is shown and what is kept back make up the
   text, but for an announcement that was dropped and a claim that was suppressed,
   until the call has run, and no claim is shown before one (process_content_delta,
   flush_remaining). *)
THEOREM TextInvariant == ServicesSpec => [](TextInv /\ ClaimInv)
<1>1. ServicesInit => TextInv /\ ClaimInv
  <2> SUFFICES ASSUME ServicesInit PROVE TextInv /\ ClaimInv
    OBVIOUS
  <2>1. /\ text = <<>> /\ arriving = <<>> /\ buffer = <<>> /\ shown = <<>>
        /\ markdown = T!Plain /\ activated = FALSE /\ flushing = FALSE /\ called = FALSE
        /\ refused = "none" /\ step = "receive" /\ chunks = 0 /\ torn = FALSE
        /\ offered => tools
    BY DEF ServicesInit, T!Init
  <2>2. <<>> \in Seq(T!Token) /\ <<>> \o <<>> = <<>> /\ Len(<<>>) = 0
    BY EmptySeq, ConcatEmptySeq
  <2>3. OneHead(text \o arriving) /\ Led(text \o arriving)
    <3>1. OneHead(<<>>) /\ Led(<<>>)
      BY EmptySeq DEF OneHead, Led
    <3> QED
      BY <2>1, <2>2, <3>1
  <2>4. TextShape
    BY <2>1, <2>2, <2>3, PlainTyped DEF TextShape
  <2>5. InStep
    BY <2>1, <2>2, PlainTyped, AdvanceOfNothing DEF InStep, Meets
  <2>6. OpenInv /\ CalledInv /\ EndInv /\ LeadInv /\ OnePieceInv
    BY <2>1, <2>5 DEF OpenInv, CalledInv, EndInv, LeadInv, OnePieceInv, OnePiece
  <2>7. ClaimInv
    BY <2>1, EmptySeq DEF ClaimInv, T!Claims, T!Contains
  <2> QED
    BY <2>4, <2>6, <2>7 DEF TextInv
<1>2. TextInv /\ ClaimInv /\ [ServicesNext]_allVars => TextInv' /\ ClaimInv'
  <2>1. [ServicesNext]_allVars => T!Next \/ UNCHANGED textVars
    BY DEF ServicesNext, allVars
  <2>2. ClaimInv /\ UNCHANGED textVars => ClaimInv'
    BY DEF ClaimInv, textVars
  <2> QED
    BY <2>1, <2>2, TextStutters, TextStepKeeps, ClaimsKeep
<1> QED
  BY <1>1, <1>2, PTL DEF ServicesSpec

(* Prose is shown but for a claim before a marker, a call runs where the whole text
   lets it and beside no claim, and in one piece a text without one fares as in an
   answer that is not streamed (the conjuncts of TextFaithful). *)
THEOREM TextsAreFaithful == ServicesSpec => []TextFaithful
<1>1. ASSUME TextInv, ClaimInv PROVE TextFaithful
  <2>1. TextShape /\ CalledInv /\ EndInv /\ LeadInv /\ OnePieceInv
    BY <1>1 DEF TextInv
  <2>2. T!ProseSurvives
    <3> SUFFICES ASSUME step = "done", T!StreamOutcome = "shown", shown # text
                 PROVE  \E i \in 1 .. Len(text) :
                          /\ text[i] = "head"
                          /\ \E j \in T!ClaimedFrom(i) :
                               shown = T!Before(text, j) \o T!From(text, i)
      BY DEF T!ProseSurvives, T!Done
    <3>1. ~called /\ refused = "none"
      BY <2>1 DEF TextShape, T!StreamOutcome
    <3>2. PICK i \in Nat, j \in Nat : ClaimIn(text, j, i) /\ shown = Without(text, j, i)
      BY <2>1, <3>1 DEF EndInv
    <3>3. /\ i \in 1 .. Len(text) /\ text[i] = "head" /\ j \in T!ClaimedFrom(i)
          /\ shown = T!Before(text, j) \o T!From(text, i)
      BY <3>2 DEF ClaimIn, Without, T!ClaimedFrom
    <3> QED
      BY <3>3
  <2>3. T!CallsInContext
    <3> SUFFICES ASSUME step = "done", called, ~torn
                 PROVE  /\ T!Where > 0
                        /\ \E s \in T!Spared, e \in {<<>>, T!After} : shown = s \o e
      BY <2>1 DEF T!CallsInContext, T!Done, TextShape
    <3>1. CallInContext
      BY <2>1 DEF CalledInv
    <3>2. PICK s \in T!Spared : shown \in {s, s \o T!After}
      BY <3>1 DEF CallInContext
    <3>3. T!Where \in 1 .. Len(text)
      BY <2>1, <3>1, WhereIs DEF CallInContext
    <3>4. CASE shown = s
      <4>1. shown \o <<>> = shown
        BY <2>1, ConcatEmptySeq DEF TextShape
      <4>2. shown = s \o <<>>
        BY <3>4, <4>1
      <4> QED
        BY <3>3, <4>2
    <3>5. CASE shown = s \o T!After
      BY <3>3, <3>5
    <3> QED
      BY <3>2, <3>4, <3>5
  <2>7. T!NoClaimBesideCall
    BY <1>1, <2>1 DEF T!NoClaimBesideCall, T!Done, ClaimInv, TextShape
  <2>4. T!LiteralShown
    BY <2>1 DEF T!LiteralShown, CalledInv, HasClosed
  <2>5. T!WholeCallsRun
    BY <2>1 DEF T!WholeCallsRun, T!Done, T!StreamOutcome, LeadInv, WholeCall, TextShape
  <2>6. T!OnePieceAsSync
    BY <2>1 DEF T!OnePieceAsSync, T!Done, T!StreamOutcome, OnePieceInv, OnePiece, OnePieceStage,
                Prose
  <2> QED
    BY <2>2, <2>3, <2>4, <2>5, <2>6, <2>7 DEF TextFaithful, T!TextFaithful
<1> QED
  BY <1>1, TextInvariant, PTL

-----------------------------------------------------------------------------
(* Sequences that are built from the front to the back.                    *)

LEMMA SeqInduction ==
  ASSUME NEW X, NEW Q, <<>> \in Q,
         \A s \in Seq(X), x \in X : s \in Q => Append(s, x) \in Q
  PROVE  Seq(X) \subseteq Q
<1> DEFINE good == {n \in Nat : \A s \in Seq(X) : Len(s) = n => s \in Q}
<1>1. 0 \in good
  BY EmptySeq
<1>2. ASSUME NEW n \in Nat, n \in good PROVE n + 1 \in good
  <2> SUFFICES ASSUME NEW s \in Seq(X), Len(s) = n + 1 PROVE s \in Q
    OBVIOUS
  <2>1. s # <<>>
    BY EmptySeq
  <2>2. PICK t \in Seq(X), x \in X : s = Append(t, x)
    BY <2>1, SequenceEmptyOrAppend
  <2>3. Len(t) = n
    BY <2>2, AppendProperties, LenProperties
  <2>4. t \in Q
    BY <1>2, <2>3
  <2> QED
    BY <2>2, <2>4
<1>3. Nat \subseteq good
  <2> HIDE DEF good
  <2> QED
    BY <1>1, <1>2, Induction
<1> QED
  BY <1>3, LenProperties

\* f is what the first parts of ss are, one after the other.
Joins(f, ss, N) ==
  /\ f[0] = <<>>
  /\ \A n \in 1 .. N : f[n] = f[n - 1] \o ss[n]

LEMMA JoinedFrom ==
  ASSUME NEW X, NEW ss \in Seq(Seq(X))
  PROVE  \E f \in [0 .. Len(ss) -> Seq(X)] : Joins(f, ss, Len(ss))
<1> DEFINE N == Len(ss)
           G == [n \in 1 .. N |-> [s \in Seq(X) |-> s \o ss[n]]]
<1>1. N \in Nat /\ \A n \in 1 .. N : ss[n] \in Seq(X)
  BY LenProperties
<1>2. \A n \in 1 .. N : G[n] \in [Seq(X) -> Seq(X)]
  BY <1>1, ConcatProperties
<1>3. <<>> \in Seq(X)
  BY EmptySeq
<1>4. PICK f \in [0 .. N -> Seq(X)] : Solves(f, N, <<>>, G)
  <2> HIDE DEF G, N
  <2> QED
    BY <1>1, <1>2, <1>3, Recursion
<1>5. f[0] = <<>>
  <2>1. 0 \in 0 .. N
    BY <1>1
  <2> QED
    BY <1>4, <2>1 DEF Solves
<1>6. ASSUME NEW n \in 1 .. N PROVE f[n] = f[n - 1] \o ss[n]
  <2>1. n \in 0 .. N /\ n - 1 \in 0 .. N /\ n # 0
    BY <1>1
  <2>2. f[n - 1] \in Seq(X)
    BY <2>1
  <2>3. f[n] = G[n][f[n - 1]]
    BY <1>4, <2>1 DEF Solves
  <2> QED
    BY <2>2, <2>3
<1> QED
  BY <1>5, <1>6 DEF Joins

LEMMA JoinedOnce ==
  ASSUME NEW ss, NEW N \in Nat, NEW f, NEW g,
         Joins(f, ss, N), Joins(g, ss, N)
  PROVE  \A n \in 0 .. N : f[n] = g[n]
<1> DEFINE good == {n \in Nat : n <= N => f[n] = g[n]}
<1>1. 0 \in good
  BY DEF Joins
<1>2. ASSUME NEW n \in Nat, n \in good PROVE n + 1 \in good
  <2> SUFFICES ASSUME n + 1 <= N PROVE f[n + 1] = g[n + 1]
    OBVIOUS
  <2>1. n <= N /\ n + 1 \in 1 .. N /\ (n + 1) - 1 = n
    OBVIOUS
  <2>2. f[n] = g[n]
    BY <1>2, <2>1
  <2> QED
    BY <2>1, <2>2 DEF Joins
<1>3. Nat \subseteq good
  <2> HIDE DEF good
  <2> QED
    BY <1>1, <1>2, Induction
<1> QED
  BY <1>3

LEMMA FlattenOfNothing == C!FlattenSeq(<<>>) = <<>>
BY EmptySeq DEF C!FlattenSeq

LEMMA FlattenJoins ==
  ASSUME NEW X, NEW ss \in Seq(Seq(X)), NEW f \in [0 .. Len(ss) -> Seq(X)], Joins(f, ss, Len(ss))
  PROVE  C!FlattenSeq(ss) = f[Len(ss)]
<1>1. CASE Len(ss) = 0
  BY <1>1, EmptySeq DEF C!FlattenSeq, Joins
<1>2. CASE Len(ss) # 0
  <2> DEFINE N == Len(ss)
             Rule(g) == [i \in 1 .. N |-> IF i = 1 THEN ss[i] ELSE g[i - 1] \o ss[i]]
             joined == CHOOSE g : g = Rule(g)
             g0 == [i \in 1 .. N |-> f[i]]
  <2>1. N \in Nat /\ N \in 1 .. N /\ 1 \in 1 .. N
    BY <1>2, LenProperties
  <2>2. f[1] = ss[1]
    BY <2>1, LenProperties, ConcatEmptySeq DEF Joins
  <2>3. g0 = Rule(g0)
    <3>1. \A i \in 1 .. N : i # 1 => i - 1 \in 1 .. N
      BY <2>1
    <3> QED
      BY <2>2, <3>1 DEF Joins
  <2>4. joined = Rule(joined)
    <3> HIDE DEF Rule, g0
    <3> QED
      BY <2>3
  <2>5. C!FlattenSeq(ss) = joined[N]
    BY <1>2 DEF C!FlattenSeq
  <2> HIDE DEF joined
  <2>6. joined[1] = ss[1] /\ \A i \in 1 .. N : i # 1 => joined[i] = joined[i - 1] \o ss[i]
    BY <2>1, <2>4
  <2> DEFINE h == [n \in 0 .. N |-> IF n = 0 THEN <<>> ELSE joined[n]]
  <2>7. h[0] = <<>> /\ \A n \in 1 .. N : h[n] = joined[n]
    BY <2>1
  <2>8. \A n \in 1 .. N : h[n] = h[n - 1] \o ss[n]
    <3> SUFFICES ASSUME NEW n \in 1 .. N PROVE h[n] = h[n - 1] \o ss[n]
      OBVIOUS
    <3>1. CASE n = 1
      BY <2>1, <2>6, <2>7, <3>1, LenProperties, ConcatEmptySeq
    <3>2. CASE n # 1
      <4>1. n - 1 \in 1 .. N
        BY <2>1, <3>2
      <4> QED
        BY <2>6, <2>7, <3>2, <4>1
    <3> QED
      BY <3>1, <3>2
  <2> HIDE DEF h
  <2>9. h[N] = f[N]
    <3>1. Joins(f, ss, N) /\ Joins(h, ss, N)
      BY <2>7, <2>8 DEF Joins
    <3>2. \A n \in 0 .. N : h[n] = f[n]
      BY <2>1, <3>1, JoinedOnce
    <3> QED
      BY <2>1, <3>2
  <2> QED
    BY <2>1, <2>5, <2>7, <2>9
<1> QED
  BY <1>1, <1>2

LEMMA FlattenTyped ==
  ASSUME NEW X, NEW ss \in Seq(Seq(X))
  PROVE  C!FlattenSeq(ss) \in Seq(X)
<1>1. PICK f \in [0 .. Len(ss) -> Seq(X)] : Joins(f, ss, Len(ss))
  BY JoinedFrom
<1>2. Len(ss) \in 0 .. Len(ss)
  BY LenProperties
<1> QED
  BY <1>1, <1>2, FlattenJoins

LEMMA FlattenAppend ==
  ASSUME NEW X, NEW ss \in Seq(Seq(X)), NEW s \in Seq(X)
  PROVE  C!FlattenSeq(Append(ss, s)) = C!FlattenSeq(ss) \o s
<1> DEFINE N == Len(ss)
           tt == Append(ss, s)
<1>1. /\ N \in Nat /\ tt \in Seq(Seq(X)) /\ Len(tt) = N + 1 /\ tt[N + 1] = s
      /\ \A n \in 1 .. N : tt[n] = ss[n]
  BY LenProperties, AppendProperties
<1> HIDE DEF tt
<1>2. PICK f \in [0 .. N -> Seq(X)] : Joins(f, ss, N)
  BY JoinedFrom
<1>3. PICK g \in [0 .. N + 1 -> Seq(X)] : Joins(g, tt, Len(tt))
  BY <1>1, JoinedFrom
<1>4. Joins(g, ss, N)
  <2> SUFFICES ASSUME NEW n \in 1 .. N PROVE g[n] = g[n - 1] \o ss[n]
    BY <1>3 DEF Joins
  <2>1. n \in 1 .. N + 1 /\ tt[n] = ss[n]
    BY <1>1
  <2> QED
    BY <1>1, <1>3, <2>1 DEF Joins
<1>5. f[N] = g[N]
  <2>1. N \in Nat /\ Joins(f, ss, N)
    BY <1>1, <1>2
  <2>2. \A n \in 0 .. N : f[n] = g[n]
    BY <1>4, <2>1, JoinedOnce
  <2> QED
    BY <2>1, <2>2
<1>6. g[N + 1] = g[N] \o s
  <2>1. N + 1 \in 1 .. N + 1 /\ (N + 1) - 1 = N
    BY <1>1
  <2> QED
    BY <1>1, <1>3, <2>1 DEF Joins
<1>7. C!FlattenSeq(ss) = f[N] /\ C!FlattenSeq(tt) = g[N + 1]
  BY <1>1, <1>2, <1>3, FlattenJoins
<1> QED
  BY <1>5, <1>6, <1>7 DEF tt

\* Each element of s becomes the sequence that F makes of it.
Each(F, s) == [i \in DOMAIN s |-> F[s[i]]]
Joined(F, s) == C!FlattenSeq(Each(F, s))

LEMMA EachTyped ==
  ASSUME NEW X, NEW Y, NEW F \in [X -> Y], NEW s \in Seq(X)
  PROVE  /\ Each(F, s) \in Seq(Y) /\ Len(Each(F, s)) = Len(s)
         /\ \A i \in 1 .. Len(s) : Each(F, s)[i] = F[s[i]]
BY LenProperties DEF Each

LEMMA EachOfMore ==
  ASSUME NEW X, NEW Y, NEW F \in [X -> Y], NEW s \in Seq(X), NEW x \in X
  PROVE  Each(F, Append(s, x)) = Append(Each(F, s), F[x])
<1> DEFINE t == Append(s, x)
           e == Each(F, t)
           a == Append(Each(F, s), F[x])
<1>1. /\ t \in Seq(X) /\ Len(t) = Len(s) + 1 /\ t[Len(s) + 1] = x
      /\ \A i \in 1 .. Len(s) : t[i] = s[i]
  BY AppendProperties
<1>2. e \in Seq(Y) /\ Len(e) = Len(s) + 1 /\ \A i \in 1 .. Len(s) + 1 : e[i] = F[t[i]]
  <2>1. t \in Seq(X)
    BY <1>1
  <2> HIDE DEF t
  <2>2. e \in Seq(Y) /\ Len(e) = Len(t) /\ \A i \in 1 .. Len(t) : e[i] = F[t[i]]
    BY <2>1, LenProperties DEF Each
  <2> QED
    BY <1>1, <2>2
<1>3. /\ Each(F, s) \in Seq(Y) /\ Len(Each(F, s)) = Len(s)
      /\ \A i \in 1 .. Len(s) : Each(F, s)[i] = F[s[i]]
  BY LenProperties DEF Each
<1>4. /\ a \in Seq(Y) /\ Len(a) = Len(s) + 1 /\ a[Len(s) + 1] = F[x]
      /\ \A i \in 1 .. Len(s) : a[i] = F[s[i]]
  BY <1>3, AppendProperties
<1> HIDE DEF t, e, a
<1>5. Len(s) \in Nat
  BY LenProperties
<1>6. \A i \in 1 .. Len(e) : e[i] = a[i]
  <2> SUFFICES ASSUME NEW i \in 1 .. Len(s) + 1 PROVE e[i] = a[i]
    BY <1>2
  <2>1. i \in 1 .. Len(s) \/ i = Len(s) + 1
    BY <1>5
  <2> QED
    BY <1>1, <1>2, <1>4, <2>1
<1>7. e = a
  BY <1>2, <1>4, <1>6, SeqEqual
<1> QED
  BY <1>7 DEF t, e, a

LEMMA JoinedOfNothing == ASSUME NEW F PROVE Joined(F, <<>>) = <<>>
<1>1. Each(F, <<>>) = <<>>
  BY DEF Each
<1> QED
  BY <1>1, FlattenOfNothing DEF Joined

\* F makes a sequence over Y of each element of X.
Makes(F, X, Y) == F \in [X -> Seq(Y)]

LEMMA JoinedTyped ==
  ASSUME NEW X, NEW Y, NEW F, Makes(F, X, Y), NEW s \in Seq(X)
  PROVE  Joined(F, s) \in Seq(Y)
<1>1. Each(F, s) \in Seq(Seq(Y))
  BY EachTyped DEF Makes
<1> QED
  BY <1>1, FlattenTyped DEF Joined

LEMMA JoinedOfMore ==
  ASSUME NEW X, NEW Y, NEW F, Makes(F, X, Y), NEW s \in Seq(X), NEW x \in X
  PROVE  Joined(F, Append(s, x)) = Joined(F, s) \o F[x]
<1>1. Each(F, Append(s, x)) = Append(Each(F, s), F[x])
  BY EachOfMore DEF Makes
<1>2. Each(F, s) \in Seq(Seq(Y)) /\ F[x] \in Seq(Y)
  BY EachTyped DEF Makes
<1> QED
  BY <1>1, <1>2, FlattenAppend DEF Joined

LEMMA JoinedOfParts ==
  ASSUME NEW X, NEW Y, NEW F, Makes(F, X, Y), NEW s \in Seq(X)
  PROVE  \A t \in Seq(X) : Joined(F, s \o t) = Joined(F, s) \o Joined(F, t)
<1> DEFINE good == {t \in Seq(X) : Joined(F, s \o t) = Joined(F, s) \o Joined(F, t)}
<1>1. <<>> \in good
  <2>1. <<>> \in Seq(X) /\ s \o <<>> = s
    BY EmptySeq, ConcatEmptySeq
  <2>2. Joined(F, s) \in Seq(Y)
    BY JoinedTyped
  <2>3. Joined(F, s) \o <<>> = Joined(F, s)
    BY <2>2, ConcatEmptySeq
  <2> QED
    BY <2>1, <2>3, JoinedOfNothing
<1>2. ASSUME NEW t \in Seq(X), NEW x \in X, t \in good PROVE Append(t, x) \in good
  <2>1. Append(t, x) \in Seq(X) /\ s \o t \in Seq(X)
    BY AppendProperties, ConcatProperties
  <2>2. s \o Append(t, x) = Append(s \o t, x)
    <3>1. <<x>> \in Seq(X)
      OBVIOUS
    <3>2. Append(t, x) = t \o <<x>> /\ Append(s \o t, x) = (s \o t) \o <<x>>
      BY <2>1, AppendIsConcat
    <3> QED
      BY <3>1, <3>2, ConcatAssociative
  <2>3. Joined(F, Append(s \o t, x)) = Joined(F, s \o t) \o F[x]
    <3> DEFINE u == s \o t
    <3>1. u \in Seq(X)
      BY <2>1
    <3> HIDE DEF u
    <3>2. Joined(F, Append(u, x)) = Joined(F, u) \o F[x]
      BY <3>1, JoinedOfMore
    <3> QED
      BY <3>2 DEF u
  <2>4. Joined(F, Append(t, x)) = Joined(F, t) \o F[x]
    BY JoinedOfMore
  <2>5. Joined(F, s) \in Seq(Y) /\ Joined(F, t) \in Seq(Y) /\ F[x] \in Seq(Y)
    <3>1. F[x] \in Seq(Y)
      BY DEF Makes
    <3> QED
      BY <3>1, JoinedTyped
  <2>6. (Joined(F, s) \o Joined(F, t)) \o F[x] = Joined(F, s) \o (Joined(F, t) \o F[x])
    <3>1. \A a, b, c \in Seq(Y) : (a \o b) \o c = a \o (b \o c)
      BY ConcatAssociative
    <3> QED
      BY <2>5, <3>1
  <2> QED
    BY <1>2, <2>1, <2>2, <2>3, <2>4, <2>6
<1>3. Seq(X) \subseteq good
  <2> HIDE DEF good
  <2> QED
    BY <1>1, <1>2, SeqInduction
<1> QED
  BY <1>3

LEMMA MembersOfMore ==
  ASSUME NEW X, NEW s \in Seq(X), NEW x \in X
  PROVE  C!ToSet(Append(s, x)) = C!ToSet(s) \cup {x}
<1> DEFINE t == Append(s, x)
<1>1. /\ t \in Seq(X) /\ Len(t) = Len(s) + 1 /\ t[Len(s) + 1] = x
      /\ \A i \in 1 .. Len(s) : t[i] = s[i]
  BY AppendProperties
<1>2. Len(s) \in Nat /\ DOMAIN s = 1 .. Len(s) /\ DOMAIN t = 1 .. Len(s) + 1
  BY <1>1, LenProperties
<1> HIDE DEF t
<1>3. \A i \in 1 .. Len(s) + 1 : i \in 1 .. Len(s) \/ i = Len(s) + 1
  BY <1>2
<1>4. \A i \in 1 .. Len(s) : i \in 1 .. Len(s) + 1
  BY <1>2
<1>5. Len(s) + 1 \in 1 .. Len(s) + 1
  BY <1>2
<1>6. C!ToSet(t) = C!ToSet(s) \cup {x}
  BY <1>1, <1>2, <1>3, <1>4, <1>5 DEF C!ToSet
<1> QED
  BY <1>6 DEF t

LEMMA MembersOfParts ==
  ASSUME NEW X, NEW s \in Seq(X), NEW t \in Seq(X)
  PROVE  C!ToSet(s \o t) = C!ToSet(s) \cup C!ToSet(t)
<1> DEFINE u == s \o t
<1>1. /\ u \in Seq(X) /\ Len(u) = Len(s) + Len(t)
      /\ \A i \in 1 .. Len(s) + Len(t) :
           u[i] = IF i <= Len(s) THEN s[i] ELSE t[i - Len(s)]
  BY ConcatProperties
<1>2. /\ Len(s) \in Nat /\ Len(t) \in Nat /\ DOMAIN s = 1 .. Len(s)
      /\ DOMAIN t = 1 .. Len(t) /\ DOMAIN u = 1 .. Len(s) + Len(t)
  BY <1>1, LenProperties
<1> HIDE DEF u
<1>3. \A i \in 1 .. Len(s) : i \in 1 .. Len(s) + Len(t) /\ u[i] = s[i]
  BY <1>1, <1>2
<1>4. ASSUME NEW i \in 1 .. Len(t)
      PROVE  Len(s) + i \in 1 .. Len(s) + Len(t) /\ u[Len(s) + i] = t[i]
  <2>1. /\ Len(s) + i \in 1 .. Len(s) + Len(t)
        /\ ~(Len(s) + i <= Len(s)) /\ (Len(s) + i) - Len(s) = i
    BY <1>2
  <2> QED
    BY <1>1, <2>1
<1>5. \A i \in 1 .. Len(s) + Len(t) :
        \/ i \in 1 .. Len(s)
        \/ \E j \in 1 .. Len(t) : i = Len(s) + j
  <2> SUFFICES ASSUME NEW i \in 1 .. Len(s) + Len(t), i \notin 1 .. Len(s)
               PROVE  \E j \in 1 .. Len(t) : i = Len(s) + j
    OBVIOUS
  <2>1. i - Len(s) \in 1 .. Len(t) /\ i = Len(s) + (i - Len(s))
    BY <1>2
  <2> QED
    BY <2>1
<1>6. C!ToSet(u) = C!ToSet(s) \cup C!ToSet(t)
  <2>1. C!ToSet(u) \subseteq C!ToSet(s) \cup C!ToSet(t)
    <3> SUFFICES ASSUME NEW i \in 1 .. Len(s) + Len(t)
                 PROVE  u[i] \in C!ToSet(s) \cup C!ToSet(t)
      BY <1>2 DEF C!ToSet
    <3>1. CASE i \in 1 .. Len(s)
      BY <1>2, <1>3, <3>1 DEF C!ToSet
    <3>2. CASE \E j \in 1 .. Len(t) : i = Len(s) + j
      BY <1>2, <1>4, <3>2 DEF C!ToSet
    <3> QED
      BY <1>5, <3>1, <3>2
  <2>2. C!ToSet(s) \subseteq C!ToSet(u)
    BY <1>2, <1>3 DEF C!ToSet
  <2>3. C!ToSet(t) \subseteq C!ToSet(u)
    BY <1>2, <1>4 DEF C!ToSet
  <2> QED
    BY <2>1, <2>2, <2>3
<1> QED
  BY <1>6 DEF u

-----------------------------------------------------------------------------
(* The blocks of some types.                                               *)

ABlock == [type : C!Types, id : Nat]

Picking(types) == [b \in ABlock |-> IF b.type \in types THEN <<b>> ELSE <<>>]

LEMMA PickingTyped == ASSUME NEW types PROVE Makes(Picking(types), ABlock, ABlock)
BY EmptySeq DEF Picking, Makes

LEMMA OfPicks ==
  ASSUME NEW types, NEW s \in Seq(ABlock)
  PROVE  C!Of(s, types) = Joined(Picking(types), s)
<1>1. \A k \in DOMAIN s : s[k] \in ABlock
  BY LenProperties
<1>2. [k \in DOMAIN s |-> IF s[k].type \in types THEN <<s[k]>> ELSE <<>>]
        = Each(Picking(types), s)
  BY <1>1 DEF Each, Picking
<1> QED
  BY <1>2 DEF C!Of, Joined

LEMMA OfNothing == ASSUME NEW types PROVE C!Of(<<>>, types) = <<>>
<1>1. <<>> \in Seq(ABlock)
  BY EmptySeq
<1> QED
  BY <1>1, OfPicks, JoinedOfNothing

LEMMA OfTyped ==
  ASSUME NEW types, NEW s \in Seq(ABlock)
  PROVE  C!Of(s, types) \in Seq(ABlock)
BY OfPicks, PickingTyped, JoinedTyped

LEMMA OfMore ==
  ASSUME NEW types, NEW s \in Seq(ABlock), NEW b \in ABlock
  PROVE  C!Of(Append(s, b), types)
           = IF b.type \in types THEN Append(C!Of(s, types), b) ELSE C!Of(s, types)
<1>1. Append(s, b) \in Seq(ABlock)
  BY AppendProperties
<1>2. Joined(Picking(types), Append(s, b)) = Joined(Picking(types), s) \o Picking(types)[b]
  BY PickingTyped, JoinedOfMore
<1>3. C!Of(Append(s, b), types) = C!Of(s, types) \o Picking(types)[b]
  BY <1>1, <1>2, OfPicks
<1>4. C!Of(s, types) \in Seq(ABlock)
  BY OfTyped
<1>5. Picking(types)[b] = IF b.type \in types THEN <<b>> ELSE <<>>
  BY DEF Picking
<1> QED
  BY <1>3, <1>4, <1>5, AppendIsConcat, ConcatEmptySeq

LEMMA OfParts ==
  ASSUME NEW types, NEW s \in Seq(ABlock), NEW t \in Seq(ABlock)
  PROVE  C!Of(s \o t, types) = C!Of(s, types) \o C!Of(t, types)
<1>1. s \o t \in Seq(ABlock)
  BY ConcatProperties
<1>2. Joined(Picking(types), s \o t) = Joined(Picking(types), s) \o Joined(Picking(types), t)
  BY PickingTyped, JoinedOfParts
<1>3. /\ C!Of(s, types) = Joined(Picking(types), s)
      /\ C!Of(t, types) = Joined(Picking(types), t)
  BY OfPicks
<1>4. C!Of(s \o t, types) = Joined(Picking(types), s \o t)
  BY <1>1, OfPicks
<1> QED
  BY <1>2, <1>3, <1>4

LEMMA OfAll ==
  ASSUME NEW types
  PROVE  \A s \in Seq(ABlock) :
           (\A i \in 1 .. Len(s) : s[i].type \in types) => C!Of(s, types) = s
<1> DEFINE good == {s \in Seq(ABlock) :
                      (\A i \in 1 .. Len(s) : s[i].type \in types) => C!Of(s, types) = s}
<1>1. <<>> \in good
  BY EmptySeq, OfNothing
<1>2. ASSUME NEW s \in Seq(ABlock), NEW b \in ABlock, s \in good PROVE Append(s, b) \in good
  <2> DEFINE t == Append(s, b)
  <2>1. /\ t \in Seq(ABlock) /\ Len(t) = Len(s) + 1 /\ t[Len(s) + 1] = b
        /\ \A i \in 1 .. Len(s) : t[i] = s[i]
    BY AppendProperties
  <2>2. C!Of(t, types) = IF b.type \in types THEN Append(C!Of(s, types), b) ELSE C!Of(s, types)
    BY OfMore
  <2>3. Len(s) \in Nat
    BY LenProperties
  <2> SUFFICES ASSUME \A i \in 1 .. Len(t) : t[i].type \in types PROVE C!Of(t, types) = t
    BY <2>1
  <2>4. b.type \in types /\ \A i \in 1 .. Len(s) : s[i].type \in types
    BY <2>1, <2>3
  <2>5. C!Of(s, types) = s
    BY <1>2, <2>4
  <2> QED
    BY <2>2, <2>4, <2>5
<1>3. Seq(ABlock) \subseteq good
  <2> HIDE DEF good
  <2> QED
    BY <1>1, <1>2, SeqInduction
<1> QED
  BY <1>3

LEMMA OfNone ==
  ASSUME NEW types
  PROVE  \A s \in Seq(ABlock) :
           (\A i \in 1 .. Len(s) : s[i].type \notin types) => C!Of(s, types) = <<>>
<1> DEFINE good == {s \in Seq(ABlock) :
                      (\A i \in 1 .. Len(s) : s[i].type \notin types) => C!Of(s, types) = <<>>}
<1>1. <<>> \in good
  BY EmptySeq, OfNothing
<1>2. ASSUME NEW s \in Seq(ABlock), NEW b \in ABlock, s \in good PROVE Append(s, b) \in good
  <2> DEFINE t == Append(s, b)
  <2>1. /\ t \in Seq(ABlock) /\ Len(t) = Len(s) + 1 /\ t[Len(s) + 1] = b
        /\ \A i \in 1 .. Len(s) : t[i] = s[i]
    BY AppendProperties
  <2>2. C!Of(t, types) = IF b.type \in types THEN Append(C!Of(s, types), b) ELSE C!Of(s, types)
    BY OfMore
  <2>3. Len(s) \in Nat
    BY LenProperties
  <2> SUFFICES ASSUME \A i \in 1 .. Len(t) : t[i].type \notin types PROVE C!Of(t, types) = <<>>
    BY <2>1
  <2>4. b.type \notin types /\ \A i \in 1 .. Len(s) : s[i].type \notin types
    BY <2>1, <2>3
  <2>5. C!Of(s, types) = <<>>
    BY <1>2, <2>4
  <2> QED
    BY <2>2, <2>4, <2>5
<1>3. Seq(ABlock) \subseteq good
  <2> HIDE DEF good
  <2> QED
    BY <1>1, <1>2, SeqInduction
<1> QED
  BY <1>3

LEMMA OfMembers ==
  ASSUME NEW types
  PROVE  \A s \in Seq(ABlock) :
           C!ToSet(C!Of(s, types)) = {b \in C!ToSet(s) : b.type \in types}
<1> DEFINE good == {s \in Seq(ABlock) :
                      C!ToSet(C!Of(s, types)) = {b \in C!ToSet(s) : b.type \in types}}
<1>1. <<>> \in good
  BY EmptySeq, OfNothing DEF C!ToSet
<1>2. ASSUME NEW s \in Seq(ABlock), NEW b \in ABlock, s \in good PROVE Append(s, b) \in good
  <2>1. C!Of(Append(s, b), types)
          = IF b.type \in types THEN Append(C!Of(s, types), b) ELSE C!Of(s, types)
    BY OfMore
  <2>2. C!Of(s, types) \in Seq(ABlock) /\ Append(s, b) \in Seq(ABlock)
    BY OfTyped, AppendProperties
  <2>3. \A u \in Seq(ABlock) : C!ToSet(Append(u, b)) = C!ToSet(u) \cup {b}
    BY MembersOfMore
  <2> QED
    BY <1>2, <2>1, <2>2, <2>3
<1>3. Seq(ABlock) \subseteq good
  <2> HIDE DEF good
  <2> QED
    BY <1>1, <1>2, SeqInduction
<1> QED
  BY <1>3

LEMMA OfOf ==
  ASSUME NEW types, NEW some, some \subseteq types
  PROVE  \A s \in Seq(ABlock) : C!Of(C!Of(s, types), some) = C!Of(s, some)
<1> DEFINE good == {s \in Seq(ABlock) : C!Of(C!Of(s, types), some) = C!Of(s, some)}
<1>1. <<>> \in good
  BY EmptySeq, OfNothing
<1>2. ASSUME NEW s \in Seq(ABlock), NEW b \in ABlock, s \in good PROVE Append(s, b) \in good
  <2>1. C!Of(s, types) \in Seq(ABlock) /\ Append(s, b) \in Seq(ABlock)
    BY OfTyped, AppendProperties
  <2>2. /\ C!Of(Append(s, b), types)
             = IF b.type \in types THEN Append(C!Of(s, types), b) ELSE C!Of(s, types)
        /\ C!Of(Append(s, b), some)
             = IF b.type \in some THEN Append(C!Of(s, some), b) ELSE C!Of(s, some)
    BY OfMore
  <2>3. C!Of(Append(C!Of(s, types), b), some)
          = IF b.type \in some THEN Append(C!Of(C!Of(s, types), some), b)
            ELSE C!Of(C!Of(s, types), some)
    BY <2>1, OfMore
  <2> QED
    BY <1>2, <2>1, <2>2, <2>3
<1>3. Seq(ABlock) \subseteq good
  <2> HIDE DEF good
  <2> QED
    BY <1>1, <1>2, SeqInduction
<1> QED
  BY <1>3

LEMMA OfOne ==
  ASSUME NEW types, NEW b \in ABlock
  PROVE  C!Of(<<b>>, types) = IF b.type \in types THEN <<b>> ELSE <<>>
<1>1. <<>> \in Seq(ABlock) /\ Append(<<>>, b) = <<b>>
  BY EmptySeq
<1>2. C!Of(Append(<<>>, b), types)
        = IF b.type \in types THEN Append(C!Of(<<>>, types), b) ELSE C!Of(<<>>, types)
  BY <1>1, OfMore
<1> QED
  BY <1>1, <1>2, OfNothing

-----------------------------------------------------------------------------
(* The messages of a conversation and those of a request.                  *)

Message == [role : {"user", "assistant", "system"}, blocks : Seq(ABlock)]
Row == [role : {"system", "user", "assistant", "tool"}, blocks : Seq(ABlock),
        reasoning : BOOLEAN]

CallsIn == [m \in Message |-> C!Of(m.blocks, C!CallTypes)]
Rows(demanding) == [m \in Message |-> C!MapMessage(m, demanding)]
Body(h, demanding) == Joined(Rows(demanding), h)

ToolRow(b) == [role |-> "tool", blocks |-> <<b>>, reasoning |-> FALSE]
ToolRows(results) == [i \in DOMAIN results |-> ToolRow(results[i])]
UserRow(blocks) == [role |-> "user", blocks |-> blocks, reasoning |-> FALSE]
UserRows(rest) == IF rest = <<>> THEN <<>> ELSE <<UserRow(rest)>>

LEMMA CallsInTyped == Makes(CallsIn, Message, ABlock)
BY OfTyped DEF Makes, CallsIn, Message

LEMMA CallsAre == ASSUME NEW h \in Seq(Message) PROVE C!Calls(h) = Joined(CallsIn, h)
<1>1. \A i \in DOMAIN h : h[i] \in Message
  BY LenProperties
<1>2. [i \in DOMAIN h |-> C!Of(h[i].blocks, C!CallTypes)] = Each(CallsIn, h)
  BY <1>1 DEF Each, CallsIn
<1> QED
  BY <1>2 DEF C!Calls, Joined

LEMMA CallsTyped == ASSUME NEW h \in Seq(Message) PROVE C!Calls(h) \in Seq(ABlock)
BY CallsAre, CallsInTyped, JoinedTyped

LEMMA CallsOfMore ==
  ASSUME NEW h \in Seq(Message), NEW m \in Message
  PROVE  C!Calls(Append(h, m)) = C!Calls(h) \o C!Of(m.blocks, C!CallTypes)
<1>1. Append(h, m) \in Seq(Message)
  BY AppendProperties
<1>2. Joined(CallsIn, Append(h, m)) = Joined(CallsIn, h) \o CallsIn[m]
  BY CallsInTyped, JoinedOfMore
<1>3. CallsIn[m] = C!Of(m.blocks, C!CallTypes)
  BY DEF CallsIn
<1> QED
  BY <1>1, <1>2, <1>3, CallsAre

LEMMA ToolRowsTyped ==
  ASSUME NEW results \in Seq(ABlock)
  PROVE  /\ ToolRows(results) \in Seq(Row) /\ Len(ToolRows(results)) = Len(results)
         /\ \A i \in 1 .. Len(results) : ToolRows(results)[i] = ToolRow(results[i])
<1>1. \A b \in ABlock : ToolRow(b) \in Row
  BY DEF ToolRow, Row
<1>2. Len(results) \in Nat /\ DOMAIN results = 1 .. Len(results)
      /\ \A i \in 1 .. Len(results) : results[i] \in ABlock
  BY LenProperties
<1> QED
  BY <1>1, <1>2 DEF ToolRows

LEMMA UserRowsTyped ==
  ASSUME NEW rest \in Seq(ABlock)
  PROVE  /\ UserRows(rest) \in Seq(Row)
         /\ \A r \in C!ToSet(UserRows(rest)) : r.role = "user" /\ r.blocks = rest
<1>1. UserRow(rest) \in Row /\ UserRow(rest).role = "user" /\ UserRow(rest).blocks = rest
  BY DEF UserRow, Row
<1>2. CASE rest = <<>>
  BY <1>2, EmptySeq DEF UserRows, C!ToSet
<1>3. CASE rest # <<>>
  <2> DEFINE r == UserRow(rest)
  <2>1. r \in Row /\ r.role = "user" /\ r.blocks = rest /\ UserRows(rest) = <<r>>
    BY <1>1, <1>3 DEF UserRows
  <2> HIDE DEF r
  <2> QED
    BY <2>1 DEF C!ToSet
<1> QED
  BY <1>2, <1>3

\* What a message of the user becomes.
LEMMA MapUserIs ==
  ASSUME NEW m \in Message
  PROVE  C!MapUser(m)
           = ToolRows(C!Of(m.blocks, {"result"}))
             \o UserRows(C!Of(m.blocks, C!Types \ {"result"}))
BY DEF C!MapUser, ToolRows, ToolRow, UserRows, UserRow

LEMMA MapUserTyped ==
  ASSUME NEW m \in Message
  PROVE  C!MapUser(m) \in Seq(Row)
<1> DEFINE results == C!Of(m.blocks, {"result"})
           rest == C!Of(m.blocks, C!Types \ {"result"})
           after == UserRows(rest)
<1>1. results \in Seq(ABlock) /\ rest \in Seq(ABlock)
  BY OfTyped DEF Message
<1>2. ToolRows(results) \in Seq(Row)
  BY <1>1, ToolRowsTyped
<1>3. after \in Seq(Row)
  BY <1>1, UserRowsTyped
<1>4. C!MapUser(m) = ToolRows(results) \o after
  BY MapUserIs
<1> HIDE DEF results, after
<1> QED
  BY <1>2, <1>3, <1>4, ConcatProperties

\* What a message of the model becomes: nothing, or one message with its calls.
LEMMA MapAssistantIs ==
  ASSUME NEW m \in Message, NEW demanding \in BOOLEAN
  PROVE  \/ /\ C!MapAssistant(m, demanding) = <<>>
            /\ C!Of(m.blocks, C!CallTypes) = <<>>
         \/ \E r \in Row :
              /\ C!MapAssistant(m, demanding) = <<r>>
              /\ r.role = "assistant"
              /\ C!Of(r.blocks, C!CallTypes) = C!Of(m.blocks, C!CallTypes)
              /\ r.blocks # <<>> \/ r.reasoning
              /\ demanding /\ C!Of(m.blocks, C!CallTypes) # <<>> => r.reasoning
<1> DEFINE said == C!Of(m.blocks, {"text"} \cup C!CallTypes)
           thinks == C!Of(m.blocks, {"thinking"}) # <<>>
           calls == C!Of(m.blocks, C!CallTypes) # <<>>
           r == [role |-> "assistant", blocks |-> said,
                 reasoning |-> thinks \/ (calls /\ demanding)]
<1>1. C!MapAssistant(m, demanding) = IF said = <<>> /\ ~thinks THEN <<>> ELSE <<r>>
  BY DEF C!MapAssistant
<1>2. m.blocks \in Seq(ABlock) /\ said \in Seq(ABlock)
  BY OfTyped DEF Message
<1>3. C!Of(said, C!CallTypes) = C!Of(m.blocks, C!CallTypes)
  BY <1>2, OfOf
<1>4. said = <<>> => ~calls
  BY <1>3, OfNothing
<1>5. r \in Row /\ r.role = "assistant" /\ r.blocks = said
      /\ (r.reasoning <=> thinks \/ (calls /\ demanding))
  BY <1>2 DEF Row
<1> HIDE DEF said, r
<1> QED
  BY <1>1, <1>3, <1>4, <1>5

LEMMA RowsTyped ==
  ASSUME NEW demanding \in BOOLEAN
  PROVE  Makes(Rows(demanding), Message, Row)
<1> SUFFICES ASSUME NEW m \in Message PROVE C!MapMessage(m, demanding) \in Seq(Row)
  BY DEF Makes, Rows
<1>1. CASE m.role = "user"
  BY <1>1, MapUserTyped DEF C!MapMessage
<1>2. CASE m.role = "assistant"
  <2>1. C!MapMessage(m, demanding) = C!MapAssistant(m, demanding)
    BY <1>2 DEF C!MapMessage
  <2>2. CASE C!MapAssistant(m, demanding) = <<>>
    BY <2>1, <2>2, EmptySeq
  <2>3. CASE C!MapAssistant(m, demanding) # <<>>
    <3>1. PICK r \in Row : C!MapAssistant(m, demanding) = <<r>>
      BY <2>3, MapAssistantIs
    <3> QED
      BY <2>1, <3>1
  <2> QED
    BY <2>2, <2>3
<1>3. CASE m.role = "system"
  BY <1>3, EmptySeq DEF C!MapMessage
<1> QED
  BY <1>1, <1>2, <1>3 DEF Message

LEMMA BodyTyped ==
  ASSUME NEW h \in Seq(Message), NEW demanding \in BOOLEAN
  PROVE  Body(h, demanding) \in Seq(Row)
BY RowsTyped, JoinedTyped DEF Body

LEMMA BodyOfMore ==
  ASSUME NEW h \in Seq(Message), NEW m \in Message, NEW demanding \in BOOLEAN
  PROVE  Body(Append(h, m), demanding) = Body(h, demanding) \o C!MapMessage(m, demanding)
<1>1. Joined(Rows(demanding), Append(h, m))
        = Joined(Rows(demanding), h) \o Rows(demanding)[m]
  BY RowsTyped, JoinedOfMore
<1>2. Rows(demanding)[m] = C!MapMessage(m, demanding)
  BY DEF Rows
<1> QED
  BY <1>1, <1>2 DEF Body

\* What is in front of the body of a request.
Heading(h) ==
  IF C!Turns(h) # DOMAIN h \/ C!Remaining(h) > 0
  THEN <<[role |-> "system", blocks |-> <<>>, reasoning |-> FALSE]>>
  ELSE <<>>

LEMMA MappedIs ==
  ASSUME NEW h \in Seq(Message), NEW demanding \in BOOLEAN
  PROVE  C!Mapped(h, demanding) = Heading(h) \o Body(h, demanding)
<1>1. \A i \in DOMAIN h : h[i] \in Message
  BY LenProperties
<1>2. [i \in DOMAIN h |-> C!MapMessage(h[i], demanding)] = Each(Rows(demanding), h)
  BY <1>1 DEF Each, Rows
<1> QED
  BY <1>2 DEF C!Mapped, Body, Joined, Heading

-----------------------------------------------------------------------------
(* What the rows of a message are like.                                    *)

\* A message of the model has content, and the calls are in such messages, with
\* a reason if one is demanded.
HasContent(r, demanding) ==
  /\ r.role = "assistant" => r.blocks # <<>> \/ r.reasoning
  /\ C!Of(r.blocks, C!CallTypes) # <<>> =>
       r.role = "assistant" /\ (demanding => r.reasoning)

LEMMA RowsHaveContent ==
  ASSUME NEW m \in Message, NEW demanding \in BOOLEAN,
         m.role = "user" => C!Of(m.blocks, C!CallTypes) = <<>>
  PROVE  \A r \in C!ToSet(C!MapMessage(m, demanding)) : HasContent(r, demanding)
<1> SUFFICES ASSUME NEW r \in C!ToSet(C!MapMessage(m, demanding))
             PROVE  HasContent(r, demanding)
  OBVIOUS
<1>1. CASE m.role = "user"
  <2>1. C!MapMessage(m, demanding) = C!MapUser(m)
    BY <1>1 DEF C!MapMessage
  <2> DEFINE results == C!Of(m.blocks, {"result"})
             rest == C!Of(m.blocks, C!Types \ {"result"})
             after == UserRows(rest)
  <2>2. results \in Seq(ABlock) /\ rest \in Seq(ABlock)
    BY OfTyped DEF Message
  <2>3. after \in Seq(Row) /\ \A u \in C!ToSet(after) : u.role = "user" /\ u.blocks = rest
    BY <2>2, UserRowsTyped
  <2>4. C!MapUser(m) = ToolRows(results) \o after
    BY MapUserIs
  <2>5. C!Of(rest, C!CallTypes) = <<>>
    <3>1. C!CallTypes \subseteq C!Types \ {"result"} /\ m.blocks \in Seq(ABlock)
      BY DEF C!Types, C!CallTypes, Message
    <3>2. C!Of(rest, C!CallTypes) = C!Of(m.blocks, C!CallTypes)
      BY <3>1, OfOf
    <3> QED
      BY <1>1, <3>2
  <2>6. \A b \in C!ToSet(results) : b \in ABlock /\ b.type = "result"
    <3>1. C!ToSet(results) = {b \in C!ToSet(m.blocks) : b.type \in {"result"}}
      BY OfMembers DEF Message
    <3>2. \A b \in C!ToSet(m.blocks) : b \in ABlock
      BY LenProperties DEF Message, C!ToSet
    <3> QED
      BY <3>1, <3>2
  <2> HIDE DEF results, rest, after
  <2>7. /\ ToolRows(results) \in Seq(Row)
        /\ \A u \in C!ToSet(ToolRows(results)) :
             u.role = "tool" /\ C!Of(u.blocks, C!CallTypes) = <<>>
    <3>1. ToolRows(results) \in Seq(Row)
      BY <2>2, ToolRowsTyped
    <3>2. ASSUME NEW u \in C!ToSet(ToolRows(results))
          PROVE  u.role = "tool" /\ C!Of(u.blocks, C!CallTypes) = <<>>
      <4>1. PICK b \in C!ToSet(results) : u = ToolRow(b)
        BY DEF ToolRows, C!ToSet
      <4>2. b.type \notin C!CallTypes /\ b \in ABlock
        BY <2>6 DEF C!CallTypes
      <4>3. C!Of(<<b>>, C!CallTypes) = <<>>
        BY <4>2, OfOne
      <4> QED
        BY <4>1, <4>3 DEF ToolRow
    <3> QED
      BY <3>1, <3>2
  <2>8. C!ToSet(C!MapUser(m)) = C!ToSet(ToolRows(results)) \cup C!ToSet(after)
    BY <2>3, <2>4, <2>7, MembersOfParts
  <2>9. r \in C!ToSet(ToolRows(results)) \/ r \in C!ToSet(after)
    BY <2>1, <2>8
  <2> QED
    BY <2>3, <2>5, <2>7, <2>9 DEF HasContent
<1>2. CASE m.role = "assistant"
  <2>1. C!MapMessage(m, demanding) = C!MapAssistant(m, demanding)
    BY <1>2 DEF C!MapMessage
  <2>2. C!MapAssistant(m, demanding) # <<>>
    BY <2>1 DEF C!ToSet
  <2>3. PICK a \in Row :
          /\ C!MapAssistant(m, demanding) = <<a>>
          /\ a.role = "assistant"
          /\ C!Of(a.blocks, C!CallTypes) = C!Of(m.blocks, C!CallTypes)
          /\ a.blocks # <<>> \/ a.reasoning
          /\ demanding /\ C!Of(m.blocks, C!CallTypes) # <<>> => a.reasoning
    BY <2>2, MapAssistantIs
  <2>4. r = a
    BY <2>1, <2>3 DEF C!ToSet
  <2> QED
    BY <2>3, <2>4 DEF HasContent
<1>3. CASE m.role = "system"
  BY <1>3 DEF C!MapMessage, C!ToSet
<1> QED
  BY <1>1, <1>2, <1>3 DEF Message

\* A block of the user is in what is sent.
SentIn(b, s) ==
  \E r \in C!ToSet(s) : r.role \in {"user", "tool"} /\ b \in C!ToSet(r.blocks)

LEMMA UserBlocksSent ==
  ASSUME NEW m \in Message, NEW b \in C!ToSet(m.blocks)
  PROVE  SentIn(b, C!MapUser(m))
<1> DEFINE results == C!Of(m.blocks, {"result"})
           rest == C!Of(m.blocks, C!Types \ {"result"})
           after == UserRows(rest)
<1>1. m.blocks \in Seq(ABlock) /\ results \in Seq(ABlock) /\ rest \in Seq(ABlock)
  BY OfTyped DEF Message
<1>2. b \in ABlock
  BY <1>1, LenProperties DEF C!ToSet
<1>3. ToolRows(results) \in Seq(Row) /\ after \in Seq(Row)
  BY <1>1, ToolRowsTyped, UserRowsTyped
<1>4. C!MapUser(m) = ToolRows(results) \o after
  BY MapUserIs
<1>5. C!ToSet(C!MapUser(m)) = C!ToSet(ToolRows(results)) \cup C!ToSet(after)
  <2> HIDE DEF results, after
  <2> QED
    BY <1>3, <1>4, MembersOfParts
<1>6. /\ C!ToSet(results) = {c \in C!ToSet(m.blocks) : c.type \in {"result"}}
      /\ C!ToSet(rest) = {c \in C!ToSet(m.blocks) : c.type \in C!Types \ {"result"}}
  BY <1>1, OfMembers
<1>7. CASE b.type = "result"
  <2>1. b \in C!ToSet(results)
    BY <1>6, <1>7
  <2>2. PICK i \in 1 .. Len(results) : results[i] = b
    BY <1>1, <2>1, LenProperties DEF C!ToSet
  <2>3. ToolRows(results)[i] = ToolRow(b) /\ i \in DOMAIN ToolRows(results)
    BY <1>1, <2>2, ToolRowsTyped, LenProperties
  <2>4. ToolRow(b) \in C!ToSet(C!MapUser(m))
    BY <1>5, <2>3 DEF C!ToSet
  <2>5. ToolRow(b).role = "tool" /\ b \in C!ToSet(ToolRow(b).blocks)
    BY DEF ToolRow, C!ToSet
  <2> QED
    BY <2>4, <2>5 DEF SentIn
<1>8. CASE b.type # "result"
  <2>1. b \in C!ToSet(rest)
    <3>1. b.type \in C!Types \ {"result"}
      BY <1>2, <1>8 DEF ABlock
    <3> QED
      BY <1>6, <3>1
  <2>2. rest # <<>>
    <3>1. C!ToSet(<<>>) = {}
      BY DEF C!ToSet
    <3> HIDE DEF rest
    <3> QED
      BY <2>1, <3>1
  <2>3. UserRow(rest) \in C!ToSet(C!MapUser(m))
    <3>1. after = <<UserRow(rest)>>
      BY <2>2 DEF UserRows
    <3> HIDE DEF after
    <3>2. UserRow(rest) \in C!ToSet(after)
      BY <3>1 DEF C!ToSet
    <3> QED
      BY <1>5, <3>2
  <2>4. UserRow(rest).role = "user" /\ b \in C!ToSet(UserRow(rest).blocks)
    BY <2>1 DEF UserRow
  <2> QED
    BY <2>3, <2>4 DEF SentIn
<1> QED
  BY <1>7, <1>8

-----------------------------------------------------------------------------
(* Sequences of messages in which the calls are answered.                  *)

CallsOf(r) == C!Of(r.blocks, C!CallTypes)

\* The conditions of C!CallsAnswered on the i-th message.
Followed(s, i) ==
  s[i].role = "assistant" =>
    \A k \in DOMAIN CallsOf(s[i]) :
      /\ i + k \in DOMAIN s /\ s[i + k].role = "tool"
      /\ \E j \in DOMAIN CallsOf(s[i]) : s[i + j].blocks[1].id = CallsOf(s[i])[k].id

Preceded(s, i) ==
  s[i].role = "tool" =>
    \E j \in 1 .. i - 1 :
      /\ s[i].blocks[1].id \in {c.id : c \in C!ToSet(CallsOf(s[j]))}
      /\ \A k \in j + 1 .. i : s[k].role = "tool"

LEMMA AnsweredIs ==
  ASSUME NEW s
  PROVE  C!CallsAnswered(s) <=> \A i \in DOMAIN s : Followed(s, i) /\ Preceded(s, i)
BY DEF C!CallsAnswered, Followed, Preceded, CallsOf

LEMMA CallsOfTyped ==
  ASSUME NEW r \in Row
  PROVE  /\ CallsOf(r) \in Seq(ABlock) /\ DOMAIN CallsOf(r) = 1 .. Len(CallsOf(r))
         /\ Len(CallsOf(r)) \in Nat
BY OfTyped, LenProperties DEF CallsOf, Row

LEMMA AnsweredOfNothing == C!CallsAnswered(<<>>)
BY DEF C!CallsAnswered

LEMMA AnsweredOfParts ==
  ASSUME NEW s \in Seq(Row), NEW t \in Seq(Row), C!CallsAnswered(s), C!CallsAnswered(t)
  PROVE  C!CallsAnswered(s \o t)
<1> DEFINE u == s \o t
           n == Len(s)
<1>1. /\ u \in Seq(Row) /\ Len(u) = n + Len(t)
      /\ \A i \in 1 .. n + Len(t) : u[i] = IF i <= n THEN s[i] ELSE t[i - n]
  BY ConcatProperties
<1>2. /\ n \in Nat /\ Len(t) \in Nat /\ DOMAIN s = 1 .. n
      /\ DOMAIN t = 1 .. Len(t) /\ DOMAIN u = 1 .. n + Len(t)
  BY <1>1, LenProperties
<1> HIDE DEF u, n
<1>3. \A i \in 1 .. n : i \in 1 .. n + Len(t) /\ u[i] = s[i] /\ s[i] \in Row
  BY <1>1, <1>2, ElementOfSeq DEF n
<1>4. \A i \in 1 .. Len(t) : n + i \in 1 .. n + Len(t) /\ u[n + i] = t[i] /\ t[i] \in Row
  BY <1>1, <1>2, ElementOfSeq
<1>5. \A i \in 1 .. n : Followed(s, i) /\ Preceded(s, i)
  BY <1>2, AnsweredIs
<1>6. \A i \in 1 .. Len(t) : Followed(t, i) /\ Preceded(t, i)
  BY <1>2, AnsweredIs
<1>7. ASSUME NEW i \in 1 .. n PROVE Followed(u, i) /\ Preceded(u, i)
  <2>1. u[i] = s[i]
    BY <1>3
  <2>2. Followed(u, i)
    <3> SUFFICES ASSUME s[i].role = "assistant", NEW k \in DOMAIN CallsOf(s[i])
                 PROVE  /\ i + k \in DOMAIN u /\ u[i + k].role = "tool"
                        /\ \E j \in DOMAIN CallsOf(s[i]) :
                             u[i + j].blocks[1].id = CallsOf(s[i])[k].id
      BY <2>1 DEF Followed
    <3>1. \A l \in DOMAIN CallsOf(s[i]) :
            /\ i + l \in 1 .. n /\ s[i + l].role = "tool"
            /\ \E j \in DOMAIN CallsOf(s[i]) : s[i + j].blocks[1].id = CallsOf(s[i])[l].id
      BY <1>2, <1>5 DEF Followed
    <3>2. PICK j \in DOMAIN CallsOf(s[i]) : s[i + j].blocks[1].id = CallsOf(s[i])[k].id
      BY <3>1
    <3>3. u[i + k] = s[i + k] /\ u[i + j] = s[i + j] /\ i + k \in 1 .. n + Len(t)
      BY <1>3, <3>1
    <3> QED
      BY <1>2, <3>1, <3>2, <3>3
  <2>3. Preceded(u, i)
    <3> SUFFICES ASSUME s[i].role = "tool"
                 PROVE  \E j \in 1 .. i - 1 :
                          /\ s[i].blocks[1].id \in {c.id : c \in C!ToSet(CallsOf(u[j]))}
                          /\ \A k \in j + 1 .. i : u[k].role = "tool"
      BY <2>1 DEF Preceded
    <3>1. PICK j \in 1 .. i - 1 :
            /\ s[i].blocks[1].id \in {c.id : c \in C!ToSet(CallsOf(s[j]))}
            /\ \A k \in j + 1 .. i : s[k].role = "tool"
      BY <1>5 DEF Preceded
    <3>2. j \in 1 .. n /\ \A k \in j + 1 .. i : k \in 1 .. n
      BY <1>2
    <3>3. u[j] = s[j] /\ \A k \in j + 1 .. i : u[k] = s[k]
      BY <1>3, <3>2
    <3> QED
      BY <3>1, <3>3
  <2> QED
    BY <2>2, <2>3
<1>8. ASSUME NEW i \in 1 .. Len(t) PROVE Followed(u, n + i) /\ Preceded(u, n + i)
  <2>1. u[n + i] = t[i] /\ t[i] \in Row
    BY <1>4
  <2>2. Followed(u, n + i)
    <3> SUFFICES ASSUME t[i].role = "assistant", NEW k \in DOMAIN CallsOf(t[i])
                 PROVE  /\ (n + i) + k \in DOMAIN u /\ u[(n + i) + k].role = "tool"
                        /\ \E j \in DOMAIN CallsOf(t[i]) :
                             u[(n + i) + j].blocks[1].id = CallsOf(t[i])[k].id
      BY <2>1 DEF Followed
    <3>1. \A l \in DOMAIN CallsOf(t[i]) :
            /\ i + l \in 1 .. Len(t) /\ t[i + l].role = "tool"
            /\ \E j \in DOMAIN CallsOf(t[i]) : t[i + j].blocks[1].id = CallsOf(t[i])[l].id
      BY <1>2, <1>6 DEF Followed
    <3>2. \A l \in DOMAIN CallsOf(t[i]) : (n + i) + l = n + (i + l)
      BY <1>2, <2>1, CallsOfTyped
    <3>3. PICK j \in DOMAIN CallsOf(t[i]) : t[i + j].blocks[1].id = CallsOf(t[i])[k].id
      BY <3>1
    <3>4. /\ u[(n + i) + k] = t[i + k] /\ u[(n + i) + j] = t[i + j]
          /\ (n + i) + k \in 1 .. n + Len(t)
      BY <1>4, <3>1, <3>2
    <3> QED
      BY <1>2, <3>1, <3>3, <3>4
  <2>3. Preceded(u, n + i)
    <3> SUFFICES ASSUME t[i].role = "tool"
                 PROVE  \E j \in 1 .. (n + i) - 1 :
                          /\ t[i].blocks[1].id \in {c.id : c \in C!ToSet(CallsOf(u[j]))}
                          /\ \A k \in j + 1 .. n + i : u[k].role = "tool"
      BY <2>1 DEF Preceded
    <3>1. PICK j \in 1 .. i - 1 :
            /\ t[i].blocks[1].id \in {c.id : c \in C!ToSet(CallsOf(t[j]))}
            /\ \A k \in j + 1 .. i : t[k].role = "tool"
      BY <1>6 DEF Preceded
    <3>2. n + j \in 1 .. (n + i) - 1 /\ j \in 1 .. Len(t)
      BY <1>2
    <3>3. u[n + j] = t[j]
      BY <1>4, <3>2
    <3>4. ASSUME NEW k \in (n + j) + 1 .. n + i PROVE u[k].role = "tool"
      <4>1. k - n \in j + 1 .. i /\ k - n \in 1 .. Len(t) /\ n + (k - n) = k
        BY <1>2
      <4>2. u[k] = t[k - n]
        BY <1>4, <4>1
      <4> QED
        BY <3>1, <4>1, <4>2
    <3> QED
      BY <3>1, <3>2, <3>3, <3>4
  <2> QED
    BY <2>2, <2>3
<1>9. \A i \in 1 .. n + Len(t) : i \in 1 .. n \/ (i - n \in 1 .. Len(t) /\ n + (i - n) = i)
  BY <1>2
<1>10. \A i \in DOMAIN u : Followed(u, i) /\ Preceded(u, i)
  BY <1>2, <1>7, <1>8, <1>9
<1>11. C!CallsAnswered(u)
  BY <1>10, AnsweredIs
<1> QED
  BY <1>11 DEF u

\* A message that calls nothing and answers nothing.
LEMMA AnsweredOfOne ==
  ASSUME NEW r \in Row, r.role # "tool", r.role = "assistant" => CallsOf(r) = <<>>
  PROVE  C!CallsAnswered(<<r>>)
<1> DEFINE s == <<r>>
<1>1. DOMAIN s = {1} /\ s[1] = r
  OBVIOUS
<1> HIDE DEF s
<1>2. r.role = "assistant" => DOMAIN CallsOf(r) = {}
  <2>1. DOMAIN <<>> = {}
    OBVIOUS
  <2> QED
    BY <2>1
<1>3. Followed(s, 1) /\ Preceded(s, 1)
  BY <1>1, <1>2 DEF Followed, Preceded
<1>4. C!CallsAnswered(s)
  BY <1>1, <1>3, AnsweredIs
<1> QED
  BY <1>4 DEF s

\* A message with calls and the results of each.
LEMMA AnsweredOfTurn ==
  ASSUME NEW a \in Row, a.role = "assistant", NEW results \in Seq(ABlock),
         Len(results) = Len(CallsOf(a)),
         \A i \in 1 .. Len(results) : results[i].id = CallsOf(a)[i].id
  PROVE  C!CallsAnswered(<<a>> \o ToolRows(results))
<1> DEFINE t == ToolRows(results)
           one == <<a>>
           u == one \o t
           n == Len(results)
<1>1. /\ t \in Seq(Row) /\ Len(t) = n
      /\ \A i \in 1 .. n : t[i] = ToolRow(results[i])
  BY ToolRowsTyped
<1>2. one \in Seq(Row) /\ Len(one) = 1 /\ one[1] = a
  OBVIOUS
<1>3. n \in Nat
  BY LenProperties
<1> HIDE DEF t, one
<1>4. /\ u \in Seq(Row) /\ Len(u) = 1 + n
      /\ \A i \in 1 .. 1 + n : u[i] = IF i <= 1 THEN one[i] ELSE t[i - 1]
  <2>1. one \in Seq(Row) /\ t \in Seq(Row)
    BY <1>1, <1>2
  <2>2. /\ one \o t \in Seq(Row) /\ Len(one \o t) = Len(one) + Len(t)
        /\ \A i \in 1 .. Len(one) + Len(t) :
             (one \o t)[i] = IF i <= Len(one) THEN one[i] ELSE t[i - Len(one)]
    BY <2>1, ConcatProperties
  <2> QED
    BY <1>1, <1>2, <2>2
<1> HIDE DEF u
<1>5. DOMAIN u = 1 .. 1 + n
  BY <1>4, LenProperties
<1>6. u[1] = a
  BY <1>2, <1>3, <1>4
<1>7. \A i \in 1 .. n : 1 + i \in 1 .. 1 + n /\ u[1 + i] = ToolRow(results[i])
  BY <1>1, <1>3, <1>4
<1>8. \A r \in ABlock : ToolRow(r).role = "tool" /\ ToolRow(r).blocks[1] = r
  BY DEF ToolRow
<1>9. \A i \in 1 .. n : u[1 + i].role = "tool" /\ u[1 + i].blocks[1] = results[i]
  BY <1>7, <1>8, ElementOfSeq DEF n
<1>10. DOMAIN CallsOf(a) = 1 .. n /\ CallsOf(a) \in Seq(ABlock)
  BY CallsOfTyped DEF n
<1>11. Followed(u, 1) /\ Preceded(u, 1)
  BY <1>5, <1>6, <1>7, <1>9, <1>10 DEF Followed, Preceded, n
<1>12. ASSUME NEW i \in 1 .. n PROVE Followed(u, 1 + i) /\ Preceded(u, 1 + i)
  <2>1. Followed(u, 1 + i)
    BY <1>9 DEF Followed
  <2>2. results[i].id \in {c.id : c \in C!ToSet(CallsOf(u[1]))}
    <3>1. results[i].id = CallsOf(a)[i].id
      BY DEF n
    <3> QED
      BY <1>6, <1>10, <3>1 DEF C!ToSet
  <2>3. ASSUME NEW k \in 1 + 1 .. 1 + i PROVE u[k].role = "tool"
    <3>1. k - 1 \in 1 .. n /\ 1 + (k - 1) = k
      BY <1>3
    <3> QED
      BY <1>9, <3>1
  <2>4. 1 \in 1 .. (1 + i) - 1
    BY <1>3
  <2> QED
    BY <1>9, <2>1, <2>2, <2>3, <2>4 DEF Preceded
<1>13. \A i \in 1 .. 1 + n : i = 1 \/ (i - 1 \in 1 .. n /\ 1 + (i - 1) = i)
  BY <1>3
<1>14. \A i \in DOMAIN u : Followed(u, i) /\ Preceded(u, i)
  BY <1>5, <1>11, <1>12, <1>13
<1>15. C!CallsAnswered(u)
  BY <1>14, AnsweredIs
<1> QED
  BY <1>15 DEF u, t, one

-----------------------------------------------------------------------------
(* The conversation, and what is sent of it.                               *)

\* A message that asks for agents, by what its user says and by its blocks.
Wants(m) == m.role = "user" /\ C!UserSaid(m) \cap {"ask", "reminder"} # {}
HoldsAsk(m) == C!Block("ask") \in C!ToSet(m.blocks)

\* All calls are answered but those of the last message.
Owing(s, calls) ==
  \E p \in Seq(Row), a \in Row :
    /\ s = p \o <<a>> /\ C!CallsAnswered(p)
    /\ a.role = "assistant" /\ CallsOf(a) = calls

BodyInv(demanding) ==
  LET s == Body(history, demanding) IN
  /\ \A r \in C!ToSet(s) : HasContent(r, demanding)
  /\ IF C!Pending = <<>> THEN C!CallsAnswered(s) ELSE Owing(s, C!Pending)
  /\ \A m \in C!ToSet(history) :
       m.role = "user" => \A b \in C!ToSet(m.blocks) : SentIn(b, s)

FanOutInv ==
  /\ C!PriorAgents(history) <= IF C!Asked(history) THEN Wanted ELSE 0
  /\ C!Asked(history) /\ C!UsersTurn /\ C!Pending = <<>> => C!PriorAgents(history) = Wanted

ConversationInv ==
  /\ history \in Seq(Message)
  /\ C!Turns(history) # {} => C!Max(C!Turns(history)) \in C!Turns(history)
  /\ C!Valid(history)
  /\ \A m \in C!ToSet(history) : Wants(m) <=> HoldsAsk(m)
  /\ \A demanding \in BOOLEAN : BodyInv(demanding)
  /\ FanOutInv

\* The conditions of C!Valid on a message after those of h.
ValidAfter(h, m) ==
  \A k \in DOMAIN m.blocks :
    LET b == m.blocks[k] IN
    /\ m.role = "system" => b.type \in C!TextTypes
    /\ b.type \in C!CallTypes => m.role = "assistant"
    /\ b.type = "result" =>
         /\ m.role = "user"
         /\ \E j \in DOMAIN h : b.id \in {c.id : c \in C!ToSet(C!Of(h[j].blocks, C!CallTypes))}

LEMMA MoreIs ==
  ASSUME NEW X, NEW h \in Seq(X), NEW m \in X
  PROVE  /\ Append(h, m) \in Seq(X) /\ Len(h) \in Nat /\ DOMAIN h = 1 .. Len(h)
         /\ DOMAIN Append(h, m) = 1 .. Len(h) + 1
         /\ Append(h, m)[Len(h) + 1] = m
         /\ \A i \in 1 .. Len(h) : Append(h, m)[i] = h[i] /\ i \in 1 .. Len(h) + 1
         /\ \A i \in 1 .. Len(h) + 1 : i \in 1 .. Len(h) \/ i = Len(h) + 1
         /\ Len(h) + 1 \in 1 .. Len(h) + 1
<1>1. /\ Append(h, m) \in Seq(X) /\ Len(Append(h, m)) = Len(h) + 1
      /\ Append(h, m)[Len(h) + 1] = m
      /\ \A i \in 1 .. Len(h) : Append(h, m)[i] = h[i]
  BY AppendProperties
<1>2. /\ Len(h) \in Nat /\ DOMAIN h = 1 .. Len(h)
      /\ DOMAIN Append(h, m) = 1 .. Len(Append(h, m))
  BY <1>1, LenProperties
<1> QED
  BY <1>1, <1>2

LEMMA ValidOfMore ==
  ASSUME NEW h \in Seq(Message), NEW m \in Message, C!Valid(h), ValidAfter(h, m)
  PROVE  C!Valid(Append(h, m))
<1> DEFINE t == Append(h, m)
           n == Len(h)
           Fine(s, i, b) ==
             /\ s[i].role = "system" => b.type \in C!TextTypes
             /\ b.type \in C!CallTypes => s[i].role = "assistant"
             /\ b.type = "result" =>
                  /\ s[i].role = "user"
                  /\ \E j \in 1 .. i - 1 :
                       b.id \in {c.id : c \in C!ToSet(C!Of(s[j].blocks, C!CallTypes))}
<1>1. /\ n \in Nat /\ DOMAIN h = 1 .. n /\ DOMAIN t = 1 .. n + 1 /\ t[n + 1] = m
      /\ \A i \in 1 .. n : t[i] = h[i]
      /\ \A i \in 1 .. n + 1 : i \in 1 .. n \/ i = n + 1
  BY MoreIs
<1> HIDE DEF t, n
<1>2. \A i \in 1 .. n : \A k \in DOMAIN h[i].blocks : Fine(h, i, h[i].blocks[k])
  BY <1>1 DEF C!Valid
<1>3. ASSUME NEW i \in 1 .. n, NEW k \in DOMAIN t[i].blocks
      PROVE  Fine(t, i, t[i].blocks[k])
  <2>1. t[i] = h[i] /\ \A j \in 1 .. i - 1 : t[j] = h[j]
    BY <1>1
  <2>2. Fine(h, i, t[i].blocks[k])
    BY <1>2, <2>1
  <2> QED
    BY <2>1, <2>2
<1>4. ASSUME NEW k \in DOMAIN m.blocks PROVE Fine(t, n + 1, m.blocks[k])
  <2>1. \A j \in DOMAIN h : j \in 1 .. (n + 1) - 1 /\ t[j] = h[j]
    BY <1>1
  <2> QED
    BY <1>1, <2>1 DEF ValidAfter
<1>5. \A i \in DOMAIN t : \A k \in DOMAIN t[i].blocks : Fine(t, i, t[i].blocks[k])
  <2> HIDE DEF Fine
  <2> QED
    BY <1>1, <1>3, <1>4
<1>6. C!Valid(t)
  BY <1>5 DEF C!Valid
<1> QED
  BY <1>6 DEF t

LEMMA AskedOfMore ==
  ASSUME NEW h \in Seq(Message), NEW m \in Message
  PROVE  C!Asked(Append(h, m)) <=> C!Asked(h) \/ Wants(m)
<1> DEFINE t == Append(h, m)
           n == Len(h)
<1>1. /\ n \in Nat /\ DOMAIN h = 1 .. n /\ DOMAIN t = 1 .. n + 1 /\ t[n + 1] = m
      /\ \A i \in 1 .. n : t[i] = h[i] /\ i \in 1 .. n + 1
      /\ \A i \in 1 .. n + 1 : i \in 1 .. n \/ i = n + 1
      /\ n + 1 \in 1 .. n + 1
  BY MoreIs
<1> HIDE DEF t, n
<1>2. \A s : C!Asked(s) <=> \E i \in DOMAIN s : Wants(s[i])
  BY DEF C!Asked, Wants
<1>3. C!Asked(t) <=> C!Asked(h) \/ Wants(m)
  BY <1>1, <1>2
<1> QED
  BY <1>3 DEF t

LEMMA AgentsOfMore ==
  ASSUME NEW h \in Seq(Message), NEW m \in Message
  PROVE  /\ C!PriorAgents(h) \in Nat
         /\ C!PriorAgents(Append(h, m)) = C!PriorAgents(h) + Len(C!Of(m.blocks, {"agent"}))
<1>1. /\ C!Calls(h) \in Seq(ABlock) /\ m.blocks \in Seq(ABlock)
      /\ C!Of(m.blocks, C!CallTypes) \in Seq(ABlock)
  BY CallsTyped, OfTyped DEF Message
<1>2. C!Calls(Append(h, m)) = C!Calls(h) \o C!Of(m.blocks, C!CallTypes)
  BY CallsOfMore
<1>3. C!Of(C!Of(m.blocks, C!CallTypes), {"agent"}) = C!Of(m.blocks, {"agent"})
  <2>1. {"agent"} \subseteq C!CallTypes
    BY DEF C!CallTypes
  <2> QED
    BY <1>1, <2>1, OfOf
<1>4. C!Of(C!Calls(Append(h, m)), {"agent"})
        = C!Of(C!Calls(h), {"agent"}) \o C!Of(m.blocks, {"agent"})
  BY <1>1, <1>2, <1>3, OfParts
<1>5. C!Of(C!Calls(h), {"agent"}) \in Seq(ABlock) /\ C!Of(m.blocks, {"agent"}) \in Seq(ABlock)
  BY <1>1, OfTyped
<1>6. Len(C!Of(C!Calls(h), {"agent"})) \in Nat
  BY <1>5, LenProperties
<1> QED
  BY <1>4, <1>5, <1>6, ConcatProperties DEF C!PriorAgents

\* A message of the user or of the model is the last turn.
LEMMA LastTurnIs ==
  ASSUME history \in Seq(Message), NEW m \in Message, m.role # "system",
         history' = Append(history, m)
  PROVE  /\ C!Max(C!Turns(history)') \in C!Turns(history)'
         /\ C!UsersTurn' <=> m.role = "assistant"
         /\ C!Pending' = IF m.role = "assistant" THEN C!Of(m.blocks, C!CallTypes) ELSE <<>>
<1> DEFINE n == Len(history)
           turns == C!Turns(history)'
<1>1. n \in Nat /\ DOMAIN history' = 1 .. n + 1 /\ history'[n + 1] = m /\ n + 1 \in 1 .. n + 1
  BY MoreIs
<1>2. turns \subseteq 1 .. n + 1 /\ n + 1 \in turns
  BY <1>1 DEF C!Turns
<1> HIDE DEF n
<1>3. C!Max(turns) = n + 1
  <2> HIDE DEF turns
  <2>1. \A y \in turns : n + 1 >= y
    BY <1>1, <1>2
  <2>2. \A x \in turns : x >= n + 1 => x = n + 1
    BY <1>1, <1>2
  <2> QED
    BY <1>2, <2>1, <2>2 DEF C!Max
<1>4. C!LastTurn' = m
  BY <1>1, <1>3 DEF C!LastTurn
<1>5. C!UsersTurn' <=> m.role = "assistant"
  BY <1>2, <1>4 DEF C!UsersTurn
<1>6. C!Pending' = IF m.role = "assistant" THEN C!Of(m.blocks, C!CallTypes) ELSE <<>>
  BY <1>2, <1>4, <1>5 DEF C!Pending
<1> QED
  BY <1>2, <1>3, <1>5, <1>6

LEMMA LastTurnStays ==
  ASSUME history \in Seq(Message), NEW m \in Message, m.role = "system",
         C!Turns(history) # {} => C!Max(C!Turns(history)) \in C!Turns(history),
         history' = Append(history, m)
  PROVE  /\ C!Turns(history)' = C!Turns(history)
         /\ C!UsersTurn' <=> C!UsersTurn
         /\ C!Pending' = C!Pending
<1> DEFINE n == Len(history)
<1>1. /\ n \in Nat /\ DOMAIN history = 1 .. n /\ DOMAIN history' = 1 .. n + 1
      /\ history'[n + 1] = m
      /\ \A i \in 1 .. n : history'[i] = history[i] /\ i \in 1 .. n + 1
      /\ \A i \in 1 .. n + 1 : i \in 1 .. n \/ i = n + 1
  BY MoreIs
<1> HIDE DEF n
<1>2. C!Turns(history)' = C!Turns(history)
  BY <1>1 DEF C!Turns
<1>3. C!Turns(history) # {} => C!LastTurn' = C!LastTurn
  <2> SUFFICES ASSUME C!Turns(history) # {} PROVE C!LastTurn' = C!LastTurn
    OBVIOUS
  <2>1. C!Max(C!Turns(history)) \in 1 .. n
    BY <1>1 DEF C!Turns
  <2> QED
    BY <1>1, <1>2, <2>1 DEF C!LastTurn
<1>4. C!UsersTurn' <=> C!UsersTurn
  BY <1>2, <1>3 DEF C!UsersTurn
<1> QED
  BY <1>2, <1>3, <1>4 DEF C!Pending

LEMMA SentInMore ==
  ASSUME NEW s \in Seq(Row), NEW t \in Seq(Row), NEW b, SentIn(b, s) \/ SentIn(b, t)
  PROVE  SentIn(b, s \o t)
BY MembersOfParts DEF SentIn

LEMMA BodyGrows ==
  ASSUME history \in Seq(Message), NEW m \in Message, history' = Append(history, m),
         m.role = "user" => C!Of(m.blocks, C!CallTypes) = <<>>,
         NEW demanding \in BOOLEAN, BodyInv(demanding)
  PROVE  LET s == Body(history, demanding) IN
         /\ s \in Seq(Row) /\ C!MapMessage(m, demanding) \in Seq(Row)
         /\ s' = s \o C!MapMessage(m, demanding)
         /\ \A r \in C!ToSet(s') : HasContent(r, demanding)
         /\ \A u \in C!ToSet(history') :
              u.role = "user" => \A b \in C!ToSet(u.blocks) : SentIn(b, s')
<1> DEFINE s == Body(history, demanding)
           more == C!MapMessage(m, demanding)
<1>1. s \in Seq(Row) /\ more \in Seq(Row)
  <2>1. Rows(demanding)[m] \in Seq(Row)
    BY RowsTyped DEF Makes
  <2> QED
    BY <2>1, BodyTyped DEF Rows
<1>2. s' = s \o more
  BY BodyOfMore
<1>3. \A r \in C!ToSet(s') : HasContent(r, demanding)
  <2>1. \A r \in C!ToSet(more) : HasContent(r, demanding)
    BY RowsHaveContent
  <2>2. \A r \in C!ToSet(s) : HasContent(r, demanding)
    BY DEF BodyInv
  <2>3. C!ToSet(s \o more) = C!ToSet(s) \cup C!ToSet(more)
    BY <1>1, MembersOfParts
  <2> HIDE DEF s, more
  <2> QED
    BY <1>2, <2>1, <2>2, <2>3
<1>4. C!ToSet(history') = C!ToSet(history) \cup {m}
  BY MembersOfMore
<1>5. ASSUME NEW u \in C!ToSet(history'), u.role = "user", NEW b \in C!ToSet(u.blocks)
      PROVE  SentIn(b, s')
  <2>1. SentIn(b, s) \/ SentIn(b, more)
    <3>1. CASE u \in C!ToSet(history)
      BY <1>5, <3>1 DEF BodyInv
    <3>2. CASE u = m
      <4>1. more = C!MapUser(m)
        BY <1>5, <3>2 DEF C!MapMessage
      <4> QED
        BY <3>2, <4>1, UserBlocksSent
    <3> QED
      BY <1>4, <3>1, <3>2
  <2> HIDE DEF s, more
  <2> QED
    BY <1>1, <1>2, <2>1, SentInMore
<1> QED
  BY <1>1, <1>2, <1>3, <1>5

\* What is left of the invariant when a message is added.
LEMMA MoreKeeps ==
  ASSUME ConversationInv, NEW m \in Message, history' = Append(history, m),
         ValidAfter(history, m), Wants(m) <=> HoldsAsk(m)
  PROVE  /\ history' \in Seq(Message)
         /\ C!Valid(history)'
         /\ \A u \in C!ToSet(history)' : Wants(u) <=> HoldsAsk(u)
<1>1. history \in Seq(Message) /\ C!Valid(history)
      /\ \A u \in C!ToSet(history) : Wants(u) <=> HoldsAsk(u)
  BY DEF ConversationInv
<1>2. C!ToSet(history') = C!ToSet(history) \cup {m}
  BY <1>1, MembersOfMore
<1>3. C!Valid(history')
  BY <1>1, ValidOfMore
<1>4. history' \in Seq(Message)
  BY <1>1, AppendProperties
<1> QED
  BY <1>1, <1>2, <1>3, <1>4

LEMMA UserSpeaks ==
  ASSUME ConversationInv, NEW m \in Message, m.role = "user", history' = Append(history, m),
         C!UsersTurn, ValidAfter(history, m), Wants(m) <=> HoldsAsk(m),
         C!Of(m.blocks, C!CallTypes) = <<>>,
         C!Of(m.blocks, {"result"}) = C!Results
  PROVE  ConversationInv'
<1>1. history \in Seq(Message) /\ m.role # "system"
  BY DEF ConversationInv
<1>2. /\ history' \in Seq(Message) /\ C!Valid(history)'
      /\ \A u \in C!ToSet(history)' : Wants(u) <=> HoldsAsk(u)
  BY MoreKeeps
<1>3. /\ C!Max(C!Turns(history)') \in C!Turns(history)'
      /\ ~C!UsersTurn' /\ C!Pending' = <<>>
  BY <1>1, LastTurnIs
<1>4. FanOutInv'
  <2>1. /\ C!PriorAgents(history) \in Nat
        /\ C!PriorAgents(history)' = C!PriorAgents(history) + Len(C!Of(m.blocks, {"agent"}))
    BY <1>1, AgentsOfMore
  <2>2. Len(C!Of(m.blocks, {"agent"})) = 0
    <3>1. C!Of(C!Of(m.blocks, C!CallTypes), {"agent"}) = C!Of(m.blocks, {"agent"})
      <4>1. {"agent"} \subseteq C!CallTypes /\ m.blocks \in Seq(ABlock)
        BY DEF C!CallTypes, Message
      <4> QED
        BY <4>1, OfOf
    <3> QED
      BY <3>1, OfNothing, EmptySeq
  <2>3. C!Asked(history) => C!Asked(history)'
    BY <1>1, AskedOfMore
  <2>4. C!PriorAgents(history) <= IF C!Asked(history) THEN Wanted ELSE 0
    BY DEF ConversationInv, FanOutInv
  <2> QED
    BY <1>3, <2>1, <2>2, <2>3, <2>4, FanOutAssumption DEF FanOutInv
<1>5. ASSUME NEW demanding \in BOOLEAN PROVE BodyInv(demanding)'
  <2> DEFINE s == Body(history, demanding)
             rest == C!Of(m.blocks, C!Types \ {"result"})
             outcome == ToolRows(C!Results)
  <2>1. BodyInv(demanding)
    BY DEF ConversationInv
  <2>2. /\ s \in Seq(Row)
        /\ s' = s \o C!MapMessage(m, demanding)
        /\ \A r \in C!ToSet(s') : HasContent(r, demanding)
        /\ \A u \in C!ToSet(history') :
             u.role = "user" => \A b \in C!ToSet(u.blocks) : SentIn(b, s')
    BY <1>1, <2>1, BodyGrows
  <2>3. C!MapMessage(m, demanding) = outcome \o UserRows(rest)
    BY MapUserIs DEF C!MapMessage
  <2>4. m.blocks \in Seq(ABlock) /\ rest \in Seq(ABlock) /\ C!Results \in Seq(ABlock)
    BY OfTyped DEF Message
  <2>5. /\ UserRows(rest) \in Seq(Row) /\ outcome \in Seq(Row)
        /\ C!CallsAnswered(UserRows(rest))
    <3>1. UserRows(rest) \in Seq(Row) /\ outcome \in Seq(Row)
      BY <2>4, UserRowsTyped, ToolRowsTyped
    <3>2. CASE rest = <<>>
      BY <3>1, <3>2, AnsweredOfNothing DEF UserRows
    <3>3. CASE rest # <<>>
      <4>1. UserRow(rest) \in Row /\ UserRow(rest).role = "user"
        BY <2>4 DEF UserRow, Row
      <4> QED
        BY <3>1, <3>3, <4>1, AnsweredOfOne DEF UserRows
    <3> QED
      BY <3>1, <3>2, <3>3
  <2> HIDE DEF s, rest, outcome
  <2>6. s \o outcome \in Seq(Row) /\ C!CallsAnswered(s \o outcome)
    <3>1. CASE C!Pending = <<>>
      <4>1. outcome = <<>>
        BY <3>1 DEF outcome, C!Results, ToolRows
      <4>2. C!CallsAnswered(s)
        BY <2>1, <3>1 DEF BodyInv, s
      <4> QED
        BY <2>2, <4>1, <4>2, ConcatEmptySeq
    <3>2. CASE C!Pending # <<>>
      <4>1. PICK p \in Seq(Row), a \in Row :
              /\ s = p \o <<a>> /\ C!CallsAnswered(p)
              /\ a.role = "assistant" /\ CallsOf(a) = C!Pending
        BY <2>1, <3>2 DEF BodyInv, Owing, s
      <4>2. /\ Len(C!Results) = Len(CallsOf(a))
            /\ \A i \in 1 .. Len(C!Results) : C!Results[i].id = CallsOf(a)[i].id
        BY <2>4, <4>1, CallsOfTyped, LenProperties DEF C!Results, C!Call
      <4>3. C!CallsAnswered(<<a>> \o outcome)
        BY <2>4, <4>1, <4>2, AnsweredOfTurn DEF outcome
      <4>4. <<a>> \in Seq(Row)
        OBVIOUS
      <4>5. <<a>> \o outcome \in Seq(Row)
        BY <2>5, <4>4, ConcatProperties
      <4>6. p \o (<<a>> \o outcome) \in Seq(Row) /\ C!CallsAnswered(p \o (<<a>> \o outcome))
        BY <4>1, <4>3, <4>5, AnsweredOfParts, ConcatProperties
      <4>7. (p \o <<a>>) \o outcome = p \o (<<a>> \o outcome)
        BY <2>5, <4>4, ConcatAssociative
      <4> QED
        BY <4>1, <4>6, <4>7
    <3> QED
      BY <3>1, <3>2
  <2>7. C!CallsAnswered((s \o outcome) \o UserRows(rest))
    BY <2>5, <2>6, AnsweredOfParts
  <2>8. (s \o outcome) \o UserRows(rest) = s \o (outcome \o UserRows(rest))
    <3>1. \A a, b, c \in Seq(Row) : (a \o b) \o c = a \o (b \o c)
      BY ConcatAssociative
    <3> QED
      BY <2>2, <2>5, <3>1
  <2>9. C!CallsAnswered(s')
    BY <2>2, <2>3, <2>7, <2>8
  <2> QED
    BY <1>3, <2>2, <2>9 DEF BodyInv, s
<1> QED
  BY <1>2, <1>3, <1>4, <1>5 DEF ConversationInv

LEMMA ModelSpeaks ==
  ASSUME ConversationInv, NEW m \in Message, m.role = "assistant",
         history' = Append(history, m),
         ~C!UsersTurn, ValidAfter(history, m), ~HoldsAsk(m),
         LET n == Len(C!Of(m.blocks, {"agent"}))
         IN  IF C!Remaining(history) > 0 THEN n \in 1 .. C!Remaining(history) ELSE n = 0
  PROVE  ConversationInv'
<1> DEFINE n == Len(C!Of(m.blocks, {"agent"}))
           calls == C!Of(m.blocks, C!CallTypes)
<1>1. history \in Seq(Message) /\ m.role # "system" /\ ~Wants(m)
  BY DEF ConversationInv, Wants
<1>2. /\ history' \in Seq(Message) /\ C!Valid(history)'
      /\ \A u \in C!ToSet(history)' : Wants(u) <=> HoldsAsk(u)
  BY <1>1, MoreKeeps
<1>3. /\ C!Max(C!Turns(history)') \in C!Turns(history)'
      /\ C!UsersTurn' /\ C!Pending' = calls
  BY <1>1, LastTurnIs
<1>4. C!Pending = <<>>
  BY DEF C!Pending
<1>5. FanOutInv'
  <2>1. /\ C!PriorAgents(history) \in Nat
        /\ C!PriorAgents(history)' = C!PriorAgents(history) + n
    BY <1>1, AgentsOfMore
  <2>2. calls = <<>> => n = 0
    <3>1. C!Of(calls, {"agent"}) = C!Of(m.blocks, {"agent"})
      <4>1. {"agent"} \subseteq C!CallTypes /\ m.blocks \in Seq(ABlock)
        BY DEF C!CallTypes, Message
      <4> QED
        BY <4>1, OfOf
    <3> HIDE DEF calls
    <3> QED
      BY <3>1, OfNothing, EmptySeq
  <2>3. C!Asked(history)' <=> C!Asked(history)
    BY <1>1, AskedOfMore
  <2>4. C!PriorAgents(history) <= IF C!Asked(history) THEN Wanted ELSE 0
    BY DEF ConversationInv, FanOutInv
  <2> HIDE DEF n, calls
  <2>5. IF C!Remaining(history) > 0 THEN n \in 1 .. C!Remaining(history) ELSE n = 0
    BY DEF n
  <2>6. C!Remaining(history)
          = IF C!Asked(history) /\ C!PriorAgents(history) < Wanted
            THEN Wanted - C!PriorAgents(history) ELSE 0
    BY DEF C!Remaining
  <2> QED
    BY <1>3, <2>1, <2>2, <2>3, <2>4, <2>5, <2>6, FanOutAssumption DEF FanOutInv
<1>6. ASSUME NEW demanding \in BOOLEAN PROVE BodyInv(demanding)'
  <2> DEFINE s == Body(history, demanding)
  <2>1. BodyInv(demanding)
    BY DEF ConversationInv
  <2>2. /\ s \in Seq(Row)
        /\ s' = s \o C!MapMessage(m, demanding)
        /\ \A r \in C!ToSet(s') : HasContent(r, demanding)
        /\ \A u \in C!ToSet(history') :
             u.role = "user" => \A b \in C!ToSet(u.blocks) : SentIn(b, s')
    BY <1>1, <2>1, BodyGrows
  <2>3. C!CallsAnswered(s)
    BY <1>4, <2>1 DEF BodyInv
  <2>4. C!MapMessage(m, demanding) = C!MapAssistant(m, demanding)
    BY DEF C!MapMessage
  <2> HIDE DEF s, calls
  <2>5. IF calls = <<>> THEN C!CallsAnswered(s') ELSE Owing(s', calls)
    <3>1. CASE C!MapAssistant(m, demanding) = <<>> /\ calls = <<>>
      <4>1. s' = s
        BY <2>2, <2>4, <3>1, ConcatEmptySeq
      <4> QED
        BY <2>3, <3>1, <4>1
    <3>2. CASE \E r \in Row : /\ C!MapAssistant(m, demanding) = <<r>>
                              /\ r.role = "assistant" /\ CallsOf(r) = calls
      <4>1. PICK r \in Row : /\ C!MapAssistant(m, demanding) = <<r>>
                             /\ r.role = "assistant" /\ CallsOf(r) = calls
        BY <3>2
      <4>2. s' = s \o <<r>>
        BY <2>2, <2>4, <4>1
      <4>3. CASE calls = <<>>
        <5>1. C!CallsAnswered(<<r>>) /\ <<r>> \in Seq(Row)
          BY <4>1, <4>3, AnsweredOfOne
        <5> QED
          BY <2>2, <2>3, <4>2, <4>3, <5>1, AnsweredOfParts
      <4>4. CASE calls # <<>>
        BY <2>2, <2>3, <4>1, <4>2, <4>4 DEF Owing
      <4> QED
        BY <4>3, <4>4
    <3> QED
      BY <3>1, <3>2, MapAssistantIs DEF CallsOf, calls
  <2> QED
    BY <1>3, <2>2, <2>5 DEF BodyInv, s
<1> QED
  BY <1>2, <1>3, <1>5, <1>6 DEF ConversationInv

LEMMA HookSpeaks ==
  ASSUME ConversationInv, NEW m \in Message, m.role = "system",
         history' = Append(history, m), ValidAfter(history, m), ~HoldsAsk(m),
         C!Of(m.blocks, {"agent"}) = <<>>
  PROVE  ConversationInv'
<1>1. history \in Seq(Message) /\ ~Wants(m)
  BY DEF ConversationInv, Wants
<1>2. /\ history' \in Seq(Message) /\ C!Valid(history)'
      /\ \A u \in C!ToSet(history)' : Wants(u) <=> HoldsAsk(u)
  BY <1>1, MoreKeeps
<1>3. C!Turns(history) # {} => C!Max(C!Turns(history)) \in C!Turns(history)
  BY DEF ConversationInv
<1>4. /\ C!Turns(history)' = C!Turns(history)
      /\ C!UsersTurn' <=> C!UsersTurn
      /\ C!Pending' = C!Pending
  BY <1>1, <1>3, LastTurnStays
<1>5. FanOutInv'
  <2>1. /\ C!PriorAgents(history) \in Nat
        /\ C!PriorAgents(history)' = C!PriorAgents(history) + Len(C!Of(m.blocks, {"agent"}))
    BY <1>1, AgentsOfMore
  <2>2. C!PriorAgents(history)' = C!PriorAgents(history)
    BY <2>1, EmptySeq
  <2>3. C!Asked(history)' <=> C!Asked(history)
    BY <1>1, AskedOfMore
  <2> QED
    BY <1>4, <2>2, <2>3 DEF ConversationInv, FanOutInv
<1>6. ASSUME NEW demanding \in BOOLEAN PROVE BodyInv(demanding)'
  <2> DEFINE s == Body(history, demanding)
  <2>1. BodyInv(demanding)
    BY DEF ConversationInv
  <2>2. /\ s \in Seq(Row)
        /\ s' = s \o C!MapMessage(m, demanding)
        /\ \A r \in C!ToSet(s') : HasContent(r, demanding)
        /\ \A u \in C!ToSet(history') :
             u.role = "user" => \A b \in C!ToSet(u.blocks) : SentIn(b, s')
    BY <1>1, <2>1, BodyGrows
  <2>3. C!MapMessage(m, demanding) = <<>>
    BY DEF C!MapMessage
  <2>4. s' = s
    BY <2>2, <2>3, ConcatEmptySeq
  <2> QED
    BY <1>4, <2>1, <2>2, <2>4 DEF BodyInv
<1> QED
  BY <1>2, <1>3, <1>4, <1>5, <1>6 DEF ConversationInv

-----------------------------------------------------------------------------
(* What is said.                                                           *)

LEMMA OfThreeParts ==
  ASSUME NEW r \in Seq(ABlock), NEW s \in Seq(ABlock), NEW t \in Seq(ABlock)
  PROVE  /\ r \o s \o t \in Seq(ABlock)
         /\ C!ToSet(r \o s \o t) = (C!ToSet(r) \cup C!ToSet(s)) \cup C!ToSet(t)
         /\ \A types : C!Of(r \o s \o t, types)
                        = (C!Of(r, types) \o C!Of(s, types)) \o C!Of(t, types)
<1> DEFINE u == r \o s
<1>1. /\ u \in Seq(ABlock) /\ C!ToSet(u) = C!ToSet(r) \cup C!ToSet(s)
      /\ \A types : C!Of(u, types) = C!Of(r, types) \o C!Of(s, types)
  BY ConcatProperties, MembersOfParts, OfParts
<1> HIDE DEF u
<1>2. /\ u \o t \in Seq(ABlock) /\ C!ToSet(u \o t) = C!ToSet(u) \cup C!ToSet(t)
      /\ \A types : C!Of(u \o t, types) = C!Of(u, types) \o C!Of(t, types)
  <2>1. u \in Seq(ABlock)
    BY <1>1
  <2>2. u \o t \in Seq(ABlock)
    BY <2>1, ConcatProperties
  <2>3. C!ToSet(u \o t) = C!ToSet(u) \cup C!ToSet(t)
    BY <2>1, MembersOfParts
  <2>4. ASSUME NEW types PROVE C!Of(u \o t, types) = C!Of(u, types) \o C!Of(t, types)
    BY <2>1, OfParts
  <2> QED
    BY <2>2, <2>3, <2>4
<1> QED
  BY <1>1, <1>2 DEF u

Texts == {<<>>, <<C!Block("text")>>, <<C!Block("ask")>>,
          <<C!Block("reminder"), C!Block("text")>>,
          <<C!Block("reminder"), C!Block("ask")>>}

LEMMA BlockTyped == \A type \in C!Types : C!Block(type) \in ABlock /\ C!Block(type).type = type
BY DEF C!Block, ABlock

LEMMA OfTextAndAsk ==
  ASSUME NEW texts \in Texts
  PROVE  LET own == {i \in DOMAIN texts : \E j \in 1 .. i : texts[j].type # "reminder"}
         IN  {texts[i].type : i \in own} \cap {"ask", "reminder"} # {}
               <=> C!Block("ask") \in C!ToSet(texts)
<1> DEFINE own == {i \in DOMAIN texts : \E j \in 1 .. i : texts[j].type # "reminder"}
<1>1. CASE texts = <<>>
  BY <1>1 DEF C!ToSet
<1>2. CASE \E b \in {C!Block("text"), C!Block("ask")} : texts = <<b>>
  <2>1. PICK b \in {C!Block("text"), C!Block("ask")} : texts = <<b>>
    BY <1>2
  <2>2. DOMAIN texts = {1} /\ texts[1] = b /\ C!ToSet(texts) = {b}
    BY <2>1 DEF C!ToSet
  <2>3. b.type # "reminder"
    BY DEF C!Block
  <2>4. own = {1}
    BY <2>2, <2>3
  <2>5. {texts[i].type : i \in own} = {b.type}
    BY <2>2, <2>4
  <2>6. b.type \in {"ask", "reminder"} <=> C!Block("ask") = b
    BY DEF C!Block
  <2> QED
    BY <2>2, <2>5, <2>6
<1>3. CASE \E b \in {C!Block("text"), C!Block("ask")} : texts = <<C!Block("reminder"), b>>
  <2>1. PICK b \in {C!Block("text"), C!Block("ask")} : texts = <<C!Block("reminder"), b>>
    BY <1>3
  <2>2. /\ DOMAIN texts = {1, 2} /\ texts[1] = C!Block("reminder") /\ texts[2] = b
        /\ C!ToSet(texts) = {C!Block("reminder"), b}
    BY <2>1 DEF C!ToSet
  <2>3. b.type # "reminder" /\ C!Block("reminder").type = "reminder"
    BY DEF C!Block
  <2>4. own = {2}
    <3>1. 1 .. 1 = {1} /\ 2 \in 1 .. 2
      OBVIOUS
    <3>2. 1 \notin own
      BY <2>2, <2>3, <3>1
    <3>3. 2 \in own
      BY <2>2, <2>3, <3>1
    <3> QED
      BY <2>2, <3>2, <3>3
  <2>5. {texts[i].type : i \in own} = {b.type}
    BY <2>2, <2>4
  <2>6. b.type \in {"ask", "reminder"} <=> C!Block("ask") = b
    BY DEF C!Block
  <2>7. C!Block("ask") # C!Block("reminder")
    BY DEF C!Block
  <2> QED
    BY <2>2, <2>5, <2>6, <2>7
<1> QED
  BY <1>1, <1>2, <1>3 DEF Texts

LEMMA WantsWhatItHolds ==
  ASSUME NEW m \in Message, m.role = "user", C!Of(m.blocks, C!TextTypes) \in Texts
  PROVE  Wants(m) <=> HoldsAsk(m)
<1> DEFINE texts == C!Of(m.blocks, C!TextTypes)
<1>1. C!ToSet(texts) = {b \in C!ToSet(m.blocks) : b.type \in C!TextTypes}
  BY OfMembers DEF Message
<1>2. C!Block("ask").type \in C!TextTypes
  BY DEF C!Block, C!TextTypes
<1>3. HoldsAsk(m) <=> C!Block("ask") \in C!ToSet(texts)
  BY <1>1, <1>2 DEF HoldsAsk
<1>4. Wants(m) <=> C!Block("ask") \in C!ToSet(texts)
  BY OfTextAndAsk DEF Wants, C!UserSaid
<1> QED
  BY <1>3, <1>4

LEMMA TypesApart ==
  /\ C!TextTypes \subseteq C!Types /\ C!CallTypes \subseteq C!Types
  /\ "result" \in C!Types
  /\ C!TextTypes \cap C!CallTypes = {}
  /\ "result" \notin C!TextTypes \cup C!CallTypes
  /\ "image" \notin C!TextTypes \cup C!CallTypes
  /\ {"text", "image", "thinking", "redacted", "reminder", "ask"} \subseteq C!Types
  /\ {"text", "ask", "reminder"} \subseteq C!TextTypes
  /\ {"agent", "tool"} \subseteq C!CallTypes
  /\ "thinking" \notin C!CallTypes /\ "redacted" \notin C!CallTypes
BY DEF C!Types, C!TextTypes, C!CallTypes

\* What the user says besides results.
LEMMA PromptsAre ==
  ASSUME NEW blocks \in C!Prompts
  PROVE  /\ blocks \in Seq(ABlock)
         /\ \A b \in C!ToSet(blocks) : b.type \notin C!CallTypes \cup {"result"}
         /\ C!Of(blocks, C!TextTypes) \in Texts
<1>1. CASE \E type \in {"text", "ask", "image"} : blocks = <<C!Block(type)>>
  <2>1. PICK type \in {"text", "ask", "image"} : blocks = <<C!Block(type)>>
    BY <1>1
  <2>2. C!Block(type) \in ABlock /\ C!Block(type).type = type
    BY BlockTyped, TypesApart
  <2>3. C!ToSet(blocks) = {C!Block(type)}
    BY <2>1 DEF C!ToSet
  <2>4. C!Of(blocks, C!TextTypes) = IF type \in C!TextTypes THEN blocks ELSE <<>>
    BY <2>1, <2>2, OfOne
  <2> QED
    BY <2>1, <2>2, <2>3, <2>4, TypesApart DEF Texts
<1>2. CASE \E type \in {"text", "ask"} : blocks = <<C!Block("reminder"), C!Block(type)>>
  <2>1. PICK type \in {"text", "ask"} : blocks = <<C!Block("reminder"), C!Block(type)>>
    BY <1>2
  <2>2. /\ C!Block(type) \in ABlock /\ C!Block(type).type = type
        /\ C!Block("reminder") \in ABlock /\ C!Block("reminder").type = "reminder"
    BY BlockTyped, TypesApart
  <2>3. C!ToSet(blocks) = {C!Block("reminder"), C!Block(type)}
    BY <2>1 DEF C!ToSet
  <2>4. blocks \in Seq(ABlock) /\ Len(blocks) = 2
        /\ blocks[1].type = "reminder" /\ blocks[2].type = type
    BY <2>1, <2>2
  <2>5. C!Of(blocks, C!TextTypes) = blocks
    <3>1. \A i \in 1 .. Len(blocks) : blocks[i].type \in C!TextTypes
      BY <2>4, TypesApart
    <3> QED
      BY <2>4, <3>1, OfAll
  <2> QED
    BY <2>1, <2>2, <2>3, <2>4, <2>5, TypesApart DEF Texts
<1> QED
  BY <1>1, <1>2 DEF C!Prompts

LEMMA AsidesAre ==
  ASSUME NEW aside \in C!Asides
  PROVE  /\ aside[1] \in Seq(ABlock) /\ aside[2] \in Seq(ABlock)
         /\ \A b \in C!ToSet(aside[1]) \cup C!ToSet(aside[2]) : b.type \in C!TextTypes
         /\ aside[1] \o aside[2] \in Texts
<1>1. /\ C!Block("text") \in ABlock /\ C!Block("text").type = "text"
      /\ C!Block("reminder") \in ABlock /\ C!Block("reminder").type = "reminder"
  BY BlockTyped, TypesApart
<1>2. C!ToSet(<<>>) = {} /\ <<>> \in Seq(ABlock)
  BY EmptySeq DEF C!ToSet
<1>3. \A b \in ABlock : C!ToSet(<<b>>) = {b} /\ <<b>> \in Seq(ABlock)
                         /\ <<b>> \o <<>> = <<b>> /\ <<>> \o <<b>> = <<b>>
  BY <1>2, ConcatEmptySeq DEF C!ToSet
<1>4. <<C!Block("reminder")>> \o <<C!Block("text")>> = <<C!Block("reminder"), C!Block("text")>>
      /\ <<>> \o <<>> = <<>>
  <2> DEFINE a == C!Block("reminder")
             b == C!Block("text")
  <2>1. a \in ABlock /\ b \in ABlock
    BY <1>1
  <2> HIDE DEF a, b
  <2>2. /\ <<a>> \in Seq(ABlock) /\ Len(<<a>>) = 1 /\ <<a>>[1] = a
        /\ <<b>> \in Seq(ABlock) /\ Len(<<b>>) = 1 /\ <<b>>[1] = b
        /\ <<a, b>> \in Seq(ABlock) /\ Len(<<a, b>>) = 2
        /\ <<a, b>>[1] = a /\ <<a, b>>[2] = b
    BY <2>1
  <2>3. <<a>> \o <<b>> = <<a, b>>
    <3> DEFINE s == <<a>>
               t == <<b>>
               u == <<a, b>>
    <3> HIDE DEF s, t, u
    <3>1. /\ s \in Seq(ABlock) /\ Len(s) = 1 /\ s[1] = a
          /\ t \in Seq(ABlock) /\ Len(t) = 1 /\ t[1] = b
          /\ u \in Seq(ABlock) /\ Len(u) = 2 /\ u[1] = a /\ u[2] = b
      BY <2>2 DEF s, t, u
    <3>2. /\ s \o t \in Seq(ABlock) /\ Len(s \o t) = 1 + 1
          /\ \A i \in 1 .. 1 + 1 : (s \o t)[i] = IF i <= 1 THEN s[i] ELSE t[i - 1]
      <4>1. /\ s \o t \in Seq(ABlock) /\ Len(s \o t) = Len(s) + Len(t)
            /\ \A i \in 1 .. Len(s) + Len(t) :
                 (s \o t)[i] = IF i <= Len(s) THEN s[i] ELSE t[i - Len(s)]
        BY <3>1, ConcatProperties
      <4> QED
        BY <3>1, <4>1
    <3>3. \A i \in 1 .. 2 : (s \o t)[i] = u[i]
      BY <3>1, <3>2
    <3>4. s \o t = u
      BY <3>1, <3>2, <3>3, SeqEqual
    <3> QED
      BY <3>4 DEF s, t, u
  <2> QED
    BY <1>2, <2>3, ConcatEmptySeq DEF a, b
<1>5. CASE aside = << <<>>, <<>> >>
  BY <1>2, <1>4, <1>5 DEF Texts
<1>6. CASE aside = << <<C!Block("text")>>, <<>> >>
  BY <1>1, <1>2, <1>3, <1>6, TypesApart DEF Texts
<1>7. CASE aside = << <<>>, <<C!Block("text")>> >>
  BY <1>1, <1>2, <1>3, <1>7, TypesApart DEF Texts
<1>8. CASE aside = << <<C!Block("reminder")>>, <<C!Block("text")>> >>
  <2>1. aside[1] = <<C!Block("reminder")>> /\ aside[2] = <<C!Block("text")>>
    BY <1>8
  <2> QED
    BY <1>1, <1>3, <1>4, <2>1, TypesApart DEF Texts
<1> QED
  BY <1>5, <1>6, <1>7, <1>8 DEF C!Asides

\* The calls that wait for an answer are those of a message.
LEMMA PendingIs ==
  ASSUME ConversationInv
  PROVE  /\ C!Pending \in Seq(ABlock)
         /\ C!Results \in Seq(ABlock) /\ Len(C!Results) = Len(C!Pending)
         /\ \A b \in C!ToSet(C!Results) :
              /\ b.type = "result"
              /\ \E j \in DOMAIN history :
                   b.id \in {c.id : c \in C!ToSet(C!Of(history[j].blocks, C!CallTypes))}
<1>1. /\ history \in Seq(Message)
      /\ C!Turns(history) # {} => C!Max(C!Turns(history)) \in DOMAIN history
  BY DEF ConversationInv, C!Turns
<1>2. C!Pending \in Seq(ABlock)
      /\ \A c \in C!ToSet(C!Pending) : \E j \in DOMAIN history :
           c \in C!ToSet(C!Of(history[j].blocks, C!CallTypes))
  <2>1. CASE C!Pending = <<>>
    BY <2>1, EmptySeq DEF C!ToSet
  <2>2. CASE C!Turns(history) # {} /\ C!Pending = C!Of(C!LastTurn.blocks, C!CallTypes)
    <3>1. C!LastTurn \in Message
      BY <1>1, <2>2, LenProperties DEF C!LastTurn
    <3> QED
      BY <1>1, <2>2, <3>1, OfTyped DEF C!LastTurn, Message
  <2> QED
    BY <2>1, <2>2 DEF C!Pending
<1>3. \A i \in 1 .. Len(C!Pending) : C!Pending[i] \in ABlock
  BY <1>2, ElementOfSeq
<1>4. Len(C!Pending) \in Nat /\ DOMAIN C!Pending = 1 .. Len(C!Pending)
  BY <1>2, LenProperties
<1>5. \A i \in 1 .. Len(C!Pending) : C!Call("result", C!Pending[i].id) \in ABlock
  BY <1>3, TypesApart DEF C!Call, ABlock
<1>6. /\ C!Results \in Seq(ABlock) /\ Len(C!Results) = Len(C!Pending)
      /\ DOMAIN C!Results = 1 .. Len(C!Pending)
      /\ \A i \in 1 .. Len(C!Pending) : C!Results[i] = C!Call("result", C!Pending[i].id)
  BY <1>4, <1>5 DEF C!Results
<1>7. ASSUME NEW i \in 1 .. Len(C!Pending)
      PROVE  \E j \in DOMAIN history :
               C!Pending[i].id \in {c.id : c \in C!ToSet(C!Of(history[j].blocks, C!CallTypes))}
  <2>1. C!Pending[i] \in C!ToSet(C!Pending)
    BY <1>4 DEF C!ToSet
  <2> QED
    BY <1>2, <2>1
<1>8. ASSUME NEW b \in C!ToSet(C!Results)
      PROVE  /\ b.type = "result"
             /\ \E j \in DOMAIN history :
                  b.id \in {c.id : c \in C!ToSet(C!Of(history[j].blocks, C!CallTypes))}
  <2>1. PICK i \in 1 .. Len(C!Pending) : b = C!Call("result", C!Pending[i].id)
    BY <1>6 DEF C!ToSet
  <2>2. b.type = "result" /\ b.id = C!Pending[i].id
    BY <2>1 DEF C!Call
  <2> QED
    BY <1>7, <2>2
<1> QED
  BY <1>2, <1>6, <1>8

LEMMA PromptKeeps ==
  ASSUME ConversationInv, NEW blocks \in C!Prompts, C!Prompt(blocks)
  PROVE  ConversationInv'
<1> DEFINE m == [role |-> "user", blocks |-> blocks]
<1>1. /\ blocks \in Seq(ABlock)
      /\ \A b \in C!ToSet(blocks) : b.type \notin C!CallTypes \cup {"result"}
      /\ C!Of(blocks, C!TextTypes) \in Texts
  BY PromptsAre
<1>2. /\ C!UsersTurn /\ C!Pending = <<>> /\ history' = Append(history, m)
  BY DEF C!Prompt, C!Says
<1>3. \A i \in 1 .. Len(blocks) : blocks[i] \in C!ToSet(blocks)
  BY <1>1, LenProperties DEF C!ToSet
<1>4. C!Of(blocks, C!CallTypes) = <<>> /\ C!Of(blocks, {"result"}) = <<>>
  <2>1. /\ \A i \in 1 .. Len(blocks) : blocks[i].type \notin C!CallTypes
        /\ \A i \in 1 .. Len(blocks) : blocks[i].type \notin {"result"}
    BY <1>1, <1>3
  <2> QED
    BY <1>1, <2>1, OfNone
<1>5. C!Results = <<>>
  BY <1>2 DEF C!Results
<1>6. m \in Message /\ m.role = "user" /\ m.blocks = blocks
  BY <1>1 DEF Message
<1> HIDE DEF m
<1>7. ValidAfter(history, m)
  BY <1>1, <1>6 DEF ValidAfter, C!ToSet
<1>8. Wants(m) <=> HoldsAsk(m)
  BY <1>1, <1>6, WantsWhatItHolds
<1> QED
  BY <1>2, <1>4, <1>5, <1>6, <1>7, <1>8, UserSpeaks

LEMMA AnswerKeeps ==
  ASSUME ConversationInv, NEW aside \in C!Asides, C!Answer(aside[1], aside[2])
  PROVE  ConversationInv'
<1> DEFINE before == aside[1]
           after == aside[2]
           blocks == before \o C!Results \o after
           m == [role |-> "user", blocks |-> blocks]
<1>1. /\ before \in Seq(ABlock) /\ after \in Seq(ABlock)
      /\ \A b \in C!ToSet(before) \cup C!ToSet(after) : b.type \in C!TextTypes
      /\ before \o after \in Texts
  BY AsidesAre
<1>2. C!UsersTurn /\ history' = Append(history, m)
  BY DEF C!Answer, C!Says
<1>3. /\ C!Results \in Seq(ABlock)
      /\ \A b \in C!ToSet(C!Results) :
           /\ b.type = "result"
           /\ \E j \in DOMAIN history :
                b.id \in {c.id : c \in C!ToSet(C!Of(history[j].blocks, C!CallTypes))}
  BY PendingIs
<1> HIDE DEF before, after
<1>4. blocks \in Seq(ABlock)
  BY <1>1, <1>3, OfThreeParts
<1>5. C!ToSet(blocks) = (C!ToSet(before) \cup C!ToSet(C!Results)) \cup C!ToSet(after)
  BY <1>1, <1>3, OfThreeParts
<1>6. \A types : C!Of(blocks, types)
                   = (C!Of(before, types) \o C!Of(C!Results, types)) \o C!Of(after, types)
  BY <1>1, <1>3, OfThreeParts
<1>7. \A i \in 1 .. Len(before) : before[i].type \in C!TextTypes
  BY <1>1, LenProperties DEF C!ToSet
<1>8. \A i \in 1 .. Len(after) : after[i].type \in C!TextTypes
  BY <1>1, LenProperties DEF C!ToSet
<1>9. \A i \in 1 .. Len(C!Results) : C!Results[i].type = "result"
  BY <1>3, LenProperties DEF C!ToSet
<1>10. <<>> \in Seq(ABlock) /\ <<>> \o <<>> = <<>>
       /\ \A s \in Seq(ABlock) : <<>> \o s = s /\ s \o <<>> = s
  BY EmptySeq, ConcatEmptySeq
<1>11. C!Of(blocks, C!CallTypes) = <<>>
  <2>1. /\ \A i \in 1 .. Len(before) : before[i].type \notin C!CallTypes
        /\ \A i \in 1 .. Len(after) : after[i].type \notin C!CallTypes
        /\ \A i \in 1 .. Len(C!Results) : C!Results[i].type \notin C!CallTypes
    BY <1>7, <1>8, <1>9, TypesApart
  <2>2. /\ C!Of(before, C!CallTypes) = <<>> /\ C!Of(after, C!CallTypes) = <<>>
        /\ C!Of(C!Results, C!CallTypes) = <<>>
    BY <1>1, <1>3, <2>1, OfNone
  <2> QED
    BY <1>6, <1>10, <2>2
<1>12. C!Of(blocks, {"result"}) = C!Results
  <2>1. /\ \A i \in 1 .. Len(before) : before[i].type \notin {"result"}
        /\ \A i \in 1 .. Len(after) : after[i].type \notin {"result"}
        /\ \A i \in 1 .. Len(C!Results) : C!Results[i].type \in {"result"}
    BY <1>7, <1>8, <1>9, TypesApart
  <2>2. /\ C!Of(before, {"result"}) = <<>> /\ C!Of(after, {"result"}) = <<>>
        /\ C!Of(C!Results, {"result"}) = C!Results
    BY <1>1, <1>3, <2>1, OfNone, OfAll
  <2> QED
    BY <1>3, <1>6, <1>10, <2>2
<1>13. C!Of(blocks, C!TextTypes) = before \o after
  <2>1. \A i \in 1 .. Len(C!Results) : C!Results[i].type \notin C!TextTypes
    BY <1>9, TypesApart
  <2>2. /\ C!Of(before, C!TextTypes) = before /\ C!Of(after, C!TextTypes) = after
        /\ C!Of(C!Results, C!TextTypes) = <<>>
    BY <1>1, <1>3, <1>7, <1>8, <2>1, OfNone, OfAll
  <2> QED
    BY <1>1, <1>6, <1>10, <2>2
<1>14. m \in Message /\ m.role = "user" /\ m.blocks = blocks
  BY <1>4 DEF Message
<1>15. ASSUME NEW b \in C!ToSet(blocks)
       PROVE  /\ b.type \notin C!CallTypes
              /\ b.type = "result" => \E j \in DOMAIN history :
                   b.id \in {c.id : c \in C!ToSet(C!Of(history[j].blocks, C!CallTypes))}
  <2>1. CASE b \in C!ToSet(C!Results)
    BY <1>3, <2>1, TypesApart
  <2>2. CASE b \in C!ToSet(before) \cup C!ToSet(after)
    <3>1. b.type \in C!TextTypes
      BY <1>1, <2>2
    <3> QED
      BY <3>1, TypesApart
  <2> QED
    BY <1>5, <2>1, <2>2
<1> HIDE DEF blocks, m
<1>16. ValidAfter(history, m)
  <2>1. \A k \in DOMAIN blocks : blocks[k] \in C!ToSet(blocks)
    BY DEF C!ToSet
  <2> QED
    BY <1>14, <1>15, <2>1 DEF ValidAfter
<1>17. Wants(m) <=> HoldsAsk(m)
  BY <1>1, <1>13, <1>14, WantsWhatItHolds
<1> QED
  BY <1>2, <1>11, <1>12, <1>14, <1>16, <1>17, UserSpeaks

LEMMA HookKeeps == ASSUME ConversationInv, C!Hook PROVE ConversationInv'
<1> DEFINE b == C!Block("text")
           m == [role |-> "system", blocks |-> <<b>>]
<1>1. history' = Append(history, m)
  BY DEF C!Hook, C!Says
<1>2. b \in ABlock /\ b.type = "text" /\ b # C!Block("ask")
  <2>1. C!Block("text").type = "text" /\ C!Block("ask").type = "ask"
    BY DEF C!Block
  <2> QED
    BY <2>1, BlockTyped, TypesApart
<1> HIDE DEF b
<1>3. m \in Message /\ m.role = "system" /\ m.blocks = <<b>>
  BY <1>2 DEF Message
<1>4. C!ToSet(<<b>>) = {b} /\ DOMAIN <<b>> = {1} /\ <<b>>[1] = b
  BY DEF C!ToSet
<1> HIDE DEF m
<1>5. C!Of(m.blocks, {"agent"}) = <<>>
  BY <1>2, <1>3, OfOne
<1>6. ValidAfter(history, m)
  BY <1>2, <1>3, <1>4, TypesApart DEF ValidAfter
<1>7. ~HoldsAsk(m)
  BY <1>2, <1>3, <1>4 DEF HoldsAsk
<1> QED
  BY <1>1, <1>3, <1>5, <1>6, <1>7, HookSpeaks

LEMMA UtterancesAre ==
  ASSUME NEW said \in C!Utterances
  PROVE  said \in Seq(ABlock)
         /\ \A b \in C!ToSet(said) : b.type \in {"text", "thinking", "redacted"}
<1>1. CASE said = <<>>
  BY <1>1, EmptySeq DEF C!ToSet
<1>2. CASE \E type \in {"text", "thinking", "redacted"} : said = <<C!Block(type)>>
  <2>1. PICK type \in {"text", "thinking", "redacted"} : said = <<C!Block(type)>>
    BY <1>2
  <2>2. C!Block(type) \in ABlock /\ C!Block(type).type = type
    BY BlockTyped, TypesApart
  <2>3. C!ToSet(said) = {C!Block(type)}
    BY <2>1 DEF C!ToSet
  <2> QED
    BY <2>1, <2>2, <2>3
<1> QED
  BY <1>1, <1>2 DEF C!Utterances

LEMMA NewCallsAre ==
  ASSUME NEW type \in C!CallTypes, NEW n \in Nat, NEW from \in Nat, from >= 1
  PROVE  LET calls == [i \in 1 .. n |-> C!Call(type, from + i - 1)]
         IN  /\ calls \in Seq(ABlock) /\ Len(calls) = n
             /\ \A i \in 1 .. n : calls[i].type = type
<1>1. \A i \in 1 .. n : from + i - 1 \in Nat
  OBVIOUS
<1>2. \A i \in 1 .. n : /\ C!Call(type, from + i - 1) \in ABlock
                        /\ C!Call(type, from + i - 1).type = type
  BY <1>1, TypesApart DEF C!Call, ABlock
<1> QED
  BY <1>2

LEMMA ReplyKeeps ==
  ASSUME ConversationInv, NEW said \in C!Utterances, NEW agents \in 0 .. Wanted,
         NEW others \in 0 .. 1, C!Reply(said, agents, others)
  PROVE  ConversationInv'
<1> DEFINE first == [i \in 1 .. agents |-> C!Call("agent", C!NextId + i - 1)]
           second == [i \in 1 .. others |-> C!Call("tool", C!NextId + agents + i - 1)]
           blocks == said \o first \o second
           m == [role |-> "assistant", blocks |-> blocks]
<1>1. agents \in Nat /\ others \in Nat
  BY FanOutAssumption
<1>2. C!NextId \in Nat /\ C!NextId >= 1
  <2>1. C!Calls(history) \in Seq(ABlock)
    BY CallsTyped DEF ConversationInv
  <2>2. Len(C!Calls(history)) \in Nat
    BY <2>1, LenProperties
  <2> QED
    BY <2>2 DEF C!NextId
<1>3. /\ first \in Seq(ABlock) /\ Len(first) = agents
      /\ \A i \in 1 .. agents : first[i].type = "agent"
  BY <1>1, <1>2, TypesApart, NewCallsAre
<1>4. /\ second \in Seq(ABlock) /\ Len(second) = others
      /\ \A i \in 1 .. others : second[i].type = "tool"
  <2> DEFINE from == C!NextId + agents
  <2>1. from \in Nat /\ from >= 1
    BY <1>1, <1>2
  <2> HIDE DEF from
  <2>2. LET calls == [i \in 1 .. others |-> C!Call("tool", from + i - 1)]
        IN  /\ calls \in Seq(ABlock) /\ Len(calls) = others
            /\ \A i \in 1 .. others : calls[i].type = "tool"
    BY <1>1, <2>1, TypesApart, NewCallsAre
  <2> QED
    BY <2>2 DEF from
<1>5. said \in Seq(ABlock) /\ \A b \in C!ToSet(said) : b.type \in {"text", "thinking", "redacted"}
  BY UtterancesAre
<1>6. /\ ~C!UsersTurn /\ history' = Append(history, m)
      /\ IF C!Remaining(history) > 0 THEN agents \in 1 .. C!Remaining(history) ELSE agents = 0
  BY DEF C!Reply, C!Says
<1> HIDE DEF first, second
<1>7. blocks \in Seq(ABlock)
  BY <1>3, <1>4, <1>5, OfThreeParts
<1>8. \A types : C!Of(blocks, types)
                   = (C!Of(said, types) \o C!Of(first, types)) \o C!Of(second, types)
  BY <1>3, <1>4, <1>5, OfThreeParts
<1>9. C!Of(blocks, {"agent"}) = first
  <2>1. /\ \A i \in 1 .. Len(said) : said[i].type \notin {"agent"}
        /\ \A i \in 1 .. Len(second) : second[i].type \notin {"agent"}
        /\ \A i \in 1 .. Len(first) : first[i].type \in {"agent"}
    BY <1>3, <1>4, <1>5, LenProperties DEF C!ToSet
  <2>2. /\ C!Of(said, {"agent"}) = <<>> /\ C!Of(second, {"agent"}) = <<>>
        /\ C!Of(first, {"agent"}) = first
    BY <1>3, <1>4, <1>5, <2>1, OfNone, OfAll
  <2>3. <<>> \o first = first /\ first \o <<>> = first
    BY <1>3, ConcatEmptySeq
  <2> QED
    BY <1>8, <2>2, <2>3
<1>10. C!ToSet(blocks) = (C!ToSet(said) \cup C!ToSet(first)) \cup C!ToSet(second)
  BY <1>3, <1>4, <1>5, OfThreeParts
<1>11. ASSUME NEW b \in C!ToSet(blocks) PROVE b.type \notin {"result", "ask"}
  <2>1. CASE b \in C!ToSet(said)
    BY <1>5, <2>1
  <2>2. CASE b \in C!ToSet(first)
    BY <1>3, <2>2, LenProperties DEF C!ToSet
  <2>3. CASE b \in C!ToSet(second)
    BY <1>4, <2>3, LenProperties DEF C!ToSet
  <2> QED
    BY <1>10, <2>1, <2>2, <2>3
<1>12. m \in Message /\ m.role = "assistant" /\ m.blocks = blocks
  BY <1>7 DEF Message
<1> HIDE DEF blocks, m
<1>13. ValidAfter(history, m)
  <2>1. \A k \in DOMAIN blocks : blocks[k].type # "result"
    BY <1>11 DEF C!ToSet
  <2> QED
    BY <1>12, <2>1 DEF ValidAfter
<1>14. ~HoldsAsk(m)
  <2>1. C!Block("ask").type = "ask"
    BY DEF C!Block
  <2> QED
    BY <1>11, <1>12, <2>1 DEF HoldsAsk
<1>15. LET n == Len(C!Of(m.blocks, {"agent"}))
       IN  IF C!Remaining(history) > 0 THEN n \in 1 .. C!Remaining(history) ELSE n = 0
  BY <1>3, <1>6, <1>9, <1>12
<1> QED
  BY <1>6, <1>12, <1>13, <1>14, <1>15, ModelSpeaks

LEMMA ConversationStepKeeps == ConversationInv /\ C!Next => ConversationInv'
BY PromptKeeps, AnswerKeeps, HookKeeps, ReplyKeeps DEF C!Next

LEMMA ConversationStutters == ConversationInv /\ UNCHANGED history => ConversationInv'
BY DEF ConversationInv, BodyInv, FanOutInv, C!Pending, C!UsersTurn, C!LastTurn

(* What is sent of a conversation has every call answered before the user
   speaks again and every block of the user in it, and its agents are those that
   were asked for (map_anthropic_to_openai_with_policy_and_aliases). *)
THEOREM ConversationInvariant == ServicesSpec => []ConversationInv
<1>1. ServicesInit => ConversationInv
  <2> SUFFICES ASSUME ServicesInit PROVE ConversationInv
    OBVIOUS
  <2>1. history = <<>>
    BY DEF ServicesInit, C!Init
  <2>2. history \in Seq(Message) /\ DOMAIN history = {} /\ C!ToSet(history) = {}
    BY <2>1, EmptySeq DEF C!ToSet
  <2>3. C!Turns(history) = {} /\ C!Valid(history)
    BY <2>2 DEF C!Turns, C!Valid
  <2>4. C!Pending = <<>>
    BY <2>3 DEF C!Pending
  <2>5. ASSUME NEW demanding \in BOOLEAN PROVE BodyInv(demanding)
    <3>1. Body(history, demanding) = <<>>
      BY <2>1, JoinedOfNothing DEF Body
    <3>2. C!ToSet(<<>>) = {}
      BY DEF C!ToSet
    <3> QED
      BY <2>2, <2>4, <3>1, <3>2, AnsweredOfNothing DEF BodyInv
  <2>6. C!PriorAgents(history) = 0
    <3>1. C!Calls(history) = <<>>
      BY <2>1, <2>2, CallsAre, JoinedOfNothing
    <3> QED
      BY <3>1, OfNothing, EmptySeq DEF C!PriorAgents
  <2>7. ~C!Asked(history)
    BY <2>2 DEF C!Asked
  <2>8. FanOutInv
    BY <2>6, <2>7 DEF FanOutInv
  <2> QED
    BY <2>2, <2>3, <2>5, <2>8 DEF ConversationInv
<1>2. ConversationInv /\ [ServicesNext]_allVars => ConversationInv'
  <2>1. [ServicesNext]_allVars => C!Next \/ UNCHANGED history
    BY DEF ServicesNext, allVars
  <2> QED
    BY <2>1, ConversationStutters, ConversationStepKeeps
<1> QED
  BY <1>1, <1>2, PTL DEF ServicesSpec

\* What a request says about reasoning agrees whatever its options are.
LEMMA OptionsAgree ==
  ASSUME NEW o \in C!Options, NEW s \in Seq(Row),
         \A r \in C!ToSet(s) : HasContent(r, C!Demanding(o))
  PROVE  C!ReasoningAgrees(o, s)
<1>1. ASSUME C!IncludeReasoning(o) = "on"
      PROVE  C!UpstreamThinking(o) # "disabled" /\ o.thinking # "off"
  <2>1. C!EffectiveThinking(o) # "off"
    BY <1>1 DEF C!IncludeReasoning
  <2>2. C!UpstreamThinking(o) \in {"unsent", "enabled", "disabled"}
    BY DEF C!UpstreamThinking
  <2>3. C!UpstreamThinking(o) # "disabled"
    BY <2>1 DEF C!EffectiveThinking
  <2>4. C!UpstreamThinking(o) = "enabled" => o.thinking = "on"
    BY DEF C!UpstreamThinking
  <2>5. C!UpstreamThinking(o) = "unsent" => o.thinking # "off"
    BY <2>1 DEF C!EffectiveThinking
  <2> QED
    BY <2>2, <2>3, <2>4, <2>5
<1>2. C!SendsEffort(o) => C!UpstreamThinking(o) # "disabled"
  BY DEF C!SendsEffort
<1>3. ASSUME o.family = "flash_free", C!UpstreamThinking(o) = "enabled",
             NEW r \in C!ToSet(s), C!Of(r.blocks, C!CallTypes) # <<>>
      PROVE  r.reasoning
  <2>1. C!Demanding(o)
    BY <1>3 DEF C!Demanding, C!UpstreamThinking
  <2> QED
    BY <1>3, <2>1 DEF HasContent
<1> QED
  BY <1>1, <1>2, <1>3 DEF C!ReasoningAgrees

(* A request is one its provider takes, with nothing of the user missing, and a
   fan-out is asked for until it is complete (the conjuncts of RequestFaithful). *)
THEOREM RequestsAreFaithful == ServicesSpec => []RequestFaithful
<1>1. ASSUME ConversationInv PROVE RequestFaithful
  <2>1. /\ history \in Seq(Message) /\ C!Valid(history)
        /\ \A m \in C!ToSet(history) : Wants(m) <=> HoldsAsk(m)
        /\ FanOutInv
    BY <1>1 DEF ConversationInv
  <2>2. C!FanOutComplete
    <3>1. C!Asked(history)
            <=> \E i \in DOMAIN history : C!Block("ask") \in C!ToSet(history[i].blocks)
      <4>1. \A i \in DOMAIN history : Wants(history[i]) <=> HoldsAsk(history[i])
        BY <2>1 DEF C!ToSet
      <4>2. C!Asked(history) <=> \E i \in DOMAIN history : Wants(history[i])
        BY DEF C!Asked, Wants
      <4> QED
        BY <4>1, <4>2 DEF HoldsAsk
    <3> QED
      BY <2>1, <3>1 DEF C!FanOutComplete, FanOutInv
  <2>3. ASSUME ~C!UsersTurn, NEW demanding \in BOOLEAN
        PROVE  LET s == C!Mapped(history, demanding) IN
               /\ C!CallsAnswered(s)
               /\ \A i \in DOMAIN s :
                    s[i].role = "assistant" => s[i].blocks # <<>> \/ s[i].reasoning
               /\ \A i \in DOMAIN history : history[i].role = "user" =>
                    \A b \in C!ToSet(history[i].blocks) :
                      \E k \in DOMAIN s : s[k].role \in {"user", "tool"} /\ b \in C!ToSet(s[k].blocks)
               /\ \A o \in C!Options : C!Demanding(o) = demanding => C!ReasoningAgrees(o, s)
    <3> DEFINE body == Body(history, demanding)
               head == Heading(history)
               s == C!Mapped(history, demanding)
    <3>1. C!Pending = <<>>
      BY <2>3 DEF C!Pending
    <3>2. BodyInv(demanding)
      BY <1>1 DEF ConversationInv
    <3>3. /\ body \in Seq(Row) /\ C!CallsAnswered(body)
          /\ \A r \in C!ToSet(body) : HasContent(r, demanding)
          /\ \A m \in C!ToSet(history) :
               m.role = "user" => \A b \in C!ToSet(m.blocks) : SentIn(b, body)
      BY <2>1, <3>1, <3>2, BodyTyped DEF BodyInv
    <3>4. /\ head \in Seq(Row) /\ C!CallsAnswered(head)
          /\ \A r \in C!ToSet(head) : HasContent(r, demanding)
      <4> DEFINE note == [role |-> "system", blocks |-> <<>>, reasoning |-> FALSE]
      <4>1. note \in Row /\ note.role = "system" /\ note.blocks = <<>>
        BY EmptySeq DEF Row
      <4>2. head = <<>> \/ head = <<note>>
        BY DEF Heading
      <4> HIDE DEF note, head
      <4>3. CASE head = <<>>
        BY <4>3, EmptySeq, AnsweredOfNothing DEF C!ToSet
      <4>4. CASE head = <<note>>
        <5>1. C!ToSet(head) = {note}
          BY <4>4 DEF C!ToSet
        <5> QED
          BY <4>1, <4>4, <5>1, AnsweredOfOne, OfNothing DEF HasContent
      <4> QED
        BY <4>2, <4>3, <4>4
    <3>5. s = head \o body
      BY <2>1, MappedIs
    <3> HIDE DEF body, head, s
    <3>6. s \in Seq(Row) /\ C!CallsAnswered(s)
      BY <3>3, <3>4, <3>5, AnsweredOfParts, ConcatProperties
    <3>7. C!ToSet(s) = C!ToSet(head) \cup C!ToSet(body)
      BY <3>3, <3>4, <3>5, MembersOfParts
    <3>8. \A r \in C!ToSet(s) : HasContent(r, demanding)
      BY <3>3, <3>4, <3>7
    <3>9. \A i \in DOMAIN s : s[i].role = "assistant" => s[i].blocks # <<>> \/ s[i].reasoning
      BY <3>8 DEF C!ToSet, HasContent
    <3>10. ASSUME NEW i \in DOMAIN history, history[i].role = "user",
                  NEW b \in C!ToSet(history[i].blocks)
           PROVE  \E k \in DOMAIN s : s[k].role \in {"user", "tool"} /\ b \in C!ToSet(s[k].blocks)
      <4>1. history[i] \in C!ToSet(history)
        BY DEF C!ToSet
      <4>2. SentIn(b, body)
        BY <3>3, <3>10, <4>1
      <4>3. PICK r \in C!ToSet(s) : r.role \in {"user", "tool"} /\ b \in C!ToSet(r.blocks)
        BY <3>7, <4>2 DEF SentIn
      <4>4. PICK k \in DOMAIN s : r = s[k]
        BY DEF C!ToSet
      <4> QED
        BY <4>3, <4>4
    <3> QED
      BY <3>6, <3>8, <3>9, <3>10, OptionsAgree DEF s
  <2>4. C!RequestAcceptable
    BY <2>1, <2>3 DEF C!RequestAcceptable
  <2> QED
    BY <2>2, <2>4 DEF RequestFaithful, C!RequestFaithful
<1> QED
  BY <1>1, ConversationInvariant, PTL

=============================================================================
