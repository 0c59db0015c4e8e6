---------------------------- MODULE SequenceLemmas ----------------------------
(***************************************************************************)
(* What the queues of the models do, index by index: a message is taken    *)
(* from the head, and one is added behind the last.                        *)
(***************************************************************************)
EXTENDS Integers, Sequences, SequenceTheorems, FiniteSetTheorems, TLAPS

\* What Tail does to a sequence of a given type, index by index.
LEMMA TailFacts ==
    ASSUME NEW S, NEW s \in Seq(S), s # <<>>
    PROVE  /\ Len(s) \in Nat \ {0} /\ DOMAIN s = 1..Len(s)
           /\ Head(s) = s[1] /\ s[1] \in S /\ 1 \in DOMAIN s
           /\ Tail(s) \in Seq(S) /\ Len(Tail(s)) = Len(s) - 1
           /\ DOMAIN Tail(s) = 1..(Len(s) - 1)
           /\ \A i \in DOMAIN Tail(s) : i + 1 \in DOMAIN s /\ Tail(s)[i] = s[i + 1]
  OBVIOUS

\* What Append does to a sequence of a given type, index by index.
LEMMA AppendFacts ==
    ASSUME NEW S, NEW s \in Seq(S), NEW x \in S
    PROVE  /\ Append(s, x) \in Seq(S) /\ Len(Append(s, x)) = Len(s) + 1
           /\ DOMAIN Append(s, x) = 1..(Len(s) + 1)
           /\ \A i \in DOMAIN s : i \in DOMAIN Append(s, x) /\ Append(s, x)[i] = s[i]
           /\ Append(s, x)[Len(s) + 1] = x
           /\ \A i \in DOMAIN Append(s, x) : i \in DOMAIN s \/ i = Len(s) + 1
  OBVIOUS

\* A sequence of one type is a sequence of another that holds its elements.
LEMMA SeqRetype ==
    ASSUME NEW S, NEW T, NEW s \in Seq(S), \A i \in 1..Len(s) : s[i] \in T
    PROVE  s \in Seq(T)
  OBVIOUS

\* What is left of a sequence behind its first elements.
LEMMA SuffixFacts ==
    ASSUME NEW S, NEW s \in Seq(S), NEW n \in 1..(Len(s) + 1)
    PROVE  /\ SubSeq(s, n, Len(s)) \in Seq(S) /\ Len(SubSeq(s, n, Len(s))) = Len(s) - n + 1
           /\ \A i \in 1..(Len(s) - n + 1) : SubSeq(s, n, Len(s))[i] = s[n + i - 1]
  OBVIOUS

\* One sequence behind another.
LEMMA ConcatFacts ==
    ASSUME NEW S, NEW s \in Seq(S), NEW t \in Seq(S)
    PROVE  /\ s \o t \in Seq(S) /\ Len(s \o t) = Len(s) + Len(t)
           /\ \A i \in 1..Len(s) : (s \o t)[i] = s[i]
           /\ \A i \in 1..Len(t) : (s \o t)[Len(s) + i] = t[i]
           /\ (t = <<>> => s \o t = s) /\ (s = <<>> => s \o t = t)
  OBVIOUS

\* The head of one sequence moves behind the last of the one in front.
LEMMA HeadMoves ==
    ASSUME NEW S, NEW s \in Seq(S), NEW t \in Seq(S), t # <<>>
    PROVE  Append(s, Head(t)) \o Tail(t) = s \o t
<1>1. Append(s, Head(t)) \o Tail(t) \in Seq(S) /\ s \o t \in Seq(S)
  OBVIOUS
<1>2. Len(Append(s, Head(t)) \o Tail(t)) = Len(s \o t)
  OBVIOUS
<1>3. ASSUME NEW i \in 1..Len(s \o t) PROVE (Append(s, Head(t)) \o Tail(t))[i] = (s \o t)[i]
  OBVIOUS
<1> QED BY <1>1, <1>2, <1>3, SeqEqual

\* An element added behind the second of two sequences is one added behind both.
LEMMA AppendMoves ==
    ASSUME NEW S, NEW s \in Seq(S), NEW t \in Seq(S), NEW x \in S
    PROVE  s \o Append(t, x) = Append(s \o t, x)
<1>1. Append(s \o t, x) \in Seq(S) /\ s \o Append(t, x) \in Seq(S)
  OBVIOUS
<1>2. Len(Append(s \o t, x)) = Len(s \o Append(t, x))
  OBVIOUS
<1>3. ASSUME NEW i \in 1..Len(Append(s \o t, x)) PROVE Append(s \o t, x)[i] = (s \o Append(t, x))[i]
  OBVIOUS
<1> QED BY <1>1, <1>2, <1>3, SeqEqual

\* A window of a sequence.
LEMMA WindowFacts ==
    ASSUME NEW S, NEW s \in Seq(S), NEW m \in Nat, NEW n \in Nat, 1 <= m, m <= n + 1, n <= Len(s)
    PROVE  /\ SubSeq(s, m, n) \in Seq(S) /\ Len(SubSeq(s, m, n)) = n - m + 1
           /\ \A i \in 1..(n - m + 1) : SubSeq(s, m, n)[i] = s[m + i - 1]
  OBVIOUS

\* Sequences of one length with the same elements.
LEMMA SameSequence ==
    ASSUME NEW S, NEW T, NEW s \in Seq(S), NEW t \in Seq(T), Len(s) = Len(t),
           \A i \in 1..Len(s) : s[i] = t[i]
    PROVE  s = t
  OBVIOUS

\* Windows through which the same is seen.
LEMMA SameWindow ==
    ASSUME NEW S, NEW T, NEW s \in Seq(S), NEW t \in Seq(T), NEW m \in Nat, NEW n \in Nat,
           1 <= m, m <= n + 1, n <= Len(s), n <= Len(t), \A i \in m..n : s[i] = t[i]
    PROVE  SubSeq(s, m, n) = SubSeq(t, m, n)
<1>1. /\ SubSeq(s, m, n) \in Seq(S) /\ Len(SubSeq(s, m, n)) = n - m + 1
      /\ \A i \in 1..(n - m + 1) : SubSeq(s, m, n)[i] = s[m + i - 1]
  BY WindowFacts
<1>2. /\ SubSeq(t, m, n) \in Seq(T) /\ Len(SubSeq(t, m, n)) = n - m + 1
      /\ \A i \in 1..(n - m + 1) : SubSeq(t, m, n)[i] = t[m + i - 1]
  BY WindowFacts
<1>3. \A i \in 1..(n - m + 1) : m + i - 1 \in m..n
  OBVIOUS
<1> QED BY <1>1, <1>2, <1>3, SameSequence

\* A window of a window.
LEMMA WindowInWindow ==
    ASSUME NEW S, NEW s \in Seq(S), NEW m \in Nat, NEW n \in Nat, NEW j \in Nat, NEW k \in Nat,
           1 <= m, n <= Len(s), m <= j, j <= k, k <= n
    PROVE  SubSeq(SubSeq(s, m, n), j - m + 1, k - m + 1) = SubSeq(s, j, k)
<1> DEFINE w == SubSeq(s, m, n)
<1>0. /\ m <= n + 1 /\ j - m + 1 \in Nat /\ k - m + 1 \in Nat /\ 1 <= j - m + 1 /\ j - m + 1 <= k - m + 1 + 1
      /\ 1 <= j /\ j <= k + 1 /\ k <= Len(s) /\ k - m + 1 <= n - m + 1
  OBVIOUS
<1>1. w \in Seq(S) /\ Len(w) = n - m + 1 /\ \A i \in 1..(n - m + 1) : w[i] = s[m + i - 1]
  BY <1>0, WindowFacts
<1> HIDE DEF w
<1>2. /\ SubSeq(w, j - m + 1, k - m + 1) \in Seq(S)
      /\ Len(SubSeq(w, j - m + 1, k - m + 1)) = (k - m + 1) - (j - m + 1) + 1
      /\ \A i \in 1..((k - m + 1) - (j - m + 1) + 1) : SubSeq(w, j - m + 1, k - m + 1)[i] = w[(j - m + 1) + i - 1]
  <2> DEFINE a == j - m + 1
             b == k - m + 1
  <2>1. a \in Nat /\ b \in Nat /\ 1 <= a /\ a <= b + 1 /\ b <= Len(w) /\ w \in Seq(S)
    BY <1>0, <1>1
  <2> HIDE DEF a, b
  <2>2. /\ SubSeq(w, a, b) \in Seq(S) /\ Len(SubSeq(w, a, b)) = b - a + 1
        /\ \A i \in 1..(b - a + 1) : SubSeq(w, a, b)[i] = w[a + i - 1]
    BY <2>1, WindowFacts
  <2> QED BY <2>2 DEF a, b
<1>3. /\ SubSeq(s, j, k) \in Seq(S) /\ Len(SubSeq(s, j, k)) = k - j + 1
      /\ \A i \in 1..(k - j + 1) : SubSeq(s, j, k)[i] = s[j + i - 1]
  BY <1>0, WindowFacts
<1>4. ASSUME NEW i \in 1..(k - j + 1) PROVE SubSeq(w, j - m + 1, k - m + 1)[i] = SubSeq(s, j, k)[i]
  <2>1. i \in 1..((k - m + 1) - (j - m + 1) + 1) /\ (j - m + 1) + i - 1 \in 1..(n - m + 1)
        /\ m + ((j - m + 1) + i - 1) - 1 = j + i - 1
    OBVIOUS
  <2> QED BY <1>1, <1>2, <1>3, <2>1
<1>5. (k - m + 1) - (j - m + 1) + 1 = k - j + 1
  OBVIOUS
<1> QED BY <1>2, <1>3, <1>4, <1>5, SameSequence DEF w

\* A window without its last element.
LEMMA FrontOfWindow ==
    ASSUME NEW S, NEW s \in Seq(S), NEW m \in Nat, NEW n \in Nat, 1 <= m, m < n, n <= Len(s)
    PROVE  SubSeq(SubSeq(s, m, n), 1, Len(SubSeq(s, m, n)) - 1) = SubSeq(s, m, n - 1)
<1>1. Len(SubSeq(s, m, n)) - 1 = (n - 1) - m + 1 /\ m - m + 1 = 1
      /\ n - 1 \in Nat /\ m <= n - 1 /\ n - 1 <= n /\ m <= m
  BY WindowFacts
<1>2. SubSeq(SubSeq(s, m, n), m - m + 1, (n - 1) - m + 1) = SubSeq(s, m, n - 1)
  BY <1>1, WindowInWindow
<1> QED BY <1>1, <1>2

\* Neighbouring windows make up the window over both.
LEMMA WindowsJoin ==
    ASSUME NEW S, NEW s \in Seq(S), NEW m \in Nat, NEW n \in Nat, m <= n, n <= Len(s)
    PROVE  SubSeq(s, 1, m) \o SubSeq(s, m + 1, n) = SubSeq(s, 1, n)
<1> DEFINE a == SubSeq(s, 1, m)
           b == SubSeq(s, m + 1, n)
           c == SubSeq(s, 1, n)
           ab == a \o b
<1>1. a \in Seq(S) /\ Len(a) = m /\ \A i \in 1..m : a[i] = s[i]
  BY WindowFacts
<1>2. b \in Seq(S) /\ Len(b) = n - m /\ \A i \in 1..(n - m) : b[i] = s[m + i]
  <2>1. m + 1 \in Nat /\ n - (m + 1) + 1 = n - m /\ \A i \in 1..(n - m) : (m + 1) + i - 1 = m + i
    OBVIOUS
  <2> QED BY <2>1, WindowFacts
<1>3. c \in Seq(S) /\ Len(c) = n /\ \A i \in 1..n : c[i] = s[i]
  BY WindowFacts
<1> HIDE DEF a, b, c
<1>4. /\ ab \in Seq(S) /\ Len(ab) = m + (n - m)
      /\ \A i \in 1..m : ab[i] = a[i]
      /\ \A i \in 1..(n - m) : ab[m + i] = b[i]
  <2>0. a \in Seq(S) /\ b \in Seq(S)
    BY <1>1, <1>2
  <2>1. /\ ab \in Seq(S) /\ Len(ab) = Len(a) + Len(b)
        /\ \A i \in 1..Len(a) : ab[i] = a[i]
        /\ \A i \in 1..Len(b) : ab[Len(a) + i] = b[i]
    BY <2>0, ConcatFacts
  <2> QED BY <1>1, <1>2, <2>1
<1> HIDE DEF ab
<1>5. ASSUME NEW i \in 1..n PROVE ab[i] = c[i]
  <2>1. CASE i <= m
    BY <1>1, <1>3, <1>4, <2>1
  <2>2. CASE i > m
    <3>1. i - m \in 1..(n - m) /\ m + (i - m) = i
      BY <2>2
    <3>2. ab[m + (i - m)] = b[i - m]
      BY <1>4, <3>1
    <3>3. b[i - m] = s[m + (i - m)] /\ c[i] = s[i]
      BY <1>2, <1>3, <3>1
    <3> QED BY <3>1, <3>2, <3>3
  <2> QED BY <2>1, <2>2
<1>6. m + (n - m) = n
  OBVIOUS
<1> QED BY <1>3, <1>4, <1>5, <1>6, SameSequence DEF a, b, c, ab

\* The first element of a window that reaches to the end, and the window behind it.
LEMMA WindowShrinks ==
    ASSUME NEW S, NEW s \in Seq(S), NEW i \in 1..Len(s)
    PROVE  LET w == SubSeq(s, i, Len(s))
           IN  /\ w \in Seq(S) /\ w # <<>> /\ Len(w) = Len(s) - i + 1
               /\ Head(w) = s[i] /\ Tail(w) = SubSeq(s, i + 1, Len(s)) /\ Len(Tail(w)) = Len(w) - 1
<1> DEFINE w == SubSeq(s, i, Len(s))
           t == SubSeq(s, i + 1, Len(s))
           n == Len(s)
<1>1. i \in 1..(n + 1) /\ i + 1 \in 1..(n + 1) /\ n \in Nat /\ i \in Nat
  OBVIOUS
<1>2. w \in Seq(S) /\ Len(w) = n - i + 1 /\ \A k \in 1..(n - i + 1) : w[k] = s[i + k - 1]
  BY <1>1, SuffixFacts
<1>3. t \in Seq(S) /\ Len(t) = n - (i + 1) + 1 /\ \A k \in 1..(n - (i + 1) + 1) : t[k] = s[(i + 1) + k - 1]
  BY <1>1, SuffixFacts
<1>4. 1 \in 1..(n - i + 1) /\ i + 1 - 1 = i /\ n - (i + 1) + 1 = n - i
  OBVIOUS
<1> HIDE DEF w, t, n
<1>5. w # <<>> /\ w[1] = s[i]
  <2>1. Len(w) # 0
    BY <1>1, <1>2, <1>4
  <2> QED BY <1>2, <1>4, <2>1
<1>6. /\ Head(w) = w[1] /\ Tail(w) \in Seq(S) /\ Len(Tail(w)) = Len(w) - 1
      /\ \A k \in 1..(Len(w) - 1) : Tail(w)[k] = w[k + 1]
  BY <1>2, <1>5, TailFacts
<1>7. ASSUME NEW k \in 1..(n - i) PROVE Tail(w)[k] = t[k]
  <2>1. k + 1 \in 1..(n - i + 1) /\ i + (k + 1) - 1 = (i + 1) + k - 1 /\ k \in 1..(Len(w) - 1)
    BY <1>1, <1>2
  <2> QED BY <1>2, <1>3, <1>4, <1>6, <2>1
<1>8. Tail(w) = t
  <2>1. Len(Tail(w)) = n - i /\ Len(t) = n - i
    BY <1>1, <1>2, <1>3, <1>6
  <2> QED BY <1>3, <1>6, <1>7, <2>1, SameSequence
<1> QED BY <1>2, <1>5, <1>6, <1>8 DEF w, t, n

\* The window over everything.
LEMMA WholeWindow ==
    ASSUME NEW S, NEW s \in Seq(S)
    PROVE  SubSeq(s, 1, Len(s)) = s
  OBVIOUS

\* The empty window.
LEMMA EmptyWindow ==
    ASSUME NEW S, NEW s \in Seq(S)
    PROVE  SubSeq(s, 1, 0) = <<>>
  OBVIOUS
--------------------------------------------------------------------------------
(***************************************************************************)
(* Induction and recursion.  The library's theorems on them take operators *)
(* as parameters; these take sets and functions.                           *)
(***************************************************************************)

\* A set with 0 in it, and with every number the next, holds all numbers: those up to one
\* that is missing would be counted by an injection that is not onto.
LEMMA Counting ==
    ASSUME NEW S, 0 \in S, \A n \in Nat : n \in S => n + 1 \in S
    PROVE  \A n \in Nat : n \in S
<1> SUFFICES ASSUME NEW x \in Nat, x \notin S PROVE FALSE
  OBVIOUS
<1> DEFINE A == (0..x) \cap S
           next == [n \in A |-> n + 1]
<1>1. IsFiniteSet(A)
  <2>1. IsFiniteSet(0..x)
    BY FS_Interval
  <2> QED BY <2>1, FS_Subset
<1>2. next \in [A -> A] /\ \A m, n \in A : next[m] = next[n] => m = n
  OBVIOUS
<1>3. next \in Injection(A, A)
  BY <1>2 DEF Injection, IsInjective
<1> HIDE DEF next
<1>4. next \in Surjection(A, A)
  BY <1>1, <1>3, FS_Injection
<1>5. 0 \in A
  OBVIOUS
<1>6. \E n \in A : next[n] = 0
  BY <1>4, <1>5 DEF Surjection
<1> QED BY <1>6 DEF next

\* f begins with base and goes on by steps that depend on their number.
Chain(f, V, base, step, n) ==
    /\ f \in [0..n -> V]
    /\ f[0] = base
    /\ \A i \in 1..n : f[i] = step[i][f[i - 1]]

\* There is such a function.
LEMMA Recursion ==
    ASSUME NEW V, NEW base \in V, NEW step, NEW n \in Nat, step \in [1..n -> [V -> V]]
    PROVE  \E f : Chain(f, V, base, step, n)
<1> DEFINE Upto(m) == \E f \in [0..m -> V] : f[0] = base /\ \A i \in 1..m : f[i] = step[i][f[i - 1]]
           S == {m \in Nat : m <= n => Upto(m)}
<1>1. 0 \in S
  <2> DEFINE g == [i \in 0..0 |-> base]
  <2>1. g \in [0..0 -> V] /\ g[0] = base /\ \A i \in 1..0 : g[i] = step[i][g[i - 1]]
    OBVIOUS
  <2> HIDE DEF g
  <2>2. Upto(0)
    BY <2>1
  <2> QED BY <2>2
<1>2. ASSUME NEW m \in Nat, m \in S PROVE m + 1 \in S
  <2> SUFFICES ASSUME m + 1 <= n PROVE Upto(m + 1)
    OBVIOUS
  <2>1. PICK f \in [0..m -> V] : f[0] = base /\ \A i \in 1..m : f[i] = step[i][f[i - 1]]
    BY <1>2
  <2> DEFINE g == [i \in 0..(m + 1) |-> IF i <= m THEN f[i] ELSE step[m + 1][f[m]]]
  <2>2. step[m + 1] \in [V -> V] /\ f[m] \in V
    BY <2>1
  <2>3. g \in [0..(m + 1) -> V]
    BY <2>1, <2>2
  <2>4. g[0] = base
    BY <2>1
  <2>5. ASSUME NEW i \in 1..(m + 1) PROVE g[i] = step[i][g[i - 1]]
    <3>1. CASE i <= m
      BY <2>1, <3>1
    <3>2. CASE i = m + 1
      BY <2>1, <3>2
    <3> QED BY <3>1, <3>2
  <2> HIDE DEF g
  <2> QED BY <2>3, <2>4, <2>5
<1> HIDE DEF S
<1>3. n \in S
  BY <1>1, <1>2, Counting
<1> QED BY <1>3 DEF S, Chain
================================================================================
