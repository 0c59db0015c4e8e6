--------------------------- MODULE Tp2ChannelProofs ---------------------------
(***************************************************************************)
(* What holds of a channel for messages of any length, and of channels     *)
(* that follow each other.  First, while lost ACKs and repetitions are all *)
(* that troubles it, no call on a channel raises; then, no channel is left *)
(* open at the gateway.                                                    *)
(***************************************************************************)
EXTENDS Tp2ChannelInv, Tp2Reading, Tp2TransportProofs

--------------------------------------------------------------------------------
(***************************************************************************)
(* Where sequences lead.                                                   *)
(***************************************************************************)

\* step takes each state in V with each element in T to a state; g are the states between.
Steps(step, V, T) == step \in [V \X T -> V]
Follows(g, step, v0, q) ==
    g[0] = v0 /\ \A i \in 1..Len(q) : g[i] = step[<<g[i - 1], q[i]>>]

LEMMA FoldChain ==
    ASSUME NEW V, NEW T, NEW step, Steps(step, V, T), NEW v0 \in V, NEW q \in Seq(T)
    PROVE  \E g : /\ Follows(g, step, v0, q) /\ Folded(step, v0, q) = g[Len(q)]
                  /\ \A i \in 0..Len(q) : g[i] \in V
<1> DEFINE n == Len(q)
           body(g, i) == IF i = 0 THEN v0 ELSE step[<<g[i - 1], q[i]>>]
           at == CHOOSE g : g = [i \in 0..n |-> body(g, i)]
           steps == [i \in 1..n |-> [v \in V |-> step[<<v, q[i]>>]]]
<1>1. n \in Nat /\ \A i \in 1..n : q[i] \in T
  OBVIOUS
<1>1a. step \in [V \X T -> V]
  BY DEF Steps
<1>2. steps \in [1..n -> [V -> V]]
  BY <1>1, <1>1a
<1>3. \E f : Chain(f, V, v0, steps, n)
  <2> HIDE DEF steps, n
  <2> QED BY <1>1, <1>2, Recursion
<1>4. PICK f : Chain(f, V, v0, steps, n)
  BY <1>3
<1>5. f \in [0..n -> V] /\ f[0] = v0 /\ \A i \in 1..n : f[i] = steps[i][f[i - 1]]
  <2> HIDE DEF steps, n
  <2> QED BY <1>4 DEF Chain
<1>6. \A i \in 1..n : f[i] = step[<<f[i - 1], q[i]>>]
  <2> SUFFICES ASSUME NEW i \in 1..n PROVE f[i] = step[<<f[i - 1], q[i]>>]
    OBVIOUS
  <2>1. i - 1 \in 0..n
    BY <1>1
  <2>2. f[i - 1] \in V
    <3> HIDE DEF n, steps
    <3> QED BY <1>5, <2>1
  <2>3. steps[i] = [v \in V |-> step[<<v, q[i]>>]]
    OBVIOUS
  <2>4. steps[i][f[i - 1]] = step[<<f[i - 1], q[i]>>]
    BY <2>2, <2>3
  <2> HIDE DEF steps
  <2> QED BY <1>5, <2>4
<1>7. f = [i \in 0..n |-> body(f, i)]
  <2>1. ASSUME NEW i \in 0..n PROVE f[i] = body(f, i)
    <3>1. CASE i = 0
      BY <1>5, <3>1
    <3>2. CASE i # 0
      <4>1. i \in 1..n
        BY <1>1, <3>2
      <4> HIDE DEF n
      <4> QED BY <1>6, <3>2, <4>1
    <3> QED BY <3>1, <3>2
  <2> HIDE DEF body, n
  <2> QED BY <1>5, <2>1
<1>8. at = [i \in 0..n |-> body(at, i)]
  <2> HIDE DEF body
  <2> QED BY <1>7
<1>9. Folded(step, v0, q) = at[n]
  BY DEF Folded
<1> HIDE DEF at
<1>10. at[0] = v0 /\ \A i \in 1..n : at[i] = step[<<at[i - 1], q[i]>>]
  <2>1. at[0] = v0
    BY <1>1, <1>8
  <2>2. ASSUME NEW i \in 1..n PROVE at[i] = step[<<at[i - 1], q[i]>>]
    <3>1. i \in 0..n /\ i # 0
      BY <1>1
    <3> HIDE DEF n
    <3>2. at[i] = body(at, i)
      <4> HIDE DEF body
      <4> QED BY <1>8, <3>1
    <3> QED BY <3>1, <3>2
  <2> QED BY <2>1, <2>2
<1> DEFINE Good == {i \in Nat : i <= n => at[i] \in V}
<1>11. 0 \in Good
  BY <1>10
<1>12. ASSUME NEW i \in Nat, i \in Good PROVE i + 1 \in Good
  <2> SUFFICES ASSUME i + 1 <= n PROVE at[i + 1] \in V
    OBVIOUS
  <2>1. i + 1 \in 1..n /\ (i + 1) - 1 = i /\ at[i] \in V
    BY <1>1, <1>12
  <2>2. at[i + 1] = step[<<at[i], q[i + 1]>>] /\ q[i + 1] \in T
    BY <1>1, <1>10, <2>1
  <2> QED BY <1>1a, <2>1, <2>2
<1> HIDE DEF Good
<1>13. \A i \in Nat : i \in Good
  BY <1>11, <1>12, Counting
<1>14. \A i \in 0..n : at[i] \in V
  BY <1>1, <1>13 DEF Good
<1>16. Follows(at, step, v0, q)
  <2> HIDE DEF n
  <2> QED BY <1>10 DEF Follows, n
<1> HIDE DEF n
<1> QED BY <1>9, <1>14, <1>16 DEF n

\* What the steps preserve.
LEMMA FoldKeeps ==
    ASSUME NEW V, NEW T, NEW step, Steps(step, V, T), NEW v0 \in V, NEW q \in Seq(T),
           NEW P, v0 \in P, \A v \in V, i \in 1..Len(q) : v \in P => step[<<v, q[i]>>] \in P
    PROVE  Folded(step, v0, q) \in V /\ Folded(step, v0, q) \in P
<1> DEFINE n == Len(q)
<1>0. PICK g : /\ Follows(g, step, v0, q) /\ Folded(step, v0, q) = g[n]
               /\ \A i \in 0..n : g[i] \in V
  BY FoldChain
<1>1. /\ g[0] = v0 /\ Folded(step, v0, q) = g[n] /\ \A i \in 0..n : g[i] \in V
      /\ \A i \in 1..n : g[i] = step[<<g[i - 1], q[i]>>]
  BY <1>0 DEF Follows
<1>2. n \in Nat /\ \A i \in 1..n : q[i] \in T
  OBVIOUS
<1> DEFINE Good == {i \in Nat : i <= n => g[i] \in P}
<1>3. 0 \in Good
  BY <1>1
<1>4. ASSUME NEW i \in Nat, i \in Good PROVE i + 1 \in Good
  <2> SUFFICES ASSUME i + 1 <= n PROVE g[i + 1] \in P
    OBVIOUS
  <2>1. i + 1 \in 1..n /\ (i + 1) - 1 = i /\ g[i] \in P /\ i \in 0..n
    BY <1>2, <1>4
  <2>2. g[i + 1] = step[<<g[i], q[i + 1]>>] /\ g[i] \in V
    BY <1>1, <2>1
  <2> QED BY <2>1, <2>2
<1> HIDE DEF Good
<1>5. n \in Good
  BY <1>2, <1>3, <1>4, Counting
<1> QED BY <1>1, <1>2, <1>5 DEF Good

LEMMA FoldType ==
    ASSUME NEW V, NEW T, NEW step, Steps(step, V, T), NEW v0 \in V, NEW q \in Seq(T)
    PROVE  Folded(step, v0, q) \in V
<1>1. \A v \in V, i \in 1..Len(q) : v \in V => step[<<v, q[i]>>] \in V
  <2> SUFFICES ASSUME NEW v \in V, NEW i \in 1..Len(q) PROVE step[<<v, q[i]>>] \in V
    OBVIOUS
  <2>1. q[i] \in T /\ step \in [V \X T -> V]
    BY DEF Steps
  <2> QED BY <2>1
<1> QED BY <1>1, FoldKeeps

\* Whatever the states between are, they lead to the same.
LEMMA FoldIs ==
    ASSUME NEW V, NEW T, NEW step, Steps(step, V, T), NEW v0 \in V, NEW q \in Seq(T),
           NEW f, Follows(f, step, v0, q)
    PROVE  Folded(step, v0, q) = f[Len(q)]
<1> DEFINE n == Len(q)
<1>0. PICK g : /\ Follows(g, step, v0, q) /\ Folded(step, v0, q) = g[n]
               /\ \A i \in 0..n : g[i] \in V
  BY FoldChain
<1>1. /\ g[0] = v0 /\ Folded(step, v0, q) = g[n] /\ \A i \in 0..n : g[i] \in V
      /\ \A i \in 1..n : g[i] = step[<<g[i - 1], q[i]>>]
  BY <1>0 DEF Follows
<1>2. n \in Nat
  OBVIOUS
<1> DEFINE Good == {i \in Nat : i <= n => g[i] = f[i]}
<1>2a. f[0] = v0 /\ \A i \in 1..n : f[i] = step[<<f[i - 1], q[i]>>]
  BY DEF Follows
<1>3. 0 \in Good
  BY <1>1, <1>2a
<1>4. ASSUME NEW i \in Nat, i \in Good PROVE i + 1 \in Good
  <2> SUFFICES ASSUME i + 1 <= n PROVE g[i + 1] = f[i + 1]
    OBVIOUS
  <2>1. i + 1 \in 1..n /\ (i + 1) - 1 = i /\ g[i] = f[i]
    BY <1>2, <1>4
  <2> QED BY <1>1, <1>2a, <2>1
<1> HIDE DEF Good
<1>5. n \in Good
  BY <1>2, <1>3, <1>4, Counting
<1> QED BY <1>1, <1>2, <1>5 DEF Good

\* The empty sequence leads nowhere, one element a step, one sequence behind another
\* goes on from where the first led.
LEMMA FoldShort ==
    ASSUME NEW V, NEW T, NEW step, Steps(step, V, T), NEW v0 \in V
    PROVE  /\ Folded(step, v0, <<>>) = v0
           /\ \A x \in T : Folded(step, v0, <<x>>) = step[<<v0, x>>]
<1>1. Folded(step, v0, <<>>) = v0
  <2> DEFINE f == [i \in 0..0 |-> v0]
             q == <<>>
  <2>1. f[0] = v0 /\ q \in Seq(T) /\ Len(q) = 0
    OBVIOUS
  <2>2. \A i \in 1..Len(q) : f[i] = step[<<f[i - 1], q[i]>>]
    OBVIOUS
  <2> HIDE DEF f, q
  <2>3. Folded(step, v0, q) = f[Len(q)]
    <3>1. Follows(f, step, v0, q)
      BY <2>1, <2>2 DEF Follows
    <3>2. q \in Seq(T)
      BY <2>1
    <3> QED BY <3>1, <3>2, FoldIs
  <2> QED BY <2>1, <2>3 DEF q
<1>2. ASSUME NEW x \in T PROVE Folded(step, v0, <<x>>) = step[<<v0, x>>]
  <2> DEFINE f == [i \in 0..1 |-> IF i = 0 THEN v0 ELSE step[<<v0, x>>]]
             q == <<x>>
  <2>1. f[0] = v0 /\ q \in Seq(T) /\ Len(q) = 1 /\ q[1] = x /\ f[1] = step[<<v0, x>>]
    OBVIOUS
  <2> HIDE DEF f, q
  <2>2. ASSUME NEW i \in 1..Len(q) PROVE f[i] = step[<<f[i - 1], q[i]>>]
    <3>1. i = 1 /\ i - 1 = 0
      BY <2>1
    <3> QED BY <2>1, <3>1
  <2>3. Folded(step, v0, q) = f[Len(q)]
    <3>1. Follows(f, step, v0, q)
      BY <2>1, <2>2 DEF Follows
    <3>2. q \in Seq(T)
      BY <2>1
    <3> QED BY <3>1, <3>2, FoldIs
  <2> QED BY <2>1, <2>3 DEF q
<1> QED BY <1>1, <1>2

LEMMA FoldConcat ==
    ASSUME NEW V, NEW T, NEW step, Steps(step, V, T), NEW v0 \in V, NEW s \in Seq(T), NEW t \in Seq(T)
    PROVE  Folded(step, v0, s \o t) = Folded(step, Folded(step, v0, s), t)
<1> DEFINE m == Len(s)
           n == Len(t)
           c == s \o t
<1>1. /\ m \in Nat /\ n \in Nat /\ c \in Seq(T) /\ Len(c) = m + n
      /\ \A i \in 1..m : c[i] = s[i]
      /\ \A i \in 1..n : c[m + i] = t[i]
  BY ConcatFacts
<1>2. PICK g :
        /\ \A i \in 0..(m + n) : g[i] \in V
        /\ g[0] = v0 /\ Folded(step, v0, c) = g[m + n]
        /\ \A i \in 1..(m + n) : g[i] = step[<<g[i - 1], c[i]>>]
  <2>0. c \in Seq(T)
    BY <1>1
  <2> HIDE DEF m, n, c
  <2>1. PICK g : /\ Follows(g, step, v0, c) /\ Folded(step, v0, c) = g[Len(c)]
                 /\ \A i \in 0..Len(c) : g[i] \in V
    BY <2>0, FoldChain
  <2> QED BY <1>1, <2>1 DEF Follows
<1> HIDE DEF m, n, c
<1>3. Folded(step, v0, s) = g[m]
  <2>1. ASSUME NEW i \in 1..m PROVE g[i] = step[<<g[i - 1], s[i]>>]
    <3>1. i \in 1..(m + n)
      BY <1>1
    <3> QED BY <1>1, <1>2, <3>1
  <2>2. Follows(g, step, v0, s)
    BY <1>2, <2>1 DEF m, Follows
  <2> QED BY <2>2, FoldIs DEF m
<1>4. g[m] \in V
  <2>1. m \in 0..(m + n)
    BY <1>1
  <2> QED BY <1>2, <2>1
<1>5. Folded(step, g[m], t) = g[m + n]
  <2> DEFINE f == [i \in 0..n |-> g[m + i]]
  <2>1. f[0] = g[m] /\ f[n] = g[m + n]
    BY <1>1
  <2>2. ASSUME NEW i \in 1..n PROVE f[i] = step[<<f[i - 1], t[i]>>]
    <3>1. m + i \in 1..(m + n) /\ (m + i) - 1 = m + (i - 1) /\ i \in 0..n /\ i - 1 \in 0..n
      BY <1>1
    <3>2. f[i] = g[m + i] /\ f[i - 1] = g[m + (i - 1)]
      BY <3>1
    <3>3. g[m + i] = step[<<g[m + (i - 1)], c[m + i]>>] /\ c[m + i] = t[i]
      BY <1>1, <1>2, <3>1
    <3> QED BY <3>2, <3>3
  <2> HIDE DEF f
  <2>3. Folded(step, g[m], t) = f[n]
    <3>1. Follows(f, step, g[m], t)
      BY <2>1, <2>2 DEF n, Follows
    <3> QED BY <1>4, <3>1, FoldIs DEF n
  <2> QED BY <2>1, <2>3
<1> QED BY <1>2, <1>3, <1>5 DEF c

LEMMA FoldAppend ==
    ASSUME NEW V, NEW T, NEW step, Steps(step, V, T), NEW v0 \in V, NEW s \in Seq(T), NEW x \in T
    PROVE  Folded(step, v0, Append(s, x)) = step[<<Folded(step, v0, s), x>>]
<1> DEFINE one == <<x>>
           v == Folded(step, v0, s)
<1>1. Append(s, x) = s \o one /\ one \in Seq(T)
  OBVIOUS
<1>2. Folded(step, v, one) = step[<<v, x>>]
  <2>1. v \in V
    BY FoldType
  <2> HIDE DEF v
  <2> QED BY <2>1, FoldShort
<1> HIDE DEF one
<1>3. Folded(step, v0, s \o one) = Folded(step, v, one)
  BY <1>1, FoldConcat
<1> QED BY <1>1, <1>2, <1>3

LEMMA FoldHead ==
    ASSUME NEW V, NEW T, NEW step, Steps(step, V, T), NEW v0 \in V, NEW q \in Seq(T), q # <<>>
    PROVE  Folded(step, v0, q) = Folded(step, step[<<v0, Head(q)>>], Tail(q))
<1> DEFINE x == Head(q)
           one == <<x>>
           t == Tail(q)
<1>1. x \in T /\ t \in Seq(T) /\ one \in Seq(T)
  BY TailFacts
<1>2. q = one \o t
  <2>1. /\ Len(q) \in Nat \ {0} /\ x = q[1] /\ Len(t) = Len(q) - 1
        /\ \A i \in 1..(Len(q) - 1) : t[i] = q[i + 1]
    BY TailFacts
  <2>2. Len(one) = 1 /\ one[1] = x
    OBVIOUS
  <2> HIDE DEF x, one, t
  <2>3. /\ one \o t \in Seq(T) /\ Len(one \o t) = Len(one) + Len(t)
        /\ \A i \in 1..Len(one) : (one \o t)[i] = one[i]
        /\ \A i \in 1..Len(t) : (one \o t)[Len(one) + i] = t[i]
    BY <1>1, ConcatFacts
  <2>4. ASSUME NEW i \in 1..Len(q) PROVE q[i] = (one \o t)[i]
    <3>1. CASE i = 1
      BY <2>1, <2>2, <2>3, <3>1
    <3>2. CASE i # 1
      <4>1. i - 1 \in 1..(Len(q) - 1) /\ 1 + (i - 1) = i
        BY <2>1, <3>2
      <4> QED BY <2>1, <2>2, <2>3, <4>1
    <3> QED BY <3>1, <3>2
  <2>5. Len(one \o t) = Len(q)
    BY <2>1, <2>2, <2>3
  <2> QED BY <2>3, <2>4, <2>5, SameSequence
<1>3. Folded(step, v0, one) = step[<<v0, x>>]
  <2>1. x \in T
    BY <1>1
  <2> HIDE DEF x
  <2> QED BY <2>1, FoldShort
<1> HIDE DEF one, t, x
<1>4. Folded(step, v0, one \o t) = Folded(step, Folded(step, v0, one), t)
  BY <1>1, FoldConcat
<1> QED BY <1>2, <1>3, <1>4 DEF x, t

\* Two folds that keep in step.
LEMMA FoldPairs ==
    ASSUME NEW V, NEW W, NEW T, NEW step, Steps(step, V, T), NEW other, Steps(other, W, T),
           NEW v0 \in V, NEW w0 \in W, NEW q \in Seq(T), NEW R, <<v0, w0>> \in R,
           \A v \in V, w \in W, x \in T :
             <<v, w>> \in R => <<step[<<v, x>>], other[<<w, x>>]>> \in R
    PROVE  <<Folded(step, v0, q), Folded(other, w0, q)>> \in R
<1> DEFINE n == Len(q)
<1>0. PICK g : /\ Follows(g, step, v0, q) /\ Folded(step, v0, q) = g[n]
               /\ \A i \in 0..n : g[i] \in V
  BY FoldChain
<1>1. PICK h : /\ Follows(h, other, w0, q) /\ Folded(other, w0, q) = h[n]
               /\ \A i \in 0..n : h[i] \in W
  BY FoldChain
<1>2. /\ g[0] = v0 /\ h[0] = w0
      /\ \A i \in 1..n : g[i] = step[<<g[i - 1], q[i]>>] /\ h[i] = other[<<h[i - 1], q[i]>>]
  BY <1>0, <1>1 DEF Follows
<1>3. n \in Nat /\ \A i \in 1..n : q[i] \in T
  OBVIOUS
<1> DEFINE Good == {i \in Nat : i <= n => <<g[i], h[i]>> \in R}
<1>4. 0 \in Good
  BY <1>2
<1>5. ASSUME NEW i \in Nat, i \in Good PROVE i + 1 \in Good
  <2> SUFFICES ASSUME i + 1 <= n PROVE <<g[i + 1], h[i + 1]>> \in R
    OBVIOUS
  <2>1. i + 1 \in 1..n /\ (i + 1) - 1 = i /\ <<g[i], h[i]>> \in R /\ i \in 0..n
    BY <1>3, <1>5
  <2>2. g[i + 1] = step[<<g[i], q[i + 1]>>] /\ h[i + 1] = other[<<h[i], q[i + 1]>>]
        /\ g[i] \in V /\ h[i] \in W /\ q[i + 1] \in T
    BY <1>0, <1>1, <1>2, <1>3, <2>1
  <2> QED BY <2>1, <2>2
<1> HIDE DEF Good
<1>6. n \in Good
  BY <1>3, <1>4, <1>5, Counting
<1>7. <<g[n], h[n]>> \in R
  BY <1>3, <1>6 DEF Good
<1> QED BY <1>0, <1>1, <1>7

\* What a fold ignores may be missing.
LEMMA FoldWithout ==
    ASSUME NEW V, NEW T, NEW step, Steps(step, V, T), NEW v0 \in V, NEW q \in Seq(T), NEW k,
           \A v \in V, x \in T : x.kind = k => step[<<v, x>>] = v
    PROVE  Folded(step, v0, Without(q, k)) = Folded(step, v0, q)
<1> DEFINE n == Len(q)
<1>1. PICK kept : /\ Sifts(kept, q, k) /\ Without(q, k) = kept[n]
                  /\ \A i \in 0..n : kept[i] \in Seq(T)
  BY WithoutChain
<1>2. /\ kept[0] = <<>>
      /\ \A i \in 1..n : kept[i] = IF q[i].kind = k THEN kept[i - 1] ELSE Append(kept[i - 1], q[i])
  BY <1>1 DEF Sifts
<1>3. PICK g : /\ Follows(g, step, v0, q) /\ Folded(step, v0, q) = g[n]
               /\ \A i \in 0..n : g[i] \in V
  BY FoldChain
<1>4. g[0] = v0 /\ \A i \in 1..n : g[i] = step[<<g[i - 1], q[i]>>]
  BY <1>3 DEF Follows
<1>5. n \in Nat /\ \A i \in 1..n : q[i] \in T
  OBVIOUS
<1> DEFINE Good == {i \in Nat : i <= n => Folded(step, v0, kept[i]) = g[i]}
<1>6. 0 \in Good
  <2>1. Folded(step, v0, <<>>) = v0
    BY FoldShort
  <2> QED BY <1>2, <1>4, <2>1
<1>7. ASSUME NEW i \in Nat, i \in Good PROVE i + 1 \in Good
  <2> SUFFICES ASSUME i + 1 <= n PROVE Folded(step, v0, kept[i + 1]) = g[i + 1]
    OBVIOUS
  <2> DEFINE x == q[i + 1]
             s == kept[i]
  <2>1. i + 1 \in 1..n /\ (i + 1) - 1 = i /\ Folded(step, v0, s) = g[i] /\ i \in 0..n
    BY <1>5, <1>7
  <2>2. x \in T /\ s \in Seq(T) /\ g[i] \in V /\ g[i + 1] = step[<<g[i], x>>]
    BY <1>1, <1>3, <1>4, <1>5, <2>1
  <2>3. kept[i + 1] = IF x.kind = k THEN s ELSE Append(s, x)
    BY <1>2, <2>1
  <2> HIDE DEF x, s
  <2>4. CASE x.kind = k
    BY <2>1, <2>2, <2>3, <2>4
  <2>5. CASE x.kind # k
    <3>1. kept[i + 1] = Append(s, x)
      BY <2>3, <2>5
    <3>2. Folded(step, v0, Append(s, x)) = step[<<Folded(step, v0, s), x>>]
      BY <2>2, FoldAppend
    <3> QED BY <2>1, <2>2, <3>1, <3>2
  <2> QED BY <2>4, <2>5
<1> HIDE DEF Good
<1>8. n \in Good
  BY <1>5, <1>6, <1>7, Counting
<1>9. Folded(step, v0, kept[n]) = g[n]
  BY <1>5, <1>8 DEF Good
<1> QED BY <1>1, <1>3, <1>9

--------------------------------------------------------------------------------
(***************************************************************************)
(* What an end has read behind a queue.                                    *)
(***************************************************************************)

LEMMA TakenType ==
    ASSUME NEW reader \in Readers, NEW f \in Wireable
    PROVE  Taken(reader, f) \in Readers
<1>1. reader.at \in Reassembler /\ reader.got \in Seq(Seq(Bytes)) /\ reader.wrong \in BOOLEAN
  BY DEF Readers
<1>2. CASE f.kind # "data"
  BY <1>2 DEF Taken
<1>3. CASE f.kind = "data"
  <2>1. f \in Frames
    BY <1>3, WireableFacts
  <2>2. Fed(reader.at, f) \in Reassembler /\ Delivered(reader.at, f) \in Seq(Seq(Bytes))
    BY <1>1, <2>1, FedFacts DEF AtMostOne
  <2>3. reader.got \o Delivered(reader.at, f) \in Seq(Seq(Bytes))
    BY <1>1, <2>2
  <2>4. (reader.wrong \/ Wrong(reader.at, f)) \in BOOLEAN
    BY <1>1 DEF Wrong
  <2> DEFINE w == reader.wrong \/ Wrong(reader.at, f)
             g == reader.got \o Delivered(reader.at, f)
             a == Fed(reader.at, f)
  <2>5. Taken(reader, f) = [at |-> a, got |-> g, wrong |-> w]
    BY <1>3 DEF Taken
  <2>6. a \in Reassembler /\ g \in Seq(Seq(Bytes)) /\ w \in BOOLEAN
    BY <2>2, <2>3, <2>4
  <2> HIDE DEF a, g, w
  <2> QED BY <2>5, <2>6 DEF Readers
<1> QED BY <1>2, <1>3

LEMMA TakingsFact ==
    /\ Steps(Takings, Readers, Wireable)
    /\ \A reader \in Readers, f \in Wireable : Takings[<<reader, f>>] = Taken(reader, f)
<1>1. \A c \in Readers \X Wireable : Taken(c[1], c[2]) \in Readers
  BY TakenType
<1>2. Takings \in [Readers \X Wireable -> Readers]
  BY <1>1 DEF Takings
<1>3. ASSUME NEW reader \in Readers, NEW f \in Wireable
      PROVE  Takings[<<reader, f>>] = Taken(reader, f)
  <2>1. <<reader, f>> \in Readers \X Wireable
    OBVIOUS
  <2> QED BY <2>1 DEF Takings
<1> QED BY <1>2, <1>3 DEF Steps

LEMMA BehindFacts ==
    ASSUME NEW reader \in Readers, NEW s \in Seq(Wireable)
    PROVE  /\ Behind(reader, s) \in Readers
           /\ s = <<>> => Behind(reader, s) = reader
           /\ \A t \in Seq(Wireable) : Behind(reader, s \o t) = Behind(Behind(reader, s), t)
           /\ \A f \in Wireable : Behind(reader, Append(s, f)) = Taken(Behind(reader, s), f)
           /\ s # <<>> => Behind(reader, s) = Behind(Taken(reader, Head(s)), Tail(s))
           /\ \A k : k # "data" => Behind(reader, Without(s, k)) = Behind(reader, s)
<1>0. Steps(Takings, Readers, Wireable)
  BY TakingsFact
<1>1. Behind(reader, s) \in Readers
  BY <1>0, FoldType DEF Behind
<1>2. s = <<>> => Behind(reader, s) = reader
  BY <1>0, FoldShort DEF Behind
<1>3. ASSUME NEW t \in Seq(Wireable) PROVE Behind(reader, s \o t) = Behind(Behind(reader, s), t)
  BY <1>0, FoldConcat DEF Behind
<1>4. ASSUME NEW f \in Wireable PROVE Behind(reader, Append(s, f)) = Taken(Behind(reader, s), f)
  <2>1. Folded(Takings, reader, Append(s, f)) = Takings[<<Folded(Takings, reader, s), f>>]
    BY <1>0, FoldAppend
  <2> QED BY <1>1, <2>1, TakingsFact DEF Behind
<1>5. ASSUME s # <<>> PROVE Behind(reader, s) = Behind(Taken(reader, Head(s)), Tail(s))
  <2>1. Folded(Takings, reader, s) = Folded(Takings, Takings[<<reader, Head(s)>>], Tail(s))
    BY <1>0, <1>5, FoldHead
  <2>2. Head(s) \in Wireable
    BY <1>5, TailFacts
  <2> QED BY <2>1, <2>2, TakingsFact DEF Behind
<1>6. ASSUME NEW k, k # "data" PROVE Behind(reader, Without(s, k)) = Behind(reader, s)
  <2>1. \A v \in Readers, x \in Wireable : x.kind = k => Takings[<<v, x>>] = v
    BY <1>6, TakingsFact DEF Taken
  <2> QED BY <1>0, <2>1, FoldWithout DEF Behind
<1> QED BY <1>1, <1>2, <1>3, <1>4, <1>5, <1>6

\* What was handed over stays, and so does a mistake.
LEMMA BehindGrows ==
    ASSUME NEW reader \in Readers, NEW s \in Seq(Wireable)
    PROVE  /\ Behind(reader, s) \in Readers
           /\ reader.wrong => Behind(reader, s).wrong
           /\ Len(reader.got) <= Len(Behind(reader, s).got)
           /\ \A i \in 1..Len(reader.got) : Behind(reader, s).got[i] = reader.got[i]
<1> DEFINE P == {v \in Readers : /\ reader.wrong => v.wrong
                                 /\ Len(reader.got) <= Len(v.got)
                                 /\ \A i \in 1..Len(reader.got) : v.got[i] = reader.got[i]}
<1>1. Steps(Takings, Readers, Wireable)
  BY TakingsFact
<1>2. reader \in P
  BY DEF Readers
<1>3. ASSUME NEW v \in Readers, NEW j \in 1..Len(s), v \in P PROVE Takings[<<v, s[j]>>] \in P
  <2> DEFINE f == s[j]
  <2>1. f \in Wireable
    OBVIOUS
  <2> HIDE DEF f
  <2>2. Taken(v, f) \in Readers /\ Takings[<<v, f>>] = Taken(v, f)
    BY <2>1, TakenType, TakingsFact
  <2>3. CASE f.kind # "data"
    BY <1>3, <2>2, <2>3 DEF Taken, f
  <2>4. CASE f.kind = "data"
    <3>0. f \in Frames
      BY <2>1, <2>4, WireableFacts
    <3>1. /\ v.got \in Seq(Seq(Bytes)) /\ v.at \in Reassembler /\ reader.got \in Seq(Seq(Bytes))
      BY DEF Readers
    <3>2. Delivered(v.at, f) \in Seq(Seq(Bytes))
      BY <3>0, <3>1, FedFacts DEF AtMostOne
    <3> DEFINE d == Delivered(v.at, f)
               g == v.got \o d
    <3>3. Taken(v, f).got = g /\ (v.wrong => Taken(v, f).wrong)
      BY <2>4 DEF Taken
    <3> HIDE DEF d
    <3>4. Len(g) = Len(v.got) + Len(d) /\ \A i \in 1..Len(v.got) : g[i] = v.got[i]
      BY <3>1, <3>2, ConcatFacts DEF d
    <3>5. Len(d) \in Nat /\ Len(v.got) \in Nat /\ Len(reader.got) \in Nat
      BY <3>1, <3>2 DEF d
    <3> HIDE DEF g
    <3>6. Len(reader.got) <= Len(g) /\ \A i \in 1..Len(reader.got) : g[i] = reader.got[i]
      BY <1>3, <3>4, <3>5
    <3>7. reader.wrong => Taken(v, f).wrong
      BY <1>3, <3>3
    <3> QED BY <2>2, <3>3, <3>6, <3>7 DEF f
  <2> QED BY <2>3, <2>4
<1> HIDE DEF P
<1>4. Folded(Takings, reader, s) \in Readers /\ Folded(Takings, reader, s) \in P
  <2>1. \A v \in Readers, i \in 1..Len(s) : v \in P => Takings[<<v, s[i]>>] \in P
    BY <1>3
  <2> QED BY <1>1, <1>2, <2>1, FoldKeeps
<1> QED BY <1>4 DEF P, Behind

--------------------------------------------------------------------------------
(***************************************************************************)
(* How often something is in a queue.                                      *)
(***************************************************************************)

LEMMA CountsFact ==
    ASSUME NEW x
    PROVE  /\ Steps(Counts(x), Nat, Wireable)
           /\ \A n \in Nat, f \in Wireable : Counts(x)[<<n, f>>] = IF f = x THEN n + 1 ELSE n
<1>1. Counts(x) \in [Nat \X Wireable -> Nat]
  BY DEF Counts
<1>2. ASSUME NEW n \in Nat, NEW f \in Wireable PROVE Counts(x)[<<n, f>>] = IF f = x THEN n + 1 ELSE n
  <2>1. <<n, f>> \in Nat \X Wireable
    OBVIOUS
  <2> QED BY <2>1 DEF Counts
<1> QED BY <1>1, <1>2 DEF Steps

\* Counting from n.
LEMMA TimesFrom ==
    ASSUME NEW x, NEW s \in Seq(Wireable), NEW n \in Nat
    PROVE  Times(x, s) \in Nat /\ Folded(Counts(x), n, s) = n + Times(x, s)
<1> DEFINE R == {c \in Nat \X Nat : c[1] = n + c[2]}
           step == Counts(x)
<1>1. Steps(step, Nat, Wireable) /\ 0 \in Nat
  BY CountsFact
<1>2. <<n, 0>> \in R
  OBVIOUS
<1>3. ASSUME NEW v \in Nat, NEW w \in Nat, NEW f \in Wireable, <<v, w>> \in R
      PROVE  <<step[<<v, f>>], step[<<w, f>>]>> \in R
  <2>1. v = n + w
    BY <1>3
  <2>2. step[<<v, f>>] = (IF f = x THEN v + 1 ELSE v) /\ step[<<w, f>>] = (IF f = x THEN w + 1 ELSE w)
    BY CountsFact
  <2> HIDE DEF step
  <2>3. step[<<v, f>>] \in Nat /\ step[<<w, f>>] \in Nat /\ step[<<v, f>>] = n + step[<<w, f>>]
    BY <2>1, <2>2
  <2> QED BY <2>3
<1> HIDE DEF R, step
<1>4. Folded(step, n, s) \in Nat /\ Folded(step, 0, s) \in Nat
  BY <1>1, FoldType
<1>5. <<Folded(step, n, s), Folded(step, 0, s)>> \in R
  <2>1. \A v \in Nat, w \in Nat, f \in Wireable :
          <<v, w>> \in R => <<step[<<v, f>>], step[<<w, f>>]>> \in R
    BY <1>3
  <2> QED BY <1>1, <1>2, <2>1, FoldPairs
<1>6. Folded(step, n, s) = n + Folded(step, 0, s)
  BY <1>4, <1>5 DEF R
<1> QED BY <1>4, <1>6 DEF Times, step

LEMMA TimesFacts ==
    ASSUME NEW x, NEW s \in Seq(Wireable)
    PROVE  /\ Times(x, s) \in Nat
           /\ s = <<>> => Times(x, s) = 0
           /\ \A t \in Seq(Wireable) : Times(x, s \o t) = Times(x, s) + Times(x, t)
           /\ \A f \in Wireable : Times(x, Append(s, f)) = IF f = x THEN Times(x, s) + 1 ELSE Times(x, s)
           /\ s # <<>> => Times(x, s) = IF Head(s) = x THEN Times(x, Tail(s)) + 1 ELSE Times(x, Tail(s))
           /\ \A k : x.kind # k => Times(x, Without(s, k)) = Times(x, s)
<1> DEFINE step == Counts(x)
<1>0. Steps(step, Nat, Wireable) /\ 0 \in Nat
  BY CountsFact
<1>a. \A n \in Nat, f \in Wireable : step[<<n, f>>] = IF f = x THEN n + 1 ELSE n
  BY CountsFact
<1>b. \A q : Times(x, q) = Folded(step, 0, q)
  BY DEF Times
<1>c. \A n \in Nat, q \in Seq(Wireable) : Times(x, q) \in Nat /\ Folded(step, n, q) = n + Times(x, q)
  BY TimesFrom
<1> HIDE DEF step
<1>1. Times(x, s) \in Nat
  BY <1>c
<1>2. s = <<>> => Times(x, s) = 0
  BY <1>0, <1>b, FoldShort
<1>3. ASSUME NEW t \in Seq(Wireable) PROVE Times(x, s \o t) = Times(x, s) + Times(x, t)
  <2>1. Folded(step, 0, s \o t) = Folded(step, Folded(step, 0, s), t)
    BY <1>0, FoldConcat
  <2>2. Times(x, s \o t) = Folded(step, Times(x, s), t)
    BY <1>b, <2>1
  <2> QED BY <1>1, <1>c, <2>2
<1>4. ASSUME NEW f \in Wireable
      PROVE  Times(x, Append(s, f)) = IF f = x THEN Times(x, s) + 1 ELSE Times(x, s)
  <2>1. Folded(step, 0, Append(s, f)) = step[<<Folded(step, 0, s), f>>]
    BY <1>0, FoldAppend
  <2>2. Times(x, Append(s, f)) = step[<<Times(x, s), f>>]
    BY <1>b, <2>1
  <2> QED BY <1>1, <1>a, <2>2
<1>5. ASSUME s # <<>>
      PROVE  Times(x, s) = IF Head(s) = x THEN Times(x, Tail(s)) + 1 ELSE Times(x, Tail(s))
  <2> DEFINE h == Head(s)
             t == Tail(s)
  <2>1. h \in Wireable /\ t \in Seq(Wireable)
    BY <1>5, TailFacts
  <2>2. Folded(step, 0, s) = Folded(step, step[<<0, h>>], t)
    BY <1>0, <1>5, FoldHead
  <2> HIDE DEF h, t
  <2>3. Times(x, s) = Folded(step, IF h = x THEN 1 ELSE 0, t)
    BY <1>0, <1>a, <1>b, <2>1, <2>2
  <2>4. Times(x, t) \in Nat /\ Folded(step, 1, t) = 1 + Times(x, t) /\ Folded(step, 0, t) = 0 + Times(x, t)
    BY <1>c, <2>1
  <2>5. Times(x, s) = IF h = x THEN Times(x, t) + 1 ELSE Times(x, t)
    BY <2>3, <2>4
  <2> QED BY <2>5 DEF h, t
<1>6. ASSUME NEW k, x.kind # k PROVE Times(x, Without(s, k)) = Times(x, s)
  <2> DEFINE N == Nat
             none == 0
  <2>1. \A v \in N, f \in Wireable : f.kind = k => step[<<v, f>>] = v
    BY <1>6, <1>a
  <2>2. none \in N /\ Steps(step, N, Wireable)
    BY <1>0
  <2> HIDE DEF N, none
  <2>3. Folded(step, none, Without(s, k)) = Folded(step, none, s)
    BY <2>1, <2>2, FoldWithout
  <2>4. Folded(step, 0, Without(s, k)) = Folded(step, 0, s)
    BY <2>3 DEF none
  <2> QED BY <1>b, <2>4
<1> QED BY <1>1, <1>2, <1>3, <1>4, <1>5, <1>6

--------------------------------------------------------------------------------
(***************************************************************************)
(* What a frame does to an end that reads it.                              *)
(***************************************************************************)

\* The next frame of a message.
LEMMA TakenNext ==
    ASSUME NEW m, Sendable(m), NEW s \in Seqs, NEW b \in Nat, NEW n \in Nat, n < NumFrames(m),
           NEW reader \in Readers, reader.at.seq = (s + n) % SeqNums, Reading(reader.at, m, n),
           NEW f, f = SegmentMessage(m, s, b)[n + 1]
    PROVE  /\ f \in Frames /\ f.seq = reader.at.seq
           /\ Taken(reader, f) \in Readers /\ (Taken(reader, f).wrong <=> reader.wrong)
           /\ Taken(reader, f).at.seq = After(f.seq) /\ After(f.seq) = (s + (n + 1)) % SeqNums
           /\ n + 1 # NumFrames(m) => /\ Reading(Taken(reader, f).at, m, n + 1)
                                      /\ Taken(reader, f).got = reader.got
           /\ n + 1 = NumFrames(m) => /\ Empty(Taken(reader, f).at) /\ Asks(f)
                                      /\ Taken(reader, f).got = Append(reader.got, m)
           /\ \A u : Asks(f) /\ u = <<f>> => Taken(reader, f).at.acked = u
<1> DEFINE frames == SegmentMessage(m, s, b)
           p == reader.at
<1>1. /\ n + 1 \in 1..NumFrames(m) /\ NumFrames(m) \in Nat \ {0} /\ frames \in Seq(Frames)
      /\ Len(frames) = NumFrames(m)
  BY SegmentFacts
<1>2. /\ f \in Frames /\ f.kind = "data" /\ f.seq = (s + (n + 1) - 1) % SeqNums
      /\ f.data = Chunk(m, n + 1) /\ (Final(f) <=> n + 1 = NumFrames(m))
      /\ (n + 1 = NumFrames(m) => Asks(f))
  <2>1. f \in Frames
    BY <1>1
  <2> HIDE DEF frames
  <2> QED BY <1>1, <2>1, SegmentFacts
<1>3. s + (n + 1) - 1 = s + n /\ s \in Nat
  BY SeqNumsFact
<1>4. f.seq = p.seq
  BY <1>2, <1>3
<1>5. /\ ~Wrong(p, f) /\ ~Repeated(p, f) /\ Fed(p, f).seq = After(p.seq)
      /\ Delivered(p, f) = (IF n + 1 = NumFrames(m) THEN <<m>> ELSE <<>>)
      /\ (n + 1 = NumFrames(m) => Empty(Fed(p, f)))
      /\ (n + 1 # NumFrames(m) => Reading(Fed(p, f), m, n + 1))
  BY <1>2, <1>4, ReadOn
<1>6. /\ Taken(reader, f) \in Readers
      /\ Taken(reader, f).at = Fed(p, f)
      /\ Taken(reader, f).got = reader.got \o Delivered(p, f)
  <2>1. f \in Wireable
    BY <1>2, WireableFacts
  <2> QED BY <1>2, <2>1, TakenType DEF Taken
<1>7. Taken(reader, f).wrong <=> reader.wrong
  BY <1>2, <1>5, Zenon DEF Taken
<1>8. After(f.seq) = (s + (n + 1)) % SeqNums
  <2>1. s + n \in Nat /\ (s + n) + 1 = s + (n + 1)
    BY <1>3
  <2>2. After(f.seq) = (((s + n) % SeqNums) + 1) % SeqNums
    BY <1>2, <1>3 DEF After
  <2> QED BY <2>1, <2>2, NextSeq
<1>9. /\ n + 1 # NumFrames(m) => Taken(reader, f).got = reader.got
      /\ n + 1 = NumFrames(m) => Taken(reader, f).got = Append(reader.got, m)
  <2>1. reader.got \in Seq(Seq(Bytes)) /\ m \in Seq(Bytes)
    BY DEF Readers, Sendable
  <2>2. reader.got \o <<>> = reader.got /\ reader.got \o <<m>> = Append(reader.got, m)
    BY <2>1
  <2> QED BY <1>5, <1>6, <2>2
<1>10. Asks(f) => Taken(reader, f).at.acked = <<f>>
  BY <1>5, <1>6 DEF Fed
<1> QED BY <1>2, <1>4, <1>5, <1>6, <1>7, <1>8, <1>9, <1>10

\* A repetition changes nothing.
LEMMA TakenRepeated ==
    ASSUME NEW reader \in Readers, NEW f \in Frames, Repeated(reader.at, f)
    PROVE  Taken(reader, f) = reader
<1>1. ~Wrong(reader.at, f) /\ Fed(reader.at, f) = reader.at /\ Delivered(reader.at, f) = <<>>
  BY DEF Wrong, Fed, Delivered, Repeated
<1>2. reader.got \o <<>> = reader.got /\ reader.wrong \in BOOLEAN
  BY DEF Readers
<1>3. (reader.wrong \/ Wrong(reader.at, f)) = reader.wrong
  BY <1>1, <1>2, Zenon
<1>4. Taken(reader, f) = [at |-> reader.at, got |-> reader.got, wrong |-> reader.wrong]
  <2>1. f.kind = "data"
    BY WireableFacts
  <2> QED BY <1>1, <1>2, <1>3, <2>1, Zenon DEF Taken
<1> QED BY <1>4 DEF Readers

LEMMA BeforeAfter ==
    ASSUME NEW a \in Seqs
    PROVE  Before(After(a)) = a
<1> DEFINE n == SeqNums - 1
<1>1. n \in Nat /\ n <= SeqNums /\ 1 + n = SeqNums /\ SeqNums \in 0..SeqNums /\ n \in 0..SeqNums /\ a \in Nat
      /\ a < SeqNums /\ SeqNums \in Nat
  BY SeqNumsFact
<1>2. CASE a + 1 < SeqNums
  <2>1. After(a) = a + 1 /\ a + 1 \in Seqs
    BY <1>1, <1>2, AfterFact, SeqNumsFact
  <2>2. ((a + 1) + n) % SeqNums = (a + 1) + n - SeqNums
    BY <1>1, <2>1, Onward
  <2>3. Before(After(a)) = ((a + 1) + n) % SeqNums
    BY <1>1, <2>1 DEF Before
  <2> QED BY <1>1, <2>2, <2>3
<1>3. CASE ~(a + 1 < SeqNums)
  <2>1. After(a) = 0 /\ 0 \in Seqs /\ a = n
    BY <1>1, <1>3, AfterFact, SeqNumsFact
  <2>2. (0 + n) % SeqNums = 0 + n
    BY <1>1, <2>1, Onward
  <2>3. Before(After(a)) = (0 + n) % SeqNums
    BY <1>1, <2>1 DEF Before
  <2> QED BY <1>1, <2>1, <2>2, <2>3
<1> QED BY <1>2, <1>3

LEMMA TakenAgain ==
    ASSUME NEW reader \in Readers, NEW f \in Frames, reader.at.acked = <<f>>, Asks(f),
           After(f.seq) = reader.at.seq
    PROVE  Taken(reader, f) = reader
<1>1. f.seq \in Seqs /\ reader.at.seq \in Seqs
  BY WireableFacts DEF Readers, Reassembler
<1>2. f.seq # reader.at.seq
  BY <1>1, AfterFact, SeqNumsFact
<1>3. f.seq = Before(reader.at.seq)
  BY <1>1, BeforeAfter
<1> QED BY <1>2, <1>3, TakenRepeated DEF Repeated

\* A frame that was read is read once more, or is wrong.
LEMMA TakenTwice ==
    ASSUME NEW reader \in Readers, NEW f \in Frames, ~Taken(reader, f).wrong
    PROVE  LET once == Taken(reader, f) IN Taken(once, f) = once \/ Taken(once, f).wrong
<1> DEFINE once == Taken(reader, f)
<1>1. f.kind = "data" /\ f.seq \in Seqs /\ f \in Wireable
  BY WireableFacts
<1>2. once \in Readers
  BY <1>1, TakenType
<1>3. once.at = Fed(reader.at, f) /\ (Taken(once, f).wrong <=> once.wrong \/ Wrong(once.at, f))
  BY <1>1, Zenon DEF Taken
<1>4. CASE Repeated(once.at, f)
  <2> HIDE DEF once
  <2>1. Taken(once, f) = once
    BY <1>2, <1>4, TakenRepeated
  <2> QED BY <2>1 DEF once
<1>5. CASE ~Repeated(once.at, f)
  <2>1. ~Repeated(reader.at, f)
    BY <1>3, <1>5 DEF Fed
  <2>2. once.at.seq = After(f.seq)
    BY <1>3, <2>1 DEF Fed
  <2>3. f.seq # once.at.seq
    BY <1>1, <2>2, AfterFact, SeqNumsFact
  <2>4. Wrong(once.at, f)
    BY <1>5, <2>3, Zenon DEF Wrong
  <2> QED BY <1>3, <2>4
<1> QED BY <1>4, <1>5

\* A head that all other data frames repeat may go to the end.
LEMMA BehindRotate ==
    ASSUME NEW reader \in Readers, NEW q \in Seq(Wireable), q # <<>>, Head(q) \in Frames,
           \A i \in 1..Len(Tail(q)) : Tail(q)[i].kind = "data" => Tail(q)[i] = Head(q),
           ~Behind(reader, q).wrong
    PROVE  Behind(reader, Append(Tail(q), Head(q))) = Behind(reader, q)
<1> DEFINE f == Head(q)
           t == Tail(q)
           once == Taken(reader, f)
<1>1. f \in Wireable /\ t \in Seq(Wireable) /\ f \in Frames
  BY TailFacts
<1>2. \A i \in 1..Len(t) : t[i] \in Wireable /\ (t[i].kind = "data" => t[i] = f)
  BY <1>1
<1> HIDE DEF f, t
<1>3. once \in Readers
  BY <1>1, TakenType
<1>4. Behind(reader, q) = Behind(once, t)
  BY BehindFacts DEF f, t
<1>5. Behind(reader, Append(t, f)) = Taken(Behind(reader, t), f)
  BY <1>1, BehindFacts
<1>6. ~once.wrong
  <2> HIDE DEF once
  <2> QED BY <1>1, <1>3, <1>4, BehindGrows
<1>7. Taken(once, f) = once \/ Taken(once, f).wrong
  BY <1>1, <1>6, TakenTwice
<1>8. Steps(Takings, Readers, Wireable) /\ \A v \in Readers, x \in Wireable : Takings[<<v, x>>] = Taken(v, x)
  BY TakingsFact
<1>9. \A v \in Readers, x \in Wireable : x.kind # "data" => Taken(v, x) = v
  BY DEF Taken
<1>10. CASE Taken(once, f) = once
  <2>1. Behind(once, t) = once
    <3> DEFINE P == {once}
    <3>1. \A v \in Readers, i \in 1..Len(t) : v \in P => Takings[<<v, t[i]>>] \in P
      <4> SUFFICES ASSUME NEW i \in 1..Len(t) PROVE Takings[<<once, t[i]>>] = once
        OBVIOUS
      <4>1. Takings[<<once, t[i]>>] = Taken(once, t[i])
        BY <1>2, <1>3, <1>8
      <4> HIDE DEF once
      <4> QED BY <1>2, <1>3, <1>9, <1>10, <4>1
    <3>2. once \in P
      OBVIOUS
    <3> HIDE DEF P
    <3>3. Folded(Takings, once, t) \in P
      BY <1>1, <1>3, <1>8, <3>1, <3>2, FoldKeeps
    <3> QED BY <3>3 DEF P, Behind
  <2>2. Behind(reader, t) \in {reader, once}
    <3> DEFINE P == {reader, once}
    <3>1. ASSUME NEW v \in Readers, NEW i \in 1..Len(t), v \in P PROVE Takings[<<v, t[i]>>] \in P
      <4>1. Takings[<<v, t[i]>>] = Taken(v, t[i])
        BY <1>2, <1>8
      <4>2. CASE t[i].kind # "data"
        BY <1>2, <1>9, <3>1, <4>1, <4>2
      <4>3. CASE t[i].kind = "data"
        <5>1. t[i] = f /\ (v = reader \/ v = once)
          BY <1>2, <3>1, <4>3
        <5>2. Taken(v, f) = once
          BY <1>10, <5>1
        <5> QED BY <4>1, <5>1, <5>2
      <4> QED BY <4>2, <4>3
    <3>2. reader \in P
      OBVIOUS
    <3> HIDE DEF P
    <3>3. Folded(Takings, reader, t) \in P
      BY <1>1, <1>8, <3>1, <3>2, FoldKeeps
    <3> QED BY <3>3 DEF P, Behind
  <2>3. Taken(Behind(reader, t), f) = once
    BY <1>10, <2>2
  <2> QED BY <1>4, <1>5, <2>1, <2>3 DEF f, t
<1>11. CASE Taken(once, f).wrong
  <2> DEFINE P == {v \in Readers : v = once \/ v.wrong}
  <2>1. ASSUME NEW v \in P, NEW i \in 1..Len(t)
        PROVE  Takings[<<v, t[i]>>] \in P /\ (t[i] = f => Taken(v, f).wrong)
    <3>1. Takings[<<v, t[i]>>] = Taken(v, t[i]) /\ Taken(v, t[i]) \in Readers
      BY <1>2, <1>8, TakenType
    <3>2. CASE t[i].kind # "data"
      <4>1. t[i] # f
        BY <1>1, <3>2, WireableFacts
      <4> QED BY <1>2, <1>9, <3>1, <3>2, <4>1
    <3>3. CASE t[i].kind = "data"
      <4>1. t[i] = f
        BY <1>2, <3>3
      <4>2. v.wrong => Taken(v, f).wrong
        BY <3>3, <4>1, Zenon DEF Taken
      <4>3. Taken(v, f).wrong
        BY <1>11, <4>2
      <4> QED BY <3>1, <4>1, <4>3
    <3> QED BY <3>2, <3>3
  <2>2. ASSUME NEW i \in 1..Len(t), t[i] = f PROVE FALSE
    <3> DEFINE a == SubSeq(t, 1, i - 1)
               b == SubSeq(t, i, Len(t))
    <3>1. /\ i - 1 \in Nat /\ Len(t) \in Nat /\ i - 1 <= Len(t) /\ (i - 1) + 1 = i /\ 1 <= (i - 1) + 1
          /\ 1 \in Nat /\ (i - 1) - 1 + 1 = i - 1 /\ \A j \in 1..(i - 1) : 1 + j - 1 = j
      OBVIOUS
    <3>2. a \in Seq(Wireable) /\ Len(a) = i - 1 /\ \A j \in 1..(i - 1) : a[j] = t[j]
      BY <1>1, <3>1, WindowFacts
    <3>3. b \in Seq(Wireable) /\ b # <<>> /\ Head(b) = f
      BY <1>1, <2>2, WindowShrinks
    <3>4. a \o b = t
      <4>1. SubSeq(t, 1, i - 1) \o SubSeq(t, (i - 1) + 1, Len(t)) = SubSeq(t, 1, Len(t))
        BY <1>1, <3>1, WindowsJoin
      <4> QED BY <1>1, <3>1, <4>1, WholeWindow
    <3> HIDE DEF a, b
    <3> DEFINE v == Behind(once, a)
    <3>5. v \in P
      <4>1. ASSUME NEW x \in Readers, NEW j \in 1..Len(a), x \in P PROVE Takings[<<x, a[j]>>] \in P
        <5>1. a[j] = t[j] /\ j \in 1..Len(t)
          BY <3>1, <3>2
        <5> QED BY <2>1, <4>1, <5>1
      <4>2. once \in P
        BY <1>3
      <4> HIDE DEF P
      <4> QED BY <1>3, <1>8, <3>2, <4>1, <4>2, FoldKeeps DEF Behind
    <3>6. Behind(once, t) = Behind(v, b)
      <4> HIDE DEF once
      <4> QED BY <1>3, <3>2, <3>3, <3>4, BehindFacts
    <3>7. Taken(v, f).wrong /\ v \in Readers
      BY <2>1, <2>2, <3>5
    <3> HIDE DEF v
    <3>8. Behind(v, b) = Behind(Taken(v, f), Tail(b)) /\ Taken(v, f) \in Readers /\ Tail(b) \in Seq(Wireable)
      BY <1>1, <3>3, <3>7, BehindFacts, TakenType, TailFacts
    <3>9. Behind(Taken(v, f), Tail(b)).wrong
      BY <3>7, <3>8, BehindGrows
    <3> QED BY <1>4, <3>6, <3>8, <3>9
  <2> HIDE DEF P
  <2>3. ASSUME NEW v \in Readers PROVE Behind(v, t) = v
    <3> DEFINE Q == {v}
    <3>1. \A x \in Readers, i \in 1..Len(t) : x \in Q => Takings[<<x, t[i]>>] \in Q
      BY <1>2, <1>8, <1>9, <2>2
    <3>2. v \in Q
      OBVIOUS
    <3> HIDE DEF Q
    <3>3. Folded(Takings, v, t) \in Q
      BY <1>1, <1>8, <3>1, <3>2, FoldKeeps
    <3> QED BY <3>3 DEF Q, Behind
  <2>4. Behind(once, t) = once /\ Behind(reader, t) = reader
    BY <1>3, <2>3
  <2> QED BY <1>4, <1>5, <2>4 DEF f, t
<1> QED BY <1>7, <1>10, <1>11

--------------------------------------------------------------------------------
(***************************************************************************)
(* Queues that are read alike.                                             *)
(***************************************************************************)

\* The same is read, and each data frame comes as often.
Alike(q, p) ==
    /\ q \in Seq(Wireable) /\ p \in Seq(Wireable)
    /\ \A reader \in Readers : Behind(reader, q) = Behind(reader, p)
    /\ \A f \in Frames : Times(f, q) = Times(f, p)

LEMMA AlikeSame == \A q \in Seq(Wireable) : Alike(q, q)
  BY DEF Alike

LEMMA AlikeTurned == \A q, p : Alike(q, p) => Alike(p, q)
  BY DEF Alike

LEMMA AlikeBoth ==
    ASSUME NEW q, NEW p, NEW s, NEW t, Alike(q, p), Alike(s, t)
    PROVE  Alike(q \o s, p \o t)
<1>1. /\ q \in Seq(Wireable) /\ p \in Seq(Wireable) /\ s \in Seq(Wireable) /\ t \in Seq(Wireable)
      /\ \A reader \in Readers : Behind(reader, q) = Behind(reader, p) /\ Behind(reader, s) = Behind(reader, t)
      /\ \A f \in Frames : Times(f, q) = Times(f, p) /\ Times(f, s) = Times(f, t)
  BY DEF Alike
<1>2. q \o s \in Seq(Wireable) /\ p \o t \in Seq(Wireable)
  BY <1>1
<1>3. ASSUME NEW reader \in Readers PROVE Behind(reader, q \o s) = Behind(reader, p \o t)
  <2> DEFINE r1 == Behind(reader, q)
  <2>1. Behind(reader, q \o s) = Behind(r1, s) /\ r1 \in Readers
    BY <1>1, BehindFacts
  <2>2. Behind(reader, p \o t) = Behind(Behind(reader, p), t)
    BY <1>1, BehindFacts
  <2>3. Behind(reader, p) = r1
    BY <1>1
  <2> HIDE DEF r1
  <2> QED BY <1>1, <2>1, <2>2, <2>3
<1>4. ASSUME NEW f \in Frames PROVE Times(f, q \o s) = Times(f, p \o t)
  <2>1. Times(f, q \o s) = Times(f, q) + Times(f, s) /\ Times(f, p \o t) = Times(f, p) + Times(f, t)
    BY <1>1, TimesFacts
  <2> QED BY <1>1, <2>1
<1> QED BY <1>2, <1>3, <1>4 DEF Alike

LEMMA AlikeWithout ==
    ASSUME NEW q \in Seq(Wireable), NEW k, k # "data"
    PROVE  Alike(Without(q, k), q)
<1>1. Without(q, k) \in Seq(Wireable)
  BY WithoutFacts
<1>2. \A reader \in Readers : Behind(reader, Without(q, k)) = Behind(reader, q)
  BY BehindFacts
<1>3. \A f \in Frames : Times(f, Without(q, k)) = Times(f, q)
  <2>1. \A f \in Frames : f.kind # k
    BY WireableFacts
  <2> QED BY <2>1, TimesFacts
<1> QED BY <1>1, <1>2, <1>3 DEF Alike

\* The head may go when it is no data frame, and such a frame may come.
LEMMA AlikeTail ==
    ASSUME NEW q \in Seq(Wireable), q # <<>>, Head(q).kind # "data"
    PROVE  Alike(Tail(q), q)
<1>1. Tail(q) \in Seq(Wireable) /\ Head(q) \in Wireable
  BY TailFacts
<1>2. ASSUME NEW reader \in Readers PROVE Behind(reader, Tail(q)) = Behind(reader, q)
  <2>1. Taken(reader, Head(q)) = reader
    BY DEF Taken
  <2> QED BY <2>1, BehindFacts
<1>3. ASSUME NEW f \in Frames PROVE Times(f, Tail(q)) = Times(f, q)
  <2>1. Head(q) # f
    BY WireableFacts
  <2> QED BY <2>1, TimesFacts
<1> QED BY <1>1, <1>2, <1>3 DEF Alike

LEMMA AlikeMore ==
    ASSUME NEW q \in Seq(Wireable), NEW w \in Wireable, w.kind # "data"
    PROVE  Alike(Append(q, w), q)
<1>1. Append(q, w) \in Seq(Wireable)
  OBVIOUS
<1>2. ASSUME NEW reader \in Readers PROVE Behind(reader, Append(q, w)) = Behind(reader, q)
  BY BehindFacts DEF Taken
<1>3. ASSUME NEW f \in Frames PROVE Times(f, Append(q, w)) = Times(f, q)
  <2>1. w # f
    BY WireableFacts
  <2> QED BY <2>1, TimesFacts
<1> QED BY <1>1, <1>2, <1>3 DEF Alike

--------------------------------------------------------------------------------
(***************************************************************************)
(* What both ends have and will have.                                      *)
(***************************************************************************)

Incoming == Seen \o toTester

LEMMA NowFacts ==
    ASSUME Types
    PROVE  /\ PeerNow \in Readers /\ PeerThen \in Readers /\ ClientNow \in Readers /\ ClientThen \in Readers
           /\ PeerNow.at = peer.in /\ PeerNow.got = peer.served /\ ~PeerNow.wrong
           /\ ClientNow.at = part /\ ClientNow.got = results \o call.held /\ ~ClientNow.wrong
           /\ PeerThen = Behind(PeerNow, toPeer) /\ ClientThen = Behind(ClientNow, Incoming)
           /\ Seen \in Seq(Wireable) /\ Incoming \in Seq(Wireable)
           /\ toPeer \in Seq(Wireable) /\ toTester \in Seq(Wireable) /\ msgs \in Seq(Wireable)
<1>1. /\ peer.in \in Reassembler /\ peer.served \in Seq(Seq(Bytes)) /\ part \in Reassembler
      /\ results \in Seq(Seq(Bytes)) /\ call.held \in Seq(Seq(Bytes))
      /\ toPeer \in Seq(Wireable) /\ toTester \in Seq(Wireable) /\ msgs \in Seq(Wireable)
  BY TypesOpen DEF AtMostOne
<1>2. Seen \in Seq(Wireable)
  BY SeenFacts
<1>3. Incoming \in Seq(Wireable)
  BY <1>1, <1>2 DEF Incoming
<1>4. results \o call.held \in Seq(Seq(Bytes))
  BY <1>1
<1>5. PeerNow \in Readers /\ ClientNow \in Readers
  BY <1>1, <1>4 DEF PeerNow, ClientNow, Readers
<1>6. PeerThen \in Readers /\ ClientThen \in Readers
  BY <1>1, <1>3, <1>5, BehindFacts DEF PeerThen, ClientThen, Incoming
<1> QED BY <1>1, <1>2, <1>3, <1>5, <1>6 DEF PeerThen, ClientThen, PeerNow, ClientNow, Incoming

\* The answers, and that more requests have more of them.
LEMMA AnswersMore ==
    ASSUME NEW m \in Nat
    PROVE  \A d \in Nat : m + d <= Len(Replies) =>
             /\ Answers(m) \in Seq(Seq(Bytes)) /\ Answers(m + d) \in Seq(Seq(Bytes))
             /\ Len(Answers(m)) + d <= Len(Answers(m + d))
             /\ \A i \in 1..Len(Answers(m)) : Answers(m + d)[i] = Answers(m)[i]
             /\ \A i \in 1..Len(Answers(m)) : Sendable(Answers(m)[i])
<1> DEFINE Fine(s) == s \in Seq(Seq(Bytes)) /\ \A i \in 1..Len(s) : Sendable(s[i])
           Whole_ == {n \in Nat : n <= Len(Replies) => Fine(Answers(n))}
<1>0. Len(Replies) \in Nat
  BY TalkFacts
<1>1. \A n \in Nat : n + 1 <= Len(Replies) =>
        /\ Answers(n + 1) = Answers(n) \o Replies[n + 1]
        /\ Fine(Replies[n + 1]) /\ Len(Replies[n + 1]) >= 1 /\ Len(Replies[n + 1]) \in Nat
  BY AnswersFacts, TalkFacts
<1>2. 0 \in Whole_
  <2>1. \A e : e = <<>> => Fine(e)
    OBVIOUS
  <2>2. Fine(Answers(0))
    <3> HIDE DEF Fine
    <3> QED BY <2>1, AnswersFacts
  <2> QED BY <2>2
<1>3. ASSUME NEW s, NEW t, Fine(s), Fine(t)
      PROVE  /\ Fine(s \o t) /\ Len(s \o t) = Len(s) + Len(t) /\ Len(s) \in Nat
             /\ \A i \in 1..Len(s) : (s \o t)[i] = s[i]
  <2>1. /\ s \o t \in Seq(Seq(Bytes)) /\ Len(s \o t) = Len(s) + Len(t) /\ Len(s) \in Nat /\ Len(t) \in Nat
        /\ \A i \in 1..Len(s) : (s \o t)[i] = s[i]
        /\ \A i \in 1..Len(t) : (s \o t)[Len(s) + i] = t[i]
    BY <1>3, ConcatFacts
  <2>2. ASSUME NEW i \in 1..Len(s \o t) PROVE Sendable((s \o t)[i])
    <3>1. CASE i <= Len(s)
      BY <1>3, <2>1, <3>1
    <3>2. CASE i > Len(s)
      <4>1. i - Len(s) \in 1..Len(t) /\ Len(s) + (i - Len(s)) = i
        BY <2>1, <3>2
      <4> QED BY <1>3, <2>1, <4>1
    <3> QED BY <2>1, <3>1, <3>2
  <2> QED BY <2>1, <2>2
<1> HIDE DEF Fine
<1>4. ASSUME NEW n \in Nat, n \in Whole_ PROVE n + 1 \in Whole_
  <2> SUFFICES ASSUME n + 1 <= Len(Replies) PROVE Fine(Answers(n + 1))
    OBVIOUS
  <2>1. Fine(Answers(n))
    BY <1>0, <1>4
  <2>2. Answers(n + 1) = Answers(n) \o Replies[n + 1] /\ Fine(Replies[n + 1])
    BY <1>1
  <2>3. \A a, b, c : Fine(a) /\ Fine(b) /\ c = a \o b => Fine(c)
    BY <1>3
  <2> QED BY <2>1, <2>2, <2>3
<1>5. \A n \in Nat : n \in Whole_
  <2> HIDE DEF Whole_
  <2> QED BY <1>2, <1>4, Counting
<1>6. \A n \in Nat : n <= Len(Replies) => Fine(Answers(n))
  BY <1>5
<1> DEFINE Later(d) == /\ Len(Answers(m)) + d <= Len(Answers(m + d))
                       /\ \A i \in 1..Len(Answers(m)) : Answers(m + d)[i] = Answers(m)[i]
           Good == {d \in Nat : m + d <= Len(Replies) => Later(d)}
<1>7. 0 \in Good
  <2>1. m + 0 = m
    OBVIOUS
  <2>2. m <= Len(Replies) => Len(Answers(m)) \in Nat
    BY <1>6 DEF Fine
  <2> QED BY <2>1, <2>2
<1>8. ASSUME NEW d \in Nat, d \in Good PROVE d + 1 \in Good
  <2> SUFFICES ASSUME m + (d + 1) <= Len(Replies) PROVE Later(d + 1)
    OBVIOUS
  <2>1. m + d \in Nat /\ (m + d) + 1 = m + (d + 1) /\ m + d <= Len(Replies) /\ m <= Len(Replies) /\ (m + d) + 1 <= Len(Replies)
    BY <1>0
  <2>2. Later(d)
    BY <1>8, <2>1
  <2> DEFINE a == Answers(m + d)
             b == Replies[m + d + 1]
             c == Answers(m + (d + 1))
             s == Answers(m)
  <2>3. Fine(a) /\ Fine(b) /\ c = a \o b /\ Len(b) >= 1 /\ Len(b) \in Nat /\ Fine(s)
    BY <1>1, <1>6, <2>1
  <2>4. Len(s) + d <= Len(a) /\ \A i \in 1..Len(s) : a[i] = s[i]
    BY <2>2
  <2>4a. Len(s) \in Nat
    BY <2>3 DEF Fine
  <2> HIDE DEF a, b, c, s
  <2>5. Len(c) = Len(a) + Len(b) /\ Len(a) \in Nat /\ \A i \in 1..Len(a) : c[i] = a[i]
    BY <1>3, <2>3
  <2>6. Len(s) + (d + 1) <= Len(c)
    BY <2>3, <2>4, <2>4a, <2>5
  <2>7. \A i \in 1..Len(s) : c[i] = s[i]
    BY <2>4, <2>4a, <2>5
  <2> QED BY <2>6, <2>7 DEF c, s
<1> HIDE DEF Good
<1>9. \A d \in Nat : d \in Good
  BY <1>7, <1>8, Counting
<1>10. ASSUME NEW d \in Nat, m + d <= Len(Replies) PROVE Later(d) /\ Fine(Answers(m)) /\ Fine(Answers(m + d))
  <2>1. m <= Len(Replies) /\ m + d \in Nat
    BY <1>0, <1>10
  <2> QED BY <1>6, <1>9, <1>10, <2>1 DEF Good
<1> QED BY <1>10 DEF Fine

\* The peer was handed the requests in their order.
LEMMA ServedSoFar ==
    ASSUME Types, RequestsInv
    PROVE  /\ Len(peer.served) \in Nat /\ Len(peer.served) <= sent /\ sent \in 0..Len(Requests)
           /\ Len(peer.served) <= Len(PeerThen.got)
           /\ \A i \in 1..Len(peer.served) : peer.served[i] = Requests[i] /\ PeerThen.got[i] = peer.served[i]
           /\ call.job # <<>> => Len(peer.served) <= sent - 1
           /\ call.job # <<>> => sent > 0
<1>1. /\ peer.served \in Seq(Seq(Bytes)) /\ Requests \in Seq(Seq(Bytes)) /\ sent \in 0..Len(Requests)
      /\ Len(peer.served) \in Nat
  <2>1. peer.served \in Seq(Seq(Bytes)) /\ sent \in 0..Len(Requests)
    BY TypesOpen
  <2>2. Requests \in Seq(Seq(Bytes))
    BY TransportAssumption
  <2>3. \A S, e : e \in Seq(S) => Len(e) \in Nat
    OBVIOUS
  <2> QED BY <2>1, <2>2, <2>3
<1>2. /\ Len(peer.served) <= Len(PeerThen.got)
      /\ \A i \in 1..Len(peer.served) : PeerThen.got[i] = peer.served[i]
  <2>1. PeerNow \in Readers /\ toPeer \in Seq(Wireable) /\ PeerNow.got = peer.served
        /\ PeerThen = Behind(PeerNow, toPeer)
    BY NowFacts
  <2>2. /\ Len(PeerNow.got) <= Len(Behind(PeerNow, toPeer).got)
        /\ \A i \in 1..Len(PeerNow.got) : Behind(PeerNow, toPeer).got[i] = PeerNow.got[i]
    BY <2>1, BehindGrows
  <2> QED BY <2>1, <2>2
<1>3. CASE call.job = <<>>
  <2>1. PeerThen.got = SubSeq(Requests, 1, sent)
    BY <1>3 DEF RequestsInv
  <2>2. Len(PeerThen.got) = sent /\ \A i \in 1..sent : PeerThen.got[i] = Requests[i]
    BY <1>1, <2>1, WindowFacts
  <2> QED BY <1>1, <1>2, <1>3, <2>2
<1>4. CASE call.job # <<>>
  <2>1. PeerThen.got = SubSeq(Requests, 1, sent - 1) /\ OutGone \in 0..OutSize
    BY <1>4 DEF RequestsInv
  <2>2. sent > 0
    BY <1>4 DEF RequestsInv
  <2>3. Len(PeerThen.got) = sent - 1 /\ \A i \in 1..(sent - 1) : PeerThen.got[i] = Requests[i]
    <3>1. sent - 1 \in Nat /\ 1 <= (sent - 1) + 1 /\ sent - 1 <= Len(Requests) /\ 1 \in Nat /\ 1 <= 1
          /\ (sent - 1) - 1 + 1 = sent - 1 /\ \A i \in 1..(sent - 1) : 1 + i - 1 = i
      BY <1>1, <2>2
    <3> QED BY <1>1, <2>1, <3>1, WindowFacts
  <2> QED BY <1>1, <1>2, <2>2, <2>3
<1> QED BY <1>3, <1>4


\* The peer reads the requests in their order.
LEMMA PeerReads ==
    ASSUME Types, RequestsInv
    PROVE  /\ Len(PeerThen.got) = IF call.job = <<>> THEN sent ELSE sent - 1
           /\ Len(PeerThen.got) \in 0..Len(Requests)
           /\ \A i \in 1..Len(PeerThen.got) : PeerThen.got[i] = Requests[i]
<1>1. Requests \in Seq(Seq(Bytes)) /\ sent \in 0..Len(Requests) /\ Len(Requests) \in Nat
  <2>1. \A S, e : e \in Seq(S) => Len(e) \in Nat
    OBVIOUS
  <2> QED BY <2>1, TypesOpen, TransportAssumption
<1>2. PICK n \in 0..Len(Requests) : n = (IF call.job = <<>> THEN sent ELSE sent - 1) /\ PeerThen.got = SubSeq(Requests, 1, n)
  <2>1. CASE call.job = <<>>
    BY <1>1, <2>1 DEF RequestsInv
  <2>2. CASE call.job # <<>>
    <3>1. sent - 1 \in 0..Len(Requests)
      BY <1>1, <2>2 DEF RequestsInv
    <3> QED BY <2>2, <3>1 DEF RequestsInv
  <2> QED BY <2>1, <2>2
<1>3. Len(SubSeq(Requests, 1, n)) = n /\ \A i \in 1..n : SubSeq(Requests, 1, n)[i] = Requests[i]
  <2>1. n \in Nat /\ 1 <= n + 1 /\ n <= Len(Requests) /\ 1 \in Nat /\ 1 <= 1 /\ n - 1 + 1 = n
        /\ \A i \in 1..n : 1 + i - 1 = i
    BY <1>1
  <2> QED BY <1>1, <2>1, WindowFacts
<1> QED BY <1>2, <1>3

\* A frame on its way to the peer is not wrong; the message that it ends is the next request.
LEMMA ServedNext ==
    ASSUME Types, RequestsInv, toPeer # <<>>, Head(toPeer).kind = "data"
    PROVE  LET f == Head(toPeer)
               n == Len(peer.served)
           IN  /\ ~Wrong(peer.in, f) /\ Taken(PeerNow, f) \in Readers
               /\ Taken(PeerNow, f).at = Fed(peer.in, f) /\ ~Taken(PeerNow, f).wrong
               /\ Taken(PeerNow, f).got = peer.served \o Delivered(peer.in, f)
               /\ PeerThen = Behind(Taken(PeerNow, f), Tail(toPeer))
               /\ n \in Nat /\ n <= sent /\ (call.job # <<>> => n <= sent - 1)
               /\ Delivered(peer.in, f) # <<>> =>
                    /\ n + 1 <= sent /\ (call.job # <<>> => n + 1 <= sent - 1)
                    /\ n + 1 \in 1..Len(Requests) /\ Delivered(peer.in, f) = <<Requests[n + 1]>>
<1> DEFINE f == Head(toPeer)
           d == Delivered(peer.in, f)
           t == Taken(PeerNow, f)
           n == Len(peer.served)
<1>1. /\ PeerNow \in Readers /\ toPeer \in Seq(Wireable) /\ PeerThen = Behind(PeerNow, toPeer)
      /\ PeerNow.at = peer.in /\ PeerNow.got = peer.served /\ ~PeerNow.wrong
  BY NowFacts
<1>2. f \in Wireable /\ Tail(toPeer) \in Seq(Wireable) /\ f \in Frames
  BY <1>1, TailFacts, WireableFacts
<1>3. t \in Readers /\ PeerThen = Behind(t, Tail(toPeer))
  BY <1>1, <1>2, TakenType, BehindFacts
<1>4. t.at = Fed(peer.in, f) /\ t.got = peer.served \o d /\ (t.wrong <=> Wrong(peer.in, f))
  <2>1. t = [at |-> Fed(PeerNow.at, f), got |-> PeerNow.got \o Delivered(PeerNow.at, f),
             wrong |-> PeerNow.wrong \/ Wrong(PeerNow.at, f)]
    BY DEF Taken
  <2>0. \A x, a, g, w : x = [at |-> a, got |-> g, wrong |-> w] => x.at = a /\ x.got = g /\ x.wrong = w
    OBVIOUS
  <2> HIDE DEF t, f
  <2>2. t.at = Fed(peer.in, f) /\ t.got = peer.served \o d
    BY <1>1, <2>0, <2>1
  <2>3. t.wrong <=> Wrong(peer.in, f)
    <3>1. t.wrong = (PeerNow.wrong \/ Wrong(PeerNow.at, f))
      BY <2>0, <2>1, Zenon
    <3> QED BY <1>1, <3>1, Zenon
  <2> QED BY <2>2, <2>3
<1>5. /\ t.wrong => PeerThen.wrong
      /\ Len(t.got) <= Len(PeerThen.got) /\ \A i \in 1..Len(t.got) : PeerThen.got[i] = t.got[i]
  BY <1>2, <1>3, BehindGrows
<1>6. ~Wrong(peer.in, f) /\ ~t.wrong
  BY <1>4, <1>5 DEF RequestsInv
<1>7. d \in AtMostOne(Seq(Bytes)) /\ peer.served \in Seq(Seq(Bytes))
  BY <1>2, TypesOpen, FedFacts
<1>8. d \in Seq(Seq(Bytes)) /\ Len(d) <= 1 /\ Len(d) \in Nat /\ n \in Nat
  BY <1>7 DEF AtMostOne
<1>9. Len(t.got) = n + Len(d) /\ \A i \in 1..Len(d) : t.got[n + i] = d[i]
  <2> HIDE DEF d, t
  <2> QED BY <1>4, <1>7, <1>8, ConcatFacts
<1>10. /\ Len(PeerThen.got) = IF call.job = <<>> THEN sent ELSE sent - 1
       /\ Len(PeerThen.got) \in 0..Len(Requests) /\ sent \in Nat /\ Len(Requests) \in Nat
       /\ \A i \in 1..Len(PeerThen.got) : PeerThen.got[i] = Requests[i]
  BY PeerReads, TypesOpen, TalkFacts
<1>11. n <= sent /\ (call.job # <<>> => n <= sent - 1)
  <2> HIDE DEF t, d, n
  <2> QED BY <1>5, <1>8, <1>9, <1>10
<1>12. ASSUME d # <<>>
       PROVE  /\ n + 1 <= sent /\ (call.job # <<>> => n + 1 <= sent - 1)
              /\ n + 1 \in 1..Len(Requests) /\ d = <<Requests[n + 1]>>
  <2> HIDE DEF t, d, n
  <2>0. \A e \in Seq(Seq(Bytes)) : e # <<>> => Len(e) # 0
    OBVIOUS
  <2>0a. Len(d) # 0
    BY <1>8, <1>12, <2>0, Zenon
  <2>1. Len(d) = 1
    <3> DEFINE k == Len(d)
    <3>1. k <= 1 /\ k \in Nat /\ k # 0
      BY <1>8, <2>0a, Zenon
    <3> HIDE DEF k
    <3>2. k = 1
      BY <3>1
    <3> QED BY <3>2 DEF k
  <2>2. Len(t.got) = n + 1 /\ t.got[n + 1] = d[1]
    BY <1>9, <2>1
  <2>3. n + 1 \in 1..Len(t.got) /\ n + 1 \in 1..Len(PeerThen.got) /\ n + 1 \in 1..Len(Requests)
    BY <1>5, <1>8, <1>10, <2>2
  <2>4. d[1] = Requests[n + 1]
    BY <1>5, <1>10, <2>2, <2>3
  <2>5. d = <<Requests[n + 1]>>
    BY <1>8, <2>1, <2>4
  <2> QED BY <1>5, <1>8, <1>10, <2>2, <2>3, <2>5
<1> QED BY <1>3, <1>4, <1>6, <1>8, <1>11, <1>12

\* The client was given no more than the peer has to answer to what it served.
LEMMA GivenSoFar ==
    ASSUME Types, RequestsInv, RepliesInv
    PROVE  /\ ClientThen.got \in Seq(Seq(Bytes)) /\ Answers(Len(peer.served)) \in Seq(Seq(Bytes))
           /\ Len(results) \in Nat /\ Len(ClientThen.got) \in Nat /\ Len(Answers(Len(peer.served))) \in Nat
           /\ Len(results) <= Len(ClientThen.got)
           /\ Len(ClientThen.got) <= Len(Answers(Len(peer.served)))
           /\ \A i \in 1..Len(results) : results[i] = Answers(Len(peer.served))[i]
<1> DEFINE a == Answers(Len(peer.served))
           g == ClientThen.got
<1>1. Len(peer.served) \in Nat /\ Len(peer.served) <= Len(Replies)
  BY ServedSoFar, TalkFacts
<1>2. a \in Seq(Seq(Bytes)) /\ \A i \in 1..Len(a) : Sendable(a[i])
  <2>1. Len(peer.served) + 0 = Len(peer.served) /\ 0 \in Nat
    BY <1>1
  <2> QED BY <1>1, <2>1, AnswersMore
<1>3. /\ results \in Seq(Seq(Bytes)) /\ call.held \in Seq(Seq(Bytes)) /\ peer.todo \in Seq(Seq(Bytes))
  BY TypesOpen DEF AtMostOne
<1>4. /\ ClientNow \in Readers /\ ClientThen \in Readers /\ ClientNow.got = results \o call.held
      /\ ClientThen = Behind(ClientNow, Incoming) /\ Incoming \in Seq(Wireable)
  BY NowFacts
<1>5. g \in Seq(Seq(Bytes))
  BY <1>4 DEF Readers
<1>6. Len(ClientNow.got) <= Len(g) /\ \A i \in 1..Len(ClientNow.got) : g[i] = ClientNow.got[i]
  BY <1>4, BehindGrows
<1>7. Len(results) <= Len(g) /\ \A i \in 1..Len(results) : g[i] = results[i]
  <2>1. /\ Len(results \o call.held) = Len(results) + Len(call.held)
        /\ \A i \in 1..Len(results) : (results \o call.held)[i] = results[i]
    BY <1>3, ConcatFacts
  <2>2. Len(results) \in Nat /\ Len(call.held) \in Nat /\ Len(g) \in Nat
    <3> HIDE DEF g
    <3> QED BY <1>3, <1>5
  <2> HIDE DEF g
  <2> QED BY <1>4, <1>6, <2>1, <2>2
<1>8. Len(g) <= Len(a) /\ \A i \in 1..Len(g) : a[i] = g[i]
  <2>1. \E x \in Seq(Seq(Bytes)) : a = g \o x
    <3>1. CASE Resting(ClientThen.at, ClientThen.got)
      BY <1>3, <3>1 DEF Resting
    <3>2. CASE \E m \in Range(a), s \in Seqs : Replying(ClientThen.at, ClientThen.got, m, s)
      <4>1. PICK m \in Range(a), s \in Seqs : Replying(ClientThen.at, ClientThen.got, m, s)
        BY <3>2
      <4>2. m \in Seq(Bytes)
        <5> HIDE DEF a
        <5> QED BY <1>2 DEF Range
      <4>3. a = Append(g, m) \o peer.todo
        BY <4>1 DEF Replying
      <4> DEFINE x == <<m>> \o peer.todo
      <4>4. x \in Seq(Seq(Bytes))
        BY <1>3, <4>2
      <4>5. Append(g, m) \o peer.todo = g \o x
        <5>1. x # <<>> /\ Head(x) = m /\ Tail(x) = peer.todo
          BY <1>3, <4>2
        <5> HIDE DEF g, x
        <5> QED BY <1>5, <4>4, <5>1, HeadMoves
      <4> HIDE DEF x, a, g
      <4> QED BY <4>3, <4>4, <4>5
    <3> QED BY <3>1, <3>2 DEF RepliesInv
  <2>2. PICK x \in Seq(Seq(Bytes)) : a = g \o x
    BY <2>1
  <2>3. Len(g \o x) = Len(g) + Len(x) /\ Len(x) \in Nat /\ Len(g) \in Nat /\ \A i \in 1..Len(g) : (g \o x)[i] = g[i]
    <3> HIDE DEF g
    <3> QED BY <1>5, ConcatFacts
  <2> HIDE DEF g, a
  <2> QED BY <2>2, <2>3
<1>9. Len(results) \in Nat /\ Len(g) \in Nat /\ Len(a) \in Nat
  <2> HIDE DEF g, a
  <2> QED BY <1>2, <1>3, <1>5
<1> HIDE DEF g, a
<1>10. \A i \in 1..Len(results) : results[i] = a[i]
  BY <1>7, <1>8, <1>9
<1> QED BY <1>2, <1>5, <1>7, <1>8, <1>9, <1>10 DEF a, g

\* While a request is under way those before it are served.
LEMMA ServedBefore ==
    ASSUME Types, DueInv, RequestsInv, RepliesInv, Asking
    PROVE  Len(peer.served) >= sent - 1
<1> DEFINE n == Len(peer.served)
<1>1. n \in Nat /\ n <= sent /\ sent \in 0..Len(Requests) /\ Len(Replies) = Len(Requests) /\ Len(Requests) \in Nat
  BY ServedSoFar, TalkFacts
<1>2. sent > 0 /\ call.due = Len(Replies[sent]) /\ Len(results) + call.due = Len(Answers(sent))
  <2>1. call.due > 0
    BY TypesOpen DEF DueInv, Asking
  <2> QED BY <2>1 DEF DueInv
<1>3. Len(Answers(sent)) = Len(Answers(sent - 1)) + Len(Replies[sent]) /\ Len(Replies[sent]) \in Nat
      /\ Len(Answers(sent - 1)) \in Nat
  <2> DEFINE p == sent - 1
  <2>1. p \in Nat /\ p + 1 = sent /\ p + 1 <= Len(Replies) /\ sent \in 1..Len(Requests) /\ p + 0 = p /\ 0 \in Nat /\ p <= Len(Replies)
    BY <1>1, <1>2
  <2> HIDE DEF p
  <2>2. Answers(sent) = Answers(p) \o Replies[sent]
    BY <2>1, AnswersFacts
  <2>3. Answers(p) \in Seq(Seq(Bytes)) /\ Replies[sent] \in Seq(Seq(Bytes))
    BY <2>1, AnswersMore, TalkFacts
  <2>4. \A b, c : b \in Seq(Seq(Bytes)) /\ c \in Seq(Seq(Bytes)) => Len(b \o c) = Len(b) + Len(c) /\ Len(b) \in Nat /\ Len(c) \in Nat
    BY ConcatFacts
  <2> QED BY <2>2, <2>3, <2>4 DEF p
<1>4. Len(results) <= Len(Answers(n)) /\ Len(results) \in Nat /\ Len(Answers(n)) \in Nat
  BY GivenSoFar
<1>5. ASSUME n < sent - 1 PROVE FALSE
  <2> DEFINE d == (sent - 1) - n
  <2>1. d \in Nat /\ d >= 1 /\ n + d = sent - 1 /\ n + d <= Len(Replies)
    BY <1>1, <1>5
  <2> HIDE DEF d, n
  <2>2. Len(Answers(n)) + d <= Len(Answers(n + d))
    BY <1>1, <2>1, AnswersMore
  <2>3. Len(Answers(n + d)) = Len(Answers(sent - 1))
    BY <2>1
  <2> DEFINE old == Len(Answers(sent - 1))
             new == Len(Answers(sent))
             have == Len(Answers(n))
             more == Len(Answers(n + d))
             due == Len(Replies[sent])
             res == Len(results)
  <2>4. have + d <= more /\ more = old /\ new = old + due /\ res + due = new /\ res <= have /\ d >= 1
        /\ have \in Nat /\ old \in Nat /\ due \in Nat /\ res \in Nat /\ d \in Nat
    BY <1>2, <1>3, <1>4, <2>1, <2>2, <2>3
  <2> HIDE DEF old, new, have, more, due, res
  <2> QED BY <2>4
<1> QED BY <1>1, <1>5


--------------------------------------------------------------------------------
(***************************************************************************)
(* What keeps the parts of Exact.                                          *)
(***************************************************************************)

\* The elements of some kinds in one queue are in another; those of a queue are of some.
Within(q, p, kinds) == \A a \in DOMAIN q : q[a].kind \in kinds => \E b \in DOMAIN p : p[b] = q[a]
Only(q, kinds) == \A a \in DOMAIN q : q[a].kind \in kinds

LEMMA WithinFacts ==
    ASSUME NEW q \in Seq(Wireable), NEW kinds
    PROVE  /\ Within(q, q, kinds)
           /\ \A t \in Seq(Wireable) : Within(q, q \o t, kinds)
           /\ \A w \in Wireable : Within(q, Append(q, w), kinds)
           /\ q # <<>> /\ Head(q).kind \notin kinds => Within(q, Tail(q), kinds)
<1>1. Within(q, q, kinds)
  BY DEF Within
<1>2. ASSUME NEW t \in Seq(Wireable) PROVE Within(q, q \o t, kinds)
  <2>1. DOMAIN q = 1..Len(q) /\ DOMAIN (q \o t) = 1..(Len(q) + Len(t)) /\ Len(q) \in Nat /\ Len(t) \in Nat
        /\ \A i \in 1..Len(q) : (q \o t)[i] = q[i]
    OBVIOUS
  <2>2. \A a \in DOMAIN q : a \in DOMAIN (q \o t) /\ (q \o t)[a] = q[a]
    BY <2>1
  <2> QED BY <2>2 DEF Within
<1>3. ASSUME NEW w \in Wireable PROVE Within(q, Append(q, w), kinds)
  BY AppendFacts DEF Within
<1>4. ASSUME q # <<>>, Head(q).kind \notin kinds PROVE Within(q, Tail(q), kinds)
  <2>1. Head(q) = q[1] /\ DOMAIN q = 1..Len(q) /\ DOMAIN Tail(q) = 1..(Len(q) - 1) /\ Len(q) \in Nat
        /\ \A i \in 1..(Len(q) - 1) : Tail(q)[i] = q[i + 1]
    BY <1>4, TailFacts
  <2>2. ASSUME NEW a \in DOMAIN q, q[a].kind \in kinds PROVE \E b \in DOMAIN Tail(q) : Tail(q)[b] = q[a]
    <3>1. a # 1
      BY <1>4, <2>1, <2>2
    <3>2. a - 1 \in DOMAIN Tail(q) /\ Tail(q)[a - 1] = q[a]
      BY <2>1, <3>1
    <3> QED BY <3>2
  <2> QED BY <2>2 DEF Within
<1> QED BY <1>1, <1>2, <1>3, <1>4

LEMMA OnlyFacts ==
    ASSUME NEW q \in Seq(Wireable), NEW kinds
    PROVE  /\ \A t \in Seq(Wireable) : Only(q, kinds) /\ Only(t, kinds) <=> Only(q \o t, kinds)
           /\ \A w \in Wireable : Only(q, kinds) /\ w.kind \in kinds => Only(Append(q, w), kinds)
           /\ Only(q, kinds) /\ q # <<>> => Only(Tail(q), kinds) /\ Head(q).kind \in kinds
           /\ q = <<>> => Only(q, kinds)
           /\ \A k : Only(q, kinds) => Only(Without(q, k), kinds)
<1>1. ASSUME NEW t \in Seq(Wireable) PROVE Only(q, kinds) /\ Only(t, kinds) <=> Only(q \o t, kinds)
  <2>1. /\ DOMAIN q = 1..Len(q) /\ DOMAIN t = 1..Len(t) /\ DOMAIN (q \o t) = 1..(Len(q) + Len(t)) /\ Len(q) \in Nat /\ Len(t) \in Nat
        /\ \A i \in 1..Len(q) : (q \o t)[i] = q[i]
        /\ \A i \in 1..Len(t) : (q \o t)[Len(q) + i] = t[i]
    OBVIOUS
  <2>2. ASSUME Only(q \o t, kinds) PROVE Only(q, kinds)
    <3>1. \A a \in DOMAIN q : a \in DOMAIN (q \o t) /\ (q \o t)[a] = q[a]
      BY <2>1
    <3> QED BY <2>2, <3>1 DEF Only
  <2>3. ASSUME Only(q \o t, kinds) PROVE Only(t, kinds)
    <3>1. \A a \in DOMAIN t : Len(q) + a \in DOMAIN (q \o t) /\ (q \o t)[Len(q) + a] = t[a]
      BY <2>1
    <3> QED BY <2>3, <3>1 DEF Only
  <2>4. ASSUME Only(q, kinds), Only(t, kinds), NEW a \in DOMAIN (q \o t) PROVE (q \o t)[a].kind \in kinds
    <3>1. CASE a <= Len(q)
      <4>1. a \in DOMAIN q /\ (q \o t)[a] = q[a]
        BY <2>1, <2>4, <3>1
      <4> QED BY <2>4, <4>1 DEF Only
    <3>2. CASE a > Len(q)
      <4>1. a - Len(q) \in 1..Len(t) /\ Len(q) + (a - Len(q)) = a
        BY <2>1, <2>4, <3>2
      <4>2. a - Len(q) \in DOMAIN t /\ (q \o t)[a] = t[a - Len(q)]
        BY <2>1, <4>1
      <4> QED BY <2>4, <4>2 DEF Only
    <3>3. a \in Int /\ Len(q) \in Int
      BY <2>1, <2>4
    <3> QED BY <3>1, <3>2, <3>3
  <2>5. ASSUME Only(q, kinds), Only(t, kinds) PROVE Only(q \o t, kinds)
    BY <2>4, <2>5 DEF Only
  <2> QED BY <2>2, <2>3, <2>5
<1>2. ASSUME NEW w \in Wireable, Only(q, kinds), w.kind \in kinds PROVE Only(Append(q, w), kinds)
  <2>1. \A i \in DOMAIN Append(q, w) : (i \in DOMAIN q /\ Append(q, w)[i] = q[i]) \/ Append(q, w)[i] = w
    BY AppendFacts
  <2> QED BY <1>2, <2>1 DEF Only
<1>3. ASSUME Only(q, kinds), q # <<>> PROVE Only(Tail(q), kinds) /\ Head(q).kind \in kinds
  BY <1>3, TailFacts DEF Only
<1>4. ASSUME q = <<>> PROVE Only(q, kinds)
  BY <1>4 DEF Only
<1>5. ASSUME NEW k, Only(q, kinds) PROVE Only(Without(q, k), kinds)
  BY <1>5, WithoutFacts DEF Only
<1> QED BY <1>1, <1>2, <1>3, <1>4, <1>5

\* A queue that has no frames of a kind stays as it is without them.
LEMMA WithoutNone ==
    ASSUME NEW q \in Seq(Wireable), NEW k, NEW kinds, Only(q, kinds), k \notin kinds
    PROVE  Without(q, k) = q
<1>1. PICK kept : /\ Sifts(kept, q, k) /\ Without(q, k) = kept[Len(q)]
                  /\ \A i \in 0..Len(q) : kept[i] \in Seq(Wireable)
  BY WithoutChain
<1>2. Len(q) \in Nat /\ DOMAIN q = 1..Len(q) /\ \A i \in 1..Len(q) : q[i] \in Wireable
  OBVIOUS
<1>3. kept[0] = <<>> /\ \A i \in 1..Len(q) : kept[i] = Append(kept[i - 1], q[i])
  <2>1. \A i \in 1..Len(q) : q[i].kind # k
    BY <1>2 DEF Only
  <2> QED BY <1>1, <2>1 DEF Sifts
<1> DEFINE Same(i) == Len(kept[i]) = i /\ \A j \in 1..i : kept[i][j] = q[j]
           Good == {i \in Nat : i <= Len(q) => Same(i)}
<1>4. 0 \in Good
  BY <1>3
<1>5. ASSUME NEW i \in Nat, i \in Good PROVE i + 1 \in Good
  <2> SUFFICES ASSUME i + 1 <= Len(q) PROVE Same(i + 1)
    OBVIOUS
  <2>1. i <= Len(q) /\ i \in 0..Len(q) /\ i + 1 \in 1..Len(q) /\ (i + 1) - 1 = i
    BY <1>2
  <2> DEFINE s == kept[i]
             t == kept[i + 1]
             x == q[i + 1]
  <2>2. t = Append(s, x) /\ s \in Seq(Wireable) /\ x \in Wireable
    BY <1>1, <1>2, <1>3, <2>1
  <2>3. Len(s) = i /\ \A j \in 1..i : s[j] = q[j]
    BY <1>5, <2>1
  <2> HIDE DEF s, t
  <2>4. Len(t) = i + 1 /\ \A j \in 1..i : t[j] = s[j]
    <3> HIDE DEF x
    <3> QED BY <2>2, <2>3
  <2>5. t[i + 1] = x
    <3> HIDE DEF x
    <3> QED BY <2>2, <2>3
  <2>6. \A j \in 1..(i + 1) : t[j] = q[j]
    BY <2>3, <2>4, <2>5
  <2> QED BY <2>4, <2>6 DEF t
<1> HIDE DEF Good
<1>6. \A i \in Nat : i \in Good
  BY <1>4, <1>5, Counting
<1>7. Same(Len(q))
  BY <1>2, <1>6 DEF Good
<1> DEFINE w == Without(q, k)
<1>8. w \in Seq(Wireable) /\ Len(w) = Len(q) /\ \A j \in 1..Len(q) : w[j] = q[j]
  BY <1>1, <1>2, <1>7
<1> HIDE DEF w
<1>9. w = q
  BY <1>8, SameSequence
<1> QED BY <1>9 DEF w

LEMMA RequestsKept ==
    ASSUME RequestsInv, PeerThen' = PeerThen, call'.job = call.job, sent' = sent,
           IF call.job = <<>> THEN (IF pc' = "ack" THEN After(call'.awaited) ELSE txSeq')
                                     = (IF pc = "ack" THEN After(call.awaited) ELSE txSeq)
                              ELSE txSeq' = txSeq
    PROVE  RequestsInv'
<1>1. CASE call.job = <<>>
  BY <1>1 DEF RequestsInv, Empty
<1>2. CASE call.job # <<>>
  BY <1>2 DEF RequestsInv, OutGone, OutSize, OutFrames, Reading
<1> QED BY <1>1, <1>2

LEMMA RepliesKept ==
    ASSUME RepliesInv, ClientThen' = ClientThen, peer'.out = peer.out, peer'.tx = peer.tx,
           peer'.todo = peer.todo, peer'.served = peer.served, peer'.await \in {peer.await, <<>>}
    PROVE  RepliesInv'
<1>1. ~ClientThen'.wrong /\ ClientThen'.at.seq = peer'.tx
  BY DEF RepliesInv
<1>2. peer'.await # <<>> => /\ ClientThen'.at.acked = peer'.await /\ Asks(peer'.await[1])
                            /\ After(peer'.await[1].seq) = peer'.tx
  BY DEF RepliesInv
<1>3. CASE Resting(ClientThen.at, ClientThen.got)
  <2>1. Resting(ClientThen.at, ClientThen.got)'
    BY <1>3 DEF Resting, Empty, Answers
  <2> QED BY <1>1, <1>2, <2>1 DEF RepliesInv
<1>4. CASE \E m \in Range(Answers(Len(peer.served))), s \in Seqs : Replying(ClientThen.at, ClientThen.got, m, s)
  <2>1. PICK m \in Range(Answers(Len(peer.served))), s \in Seqs : Replying(ClientThen.at, ClientThen.got, m, s)
    BY <1>4
  <2>2. m \in Range(Answers(Len(peer'.served))) /\ Replying(ClientThen.at, ClientThen.got, m, s)'
    BY <2>1 DEF Replying, Reading, Answers
  <2> QED BY <1>1, <1>2, <2>2 DEF RepliesInv
<1> QED BY <1>3, <1>4 DEF RepliesInv

\* The frame that awaits its ACK.
LEMMA AwaitFacts ==
    ASSUME Types, peer.await # <<>>
    PROVE  /\ peer.await[1] \in Frames /\ peer.await = <<peer.await[1]>> /\ peer.await[1].seq \in Seqs
           /\ peer.await[1].kind = "data" /\ Ack(peer.await[1].seq) \in Wireable
           /\ Ack(peer.await[1].seq).kind = "ack"
<1>1. peer.await \in Seq(Frames) /\ Len(peer.await) <= 1
  BY TypesOpen DEF AtMostOne
<1>2. \A e \in Seq(Frames) : Len(e) <= 1 /\ e # <<>> => e[1] \in Frames /\ e = <<e[1]>>
  OBVIOUS
<1>3. peer.await[1] \in Frames /\ peer.await = <<peer.await[1]>>
  BY <1>1, <1>2
<1> QED BY <1>3, WireableFacts DEF Ack

LEMMA CopiesKept ==
    ASSUME Types, CopiesInv, peer'.await = peer.await, peer'.repeats = peer.repeats, upsets' = upsets,
           \A f \in Frames : Times(f, Incoming') = Times(f, Incoming),
           \A n \in Seqs : Times(Ack(n), toPeer') = Times(Ack(n), toPeer)
    PROVE  CopiesInv'
<1>1. CASE peer.await = <<>>
  BY <1>1 DEF CopiesInv
<1>2. CASE peer.await # <<>>
  <2> DEFINE f == peer.await[1]
  <2>1. f \in Frames /\ f.seq \in Seqs
    BY <1>2, AwaitFacts
  <2>2. Times(f, Incoming') = Times(f, Incoming) /\ Times(Ack(f.seq), toPeer') = Times(Ack(f.seq), toPeer)
    BY <2>1
  <2> QED BY <1>2, <2>2 DEF CopiesInv, Incoming
<1> QED BY <1>1, <1>2

LEMMA ComingKept ==
    ASSUME ComingInv, pc' = pc, call'.awaited = call.awaited, Served => Served',
           Within(toPeer, toPeer', {"data", "ping"}),
           Within(msgs \o toTester, msgs' \o toTester', {"ack", "pong"})
    PROVE  ComingInv'
<1>1. ASSUME pc = "ack"
      PROVE  \/ \E a \in DOMAIN toPeer' :
                  toPeer'[a].kind = "data" /\ Asks(toPeer'[a]) /\ toPeer'[a].seq = call.awaited
             \/ \E a \in DOMAIN (msgs' \o toTester') : (msgs' \o toTester')[a] = Ack(call.awaited)
             \/ Served'
  <2>1. Ack(call.awaited).kind = "ack"
    BY DEF Ack
  <2> QED BY <1>1, <2>1 DEF ComingInv, Within
<1>2. ASSUME pc = "alive"
      PROVE  \/ \E a \in DOMAIN toPeer' : toPeer'[a].kind = "ping"
             \/ \E a \in DOMAIN (msgs' \o toTester') : (msgs' \o toTester')[a].kind = "pong"
  BY <1>2 DEF ComingInv, Within
<1> QED BY <1>1, <1>2 DEF ComingInv

\* Nothing changes but what the client will find, which reads alike.
LEMMA ClientAlike ==
    ASSUME Types, ClientNow' = ClientNow, Alike(Incoming', Incoming)
    PROVE  ClientThen' = ClientThen /\ \A f \in Frames : Times(f, Incoming') = Times(f, Incoming)
  BY NowFacts DEF Alike, ClientThen, Incoming

LEMMA PeerAlike ==
    ASSUME Types, peer'.in = peer.in, peer'.served = peer.served, Alike(toPeer', toPeer)
    PROVE  PeerThen' = PeerThen
  BY NowFacts DEF Alike, PeerThen, PeerNow


--------------------------------------------------------------------------------
(***************************************************************************)
(* The steps of the transport keep Exact.                                  *)
(***************************************************************************)

\* Undisturbed, one fact at a time.
LEMMA Calmly ==
    Undisturbed <=>
        /\ pc \in {"idle", "send"} \union Waits /\ (pc \in Waits => call.left = Timeout) /\ ~peer.closed
        /\ Only(msgs, {"data", "ack", "pong"}) /\ Only(toTester, {"data", "ack", "pong"})
        /\ Only(toPeer, {"data", "ack", "ping"})
  BY DEF Undisturbed, Only

LEMMA ExactBegin ==
    ASSUME Types, Types', Exact, Begin
    PROVE  Exact'
<1> DEFINE m == Requests[sent + 1]
           frames == SegmentMessage(m, txSeq, BlockSize)
<1>1. /\ pc = "idle" /\ pc' = "send" /\ sent' = sent + 1 /\ sent + 1 \in 1..Len(Requests)
      /\ sent \in Nat /\ sent + 1 <= Len(Replies)
      /\ msgs' = Without(msgs, "ack") /\ upsets' = upsets
      /\ UNCHANGED <<txSeq, part, connected, results, failed, toPeer, toTester, peer>>
  <2>1. sent \in 0..Len(Requests) /\ Len(Requests) \in Nat /\ Len(Replies) = Len(Requests)
    BY TypesOpen, TalkFacts
  <2>2. pc = "idle" /\ pc' = "send" /\ sent < Len(Requests) /\ sent' = sent + 1
        /\ msgs' = Without(msgs, "ack") /\ upsets' = upsets
        /\ UNCHANGED <<txSeq, part, connected, results, failed, toPeer, toTester, peer>>
    BY DEF Begin, Calm
  <2> QED BY <2>1, <2>2
<1>2. /\ call'.job = frames /\ call'.due = Len(Replies[sent + 1])
      /\ call'.held = <<>> /\ call'.deferred = <<>>
  BY DEF Begin, NoCall
<1>3. Sendable(m) /\ BlockSize \in Nat /\ txSeq \in Seqs /\ Len(Replies[sent + 1]) \in Nat /\ Len(Replies[sent + 1]) >= 1
      /\ Replies[sent + 1] \in Seq(Seq(Bytes))
  <2> QED BY <1>1, TalkFacts, TypesOpen
<1>4. frames \in Seq(Frames) /\ Len(frames) = NumFrames(m) /\ NumFrames(m) \in Nat \ {0}
  <2> HIDE DEF m
  <2> QED BY <1>3, SegmentFacts
<1>5. call.job = <<>> /\ call.due = 0 /\ Len(call.held) = 0 /\ call.deferred = <<>>
      /\ Len(results) + call.due = Len(Answers(sent))
  BY <1>1 DEF Exact, DueInv, Asking
<1>6. call.held = <<>> /\ results \in Seq(Seq(Bytes)) /\ msgs \in Seq(Wireable) /\ toTester \in Seq(Wireable)
  <2>1. \A e \in Seq(Seq(Bytes)) : Len(e) = 0 => e = <<>>
    OBVIOUS
  <2> QED BY <1>5, <2>1, TypesOpen DEF AtMostOne
<1>7. Seen = msgs /\ Seen' = msgs' /\ msgs' \in Seq(Wireable)
  BY <1>1, <1>2, <1>5, <1>6, TypesOpen, WithoutFacts DEF Seen
<1>8. ClientNow' = ClientNow /\ PeerNow' = PeerNow /\ PeerThen' = PeerThen
  BY <1>1, <1>2, <1>6 DEF ClientNow, PeerNow, PeerThen
<1>9. Alike(Incoming', Incoming)
  <2>1. Alike(Without(msgs, "ack"), msgs) /\ Alike(toTester, toTester)
    BY <1>6, AlikeWithout, AlikeSame
  <2>2. Alike(Without(msgs, "ack") \o toTester, msgs \o toTester)
    BY <2>1, AlikeBoth
  <2> QED BY <1>1, <1>7, <2>2 DEF Incoming
<1>10. ClientThen' = ClientThen /\ \A f \in Frames : Times(f, Incoming') = Times(f, Incoming)
  BY <1>8, <1>9, ClientAlike
<1>11. Undisturbed'
  <2>1. Only(msgs, {"data", "ack", "pong"}) => Only(Without(msgs, "ack"), {"data", "ack", "pong"})
    BY <1>6, OnlyFacts
  <2> QED BY <1>1, <2>1 DEF Exact, Undisturbed, Waits, Only
<1>12. DueInv'
  <2>1. Len(results') + call'.due = Len(Answers(sent'))
    <3>1. Answers(sent + 1) = Answers(sent) \o Replies[sent + 1]
      BY <1>1, AnswersFacts
    <3>2. Answers(sent) \in Seq(Seq(Bytes))
      <4>1. sent + 0 = sent /\ 0 \in Nat /\ sent + 0 <= Len(Replies)
        BY <1>1, TalkFacts
      <4> QED BY <1>1, <4>1, AnswersMore
    <3>3. \A b, c : b \in Seq(Seq(Bytes)) /\ c \in Seq(Seq(Bytes)) => Len(b \o c) = Len(b) + Len(c)
      BY ConcatFacts
    <3>4. Len(Answers(sent + 1)) = Len(Answers(sent)) + Len(Replies[sent + 1])
      BY <1>3, <3>1, <3>2, <3>3
    <3>5. Len(results) = Len(Answers(sent))
      BY <1>5, <1>6
    <3> QED BY <1>1, <1>2, <3>4, <3>5 DEF Answers
  <2>2. Asking' /\ pc' # "alive" /\ pc' # "idle" /\ call'.due > 0 /\ sent' > 0 /\ Len(call'.held) = 0
    BY <1>1, <1>2, <1>3 DEF Asking
  <2> QED BY <1>1, <1>2, <2>1, <2>2 DEF DueInv
<1>13. RequestsInv'
  <2>1. /\ ~PeerThen.wrong /\ PeerThen.got = SubSeq(Requests, 1, sent)
        /\ Empty(PeerThen.at) /\ PeerThen.at.seq = txSeq
    BY <1>1, <1>5 DEF Exact, RequestsInv
  <2>2. OutSize' = NumFrames(m) /\ OutGone' = 0
    BY <1>1, <1>2, <1>4 DEF OutSize, OutGone
  <2>3. call'.job # <<>>
    <3>1. \A e \in Seq(Frames) : Len(e) # 0 => e # <<>>
      OBVIOUS
    <3> HIDE DEF frames
    <3> QED BY <1>2, <1>4, <3>1
  <2>4. OutFrames(txSeq)' = frames
    BY <1>1 DEF OutFrames
  <2>5. call'.job = SubSeq(OutFrames(txSeq)', OutGone' + 1, OutSize')
    <3>1. SubSeq(frames, 1, Len(frames)) = frames
      <4> HIDE DEF frames
      <4> QED BY <1>4, WholeWindow
    <3>2. OutGone' + 1 = 1 /\ OutSize' = Len(frames)
      BY <1>4, <2>2
    <3> QED BY <1>2, <2>4, <3>1, <3>2
  <2>6. Reading(PeerThen.at, m, 0)
    <3>1. Wire(m) \in Seq(Bytes) /\ Capacity * 0 = 0
      BY <1>3, WireFacts, FramesAssumption
    <3>2. SubSeq(Wire(m), 1, Capacity * 0) = <<>>
      BY <3>1, EmptyWindow
    <3> QED BY <2>1, <3>2 DEF Reading, Empty
  <2>7. PeerThen'.at.seq = (txSeq' + OutGone') % SeqNums
    <3>1. (txSeq + 0) % SeqNums = txSeq
      <4>1. 0 \in 0..SeqNums /\ txSeq + 0 = txSeq /\ txSeq < SeqNums
        BY <1>3, SeqNumsFact
      <4>2. (txSeq + 0) % SeqNums = IF txSeq + 0 < SeqNums THEN txSeq + 0 ELSE txSeq + 0 - SeqNums
        BY <1>3, <4>1, Onward
      <4> QED BY <4>1, <4>2
    <3> QED BY <1>1, <1>8, <2>1, <2>2, <3>1
  <2>8. sent' > 0 /\ OutGone' \in 0..OutSize' /\ sent' - 1 = sent
    BY <1>1, <1>4, <2>2
  <2>9. Reading(PeerThen.at, Requests[sent], OutGone)'
    BY <1>1, <1>8, <2>2, <2>6 DEF Reading
  <2> QED BY <1>1, <1>8, <2>1, <2>3, <2>5, <2>7, <2>8, <2>9 DEF RequestsInv
<1>14. RepliesInv'
  BY <1>1, <1>10, RepliesKept DEF Exact
<1>15. CopiesInv'
  BY <1>1, <1>10, CopiesKept DEF Exact
<1>16. ComingInv'
  BY <1>1 DEF ComingInv
<1> QED BY <1>11, <1>12, <1>13, <1>14, <1>15, <1>16 DEF Exact

\* The next frame of the request goes to the peer.
LEMMA ExactTransmit ==
    ASSUME Types, Types', Exact, Transmit
    PROVE  Exact'
<1> DEFINE f == Head(call.job)
           m == Requests[sent]
           n == OutGone
           s == txSeq
           w == OutFrames(txSeq)
<1>1. /\ pc = "send" /\ toPeer' = Append(toPeer, f) /\ pc' = (IF Asks(f) THEN "ack" ELSE "send")
      /\ call' = [Started(call) EXCEPT !.job = Tail(@), !.awaited = f.seq] /\ upsets' = upsets
      /\ UNCHANGED <<txSeq, part, msgs, connected, sent, results, failed, toTester, peer>>
  BY DEF Transmit, Send, Calm
<1>2. call \in Call /\ call.job \in Seq(Frames) /\ call.job # <<>> /\ call.due > 0 /\ sent \in 0..Len(Requests)
      /\ txSeq \in Seqs /\ toPeer \in Seq(Wireable)
  BY <1>1, TypesOpen
<1>3. /\ call'.job = Tail(call.job) /\ call'.awaited = f.seq /\ call'.due = call.due /\ call'.held = call.held
      /\ call'.deferred = call.deferred /\ call'.left = Timeout
  BY <1>1, <1>2 DEF Started, Call
<1>4. f \in Frames /\ f \in Wireable /\ f.kind = "data"
  BY <1>2, TailFacts, WireableFacts
<1>5. /\ sent > 0 /\ n \in 0..OutSize /\ OutSize = NumFrames(m)
      /\ call.job = SubSeq(w, n + 1, OutSize)
      /\ PeerThen.got = SubSeq(Requests, 1, sent - 1) /\ ~PeerThen.wrong
      /\ Reading(PeerThen.at, m, n) /\ PeerThen.at.seq = (s + n) % SeqNums
  BY <1>2 DEF Exact, RequestsInv, OutSize
<1>6. Sendable(m) /\ m \in Seq(Bytes) /\ BlockSize \in Nat /\ sent \in 1..Len(Requests) /\ Len(Requests) \in Nat
  <2>1. sent \in 1..Len(Requests)
    BY <1>2, <1>5
  <2> QED BY <2>1, TalkFacts
<1>7. w = SegmentMessage(m, s, BlockSize) /\ w \in Seq(Frames) /\ Len(w) = OutSize /\ OutSize \in Nat \ {0}
  <2>1. w = SegmentMessage(m, s, BlockSize)
    BY DEF OutFrames
  <2> HIDE DEF m
  <2> QED BY <1>2, <1>5, <1>6, <2>1, SegmentFacts
<1>8. n \in Nat /\ n < OutSize
  <2>1. n # OutSize
    <3>1. ASSUME n = OutSize PROVE FALSE
      <4>1. SubSeq(w, OutSize + 1, OutSize) = <<>>
        <5> HIDE DEF w
        <5> QED BY <1>7
      <4> HIDE DEF w, n
      <4> QED BY <1>2, <1>5, <3>1, <4>1
    <3> QED BY <3>1
  <2> HIDE DEF n
  <2> QED BY <1>5, <1>7, <2>1
<1>9. f = w[n + 1] /\ Tail(call.job) = SubSeq(w, (n + 1) + 1, OutSize) /\ Len(Tail(call.job)) = OutSize - (n + 1)
      /\ Len(Tail(call.job)) \in Nat
  <2>1. n + 1 \in 1..Len(w)
    <3> HIDE DEF w, n
    <3> QED BY <1>7, <1>8
  <2>2. LET v == SubSeq(w, n + 1, Len(w))
        IN  /\ v # <<>> /\ Len(v) = Len(w) - (n + 1) + 1 /\ Head(v) = w[n + 1]
            /\ Tail(v) = SubSeq(w, (n + 1) + 1, Len(w)) /\ Len(Tail(v)) = Len(v) - 1
    <3> HIDE DEF w, n
    <3> QED BY <1>7, <2>1, WindowShrinks
  <2>3. call.job = SubSeq(w, n + 1, Len(w)) /\ Len(w) = OutSize
    BY <1>5, <1>7
  <2> HIDE DEF w, n
  <2> QED BY <1>7, <1>8, <2>2, <2>3
<1>10. PeerThen \in Readers /\ PeerNow \in Readers /\ PeerThen = Behind(PeerNow, toPeer)
  BY NowFacts
<1> DEFINE next == Taken(PeerThen, f)
<1>11. PeerThen' = next
  BY <1>1, <1>2, <1>4, <1>10, BehindFacts DEF PeerThen, PeerNow
<1>12. /\ f.seq = PeerThen.at.seq /\ (next.wrong <=> PeerThen.wrong)
       /\ next.at.seq = After(f.seq) /\ After(f.seq) = (s + (n + 1)) % SeqNums
       /\ n + 1 # OutSize => Reading(next.at, m, n + 1) /\ next.got = PeerThen.got
       /\ n + 1 = OutSize => Empty(next.at) /\ Asks(f) /\ next.got = Append(PeerThen.got, m)
  <2>1. n < NumFrames(m) /\ f = SegmentMessage(m, s, BlockSize)[n + 1]
    BY <1>5, <1>7, <1>8, <1>9
  <2>2. f \in Frames /\ n \in Nat /\ s \in Seqs /\ BlockSize \in Nat /\ Sendable(m) /\ PeerThen.at.seq = (s + n) % SeqNums /\ Reading(PeerThen.at, m, n)
        /\ OutSize = NumFrames(m)
    BY <1>2, <1>4, <1>5, <1>6, <1>8
  <2> HIDE DEF m, n, s, f
  <2> QED BY <1>10, <2>1, <2>2, TakenNext
<1>13. OutSize' = OutSize /\ OutGone' = n + 1 /\ OutFrames(txSeq)' = w
  <2>1. OutSize' = OutSize /\ OutFrames(txSeq)' = w
    BY <1>1 DEF OutSize, OutFrames
  <2>2. OutGone' = OutSize - (OutSize - (n + 1))
    BY <1>3, <1>9, <2>1 DEF OutGone
  <2> HIDE DEF n, w
  <2> QED BY <1>7, <1>8, <2>1, <2>2
<1>14. RequestsInv'
  <2>1. ~next.wrong
    BY <1>5, <1>12
  <2>2. CASE n + 1 = OutSize
    <3>1. call'.job = <<>>
      <4>1. \A e \in Seq(Frames) : Len(e) = 0 => e = <<>>
        OBVIOUS
      <4>2. Len(call'.job) = 0 /\ call'.job \in Seq(Frames)
        <5>1. Tail(call.job) \in Seq(Frames)
          BY <1>2, TailFacts
        <5> DEFINE k == Len(Tail(call.job))
        <5>2. k = OutSize - (n + 1) /\ n + 1 = OutSize /\ OutSize \in Nat /\ n \in Nat
          BY <1>7, <1>8, <1>9, <2>2
        <5> HIDE DEF n, k
        <5>3. k = 0
          BY <5>2
        <5> QED BY <1>3, <5>1, <5>3 DEF k
      <4> QED BY <4>1, <4>2
    <3>2. Append(SubSeq(Requests, 1, sent - 1), Requests[sent]) = SubSeq(Requests, 1, sent)
      <4>1. Requests \in Seq(Seq(Bytes))
        BY TransportAssumption
      <4> DEFINE a == SubSeq(Requests, 1, sent - 1)
                 b == SubSeq(Requests, 1, sent)
                 c == Append(a, Requests[sent])
      <4>2. a \in Seq(Seq(Bytes)) /\ Len(a) = sent - 1 /\ \A i \in 1..(sent - 1) : a[i] = Requests[i]
        <5>1. sent - 1 \in Nat /\ 1 <= (sent - 1) + 1 /\ sent - 1 <= Len(Requests) /\ 1 \in Nat /\ 1 <= 1
              /\ (sent - 1) - 1 + 1 = sent - 1 /\ \A i \in 1..(sent - 1) : 1 + i - 1 = i
          BY <1>6
        <5> QED BY <4>1, <5>1, WindowFacts
      <4>3. b \in Seq(Seq(Bytes)) /\ Len(b) = sent /\ \A i \in 1..sent : b[i] = Requests[i]
        <5>1. sent \in Nat /\ 1 <= sent + 1 /\ sent <= Len(Requests) /\ 1 \in Nat /\ 1 <= 1
              /\ sent - 1 + 1 = sent /\ \A i \in 1..sent : 1 + i - 1 = i
          BY <1>6
        <5> QED BY <4>1, <5>1, WindowFacts
      <4>4. Requests[sent] \in Seq(Bytes) /\ sent \in Nat
        BY <1>6
      <4> HIDE DEF a, b
      <4>5. c \in Seq(Seq(Bytes)) /\ Len(c) = sent /\ (\A i \in 1..(sent - 1) : c[i] = a[i]) /\ c[sent] = Requests[sent]
        BY <4>2, <4>4
      <4> HIDE DEF c
      <4>6. ASSUME NEW i \in 1..sent PROVE c[i] = b[i]
        <5>1. CASE i = sent
          BY <4>3, <4>5, <5>1
        <5>2. CASE i # sent
          <6>1. i \in 1..(sent - 1)
            BY <4>4, <5>2
          <6> QED BY <4>2, <4>3, <4>5, <6>1
        <5> QED BY <5>1, <5>2
      <4>7. c = b
        BY <4>3, <4>5, <4>6, SameSequence
      <4> QED BY <4>7 DEF a, b, c
    <3>3. next.got = SubSeq(Requests, 1, sent) /\ Empty(next.at) /\ next.at.seq = After(f.seq) /\ Asks(f)
      BY <1>5, <1>12, <2>2, <3>2
    <3>4. pc' = "ack" /\ After(call'.awaited) = After(f.seq)
      BY <1>1, <1>3, <3>3
    <3> HIDE DEF next, f
    <3> QED BY <1>1, <1>11, <2>1, <3>1, <3>3, <3>4 DEF RequestsInv, Empty
  <2>3. CASE n + 1 # OutSize
    <3>1. call'.job # <<>>
      <4>1. \A e : e = <<>> => Len(e) = 0
        OBVIOUS
      <4>2. Len(call'.job) # 0
        <5> HIDE DEF n
        <5> QED BY <1>3, <1>7, <1>8, <1>9, <2>3
      <4> QED BY <4>1, <4>2
    <3>2. n + 1 \in 0..OutSize
      <4> HIDE DEF n
      <4> QED BY <1>7, <1>8
    <3>3. Reading(next.at, m, n + 1) /\ next.got = SubSeq(Requests, 1, sent - 1)
          /\ next.at.seq = (s + (n + 1)) % SeqNums
      BY <1>5, <1>12, <2>3
    <3>4. call'.job = SubSeq(w, (n + 1) + 1, OutSize)
      BY <1>3, <1>9
    <3>5. Reading(PeerThen.at, Requests[sent], OutGone)'
      <4> HIDE DEF next, n
      <4> QED BY <1>1, <1>11, <1>13, <3>3 DEF Reading
    <3> HIDE DEF next, n, w
    <3> QED BY <1>1, <1>5, <1>11, <1>13, <2>1, <3>1, <3>2, <3>3, <3>4, <3>5 DEF RequestsInv
  <2> QED BY <2>2, <2>3
<1>15. Undisturbed'
  <2>1. Only(toPeer, {"data", "ack", "ping"}) => Only(Append(toPeer, f), {"data", "ack", "ping"})
    BY <1>2, <1>4, OnlyFacts
  <2> QED BY <1>1, <1>3, <2>1 DEF Exact, Undisturbed, Waits, Only
<1>16. DueInv'
  BY <1>1, <1>2, <1>3 DEF Exact, DueInv, Asking, Answers
<1>17. ClientThen' = ClientThen /\ Incoming' = Incoming
  BY <1>1, <1>3 DEF ClientThen, ClientNow, Seen, Incoming
<1>18. RepliesInv'
  BY <1>1, <1>17, RepliesKept DEF Exact
<1>19. CopiesInv'
  <2>1. ASSUME NEW k \in Seqs PROVE Times(Ack(k), toPeer') = Times(Ack(k), toPeer)
    <3>1. f # Ack(k)
      BY <1>4 DEF Ack
    <3> QED BY <1>1, <1>2, <1>4, <3>1, TimesFacts
  <2> QED BY <1>1, <1>17, <2>1, CopiesKept DEF Exact
<1>20. ComingInv'
  <2>1. pc' = "ack" => toPeer'[Len(toPeer) + 1] = f /\ Asks(f) /\ f.seq = call'.awaited /\ Len(toPeer) + 1 \in DOMAIN toPeer'
    BY <1>1, <1>2, <1>3, <1>4, AppendFacts
  <2>2. pc' # "alive"
    BY <1>1
  <2> QED BY <1>4, <2>1, <2>2 DEF ComingInv
<1> QED BY <1>14, <1>15, <1>16, <1>18, <1>19, <1>20 DEF Exact


\* What arrives is found in the order in which it came.
LEMMA ExactPull ==
    ASSUME Types, Types', Exact, Pull
    PROVE  Exact'
<1> DEFINE K == {"data", "ack", "pong"}
<1>1. PICK n \in 1..Len(toTester) :
        msgs' = Without(SubSeq(toTester, 1, n), "setup") /\ toTester' = SubSeq(toTester, n + 1, Len(toTester))
  BY DEF Pull
<1>2. /\ msgs = <<>> /\ pc' = pc /\ upsets' = upsets
      /\ UNCHANGED <<txSeq, part, connected, call, sent, results, failed, toPeer, peer>>
  BY DEF Pull, Calm
<1>3. toTester \in Seq(Wireable) /\ Only(toTester, K) /\ toTester' \in Seq(Wireable) /\ call.deferred \in Seq(Wireable)
      /\ msgs' \in Seq(Wireable)
  BY TypesOpen, Calmly DEF Exact, Types, TypeOK
<1>4. /\ SubSeq(toTester, 1, n) \in Seq(Wireable) /\ SubSeq(toTester, n + 1, Len(toTester)) \in Seq(Wireable)
      /\ SubSeq(toTester, 1, n) \o SubSeq(toTester, n + 1, Len(toTester)) = toTester
  <2>1. Len(toTester) \in Nat
    BY <1>3
  <2>2. n \in Nat /\ n <= Len(toTester) /\ n + 1 \in 1..(Len(toTester) + 1) /\ 1 <= n + 1 /\ 1 \in Nat /\ 1 <= 1
    BY <1>1, <2>1
  <2>3. SubSeq(toTester, 1, n) \in Seq(Wireable)
    BY <1>3, <2>2, WindowFacts
  <2>4. SubSeq(toTester, n + 1, Len(toTester)) \in Seq(Wireable)
    BY <1>3, <2>2, SuffixFacts
  <2>5. Len(toTester) <= Len(toTester)
    BY <2>1
  <2>6. SubSeq(toTester, 1, n) \o SubSeq(toTester, n + 1, Len(toTester)) = SubSeq(toTester, 1, Len(toTester))
    BY <1>3, <2>1, <2>2, <2>5, WindowsJoin
  <2>7. SubSeq(toTester, 1, Len(toTester)) = toTester
    BY <1>3, WholeWindow
  <2> QED BY <2>3, <2>4, <2>6, <2>7
<1>5. Only(SubSeq(toTester, 1, n), K) /\ Only(SubSeq(toTester, n + 1, Len(toTester)), K)
  <2> DEFINE a == SubSeq(toTester, 1, n)
             b == SubSeq(toTester, n + 1, Len(toTester))
  <2>1. Only(a \o b, K) /\ a \in Seq(Wireable) /\ b \in Seq(Wireable)
    BY <1>3, <1>4
  <2> HIDE DEF a, b, K
  <2>2. Only(a, K) /\ Only(b, K)
    BY <2>1, OnlyFacts
  <2> QED BY <2>2 DEF a, b
<1>6. msgs' = SubSeq(toTester, 1, n)
  <2>1. "setup" \notin K
    OBVIOUS
  <2> HIDE DEF K
  <2> QED BY <1>1, <1>4, <1>5, <2>1, WithoutNone
<1>7. msgs' \o toTester' = toTester /\ msgs \o toTester = toTester
  <2>1. <<>> \o toTester = toTester
    BY <1>3
  <2> QED BY <1>1, <1>2, <1>4, <1>6, <2>1
<1>8. Incoming' = Incoming
  <2>1. (call.deferred \o msgs') \o toTester' = call.deferred \o (msgs' \o toTester')
    <3>1. \A a, b, c \in Seq(Wireable) : (a \o b) \o c = a \o (b \o c)
      OBVIOUS
    <3> QED BY <1>3, <3>1
  <2>2. (call.deferred \o <<>>) \o toTester = call.deferred \o toTester
    BY <1>3
  <2> QED BY <1>2, <1>7, <2>1, <2>2 DEF Incoming, Seen
<1>9. ClientThen' = ClientThen /\ PeerThen' = PeerThen
  BY <1>2, <1>8 DEF ClientThen, ClientNow, PeerThen, PeerNow, Incoming
<1>10. Undisturbed'
  BY <1>1, <1>2, <1>5, <1>6 DEF Exact, Undisturbed, Waits, Only
<1>11. DueInv'
  BY <1>2 DEF Exact, DueInv, Asking, Answers
<1>12. RequestsInv'
  BY <1>2, <1>9, RequestsKept DEF Exact
<1>13. RepliesInv'
  BY <1>2, <1>9, RepliesKept DEF Exact
<1>14. CopiesInv'
  BY <1>2, <1>8, CopiesKept DEF Exact
<1>15. ComingInv'
  BY <1>2, <1>7, ComingKept DEF Exact, Within, Served
<1> QED BY <1>10, <1>11, <1>12, <1>13, <1>14, <1>15 DEF Exact

\* The oldest frame is taken from the queue.
LEMMA MeetsFacts ==
    ASSUME Types, Undisturbed, NEW stage, NEW k, Meets(stage, k)
    PROVE  /\ msgs # <<>> /\ Head(msgs) \in Wireable /\ Head(msgs).kind = k /\ Tail(msgs) \in Seq(Wireable)
           /\ msgs \in Seq(Wireable) /\ toTester \in Seq(Wireable)
           /\ Only(Tail(msgs), {"data", "ack", "pong"}) /\ k \in {"data", "ack", "pong"}
           /\ msgs \o toTester \in Seq(Wireable) /\ msgs \o toTester # <<>>
           /\ Head(msgs \o toTester) = Head(msgs) /\ Tail(msgs \o toTester) = Tail(msgs) \o toTester
           /\ UNCHANGED <<toTester, peer>> /\ pc = stage
<1>1. /\ msgs # <<>> /\ Head(msgs).kind = k /\ UNCHANGED <<toTester, peer>> /\ pc = stage
      /\ msgs \in Seq(Wireable) /\ toTester \in Seq(Wireable)
  BY TypesOpen DEF Meets
<1>2. Head(msgs) \in Wireable /\ Tail(msgs) \in Seq(Wireable)
  BY <1>1, TailFacts
<1>3. Only(msgs, {"data", "ack", "pong"})
  BY Calmly
<1>4. Only(Tail(msgs), {"data", "ack", "pong"}) /\ Head(msgs).kind \in {"data", "ack", "pong"}
  BY <1>1, <1>3, OnlyFacts
<1>5. /\ msgs \o toTester \in Seq(Wireable) /\ msgs \o toTester # <<>>
      /\ Head(msgs \o toTester) = Head(msgs) /\ Tail(msgs \o toTester) = Tail(msgs) \o toTester
  BY <1>1
<1> QED BY <1>1, <1>2, <1>4, <1>5

\* A frame that is no data frame goes: the client reads the same.
LEMMA DroppedAlike ==
    ASSUME Types, Undisturbed, NEW stage, NEW k, Meets(stage, k), k # "data",
           NEW before \in Seq(Wireable)
    PROVE  Alike((before \o Tail(msgs)) \o toTester, (before \o msgs) \o toTester)
<1>1. /\ msgs # <<>> /\ Head(msgs).kind = k /\ msgs \in Seq(Wireable) /\ toTester \in Seq(Wireable)
  BY MeetsFacts
<1>2. Alike(Tail(msgs), msgs) /\ Alike(before, before) /\ Alike(toTester, toTester)
  BY <1>1, AlikeTail, AlikeSame
<1>3. Alike(before \o Tail(msgs), before \o msgs)
  BY <1>2, AlikeBoth
<1> QED BY <1>2, <1>3, AlikeBoth

LEMMA ExactIgnored ==
    ASSUME Types, Types', Exact, Ignored
    PROVE  Exact'
<1>1. /\ msgs' = Tail(msgs) /\ upsets' = upsets
      /\ UNCHANGED <<pc, txSeq, part, connected, call, sent, results, failed, toPeer, toTester, peer>>
      /\ \E stage, k : Meets(stage, k)
  BY DEF Ignored, Takes, Calm, Meets
<1>2. \/ Meets("ack", "pong")
      \/ Meets("ack", "ack") /\ Head(msgs).seq # After(call.awaited)
      \/ Meets("recv", "pong")
      \/ Meets("recv", "ack")
      \/ Meets("alive", "ack")
  BY DEF Ignored, Takes
<1>3. PICK stage, k : Meets(stage, k) /\ k # "data" /\ (stage = "alive" => k = "ack")
                      /\ (stage = "ack" /\ k = "ack" => Head(msgs).seq # After(call.awaited))
  BY <1>2
<1>4. Undisturbed /\ call.deferred \in Seq(Wireable) /\ pc = stage /\ Head(msgs).kind = k
  BY <1>3, TypesOpen DEF Exact, Meets
<1>5. Alike(Incoming', Incoming)
  BY <1>1, <1>3, <1>4, DroppedAlike DEF Incoming, Seen
<1>6. ClientNow' = ClientNow /\ PeerThen' = PeerThen
  BY <1>1 DEF ClientNow, PeerThen, PeerNow
<1>7. ClientThen' = ClientThen /\ \A f \in Frames : Times(f, Incoming') = Times(f, Incoming)
  BY <1>5, <1>6, ClientAlike
<1>8. Undisturbed'
  <2>1. Only(Tail(msgs), {"data", "ack", "pong"})
    BY <1>3, <1>4, MeetsFacts
  <2> QED BY <1>1, <1>4, <2>1 DEF Undisturbed, Waits, Only
<1>9. DueInv'
  BY <1>1 DEF Exact, DueInv, Asking, Answers
<1>10. RequestsInv'
  BY <1>1, <1>6, RequestsKept DEF Exact
<1>11. RepliesInv'
  BY <1>1, <1>7, RepliesKept DEF Exact
<1>12. CopiesInv'
  BY <1>1, <1>7, CopiesKept DEF Exact
<1>13. ComingInv'
  <2> DEFINE q == msgs \o toTester
  <2>1. q \in Seq(Wireable) /\ q # <<>> /\ Head(q) = Head(msgs) /\ msgs' \o toTester' = Tail(q)
    BY <1>1, <1>3, <1>4, MeetsFacts
  <2>2. DOMAIN q = 1..Len(q) /\ q[1] = Head(msgs) /\ Len(q) \in Nat /\ DOMAIN Tail(q) = 1..(Len(q) - 1)
        /\ \A i \in 1..(Len(q) - 1) : Tail(q)[i] = q[i + 1]
    <3> HIDE DEF q
    <3> QED BY <2>1, TailFacts
  <2>3. ASSUME NEW a \in DOMAIN q, q[a] # Head(msgs) PROVE \E b \in DOMAIN Tail(q) : Tail(q)[b] = q[a]
    <3>1. a # 1
      BY <2>2, <2>3
    <3>2. a - 1 \in DOMAIN Tail(q) /\ Tail(q)[a - 1] = q[a]
      <4> HIDE DEF q
      <4> QED BY <2>2, <2>3, <3>1
    <3> QED BY <3>2
  <2>4. CASE pc = "ack"
    <3>1. Head(msgs) # Ack(call.awaited)
      BY <1>3, <1>4, <2>4 DEF Ack
    <3>2. \A a \in DOMAIN q : q[a] = Ack(call.awaited) => \E b \in DOMAIN Tail(q) : Tail(q)[b] = Ack(call.awaited)
      BY <2>3, <3>1
    <3>3. \/ \E a \in DOMAIN toPeer :
               toPeer[a].kind = "data" /\ Asks(toPeer[a]) /\ toPeer[a].seq = call.awaited
          \/ \E a \in DOMAIN q : q[a] = Ack(call.awaited)
          \/ Served
      BY <2>4 DEF Exact, ComingInv
    <3> HIDE DEF q
    <3> QED BY <1>1, <2>1, <2>4, <3>2, <3>3 DEF ComingInv, Served
  <2>5. CASE pc = "alive"
    <3>1. Head(msgs).kind # "pong"
      BY <1>3, <1>4, <2>5
    <3>2. \A a \in DOMAIN q : q[a].kind = "pong" => \E b \in DOMAIN Tail(q) : Tail(q)[b].kind = "pong"
      BY <2>3, <3>1
    <3>3. \/ \E a \in DOMAIN toPeer : toPeer[a].kind = "ping"
          \/ \E a \in DOMAIN q : q[a].kind = "pong"
      BY <2>5 DEF Exact, ComingInv
    <3> HIDE DEF q
    <3> QED BY <1>1, <2>1, <2>5, <3>2, <3>3 DEF ComingInv
  <2> QED BY <1>1, <2>4, <2>5 DEF ComingInv
<1> QED BY <1>8, <1>9, <1>10, <1>11, <1>12, <1>13 DEF Exact

\* The wait for an ACK ends: whatever the queue is, the client reads the same.
LEMMA ExactAcknowledged ==
    ASSUME Types, Types', Exact, pc = "ack", Acknowledged, upsets' = upsets, UNCHANGED <<toTester, peer>>,
           Only(msgs', {"data", "ack", "pong"}), ClientThen' = ClientThen,
           \A f \in Frames : Times(f, Incoming') = Times(f, Incoming)
    PROVE  Exact'
<1>1. /\ pc' = (IF call.job = <<>> THEN "recv" ELSE "send")
      /\ txSeq' = (IF call.job = <<>> THEN After(call.awaited) ELSE txSeq)
      /\ UNCHANGED <<part, connected, sent, results, failed, toPeer, toTester, peer>>
  BY DEF Acknowledged
<1>2. call'.job = call.job /\ call'.due = call.due /\ call'.held = call.held /\ call'.deferred = call.deferred
      /\ call'.left = Timeout
  <2>1. call' = Started(call) /\ call \in Call
    BY TypesOpen DEF Acknowledged
  <2> QED BY <2>1, StartedType DEF Started, Call
<1>3. PeerThen' = PeerThen
  BY <1>1 DEF PeerThen, PeerNow
<1>4. Undisturbed'
  BY <1>1, <1>2 DEF Exact, Undisturbed, Waits, Only
<1>5. DueInv'
  BY <1>1, <1>2 DEF Exact, DueInv, Asking, Answers
<1>6. RequestsInv'
  BY <1>1, <1>2, <1>3, RequestsKept DEF Exact
<1>7. RepliesInv'
  BY <1>1, RepliesKept DEF Exact
<1>8. CopiesInv'
  BY <1>1, CopiesKept DEF Exact
<1>9. ComingInv'
  BY <1>1 DEF ComingInv
<1> QED BY <1>4, <1>5, <1>6, <1>7, <1>8, <1>9 DEF Exact

LEMMA ExactAckArrives ==
    ASSUME Types, Types', Exact, AckArrives
    PROVE  Exact'
<1>1. /\ Meets("ack", "ack") /\ msgs' = Tail(msgs) /\ Acknowledged /\ upsets' = upsets
  BY DEF AckArrives, Takes, Calm
<1>2. Undisturbed /\ pc = "ack" /\ UNCHANGED <<toTester, peer>> /\ Only(Tail(msgs), {"data", "ack", "pong"})
  BY <1>1, MeetsFacts DEF Exact
<1>3. call'.deferred = call.deferred /\ call'.held = call.held /\ UNCHANGED <<part, results>>
      /\ call.deferred \in Seq(Wireable)
  <2>1. call' = Started(call) /\ call \in Call
    BY <1>1, TypesOpen DEF Acknowledged
  <2> QED BY <1>1, <2>1, StartedType, TypesOpen DEF Acknowledged
<1>4. Alike(Incoming', Incoming)
  <2>1. "ack" # "data"
    OBVIOUS
  <2>2. Alike((call.deferred \o Tail(msgs)) \o toTester, (call.deferred \o msgs) \o toTester)
    BY <1>1, <1>2, <1>3, <2>1, DroppedAlike
  <2> QED BY <1>1, <1>2, <1>3, <2>2 DEF Incoming, Seen
<1>5. ClientNow' = ClientNow
  BY <1>3 DEF ClientNow
<1>6. ClientThen' = ClientThen /\ \A f \in Frames : Times(f, Incoming') = Times(f, Incoming)
  BY <1>4, <1>5, ClientAlike
<1> QED BY <1>1, <1>2, <1>6, ExactAcknowledged

\* The data frame that stands for the ACK is not overtaken.
LEMMA ExactAckByData ==
    ASSUME Types, Types', Exact, AckByData, spoilt' = FALSE
    PROVE  Exact'
<1> DEFINE h == Head(msgs)
           t == Tail(msgs)
           q == Append(t, h)
<1>1. /\ Meets("ack", "data") /\ msgs' = q /\ Acknowledged /\ upsets' = upsets
  BY DEF AckByData
<1>2. ~Overtaken
  <2>1. (spoilt \/ Overtaken) = FALSE
    BY DEF AckByData
  <2> QED BY <2>1, Zenon
<1>3. Undisturbed /\ pc = "ack" /\ UNCHANGED <<toTester, peer>> /\ Only(t, {"data", "ack", "pong"})
      /\ msgs # <<>> /\ h \in Wireable /\ h.kind = "data" /\ t \in Seq(Wireable)
      /\ msgs \in Seq(Wireable) /\ toTester \in Seq(Wireable)
  BY <1>1, MeetsFacts DEF Exact
<1>4. call'.deferred = call.deferred /\ call'.held = call.held /\ UNCHANGED <<part, results>>
      /\ call.deferred = <<>>
  <2>1. call' = Started(call) /\ call \in Call
    BY <1>1, TypesOpen DEF Acknowledged
  <2>2. call.deferred = <<>>
    BY <1>3 DEF Exact, DueInv
  <2> QED BY <1>1, <2>1, <2>2, StartedType DEF Acknowledged
<1>5. ClientNow' = ClientNow /\ Incoming = msgs \o toTester /\ Incoming' = q \o toTester
  <2>1. <<>> \o msgs = msgs /\ <<>> \o q = q
    BY <1>3
  <2> QED BY <1>1, <1>3, <1>4, <2>1 DEF ClientNow, Incoming, Seen
<1>6. h \in Frames /\ q \in Seq(Wireable)
  BY <1>3, WireableFacts
<1>7. ClientNow \in Readers /\ ClientThen = Behind(ClientNow, Incoming)
  BY NowFacts
<1>8. ~Behind(ClientNow, msgs).wrong
  <2>1. ClientThen = Behind(Behind(ClientNow, msgs), toTester) /\ Behind(ClientNow, msgs) \in Readers
    BY <1>3, <1>5, <1>7, BehindFacts
  <2>2. Behind(ClientNow, msgs).wrong => ClientThen.wrong
    BY <1>3, <2>1, BehindGrows
  <2> QED BY <2>2 DEF Exact, RepliesInv
<1>9. \A i \in 1..Len(t) : t[i].kind = "data" => t[i] = h
  <2>1. \A i \in 1..Len(t) : t[i] \in Range(t)
    <3>1. DOMAIN t = 1..Len(t)
      BY <1>3
    <3> QED BY <3>1 DEF Range
  <2> QED BY <1>2, <2>1 DEF Overtaken
<1>10. Behind(ClientNow, q) = Behind(ClientNow, msgs)
  BY <1>3, <1>6, <1>7, <1>8, <1>9, BehindRotate
<1>11. ClientThen' = ClientThen
  <2>1. Behind(ClientNow, q \o toTester) = Behind(Behind(ClientNow, q), toTester)
        /\ Behind(ClientNow, msgs \o toTester) = Behind(Behind(ClientNow, msgs), toTester)
    <3> HIDE DEF q
    <3>1. \A x \in Seq(Wireable) : Behind(ClientNow, x \o toTester) = Behind(Behind(ClientNow, x), toTester)
      BY <1>3, <1>7, BehindFacts
    <3> QED BY <1>3, <1>6, <3>1
  <2>2. ClientThen' = Behind(ClientNow', Incoming')
    BY DEF ClientThen, Incoming
  <2> QED BY <1>5, <1>7, <1>10, <2>1, <2>2
<1>12. ASSUME NEW f \in Frames PROVE Times(f, Incoming') = Times(f, Incoming)
  <2>1. /\ Times(f, q) = (IF h = f THEN Times(f, t) + 1 ELSE Times(f, t))
        /\ Times(f, msgs) = (IF h = f THEN Times(f, t) + 1 ELSE Times(f, t))
    BY <1>3, TimesFacts
  <2>2. /\ Times(f, q \o toTester) = Times(f, q) + Times(f, toTester)
        /\ Times(f, msgs \o toTester) = Times(f, msgs) + Times(f, toTester)
    BY <1>3, <1>6, TimesFacts
  <2> QED BY <1>5, <2>1, <2>2
<1>13. Only(q, {"data", "ack", "pong"})
  <2> HIDE DEF t, h
  <2>1. h.kind \in {"data", "ack", "pong"}
    BY <1>3
  <2> QED BY <1>3, <2>1, OnlyFacts
<1> HIDE DEF q, t, h
<1> QED BY <1>1, <1>3, <1>11, <1>12, <1>13, ExactAcknowledged


\* The call returns a message, and goes on or is done.
LEMMA ReturnedCall ==
    ASSUME Types, DueInv, pc \in {"recv", "alive"}, sent' = sent, NEW m, NEW rest, Returned(m, rest)
    PROVE  /\ results' = Append(results, m) /\ msgs' = rest /\ pc' \in {"idle", "recv"}
           /\ call.job = <<>> /\ call'.job = <<>> /\ call'.held = <<>> /\ call'.deferred = <<>>
           /\ pc' = "recv" => call'.left = Timeout
           /\ DueInv'
<1>1. call \in Call /\ call.due \in Nat /\ call.due > 0 /\ results \in Seq(Seq(Bytes)) /\ sent \in Nat
  BY TypesOpen
<1>2. call.job = <<>> /\ Len(results) + call.due = Len(Answers(sent)) /\ sent > 0
  BY <1>1 DEF DueInv, Asking
<1>3. results' = Append(results, m) /\ msgs' = rest /\ pc' = (IF call.due = 1 THEN "idle" ELSE "recv")
  BY DEF Returned
<1>4. call'.job = <<>> /\ call'.due = call.due - 1 /\ call'.held = <<>> /\ call'.deferred = <<>>
      /\ (call.due # 1 => call'.left = Timeout)
  <2>1. CASE call.due = 1
    <3>1. call' = NoCall
      BY <2>1 DEF Returned
    <3> QED BY <2>1, <3>1 DEF NoCall
  <2>2. CASE call.due # 1
    <3>1. call' = Started([call EXCEPT !.due = @ - 1, !.held = <<>>, !.deferred = <<>>])
      BY <2>2 DEF Returned
    <3> QED BY <1>1, <1>2, <2>2, <3>1 DEF Started, Call
  <2> QED BY <2>1, <2>2
<1>5. Len(results') = Len(results) + 1 /\ Len(results) \in Nat
  BY <1>1, <1>3
<1>6. DueInv'
  <2>1. call'.due = 0 <=> pc' = "idle"
    BY <1>1, <1>3, <1>4
  <2>2. Len(results') + call'.due = Len(Answers(sent))
    <3> DEFINE a == Len(results)
               b == Len(results')
               c == Len(Answers(sent))
               d == call.due
               e == call'.due
    <3>1. b = a + 1 /\ a \in Nat /\ e = d - 1 /\ a + d = c /\ d \in Nat
      BY <1>1, <1>2, <1>4, <1>5
    <3> HIDE DEF a, b, c, d, e
    <3>2. b + e = c
      BY <3>1
    <3> QED BY <3>2 DEF b, c, e
  <2>3. ~Asking' /\ pc' # "alive" /\ Len(call'.held) = 0
    BY <1>3, <1>4 DEF Asking
  <2> QED BY <1>2, <1>3, <1>4, <2>1, <2>2, <2>3 DEF DueInv, Answers
<1> QED BY <1>2, <1>3, <1>4, <1>6

\* What recv does to the call, with a frame that is not wrong.
LEMMA RecvDataCall ==
    ASSUME Types, Exact, RecvData, ~Wrong(part, Head(msgs))
    PROVE  LET f == Head(msgs)
               d == Delivered(part, f)
           IN  /\ part' = Fed(part, f) /\ msgs' = Tail(msgs) /\ UNCHANGED <<txSeq, sent, toTester, peer, upsets>>
               /\ d \in AtMostOne(Seq(Bytes)) /\ call'.deferred = <<>> /\ call.held = <<>>
               /\ results' \o call'.held = results \o d
               /\ pc' \in {"idle", "recv", "alive"} /\ (pc' \in Waits => call'.left = Timeout)
               /\ call'.job = <<>> /\ call.job = <<>> /\ DueInv'
               /\ \E w, p \in Seq(Wireable) :
                    /\ toPeer' = (toPeer \o w) \o p /\ Only(w, {"ack"}) /\ Only(p, {"ping"})
                    /\ Asks(f) => w = <<Ack(f.seq)>>
                    /\ pc' = "alive" => p # <<>>
<1> DEFINE f == Head(msgs)
           d == Delivered(part, f)
           answer == IF Asks(f) THEN <<Ack(f.seq)>> ELSE <<>>
<1>1. /\ Meets("recv", "data") /\ upsets' = upsets
      /\ \/ /\ d = <<>>
            /\ part' = Fed(part, f) /\ toPeer' = toPeer \o answer
            /\ msgs' = Tail(msgs)
            /\ UNCHANGED <<pc, txSeq, call, sent, results, failed>>
         \/ /\ d # <<>> /\ ~Heartbeat
            /\ part' = Fed(part, f) /\ toPeer' = toPeer \o answer
            /\ Returned(d[1], Tail(msgs))
            /\ UNCHANGED <<txSeq, sent, failed>>
         \/ /\ d # <<>> /\ Heartbeat
            /\ part' = Fed(part, f) /\ toPeer' = toPeer \o answer \o <<Control("ping")>>
            /\ msgs' = Tail(msgs) /\ pc' = "alive"
            /\ call' = [Started(call) EXCEPT !.held = d]
            /\ UNCHANGED <<txSeq, sent, results, failed>>
  BY DEF RecvData, Takes, Calm
<1>2. /\ pc = "recv" /\ f \in Wireable /\ f.kind = "data" /\ UNCHANGED <<toTester, peer>> /\ f \in Frames
      /\ toPeer \in Seq(Wireable) /\ call \in Call /\ results \in Seq(Seq(Bytes)) /\ part \in Reassembler
  BY <1>1, MeetsFacts, WireableFacts, TypesOpen DEF Exact
<1>3. d \in AtMostOne(Seq(Bytes)) /\ f.seq \in Seqs
  BY <1>2, FedFacts, WireableFacts
<1>4. call.deferred = <<>> /\ call.held = <<>> /\ call.job = <<>> /\ call.left = Timeout /\ call.due # 0
  <2>1. \A e \in Seq(Seq(Bytes)) : Len(e) = 0 => e = <<>>
    OBVIOUS
  <2>2. call.held \in Seq(Seq(Bytes))
    BY TypesOpen DEF AtMostOne
  <2> QED BY <1>2, <2>1, <2>2 DEF Exact, DueInv, Undisturbed, Waits, Asking
<1>5. answer \in Seq(Wireable) /\ Only(answer, {"ack"}) /\ (Asks(f) => answer = <<Ack(f.seq)>>)
  <2>1. Ack(f.seq) \in Wireable /\ Ack(f.seq).kind = "ack"
    BY <1>3, WireableFacts DEF Ack
  <2> DEFINE a == Ack(f.seq)
  <2>2. <<a>> \in Seq(Wireable) /\ Only(<<a>>, {"ack"})
    <3> HIDE DEF a
    <3> QED BY <2>1 DEF Only, a
  <2>3. <<>> \in Seq(Wireable) /\ Only(<<>>, {"ack"})
    BY DEF Only
  <2> QED BY <2>2, <2>3
<1> DEFINE none == CHOOSE e : e = <<>>
<1>6. none = <<>> /\ none \in Seq(Wireable) /\ Only(none, {"ping"})
  <2>1. none = <<>>
    OBVIOUS
  <2> HIDE DEF none
  <2>2. none \in Seq(Wireable)
    BY <2>1
  <2> QED BY <2>1, <2>2, OnlyFacts
<1>7. \A q \in Seq(Wireable) : q \o none = q
  BY <1>6
<1> HIDE DEF answer, none
<1>8. ASSUME d = <<>>
      PROVE  /\ part' = Fed(part, f) /\ msgs' = Tail(msgs) /\ UNCHANGED <<txSeq, sent>> /\ call'.deferred = <<>>
             /\ results' \o call'.held = results \o d
             /\ pc' = "recv" /\ call'.left = Timeout /\ call'.job = <<>> /\ DueInv'
             /\ toPeer' = (toPeer \o answer) \o none
  <2>1. /\ part' = Fed(part, f) /\ toPeer' = toPeer \o answer
        /\ msgs' = Tail(msgs) /\ UNCHANGED <<pc, txSeq, call, sent, results, failed>>
    <3> HIDE DEF d
    <3> QED BY <1>1, <1>8
  <2>2. DueInv'
    BY <2>1 DEF Exact, DueInv, Asking, Answers
  <2>3. toPeer \o answer \in Seq(Wireable)
    BY <1>2, <1>5
  <2>4. results' \o call'.held = results \o d
    <3> HIDE DEF d
    <3> QED BY <1>4, <1>8, <2>1
  <2> HIDE DEF d
  <2> QED BY <1>2, <1>4, <1>7, <2>1, <2>2, <2>3, <2>4
<1>9. d # <<>> => d[1] \in Seq(Bytes) /\ d = <<d[1]>>
  <2>1. ASSUME NEW S, NEW e \in Seq(S), Len(e) <= 1, e # <<>> PROVE e[1] \in S /\ e = <<e[1]>>
    <3> HIDE DEF d, f
    <3>1. Len(e) = 1
      <4>1. Len(e) \in Nat \ {0}
        BY <2>1, TailFacts
      <4> QED BY <2>1, <4>1
    <3>2. e[1] \in S
      BY <3>1
    <3> QED BY <3>1, <3>2
  <2>2. d \in Seq(Seq(Bytes)) /\ Len(d) <= 1
    BY <1>3 DEF AtMostOne
  <2> HIDE DEF d
  <2> QED BY <2>1, <2>2
<1>10. ASSUME d # <<>>, ~Heartbeat
       PROVE  /\ part' = Fed(part, f) /\ msgs' = Tail(msgs) /\ UNCHANGED <<txSeq, sent>> /\ call'.deferred = <<>>
              /\ results' \o call'.held = results \o d
              /\ pc' \in {"idle", "recv"} /\ (pc' \in Waits => call'.left = Timeout) /\ call'.job = <<>> /\ DueInv'
              /\ toPeer' = (toPeer \o answer) \o none
  <2>1. /\ part' = Fed(part, f) /\ toPeer' = toPeer \o answer
        /\ Returned(d[1], Tail(msgs)) /\ UNCHANGED <<txSeq, sent, failed>>
    <3> HIDE DEF d
    <3> QED BY <1>1, <1>10
  <2>2. /\ results' = Append(results, d[1]) /\ msgs' = Tail(msgs) /\ pc' \in {"idle", "recv"}
        /\ call'.job = <<>> /\ call'.held = <<>> /\ call'.deferred = <<>>
        /\ pc' = "recv" => call'.left = Timeout
        /\ DueInv'
    <3>1. DueInv /\ sent' = sent /\ pc \in {"recv", "alive"}
      BY <1>2, <2>1 DEF Exact
    <3> HIDE DEF d
    <3> QED BY <2>1, <3>1, ReturnedCall
  <2>3. toPeer \o answer \in Seq(Wireable)
    BY <1>2, <1>5
  <2>4. results' \o call'.held = results \o d
    <3>1. \A x \in Seq(Bytes) : Append(results, x) \o <<>> = results \o <<x>>
      BY <1>2
    <3> HIDE DEF d
    <3> QED BY <1>9, <1>10, <2>2, <3>1
  <2> HIDE DEF d
  <2> QED BY <1>7, <2>1, <2>2, <2>3, <2>4 DEF Waits
<1>11. Control("ping") \in Wireable /\ Control("ping").kind = "ping"
  BY WireableFacts DEF Control
<1> DEFINE ping == <<Control("ping")>>
<1>12. ping \in Seq(Wireable) /\ Only(ping, {"ping"}) /\ ping # <<>>
  <2> DEFINE a == Control("ping")
  <2>1. a \in Wireable /\ a.kind = "ping"
    BY <1>11
  <2> HIDE DEF a
  <2> QED BY <2>1 DEF Only, a
<1>13. ASSUME d # <<>>, Heartbeat
       PROVE  /\ part' = Fed(part, f) /\ msgs' = Tail(msgs) /\ UNCHANGED <<txSeq, sent>> /\ call'.deferred = <<>>
              /\ results' \o call'.held = results \o d
              /\ pc' = "alive" /\ call'.left = Timeout /\ call'.job = <<>> /\ DueInv'
              /\ toPeer' = (toPeer \o answer) \o ping
  <2>1. /\ part' = Fed(part, f) /\ toPeer' = toPeer \o answer \o ping
        /\ msgs' = Tail(msgs) /\ pc' = "alive"
        /\ call' = [Started(call) EXCEPT !.held = d]
        /\ UNCHANGED <<txSeq, sent, results, failed>>
    <3> HIDE DEF d, ping
    <3> QED BY <1>1, <1>13 DEF ping
  <2>2. /\ call'.held = d /\ call'.job = call.job /\ call'.due = call.due /\ call'.deferred = call.deferred
        /\ call'.left = Timeout
    <3> HIDE DEF d
    <3> QED BY <1>2, <2>1 DEF Started, Call
  <2>3. Len(d) = 1
    <3> HIDE DEF d
    <3>1. d = <<d[1]>>
      BY <1>9, <1>13
    <3>2. Len(<<d[1]>>) = 1
      OBVIOUS
    <3> QED BY <3>1, <3>2
  <2>4. DueInv'
    <3> HIDE DEF d
    <3> QED BY <1>2, <1>4, <2>1, <2>2, <2>3 DEF Exact, DueInv, Asking, Answers
  <2> HIDE DEF d, ping
  <2> QED BY <1>4, <2>1, <2>2, <2>4
<1>14. \E w, p \in Seq(Wireable) :
         /\ toPeer' = (toPeer \o w) \o p /\ Only(w, {"ack"}) /\ Only(p, {"ping"})
         /\ Asks(f) => w = <<Ack(f.seq)>>
         /\ pc' = "alive" => p # <<>>
  <2>1. CASE d = <<>> \/ ~Heartbeat
    <3>1. toPeer' = (toPeer \o answer) \o none /\ pc' # "alive"
      <4> HIDE DEF d
      <4> QED BY <1>8, <1>10, <2>1
    <3> HIDE DEF d
    <3> QED BY <1>5, <1>6, <3>1
  <2>2. CASE d # <<>> /\ Heartbeat
    <3>1. toPeer' = (toPeer \o answer) \o ping
      <4> HIDE DEF d, ping
      <4> QED BY <1>13, <2>2
    <3> HIDE DEF d, ping
    <3> QED BY <1>5, <1>12, <3>1
  <2> QED BY <2>1, <2>2
<1>15. /\ part' = Fed(part, f) /\ msgs' = Tail(msgs) /\ UNCHANGED <<txSeq, sent>> /\ call'.deferred = <<>>
       /\ results' \o call'.held = results \o d
       /\ pc' \in {"idle", "recv", "alive"} /\ (pc' \in Waits => call'.left = Timeout) /\ call'.job = <<>> /\ DueInv'
  <2> HIDE DEF d, ping
  <2> QED BY <1>8, <1>10, <1>13
<1> HIDE DEF d
<1> QED BY <1>1, <1>2, <1>3, <1>4, <1>14, <1>15 DEF d

\* The client reads the frame that stands first.
LEMMA ClientReads ==
    ASSUME Types, Exact, pc = "recv", msgs # <<>>, Head(msgs).kind = "data"
    PROVE  LET f == Head(msgs)
           IN  /\ f \in Frames /\ Tail(msgs) \o toTester \in Seq(Wireable)
               /\ ~Wrong(part, f) /\ ClientThen = Behind(Taken(ClientNow, f), Tail(msgs) \o toTester)
               /\ Taken(ClientNow, f) = [at |-> Fed(part, f), got |-> results \o Delivered(part, f), wrong |-> FALSE]
               /\ \A x : Times(x, Incoming) = IF f = x THEN Times(x, Tail(msgs) \o toTester) + 1
                                                        ELSE Times(x, Tail(msgs) \o toTester)
<1> DEFINE f == Head(msgs)
           q == msgs \o toTester
           t == Taken(ClientNow, f)
<1>1. msgs \in Seq(Wireable) /\ toTester \in Seq(Wireable) /\ call.held \in Seq(Seq(Bytes)) /\ results \in Seq(Seq(Bytes))
  BY TypesOpen DEF AtMostOne
<1>2. q \in Seq(Wireable) /\ q # <<>> /\ Head(q) = f /\ Tail(q) = Tail(msgs) \o toTester
      /\ f \in Wireable /\ Tail(q) \in Seq(Wireable)
  <2>1. f \in Wireable /\ Tail(msgs) \in Seq(Wireable)
    BY <1>1, TailFacts
  <2> QED BY <1>1, <2>1
<1>3. call.deferred = <<>> /\ call.held = <<>>
  <2>1. \A e \in Seq(Seq(Bytes)) : Len(e) = 0 => e = <<>>
    OBVIOUS
  <2> QED BY <1>1, <2>1 DEF Exact, DueInv
<1>4. Incoming = q
  <2>1. <<>> \o msgs = msgs
    BY <1>1
  <2> QED BY <1>3, <2>1 DEF Incoming, Seen
<1>5. f \in Frames
  BY <1>2, WireableFacts
<1>6. /\ ClientNow \in Readers /\ ClientThen = Behind(ClientNow, q) /\ ~ClientNow.wrong
      /\ ClientNow.at = part /\ ClientNow.got = results
  <2>1. results \o <<>> = results
    BY <1>1
  <2> QED BY <1>3, <1>4, <2>1, NowFacts
<1>7. t \in Readers /\ ClientThen = Behind(t, Tail(q))
  <2> HIDE DEF q
  <2> QED BY <1>2, <1>6, TakenType, BehindFacts
<1>8. t = [at |-> Fed(part, f), got |-> results \o Delivered(part, f), wrong |-> ClientNow.wrong \/ Wrong(part, f)]
  BY <1>6 DEF Taken
<1>9. t.wrong => ClientThen.wrong
  <2> HIDE DEF q, t
  <2> QED BY <1>2, <1>7, BehindGrows
<1>10. ~Wrong(part, f)
  <2>1. t.wrong = (ClientNow.wrong \/ Wrong(part, f))
    <3>1. \A x, a, g, w : x = [at |-> a, got |-> g, wrong |-> w] => x.wrong = w
      OBVIOUS
    <3> HIDE DEF t, f
    <3> QED BY <1>8, <3>1, Zenon
  <2>2. ~ClientThen.wrong
    BY DEF Exact, RepliesInv
  <2> HIDE DEF t
  <2> QED BY <1>9, <2>1, <2>2, Zenon
<1>11. t = [at |-> Fed(part, f), got |-> results \o Delivered(part, f), wrong |-> FALSE]
  <2>1. (ClientNow.wrong \/ Wrong(part, f)) = FALSE
    BY <1>6, <1>10, Zenon
  <2> HIDE DEF t
  <2> QED BY <1>8, <2>1
<1>12. \A x : Times(x, q) = IF f = x THEN Times(x, Tail(q)) + 1 ELSE Times(x, Tail(q))
  <2> HIDE DEF q
  <2> QED BY <1>2, TimesFacts
<1> HIDE DEF q, t
<1> QED BY <1>2, <1>4, <1>5, <1>7, <1>10, <1>11, <1>12 DEF t

LEMMA ExactRecvData ==
    ASSUME Types, Types', Exact, RecvData
    PROVE  Exact'
<1> DEFINE f == Head(msgs)
           d == Delivered(part, f)
           rest == Tail(msgs) \o toTester
<1>1. Meets("recv", "data") /\ pc = "recv" /\ msgs # <<>> /\ f.kind = "data" /\ Only(Tail(msgs), {"data", "ack", "pong"})
      /\ Tail(msgs) \in Seq(Wireable) /\ toTester \in Seq(Wireable)
  <2>1. Meets("recv", "data")
    BY DEF RecvData, Takes
  <2> QED BY <2>1, MeetsFacts DEF Exact
<1>2. /\ f \in Frames /\ rest \in Seq(Wireable)
      /\ ~Wrong(part, f) /\ ClientThen = Behind(Taken(ClientNow, f), rest)
      /\ Taken(ClientNow, f) = [at |-> Fed(part, f), got |-> results \o d, wrong |-> FALSE]
      /\ \A x : Times(x, Incoming) = IF f = x THEN Times(x, rest) + 1 ELSE Times(x, rest)
  BY <1>1, ClientReads
<1>3. /\ part' = Fed(part, f) /\ msgs' = Tail(msgs) /\ UNCHANGED <<txSeq, sent, toTester, peer, upsets>>
      /\ call'.deferred = <<>> /\ call.held = <<>>
      /\ results' \o call'.held = results \o d
      /\ pc' \in {"idle", "recv", "alive"} /\ (pc' \in Waits => call'.left = Timeout)
      /\ call'.job = <<>> /\ call.job = <<>> /\ DueInv'
  BY <1>2, RecvDataCall
<1>4. PICK w \in Seq(Wireable), p \in Seq(Wireable) :
        /\ toPeer' = (toPeer \o w) \o p /\ Only(w, {"ack"}) /\ Only(p, {"ping"})
        /\ Asks(f) => w = <<Ack(f.seq)>>
        /\ pc' = "alive" => p # <<>>
  BY <1>2, RecvDataCall
<1>5. Incoming' = rest
  <2>1. <<>> \o Tail(msgs) = Tail(msgs)
    BY <1>1
  <2> QED BY <1>3, <2>1 DEF Incoming, Seen
<1>6. ClientNow' = Taken(ClientNow, f)
  BY <1>2, <1>3 DEF ClientNow
<1>7. ClientThen' = ClientThen
  <2>1. ClientThen' = Behind(ClientNow', Incoming')
    BY DEF ClientThen, Incoming
  <2> QED BY <1>2, <1>5, <1>6, <2>1
<1>8. toPeer \in Seq(Wireable) /\ toPeer \o w \in Seq(Wireable)
  <2>1. toPeer \in Seq(Wireable)
    BY TypesOpen
  <2> QED BY <1>4, <2>1
<1>9. PeerNow \in Readers /\ PeerNow' = PeerNow /\ PeerThen = Behind(PeerNow, toPeer) /\ PeerThen \in Readers
  BY <1>3, NowFacts DEF PeerNow
<1>10. PeerThen' = PeerThen
  <2>1. ASSUME NEW reader \in Readers, NEW q \in Seq(Wireable), NEW k, k # "data", Only(q, {k})
        PROVE  Behind(reader, q) = reader
    <3> DEFINE P == {reader}
    <3>1. reader \in P
      OBVIOUS
    <3>2. ASSUME NEW v \in Readers, NEW i \in 1..Len(q), v \in P PROVE Takings[<<v, q[i]>>] \in P
      <4>1. q[i].kind = k /\ q[i] \in Wireable
        <5>1. i \in DOMAIN q
          BY <2>1, <3>2
        <5> QED BY <2>1, <5>1 DEF Only
      <4>2. Takings[<<v, q[i]>>] = Taken(v, q[i])
        BY <3>2, <4>1, TakingsFact
      <4>3. Taken(v, q[i]) = v
        BY <2>1, <4>1 DEF Taken
      <4> QED BY <3>2, <4>2, <4>3
    <3>3. Steps(Takings, Readers, Wireable)
      BY TakingsFact
    <3> HIDE DEF P
    <3>4. Folded(Takings, reader, q) \in P
      BY <2>1, <3>1, <3>2, <3>3, FoldKeeps
    <3> QED BY <3>4 DEF P, Behind
  <2>2. Behind(PeerNow, toPeer \o w) = Behind(Behind(PeerNow, toPeer), w)
        /\ Behind(PeerNow, (toPeer \o w) \o p) = Behind(Behind(PeerNow, toPeer \o w), p)
    <3>1. \A x, y \in Seq(Wireable) : Behind(PeerNow, x \o y) = Behind(Behind(PeerNow, x), y)
      BY <1>9, BehindFacts
    <3> QED BY <1>4, <1>8, <3>1
  <2>3. Behind(PeerThen, w) = PeerThen /\ Behind(PeerThen, p) = PeerThen
    BY <1>4, <1>9, <2>1
  <2>4. PeerThen' = Behind(PeerNow', toPeer')
    BY DEF PeerThen
  <2> QED BY <1>4, <1>9, <2>2, <2>3, <2>4
<1>11. Undisturbed'
  <2> DEFINE K == {"data", "ack", "ping"}
  <2>1. Only(toPeer', K)
    <3>1. Only(toPeer, K)
      BY Calmly DEF Exact
    <3>2. Only(w, K) /\ Only(p, K)
      BY <1>4 DEF Only
    <3> HIDE DEF K
    <3>3. Only(toPeer \o w, K)
      BY <1>4, <1>8, <3>1, <3>2, OnlyFacts
    <3>4. Only((toPeer \o w) \o p, K)
      BY <1>4, <1>8, <3>2, <3>3, OnlyFacts
    <3> QED BY <1>4, <3>4
  <2> QED BY <1>1, <1>3, <2>1 DEF Exact, Undisturbed, Waits, Only
<1>12. RequestsInv'
  <2>1. pc # "ack" /\ pc' # "ack"
    BY <1>1, <1>3
  <2> HIDE DEF f, d
  <2> QED BY <1>3, <1>10, <2>1, RequestsKept DEF Exact
<1>13. RepliesInv'
  <2> HIDE DEF f, d
  <2> QED BY <1>3, <1>7, RepliesKept DEF Exact
<1>14. CopiesInv'
  <2>1. CASE peer.await = <<>>
    BY <1>3, <2>1 DEF Exact, CopiesInv
  <2>2. CASE peer.await # <<>>
    <3> DEFINE g == peer.await[1]
               a == Ack(g.seq)
    <3>1. g \in Frames /\ a \in Wireable /\ a.kind = "ack"
      BY <2>2, AwaitFacts
    <3>2. Times(g, rest) \in Nat /\ Times(a, toPeer) \in Nat /\ Times(a, w) \in Nat /\ Times(a, p) \in Nat
      BY <1>2, <1>4, <1>8, TimesFacts
    <3>3. Times(a, toPeer') = (Times(a, toPeer) + Times(a, w)) + Times(a, p)
      <4>1. Times(a, toPeer \o w) = Times(a, toPeer) + Times(a, w)
            /\ Times(a, (toPeer \o w) \o p) = Times(a, toPeer \o w) + Times(a, p)
        <5> HIDE DEF a
        <5>1. \A x, y \in Seq(Wireable) : Times(a, x \o y) = Times(a, x) + Times(a, y)
          BY TimesFacts
        <5> QED BY <1>4, <1>8, <5>1
      <4> QED BY <1>4, <4>1
    <3>4. Times(g, Incoming) = IF f = g THEN Times(g, rest) + 1 ELSE Times(g, rest)
      BY <1>2
    <3>5. f = g => Times(a, w) >= 1
      <4> SUFFICES ASSUME f = g PROVE Times(a, w) >= 1
        OBVIOUS
      <4>1. Asks(g)
        BY <2>2 DEF Exact, RepliesInv
      <4>2. w = <<a>>
        BY <1>4, <4>1
      <4>3. w # <<>> /\ Head(w) = a /\ Tail(w) \in Seq(Wireable)
        <5> HIDE DEF a
        <5> QED BY <1>4, <3>1, <4>2
      <4>4. Times(a, w) = Times(a, Tail(w)) + 1
        BY <1>4, <4>3, TimesFacts
      <4>5. Times(a, Tail(w)) \in Nat
        BY <4>3, TimesFacts
      <4> QED BY <4>4, <4>5
    <3>6. "loseAck" \notin Unbounded => upsets + Times(g, Incoming) + Times(a, toPeer) >= peer.repeats + 1
      BY <2>2 DEF Exact, CopiesInv, Incoming
    <3>7. upsets \in Nat /\ peer.repeats \in Nat
      BY TypesOpen
    <3> DEFINE x == Times(g, rest)
               y == Times(g, Incoming)
               z == Times(a, toPeer)
               u == Times(a, w)
               v == Times(a, p)
               z2 == Times(a, toPeer')
    <3>8. "loseAck" \notin Unbounded => upsets + x + z2 >= peer.repeats + 1
      <4>1. /\ x \in Nat /\ z \in Nat /\ u \in Nat /\ v \in Nat /\ z2 = (z + u) + v
            /\ y = (IF f = g THEN x + 1 ELSE x) /\ (f = g => u >= 1)
            /\ "loseAck" \notin Unbounded => upsets + y + z >= peer.repeats + 1
        BY <3>2, <3>3, <3>4, <3>5, <3>6
      <4> HIDE DEF x, y, z, u, v, z2
      <4> QED BY <3>7, <4>1
    <3>9. Times(g, Incoming') = x
      BY <1>5
    <3>10. peer' = peer /\ upsets' = upsets
      BY <1>3
    <3>11. upsets' + Times(peer'.await[1], (Seen \o toTester)') + Times(Ack(peer'.await[1].seq), toPeer') = upsets + x + z2
      BY <3>9, <3>10 DEF Incoming
    <3> HIDE DEF x, z2
    <3> QED BY <2>2, <3>8, <3>10, <3>11 DEF CopiesInv
  <2> QED BY <2>1, <2>2
<1>15. ComingInv'
  <2>1. pc' # "ack"
    BY <1>3
  <2>2. ASSUME pc' = "alive" PROVE \E a \in DOMAIN toPeer' : toPeer'[a].kind = "ping"
    <3>1. p # <<>>
      BY <1>4, <2>2
    <3>2. Len(p) \in Nat /\ Len(p) # 0 /\ 1 \in 1..Len(p) /\ p[1].kind = "ping" /\ Len(toPeer \o w) \in Nat
      <4>1. Len(p) \in Nat /\ Len(p) # 0 /\ Len(toPeer \o w) \in Nat /\ DOMAIN p = 1..Len(p)
        BY <1>4, <1>8, <3>1, TailFacts
      <4>2. 1 \in DOMAIN p /\ 1 \in 1..Len(p)
        BY <4>1
      <4> QED BY <1>4, <4>1, <4>2 DEF Only
    <3> DEFINE n == Len(toPeer \o w)
    <3>3. toPeer'[n + 1] = p[1] /\ n + 1 \in DOMAIN toPeer'
      <4> DEFINE q == toPeer \o w
      <4>1. q \in Seq(Wireable)
        BY <1>8
      <4> HIDE DEF q
      <4>2. (q \o p)[Len(q) + 1] = p[1] /\ Len(q) + 1 \in DOMAIN (q \o p)
        BY <1>4, <3>2, <4>1
      <4> QED BY <1>4, <4>2 DEF q
    <3> HIDE DEF n
    <3> QED BY <3>2, <3>3
  <2> QED BY <2>1, <2>2 DEF ComingInv
<1> QED BY <1>3, <1>11, <1>12, <1>13, <1>14, <1>15 DEF Exact


\* The keepalive is answered: what was deferred stands first again.
LEMMA ExactAlive ==
    ASSUME Types, Types', Exact, Alive
    PROVE  Exact'
<1> DEFINE m == call.held[1]
           rest == PutBack(call.deferred, Tail(msgs))
<1>1. /\ Meets("alive", "pong") /\ Returned(m, rest) /\ upsets' = upsets
      /\ UNCHANGED <<txSeq, part, connected, sent, failed, toPeer>>
  BY DEF Alive, Takes, Calm
<1>2. /\ pc = "alive" /\ UNCHANGED <<toTester, peer>> /\ Only(Tail(msgs), {"data", "ack", "pong"})
      /\ Tail(msgs) \in Seq(Wireable) /\ toTester \in Seq(Wireable)
  BY <1>1, MeetsFacts DEF Exact
<1>3. /\ results' = Append(results, m) /\ msgs' = rest /\ pc' \in {"idle", "recv"}
      /\ call.job = <<>> /\ call'.job = <<>> /\ call'.held = <<>> /\ call'.deferred = <<>>
      /\ pc' = "recv" => call'.left = Timeout
      /\ DueInv'
  <2>1. DueInv /\ pc \in {"recv", "alive"} /\ sent' = sent
    BY <1>1, <1>2 DEF Exact
  <2> HIDE DEF m, rest
  <2> QED BY <1>1, <2>1, ReturnedCall
<1>4. call.deferred \in Seq(Wireable) /\ call.deferred \in Seq(Frames) /\ results \in Seq(Seq(Bytes)) /\ call.held \in Seq(Seq(Bytes))
      /\ Len(call.held) = 1
  BY <1>2, TypesOpen DEF Exact, DueInv, AtMostOne
<1>5. ClientNow' = ClientNow
  <2>1. m \in Seq(Bytes) /\ results \o call.held = Append(results, m)
    BY <1>4, OneMore
  <2>2. Append(results, m) \in Seq(Seq(Bytes))
    <3> HIDE DEF m
    <3> QED BY <1>4, <2>1
  <2>3. results' \o call'.held = Append(results, m)
    <3>1. \A e \in Seq(Seq(Bytes)) : e \o <<>> = e
      OBVIOUS
    <3> HIDE DEF m
    <3> QED BY <1>3, <2>2, <3>1
  <2> HIDE DEF m
  <2> QED BY <1>1, <2>1, <2>3 DEF ClientNow
<1>6. rest = call.deferred \o Tail(msgs) /\ rest \in Seq(Wireable)
  BY <1>2, <1>4 DEF PutBack
<1>7. Incoming' = (call.deferred \o Tail(msgs)) \o toTester
  <2>1. \A e \in Seq(Wireable) : <<>> \o e = e
    OBVIOUS
  <2> HIDE DEF rest
  <2> QED BY <1>2, <1>3, <1>6, <2>1 DEF Incoming, Seen
<1>8. Alike(Incoming', Incoming)
  <2>1. "pong" # "data" /\ Undisturbed
    BY DEF Exact
  <2>2. Alike((call.deferred \o Tail(msgs)) \o toTester, (call.deferred \o msgs) \o toTester)
    BY <1>1, <1>4, <2>1, DroppedAlike
  <2> QED BY <1>7, <2>2 DEF Incoming, Seen
<1>9. ClientThen' = ClientThen /\ \A f \in Frames : Times(f, Incoming') = Times(f, Incoming)
  BY <1>5, <1>8, ClientAlike
<1>10. PeerThen' = PeerThen
  BY <1>1, <1>2 DEF PeerThen, PeerNow
<1>11. Undisturbed'
  <2> DEFINE K == {"data", "ack", "pong"}
  <2>1. Only(call.deferred, K)
    <3>1. \A a \in DOMAIN call.deferred : call.deferred[a] \in Frames
      BY <1>4
    <3> QED BY <3>1, WireableFacts DEF Only
  <2>2. Only(rest, K)
    <3> DEFINE t == Tail(msgs)
               d == call.deferred
    <3>1. Only(t, K) /\ Only(d, K) /\ t \in Seq(Wireable) /\ d \in Seq(Wireable) /\ rest = d \o t
      BY <1>2, <1>4, <1>6, <2>1
    <3> HIDE DEF K, rest, d, t
    <3>2. Only(d \o t, K)
      BY <3>1, OnlyFacts
    <3> QED BY <3>1, <3>2
  <2> HIDE DEF rest
  <2> QED BY <1>1, <1>2, <1>3, <2>2 DEF Exact, Undisturbed, Waits, Only
<1>12. RequestsInv'
  <2>1. pc # "ack" /\ pc' # "ack"
    BY <1>2, <1>3
  <2> HIDE DEF m, rest
  <2> QED BY <1>1, <1>3, <1>10, <2>1, RequestsKept DEF Exact
<1>13. RepliesInv'
  BY <1>2, <1>9, RepliesKept DEF Exact
<1>14. CopiesInv'
  BY <1>1, <1>2, <1>9, CopiesKept DEF Exact
<1>15. ComingInv'
  BY <1>3 DEF ComingInv
<1> QED BY <1>3, <1>11, <1>12, <1>13, <1>14, <1>15 DEF Exact

\* A data frame is deferred: it stands where it stood.
LEMMA ExactDefer ==
    ASSUME Types, Types', Exact, Defer
    PROVE  Exact'
<1> DEFINE h == Head(msgs)
           t == Tail(msgs)
<1>1. /\ Meets("alive", "data") /\ msgs' = t /\ upsets' = upsets
      /\ call' = [call EXCEPT !.deferred = Append(@, h)]
      /\ UNCHANGED <<pc, txSeq, part, connected, sent, results, failed, toPeer>>
  BY DEF Defer, Takes, Calm
<1>2. /\ pc = "alive" /\ UNCHANGED <<toTester, peer>> /\ Only(t, {"data", "ack", "pong"})
      /\ t \in Seq(Wireable) /\ toTester \in Seq(Wireable) /\ msgs \in Seq(Wireable) /\ msgs # <<>>
      /\ h.kind = "data" /\ msgs \o toTester \in Seq(Wireable) /\ msgs \o toTester # <<>>
      /\ Head(msgs \o toTester) = h /\ Tail(msgs \o toTester) = t \o toTester
  BY <1>1, MeetsFacts DEF Exact
<1>3. /\ call'.deferred = Append(call.deferred, h) /\ call'.job = call.job /\ call'.due = call.due
      /\ call'.held = call.held /\ call'.left = call.left /\ call'.awaited = call.awaited
      /\ call.deferred \in Seq(Wireable)
  <2>1. call \in Call
    BY TypesOpen
  <2> QED BY <1>1, <2>1, TypesOpen DEF Call
<1>4. Seen' = Seen /\ Incoming' = Incoming
  <2>1. Append(call.deferred, h) \o t = call.deferred \o msgs
    BY <1>2, <1>3, HeadMoves
  <2>2. Seen' = Seen
    <3> HIDE DEF h, t
    <3> QED BY <1>1, <1>3, <2>1 DEF Seen
  <2> QED BY <1>2, <2>2 DEF Incoming
<1>5. ClientThen' = ClientThen /\ PeerThen' = PeerThen
  BY <1>1, <1>2, <1>3, <1>4 DEF ClientThen, ClientNow, PeerThen, PeerNow
<1> HIDE DEF h
<1>6. Undisturbed'
  BY <1>1, <1>2, <1>3 DEF Exact, Undisturbed, Waits, Only
<1>7. DueInv'
  BY <1>1, <1>2, <1>3 DEF Exact, DueInv, Asking, Answers
<1>8. RequestsInv'
  BY <1>1, <1>3, <1>5, RequestsKept DEF Exact
<1>9. RepliesInv'
  BY <1>2, <1>5, RepliesKept DEF Exact
<1>10. CopiesInv'
  BY <1>1, <1>2, <1>4, CopiesKept DEF Exact
<1>11. ComingInv'
  <2>1. Within(msgs \o toTester, msgs' \o toTester', {"ack", "pong"})
    <3> DEFINE q == msgs \o toTester
    <3>1. q \in Seq(Wireable) /\ q # <<>> /\ Head(q).kind \notin {"ack", "pong"} /\ Tail(q) = msgs' \o toTester'
      BY <1>1, <1>2
    <3> HIDE DEF q
    <3>2. Within(q, Tail(q), {"ack", "pong"})
      BY <3>1, WithinFacts
    <3> QED BY <3>1, <3>2 DEF q
  <2>2. Within(toPeer, toPeer', {"data", "ping"})
    BY <1>1 DEF Within
  <2>3. Served => Served'
    BY <1>1, <1>2 DEF Served
  <2> QED BY <1>1, <1>3, <2>1, <2>2, <2>3, ComingKept DEF Exact
<1> QED BY <1>6, <1>7, <1>8, <1>9, <1>10, <1>11 DEF Exact


--------------------------------------------------------------------------------
(***************************************************************************)
(* The steps of the peer and the link keep Exact.                          *)
(***************************************************************************)

\* The peer takes a frame that is not wrong, and acknowledges it where it asks for it,
\* or lets its reply stand for the ACK.
LEMMA PeerDataCall ==
    ASSUME Types, PeerData, ~Wrong(peer.in, Head(toPeer))
    PROVE  LET f == Head(toPeer)
           IN  /\ peer'.in = Fed(peer.in, f) /\ peer'.todo = peer.todo \o RepliesBy(f)
               /\ peer'.served = peer.served \o Delivered(peer.in, f)
               /\ peer'.out = peer.out /\ peer'.tx = peer.tx /\ peer'.await = peer.await
               /\ peer'.repeats = peer.repeats /\ peer'.closed = peer.closed /\ upsets' = upsets
               /\ \/ Asks(f) /\ toTester' = Append(toTester, Ack(f.seq))
                  \/ toTester' = toTester /\ (Asks(f) => Delivered(peer.in, f) # <<>>)
<1> DEFINE f == Head(toPeer)
           answer == IF Asks(f) THEN <<Ack(f.seq)>> ELSE <<>>
<1>1. f.kind = "data" /\ f \in Frames
  <2>1. PeerTakes("data")
    BY DEF PeerData
  <2> QED BY <2>1, TypesPeerTakes DEF PeerTakes
<1>2. /\ upsets' = upsets
      /\ peer' = [peer EXCEPT !.in = Fed(@, f), !.todo = @ \o RepliesBy(f), !.served = @ \o Delivered(peer.in, f)]
      /\ toTester' = toTester \o answer \/ (toTester' = toTester /\ RepliesBy(f) # <<>>)
  BY DEF PeerData, RepliesBy, ToTester, Calm
<1>3. peer \in Other /\ toTester \in Seq(Wireable) /\ f.seq \in Seqs
  BY <1>1, TypesOpen, WireableFacts
<1>4. RepliesBy(f) # <<>> => Delivered(peer.in, f) # <<>>
  BY DEF RepliesBy
<1>5. toTester \o answer = IF Asks(f) THEN Append(toTester, Ack(f.seq)) ELSE toTester
  <2>1. CASE Asks(f)
    <3>1. Ack(f.seq) \in Wireable
      BY <1>3, WireableFacts
    <3> DEFINE a == Ack(f.seq)
    <3>2. toTester \o <<a>> = Append(toTester, a)
      <4> HIDE DEF a
      <4> QED BY <1>3, <3>1 DEF a
    <3> QED BY <2>1, <3>2
  <2>2. CASE ~Asks(f)
    BY <1>3, <2>2
  <2> QED BY <2>1, <2>2
<1> HIDE DEF answer
<1>6. /\ peer'.in = Fed(peer.in, f) /\ peer'.todo = peer.todo \o RepliesBy(f)
      /\ peer'.served = peer.served \o Delivered(peer.in, f)
      /\ peer'.out = peer.out /\ peer'.tx = peer.tx /\ peer'.await = peer.await
      /\ peer'.repeats = peer.repeats /\ peer'.closed = peer.closed
  <2> HIDE DEF f
  <2> QED BY <1>2, <1>3 DEF Other
<1>7. \/ Asks(f) /\ toTester' = Append(toTester, Ack(f.seq))
      \/ toTester' = toTester /\ (Asks(f) => Delivered(peer.in, f) # <<>>)
  <2> HIDE DEF f
  <2> QED BY <1>2, <1>4, <1>5
<1> QED BY <1>2, <1>6, <1>7

\* Of the request that is served the peer has the answers.
LEMMA RepliesToNext ==
    ASSUME Types, NEW f, NEW k \in 1..Len(Requests), Delivered(peer.in, f) = <<Requests[k]>>
    PROVE  RepliesBy(f) = Replies[k]
<1>1. Requests \in Seq(Seq(Bytes)) /\ DOMAIN Requests = 1..Len(Requests)
  BY TransportAssumption
<1>2. \A i, j \in DOMAIN Requests : Requests[j] = Requests[i] => j = i
  BY TransportAssumption
<1>3. Requests[k] \in Range(Requests) /\ k \in DOMAIN Requests
  BY <1>1 DEF Range
<1>4. (CHOOSE j \in DOMAIN Requests : Requests[j] = Requests[k]) = k
  BY <1>2, <1>3
<1>5. <<Requests[k]>> # <<>> /\ <<Requests[k]>>[1] = Requests[k]
  OBVIOUS
<1> QED BY <1>3, <1>4, <1>5 DEF RepliesBy

LEMMA ExactPeerData ==
    ASSUME Types, Types', Exact, PeerData
    PROVE  Exact'
<1> DEFINE f == Head(toPeer)
           d == Delivered(peer.in, f)
           n == Len(peer.served)
<1>1. /\ toPeer # <<>> /\ f.kind = "data" /\ f \in Frames /\ toPeer' = Tail(toPeer) /\ UNCHANGED tester
      /\ toPeer \in Seq(Wireable) /\ toTester \in Seq(Wireable) /\ msgs \in Seq(Wireable)
      /\ Tail(toPeer) \in Seq(Wireable) /\ f \in Wireable /\ f.seq \in Seqs
  <2>1. PeerTakes("data")
    BY DEF PeerData
  <2>2. toPeer # <<>> /\ f.kind = "data" /\ f \in Frames /\ toPeer' = Tail(toPeer) /\ UNCHANGED tester
    BY <2>1, TypesPeerTakes DEF PeerTakes
  <2> QED BY <2>2, TypesOpen, TailFacts, WireableFacts
<1>2. /\ ~Wrong(peer.in, f) /\ Taken(PeerNow, f) \in Readers
      /\ Taken(PeerNow, f).at = Fed(peer.in, f) /\ ~Taken(PeerNow, f).wrong
      /\ Taken(PeerNow, f).got = peer.served \o d
      /\ PeerThen = Behind(Taken(PeerNow, f), Tail(toPeer))
      /\ n \in Nat /\ n <= sent /\ (call.job # <<>> => n <= sent - 1)
      /\ d # <<>> =>
           /\ n + 1 <= sent /\ (call.job # <<>> => n + 1 <= sent - 1)
           /\ n + 1 \in 1..Len(Requests) /\ d = <<Requests[n + 1]>>
  BY <1>1, ServedNext DEF Exact
<1>3. /\ peer'.in = Fed(peer.in, f) /\ peer'.todo = peer.todo \o RepliesBy(f)
      /\ peer'.served = peer.served \o d
      /\ peer'.out = peer.out /\ peer'.tx = peer.tx /\ peer'.await = peer.await
      /\ peer'.repeats = peer.repeats /\ peer'.closed = peer.closed /\ upsets' = upsets
      /\ \/ Asks(f) /\ toTester' = Append(toTester, Ack(f.seq))
         \/ toTester' = toTester /\ (Asks(f) => d # <<>>)
  BY <1>2, PeerDataCall
<1>4. Ack(f.seq) \in Wireable /\ Ack(f.seq).kind = "ack" /\ Ack(f.seq).kind # "data"
  BY <1>1, WireableFacts DEF Ack
<1>5. /\ UNCHANGED <<pc, txSeq, part, msgs, connected, call, sent, results, failed>>
  BY <1>1 DEF tester
<1>6. PeerNow' = Taken(PeerNow, f)
  <2>1. Taken(PeerNow, f) = [at |-> Fed(peer.in, f), got |-> peer.served \o d, wrong |-> FALSE]
    <3>1. \A x \in Readers : \A a, g : x.at = a /\ x.got = g /\ ~x.wrong => x = [at |-> a, got |-> g, wrong |-> FALSE]
      BY DEF Readers
    <3> HIDE DEF d, f
    <3> QED BY <1>2, <3>1
  <2> HIDE DEF d, f
  <2> QED BY <1>3, <2>1 DEF PeerNow
<1>7. PeerThen' = PeerThen
  <2>1. PeerThen' = Behind(PeerNow', toPeer')
    BY DEF PeerThen
  <2> QED BY <1>1, <1>2, <1>6, <2>1
<1>8. call.deferred \in Seq(Wireable) /\ Seen \in Seq(Wireable) /\ Seen' = Seen /\ Incoming \in Seq(Wireable)
  BY <1>5, NowFacts, TypesOpen DEF Seen
<1>9. Alike(Incoming', Incoming)
  <2>1. CASE toTester' = toTester
    <3>1. Incoming' = Incoming
      BY <1>8, <2>1 DEF Incoming
    <3> QED BY <1>8, <3>1, AlikeSame
  <2>2. CASE toTester' = Append(toTester, Ack(f.seq))
    <3> DEFINE a == Ack(f.seq)
    <3>1. a \in Wireable /\ a.kind # "data"
      BY <1>4
    <3>2. Incoming' = Append(Incoming, a)
      <4>1. Incoming' = Seen \o Append(toTester, a)
        BY <1>8, <2>2 DEF Incoming
      <4> HIDE DEF a
      <4>2. Seen \o Append(toTester, a) = Append(Seen \o toTester, a)
        BY <1>1, <1>8, <3>1, AppendMoves
      <4> QED BY <4>1, <4>2 DEF Incoming
    <3> HIDE DEF a
    <3> QED BY <1>8, <3>1, <3>2, AlikeMore
  <2> QED BY <1>3, <2>1, <2>2
<1>10. ClientNow' = ClientNow
  BY <1>5 DEF ClientNow
<1>11. ClientThen' = ClientThen /\ \A g \in Frames : Times(g, Incoming') = Times(g, Incoming)
  BY <1>9, <1>10, ClientAlike
<1>12. Undisturbed'
  <2>1. Only(Tail(toPeer), {"data", "ack", "ping"})
    BY <1>1, Calmly, OnlyFacts DEF Exact
  <2>2. Only(toTester', {"data", "ack", "pong"})
    <3>1. Only(toTester, {"data", "ack", "pong"})
      BY Calmly DEF Exact
    <3> DEFINE a == Ack(f.seq)
    <3>2. a \in Wireable /\ a.kind \in {"data", "ack", "pong"}
      BY <1>4
    <3>3. toTester' \in {toTester, Append(toTester, a)}
      BY <1>3
    <3> DEFINE K == {"data", "ack", "pong"}
    <3>4. a.kind \in K /\ Only(toTester, K)
      BY <3>1, <3>2
    <3> HIDE DEF a, K
    <3>5. Only(Append(toTester, a), K)
      BY <1>1, <3>2, <3>4, OnlyFacts
    <3>6. Only(toTester', K)
      BY <3>3, <3>4, <3>5
    <3> QED BY <3>6 DEF K
  <2> HIDE DEF f, d
  <2> QED BY <1>1, <1>3, <1>5, <2>1, <2>2 DEF Exact, Undisturbed, Waits, Only
<1>13. DueInv'
  BY <1>5 DEF Exact, DueInv, Asking, Answers
<1>14. RequestsInv'
  BY <1>5, <1>7, RequestsKept DEF Exact
<1>15. RepliesInv'
  <2>1. CASE d = <<>>
    <3>1. RepliesBy(f) = <<>>
      <4>1. ~(d # <<>>)
        BY <2>1
      <4> QED BY <4>1 DEF RepliesBy
    <3>2. peer'.todo = peer.todo /\ peer'.served = peer.served
      <4>1. \A e \in Seq(Seq(Bytes)) : e \o <<>> = e
        OBVIOUS
      <4>2. peer.todo \in Seq(Seq(Bytes)) /\ peer.served \in Seq(Seq(Bytes))
        BY TypesOpen
      <4> HIDE DEF d, f
      <4> QED BY <1>3, <2>1, <3>1, <4>1, <4>2
    <3> HIDE DEF d, f
    <3> QED BY <1>3, <1>11, <3>2, RepliesKept DEF Exact
  <2>2. CASE d # <<>>
    <3>1. n + 1 \in 1..Len(Requests) /\ d = <<Requests[n + 1]>>
      BY <1>2, <2>2
    <3> DEFINE R == Replies[n + 1]
               A == Answers(n)
               B == Answers(n + 1)
               given == ClientThen.got
               T == peer.todo
    <3>2. RepliesBy(f) = R
      <4> HIDE DEF n, f
      <4> QED BY <3>1, RepliesToNext
    <3>3. R \in Seq(Seq(Bytes)) /\ n + 1 <= Len(Replies)
      <4> HIDE DEF n
      <4> QED BY <3>1, TalkFacts
    <3>4. B = A \o R /\ A \in Seq(Seq(Bytes))
      <4>1. B = A \o R
        <5> HIDE DEF n
        <5> QED BY <1>2, <3>3, AnswersFacts
      <4>2. A \in Seq(Seq(Bytes))
        BY GivenSoFar DEF Exact
      <4> QED BY <4>1, <4>2
    <3>5. Len(peer'.served) = n + 1
      <4>1. peer.served \in Seq(Seq(Bytes)) /\ Requests[n + 1] \in Seq(Bytes)
        <5> HIDE DEF n
        <5> QED BY <3>1, TypesOpen, TalkFacts
      <4> DEFINE m == Requests[n + 1]
      <4>2. Len(peer.served \o <<m>>) = n + 1
        <5>1. peer.served \o <<m>> = Append(peer.served, m)
          <6> HIDE DEF m
          <6> QED BY <4>1 DEF m
        <5>2. Len(Append(peer.served, m)) = Len(peer.served) + 1
          <6> HIDE DEF m
          <6> QED BY <4>1 DEF m
        <5> QED BY <5>1, <5>2
      <4> QED BY <1>3, <3>1, <4>2
    <3>6. peer'.todo = T \o R /\ T \in Seq(Seq(Bytes)) /\ given \in Seq(Seq(Bytes))
      BY <1>3, <3>2, GivenSoFar, TypesOpen DEF Exact
    <3>7. \A x, y, z \in Seq(Seq(Bytes)) : (x \o y) \o z = x \o (y \o z)
      OBVIOUS
    <3>8. ~ClientThen'.wrong /\ ClientThen'.at.seq = peer'.tx
      BY <1>3, <1>11 DEF Exact, RepliesInv
    <3>9. peer'.await # <<>> => /\ ClientThen'.at.acked = peer'.await /\ Asks(peer'.await[1])
                                /\ After(peer'.await[1].seq) = peer'.tx
      BY <1>3, <1>11 DEF Exact, RepliesInv
    <3>10. CASE Resting(ClientThen.at, ClientThen.got)
      <4>1. peer.out = <<>> /\ Empty(ClientThen.at) /\ given \o T = A
        BY <3>10 DEF Resting
      <4>2. given \o (T \o R) = B
        <5> HIDE DEF R, A, B, given, T
        <5> QED BY <3>3, <3>4, <3>6, <3>7, <4>1
      <4>3. Resting(ClientThen.at, ClientThen.got)'
        <5> HIDE DEF R
        <5> QED BY <1>3, <1>11, <3>5, <3>6, <4>1, <4>2 DEF Resting, Empty, Answers
      <4> QED BY <3>8, <3>9, <4>3 DEF RepliesInv
    <3>11. CASE \E m \in Range(Answers(Len(peer.served))), s \in Seqs : Replying(ClientThen.at, ClientThen.got, m, s)
      <4>1. PICK m \in Range(A), s \in Seqs : Replying(ClientThen.at, ClientThen.got, m, s)
        BY <3>11
      <4>2. Append(given, m) \o T = A /\ m \in Seq(Bytes)
        <5>1. Append(given, m) \o T = A
          BY <4>1 DEF Replying
        <5>2. m \in Seq(Bytes)
          <6> HIDE DEF A
          <6> QED BY <3>4 DEF Range
        <5> QED BY <5>1, <5>2
      <4>3. Append(given, m) \o (T \o R) = B
        <5> DEFINE G == Append(given, m)
        <5>1. G \in Seq(Seq(Bytes))
          <6> HIDE DEF given
          <6> QED BY <3>6, <4>2
        <5>2. G \o T = A
          BY <4>2
        <5> HIDE DEF R, A, B, given, T, G
        <5>3. G \o (T \o R) = B
          BY <3>3, <3>4, <3>6, <3>7, <5>1, <5>2
        <5> QED BY <5>3 DEF G
      <4>4. m \in Range(B)
        <5>1. \A i \in 1..Len(A) : B[i] = A[i] /\ i \in DOMAIN B
          <6> HIDE DEF A, B, R
          <6> QED BY <3>3, <3>4, ConcatFacts
        <5>2. DOMAIN A = 1..Len(A)
          BY <3>4
        <5> HIDE DEF A, B
        <5> QED BY <4>1, <5>1, <5>2 DEF Range
      <4>5. Replying(ClientThen.at, ClientThen.got, m, s)'
        <5> HIDE DEF R
        <5> QED BY <1>3, <1>11, <3>5, <3>6, <4>1, <4>3 DEF Replying, Reading, Answers
      <4>6. m \in Range(Answers(Len(peer'.served)))
        BY <3>5, <4>4
      <4> QED BY <3>8, <3>9, <4>5, <4>6 DEF RepliesInv, Answers
    <3> QED BY <3>10, <3>11 DEF Exact, RepliesInv
  <2> QED BY <2>1, <2>2
<1>16. CopiesInv'
  <2>1. ASSUME NEW k \in Seqs PROVE Times(Ack(k), toPeer') = Times(Ack(k), toPeer)
    <3>1. f # Ack(k)
      BY <1>1 DEF Ack
    <3> HIDE DEF f
    <3> QED BY <1>1, <3>1, TimesFacts DEF f
  <2> HIDE DEF d, f
  <2> QED BY <1>3, <1>11, <2>1, CopiesKept DEF Exact
<1>17. ComingInv'
  <2> DEFINE q == msgs \o toTester
             p == msgs' \o toTester'
             a == Ack(f.seq)
  <2>1. a \in Wireable /\ q \in Seq(Wireable) /\ p \in {q, Append(q, a)}
    <3>1. a \in Wireable /\ toTester' \in {toTester, Append(toTester, a)} /\ q \in Seq(Wireable)
      BY <1>1, <1>3, <1>4
    <3> HIDE DEF a
    <3>2. msgs \o Append(toTester, a) = Append(msgs \o toTester, a)
      BY <1>1, <3>1, AppendMoves
    <3> QED BY <1>5, <3>1, <3>2
  <2>2. DOMAIN Append(q, a) = 1..(Len(q) + 1) /\ Append(q, a)[Len(q) + 1] = a /\ Len(q) \in Nat
        /\ \A i \in DOMAIN q : i \in DOMAIN Append(q, a) /\ Append(q, a)[i] = q[i]
    <3> HIDE DEF q, a
    <3> QED BY <2>1, AppendFacts
  <2>3. \A i \in DOMAIN q : i \in DOMAIN p /\ p[i] = q[i]
    <3> HIDE DEF q, p, a
    <3> QED BY <2>1, <2>2
  <2>4. DOMAIN toPeer = 1..Len(toPeer) /\ toPeer[1] = f /\ Len(toPeer) \in Nat
        /\ DOMAIN Tail(toPeer) = 1..(Len(toPeer) - 1)
        /\ \A i \in 1..(Len(toPeer) - 1) : Tail(toPeer)[i] = toPeer[i + 1]
    BY <1>1, TailFacts
  <2>5. ASSUME NEW i \in DOMAIN toPeer, i # 1 PROVE i - 1 \in DOMAIN toPeer' /\ toPeer'[i - 1] = toPeer[i]
    BY <1>1, <2>4, <2>5
  <2>6. CASE pc = "ack"
    <3>1. CASE \E i \in DOMAIN toPeer : toPeer[i].kind = "data" /\ Asks(toPeer[i]) /\ toPeer[i].seq = call.awaited
      <4>1. PICK i \in DOMAIN toPeer : toPeer[i].kind = "data" /\ Asks(toPeer[i]) /\ toPeer[i].seq = call.awaited
        BY <3>1
      <4>2. CASE i = 1
        <5>1. Asks(f) /\ f.seq = call.awaited
          BY <2>4, <4>1, <4>2
        <5>2. CASE toTester' = Append(toTester, a)
          <6>1. p = Append(q, a)
            <7>1. a \in Wireable
              BY <2>1
            <7> HIDE DEF a
            <7> QED BY <1>1, <1>5, <5>2, <7>1, AppendMoves
          <6>2. Len(q) + 1 \in DOMAIN p /\ p[Len(q) + 1] = a
            <7> HIDE DEF q, p, a
            <7> QED BY <2>2, <6>1
          <6>3. a = Ack(call.awaited)
            BY <5>1
          <6> HIDE DEF q, a
          <6> QED BY <1>5, <2>6, <6>2, <6>3 DEF ComingInv
        <5>3. CASE d # <<>>
          <6>1. Len(peer.served) >= sent - 1
            <7>1. Asking
              BY <2>6 DEF Asking
            <7> QED BY <7>1, ServedBefore DEF Exact
          <6>2. n + 1 <= sent /\ n + 1 \in 1..Len(Requests) /\ d = <<Requests[n + 1]>>
            BY <1>2, <5>3
          <6>3. Len(peer'.served) = n + 1
            <7>1. peer.served \in Seq(Seq(Bytes)) /\ Requests[n + 1] \in Seq(Bytes)
              <8> HIDE DEF n
              <8> QED BY <6>2, TypesOpen, TalkFacts
            <7> DEFINE m == Requests[n + 1]
            <7>2. Len(peer.served \o <<m>>) = n + 1
              <8>1. peer.served \o <<m>> = Append(peer.served, m)
                <9> HIDE DEF m
                <9> QED BY <7>1 DEF m
              <8>2. Len(Append(peer.served, m)) = Len(peer.served) + 1
                <9> HIDE DEF m
                <9> QED BY <7>1 DEF m
              <8> QED BY <8>1, <8>2
            <7> QED BY <1>3, <6>2, <7>2
          <6>4. Served'
            <7>1. sent \in Nat /\ sent' = sent
              BY <1>5, TypesOpen
            <7>2. n + 1 = sent
              BY <1>2, <6>1, <6>2, <7>1
            <7> QED BY <6>3, <7>1, <7>2 DEF Served
          <6> QED BY <1>5, <2>6, <6>4 DEF ComingInv
        <5> QED BY <1>3, <5>1, <5>2, <5>3
      <4>3. CASE i # 1
        <5>1. i - 1 \in DOMAIN toPeer' /\ toPeer'[i - 1] = toPeer[i]
          BY <2>5, <4>3
        <5> QED BY <1>5, <2>6, <4>1, <5>1 DEF ComingInv
      <4> QED BY <4>2, <4>3
    <3>2. CASE \E i \in DOMAIN q : q[i] = Ack(call.awaited)
      <4>1. \E i \in DOMAIN p : p[i] = Ack(call.awaited)
        <5> HIDE DEF q, p
        <5> QED BY <2>3, <3>2
      <4> HIDE DEF q
      <4> QED BY <1>5, <2>6, <4>1 DEF ComingInv
    <3>3. CASE Served
      <4>1. d = <<>>
        <5>1. n = sent /\ sent \in Nat
          BY <3>3, TypesOpen DEF Served
        <5>2. d # <<>> => n + 1 <= sent
          BY <1>2
        <5> HIDE DEF d, n
        <5> QED BY <5>1, <5>2
      <4>2. peer'.served = peer.served
        <5>1. \A e \in Seq(Seq(Bytes)) : e \o <<>> = e
          OBVIOUS
        <5>2. peer.served \in Seq(Seq(Bytes))
          BY TypesOpen
        <5> HIDE DEF d
        <5> QED BY <1>3, <4>1, <5>1, <5>2
      <4> QED BY <1>5, <2>6, <3>3, <4>2 DEF ComingInv, Served
    <3> QED BY <2>6, <3>1, <3>2, <3>3 DEF Exact, ComingInv
  <2>7. CASE pc = "alive"
    <3>1. CASE \E i \in DOMAIN toPeer : toPeer[i].kind = "ping"
      <4>1. PICK i \in DOMAIN toPeer : toPeer[i].kind = "ping"
        BY <3>1
      <4>2. i # 1
        BY <1>1, <2>4, <4>1
      <4>3. i - 1 \in DOMAIN toPeer' /\ toPeer'[i - 1] = toPeer[i]
        BY <2>5, <4>2
      <4> QED BY <1>5, <2>7, <4>1, <4>3 DEF ComingInv
    <3>2. CASE \E i \in DOMAIN q : q[i].kind = "pong"
      <4>1. \E i \in DOMAIN p : p[i].kind = "pong"
        <5> HIDE DEF q, p
        <5> QED BY <2>3, <3>2
      <4> HIDE DEF q
      <4> QED BY <1>5, <2>7, <4>1 DEF ComingInv
    <3> QED BY <2>7, <3>1, <3>2 DEF Exact, ComingInv
  <2>8. CASE pc \notin {"ack", "alive"}
    BY <1>5, <2>8 DEF ComingInv
  <2> QED BY <2>6, <2>7, <2>8
<1> QED BY <1>12, <1>13, <1>14, <1>15, <1>16, <1>17 DEF Exact


\* A step of the peer or the link behind which both ends read the same.
LEMMA ExactReadsSame ==
    ASSUME Types, Exact, UNCHANGED tester, peer'.in = peer.in, peer'.served = peer.served, peer'.out = peer.out,
           peer'.tx = peer.tx, peer'.todo = peer.todo, peer'.closed = peer.closed,
           peer'.await \in {peer.await, <<>>}, PeerThen' = PeerThen, ClientThen' = ClientThen,
           Only(toPeer', {"data", "ack", "ping"}), Only(toTester', {"data", "ack", "pong"}), CopiesInv', ComingInv'
    PROVE  Exact'
<1>1. UNCHANGED <<pc, txSeq, part, msgs, connected, call, sent, results, failed>>
  BY DEF tester
<1>2. Undisturbed'
  BY <1>1 DEF Exact, Undisturbed, Waits, Only
<1>3. DueInv'
  BY <1>1 DEF Exact, DueInv, Asking, Answers
<1>4. RequestsInv'
  BY <1>1, RequestsKept DEF Exact
<1>5. RepliesInv'
  BY RepliesKept DEF Exact
<1> QED BY <1>2, <1>3, <1>4, <1>5 DEF Exact

\* A frame that is no data frame leaves the queue to the peer.
LEMMA ToPeerDropped ==
    ASSUME Types, Exact, toPeer # <<>>, Head(toPeer).kind # "data", toPeer' = Tail(toPeer),
           peer'.in = peer.in, peer'.served = peer.served
    PROVE  /\ PeerThen' = PeerThen /\ Only(toPeer', {"data", "ack", "ping"})
           /\ toPeer \in Seq(Wireable) /\ Tail(toPeer) \in Seq(Wireable) /\ Head(toPeer) \in Wireable
           /\ \A kinds : Head(toPeer).kind \notin kinds => Within(toPeer, toPeer', kinds)
<1>1. toPeer \in Seq(Wireable) /\ Tail(toPeer) \in Seq(Wireable) /\ Head(toPeer) \in Wireable
  BY TypesOpen, TailFacts
<1>2. Alike(toPeer', toPeer)
  BY <1>1, AlikeTail
<1>3. PeerThen' = PeerThen
  BY <1>2, PeerAlike
<1>4. Only(toPeer', {"data", "ack", "ping"})
  BY <1>1, Calmly, OnlyFacts DEF Exact
<1>5. \A kinds : Head(toPeer).kind \notin kinds => Within(toPeer, toPeer', kinds)
  BY <1>1, WithinFacts
<1> QED BY <1>1, <1>3, <1>4, <1>5

\* What the client has read or will read does not depend on the queue to the peer.
LEMMA ClientSame ==
    ASSUME UNCHANGED tester, toTester' = toTester
    PROVE  ClientThen' = ClientThen /\ Incoming' = Incoming /\ msgs' \o toTester' = msgs \o toTester
           /\ Seen' \o toTester' = Seen \o toTester
  BY DEF tester, ClientThen, ClientNow, Incoming, Seen

\* An ACK reaches the peer, or is lost.
LEMMA ExactAckGoes ==
    ASSUME Types, Exact, UNCHANGED tester, toTester' = toTester, toPeer # <<>>, Head(toPeer).kind = "ack",
           toPeer' = Tail(toPeer),
           \/ /\ upsets' = upsets
              /\ peer' = IF peer.await # <<>> /\ Head(toPeer).seq = After(peer.await[1].seq)
                           THEN [peer EXCEPT !.await = <<>>, !.repeats = 0] ELSE peer
           \/ peer' = peer /\ upsets' = IF "loseAck" \in Unbounded THEN upsets ELSE upsets + 1
    PROVE  Exact'
<1>1. peer \in Other /\ upsets \in Nat /\ peer.repeats \in Nat
  BY TypesOpen
<1>2. /\ peer'.in = peer.in /\ peer'.served = peer.served /\ peer'.out = peer.out /\ peer'.tx = peer.tx
      /\ peer'.todo = peer.todo /\ peer'.closed = peer.closed /\ peer'.await \in {peer.await, <<>>}
  <2>1. peer' \in {peer, [peer EXCEPT !.await = <<>>, !.repeats = 0]}
    OBVIOUS
  <2> QED BY <1>1, <2>1 DEF Other
<1>3. /\ PeerThen' = PeerThen /\ Only(toPeer', {"data", "ack", "ping"})
      /\ toPeer \in Seq(Wireable) /\ Tail(toPeer) \in Seq(Wireable) /\ Head(toPeer) \in Wireable
      /\ Within(toPeer, toPeer', {"data", "ping"})
  <2>1. Head(toPeer).kind # "data" /\ Head(toPeer).kind \notin {"data", "ping"}
    OBVIOUS
  <2> QED BY <1>2, <2>1, ToPeerDropped
<1>4. ClientThen' = ClientThen /\ Incoming' = Incoming /\ msgs' \o toTester' = msgs \o toTester
      /\ Seen' \o toTester' = Seen \o toTester
  BY ClientSame
<1>5. CopiesInv'
  <2>1. CASE peer'.await = <<>> /\ peer'.repeats = 0
    BY <2>1 DEF CopiesInv
  <2>2. CASE peer' = peer /\ peer.await = <<>>
    BY <2>2 DEF Exact, CopiesInv
  <2>3. CASE peer' = peer /\ peer.await # <<>>
    <3> DEFINE g == peer.await[1]
               a == Ack(g.seq)
               x == Times(g, Incoming)
               y == Times(a, toPeer)
               z == Times(a, toPeer')
    <3>1. a \in Wireable /\ g \in Frames
      BY <2>3, AwaitFacts
    <3>2. y = IF Head(toPeer) = a THEN z + 1 ELSE z
      <4> HIDE DEF a
      <4> QED BY <1>3, TimesFacts
    <3>3. z \in Nat /\ x \in Nat
      <4>1. Incoming \in Seq(Wireable)
        BY NowFacts
      <4> HIDE DEF a, g
      <4> QED BY <1>3, <4>1, TimesFacts
    <3>4. "loseAck" \notin Unbounded => upsets + x + y >= peer.repeats + 1
      BY <2>3 DEF Exact, CopiesInv, Incoming
    <3>5. ASSUME "loseAck" \notin Unbounded PROVE upsets' + z >= upsets + y
      <4>1. CASE upsets' = upsets + 1
        <5> HIDE DEF y, z
        <5> QED BY <1>1, <3>2, <3>3, <4>1
      <4>2. CASE upsets' = upsets
        <5>1. Head(toPeer) # a
          <6>1. ASSUME Head(toPeer) = a PROVE FALSE
            <7>1. Head(toPeer).seq = After(peer.await[1].seq)
              BY <6>1 DEF Ack
            <7>2. upsets' # upsets + 1
              BY <1>1, <4>2
            <7>3. peer' = [peer EXCEPT !.await = <<>>, !.repeats = 0]
              <8> HIDE DEF a, g, x, y, z
              <8> QED BY <2>3, <3>5, <7>1, <7>2
            <7>4. peer'.await = <<>>
              BY <1>1, <7>3 DEF Other
            <7> QED BY <2>3, <7>4
          <6> QED BY <6>1
        <5> HIDE DEF y, z, a
        <5> QED BY <1>1, <3>2, <3>3, <4>2, <5>1
      <4> QED BY <3>5, <4>1, <4>2
    <3>6. "loseAck" \notin Unbounded => upsets' + x + z >= peer.repeats + 1
      <4>1. upsets' \in Nat
        BY <1>1
      <4>2. y \in Nat
        <5> HIDE DEF y, z
        <5> QED BY <3>2, <3>3
      <4> HIDE DEF x, y, z
      <4> QED BY <1>1, <3>3, <3>4, <3>5, <4>1, <4>2
    <3>7. Times(peer'.await[1], (Seen \o toTester)') = x /\ Times(Ack(peer'.await[1].seq), toPeer') = z
      BY <1>4, <2>3 DEF Incoming
    <3> HIDE DEF x, z
    <3> QED BY <2>3, <3>6, <3>7 DEF CopiesInv
  <2>4. peer' = peer \/ (peer'.await = <<>> /\ peer'.repeats = 0)
    BY <1>1 DEF Other
  <2> QED BY <2>1, <2>2, <2>3, <2>4
<1>6. ComingInv'
  <2>1. Within(msgs \o toTester, msgs' \o toTester', {"ack", "pong"})
    BY <1>4 DEF Within
  <2>2. pc' = pc /\ call' = call /\ sent' = sent
    BY DEF tester
  <2>3. Served => Served'
    BY <1>2, <2>2 DEF Served
  <2> QED BY <1>3, <2>1, <2>2, <2>3, ComingKept DEF Exact
<1>7. Only(toTester', {"data", "ack", "pong"})
  BY Calmly DEF Exact
<1> QED BY <1>2, <1>3, <1>4, <1>5, <1>6, <1>7, ExactReadsSame

\* A frame more on its way to the client.
LEMMA ToTesterGrows ==
    ASSUME Types, Exact, UNCHANGED tester, NEW w \in Wireable, toTester' = Append(toTester, w)
    PROVE  /\ Incoming' = Append(Incoming, w) /\ Incoming' = Seen' \o toTester'
           /\ ClientThen' = Taken(ClientThen, w)
           /\ \A x : Times(x, Incoming) \in Nat
           /\ \A x : Times(x, Incoming') = IF w = x THEN Times(x, Incoming) + 1 ELSE Times(x, Incoming)
           /\ w.kind \in {"data", "ack", "pong"} => Only(toTester', {"data", "ack", "pong"})
           /\ msgs' \o toTester' = Append(msgs \o toTester, w) /\ msgs \o toTester \in Seq(Wireable)
           /\ \A kinds : Within(msgs \o toTester, msgs' \o toTester', kinds)
<1>1. UNCHANGED <<pc, txSeq, part, msgs, connected, call, sent, results, failed>>
  BY DEF tester
<1>2. Seen \in Seq(Wireable) /\ Incoming \in Seq(Wireable) /\ toTester \in Seq(Wireable) /\ msgs \in Seq(Wireable)
      /\ ClientNow \in Readers /\ ClientThen = Behind(ClientNow, Incoming)
  BY NowFacts
<1>3. Seen' = Seen /\ ClientNow' = ClientNow
  BY <1>1 DEF Seen, ClientNow
<1>4. Incoming' = Append(Incoming, w)
  BY <1>2, <1>3, AppendMoves DEF Incoming
<1>5. ClientThen' = Taken(ClientThen, w)
  <2>1. ClientThen' = Behind(ClientNow', Incoming')
    BY DEF ClientThen, Incoming
  <2> QED BY <1>2, <1>3, <1>4, <2>1, BehindFacts
<1>6. ASSUME NEW x
      PROVE  /\ Times(x, Incoming) \in Nat
             /\ Times(x, Incoming') = IF w = x THEN Times(x, Incoming) + 1 ELSE Times(x, Incoming)
  BY <1>2, <1>4, TimesFacts
<1>7. w.kind \in {"data", "ack", "pong"} => Only(toTester', {"data", "ack", "pong"})
  <2>1. Only(toTester, {"data", "ack", "pong"})
    BY Calmly DEF Exact
  <2> QED BY <1>2, <2>1, OnlyFacts
<1>8. msgs' \o toTester' = Append(msgs \o toTester, w) /\ msgs \o toTester \in Seq(Wireable)
  BY <1>1, <1>2, AppendMoves, ConcatFacts
<1>9. \A kinds : Within(msgs \o toTester, msgs' \o toTester', kinds)
  <2> DEFINE q == msgs \o toTester
  <2>1. q \in Seq(Wireable) /\ msgs' \o toTester' = Append(q, w)
    BY <1>8
  <2>2. \A kinds : Within(q, Append(q, w), kinds)
    <3> HIDE DEF q
    <3> QED BY <2>1, WithinFacts
  <2> QED BY <2>1, <2>2
<1> QED BY <1>4, <1>5, <1>6, <1>7, <1>8, <1>9 DEF Incoming

LEMMA ExactPeerAcked ==
    ASSUME Types, Types', Exact, PeerAcked
    PROVE  Exact'
  BY ExactAckGoes DEF PeerAcked, PeerTakes, Calm

\* Only the loss of an ACK spoils nothing.
LEMMA ExactLoseToPeer ==
    ASSUME Types, Types', Exact, LoseToPeer, spoilt' = FALSE
    PROVE  Exact'
<1>1. Head(toPeer).kind = "ack"
  BY DEF LoseToPeer, Upset
<1> QED BY <1>1, ExactAckGoes DEF LoseToPeer, Upset

\* The peer answers that it is there.
LEMMA ExactPeerPinged ==
    ASSUME Types, Types', Exact, PeerPinged
    PROVE  Exact'
<1> DEFINE w == Control("pong")
<1>1. /\ toPeer # <<>> /\ Head(toPeer).kind = "ping" /\ toPeer' = Tail(toPeer) /\ UNCHANGED tester
      /\ peer' = peer /\ upsets' = upsets /\ toTester' = toTester \o <<w>>
  BY DEF PeerPinged, PeerTakes, Calm, ToTester
<1>2. w \in Wireable /\ w.kind = "pong"
  BY WireableFacts DEF Control
<1>3. toTester' = Append(toTester, w)
  <2>1. toTester \in Seq(Wireable)
    BY TypesOpen
  <2> HIDE DEF w
  <2> QED BY <1>1, <1>2, <2>1
<1> HIDE DEF w
<1>4. /\ ClientThen' = Taken(ClientThen, w)
      /\ \A x : Times(x, Incoming') = IF w = x THEN Times(x, Incoming) + 1 ELSE Times(x, Incoming)
      /\ Only(toTester', {"data", "ack", "pong"})
      /\ msgs' \o toTester' = Append(msgs \o toTester, w) /\ msgs \o toTester \in Seq(Wireable)
      /\ Within(msgs \o toTester, msgs' \o toTester', {"ack", "pong"})
  BY <1>1, <1>2, <1>3, ToTesterGrows
<1>5. ClientThen' = ClientThen
  BY <1>2, <1>4 DEF Taken
<1>6. /\ PeerThen' = PeerThen /\ Only(toPeer', {"data", "ack", "ping"})
      /\ toPeer \in Seq(Wireable) /\ Head(toPeer) \in Wireable
      /\ \A kinds : Head(toPeer).kind \notin kinds => Within(toPeer, toPeer', kinds)
  BY <1>1, ToPeerDropped
<1>7. CopiesInv'
  <2>1. ASSUME NEW f \in Frames PROVE Times(f, Incoming') = Times(f, Incoming)
    BY <1>2, <1>4, WireableFacts
  <2>2. ASSUME NEW n \in Seqs PROVE Times(Ack(n), toPeer') = Times(Ack(n), toPeer)
    <3>1. Head(toPeer) # Ack(n)
      BY <1>1 DEF Ack
    <3> QED BY <1>1, <1>6, <3>1, TimesFacts
  <2> QED BY <1>1, <2>1, <2>2, CopiesKept DEF Exact
<1>8. ComingInv'
  <2>1. pc' = pc /\ call' = call /\ sent' = sent
    BY <1>1 DEF tester
  <2>2. pc = "ack" => ComingInv'
    <3> SUFFICES ASSUME pc = "ack" PROVE ComingInv'
      OBVIOUS
    <3>1. Within(toPeer, toPeer', {"data"})
      BY <1>1, <1>6
    <3>2. Ack(call.awaited).kind = "ack"
      BY DEF Ack
    <3>3. pc' # "alive"
      BY <2>1
    <3>4. CASE \E a \in DOMAIN toPeer :
                 toPeer[a].kind = "data" /\ Asks(toPeer[a]) /\ toPeer[a].seq = call.awaited
      <4>1. \E a \in DOMAIN toPeer' :
              toPeer'[a].kind = "data" /\ Asks(toPeer'[a]) /\ toPeer'[a].seq = call.awaited
        BY <3>1, <3>4 DEF Within
      <4> QED BY <2>1, <3>3, <4>1 DEF ComingInv
    <3>5. CASE \E a \in DOMAIN (msgs \o toTester) : (msgs \o toTester)[a] = Ack(call.awaited)
      <4>1. \E a \in DOMAIN (msgs' \o toTester') : (msgs' \o toTester')[a] = Ack(call.awaited)
        BY <1>4, <3>2, <3>5 DEF Within
      <4> QED BY <2>1, <3>3, <4>1 DEF ComingInv
    <3>6. CASE Served
      <4>1. Served'
        BY <1>1, <2>1, <3>6 DEF Served
      <4> QED BY <3>3, <4>1 DEF ComingInv
    <3> QED BY <3>4, <3>5, <3>6 DEF Exact, ComingInv
  <2>3. pc = "alive" => ComingInv'
    <3> DEFINE q == msgs \o toTester
    <3>1. Len(q) + 1 \in DOMAIN Append(q, w) /\ Append(q, w)[Len(q) + 1] = w
      <4>1. q \in Seq(Wireable)
        BY <1>4
      <4> HIDE DEF q
      <4> QED BY <1>2, <4>1, AppendFacts
    <3>2. \E a \in DOMAIN (msgs' \o toTester') : (msgs' \o toTester')[a].kind = "pong"
      BY <1>2, <1>4, <3>1
    <3>3. (\E a \in DOMAIN (msgs \o toTester) : (msgs \o toTester)[a].kind = "pong")'
      BY <3>2
    <3> QED BY <2>1, <3>3 DEF ComingInv
  <2>4. pc \notin {"ack", "alive"} => ComingInv'
    BY <2>1 DEF ComingInv
  <2> QED BY <2>2, <2>3, <2>4
<1> QED BY <1>1, <1>4, <1>5, <1>6, <1>7, <1>8, ExactReadsSame

\* The peer repeats the frame that awaits its ACK: the client has read it by then.
LEMMA ExactPeerRepeats ==
    ASSUME Types, Types', Exact, PeerRepeats
    PROVE  Exact'
<1> DEFINE g == peer.await[1]
           ack == Ack(g.seq)
<1>1. /\ peer.await # <<>> /\ toTester' = toTester \o peer.await /\ peer' = [peer EXCEPT !.repeats = @ + 1]
      /\ upsets' = upsets /\ UNCHANGED <<tester, toPeer>>
  BY DEF PeerRepeats, ToTester, Calm
<1>2. peer \in Other /\ peer.repeats \in Nat /\ toTester \in Seq(Wireable)
  BY TypesOpen
<1>3. /\ peer'.in = peer.in /\ peer'.served = peer.served /\ peer'.out = peer.out /\ peer'.tx = peer.tx
      /\ peer'.todo = peer.todo /\ peer'.closed = peer.closed /\ peer'.await = peer.await
      /\ peer'.repeats = peer.repeats + 1
  BY <1>1, <1>2 DEF Other
<1>4. g \in Frames /\ peer.await = <<g>> /\ g \in Wireable /\ g.kind = "data"
  BY <1>1, AwaitFacts, WireableFacts
<1>5. toTester' = Append(toTester, g)
  <2> HIDE DEF g
  <2> QED BY <1>1, <1>2, <1>4
<1>6. ClientThen.at.acked = <<g>> /\ Asks(g) /\ After(g.seq) = ClientThen.at.seq
  BY <1>1, <1>4 DEF Exact, RepliesInv
<1> HIDE DEF g
<1>7. /\ ClientThen' = Taken(ClientThen, g) /\ Incoming' = Seen' \o toTester'
      /\ Times(g, Incoming) \in Nat /\ Times(g, Incoming') = Times(g, Incoming) + 1
      /\ Only(toTester', {"data", "ack", "pong"})
      /\ Within(msgs \o toTester, msgs' \o toTester', {"ack", "pong"})
  BY <1>1, <1>4, <1>5, ToTesterGrows
<1>8. ClientThen' = ClientThen
  <2>1. ClientThen \in Readers
    BY NowFacts
  <2> QED BY <1>4, <1>6, <1>7, <2>1, TakenAgain
<1>9. PeerThen' = PeerThen
  BY <1>1, <1>3 DEF PeerThen, PeerNow
<1>10. CopiesInv'
  <2> DEFINE x == Times(g, Incoming)
             z == Times(ack, toPeer)
  <2>1. "loseAck" \notin Unbounded => upsets + x + z >= peer.repeats + 1
    BY <1>1 DEF Exact, CopiesInv, Incoming, g
  <2>2. z \in Nat /\ upsets \in Nat
    <3>1. toPeer \in Seq(Wireable) /\ upsets \in Nat
      BY TypesOpen
    <3> HIDE DEF ack
    <3> QED BY <3>1, TimesFacts
  <2>3. "loseAck" \notin Unbounded => upsets' + Times(g, Incoming') + z >= peer'.repeats + 1
    <3> HIDE DEF x, z
    <3>1. Times(g, Incoming') = x + 1 /\ x \in Nat
      BY <1>7 DEF x
    <3> QED BY <1>1, <1>2, <1>3, <2>1, <2>2, <3>1
  <2>4. Times(peer'.await[1], (Seen \o toTester)') = Times(g, Incoming') /\ Times(Ack(peer'.await[1].seq), toPeer') = z
    BY <1>1, <1>3, <1>7 DEF g
  <2> HIDE DEF z
  <2> QED BY <1>1, <1>3, <2>3, <2>4 DEF CopiesInv
<1>11. ComingInv'
  <2>1. pc' = pc /\ call' = call /\ sent' = sent
    BY <1>1 DEF tester
  <2>2. Served => Served'
    BY <1>3, <2>1 DEF Served
  <2>3. Within(toPeer, toPeer', {"data", "ping"})
    BY <1>1 DEF Within
  <2> QED BY <1>7, <2>1, <2>2, <2>3, ComingKept DEF Exact
<1>12. Only(toPeer', {"data", "ack", "ping"})
  BY <1>1, Calmly DEF Exact
<1> QED BY <1>1, <1>3, <1>7, <1>8, <1>9, <1>10, <1>11, <1>12, ExactReadsSame

\* The next frame, number n + 1 of the reply m, whose frames began at the number s, goes.
Goes(m, s, n) ==
    /\ Sendable(m) /\ n < NumFrames(m)
    /\ Outgoing = SubSeq(SegmentMessage(m, s, PeerBlock), n + 1, NumFrames(m))
    /\ Reading(ClientThen.at, m, n) /\ peer.tx = (s + n) % SeqNums
    /\ m \in Range(Answers(Len(peer.served)))
LEMMA ExactReplyGoes ==
    ASSUME Types, Types', Exact, PeerSends, NEW m, NEW s \in Seqs, NEW n \in Nat, Goes(m, s, n),
           Append(ClientThen.got, m) \o peer'.todo = Answers(Len(peer.served))
    PROVE  Exact'
<1> DEFINE f == Head(Outgoing)
           w == SegmentMessage(m, s, PeerBlock)
           size == NumFrames(m)
           then == Taken(ClientThen, f)
<1>1. /\ toTester' = toTester \o <<f>> /\ UNCHANGED tester /\ toPeer' = toPeer /\ upsets' = upsets
      /\ ~peer.closed /\ peer.await = <<>> /\ (peer.out # <<>> \/ peer.todo # <<>>)
      /\ \E t : peer' = [peer EXCEPT !.out = Tail(Outgoing), !.tx = After(f.seq), !.todo = t,
                                     !.await = IF Asks(f) THEN <<f>> ELSE <<>>]
  BY DEF PeerSends, Outgoing, ToTester, Calm
<1>2. peer \in Other /\ toTester \in Seq(Wireable) /\ ClientThen \in Readers /\ PeerBlock \in Nat
  BY TypesOpen, NowFacts, TalkFacts
<1>3. /\ peer'.in = peer.in /\ peer'.served = peer.served /\ peer'.out = Tail(Outgoing) /\ peer'.tx = After(f.seq)
      /\ peer'.await = (IF Asks(f) THEN <<f>> ELSE <<>>) /\ peer'.closed = peer.closed
      /\ peer'.repeats = peer.repeats
  <2> HIDE DEF f
  <2> QED BY <1>1, <1>2 DEF Other
<1>4. f \in Frames /\ f \in Wireable /\ f.kind = "data" /\ f.seq \in Seqs
  <2>1. Outgoing \in Seq(Frames) /\ Outgoing # <<>>
    BY <1>1, OutgoingFacts
  <2> QED BY <2>1, TailFacts, WireableFacts
<1>5. w \in Seq(Frames) /\ Len(w) = size /\ size \in Nat \ {0}
  BY <1>2, SegmentFacts DEF Goes
<1>6. /\ f = w[n + 1] /\ peer'.out = SubSeq(w, (n + 1) + 1, size) /\ Len(peer'.out) = size - (n + 1)
      /\ n + 1 \in 1..size
  <2>1. n + 1 \in 1..Len(w)
    <3>1. n < size
      BY DEF Goes
    <3> HIDE DEF w, size
    <3> QED BY <1>5, <3>1
  <2>2. LET v == SubSeq(w, n + 1, Len(w))
        IN  /\ v # <<>> /\ Len(v) = Len(w) - (n + 1) + 1 /\ Head(v) = w[n + 1]
            /\ Tail(v) = SubSeq(w, (n + 1) + 1, Len(w)) /\ Len(Tail(v)) = Len(v) - 1
    <3> HIDE DEF w
    <3> QED BY <1>5, <2>1, WindowShrinks
  <2>3. Outgoing = SubSeq(w, n + 1, Len(w))
    BY <1>5 DEF Goes
  <2>4. size - (n + 1) + 1 - 1 = size - (n + 1)
    BY <1>5
  <2>5. Head(Outgoing) = w[n + 1] /\ Tail(Outgoing) = SubSeq(w, (n + 1) + 1, Len(w))
        /\ Len(Outgoing) = Len(w) - (n + 1) + 1 /\ Len(Tail(Outgoing)) = Len(Outgoing) - 1
    <3> DEFINE v == SubSeq(w, n + 1, Len(w))
    <3>1. Len(v) = Len(w) - (n + 1) + 1 /\ Head(v) = w[n + 1]
          /\ Tail(v) = SubSeq(w, (n + 1) + 1, Len(w)) /\ Len(Tail(v)) = Len(v) - 1
      BY <2>2
    <3>2. Outgoing = v
      BY <2>3
    <3> HIDE DEF v, w
    <3> QED BY <3>1, <3>2, Zenon
  <2>6. Tail(Outgoing) = SubSeq(w, (n + 1) + 1, size) /\ Len(Tail(Outgoing)) = size - (n + 1) /\ n + 1 \in 1..size
    <3>1. Len(Tail(Outgoing)) = Len(Outgoing) - 1 /\ Len(Outgoing) = size - (n + 1) + 1
      BY <1>5, <2>5
    <3> DEFINE k == Len(Tail(Outgoing))
               j == Len(Outgoing)
    <3> HIDE DEF size, k, j
    <3>2. k = size - (n + 1)
      <4>1. k = j - 1 /\ j = size - (n + 1) + 1 /\ size \in Nat
        BY <1>5, <3>1 DEF k, j
      <4> QED BY <4>1
    <3> HIDE DEF w
    <3> QED BY <1>5, <2>1, <2>5, <3>2 DEF k
  <2> QED BY <1>3, <2>5, <2>6
<1>7. ClientThen.at.seq = peer.tx /\ ~ClientThen.wrong
  BY DEF Exact, RepliesInv
<1>8. /\ (then.wrong <=> ClientThen.wrong) /\ then.at.seq = After(f.seq) /\ After(f.seq) = (s + (n + 1)) % SeqNums
      /\ n + 1 # size => Reading(then.at, m, n + 1) /\ then.got = ClientThen.got
      /\ n + 1 = size => Empty(then.at) /\ then.got = Append(ClientThen.got, m)
      /\ Asks(f) => then.at.acked = <<f>>
  <2>1. f = SegmentMessage(m, s, PeerBlock)[n + 1] /\ ClientThen.at.seq = (s + n) % SeqNums
    BY <1>6, <1>7 DEF Goes
  <2> HIDE DEF f
  <2>2. /\ (Taken(ClientThen, f).wrong <=> ClientThen.wrong)
        /\ Taken(ClientThen, f).at.seq = After(f.seq) /\ After(f.seq) = (s + (n + 1)) % SeqNums
        /\ n + 1 # NumFrames(m) => /\ Reading(Taken(ClientThen, f).at, m, n + 1)
                                   /\ Taken(ClientThen, f).got = ClientThen.got
        /\ n + 1 = NumFrames(m) => /\ Empty(Taken(ClientThen, f).at) /\ Asks(f)
                                   /\ Taken(ClientThen, f).got = Append(ClientThen.got, m)
        /\ Asks(f) => Taken(ClientThen, f).at.acked = <<f>>
    <3> DEFINE c == ClientThen
               b == PeerBlock
    <3>1. c \in Readers /\ b \in Nat /\ f = SegmentMessage(m, s, b)[n + 1] /\ c.at.seq = (s + n) % SeqNums
          /\ Reading(c.at, m, n) /\ Sendable(m) /\ n < NumFrames(m)
      BY <1>2, <2>1 DEF Goes
    <3> HIDE DEF c, b
    <3>2. /\ (Taken(c, f).wrong <=> c.wrong)
          /\ Taken(c, f).at.seq = After(f.seq) /\ After(f.seq) = (s + (n + 1)) % SeqNums
          /\ n + 1 # NumFrames(m) => Reading(Taken(c, f).at, m, n + 1) /\ Taken(c, f).got = c.got
          /\ n + 1 = NumFrames(m) => Empty(Taken(c, f).at) /\ Asks(f) /\ Taken(c, f).got = Append(c.got, m)
          /\ Asks(f) => Taken(c, f).at.acked = <<f>>
      <4>1. /\ (Taken(c, f).wrong <=> c.wrong)
            /\ Taken(c, f).at.seq = After(f.seq) /\ After(f.seq) = (s + (n + 1)) % SeqNums
        BY <3>1, TakenNext
      <4>2. n + 1 # NumFrames(m) => Reading(Taken(c, f).at, m, n + 1) /\ Taken(c, f).got = c.got
        BY <3>1, TakenNext
      <4>3. n + 1 = NumFrames(m) => Empty(Taken(c, f).at) /\ Asks(f) /\ Taken(c, f).got = Append(c.got, m)
        BY <3>1, TakenNext
      <4>4. Asks(f) => Taken(c, f).at.acked = <<f>>
        <5> DEFINE u == <<f>>
        <5>1. u = <<f>>
          OBVIOUS
        <5>2. \A e : Asks(f) /\ e = <<f>> => Taken(c, f).at.acked = e
          BY <3>1, TakenNext
        <5> QED BY <5>1, <5>2, Zenon
      <4> QED BY <4>1, <4>2, <4>3, <4>4
    <3> QED BY <3>2 DEF c
  <2> QED BY <2>2
<1> HIDE DEF f, then
<1>9. toTester' = Append(toTester, f)
  BY <1>1, <1>2, <1>4
<1>10. /\ ClientThen' = then /\ Incoming' = Seen' \o toTester'
       /\ Times(f, Incoming) \in Nat /\ Times(f, Incoming') = Times(f, Incoming) + 1
       /\ Only(toTester', {"data", "ack", "pong"})
       /\ Within(msgs \o toTester, msgs' \o toTester', {"ack", "pong"})
  BY <1>1, <1>4, <1>9, ToTesterGrows DEF then
<1>11. UNCHANGED <<pc, txSeq, part, msgs, connected, call, sent, results, failed>>
  BY <1>1 DEF tester
<1>12. Undisturbed'
  BY <1>1, <1>3, <1>10, <1>11 DEF Exact, Undisturbed, Waits, Only
<1>13. DueInv'
  BY <1>11 DEF Exact, DueInv, Asking, Answers
<1>14. PeerThen' = PeerThen
  BY <1>1, <1>3 DEF PeerThen, PeerNow
<1>15. RequestsInv'
  BY <1>11, <1>14, RequestsKept DEF Exact
<1>16. RepliesInv'
  <2>1. Answers(Len(peer'.served)) = Answers(Len(peer.served))
    BY <1>3 DEF Answers
  <2>2. ~then.wrong /\ then.at.seq = peer'.tx
    BY <1>3, <1>7, <1>8
  <2>3. peer'.await # <<>> => /\ then.at.acked = peer'.await /\ Asks(peer'.await[1])
                             /\ After(peer'.await[1].seq) = peer'.tx
    <3>1. CASE Asks(f)
      <4>1. peer'.await = <<f>> /\ <<f>>[1] = f
        BY <1>3, <3>1
      <4>2. peer'.await[1] = f
        BY <4>1
      <4>3. then.at.acked = <<f>>
        BY <1>8, <3>1
      <4> QED BY <1>3, <3>1, <4>1, <4>2, <4>3
    <3>2. CASE ~Asks(f)
      BY <1>3, <3>2
    <3> QED BY <3>1, <3>2
  <2>4. CASE n + 1 = size
    <3>1. peer'.out = <<>>
      <4>1. peer'.out \in Seq(Frames) /\ \A e \in Seq(Frames) : Len(e) = 0 => e = <<>>
        <5>1. Tail(Outgoing) \in Seq(Frames)
          BY <1>1, OutgoingFacts, TailFacts
        <5> QED BY <1>3, <5>1
      <4>2. Len(peer'.out) = 0
        <5> HIDE DEF size
        <5> QED BY <1>5, <1>6, <2>4
      <4> QED BY <4>1, <4>2
    <3>2. then.got \o peer'.todo = Answers(Len(peer'.served))
      BY <1>8, <2>1, <2>4
    <3>4. Resting(ClientThen.at, ClientThen.got)'
        BY <1>8, <1>10, <2>4, <3>1, <3>2 DEF Resting, Empty
    <3> QED BY <1>10, <2>2, <2>3, <3>4 DEF RepliesInv
  <2>5. CASE n + 1 # size
    <3>1. peer'.out # <<>>
      <4>1. \A e : e = <<>> => Len(e) = 0
        OBVIOUS
      <4>2. Len(peer'.out) # 0
        <5> HIDE DEF size
        <5> QED BY <1>5, <1>6, <2>5
      <4> QED BY <4>1, <4>2
    <3>2. size - Len(peer'.out) = n + 1 /\ n + 1 \in 0..size
      <4> HIDE DEF size
      <4> QED BY <1>5, <1>6
    <3>3. /\ Reading(then.at, m, n + 1) /\ peer'.tx = (s + (n + 1)) % SeqNums
          /\ Append(then.got, m) \o peer'.todo = Answers(Len(peer'.served))
      BY <1>3, <1>8, <2>1, <2>5
    <3>4. m \in Range(Answers(Len(peer'.served)))
      BY <2>1 DEF Goes
    <3>5. Replying(ClientThen.at, ClientThen.got, m, s)'
      BY <1>6, <1>10, <3>1, <3>2, <3>3 DEF Replying, Reading
    <3> QED BY <1>10, <2>2, <2>3, <3>4, <3>5 DEF RepliesInv
  <2> QED BY <2>4, <2>5
<1>17. CopiesInv'
  <2>1. peer.repeats = 0 /\ peer'.repeats = 0
    BY <1>1, <1>3 DEF Exact, CopiesInv
  <2>2. ASSUME peer'.await # <<>> PROVE upsets' + Times(f, Incoming') + Times(Ack(f.seq), toPeer') >= 0 + 1
    <3> DEFINE x == Times(f, Incoming)
               z == Times(Ack(f.seq), toPeer')
    <3>1. z \in Nat
      <4>1. toPeer \in Seq(Wireable)
        BY TypesOpen
      <4> QED BY <1>1, <4>1, TimesFacts
    <3>2. upsets' \in Nat
      BY <1>1, TypesOpen
    <3>3. Times(f, Incoming') = x + 1 /\ x \in Nat
      BY <1>10
    <3> HIDE DEF x, z
    <3>4. \A u, i, k \in Nat : u + (i + 1) + k >= 0 + 1
      OBVIOUS
    <3>5. x \in Nat
      BY <3>3
    <3>6. upsets' + (x + 1) + z >= 0 + 1
      BY <3>1, <3>2, <3>4, <3>5
    <3> QED BY <3>3, <3>6 DEF z
  <2>3. peer'.await # <<>> => peer'.await[1] = f
    BY <1>3
  <2> QED BY <1>10, <2>1, <2>2, <2>3 DEF CopiesInv
<1>18. ComingInv'
  <2>1. Served => Served'
    BY <1>3, <1>11 DEF Served
  <2>2. Within(toPeer, toPeer', {"data", "ping"})
    BY <1>1 DEF Within
  <2> QED BY <1>10, <1>11, <2>1, <2>2, ComingKept DEF Exact
<1> QED BY <1>12, <1>13, <1>15, <1>16, <1>17, <1>18 DEF Exact

\* The peer sends the next frame of a reply, or the first of the next.
LEMMA ExactPeerSends ==
    ASSUME Types, Types', Exact, PeerSends
    PROVE  Exact'
<1> DEFINE given == ClientThen.got
           all == Answers(Len(peer.served))
<1>1. /\ peer.out # <<>> \/ peer.todo # <<>>
      /\ peer'.todo = IF peer.out # <<>> THEN peer.todo ELSE Tail(peer.todo)
  <2> DEFINE f == Head(Outgoing)
             t == IF peer.out # <<>> THEN peer.todo ELSE Tail(peer.todo)
  <2>1. peer' = [peer EXCEPT !.out = Tail(Outgoing), !.tx = After(f.seq), !.todo = t,
                             !.await = IF Asks(f) THEN <<f>> ELSE <<>>]
    BY DEF PeerSends, Outgoing
  <2>2. peer \in Other
    BY TypesOpen
  <2> HIDE DEF f, t
  <2>3. peer'.todo = t
    BY <2>1, <2>2 DEF Other
  <2> QED BY <2>3 DEF PeerSends, t
<1>2. /\ given \in Seq(Seq(Bytes)) /\ all \in Seq(Seq(Bytes)) /\ peer.todo \in Seq(Seq(Bytes))
      /\ peer.out \in Seq(Frames) /\ peer.tx \in Seqs /\ PeerBlock \in Nat
  BY TypesOpen, GivenSoFar, TalkFacts DEF Exact
<1>3. ASSUME NEW m \in Range(all) PROVE Sendable(m)
  <2>1. Len(peer.served) \in Nat /\ Len(peer.served) + 0 <= Len(Replies)
    BY ServedSoFar, TalkFacts DEF Exact
  <2>2. \A i \in 1..Len(all) : Sendable(all[i])
    BY <2>1, AnswersMore
  <2>3. DOMAIN all = 1..Len(all)
    BY <1>2
  <2> HIDE DEF all
  <2> QED BY <2>2, <2>3 DEF Range
<1>4. CASE peer.out # <<>>
  <2>1. PICK m \in Range(all), s \in Seqs : Replying(ClientThen.at, given, m, s)
    BY <1>4 DEF Exact, RepliesInv, Resting
  <2> DEFINE n == NumFrames(m) - Len(peer.out)
             size == NumFrames(m)
  <2>2. /\ n \in 0..size /\ peer.out = SubSeq(SegmentMessage(m, s, PeerBlock), n + 1, size)
        /\ Reading(ClientThen.at, m, n) /\ peer.tx = (s + n) % SeqNums /\ Append(given, m) \o peer.todo = all
    BY <2>1 DEF Replying
  <2>3. Sendable(m) /\ size \in Nat
    BY <1>2, <1>3, SegmentFacts
  <2>4. n \in Nat /\ n < size
    <3>1. Len(peer.out) \in Nat /\ Len(peer.out) # 0
      BY <1>2, <1>4
    <3> HIDE DEF size
    <3> QED BY <2>2, <2>3, <3>1 DEF size
  <2>5. Outgoing = peer.out /\ peer'.todo = peer.todo
    BY <1>1, <1>4 DEF Outgoing
  <2>6. Goes(m, s, n)
    BY <2>2, <2>3, <2>4, <2>5 DEF Goes
  <2> HIDE DEF n
  <2> QED BY <2>2, <2>4, <2>5, <2>6, ExactReplyGoes
<1>5. CASE peer.out = <<>>
  <2> DEFINE m == Head(peer.todo)
             s == peer.tx
             size == NumFrames(m)
  <2>1. Empty(ClientThen.at) /\ given \o peer.todo = all
    BY <1>5 DEF Exact, RepliesInv, Resting, Replying
  <2>2. peer.todo # <<>> /\ peer'.todo = Tail(peer.todo) /\ m \in Seq(Bytes)
    BY <1>1, <1>2, <1>5, TailFacts
  <2>3. Append(given, m) \o peer'.todo = all
    <3> HIDE DEF given, all
    <3> QED BY <1>2, <2>1, <2>2, HeadMoves
  <2>4. m \in Range(all)
    <3> DEFINE t == peer.todo
    <3>1. t \in Seq(Seq(Bytes)) /\ t # <<>> /\ Head(t) = t[1] /\ Len(t) \in Nat \ {0}
      BY <1>2, <2>2, TailFacts
    <3>2. given \o t = all
      BY <2>1
    <3> HIDE DEF given, all, t
    <3>3. Len(given) + 1 \in DOMAIN all /\ all[Len(given) + 1] = Head(t)
      BY <1>2, <3>1, <3>2
    <3> QED BY <3>3 DEF Range, t
  <2>5. Sendable(m)
    BY <1>3, <2>4
  <2>6. Outgoing = SubSeq(SegmentMessage(m, s, PeerBlock), 0 + 1, size)
    <3> DEFINE w == SegmentMessage(m, s, PeerBlock)
    <3>1. w \in Seq(Frames) /\ Len(w) = size /\ 0 + 1 = 1
      <4> HIDE DEF m
      <4> QED BY <1>2, <2>5, SegmentFacts
    <3>2. Outgoing = w
      BY <1>5 DEF Outgoing
    <3>3. SubSeq(w, 1, Len(w)) = w
      <4> HIDE DEF w
      <4> QED BY <3>1, WholeWindow
    <3> HIDE DEF w, size
    <3> QED BY <3>1, <3>2, <3>3 DEF w
  <2>7. Reading(ClientThen.at, m, 0) /\ 0 \in Nat /\ 0 < size
    <3>1. size \in Nat \ {0}
      <4> HIDE DEF m
      <4> QED BY <1>2, <2>5, SegmentFacts
    <3>2. \A e : Sendable(e) => Reading(ClientThen.at, e, 0)
      BY <2>1, EmptyCount
    <3> QED BY <2>5, <3>1, <3>2
  <2>8. peer.tx = (s + 0) % SeqNums
    <3>1. s \in 0..(SeqNums - 1) /\ SeqNums \in Nat /\ SeqNums >= 2
      BY <1>2, SeqNumsFact
    <3> QED BY <3>1, Onward
  <2>9. Goes(m, s, 0)
    BY <2>4, <2>5, <2>6, <2>7, <2>8 DEF Goes
  <2> HIDE DEF m, s
  <2>10. s \in Seqs /\ 0 \in Nat
    BY <1>2 DEF s
  <2> QED BY <2>3, <2>9, <2>10, ExactReplyGoes
<1> QED BY <1>4, <1>5

\* What only trouble brings does not happen.
LEMMA ExactQuiet ==
    ASSUME Types, Exact, spoilt' = FALSE
    PROVE  /\ ~WaitFrame /\ ~Ping /\ ~Closed /\ ~PeerPonged /\ ~PeerClosed /\ ~Unheard
           /\ ~PeerAsks /\ ~PeerCloses /\ ~LoseToTester
<1>1. Undisturbed /\ ~peer.closed
  BY DEF Exact, Undisturbed
<1>2. ASSUME NEW stage, NEW k \in {"wait", "ping", "close"}, Takes(stage, k) PROVE FALSE
  BY <1>1, <1>2, MeetsFacts DEF Takes
<1>3. ASSUME NEW k \in {"pong", "close"}, PeerTakes(k) PROVE FALSE
  <2>1. toPeer \in Seq(Wireable) /\ toPeer # <<>> /\ Head(toPeer).kind = k
    BY <1>3, TypesOpen DEF PeerTakes
  <2>2. Only(toPeer, {"data", "ack", "ping"})
    BY <1>1, Calmly
  <2>3. Head(toPeer).kind \in {"data", "ack", "ping"}
    BY <2>1, <2>2, OnlyFacts
  <2> QED BY <1>3, <2>1, <2>3
<1>4. ASSUME NEW what, Upset(what), what # "loseAck" PROVE FALSE
  BY <1>4 DEF Upset
<1> QED BY <1>1, <1>2, <1>3, <1>4
    DEF WaitFrame, Ping, Closed, PeerPonged, PeerClosed, Unheard, PeerAsks, PeerCloses, LoseToTester

LEMMA ExactStep ==
    ASSUME Types, Exact, [Next]_vars, spoilt' = FALSE, failed' = FALSE, pc' # "closed"
    PROVE  Exact'
<1>1. Types'
  BY TypesStep
<1>2. ~Closed /\ ~TimeOut
  BY Clean
<1>3. ~Disconnect
  BY DEF Disconnect
<1>4. CASE Begin \/ Transmit \/ Pull
  BY <1>1, <1>4, ExactBegin, ExactTransmit, ExactPull
<1>5. CASE Ignored \/ AckArrives \/ AckByData
  BY <1>1, <1>5, ExactIgnored, ExactAckArrives, ExactAckByData
<1>6. CASE RecvData \/ Alive \/ Defer
  BY <1>1, <1>6, ExactRecvData, ExactAlive, ExactDefer
<1>7. CASE PeerData \/ PeerAcked \/ PeerPinged
  BY <1>1, <1>7, ExactPeerData, ExactPeerAcked, ExactPeerPinged
<1>8. CASE PeerSends \/ PeerRepeats \/ LoseToPeer
  BY <1>1, <1>8, ExactPeerSends, ExactPeerRepeats, ExactLoseToPeer
<1>9. CASE UNCHANGED vars
  <2>1. UNCHANGED tester /\ UNCHANGED <<toPeer, toTester, peer, upsets>>
    BY <1>9 DEF vars
  <2>2. PeerThen' = PeerThen
    BY <2>1 DEF PeerThen, PeerNow
  <2>3. ClientThen' = ClientThen /\ Incoming' = Incoming /\ msgs' \o toTester' = msgs \o toTester
    BY <2>1, ClientSame
  <2>4. Only(toPeer', {"data", "ack", "ping"}) /\ Only(toTester', {"data", "ack", "pong"})
    BY <2>1, Calmly DEF Exact
  <2>5. CopiesInv'
    BY <2>1, <2>3, CopiesKept DEF Exact
  <2>6. ComingInv'
    <3>1. pc' = pc /\ call' = call /\ sent' = sent
      BY <2>1 DEF tester
    <3>2. Served => Served'
      BY <2>1, <3>1 DEF Served
    <3>3. Within(toPeer, toPeer', {"data", "ping"}) /\ Within(msgs \o toTester, msgs' \o toTester', {"ack", "pong"})
      BY <2>1, <2>3 DEF Within
    <3> QED BY <3>1, <3>2, <3>3, ComingKept DEF Exact
  <2> QED BY <2>1, <2>2, <2>3, <2>4, <2>5, <2>6, ExactReadsSame
<1> QED BY <1>2, <1>3, <1>4, <1>5, <1>6, <1>7, <1>8, <1>9, ExactQuiet
    DEF Next, Tester, Peer, Answering, Befalling

\* While nothing but what the tester waits for can come, it comes: the deadline does
\* not pass.
LEMMA NothingMissed ==
    ASSUME Types, Exact, MaxUpsets <= MaxRepeats, "loseAck" \notin Unbounded, TimeOut, spoilt' = FALSE
    PROVE  FALSE
<1>1. /\ pc \in Waits /\ call.left > 0 /\ ~peer.closed
  BY DEF TimeOut, Exact, Undisturbed, Timeout
<1>2. /\ msgs = <<>> /\ toTester = <<>> /\ toPeer = <<>>
      /\ \/ peer.await # <<>> /\ peer.repeats = MaxRepeats
         \/ peer.await = <<>> /\ peer.out = <<>> /\ peer.todo = <<>>
  <2>1. ~Upset("late")
    BY DEF Upset
  <2>2. call.left # 0
    BY <1>1
  <2> QED BY <1>1, <2>1, <2>2 DEF TimeOut, Silent
<1>3. msgs \o toTester = <<>> /\ DOMAIN toPeer = {} /\ DOMAIN (msgs \o toTester) = {}
  BY <1>2
<1>4. pc # "alive"
  BY <1>3 DEF Exact, ComingInv
<1>5. call.deferred = <<>> /\ call.held = <<>>
  <2>1. Len(call.held) = 0 /\ call.held \in AtMostOne(Seq(Bytes))
    BY <1>4, TypesOpen DEF Exact, DueInv
  <2> QED BY <1>4, <2>1 DEF Exact, DueInv, AtMostOne
<1>6. Incoming = <<>> /\ Incoming = Seen \o toTester
  BY <1>2, <1>5 DEF Incoming, Seen
<1>7. peer.await = <<>>
  <2>1. ASSUME peer.await # <<>> PROVE FALSE
    <3> DEFINE x == Times(peer.await[1], Incoming)
               y == Times(Ack(peer.await[1].seq), toPeer)
    <3>1. upsets + x + y >= peer.repeats + 1
      BY <1>6, <2>1 DEF Exact, CopiesInv
    <3>2. x = 0 /\ y = 0
      <4>1. Incoming \in Seq(Wireable) /\ toPeer \in Seq(Wireable)
        BY NowFacts
      <4> QED BY <1>2, <1>6, <4>1, TimesFacts
    <3>3. upsets \in 0..MaxUpsets /\ MaxUpsets \in Nat /\ MaxRepeats \in Nat /\ peer.repeats = MaxRepeats
      BY <1>2, <2>1, TypesOpen, TalkFacts
    <3> HIDE DEF x, y
    <3> QED BY <3>1, <3>2, <3>3
  <2> QED BY <2>1
<1>8. results = Answers(Len(peer.served))
  <2>1. ClientThen.got = results
    <3>1. ClientThen = ClientNow
      BY <1>6, NowFacts, BehindFacts
    <3>2. ClientNow.got = results \o <<>> /\ results \in Seq(Seq(Bytes))
      BY <1>5, NowFacts, TypesOpen
    <3> QED BY <3>1, <3>2
  <2>2. Resting(ClientThen.at, ClientThen.got)
    BY <1>2, <1>7 DEF Exact, RepliesInv, Replying
  <2>3. results \in Seq(Seq(Bytes)) /\ results \o <<>> = Answers(Len(peer.served))
    BY <1>2, <1>7, <2>1, <2>2, TypesOpen DEF Resting
  <2> QED BY <2>3
<1>9. Len(peer.served) = sent
  <2>1. CASE pc = "ack"
    BY <1>3, <2>1 DEF Exact, ComingInv, Served
  <2>2. CASE pc # "ack"
    <3>1. call.job = <<>>
      BY <1>1, <2>2 DEF Exact, DueInv, Asking, Waits
    <3>2. PeerThen = PeerNow
      BY <1>2, NowFacts, BehindFacts
    <3>3. Len(peer.served) = Len(PeerThen.got)
      BY <3>2, NowFacts
    <3> QED BY <3>1, <3>3, PeerReads DEF Exact
  <2> QED BY <2>1, <2>2
<1>10. Len(results) + call.due = Len(Answers(sent)) /\ call.due \in Nat /\ call.due > 0
  BY <1>1, TypesOpen DEF Exact, DueInv, Waits
<1>11. Len(results) = Len(Answers(sent)) /\ Len(results) \in Nat
  BY <1>8, <1>9, TypesOpen
<1> QED BY <1>10, <1>11

LEMMA NoRaise ==
    ASSUME Types, Exact, failed = FALSE, MaxUpsets <= MaxRepeats, "loseAck" \notin Unbounded,
           [Next]_vars, spoilt' = FALSE
    PROVE  failed' = FALSE
<1>1. ~TimeOut
  BY NothingMissed
<1>2. CASE Begin \/ Transmit \/ Pull \/ Ignored \/ Disconnect \/ AckArrives \/ AckByData \/ Alive \/ Defer
  BY <1>2 DEF Begin, Transmit, Pull, Ignored, Disconnect, AckArrives, AckByData, Acknowledged, Alive, Defer
<1>3. CASE RecvData
  <2>1. pc = "recv" /\ msgs # <<>> /\ Head(msgs).kind = "data"
    BY <1>3 DEF RecvData, Takes, Meets
  <2>2. ~Wrong(part, Head(msgs))
    BY <2>1, ClientReads
  <2> QED BY <1>3, <2>2 DEF RecvData
<1>4. CASE UNCHANGED tester
  BY <1>4 DEF tester
<1>5. CASE Peer
  <2>1. UNCHANGED tester
    BY <1>5 DEF Peer, Answering, Befalling, PeerData, PeerAcked, PeerPinged, PeerPonged, PeerClosed,
                PeerSends, PeerRepeats, Unheard, PeerAsks, PeerCloses, LoseToPeer, LoseToTester, PeerTakes
  <2> QED BY <1>4, <2>1
<1>6. CASE UNCHANGED vars
  BY <1>4, <1>6 DEF vars
<1> QED BY <1>1, <1>2, <1>3, <1>5, <1>6, ExactQuiet DEF Next, Tester

\* What is spoilt stays so, and a channel that was left is not open again.
LEMMA Onwards ==
    ASSUME [Next]_vars
    PROVE  /\ spoilt' = FALSE => spoilt = FALSE \/ spoilt \notin BOOLEAN
           /\ pc = "closed" => pc' = "closed" /\ failed' = failed
<1>1. ASSUME NEW what, Upset(what) PROVE spoilt' = FALSE => spoilt = FALSE \/ spoilt \notin BOOLEAN
  BY <1>1 DEF Upset
<1>2. CASE Tester
  <2>1. spoilt' = FALSE => spoilt = FALSE \/ spoilt \notin BOOLEAN
    BY <1>1, <1>2 DEF Tester, Begin, Transmit, Pull, WaitFrame, Ping, Closed, Ignored, AckArrives, AckByData,
                 RecvData, Alive, Defer, TimeOut, Disconnect, Takes, Calm
  <2>2. pc # "closed"
    BY <1>2 DEF Tester, Begin, Transmit, Pull, WaitFrame, Ping, Closed, Ignored, AckArrives, AckByData,
                 RecvData, Alive, Defer, TimeOut, Disconnect, Takes, Meets, Waits, Listening
  <2> QED BY <2>1, <2>2
<1>3. CASE Peer
  <2>1. UNCHANGED tester
    BY <1>3 DEF Peer, Answering, Befalling, PeerData, PeerAcked, PeerPinged, PeerPonged, PeerClosed,
                PeerSends, PeerRepeats, Unheard, PeerAsks, PeerCloses, LoseToPeer, LoseToTester, PeerTakes
  <2>2. spoilt' = FALSE => spoilt = FALSE \/ spoilt \notin BOOLEAN
    BY <1>1, <1>3 DEF Peer, Answering, Befalling, PeerData, PeerAcked, PeerPinged, PeerPonged, PeerClosed,
                PeerSends, PeerRepeats, Unheard, PeerAsks, PeerCloses, LoseToPeer, LoseToTester, Calm
  <2> QED BY <2>1, <2>2 DEF tester
<1>4. CASE UNCHANGED vars
  BY <1>4 DEF vars, tester
<1> QED BY <1>2, <1>3, <1>4 DEF Next

LEMMA ExactInit == Init => Exact
<1> SUFFICES ASSUME Init PROVE Exact
  OBVIOUS
<1>1. /\ pc = "idle" /\ txSeq = 0 /\ part = Fresh(0, <<>>) /\ msgs = <<>> /\ call = NoCall /\ sent = 0
      /\ results = <<>> /\ toPeer = <<>> /\ toTester = <<>>
      /\ peer = [PeerInit EXCEPT !.closed = ~TRUE]
  BY DEF Init, InitWith
<1>2. /\ peer.in = Fresh(0, <<>>) /\ peer.tx = 0 /\ peer.out = <<>> /\ peer.await = <<>> /\ peer.todo = <<>>
      /\ peer.served = <<>> /\ peer.repeats = 0 /\ ~peer.closed
      /\ call.job = <<>> /\ call.due = 0 /\ call.held = <<>> /\ call.deferred = <<>>
  BY <1>1 DEF PeerInit, NoCall
<1>3. ~Asking /\ Seen = <<>> /\ Incoming = <<>> /\ Seen \o toTester = <<>>
  BY <1>1, <1>2 DEF Asking, Seen, Incoming
<1>4. Types
  BY TypesInit
<1>5. PeerThen = PeerNow /\ ClientThen = ClientNow
  BY <1>1, <1>3, <1>4, NowFacts, BehindFacts
<1>6. /\ PeerThen.at = Fresh(0, <<>>) /\ PeerThen.got = <<>> /\ ~PeerThen.wrong
      /\ ClientThen.at = Fresh(0, <<>>) /\ ClientThen.got = <<>> /\ ~ClientThen.wrong
  <2>1. results \o call.held = <<>>
    BY <1>1, <1>2
  <2> QED BY <1>1, <1>2, <1>4, <1>5, <2>1, NowFacts
<1>7. Answers(0) = <<>> /\ Len(peer.served) = 0 /\ SubSeq(Requests, 1, 0) = <<>>
  <2>1. Requests \in Seq(Seq(Bytes))
    BY TransportAssumption
  <2> QED BY <1>2, <2>1, AnswersFacts, EmptyWindow
<1>8. Empty(Fresh(0, <<>>)) /\ Fresh(0, <<>>).seq = 0
  BY DEF Empty, Fresh
<1>9. Undisturbed
  BY <1>1, <1>2 DEF Undisturbed, Waits
<1>10. DueInv
  <2>1. Len(results) + call.due = Len(Answers(sent)) /\ Len(call.held) = 0
    BY <1>1, <1>2, <1>7
  <2> QED BY <1>1, <1>2, <1>3, <2>1 DEF DueInv
<1>11. RequestsInv
  BY <1>1, <1>2, <1>6, <1>7, <1>8 DEF RequestsInv
<1>12. RepliesInv
  <2>1. ClientThen.got \o peer.todo = Answers(Len(peer.served))
    BY <1>2, <1>6, <1>7
  <2>2. Resting(ClientThen.at, ClientThen.got)
    BY <1>2, <1>6, <1>8, <2>1 DEF Resting
  <2> QED BY <1>2, <1>6, <1>8, <2>2 DEF RepliesInv
<1>13. CopiesInv /\ ComingInv
  BY <1>1, <1>2 DEF CopiesInv, ComingInv
<1> QED BY <1>9, <1>10, <1>11, <1>12, <1>13 DEF Exact

LEMMA ExactInvStep == Types /\ ExactInv /\ [Next]_vars => ExactInv'
<1> SUFFICES ASSUME Types, ExactInv, [Next]_vars, ~spoilt', ~failed', pc' # "closed"
             PROVE  Exact'
  BY DEF ExactInv
<1>1. Types'
  BY TypesStep
<1>2. spoilt' = FALSE /\ failed' = FALSE /\ spoilt \in BOOLEAN
  BY <1>1, TypesOpen DEF Types, TypeOK
<1>3. failed = FALSE /\ spoilt = FALSE /\ pc # "closed"
  BY <1>2, Clean, Onwards
<1> QED BY <1>2, <1>3, ExactStep DEF ExactInv

\* Exact is an invariant while nothing spoils the channel, no call has raised and the
\* channel is open: for messages of any length, block sizes and numbers of sequence
\* numbers, whatever ACKs are lost and however often the peer repeats a frame.
THEOREM ExactInductive == Spec => [](Types /\ ExactInv)
<1>1. Init => Types /\ ExactInv
  BY TypesInit, ExactInit DEF ExactInv
<1>2. Types /\ ExactInv /\ [Next]_vars => (Types /\ ExactInv)'
  BY TypesStep, ExactInvStep
<1> QED BY <1>1, <1>2, PTL DEF Spec

\* As long as ACKs are lost less often than the peer repeats a frame, no call raises
\* before something else goes wrong: for messages of any length.
THEOREM RetransmissionHandledHolds == Spec => []RetransmissionHandled
<1> DEFINE Invariant == Types /\ ExactInv /\ RetransmissionHandled
<1>1. Init => Invariant
  <2>1. Init => failed = FALSE
    BY DEF Init, InitWith
  <2> QED BY <2>1, TypesInit, ExactInit DEF ExactInv, RetransmissionHandled
<1>2. Invariant /\ [Next]_vars => Invariant'
  <2> SUFFICES ASSUME Invariant, [Next]_vars PROVE Invariant'
    OBVIOUS
  <2>1. Types' /\ ExactInv'
    BY TypesStep, ExactInvStep
  <2>2. ASSUME MaxUpsets <= MaxRepeats, "loseAck" \notin Unbounded, spoilt' = FALSE PROVE failed' = FALSE
    <3>1. failed \in BOOLEAN /\ spoilt \in BOOLEAN
      BY TypesOpen
    <3>2. spoilt = FALSE
      BY <2>2, <3>1, Onwards
    <3>3. failed = FALSE
      BY <2>2, <3>1, <3>2 DEF RetransmissionHandled
    <3>4. CASE pc = "closed"
      BY <3>3, <3>4, Onwards
    <3>5. CASE pc # "closed"
      BY <2>2, <3>2, <3>3, <3>5, NoRaise DEF ExactInv
    <3> QED BY <3>4, <3>5
  <2>3. spoilt' \in BOOLEAN /\ failed' \in BOOLEAN
    BY <2>1 DEF Types, TypeOK
  <2>4. RetransmissionHandled'
    BY <2>2, <2>3 DEF RetransmissionHandled
  <2> QED BY <2>1, <2>4
<1>3. Invariant => RetransmissionHandled
  OBVIOUS
<1> HIDE DEF Invariant
<1> QED BY <1>1, <1>2, <1>3, PTL DEF Spec

LEMMA ExactInOrder ==
    ASSUME Types, Exact
    PROVE  InOrder
<1> DEFINE n == Len(peer.served)
           asked == SubSeq(Requests, 1, sent)
<1>1. /\ n \in Nat /\ n <= sent /\ sent \in Nat /\ sent <= Len(Requests) /\ Len(Requests) \in Nat
      /\ Len(Replies) = Len(Requests) /\ \A i \in 1..n : peer.served[i] = Requests[i]
  BY ServedSoFar, TalkFacts DEF Exact
<1>2. IsPrefix(peer.served, asked)
  <2>1. peer.served \in Seq(Seq(Bytes)) /\ Requests \in Seq(Seq(Bytes))
    BY TypesOpen, TransportAssumption
  <2>2. asked \in Seq(Seq(Bytes)) /\ Len(asked) = sent /\ \A i \in 1..sent : asked[i] = Requests[i]
    <3>1. 1 \in Nat /\ 1 <= 1 /\ 1 <= sent + 1 /\ sent - 1 + 1 = sent /\ \A i \in 1..sent : 1 + i - 1 = i
      BY <1>1
    <3> QED BY <1>1, <2>1, <3>1, WindowFacts
  <2>3. \A i \in 1..n : i \in 1..sent
    BY <1>1
  <2> HIDE DEF asked
  <2> QED BY <1>1, <2>1, <2>2, <2>3, Prefix
<1>3. IsPrefix(results, Answers(sent))
  <2> DEFINE d == sent - n
             a == Answers(n)
             b == Answers(sent)
  <2>1. d \in Nat /\ n + d = sent /\ n + d <= Len(Replies)
    BY <1>1
  <2>2. a \in Seq(Seq(Bytes)) /\ b \in Seq(Seq(Bytes)) /\ Len(a) + d <= Len(b) /\ \A i \in 1..Len(a) : b[i] = a[i]
    <3> HIDE DEF d, n
    <3> QED BY <1>1, <2>1, AnswersMore
  <2>3. results \in Seq(Seq(Bytes)) /\ Len(results) \in Nat /\ Len(results) <= Len(a)
        /\ \A i \in 1..Len(results) : results[i] = a[i]
    <3>1. Len(results) <= Len(ClientThen.got) /\ Len(ClientThen.got) <= Len(a) /\ Len(ClientThen.got) \in Nat
          /\ Len(a) \in Nat /\ Len(results) \in Nat /\ \A i \in 1..Len(results) : results[i] = a[i]
      BY GivenSoFar DEF Exact
    <3>2. results \in Seq(Seq(Bytes))
      BY TypesOpen
    <3>3. \A i, j, k \in Nat : i <= j /\ j <= k => i <= k
      OBVIOUS
    <3>4. Len(results) <= Len(a)
      <4> DEFINE i == Len(results)
                 j == Len(ClientThen.got)
                 k == Len(a)
      <4>1. i \in Nat /\ j \in Nat /\ k \in Nat /\ i <= j /\ j <= k
        BY <3>1
      <4> HIDE DEF i, j, k
      <4>2. i <= k
        BY <3>3, <4>1
      <4> QED BY <4>2 DEF i, k
    <3> HIDE DEF a
    <3> QED BY <3>1, <3>2, <3>4
  <2>4. Len(a) \in Nat /\ Len(b) \in Nat
    BY <2>2
  <2>5. Len(results) <= Len(b) /\ \A i \in 1..Len(results) : results[i] = b[i] /\ i \in 1..Len(a)
    <3> HIDE DEF a, b, d
    <3> QED BY <2>1, <2>2, <2>3, <2>4
  <2> HIDE DEF a, b
  <2> QED BY <2>2, <2>3, <2>5, Prefix DEF b
<1> QED BY <1>2, <1>3 DEF InOrder

\* What is handed over is in order for messages of any length, too, on an open channel,
\* until something goes wrong beside the loss of an ACK.
THEOREM InOrderUnspoilt == Spec => [](~spoilt /\ pc # "closed" => InOrder)
<1>1. Types /\ ExactInv => (~spoilt /\ pc # "closed" => InOrder)
  BY ExactInOrder DEF ExactInv, InOrder
<1> QED BY <1>1, ExactInductive, PTL

--------------------------------------------------------------------------------
(***************************************************************************)
(* Which frames are in a queue, and in which order.                        *)
(***************************************************************************)

LEMMA EmptyHas == \A x, y : ~Contains(<<>>, x) /\ ~Precedes(<<>>, x, y)
  BY DEF Contains, Precedes

LEMMA OneHas == \A f, x, y : (Contains(<<f>>, x) <=> x = f) /\ ~Precedes(<<f>>, x, y)
  BY DEF Contains, Precedes

\* What follows the head stood behind it.
LEMMA TailHas ==
    ASSUME NEW T, NEW q \in Seq(T), q # <<>>
    PROVE  /\ Contains(q, Head(q))
           /\ \A x : Contains(Tail(q), x) => Contains(q, x) /\ Precedes(q, Head(q), x)
           /\ \A x, y : Precedes(Tail(q), x, y) => Precedes(q, x, y)
           /\ Closes(q) => \/ Closes(Tail(q))
                           \/ Head(q) = Control("close") /\ ~Contains(Tail(q), Control("setup"))
<1>1. /\ Len(q) \in Nat \ {0} /\ Head(q) = q[1] /\ Len(Tail(q)) = Len(q) - 1
      /\ \A i \in 1..(Len(q) - 1) : i + 1 \in 1..Len(q) /\ Tail(q)[i] = q[i + 1]
  BY TailFacts
<1> DEFINE t == Tail(q)
           n == Len(q)
<1>2. n \in Nat \ {0} /\ Len(t) = n - 1 /\ \A i \in 1..(n - 1) : i + 1 \in 1..n /\ t[i] = q[i + 1]
  BY <1>1
<1> HIDE DEF t, n
<1>3. Contains(q, q[1])
  BY <1>2 DEF Contains, n
<1>4. ASSUME NEW x, Contains(t, x) PROVE Contains(q, x) /\ Precedes(q, q[1], x)
  <2>1. PICK i \in 1..(n - 1) : t[i] = x
    BY <1>2, <1>4 DEF Contains
  <2>2. 1 \in 1..n /\ i + 1 \in 1..n /\ 1 < i + 1 /\ q[i + 1] = x
    BY <1>2, <2>1
  <2> QED BY <2>2 DEF Contains, Precedes, n
<1>5. ASSUME NEW x, NEW y, Precedes(t, x, y) PROVE Precedes(q, x, y)
  <2>1. PICK i \in 1..(n - 1), j \in 1..(n - 1) : i < j /\ t[i] = x /\ t[j] = y
    BY <1>2, <1>5 DEF Precedes
  <2>2. i + 1 \in 1..n /\ j + 1 \in 1..n /\ i + 1 < j + 1 /\ q[i + 1] = x /\ q[j + 1] = y
    BY <1>2, <2>1
  <2> QED BY <2>2 DEF Precedes, n
<1>6. ASSUME Closes(q), ~Closes(t)
      PROVE  q[1] = Control("close") /\ ~Contains(t, Control("setup"))
  <2>1. PICK i \in 1..n : q[i] = Control("close") /\ \A j \in 1..n : j > i => q[j] # Control("setup")
    BY <1>6 DEF Closes, n
  <2>2. ASSUME i # 1 PROVE FALSE
    <3>1. i - 1 \in 1..(n - 1) /\ t[i - 1] = Control("close")
      BY <1>2, <2>1, <2>2
    <3>2. \A j \in 1..(n - 1) : j > i - 1 => t[j] # Control("setup")
      BY <1>2, <2>1
    <3> QED BY <1>2, <1>6, <3>1, <3>2 DEF Closes
  <2>3. \A j \in 1..(n - 1) : t[j] # Control("setup")
    BY <1>2, <2>1, <2>2
  <2> QED BY <1>2, <2>1, <2>2, <2>3 DEF Contains
<1> QED BY <1>1, <1>3, <1>4, <1>5, <1>6 DEF t

LEMMA ConcatHas ==
    ASSUME NEW T, NEW s \in Seq(T), NEW t \in Seq(T)
    PROVE  /\ \A x : Contains(s \o t, x) <=> Contains(s, x) \/ Contains(t, x)
           /\ \A x, y : Precedes(s \o t, x, y) <=>
                \/ Precedes(s, x, y) \/ Precedes(t, x, y)
                \/ Contains(s, x) /\ Contains(t, y)
<1> DEFINE m == Len(s)
           n == Len(t)
           c == s \o t
<1>1. /\ m \in Nat /\ n \in Nat /\ Len(c) = m + n
      /\ \A i \in 1..m : c[i] = s[i]
      /\ \A i \in 1..n : c[m + i] = t[i]
  BY ConcatFacts
<1> HIDE DEF m, n, c
<1>2. ASSUME NEW i \in 1..(m + n) PROVE i \in 1..m \/ (i - m \in 1..n /\ c[i] = t[i - m])
  <2>1. CASE i > m
    <3>1. i - m \in 1..n /\ m + (i - m) = i
      BY <1>1, <2>1
    <3> QED BY <1>1, <3>1
  <2> QED BY <1>1, <2>1
<1>3. ASSUME NEW x PROVE Contains(c, x) <=> Contains(s, x) \/ Contains(t, x)
  <2>1. ASSUME Contains(c, x) PROVE Contains(s, x) \/ Contains(t, x)
    <3>1. PICK i \in 1..(m + n) : c[i] = x
      BY <1>1, <2>1 DEF Contains
    <3> QED BY <1>1, <1>2, <3>1 DEF Contains, m, n
  <2>2. ASSUME Contains(s, x) PROVE Contains(c, x)
    <3>1. PICK i \in 1..m : s[i] = x
      BY <2>2 DEF Contains, m
    <3>2. i \in 1..(m + n)
      BY <1>1
    <3> QED BY <1>1, <3>1, <3>2 DEF Contains
  <2>3. ASSUME Contains(t, x) PROVE Contains(c, x)
    <3>1. PICK i \in 1..n : t[i] = x
      BY <2>3 DEF Contains, n
    <3>2. m + i \in 1..(m + n)
      BY <1>1
    <3> QED BY <1>1, <3>1, <3>2 DEF Contains
  <2> QED BY <2>1, <2>2, <2>3
<1>4. ASSUME NEW x, NEW y
      PROVE  Precedes(c, x, y) <=> \/ Precedes(s, x, y) \/ Precedes(t, x, y)
                                   \/ Contains(s, x) /\ Contains(t, y)
  <2>1. ASSUME Precedes(c, x, y)
        PROVE  \/ Precedes(s, x, y) \/ Precedes(t, x, y)
               \/ Contains(s, x) /\ Contains(t, y)
    <3>1. PICK i \in 1..(m + n), j \in 1..(m + n) : i < j /\ c[i] = x /\ c[j] = y
      BY <1>1, <2>1 DEF Precedes
    <3>2. CASE j \in 1..m
      <4>1. i \in 1..m /\ s[i] = x /\ s[j] = y
        BY <1>1, <3>1, <3>2
      <4> QED BY <3>1, <3>2, <4>1 DEF Precedes, m
    <3>3. CASE i \in 1..m /\ j - m \in 1..n /\ c[j] = t[j - m]
      <4>1. s[i] = x /\ t[j - m] = y
        BY <1>1, <3>1, <3>3
      <4> QED BY <3>3, <4>1 DEF Contains, m, n
    <3>4. CASE i - m \in 1..n /\ c[i] = t[i - m] /\ j - m \in 1..n /\ c[j] = t[j - m]
      <4>1. i - m < j - m
        BY <1>1, <3>1
      <4> QED BY <3>1, <3>4, <4>1 DEF Precedes, n
    <3> QED BY <1>1, <1>2, <3>1, <3>2, <3>3, <3>4
  <2>2. ASSUME Precedes(s, x, y) PROVE Precedes(c, x, y)
    <3>1. PICK i \in 1..m, j \in 1..m : i < j /\ s[i] = x /\ s[j] = y
      BY <2>2 DEF Precedes, m
    <3>2. i \in 1..(m + n) /\ j \in 1..(m + n)
      BY <1>1
    <3> QED BY <1>1, <3>1, <3>2 DEF Precedes
  <2>3. ASSUME Precedes(t, x, y) PROVE Precedes(c, x, y)
    <3>1. PICK i \in 1..n, j \in 1..n : i < j /\ t[i] = x /\ t[j] = y
      BY <2>3 DEF Precedes, n
    <3>2. m + i \in 1..(m + n) /\ m + j \in 1..(m + n) /\ m + i < m + j
      BY <1>1, <3>1
    <3> QED BY <1>1, <3>1, <3>2 DEF Precedes
  <2>4. ASSUME Contains(s, x), Contains(t, y) PROVE Precedes(c, x, y)
    <3>1. PICK i \in 1..m, j \in 1..n : s[i] = x /\ t[j] = y
      BY <2>4 DEF Contains, m, n
    <3>2. i \in 1..(m + n) /\ m + j \in 1..(m + n) /\ i < m + j
      BY <1>1
    <3> QED BY <1>1, <3>1, <3>2 DEF Precedes
  <2> QED BY <2>1, <2>2, <2>3, <2>4
<1> QED BY <1>3, <1>4 DEF c

LEMMA AppendHas ==
    ASSUME NEW T, NEW q \in Seq(T), NEW f \in T
    PROVE  /\ \A x : Contains(Append(q, f), x) <=> Contains(q, x) \/ x = f
           /\ \A x, y : Precedes(Append(q, f), x, y) <=> Precedes(q, x, y) \/ (Contains(q, x) /\ y = f)
           /\ f = Control("close") => Closes(Append(q, f))
<1>1. Append(q, f) = q \o <<f>> /\ <<f>> \in Seq(T)
  OBVIOUS
<1>2. f = Control("close") => Closes(Append(q, f))
  <2>1. Len(Append(q, f)) = Len(q) + 1 /\ Append(q, f)[Len(q) + 1] = f /\ Len(q) \in Nat
    OBVIOUS
  <2>2. Len(q) + 1 \in 1..Len(Append(q, f)) /\ \A j \in 1..Len(Append(q, f)) : ~(j > Len(q) + 1)
    BY <2>1
  <2> QED BY <2>1, <2>2 DEF Closes
<1> DEFINE one == <<f>>
<1>3. one \in Seq(T) /\ \A x, y : (Contains(one, x) <=> x = f) /\ ~Precedes(one, x, y)
  BY <1>1, OneHas
<1> HIDE DEF one
<1>4. /\ \A x : Contains(q \o one, x) <=> Contains(q, x) \/ Contains(one, x)
      /\ \A x, y : Precedes(q \o one, x, y) <=>
           \/ Precedes(q, x, y) \/ Precedes(one, x, y)
           \/ Contains(q, x) /\ Contains(one, y)
  BY <1>3, ConcatHas
<1>5. /\ \A x : Contains(q \o one, x) <=> Contains(q, x) \/ x = f
      /\ \A x, y : Precedes(q \o one, x, y) <=> Precedes(q, x, y) \/ (Contains(q, x) /\ y = f)
  BY <1>3, <1>4
<1> QED BY <1>1, <1>2, <1>5 DEF one

\* The parts of a queue in front of a place and behind it.
LEMMA CutHas ==
    ASSUME NEW T, NEW q \in Seq(T), NEW n \in 0..Len(q)
    PROVE  /\ SubSeq(q, 1, n) \in Seq(T) /\ SubSeq(q, n + 1, Len(q)) \in Seq(T)
           /\ SubSeq(q, 1, n) \o SubSeq(q, n + 1, Len(q)) = q
<1>1. n \in Nat /\ n + 1 \in Nat /\ Len(q) \in Nat /\ n <= Len(q) /\ 1 <= n + 1
  OBVIOUS
<1> DEFINE s == SubSeq(q, 1, n)
           t == SubSeq(q, n + 1, Len(q))
<1>2. s \in Seq(T) /\ Len(s) = n /\ \A i \in 1..n : s[i] = q[i]
  BY <1>1, WindowFacts
<1>3. t \in Seq(T) /\ Len(t) = Len(q) - n /\ \A i \in 1..(Len(q) - n) : t[i] = q[n + i]
  BY <1>1, WindowFacts
<1> HIDE DEF s, t
<1>4. /\ s \o t \in Seq(T) /\ Len(s \o t) = Len(q)
      /\ \A i \in 1..n : (s \o t)[i] = s[i]
      /\ \A i \in 1..(Len(q) - n) : (s \o t)[n + i] = t[i]
  BY <1>1, <1>2, <1>3, ConcatFacts
<1>5. ASSUME NEW i \in 1..Len(q) PROVE (s \o t)[i] = q[i]
  <2>1. CASE i <= n
    BY <1>1, <1>2, <1>4, <2>1
  <2>2. CASE i > n
    <3>1. i - n \in 1..(Len(q) - n) /\ n + (i - n) = i
      BY <1>1, <2>2
    <3> QED BY <1>3, <1>4, <3>1
  <2>3. i <= n \/ i > n
    BY <1>1
  <2> QED BY <2>1, <2>2, <2>3
<1>6. s \o t = q
  BY <1>4, <1>5, SameSequence
<1> QED BY <1>2, <1>3, <1>6 DEF s, t

LEMMA WithoutHas ==
    ASSUME NEW T, NEW q \in Seq(T), NEW k
    PROVE  /\ Without(q, k) \in Seq(T)
           /\ \A x : Contains(Without(q, k), x) => Contains(q, x)
           /\ \A x, y : Precedes(Without(q, k), x, y) => Precedes(q, x, y)
<1> DEFINE w == Without(q, k)
<1>1. /\ w \in Seq(T)
      /\ \A a \in 1..Len(w) : \E c \in 1..Len(q) : w[a] = q[c]
      /\ \A a, b \in 1..Len(w) : a < b => \E c, d \in 1..Len(q) : c < d /\ w[a] = q[c] /\ w[b] = q[d]
  <2>1. DOMAIN q = 1..Len(q)
    OBVIOUS
  <2>2. w \in Seq(T)
    BY WithoutOrder
  <2>3. DOMAIN w = 1..Len(w)
    BY <2>2
  <2>4. /\ \A a \in DOMAIN w : \E c \in DOMAIN q : w[a] = q[c]
        /\ \A a, b \in DOMAIN w : a < b => \E c, d \in DOMAIN q : c < d /\ w[a] = q[c] /\ w[b] = q[d]
    BY WithoutOrder
  <2> HIDE DEF w
  <2>5. \A a \in 1..Len(w) : \E c \in 1..Len(q) : w[a] = q[c]
    BY <2>1, <2>3, <2>4
  <2>6. ASSUME NEW a \in 1..Len(w), NEW b \in 1..Len(w), a < b
        PROVE  \E c, d \in 1..Len(q) : c < d /\ w[a] = q[c] /\ w[b] = q[d]
    <3>1. PICK c \in DOMAIN q, d \in DOMAIN q : c < d /\ w[a] = q[c] /\ w[b] = q[d]
      BY <2>3, <2>4, <2>6
    <3> QED BY <2>1, <3>1
  <2> QED BY <2>2, <2>5, <2>6
<1> HIDE DEF w
<1>2. \A x : Contains(w, x) => Contains(q, x)
  BY <1>1 DEF Contains
<1>3. ASSUME NEW x, NEW y, Precedes(w, x, y) PROVE Precedes(q, x, y)
  <2>1. PICK a \in 1..Len(w), b \in 1..Len(w) : a < b /\ w[a] = x /\ w[b] = y
    BY <1>3 DEF Precedes
  <2>2. PICK c \in 1..Len(q), d \in 1..Len(q) : c < d /\ w[a] = q[c] /\ w[b] = q[d]
    BY <1>1, <2>1
  <2> QED BY <2>1, <2>2 DEF Precedes
<1> QED BY <1>1, <1>2, <1>3 DEF w

\* The adapter hands over a batch.
LEMMA PullHas ==
    ASSUME NEW T, NEW q \in Seq(T), NEW n \in 0..Len(q), NEW k
    PROVE  LET batch == Without(SubSeq(q, 1, n), k)
               left == SubSeq(q, n + 1, Len(q))
           IN  /\ \A x : Contains(batch \o left, x) => Contains(q, x)
               /\ \A x, y : Precedes(batch \o left, x, y) => Precedes(q, x, y)
<1> DEFINE s == SubSeq(q, 1, n)
           t == SubSeq(q, n + 1, Len(q))
           w == Without(s, k)
<1>1. s \in Seq(T) /\ t \in Seq(T) /\ s \o t = q
  BY CutHas
<1> HIDE DEF s, t
<1>2. /\ w \in Seq(T)
      /\ \A x : Contains(w, x) => Contains(s, x)
      /\ \A x, y : Precedes(w, x, y) => Precedes(s, x, y)
  BY <1>1, WithoutHas
<1> HIDE DEF w
<1>3. \A x : Contains(w \o t, x) => Contains(s \o t, x)
  BY <1>1, <1>2, ConcatHas
<1>4. \A x, y : Precedes(w \o t, x, y) => Precedes(s \o t, x, y)
  BY <1>1, <1>2, ConcatHas
<1> QED BY <1>1, <1>3, <1>4 DEF w, s, t

--------------------------------------------------------------------------------
(***************************************************************************)
(* Types, also while a channel is opened.                                  *)
(***************************************************************************)

LEMMA KindFacts ==
    /\ \A f \in Frames : \A k : f # Control(k)
    /\ \A n, k : Ack(n) # Control(k)
    /\ \A k, l : Control(k) = Control(l) => k = l
<1>1. \A k : Control(k) = [kind |-> k] /\ Control(k).kind = k /\ DOMAIN Control(k) = {"kind"}
  BY DEF Control
<1>2. ASSUME NEW f \in Frames, NEW k PROVE f # Control(k)
  <2>1. "seq" \in DOMAIN f
    BY DEF Frames
  <2> QED BY <1>1, <2>1
<1>3. ASSUME NEW n, NEW k PROVE Ack(n) # Control(k)
  <2>1. "seq" \in DOMAIN Ack(n)
    BY DEF Ack
  <2> QED BY <1>1, <2>1
<1>4. ASSUME NEW k, NEW l, Control(k) = Control(l) PROVE k = l
  BY <1>1, <1>4
<1> QED BY <1>2, <1>3, <1>4

\* What Open and the ways in which a constructor ends leave of the transport.
LEMMA OpeningState ==
    ASSUME Types, Opening
    PROVE  /\ pc' \in {"idle", "closed", "over", "setup", "timing"}
           /\ UNCHANGED <<sent, results, peer>>
           /\ (txSeq' = txSeq /\ part' = part) \/ (txSeq' = 0 /\ part' = Fresh(0, <<>>))
           /\ msgs' = msgs \/ msgs' = <<>> \/ (msgs # <<>> /\ msgs' = Tail(msgs))
           /\ connected' = connected \/ connected' \in BOOLEAN
           /\ failed' = failed \/ failed' \in BOOLEAN
           /\ call' = call \/ call' = NoCall \/ call' = Started(NoCall)
           /\ Calm \/ \E what : Upset(what)
<1>1. CASE Open
  BY <1>1 DEF Open, Untouched, Renumbered
<1>2. CASE ClearFails
  BY <1>2 DEF ClearFails
<1>3. CASE Probe
  BY <1>3 DEF Probe, Untouched
<1>4. CASE SetupReceives
  BY <1>4 DEF SetupReceives, Untouched
<1>5. CASE Timing
  BY <1>5 DEF Timing, Untouched, Renumbered, AttemptFails
<1>6. CASE SetupTimesOut
  BY <1>6 DEF SetupTimesOut, Untouched, AttemptFails
<1>7. CASE Abandon
  BY <1>7 DEF Abandon, Untouched
<1> QED BY <1>1, <1>2, <1>3, <1>4, <1>5, <1>6, <1>7 DEF Opening

LEMMA OpeningQueues ==
    ASSUME Types, Opening
    PROVE  toPeer' \in Seq(Wireable) /\ toTester' \in Seq(Wireable)
<1>1. /\ toPeer \in Seq(Wireable) /\ toTester \in Seq(Wireable)
      /\ \A k \in {"close", "setup", "timing"} : Append(toPeer, Control(k)) \in Seq(Wireable)
      /\ \A n \in 0..Len(toTester) : SubSeq(toTester, n + 1, Len(toTester)) \in Seq(Wireable)
  <2>1. toPeer \in Seq(Wireable) /\ toTester \in Seq(Wireable)
    BY TypesOpen
  <2> QED BY <2>1, WireableFacts, AppendFacts, CutHas
<1>2. CASE Open
  BY <1>1, <1>2 DEF Open, Send
<1>3. CASE ClearFails
  BY <1>1, <1>3 DEF ClearFails
<1>4. CASE Probe
  BY <1>1, <1>4 DEF Probe, Send
<1>5. CASE SetupReceives
  <2>1. PICK n \in 1..Len(toTester) :
          /\ toTester' = SubSeq(toTester, n + 1, Len(toTester))
          /\ Send(Control("timing")) \/ toPeer' = toPeer
    BY <1>5 DEF SetupReceives
  <2>2. n \in 0..Len(toTester)
    OBVIOUS
  <2> QED BY <1>1, <2>1, <2>2 DEF Send
<1>6. CASE Timing
  BY <1>1, <1>6 DEF Timing, AttemptFails, Closing
<1>7. CASE SetupTimesOut
  BY <1>1, <1>7 DEF SetupTimesOut, AttemptFails, Closing
<1>8. CASE Abandon
  BY <1>1, <1>8 DEF Abandon
<1> QED BY <1>2, <1>3, <1>4, <1>5, <1>6, <1>7, <1>8 DEF Opening

LEMMA OpeningTypes ==
    ASSUME Types, Opening
    PROVE  Types'
<1>1. toPeer' \in Seq(Wireable) /\ toTester' \in Seq(Wireable)
  BY OpeningQueues
<1>2. msgs' \in Seq(Wireable)
  <2>1. msgs \in Seq(Wireable) /\ <<>> \in Seq(Wireable)
    BY TypesOpen
  <2>2. msgs # <<>> => Tail(msgs) \in Seq(Wireable)
    BY <2>1, TailFacts
  <2> QED BY <2>1, <2>2, OpeningState
<1>3. txSeq' \in Seqs /\ part' \in Reassembler
  BY OpeningState, TypesOpen, FreshFacts
<1>4. /\ NoCall \in Call /\ NoCall.left <= NoCall.hard /\ LastAsks(NoCall.job)
      /\ Started(NoCall) \in Call /\ Started(NoCall).left <= Started(NoCall).hard
      /\ LastAsks(Started(NoCall).job)
  <2>1. NoCall \in Call
    BY FreshFacts
  <2>2. NoCall.left <= NoCall.hard /\ NoCall.job = <<>>
    BY DEF NoCall
  <2>3. /\ Started(NoCall) \in Call /\ Started(NoCall).left <= Started(NoCall).hard
        /\ Started(NoCall).job = NoCall.job
    BY <2>1, StartedType
  <2> QED BY <2>1, <2>2, <2>3 DEF LastAsks
<1>5. call' \in Call /\ call'.left <= call'.hard /\ LastAsks(call'.job)
  BY <1>4, OpeningState, TypesOpen
<1>6. connected' \in BOOLEAN /\ failed' \in BOOLEAN /\ spoilt' \in BOOLEAN /\ upsets' \in 0..MaxUpsets
  BY OpeningState, TypesOpen, UpsetTypes
<1>7. /\ pc' \in {"idle", "closed", "over", "setup", "timing"} /\ sent' = sent /\ results' = results
      /\ peer' = peer
  BY OpeningState
<1> QED BY <1>1, <1>2, <1>3, <1>5, <1>6, <1>7, TypesOpen, TypesFromTester

LEMMA GatewayTypes ==
    ASSUME Types, PeerOpens \/ PeerTimed
    PROVE  Types'
<1>0. /\ peer \in Other /\ toTester \in Seq(Wireable) /\ toPeer \in Seq(Wireable)
      /\ peer.served \in Seq(Seq(Bytes)) /\ MaxRepeats \in Nat
  BY TypesOpen, TalkFacts
<1>1. CASE PeerOpens
  <2>1. /\ toPeer # <<>> /\ toPeer' = Tail(toPeer) /\ toTester' = toTester \o <<Control("setup")>>
        /\ peer' = [PeerInit EXCEPT !.served = peer.served] /\ UNCHANGED tester
        /\ spoilt' = spoilt /\ upsets' = upsets
    BY <1>1 DEF PeerOpens, ToTester, Calm
  <2>2. peer' = [in |-> Fresh(0, <<>>), tx |-> 0, out |-> <<>>, await |-> <<>>,
                 repeats |-> 0, todo |-> <<>>, served |-> peer.served, closed |-> FALSE]
    BY <2>1 DEF PeerInit
  <2>3. peer' \in Other /\ peer'.todo = <<>>
    BY <1>0, <2>2, FreshFacts DEF Other
  <2>4. toPeer' \in Seq(Wireable) /\ toTester' \in Seq(Wireable)
    BY <1>0, <2>1, WireableFacts, TailFacts
  <2> QED BY <2>1, <2>3, <2>4, TypesOpen, TypesFromPeer
<1>2. CASE PeerTimed
  <2>1. PeerTakes("timing") /\ Calm /\ toTester' = toTester \o <<Control("pong")>> /\ peer' = peer
    BY <1>2 DEF PeerTimed, ToTester
  <2>2. toTester' \in Seq(Wireable)
    BY <1>0, <2>1, WireableFacts
  <2> QED BY <1>0, <2>1, <2>2, TypesPeerTakes, PeerStateTypes
<1> QED BY <1>1, <1>2

LEMMA ChannelTypes == Types /\ [ChannelNext]_channelVars => Types'
<1> SUFFICES ASSUME Types, [ChannelNext]_channelVars PROVE Types'
  OBVIOUS
<1>1. CASE Opening
  BY <1>1, OpeningTypes
<1>2. CASE PeerOpens \/ PeerTimed
  BY <1>2, GatewayTypes
<1>3. CASE [Next]_vars
  BY <1>3, TypesStep
<1> QED BY <1>1, <1>2, <1>3 DEF ChannelNext, Client, Server, Next, Peer, channelVars

--------------------------------------------------------------------------------
(***************************************************************************)
(* What the steps of the peer and the link do to the queues.               *)
(***************************************************************************)

\* A frame that such a step may add to those on their way to the tester.
Novel(x) ==
    /\ x # Control("setup")
    /\ x = Control("close") => peer'.closed
    /\ x = Control("pong") => \E k \in {"ping", "timing"} :
         /\ Contains(toPeer, Control(k))
         /\ \A y : Contains(toPeer', y) => Precedes(toPeer, Control(k), y)

\* The peer takes a frame, or the link drops it.
Shrinks ==
    /\ toPeer # <<>> /\ toPeer' = Tail(toPeer)
    /\ Head(toPeer) = Control("close") => peer'.closed \/ LosesClose

LEMMA NovelData ==
    /\ \A f \in Frames : Novel(f)
    /\ \A n : Novel(Ack(n))
    /\ \A k \in {"wait", "ping"} : Novel(Control(k))
  BY KindFacts DEF Novel

LEMMA NovelPong ==
    ASSUME Types, Shrinks, NEW k \in {"ping", "timing"}, Head(toPeer) = Control(k)
    PROVE  Novel(Control("pong"))
<1>1. toPeer \in Seq(Wireable) /\ toPeer # <<>> /\ toPeer' = Tail(toPeer)
  BY TypesOpen DEF Shrinks
<1>2. Contains(toPeer, Control(k)) /\ \A y : Contains(toPeer', y) => Precedes(toPeer, Control(k), y)
  BY <1>1, TailHas
<1>3. Control("pong") # Control("setup") /\ Control("pong") # Control("close")
  BY KindFacts
<1> QED BY <1>2, <1>3 DEF Novel

LEMMA PeerEffects ==
    ASSUME Types, PeerTimed \/ Answering \/ Befalling
    PROVE  /\ UNCHANGED tester
           /\ peer.closed => peer'.closed
           /\ toPeer' = toPeer \/ Shrinks
           /\ \/ toTester' = toTester
              \/ toTester # <<>> /\ toTester' = Tail(toTester)
              \/ \E f \in Wireable : Novel(f) /\ toTester' = Append(toTester, f)
<1>0. /\ peer \in Other /\ toTester \in Seq(Wireable) /\ toPeer \in Seq(Wireable)
      /\ peer.await \in AtMostOne(Frames)
  BY TypesOpen
<1>1. /\ toTester \o <<>> = toTester
      /\ \A f \in Wireable : toTester \o <<f>> = Append(toTester, f)
  BY <1>0
<1>2. ASSUME NEW k \in {"data", "ack", "ping", "pong", "timing"}, PeerTakes(k)
      PROVE  UNCHANGED tester /\ Shrinks /\ Head(toPeer) \in Wireable /\ Head(toPeer).kind = k
  <2>1. UNCHANGED tester /\ toPeer # <<>> /\ toPeer' = Tail(toPeer) /\ Head(toPeer).kind = k
    BY <1>2 DEF PeerTakes
  <2>2. Head(toPeer) # Control("close")
    BY <2>1 DEF Control
  <2> QED BY <1>2, <2>1, <2>2, TypesPeerTakes DEF Shrinks
<1>3. \A f \in Wireable, k \in {"ping", "timing", "setup", "close"} : f.kind = k => f = Control(k)
  BY DEF Wireable, Frames, Control
<1>4. CASE PeerTimed
  <2>1. PeerTakes("timing") /\ toTester' = toTester \o <<Control("pong")>> /\ peer' = peer
    BY <1>4 DEF PeerTimed, ToTester
  <2>2. Novel(Control("pong")) /\ Control("pong") \in Wireable
    BY <1>2, <1>3, <2>1, NovelPong, WireableFacts
  <2> QED BY <1>1, <1>2, <2>1, <2>2
<1>5. CASE PeerData
  <2>1. PeerTakes("data")
    BY <1>5 DEF PeerData
  <2>2. UNCHANGED tester /\ Shrinks /\ Head(toPeer) \in Frames
    BY <1>2, <2>1, WireableFacts
  <2>3. peer'.closed = peer.closed
    <3>1. \/ peer' = peer
          \/ peer' = [peer EXCEPT !.in = Fed(@, Head(toPeer)), !.todo = @ \o RepliesBy(Head(toPeer)),
                                  !.served = @ \o Delivered(peer.in, Head(toPeer))]
      BY <1>5 DEF PeerData, RepliesBy
    <3> QED BY <1>0, <3>1 DEF Other
  <2>4. toTester' = toTester \/ toTester' = toTester \o <<Ack(Head(toPeer).seq)>>
    BY <1>1, <1>5 DEF PeerData, ToTester
  <2>5. Ack(Head(toPeer).seq) \in Wireable /\ Novel(Ack(Head(toPeer).seq))
    BY <2>2, WireableFacts, NovelData
  <2> QED BY <1>1, <2>2, <2>3, <2>4, <2>5
<1>6. CASE PeerAcked
  <2>1. PeerTakes("ack") /\ toTester' = toTester
    BY <1>6 DEF PeerAcked
  <2>2. peer'.closed = peer.closed
    BY <1>0, <1>6 DEF PeerAcked, Other
  <2> QED BY <1>2, <2>1, <2>2
<1>7. CASE PeerPinged
  <2>1. PeerTakes("ping") /\ toTester' = toTester \o <<Control("pong")>> /\ peer' = peer
    BY <1>7 DEF PeerPinged, ToTester
  <2>2. Novel(Control("pong")) /\ Control("pong") \in Wireable
    BY <1>2, <1>3, <2>1, NovelPong, WireableFacts
  <2> QED BY <1>1, <1>2, <2>1, <2>2
<1>8. CASE PeerPonged
  BY <1>2, <1>8 DEF PeerPonged
<1>9. CASE PeerClosed
  <2>1. toPeer # <<>> /\ toPeer' = Tail(toPeer) /\ toTester' = toTester /\ UNCHANGED tester
    BY <1>9 DEF PeerClosed, PeerTakes
  <2>2. peer'.closed
    BY <1>0, <1>9 DEF PeerClosed, Other
  <2> QED BY <2>1, <2>2 DEF Shrinks
<1>10. CASE PeerSends
  <2>1. /\ peer.out # <<>> \/ peer.todo # <<>>
        /\ toTester' = toTester \o <<Head(Outgoing)>> /\ UNCHANGED <<tester, toPeer>>
    BY <1>10 DEF PeerSends, ToTester, Outgoing
  <2>2. Head(Outgoing) \in Frames
    BY <2>1, OutgoingFacts, TailFacts
  <2>3. peer'.closed = peer.closed
    <3>1. \E a, b, c, d : peer' = [peer EXCEPT !.out = a, !.tx = b, !.todo = c, !.await = d]
      BY <1>10 DEF PeerSends
    <3> QED BY <1>0, <3>1 DEF Other
  <2> QED BY <1>1, <2>1, <2>2, <2>3, NovelData, WireableFacts
<1>11. CASE PeerRepeats
  <2>1. /\ peer.await # <<>> /\ toTester' = toTester \o peer.await /\ UNCHANGED <<tester, toPeer>>
    BY <1>11 DEF PeerRepeats, ToTester
  <2>2. PICK f \in Frames : peer.await = <<f>>
    BY <1>0, <2>1 DEF AtMostOne
  <2>3. peer'.closed = peer.closed
    BY <1>0, <1>11 DEF PeerRepeats, Other
  <2> QED BY <1>1, <2>1, <2>2, <2>3, NovelData, WireableFacts
<1>12. CASE Unheard
  BY <1>12 DEF Unheard, Shrinks
<1>13. CASE PeerAsks
  <2>1. PICK k \in {"wait", "ping"} :
          toTester' = toTester \o <<Control(k)>> /\ UNCHANGED <<tester, toPeer, peer>>
    BY <1>13 DEF PeerAsks, ToTester
  <2>2. Novel(Control(k)) /\ Control(k) \in Wireable
    BY NovelData, WireableFacts
  <2> QED BY <1>1, <2>1, <2>2
<1>14. CASE PeerCloses
  <2>1. toTester' = toTester \o <<Control("close")>> /\ UNCHANGED <<tester, toPeer>>
    BY <1>14 DEF PeerCloses, ToTester
  <2>2. peer'.closed
    BY <1>0, <1>14 DEF PeerCloses, Other
  <2>3. Novel(Control("close")) /\ Control("close") \in Wireable
    BY <2>2, KindFacts, WireableFacts DEF Novel
  <2> QED BY <1>1, <2>1, <2>2, <2>3
<1>15. CASE LoseToPeer
  <2>1. toPeer # <<>> /\ toPeer' = Tail(toPeer) /\ UNCHANGED <<tester, toTester, peer>>
    BY <1>15 DEF LoseToPeer
  <2>2. Head(toPeer) = Control("close") => LosesClose
    BY <1>15 DEF LosesClose, Control
  <2> QED BY <2>1, <2>2 DEF Shrinks
<1>16. CASE LoseToTester
  BY <1>16 DEF LoseToTester
<1> QED BY <1>4, <1>5, <1>6, <1>7, <1>8, <1>9, <1>10, <1>11, <1>12, <1>13, <1>14, <1>15, <1>16
        DEF Answering, Befalling

LEMMA PeerKeeps ==
    ASSUME Types, PeerTimed \/ Answering \/ Befalling
    PROVE  /\ UNCHANGED tester
           /\ peer.closed => peer'.closed
           /\ \A x : Contains(toPeer', x) => Contains(toPeer, x)
           /\ \A x, y : Precedes(toPeer', x, y) => Precedes(toPeer, x, y)
           /\ Ending => Ending' \/ LosesClose
           /\ \A x : Contains(toTester', x) => Contains(toTester, x) \/ Novel(x)
           /\ \A x, y : Precedes(toTester', x, y) =>
                Precedes(toTester, x, y) \/ (Contains(toTester, x) /\ Novel(y))
           /\ \A x : Contains(msgs \o toTester', x) => Contains(msgs \o toTester, x) \/ Novel(x)
           /\ \A x, y : Precedes(msgs \o toTester', x, y) =>
                Precedes(msgs \o toTester, x, y) \/ (Contains(msgs \o toTester, x) /\ Novel(y))
<1>0. toPeer \in Seq(Wireable) /\ toTester \in Seq(Wireable) /\ msgs \in Seq(Wireable)
  BY TypesOpen
<1>1. UNCHANGED tester /\ (peer.closed => peer'.closed)
  BY PeerEffects
<1>2. /\ \A x : Contains(toPeer', x) => Contains(toPeer, x)
      /\ \A x, y : Precedes(toPeer', x, y) => Precedes(toPeer, x, y)
  <2>1. CASE toPeer' = toPeer
    BY <2>1
  <2>2. CASE Shrinks
    BY <1>0, <2>2, TailHas DEF Shrinks
  <2> QED BY <2>1, <2>2, PeerEffects
<1>3. ASSUME Ending PROVE Ending' \/ LosesClose
  <2>1. CASE peer.closed /\ NoSetup
    <3>1. ~Contains(toPeer', Control("setup"))
      BY <1>2, <2>1 DEF NoSetup
    <3> QED BY <1>1, <2>1, <3>1 DEF Ending, NoSetup
  <2>2. CASE Closes(toPeer) /\ toPeer' = toPeer
    BY <2>2 DEF Ending
  <2>3. CASE Closes(toPeer) /\ Shrinks
    <3>1. \/ Closes(toPeer')
          \/ Head(toPeer) = Control("close") /\ ~Contains(toPeer', Control("setup"))
      BY <1>0, <2>3, TailHas DEF Shrinks
    <3> QED BY <2>3, <3>1 DEF Ending, NoSetup, Shrinks
  <2> QED BY <1>3, <2>1, <2>2, <2>3, PeerEffects DEF Ending
<1>4. /\ \A x : Contains(toTester', x) => Contains(toTester, x) \/ Novel(x)
      /\ \A x, y : Precedes(toTester', x, y) =>
           Precedes(toTester, x, y) \/ (Contains(toTester, x) /\ Novel(y))
      /\ toTester' \in Seq(Wireable)
  <2>1. CASE toTester' = toTester
    BY <1>0, <2>1
  <2>2. CASE toTester # <<>> /\ toTester' = Tail(toTester)
    <3>1. Tail(toTester) \in Seq(Wireable)
      BY <1>0, <2>2, TailFacts
    <3> QED BY <1>0, <2>2, <3>1, TailHas
  <2>3. ASSUME NEW f \in Wireable, Novel(f), toTester' = Append(toTester, f)
        PROVE  /\ \A x : Contains(toTester', x) => Contains(toTester, x) \/ Novel(x)
               /\ \A x, y : Precedes(toTester', x, y) =>
                    Precedes(toTester, x, y) \/ (Contains(toTester, x) /\ Novel(y))
               /\ toTester' \in Seq(Wireable)
    BY <1>0, <2>3, AppendHas
  <2> QED BY <2>1, <2>2, <2>3, PeerEffects
<1>5. /\ \A x : Contains(msgs \o toTester', x) => Contains(msgs \o toTester, x) \/ Novel(x)
      /\ \A x, y : Precedes(msgs \o toTester', x, y) =>
           Precedes(msgs \o toTester, x, y) \/ (Contains(msgs \o toTester, x) /\ Novel(y))
  <2>1. /\ \A x : Contains(msgs \o toTester, x) <=> Contains(msgs, x) \/ Contains(toTester, x)
        /\ \A x, y : Precedes(msgs \o toTester, x, y) <=>
             \/ Precedes(msgs, x, y) \/ Precedes(toTester, x, y)
             \/ Contains(msgs, x) /\ Contains(toTester, y)
    BY <1>0, ConcatHas
  <2>2. /\ \A x : Contains(msgs \o toTester', x) <=> Contains(msgs, x) \/ Contains(toTester', x)
        /\ \A x, y : Precedes(msgs \o toTester', x, y) <=>
             \/ Precedes(msgs, x, y) \/ Precedes(toTester', x, y)
             \/ Contains(msgs, x) /\ Contains(toTester', y)
    BY <1>0, <1>4, ConcatHas
  <2> QED BY <1>4, <2>1, <2>2
<1> QED BY <1>1, <1>2, <1>3, <1>4, <1>5

--------------------------------------------------------------------------------
(***************************************************************************)
(* Every step keeps the invariant.                                         *)
(***************************************************************************)

\* One failure more, and what it takes from the margin.
LEMMA Counted ==
    ASSUME ChanTypes, intercept' = intercept,
           failures' = IF Raises THEN Min({failures + 1, Few}) ELSE failures
    PROVE  /\ failures' \in 0..Few /\ failures \in 0..Few
           /\ failures' = 0 => failures = 0
           /\ FewFailed' => FewFailed
           /\ Tame' => Tame
           /\ Tame /\ intercept => failures = 0
           /\ Raises => failures' > 0
           /\ Raises /\ FewFailed' => Tame
           /\ Raises /\ Tame' => failures = 0 /\ ~intercept
<1>1. failures \in 0..3 /\ intercept \in BOOLEAN
  BY DEF ChanTypes, Few
<1>2. Raises => failures' = IF failures + 1 <= 3 THEN failures + 1 ELSE 3
  <2>1. \A a, b \in Int : Min({a, b}) = IF a <= b THEN a ELSE b
    BY DEF Min
  <2> QED BY <1>1, <2>1 DEF Few
<1>3. ~Raises => failures' = failures
  OBVIOUS
<1> QED BY <1>1, <1>2, <1>3 DEF FewFailed, Tame, Few

LEMMA PrecedesHas == \A q, x, y : Precedes(q, x, y) => Contains(q, x) /\ Contains(q, y)
  BY DEF Precedes, Contains

\* What the peer's steps leave of the conditions on the queues.
LEMMA PeerKeepsConditions ==
    ASSUME Types, PeerTimed \/ Answering \/ Befalling
    PROVE  /\ NoSetup => NoSetup'
           /\ NoAnswer => NoAnswer'
           /\ Unasked => Unasked'
           /\ OneSetup => OneSetup'
<1>1. \A x : Contains(toPeer', x) => Contains(toPeer, x)
  BY PeerKeeps
<1>2. \A x, y : Precedes(toPeer', x, y) => Precedes(toPeer, x, y)
  BY PeerKeeps
<1>3. \A x : Contains(toTester', x) => Contains(toTester, x) \/ Novel(x)
  BY PeerKeeps
<1>4. \A x, y : Precedes(toTester', x, y) =>
                Precedes(toTester, x, y) \/ (Contains(toTester, x) /\ Novel(y))
  BY PeerKeeps
<1>5. /\ ~Novel(Control("setup")) /\ (Novel(Control("close")) => peer'.closed)
      /\ NoQuery => ~Novel(Control("pong"))
  BY DEF Novel, NoQuery
<1>6. peer.closed => peer'.closed
  BY PeerKeeps
<1>7. NoSetup => NoSetup'
  BY <1>1 DEF NoSetup
<1>8. NoAnswer => NoAnswer'
  BY <1>3, <1>5 DEF NoAnswer
<1>9. NoQuery => NoQuery'
  BY <1>1 DEF NoQuery
<1>10. Unasked => Unasked'
  BY <1>3, <1>5, <1>9 DEF Unasked
<1>11. ASSUME OneSetup PROVE OneSetup'
  <2>1. \A k \in {"ping", "timing", "setup"} : ~Precedes(toPeer', Control("setup"), Control(k))
    BY <1>2, <1>11 DEF OneSetup
  <2>2. (NoSetup' \/ NoAnswer') /\ (NoQuery' \/ NoAnswer')
    BY <1>7, <1>8, <1>9, <1>11 DEF OneSetup
  <2>3. \A k \in {"pong", "setup"} : ~Precedes(toTester', Control("setup"), Control(k))
    <3>1. ~Precedes(toTester', Control("setup"), Control("setup"))
      BY <1>4, <1>5, <1>11 DEF OneSetup
    <3>2. ~Precedes(toTester', Control("setup"), Control("pong"))
      BY <1>4, <1>5, <1>11 DEF OneSetup, NoAnswer
    <3> QED BY <3>1, <3>2
  <2>4. Precedes(toTester', Control("setup"), Control("close")) => peer'.closed
    BY <1>4, <1>5, <1>6, <1>11 DEF OneSetup
  <2> QED BY <2>1, <2>2, <2>3, <2>4 DEF OneSetup
<1> QED BY <1>7, <1>8, <1>10, <1>11

\* Failures and A8s are counted alike in each step.
Histories ==
    /\ failures' = IF Raises THEN Min({failures + 1, Few}) ELSE failures
    /\ closeLost' = (closeLost \/ LosesClose)

LEMMA PeerStep ==
    ASSUME Types, ChannelInv, PeerTimed \/ Answering \/ Befalling, UNCHANGED chan, Histories
    PROVE  ChannelInv'
<1>1. /\ pc' = pc /\ msgs' = msgs /\ connected' = connected /\ sent' = sent /\ failed' = failed
      /\ intercept' = intercept /\ probes' = probes /\ addressed' = addressed
  <2>1. UNCHANGED tester
    BY PeerKeeps
  <2> QED BY <2>1 DEF tester, chan
<1>2. failures' = failures
  <2>1. ~Raises
    BY <1>1 DEF Raises, Listening, Waits
  <2> QED BY <2>1 DEF Histories
<1>3. /\ peer.closed => peer'.closed
      /\ NoSetup => NoSetup'
      /\ NoAnswer => NoAnswer'
      /\ Unasked => Unasked'
      /\ OneSetup => OneSetup'
  BY PeerKeeps, PeerKeepsConditions
<1>4. (Tame' <=> Tame) /\ (FewFailed' <=> FewFailed) /\ (Running' <=> Running) /\ (Calling' <=> Calling)
  BY <1>1, <1>2 DEF Tame, FewFailed, Running, Calling
<1>5. ChanTypes' /\ FailedInv' /\ AddressInv'
  <2>1. closeLost' \in BOOLEAN
    BY DEF Histories
  <2> QED BY <1>1, <1>2, <1>4, <2>1 DEF ChannelInv, ChanTypes, FailedInv, AddressInv
<1>6. ClosedInv' /\ SetupInv'
  BY <1>1, <1>2, <1>3, <1>4 DEF ChannelInv, ClosedInv, SetupInv
<1>7. TimingInv'
  <2> SUFFICES ASSUME pc = "timing", Tame, sent < Len(Requests)
               PROVE  /\ failures' = 0 /\ ~intercept' => NoSetup' /\ NoAnswer'
                      /\ ~Contains(toPeer', Control("ping"))
                      /\ ~Precedes(toPeer', Control("timing"), Control("setup"))
                      /\ Contains(msgs \o toTester', Control("pong")) => NoSetup'
                      /\ Precedes(msgs \o toTester', Control("pong"), Control("close")) => peer'.closed
    BY <1>1, <1>4 DEF TimingInv
  <2>1. /\ failures = 0 /\ ~intercept => NoSetup /\ NoAnswer
        /\ ~Contains(toPeer, Control("ping"))
        /\ ~Precedes(toPeer, Control("timing"), Control("setup"))
        /\ Contains(msgs \o toTester, Control("pong")) => NoSetup
        /\ Precedes(msgs \o toTester, Control("pong"), Control("close")) => peer.closed
    BY DEF ChannelInv, TimingInv
  <2>2. ~Contains(toPeer', Control("ping")) /\ ~Precedes(toPeer', Control("timing"), Control("setup"))
    BY <2>1, PeerKeeps
  <2>3. ASSUME Contains(msgs \o toTester', Control("pong")) PROVE NoSetup'
    <3>1. Contains(msgs \o toTester, Control("pong")) \/ Novel(Control("pong"))
      BY <2>3, PeerKeeps
    <3>2. ASSUME Novel(Control("pong")) PROVE NoSetup'
      BY <2>1, <3>2 DEF Novel, NoSetup
    <3> QED BY <1>3, <2>1, <3>1, <3>2
  <2>4. ASSUME Precedes(msgs \o toTester', Control("pong"), Control("close")) PROVE peer'.closed
    <3>1. Precedes(msgs \o toTester, Control("pong"), Control("close")) \/ Novel(Control("close"))
      BY <2>4, PeerKeeps
    <3> QED BY <1>3, <2>1, <3>1 DEF Novel
  <2> QED BY <1>1, <1>2, <1>3, <2>1, <2>2, <2>3, <2>4
<1>8. CallInv'
  <2>1. Contains(toTester', Control("close")) => Contains(toTester, Control("close")) \/ peer'.closed
    <3>1. Contains(toTester', Control("close")) => Contains(toTester, Control("close")) \/ Novel(Control("close"))
      BY PeerKeeps
    <3> QED BY <3>1 DEF Novel
  <2> QED BY <1>1, <1>2, <1>3, <1>4, <2>1 DEF ChannelInv, CallInv
<1>9. EndedInv'
  BY <1>1, <1>3, <1>4 DEF ChannelInv, EndedInv
<1>10. ReleasedInv'
  <2>1. Ending => Ending' \/ LosesClose
    BY PeerKeeps
  <2> QED BY <1>1, <1>4, <2>1 DEF ChannelInv, ReleasedInv, Histories
<1> QED BY <1>5, <1>6, <1>7, <1>8, <1>9, <1>10 DEF ChannelInv

\* A setup reaches the peer: its answer is behind everything on its way to the tester.
LEMMA GatewayStep ==
    ASSUME Types, ChannelInv, PeerOpens, Histories
    PROVE  ChannelInv'
<1>0. toPeer \in Seq(Wireable) /\ toTester \in Seq(Wireable) /\ msgs \in Seq(Wireable)
  BY TypesOpen
<1>1. /\ toPeer # <<>> /\ toPeer' = Tail(toPeer) /\ Head(toPeer) = Control("setup")
      /\ toTester' = Append(toTester, Control("setup")) /\ Control("setup") \in Wireable
  <2>1. /\ toPeer # <<>> /\ Head(toPeer).kind = "setup" /\ toPeer' = Tail(toPeer)
        /\ toTester' = toTester \o <<Control("setup")>>
    BY DEF PeerOpens, ToTester
  <2>2. Head(toPeer) \in Wireable
    BY <1>0, <2>1, TailFacts
  <2>3. Head(toPeer) = Control("setup")
    BY <2>1, <2>2 DEF Wireable, Frames, Control
  <2>4. Control("setup") \in Wireable
    BY WireableFacts
  <2> QED BY <1>0, <2>1, <2>3, <2>4
<1>2. /\ pc' = pc /\ msgs' = msgs /\ connected' = connected /\ sent' = sent /\ failed' = failed
      /\ intercept' = intercept /\ probes' = probes /\ addressed' = addressed
  BY DEF PeerOpens, tester, chan
<1>3. failures' = failures
  <2>1. ~Raises
    BY <1>2 DEF Raises, Listening, Waits
  <2> QED BY <2>1 DEF Histories
<1>4. (Tame' <=> Tame) /\ (FewFailed' <=> FewFailed) /\ (Running' <=> Running) /\ (Calling' <=> Calling)
  BY <1>2, <1>3 DEF Tame, FewFailed, Running, Calling
<1>5. ~NoSetup
  BY <1>0, <1>1, TailHas DEF NoSetup
<1>6. /\ \A x : Contains(toPeer', x) => Contains(toPeer, x) /\ Precedes(toPeer, Control("setup"), x)
      /\ \A x, y : Precedes(toPeer', x, y) => Precedes(toPeer, x, y)
  BY <1>0, <1>1, TailHas
<1>7. /\ \A x : Contains(toTester', x) <=> Contains(toTester, x) \/ x = Control("setup")
      /\ \A x, y : Precedes(toTester', x, y) <=>
           Precedes(toTester, x, y) \/ (Contains(toTester, x) /\ y = Control("setup"))
      /\ toTester' \in Seq(Wireable)
  BY <1>0, <1>1, AppendHas
<1>8. Unasked => Unasked'
  <2>1. NoQuery => NoQuery'
    BY <1>6 DEF NoQuery
  <2>2. Control("pong") # Control("setup")
    BY KindFacts
  <2> QED BY <1>7, <2>1, <2>2 DEF Unasked
<1>9. ASSUME OneSetup PROVE OneSetup'
  <2>1. NoAnswer
    BY <1>5, <1>9 DEF OneSetup
  <2>2. \A k \in {"ping", "timing", "setup"} :
          ~Precedes(toPeer', Control("setup"), Control(k)) /\ ~Contains(toPeer', Control(k))
    BY <1>6, <1>9 DEF OneSetup
  <2>3. NoSetup' /\ NoQuery'
    BY <2>2 DEF NoSetup, NoQuery
  <2>4. \A y : ~Precedes(toTester', Control("setup"), y)
    BY <1>7, <2>1, PrecedesHas DEF NoAnswer
  <2> QED BY <2>2, <2>3, <2>4 DEF OneSetup
<1>10. ChanTypes' /\ FailedInv' /\ AddressInv'
  <2>1. closeLost' \in BOOLEAN
    BY DEF Histories
  <2> QED BY <1>2, <1>3, <1>4, <2>1 DEF ChannelInv, ChanTypes, FailedInv, AddressInv
<1>11. ClosedInv' /\ SetupInv' /\ CallInv' /\ EndedInv'
  BY <1>2, <1>3, <1>4, <1>5, <1>8, <1>9 DEF ChannelInv, ClosedInv, SetupInv, CallInv, EndedInv
<1>12. TimingInv'
  <2> SUFFICES ASSUME pc = "timing", Tame, sent < Len(Requests)
               PROVE  /\ failures' = 0 /\ ~intercept' => NoSetup' /\ NoAnswer'
                      /\ ~Contains(toPeer', Control("ping"))
                      /\ ~Precedes(toPeer', Control("timing"), Control("setup"))
                      /\ Contains(msgs \o toTester', Control("pong")) => NoSetup'
                      /\ Precedes(msgs \o toTester', Control("pong"), Control("close")) => peer'.closed
    BY <1>2, <1>4 DEF TimingInv
  <2>1. /\ failures = 0 /\ ~intercept => NoSetup /\ NoAnswer
        /\ ~Contains(toPeer, Control("ping"))
        /\ ~Precedes(toPeer, Control("timing"), Control("setup"))
        /\ ~Contains(msgs \o toTester, Control("pong"))
    BY <1>5 DEF ChannelInv, TimingInv
  <2>2. ~Contains(msgs \o toTester', Control("pong"))
    <3>1. Control("pong") # Control("setup")
      BY KindFacts
    <3>2. Contains(msgs \o toTester, Control("pong")) <=>
            Contains(msgs, Control("pong")) \/ Contains(toTester, Control("pong"))
      BY <1>0, ConcatHas
    <3>3. Contains(msgs \o toTester', Control("pong")) <=>
            Contains(msgs, Control("pong")) \/ Contains(toTester', Control("pong"))
      BY <1>0, <1>7, ConcatHas
    <3> QED BY <1>7, <2>1, <3>1, <3>2, <3>3
  <2>3. ~Precedes(msgs \o toTester', Control("pong"), Control("close"))
    BY <2>2, PrecedesHas
  <2> QED BY <1>2, <1>3, <1>5, <1>6, <2>1, <2>2, <2>3
<1>13. ReleasedInv'
  <2>1. Closes(toPeer) => Closes(toPeer')
    <3>1. Control("setup") # Control("close")
      BY KindFacts
    <3> QED BY <1>0, <1>1, <3>1, TailHas
  <2> QED BY <1>2, <1>4, <1>5, <2>1 DEF ChannelInv, ReleasedInv, Ending, Histories
<1> QED BY <1>10, <1>11, <1>12, <1>13 DEF ChannelInv

\* The adapter hands over what has arrived.
LEMMA PullStep ==
    ASSUME Types, ChannelInv, Pull, UNCHANGED chan, Histories
    PROVE  ChannelInv'
<1>0. toTester \in Seq(Wireable)
  BY TypesOpen
<1>1. /\ pc \in {"ack", "recv", "alive", "timing"} /\ pc' = pc /\ connected' = connected /\ sent' = sent
      /\ failed' = failed /\ toPeer' = toPeer /\ peer' = peer /\ msgs = <<>>
      /\ intercept' = intercept /\ probes' = probes /\ addressed' = addressed
  BY DEF Pull, chan, Listening, Waits
<1>2. failures' = failures /\ closeLost' \in BOOLEAN
  <2>1. ~Raises
    BY <1>1 DEF Raises
  <2> QED BY <2>1 DEF Histories, ChannelInv, ChanTypes
<1>3. (Tame' <=> Tame) /\ (FewFailed' <=> FewFailed) /\ (Running' <=> Running) /\ (Calling' <=> Calling)
  BY <1>1, <1>2 DEF Tame, FewFailed, Running, Calling
<1>4. /\ msgs' \in Seq(Wireable) /\ toTester' \in Seq(Wireable)
      /\ \A x : Contains(msgs' \o toTester', x) => Contains(toTester, x)
      /\ \A x, y : Precedes(msgs' \o toTester', x, y) => Precedes(toTester, x, y)
  <2>1. PICK n \in 1..Len(toTester) :
          /\ msgs' = Without(SubSeq(toTester, 1, n), "setup")
          /\ toTester' = SubSeq(toTester, n + 1, Len(toTester))
    BY DEF Pull
  <2>2. n \in 0..Len(toTester)
    OBVIOUS
  <2>3. msgs' \in Seq(Wireable) /\ toTester' \in Seq(Wireable)
    <3>1. Types'
      BY TypesPull
    <3> QED BY <3>1 DEF Types, TypeOK
  <2> QED BY <1>0, <2>1, <2>2, <2>3, PullHas
<1>5. \A x : Contains(msgs', x) \/ Contains(toTester', x) => Contains(toTester, x)
  <2>1. \A x : Contains(msgs' \o toTester', x) <=> Contains(msgs', x) \/ Contains(toTester', x)
    BY <1>4, ConcatHas
  <2> QED BY <1>4, <2>1
<1>6. msgs \o toTester = toTester
  BY <1>0, <1>1
<1>7. (NoSetup' <=> NoSetup) /\ (NoAnswer => NoAnswer')
  BY <1>1, <1>5 DEF NoSetup, NoAnswer
<1>8. ChanTypes' /\ FailedInv' /\ AddressInv'
  BY <1>1, <1>2, <1>3 DEF ChannelInv, ChanTypes, FailedInv, AddressInv
<1>9. ClosedInv' /\ SetupInv' /\ ReleasedInv'
  BY <1>1 DEF ClosedInv, SetupInv, ReleasedInv
<1>10. TimingInv'
  BY <1>1, <1>2, <1>3, <1>4, <1>6, <1>7 DEF ChannelInv, TimingInv
<1>11. CallInv' /\ EndedInv'
  BY <1>1, <1>2, <1>3, <1>5, <1>7 DEF ChannelInv, CallInv, EndedInv
<1> QED BY <1>8, <1>9, <1>10, <1>11 DEF ChannelInv

LEMMA TesterEffects ==
    ASSUME Types, Tester, ~Pull
    PROVE  /\ Running /\ peer' = peer /\ toTester' = toTester
           /\ \A k : Contains(msgs', Control(k)) => Contains(msgs, Control(k))
           /\ NoSetup => NoSetup'
           /\ sent' = sent \/ sent' = sent + 1
           /\ (Running' /\ Calling) \/ Disconnect
           /\ failed' = failed \/ Raises
           /\ \/ connected' = connected
              \/ Contains(msgs, Control("close")) /\ Raises
              \/ Disconnect
<1>0. /\ toPeer \in Seq(Wireable) /\ msgs \in Seq(Wireable) /\ call.deferred \in Seq(Wireable)
      /\ call.deferred \in Seq(Frames) /\ call.job \in Seq(Frames)
      /\ results \in Seq(Seq(Bytes)) /\ sent \in Nat
  <2>1. Len(Requests) \in Nat
    BY TalkFacts
  <2> QED BY <2>1, TypesOpen
<1>1. msgs # <<>> =>
        /\ Tail(msgs) \in Seq(Wireable) /\ Head(msgs) \in Wireable
        /\ Contains(msgs, Head(msgs))
        /\ \A x : Contains(Tail(msgs), x) => Contains(msgs, x)
  BY <1>0, TailHas, TailFacts
<1>2. ASSUME NEW rest \in Seq(Wireable), NEW k, Contains(call.deferred \o rest, Control(k))
      PROVE  Contains(rest, Control(k))
  <2>1. Contains(call.deferred, Control(k)) \/ Contains(rest, Control(k))
    BY <1>0, <1>2, ConcatHas
  <2>2. ~Contains(call.deferred, Control(k))
    BY <1>0, KindFacts DEF Contains
  <2> QED BY <2>1, <2>2
<1>3. ASSUME NEW f \in Wireable, f # Control("setup"), NoSetup
      PROVE  ~Contains(Append(toPeer, f), Control("setup"))
  BY <1>0, <1>3, AppendHas DEF NoSetup
<1>4. ASSUME NEW rest \in Seq(Wireable), Raise(rest), pc \in Waits
      PROVE  /\ Raises /\ Running /\ Running' /\ Calling /\ sent' = sent
             /\ \A k : Contains(msgs', Control(k)) => Contains(rest, Control(k))
  BY <1>2, <1>4 DEF Raise, Raises, Listening, Running, Calling
<1>5. ASSUME NEW stage \in Waits, NEW k, Meets(stage, k)
      PROVE  /\ pc \in Waits /\ pc = stage /\ Running /\ Calling /\ peer' = peer /\ toTester' = toTester
             /\ msgs # <<>> /\ Head(msgs).kind = k
  BY <1>5 DEF Meets, Running, Calling
<1>6. CASE Begin
  <2>1. /\ pc = "idle" /\ sent < Len(Requests) /\ sent' = sent + 1 /\ msgs' = Without(msgs, "ack")
        /\ pc' = "send" /\ UNCHANGED <<connected, failed, toPeer, toTester, peer>>
    BY <1>6 DEF Begin
  <2>2. \A x : Contains(msgs', x) => Contains(msgs, x)
    BY <1>0, <2>1, WithoutHas
  <2> QED BY <2>1, <2>2 DEF Running, Calling, NoSetup
<1>7. CASE Transmit
  <2>1. /\ pc = "send" /\ pc' \in {"ack", "send"} /\ toPeer' = Append(toPeer, Head(call.job))
        /\ UNCHANGED <<msgs, connected, sent, failed, toTester, peer>>
    BY <1>7 DEF Transmit, Send
  <2>2. Head(call.job) \in Wireable /\ Head(call.job) # Control("setup")
    BY <1>0, <2>1, TypesOpen, TailFacts, WireableFacts, KindFacts
  <2> QED BY <1>3, <2>1, <2>2 DEF Running, Calling, NoSetup, Waits
<1>8. CASE WaitFrame \/ Ignored
  <2>1. \E stage \in Waits : \E k : Meets(stage, k)
    BY <1>8 DEF WaitFrame, Ignored, Takes, Waits
  <2>2. msgs' = Tail(msgs) /\ UNCHANGED <<pc, connected, sent, failed, toPeer>>
    BY <1>8 DEF WaitFrame, Ignored
  <2> QED BY <1>1, <1>5, <2>1, <2>2 DEF Running, NoSetup
<1>9. CASE Ping
  <2>1. \E stage \in Waits : Meets(stage, "ping")
    BY <1>9 DEF Ping, Takes
  <2>2. msgs' = Tail(msgs) /\ toPeer' = Append(toPeer, Control("pong")) /\ UNCHANGED <<pc, connected, sent, failed>>
    BY <1>9 DEF Ping, Send
  <2>3. Control("pong") \in Wireable /\ Control("pong") # Control("setup")
    BY WireableFacts, KindFacts
  <2> QED BY <1>1, <1>3, <1>5, <2>1, <2>2, <2>3 DEF Running, NoSetup
<1>10. CASE Closed
  <2>1. \E stage \in Waits : Meets(stage, "close")
    BY <1>10 DEF Closed, Takes
  <2>2. connected' = FALSE /\ Raise(Tail(msgs)) /\ toPeer' = toPeer
    BY <1>10 DEF Closed
  <2>3. Head(msgs) = Control("close")
    BY <1>1, <1>5, <2>1 DEF Wireable, Frames, Control
  <2> QED BY <1>1, <1>4, <1>5, <2>1, <2>2, <2>3 DEF NoSetup
<1>11. CASE AckArrives \/ AckByData
  <2>1. Meets("ack", "ack") \/ Meets("ack", "data")
    BY <1>11 DEF AckArrives, AckByData, Takes
  <2>2. msgs' = Tail(msgs) \/ msgs' = Append(Tail(msgs), Head(msgs))
    BY <1>11 DEF AckArrives, AckByData
  <2>3. pc' \in {"recv", "send"} /\ UNCHANGED <<connected, sent, failed, toPeer>>
    BY <1>11 DEF AckArrives, AckByData, Acknowledged
  <2>4. Running /\ Calling /\ peer' = peer /\ toTester' = toTester /\ msgs # <<>>
    BY <1>5, <2>1 DEF Waits
  <2>5. \A x : Contains(msgs', x) => Contains(msgs, x)
    <3>1. \A x : Contains(Append(Tail(msgs), Head(msgs)), x) => Contains(Tail(msgs), x) \/ x = Head(msgs)
      BY <1>1, <2>4, AppendHas
    <3> QED BY <1>1, <2>2, <2>4, <3>1
  <2> QED BY <2>3, <2>4, <2>5 DEF Running, Waits, NoSetup
<1>12. CASE RecvData
  <2>1. Meets("recv", "data") /\ connected' = connected
    BY <1>12 DEF RecvData, Takes
  <2>2. Running /\ Calling /\ pc \in Waits /\ peer' = peer /\ toTester' = toTester /\ msgs # <<>>
    BY <1>5, <2>1 DEF Waits
  <2>3. Head(msgs) \in Frames
    BY <1>1, <2>1, <2>2, WireableFacts DEF Meets
  <2> DEFINE f == Head(msgs)
             answer == IF Asks(f) THEN <<Ack(f.seq)>> ELSE <<>>
  <2>4. /\ Ack(f.seq) \in Wireable /\ Ack(f.seq) # Control("setup")
        /\ Control("ping") \in Wireable /\ Control("ping") # Control("setup")
    BY <2>3, WireableFacts, KindFacts
  <2>5. NoSetup => /\ ~Contains(toPeer \o answer, Control("setup"))
                   /\ ~Contains(toPeer \o answer \o <<Control("ping")>>, Control("setup"))
    <3>1. toPeer \o <<>> = toPeer /\ toPeer \o <<Ack(f.seq)>> = Append(toPeer, Ack(f.seq))
      BY <1>0, <2>4
    <3>2. NoSetup => ~Contains(toPeer \o answer, Control("setup"))
      BY <1>3, <2>4, <3>1 DEF NoSetup
    <3>3. toPeer \o answer \in Seq(Wireable)
      BY <1>0, <2>4
    <3> DEFINE q == toPeer \o answer
    <3> HIDE DEF q, answer
    <3>4. q \o <<Control("ping")>> = Append(q, Control("ping"))
      BY <2>4, <3>3 DEF q
    <3>5. Contains(Append(q, Control("ping")), Control("setup")) => Contains(q, Control("setup"))
      BY <2>4, <3>3, AppendHas DEF q
    <3> QED BY <3>2, <3>4, <3>5 DEF q
  <2>6. \/ Raise(Tail(msgs)) /\ toPeer' = toPeer
        \/ /\ msgs' = Tail(msgs) /\ UNCHANGED <<sent, failed>>
           /\ pc' \in {"recv", "alive", "idle"}
           /\ toPeer' = toPeer \o answer \/ toPeer' = toPeer \o answer \o <<Control("ping")>>
    <3> HIDE DEF answer
    <3>1. pc = "recv"
      BY <2>1 DEF Meets
    <3> QED BY <1>12, <3>1 DEF RecvData, Returned, answer
  <2>7. CASE Raise(Tail(msgs)) /\ toPeer' = toPeer
    BY <1>1, <1>4, <2>1, <2>2, <2>7 DEF NoSetup
  <2>8. CASE /\ msgs' = Tail(msgs) /\ UNCHANGED <<sent, failed>>
             /\ pc' \in {"recv", "alive", "idle"}
             /\ toPeer' = toPeer \o answer \/ toPeer' = toPeer \o answer \o <<Control("ping")>>
    <3> HIDE DEF answer
    <3>1. Running'
      BY <2>8 DEF Running, Waits
    <3>2. NoSetup => NoSetup'
      BY <2>5, <2>8 DEF NoSetup
    <3> QED BY <1>1, <2>1, <2>2, <2>8, <3>1, <3>2
  <2> QED BY <2>6, <2>7, <2>8
<1>13. CASE Alive
  <2>1. Meets("alive", "pong") /\ UNCHANGED <<connected, sent, failed, toPeer>>
    BY <1>13 DEF Alive, Takes
  <2>2. msgs' = call.deferred \o Tail(msgs) /\ pc' \in {"idle", "recv"}
    BY <1>13 DEF Alive, Returned, PutBack
  <2>3. Running /\ Calling /\ peer' = peer /\ toTester' = toTester /\ msgs # <<>>
    BY <1>5, <2>1 DEF Waits
  <2> QED BY <1>1, <1>2, <2>1, <2>2, <2>3 DEF Running, Waits, NoSetup
<1>14. CASE Defer
  <2>1. Meets("alive", "data") /\ msgs' = Tail(msgs) /\ UNCHANGED <<pc, connected, sent, failed, toPeer>>
    BY <1>14 DEF Defer, Takes
  <2>2. Running /\ Calling /\ peer' = peer /\ toTester' = toTester /\ msgs # <<>>
    BY <1>5, <2>1 DEF Waits
  <2> QED BY <1>1, <2>1, <2>2 DEF Running, NoSetup
<1>15. CASE TimeOut
  <2>1. pc \in Waits /\ Raise(msgs) /\ UNCHANGED <<connected, toPeer, toTester, peer>>
    BY <1>15 DEF TimeOut
  <2> QED BY <1>0, <1>4, <2>1 DEF NoSetup
<1>16. CASE Disconnect
  <2>1. /\ pc = "idle" /\ toPeer' = Append(toPeer, Control("close"))
        /\ UNCHANGED <<msgs, sent, failed, toTester, peer>>
    BY <1>16 DEF Disconnect, Send
  <2>2. Control("close") \in Wireable /\ Control("close") # Control("setup")
    BY WireableFacts, KindFacts
  <2> QED BY <1>3, <1>16, <2>1, <2>2 DEF Running, NoSetup
<1> QED BY <1>6, <1>7, <1>8, <1>9, <1>10, <1>11, <1>12, <1>13, <1>14, <1>15, <1>16 DEF Tester

\* A call's step.
LEMMA TesterStep ==
    ASSUME Types, ChannelInv, Tester, UNCHANGED chan, Histories
    PROVE  ChannelInv'
<1>1. CASE Pull
  BY <1>1, PullStep
<1> SUFFICES ASSUME ~Pull PROVE ChannelInv'
  BY <1>1
<1>2. /\ Running /\ peer' = peer /\ toTester' = toTester
      /\ \A k : Contains(msgs', Control(k)) => Contains(msgs, Control(k))
      /\ NoSetup => NoSetup'
      /\ sent' = sent \/ sent' = sent + 1
      /\ (Running' /\ Calling) \/ Disconnect
      /\ failed' = failed \/ Raises
      /\ connected' = connected \/ (Contains(msgs, Control("close")) /\ Raises) \/ Disconnect
  BY TesterEffects
<1>3. intercept' = intercept /\ probes' = probes /\ addressed' = addressed
  BY DEF chan
<1>4. ChanTypes
  BY DEF ChannelInv
<1>5. /\ failures' \in 0..Few /\ failures \in 0..Few
      /\ failures' = 0 => failures = 0
      /\ FewFailed' => FewFailed
      /\ Tame' => Tame
      /\ Tame /\ intercept => failures = 0
      /\ Raises => failures' > 0
      /\ Raises /\ FewFailed' => Tame
      /\ Raises /\ Tame' => failures = 0 /\ ~intercept
  BY <1>3, <1>4, Counted DEF Histories
<1>6. /\ pc \in {"idle", "send", "ack", "recv", "alive"}
      /\ Running' => pc' \in {"idle", "send", "ack", "recv", "alive"}
      /\ failed \in BOOLEAN /\ connected \in BOOLEAN
  BY <1>2, TypesOpen DEF Running, Waits
<1>7. Raises => failed'
  BY DEF Raises
<1>8. ASSUME Disconnect
      PROVE  /\ pc' = "closed" /\ failed' = failed /\ sent' = sent /\ ~Raises
             /\ failed \/ sent = Len(Requests)
             /\ pc = "idle" /\ Closes(toPeer')
  <2>1. /\ pc = "idle" /\ pc' = "closed" /\ failed' = failed /\ sent' = sent
        /\ failed \/ sent = Len(Requests)
        /\ toPeer' = Append(toPeer, Control("close"))
    BY <1>8 DEF Disconnect, Send
  <2>2. Closes(toPeer')
    <3>1. toPeer \in Seq(Wireable) /\ Control("close") \in Wireable
      BY TypesOpen, WireableFacts
    <3> QED BY <2>1, <3>1, AppendHas
  <2>3. ~Raises
    BY <2>1 DEF Raises, Listening, Waits
  <2> QED BY <2>1, <2>2, <2>3
<1>9. FailedInv /\ CallInv /\ EndedInv /\ (failed => failures > 0)
  BY DEF ChannelInv, FailedInv
<1>10. ChanTypes' /\ AddressInv'
  <2>1. ChanTypes'
    BY <1>3, <1>4, <1>5 DEF ChanTypes, Histories
  <2>2. pc' # "setup"
    BY <1>6, <1>8, <1>2
  <2> QED BY <1>3, <2>1, <2>2 DEF ChannelInv, AddressInv
<1>11. FailedInv'
  <2>1. failed' => failures' > 0
    <3>1. failed' => failed \/ Raises
      BY <1>2, Zenon
    <3> QED BY <1>5, <1>9, <3>1 DEF Few
  <2>2. pc' \notin {"setup", "timing"}
    BY <1>2, <1>6, <1>8
  <2>3. ASSUME Running', ~connected' PROVE failed'
    <3>1. ~Disconnect
      BY <1>8, <2>3 DEF Running, Waits
    <3> QED BY <1>2, <1>7, <1>9, <2>3, <3>1 DEF FailedInv
  <2> QED BY <2>1, <2>2, <2>3 DEF FailedInv
<1>12. ClosedInv'
  <2> SUFFICES ASSUME pc' = "closed", Tame', sent' < Len(Requests)
               PROVE  failures' # 0 /\ NoSetup' /\ NoAnswer'
    BY DEF ClosedInv
  <2>1. Disconnect
    BY <1>2, <1>6
  <2>2. failed /\ failures > 0 /\ Tame
    BY <1>5, <1>8, <1>9, <2>1
  <2>3. ~intercept /\ Calling
    BY <1>5, <1>8, <2>1, <2>2 DEF Calling
  <2>4. NoSetup /\ NoAnswer
    BY <1>9, <2>2, <2>3 DEF CallInv
  <2> QED BY <1>2, <1>5, <2>2, <2>4 DEF NoAnswer
<1>13. SetupInv' /\ TimingInv'
  BY <1>2, <1>6, <1>8 DEF SetupInv, TimingInv
<1>14. CallInv'
  <2> SUFFICES ASSUME Calling', Tame'
               PROVE  /\ NoSetup'
                      /\ Contains(msgs', Control("close")) \/ Contains(toTester', Control("close")) => peer'.closed
                      /\ ~intercept' /\ (failures' = 0 \/ failed') => NoAnswer'
    BY DEF CallInv
  <2>1. ~Disconnect
    BY <1>8 DEF Calling, Waits
  <2>2. Calling /\ Tame
    BY <1>2, <1>5, <2>1
  <2>3. /\ NoSetup
        /\ Contains(msgs, Control("close")) \/ Contains(toTester, Control("close")) => peer.closed
        /\ ~intercept /\ (failures = 0 \/ failed) => NoAnswer
    BY <1>9, <2>2 DEF CallInv
  <2>4. failures' = 0 \/ failed' => failures = 0 \/ failed
    BY <1>2, <1>5
  <2> QED BY <1>2, <1>3, <2>3, <2>4 DEF NoAnswer
<1>15. EndedInv'
  <2> SUFFICES ASSUME Running', ~connected', FewFailed' PROVE peer'.closed /\ NoSetup'
    BY DEF EndedInv
  <2>1. ~Disconnect
    BY <1>8 DEF Running, Waits
  <2>2. CASE ~connected
    BY <1>2, <1>5, <1>9, <2>2 DEF EndedInv
  <2>3. CASE connected
    <3>1. Contains(msgs, Control("close")) /\ Raises
      BY <1>2, <2>1, <2>3
    <3>2. Tame /\ Calling
      BY <1>2, <1>5, <2>1, <3>1
    <3> QED BY <1>2, <1>9, <3>1, <3>2 DEF CallInv
  <2> QED BY <2>2, <2>3
<1>16. ReleasedInv'
  <2>1. pc' \in {"closed", "over"} => Closes(toPeer')
    BY <1>2, <1>6, <1>8
  <2> QED BY <2>1 DEF ReleasedInv, Ending
<1> QED BY <1>10, <1>11, <1>12, <1>13, <1>14, <1>15, <1>16 DEF ChannelInv

--------------------------------------------------------------------------------
(***************************************************************************)
(* The steps that open a channel or give one up.                           *)
(***************************************************************************)

\* What is left behind the first n frames was there before, and stood behind those.
LEMMA LeftHas ==
    ASSUME NEW T, NEW q \in Seq(T), NEW n \in 0..Len(q)
    PROVE  LET left == SubSeq(q, n + 1, Len(q))
           IN  /\ \A x : Contains(left, x) => Contains(q, x)
               /\ \A x, y : Precedes(left, x, y) => Precedes(q, x, y)
               /\ \A x \in Range(SubSeq(q, 1, n)) :
                    Contains(q, x) /\ \A y : Contains(left, y) => Precedes(q, x, y)
<1> DEFINE s == SubSeq(q, 1, n)
           t == SubSeq(q, n + 1, Len(q))
<1>1. s \in Seq(T) /\ t \in Seq(T) /\ s \o t = q
  BY CutHas
<1> HIDE DEF s, t
<1>2. /\ \A x : Contains(s \o t, x) <=> Contains(s, x) \/ Contains(t, x)
      /\ \A x, y : Precedes(s \o t, x, y) <=>
           \/ Precedes(s, x, y) \/ Precedes(t, x, y)
           \/ Contains(s, x) /\ Contains(t, y)
  BY <1>1, ConcatHas
<1>3. \A x \in Range(s) : Contains(s, x)
  BY <1>1 DEF Range, Contains
<1> QED BY <1>1, <1>2, <1>3 DEF s, t

LEMMA OpenStep ==
    ASSUME Types, ChannelInv, Open, Histories
    PROVE  ChannelInv'
<1>0. toPeer \in Seq(Wireable) /\ toTester \in Seq(Wireable) /\ Control("setup") \in Wireable
  BY TypesOpen, WireableFacts
<1>1. /\ pc = "closed" /\ pc' = "setup" /\ toPeer' = Append(toPeer, Control("setup")) /\ msgs' = <<>>
      /\ failed' = FALSE /\ addressed' = FALSE /\ probes' = (IF intercept THEN MaxProbes ELSE 0)
      /\ sent' = sent /\ intercept' = intercept /\ peer' = peer
  BY DEF Open, Send, Untouched
<1>2. failures' = failures /\ closeLost' \in BOOLEAN
  <2>1. ~Raises
    BY <1>1 DEF Raises
  <2> QED BY <2>1 DEF Histories, ChannelInv, ChanTypes
<1>3. /\ \A x : Contains(toTester', x) => Contains(toTester, x)
      /\ \A x, y : Precedes(toTester', x, y) => Precedes(toTester, x, y)
  <2>1. PICK n \in 0..Len(toTester) : toTester' = SubSeq(toTester, n + 1, Len(toTester))
    BY DEF Open
  <2> QED BY <1>0, <2>1, LeftHas
<1>4. /\ \A x : Contains(toPeer', x) <=> Contains(toPeer, x) \/ x = Control("setup")
      /\ \A x, y : Precedes(toPeer', x, y) <=>
           Precedes(toPeer, x, y) \/ (Contains(toPeer, x) /\ y = Control("setup"))
  BY <1>0, <1>1, AppendHas
<1>5. Unasked => Unasked'
  <2>1. Control("ping") # Control("setup") /\ Control("timing") # Control("setup")
    BY KindFacts
  <2> QED BY <1>3, <1>4, <2>1 DEF Unasked, NoQuery
<1>6. NoSetup /\ NoAnswer => OneSetup'
  BY <1>3, <1>4, PrecedesHas DEF NoSetup, NoAnswer, OneSetup
<1>7. ChanTypes /\ (Tame /\ intercept => failures = 0)
  BY DEF ChannelInv, ChanTypes, Tame, Few
<1>8. SetupInv'
  <2> SUFFICES ASSUME Tame, sent < Len(Requests)
               PROVE  /\ failures = 0 => Unasked' /\ OneSetup'
                      /\ Unasked' \/ (~intercept /\ OneSetup')
    BY <1>1, <1>2 DEF SetupInv, Tame
  <2>1. /\ failures = 0 => Unasked /\ NoSetup /\ NoAnswer
        /\ Unasked \/ (NoSetup /\ NoAnswer)
    BY <1>1 DEF ChannelInv, ClosedInv
  <2> QED BY <1>5, <1>6, <1>7, <2>1
<1>9. ChanTypes' /\ FailedInv' /\ AddressInv'
  <2>1. probes' \in Nat /\ (probes' > 0 => intercept)
    BY <1>1, ChannelAssumption
  <2> QED BY <1>1, <1>2, <1>7, <2>1 DEF ChanTypes, FailedInv, AddressInv, Running, Waits
<1>10. ClosedInv' /\ TimingInv' /\ CallInv' /\ EndedInv' /\ ReleasedInv'
  BY <1>1 DEF ClosedInv, TimingInv, CallInv, EndedInv, ReleasedInv, Calling, Running, Waits
<1> QED BY <1>8, <1>9, <1>10 DEF ChannelInv

LEMMA ProbeStep ==
    ASSUME Types, ChannelInv, Probe, Histories
    PROVE  ChannelInv'
<1>0. toPeer \in Seq(Wireable) /\ Control("setup") \in Wireable
  BY TypesOpen, WireableFacts
<1>1. /\ pc = "setup" /\ pc' = pc /\ toPeer' = Append(toPeer, Control("setup"))
      /\ probes > 0 /\ probes' = probes - 1
      /\ failed' = failed /\ addressed' = addressed /\ msgs' = msgs
      /\ sent' = sent /\ intercept' = intercept /\ toTester' = toTester
  BY DEF Probe, Send, Untouched
<1>2. failures' = failures /\ closeLost' \in BOOLEAN
  <2>1. ~Raises
    BY <1>1 DEF Raises
  <2> QED BY <2>1 DEF Histories, ChannelInv, ChanTypes
<1>3. Unasked => Unasked'
  <2>1. Control("ping") # Control("setup") /\ Control("timing") # Control("setup")
    BY KindFacts
  <2>2. \A x : Contains(toPeer', x) <=> Contains(toPeer, x) \/ x = Control("setup")
    BY <1>0, <1>1, AppendHas
  <2> QED BY <1>1, <2>1, <2>2 DEF Unasked, NoQuery
<1>4. /\ ChanTypes /\ intercept /\ probes - 1 \in Nat
      /\ Tame => failures = 0
  BY <1>1 DEF ChannelInv, ChanTypes, AddressInv, Tame, Few
<1>5. SetupInv'
  <2>1. Tame /\ sent < Len(Requests) => Unasked
    BY <1>1, <1>4 DEF ChannelInv, SetupInv
  <2> QED BY <1>1, <1>2, <1>3, <1>4, <2>1 DEF SetupInv, Tame
<1>6. ChanTypes' /\ FailedInv' /\ AddressInv'
  BY <1>1, <1>2, <1>4 DEF ChannelInv, ChanTypes, FailedInv, AddressInv, Running, Waits
<1>7. ClosedInv' /\ TimingInv' /\ CallInv' /\ EndedInv' /\ ReleasedInv'
  BY <1>1 DEF ClosedInv, TimingInv, CallInv, EndedInv, ReleasedInv, Calling, Running, Waits
<1> QED BY <1>5, <1>6, <1>7 DEF ChannelInv

LEMMA SetupReceivesStep ==
    ASSUME Types, ChannelInv, SetupReceives, Histories
    PROVE  ChannelInv'
<1>0. toPeer \in Seq(Wireable) /\ toTester \in Seq(Wireable) /\ Control("timing") \in Wireable
  BY TypesOpen, WireableFacts
<1>1. /\ pc = "setup" /\ sent' = sent /\ intercept' = intercept /\ failed' = failed /\ probes' = probes
      /\ msgs' = msgs
  BY DEF SetupReceives, Untouched
<1>2. failures' = failures /\ closeLost' \in BOOLEAN
  <2>1. ~Raises
    <3>1. pc' = pc \/ pc' = "timing"
      BY DEF SetupReceives
    <3> QED BY <1>1, <3>1 DEF Raises
  <2> QED BY <2>1 DEF Histories, ChannelInv, ChanTypes
<1>3. PICK n \in 1..Len(toTester) :
        /\ toTester' = SubSeq(toTester, n + 1, Len(toTester))
        /\ \/ ~Answered(SubSeq(toTester, 1, n)) /\ UNCHANGED <<pc, addressed, toPeer>>
           \/ /\ Answered(SubSeq(toTester, 1, n)) /\ pc' = "timing" /\ addressed' = TRUE
              /\ toPeer' = Append(toPeer, Control("timing"))
  BY DEF SetupReceives, Send
<1>4. /\ \A x : Contains(toTester', x) => Contains(toTester, x)
      /\ \A x, y : Precedes(toTester', x, y) => Precedes(toTester, x, y)
      /\ Answered(SubSeq(toTester, 1, n)) =>
           /\ Contains(toTester, Control("setup"))
           /\ \A y : Contains(toTester', y) => Precedes(toTester, Control("setup"), y)
  <2>1. n \in 0..Len(toTester)
    OBVIOUS
  <2> QED BY <1>0, <1>3, <2>1, LeftHas DEF Answered
<1>5. ChanTypes' /\ FailedInv' /\ AddressInv'
  <2>1. ChanTypes'
    BY <1>1, <1>2, <1>3 DEF ChannelInv, ChanTypes
  <2>2. FailedInv'
    BY <1>1, <1>2, <1>3 DEF ChannelInv, FailedInv, Running, Waits
  <2>3. AddressInv'
    BY <1>1, <1>3 DEF ChannelInv, AddressInv
  <2> QED BY <2>1, <2>2, <2>3
<1>6. ClosedInv' /\ CallInv' /\ EndedInv' /\ ReleasedInv'
  BY <1>1, <1>3 DEF ClosedInv, CallInv, EndedInv, ReleasedInv, Calling, Running, Waits
<1>7. CASE pc' = pc
  <2>1. toPeer' = toPeer
    BY <1>1, <1>3, <1>7
  <2>2. Unasked => Unasked'
    BY <1>4, <2>1 DEF Unasked, NoQuery
  <2>3. OneSetup => OneSetup'
    <3>1. peer' = peer
      BY DEF SetupReceives, Untouched
    <3> QED BY <1>4, <2>1, <3>1 DEF OneSetup, NoSetup, NoAnswer, NoQuery
  <2>4. SetupInv'
    BY <1>1, <1>2, <1>7, <2>2, <2>3 DEF ChannelInv, SetupInv, Tame
  <2>5. TimingInv'
    BY <1>1, <1>7 DEF TimingInv
  <2> QED BY <1>5, <1>6, <2>4, <2>5 DEF ChannelInv
<1>8. CASE pc' = "timing"
  <2>1. /\ Contains(toTester, Control("setup"))
        /\ \A y : Contains(toTester', y) => Precedes(toTester, Control("setup"), y)
        /\ toPeer' = Append(toPeer, Control("timing"))
    BY <1>1, <1>3, <1>4, <1>8
  <2>2. SetupInv'
    BY <1>8 DEF SetupInv
  <2>3. ~NoAnswer
    BY <2>1 DEF NoAnswer
  <2>4. /\ \A x : Contains(toPeer', x) <=> Contains(toPeer, x) \/ x = Control("timing")
        /\ \A x, y : Precedes(toPeer', x, y) <=>
             Precedes(toPeer, x, y) \/ (Contains(toPeer, x) /\ y = Control("timing"))
    BY <1>0, <2>1, AppendHas
  <2>5. \A k \in {"setup", "ping"} : Control(k) # Control("timing")
    BY KindFacts
  <2>6. TimingInv'
    <3> SUFFICES ASSUME Tame, sent < Len(Requests)
                 PROVE  /\ failures = 0 /\ ~intercept => NoSetup' /\ NoAnswer'
                        /\ ~Contains(toPeer', Control("ping"))
                        /\ ~Precedes(toPeer', Control("timing"), Control("setup"))
                        /\ ~Contains(msgs' \o toTester', Control("pong"))
      BY <1>1, <1>2, PrecedesHas DEF TimingInv, Tame
    <3>1. /\ failures = 0 => Unasked /\ (intercept \/ OneSetup)
          /\ Unasked \/ (~intercept /\ OneSetup)
      BY <1>1 DEF ChannelInv, SetupInv
    <3>2. NoQuery
      BY <2>3, <3>1 DEF Unasked, OneSetup
    <3>3. ~Contains(toTester', Control("pong"))
      <4>1. CASE Unasked
        BY <1>4, <4>1 DEF Unasked
      <4>2. CASE OneSetup
        BY <2>1, <4>2 DEF OneSetup
      <4> QED BY <3>1, <4>1, <4>2
    <3>4. msgs' \o toTester' = toTester'
      <4>1. msgs' = <<>>
        BY <1>1 DEF ChannelInv, AddressInv
      <4>2. toTester' \in Seq(Wireable)
        <5>1. n \in 0..Len(toTester)
          OBVIOUS
        <5> QED BY <1>0, <1>3, <5>1, CutHas
      <4> QED BY <4>1, <4>2
    <3>5. ASSUME OneSetup PROVE NoSetup' /\ NoAnswer'
      <4>1. NoSetup
        BY <2>3, <3>5 DEF OneSetup
      <4>2. NoAnswer'
        BY <2>1, <3>5 DEF OneSetup, NoAnswer
      <4> QED BY <2>4, <2>5, <4>1, <4>2 DEF NoSetup
    <3>6. ~Contains(toPeer', Control("ping"))
      BY <2>4, <2>5, <3>2 DEF NoQuery
    <3>7. ~Precedes(toPeer', Control("timing"), Control("setup"))
      BY <2>4, <2>5, <3>2, PrecedesHas DEF NoQuery
    <3> QED BY <3>1, <3>3, <3>4, <3>5, <3>6, <3>7
  <2> QED BY <1>5, <1>6, <2>2, <2>6 DEF ChannelInv
<1> QED BY <1>3, <1>7, <1>8

\* The A1 answers the timing that was asked for on this channel.
LEMMA TimedStep ==
    ASSUME Types, ChannelInv, Timing, pc' = "idle", Histories
    PROVE  ChannelInv'
<1>0. /\ msgs \in Seq(Wireable) /\ toTester \in Seq(Wireable)
      /\ msgs # <<>> /\ Head(msgs) \in Wireable
  BY TypesOpen, TailFacts DEF Timing
<1>1. /\ pc = "timing" /\ msgs' = Tail(msgs) /\ Head(msgs).kind = "pong"
      /\ connected' = TRUE /\ UNCHANGED <<failed, toPeer, probes, addressed>>
      /\ UNCHANGED <<sent, peer, intercept, toTester>>
  BY DEF Timing, Untouched, AttemptFails
<1>2. Head(msgs) = Control("pong")
  BY <1>0, <1>1 DEF Wireable, Frames, Control
<1>3. ~failed /\ ChanTypes
  BY <1>1 DEF ChannelInv, FailedInv
<1>4. failures' = failures /\ closeLost' \in BOOLEAN
  <2>1. ~Raises
    BY <1>1, <1>3 DEF Raises
  <2> QED BY <1>3, <2>1 DEF Histories, ChanTypes
<1>5. CallInv'
  <2> SUFFICES ASSUME Tame, sent < Len(Requests)
               PROVE  /\ NoSetup
                      /\ Contains(Tail(msgs), Control("close")) \/ Contains(toTester, Control("close"))
                           => peer.closed
                      /\ failures = 0 /\ ~intercept => NoAnswer
    BY <1>1, <1>3, <1>4 DEF CallInv, Calling, Tame, Waits, NoSetup, NoAnswer
  <2>1. /\ failures = 0 /\ ~intercept => NoSetup /\ NoAnswer
        /\ Contains(msgs \o toTester, Control("pong")) => NoSetup
        /\ Precedes(msgs \o toTester, Control("pong"), Control("close")) => peer.closed
    BY <1>1 DEF ChannelInv, TimingInv
  <2>2. /\ \A x : Contains(msgs \o toTester, x) <=> Contains(msgs, x) \/ Contains(toTester, x)
        /\ \A x, y : Precedes(msgs \o toTester, x, y) <=>
             \/ Precedes(msgs, x, y) \/ Precedes(toTester, x, y)
             \/ Contains(msgs, x) /\ Contains(toTester, y)
    BY <1>0, ConcatHas
  <2>3. /\ Contains(msgs, Control("pong"))
        /\ \A x : Contains(Tail(msgs), x) => Precedes(msgs, Control("pong"), x)
    BY <1>0, <1>2, TailHas
  <2> QED BY <2>1, <2>2, <2>3
<1>6. ChanTypes' /\ FailedInv' /\ AddressInv'
  <2>1. ChanTypes'
    BY <1>1, <1>3, <1>4 DEF ChanTypes
  <2>2. FailedInv'
    BY <1>1, <1>3 DEF FailedInv
  <2>3. AddressInv'
    BY <1>1 DEF ChannelInv, AddressInv
  <2> QED BY <2>1, <2>2, <2>3
<1>7. ClosedInv' /\ SetupInv' /\ TimingInv' /\ EndedInv' /\ ReleasedInv'
  BY <1>1 DEF ClosedInv, SetupInv, TimingInv, EndedInv, ReleasedInv
<1> QED BY <1>5, <1>6, <1>7 DEF ChannelInv

\* A constructor that raises sends an A8 to the channel whose addresses it was given.
LEMMA FailsStep ==
    ASSUME Types, ChannelInv, AttemptFails, pc \in {"setup", "timing"}, Untouched, toTester' = toTester,
           Histories
    PROVE  ChannelInv'
<1>0. toPeer \in Seq(Wireable) /\ Control("close") \in Wireable /\ Control("close") # Control("setup")
  BY TypesOpen, WireableFacts, KindFacts
<1>1. /\ pc' \in {"closed", "over"} /\ failed' = TRUE
      /\ toPeer' = (IF addressed THEN Append(toPeer, Control("close")) ELSE toPeer)
      /\ UNCHANGED <<sent, results, peer, intercept, probes, addressed, toTester>>
  BY DEF AttemptFails, Closing, Untouched
<1>2. Raises
  BY <1>1 DEF Raises, Listening
<1>3. ChanTypes /\ FailedInv /\ SetupInv /\ TimingInv /\ AddressInv
  BY DEF ChannelInv
<1>4. /\ failures' \in 0..Few /\ failures' > 0
      /\ Tame' => Tame /\ failures = 0 /\ ~intercept
  BY <1>1, <1>2, <1>3, Counted DEF Histories
<1>5. ClosedInv'
  <2> SUFFICES ASSUME Tame', sent < Len(Requests)
               PROVE  Unasked' \/ (NoSetup' /\ NoAnswer')
    BY <1>1, <1>4 DEF ClosedInv
  <2>1. CASE pc = "setup"
    <3>1. Unasked /\ ~addressed
      BY <1>3, <1>4, <2>1 DEF SetupInv, AddressInv
    <3> QED BY <1>1, <3>1 DEF Unasked, NoQuery
  <2>2. CASE pc = "timing"
    <3>1. NoSetup /\ NoAnswer
      BY <1>3, <1>4, <2>2 DEF TimingInv
    <3>2. ~Contains(Append(toPeer, Control("close")), Control("setup"))
      BY <1>0, <3>1, AppendHas DEF NoSetup
    <3> QED BY <1>1, <3>1, <3>2 DEF NoSetup, NoAnswer
  <2> QED BY <2>1, <2>2
<1>6. ReleasedInv'
  <2>1. Closes(Append(toPeer, Control("close")))
    BY <1>0, AppendHas
  <2> QED BY <1>1, <2>1 DEF ReleasedInv, Ending
<1>7. ChanTypes' /\ FailedInv' /\ AddressInv'
  <2>1. ChanTypes'
    BY <1>1, <1>3, <1>4 DEF ChanTypes, Histories
  <2>2. FailedInv'
    BY <1>1, <1>4 DEF FailedInv, Running, Waits
  <2>3. AddressInv'
    BY <1>1, <1>3 DEF AddressInv
  <2> QED BY <2>1, <2>2, <2>3
<1>8. SetupInv' /\ TimingInv' /\ CallInv' /\ EndedInv'
  BY <1>1 DEF SetupInv, TimingInv, CallInv, EndedInv, Calling, Running, Waits
<1> QED BY <1>5, <1>6, <1>7, <1>8 DEF ChannelInv

LEMMA ClearFailsStep ==
    ASSUME Types, ChannelInv, ClearFails, Histories
    PROVE  ChannelInv'
<1>1. /\ pc = "closed" /\ pc' \in {"closed", "over"}
      /\ UNCHANGED <<msgs, connected, sent, failed, toPeer, toTester, peer, intercept, probes, addressed>>
  BY DEF ClearFails
<1>2. failures' = failures /\ closeLost' \in BOOLEAN /\ (~closeLost' => ~closeLost)
  <2>1. ~Raises
    BY <1>1 DEF Raises, Listening, Waits
  <2> QED BY <2>1 DEF Histories, ChannelInv, ChanTypes
<1>3. (Tame' <=> Tame) /\ (FewFailed' <=> FewFailed)
  BY <1>1, <1>2 DEF Tame, FewFailed
<1>4. ChanTypes' /\ FailedInv' /\ AddressInv'
  <2>1. ChanTypes'
    BY <1>1, <1>2 DEF ChannelInv, ChanTypes
  <2>2. FailedInv'
    BY <1>1, <1>2 DEF ChannelInv, FailedInv, Running, Waits
  <2>3. AddressInv'
    BY <1>1 DEF ChannelInv, AddressInv
  <2> QED BY <2>1, <2>2, <2>3
<1>5. ClosedInv'
  BY <1>1, <1>2, <1>3 DEF ChannelInv, ClosedInv, Unasked, NoQuery, NoSetup, NoAnswer
<1>6. ReleasedInv'
  BY <1>1, <1>2, <1>3 DEF ChannelInv, ReleasedInv, Ending, NoSetup
<1>7. SetupInv' /\ TimingInv' /\ CallInv' /\ EndedInv'
  BY <1>1 DEF SetupInv, TimingInv, CallInv, EndedInv, Calling, Running, Waits
<1> QED BY <1>4, <1>5, <1>6, <1>7 DEF ChannelInv

LEMMA AbandonStep ==
    ASSUME Types, ChannelInv, Abandon, Histories
    PROVE  ChannelInv'
<1>1. /\ pc = "idle" /\ ~connected /\ pc' = "closed"
      /\ UNCHANGED <<msgs, connected, sent, failed, toPeer, toTester, peer, intercept, probes, addressed>>
  BY DEF Abandon, Untouched
<1>2. failures' = failures /\ closeLost' \in BOOLEAN
  <2>1. ~Raises
    BY <1>1 DEF Raises, Listening, Waits
  <2> QED BY <2>1 DEF Histories, ChannelInv, ChanTypes
<1>3. (Tame' <=> Tame) /\ (FewFailed' <=> FewFailed) /\ Running
  BY <1>1, <1>2 DEF Tame, FewFailed, Running
<1>4. failed /\ failures > 0
  BY <1>1, <1>3 DEF ChannelInv, FailedInv
<1>5. ClosedInv'
  <2> SUFFICES ASSUME Tame, sent < Len(Requests)
               PROVE  failures # 0 /\ NoSetup /\ NoAnswer
    BY <1>1, <1>2, <1>3 DEF ClosedInv, NoSetup, NoAnswer
  <2>1. Calling
    BY <1>1 DEF Calling
  <2>2. ~intercept /\ failures # 0
    BY <1>4 DEF ChannelInv, ChanTypes, Tame, Few
  <2> QED BY <1>4, <2>1, <2>2 DEF ChannelInv, CallInv
<1>6. ReleasedInv'
  <2>1. FewFailed => peer.closed /\ NoSetup
    BY <1>1, <1>3 DEF ChannelInv, EndedInv
  <2> QED BY <1>1, <1>3, <2>1 DEF ReleasedInv, Ending, NoSetup
<1>7. ChanTypes' /\ FailedInv' /\ AddressInv'
  <2>1. ChanTypes'
    BY <1>1, <1>2 DEF ChannelInv, ChanTypes
  <2>2. FailedInv'
    BY <1>1, <1>2 DEF ChannelInv, FailedInv, Running, Waits
  <2>3. AddressInv'
    BY <1>1 DEF ChannelInv, AddressInv
  <2> QED BY <2>1, <2>2, <2>3
<1>8. SetupInv' /\ TimingInv' /\ CallInv' /\ EndedInv'
  BY <1>1 DEF SetupInv, TimingInv, CallInv, EndedInv, Calling, Running, Waits
<1> QED BY <1>5, <1>6, <1>7, <1>8 DEF ChannelInv

LEMMA OpeningStep ==
    ASSUME Types, ChannelInv, Opening, Histories
    PROVE  ChannelInv'
<1>1. CASE Timing
  <2>1. pc = "timing" /\ Untouched /\ toTester' = toTester /\ (pc' = "idle" \/ AttemptFails)
    BY <1>1 DEF Timing
  <2> QED BY <1>1, <2>1, TimedStep, FailsStep
<1>2. CASE SetupTimesOut
  <2>1. pc \in {"setup", "timing"} /\ AttemptFails /\ Untouched /\ toTester' = toTester
    BY <1>2 DEF SetupTimesOut
  <2> QED BY <2>1, FailsStep
<1> QED BY <1>1, <1>2, OpenStep, ClearFailsStep, ProbeStep, SetupReceivesStep, AbandonStep DEF Opening

--------------------------------------------------------------------------------
(***************************************************************************)
(* The theorems.                                                           *)
(***************************************************************************)

LEMMA ChannelStart == ChannelInit => Types /\ ChannelInv
<1> SUFFICES ASSUME ChannelInit PROVE Types /\ ChannelInv
  OBVIOUS
<1>1. Types
  BY TypesAtFirst DEF ChannelInit
<1>2. /\ pc = "closed" /\ connected = FALSE /\ failed = FALSE /\ msgs = <<>>
      /\ toPeer = <<>> /\ toTester = <<>>
  BY DEF ChannelInit, InitWith
<1>3. /\ intercept \in BOOLEAN /\ probes = 0 /\ addressed = FALSE
      /\ failures = 0 /\ closeLost = FALSE
  BY DEF ChannelInit
<1>4. NoSetup /\ NoAnswer /\ Unasked
  BY <1>2, EmptyHas DEF NoSetup, NoAnswer, Unasked, NoQuery
<1>5. ChanTypes /\ FailedInv /\ AddressInv
  <2>1. ChanTypes
    <3>1. 0 \in Nat /\ 0 \in 0..Few
      BY DEF Few
    <3> QED BY <1>3, <3>1, Zenon DEF ChanTypes
  <2>2. FailedInv
    BY <1>2 DEF FailedInv, Running, Waits
  <2>3. AddressInv
    BY <1>2, <1>3 DEF AddressInv
  <2> QED BY <2>1, <2>2, <2>3
<1>6. ClosedInv /\ SetupInv /\ TimingInv /\ CallInv /\ EndedInv /\ ReleasedInv
  BY <1>2, <1>3, <1>4
     DEF ClosedInv, SetupInv, TimingInv, CallInv, EndedInv, ReleasedInv, Calling, Running, Waits
<1> QED BY <1>1, <1>5, <1>6 DEF ChannelInv

LEMMA ChannelKept == Types /\ ChannelInv /\ [ChannelNext]_channelVars => ChannelInv'
<1> SUFFICES ASSUME Types, ChannelInv, [ChannelNext]_channelVars PROVE ChannelInv'
  OBVIOUS
<1>1. CASE ChannelNext
  <2>1. Histories
    BY <1>1 DEF ChannelNext, Histories
  <2>2. \/ Opening \/ (Tester /\ UNCHANGED chan) \/ PeerOpens
        \/ ((PeerTimed \/ Answering \/ Befalling) /\ UNCHANGED chan)
    <3>1. PeerTimed => UNCHANGED chan
      BY DEF PeerTimed
    <3> QED BY <1>1, <3>1 DEF ChannelNext, Client, Server
  <2> QED BY <2>1, <2>2, OpeningStep, TesterStep, GatewayStep, PeerStep
<1>2. CASE UNCHANGED channelVars
  BY <1>2 DEF channelVars, vars, tester, chan, ChannelInv, ChanTypes, FailedInv, AddressInv, ClosedInv,
     SetupInv, TimingInv, CallInv, EndedInv, ReleasedInv, Tame, FewFailed, Running, Calling, Ending,
     Unasked, NoQuery, NoSetup, NoAnswer, OneSetup
<1> QED BY <1>1, <1>2

\* While channels are opened, used and given up, one after the other over the same adapter
\* and peer, the frames that earlier attempts left on their way are those of ChannelInv
\* (haldex_flasher.py:101-172, tp2.py:193-202, 250-290).
THEOREM ChannelInductive == ChannelSpec => [](Types /\ ChannelInv)
<1> QED BY ChannelStart, ChannelTypes, ChannelKept, PTL DEF ChannelSpec

\* No channel whose addresses the client was given stays open at the gateway when the
\* client is done with it, unless an A8 is lost or too many attempts failed
\* (tp2.py:193-202, haldex_flasher.py:168-172).
THEOREM ReleasedHolds == ChannelSpec => []Released
<1>1. ChannelInv => Released
  <2> SUFFICES ASSUME ChannelInv, pc \in {"closed", "over"}, addressed, FewFailed, toPeer = <<>>, ~closeLost
               PROVE  peer.closed
    BY DEF Released
  <2>1. Ending
    BY DEF ChannelInv, ReleasedInv
  <2>2. ~Closes(<<>>)
    BY DEF Closes
  <2> QED BY <2>1, <2>2 DEF Ending
<1> QED BY <1>1, ChannelInductive, PTL
================================================================================
