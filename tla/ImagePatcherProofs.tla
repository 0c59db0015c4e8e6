-------------------------- MODULE ImagePatcherProofs --------------------------
(***************************************************************************)
(* Proofs about ImagePatcher, for every layout of sectors, every place of   *)
(* the code in one of them, every image and every edit.  The sum of a       *)
(* sector is whatever it is: what matters is which words it is taken over.  *)
(***************************************************************************)
EXTENDS ImagePatcher, SequenceLemmas, TLAPS

--------------------------------------------------------------------------------
(***************************************************************************)
(* Sectors and selections.                                                 *)
(***************************************************************************)

LEMMA Places ==
    /\ Addresses = 1..Len(Stock) /\ Len(Stock) \in Nat
    /\ \A s \in Sectors : /\ s[1] \in Nat /\ s[2] \in Nat /\ 1 <= s[1] /\ s[1] < s[2] /\ s[2] <= Len(Stock)
                          /\ s[1] \in Addresses /\ s[2] \in Addresses
  BY PatcherAssumption DEF Addresses

\* A sector is that of its last word, and words of others lie outside of it.
LEMMA Apart ==
    ASSUME NEW s \in Sectors, NEW t \in Sectors, NEW a \in s[1]..s[2], a \in t[1]..t[2]
    PROVE  s = t
  BY Places, PatcherAssumption
\* A selection is a range of whole sectors: a sector is in it or beside it.
LEMMA InOrBeside ==
    ASSUME NEW from, NEW to, Selectable(from, to), NEW s \in Sectors
    PROVE  /\ s \in Selected(from, to) => s[1]..s[2] \subseteq from..to
           /\ s \notin Selected(from, to) => (s[1]..s[2]) \intersect (from..to) = {}
           /\ from \in Nat /\ to \in Nat
<1>1. PICK f \in Sectors, l \in Sectors : f[1] = from /\ l[2] = to
  BY DEF Selectable
<1>2. from \in Nat /\ to \in Nat /\ from <= to
  BY <1>1, Places DEF Selectable
<1>3. s[1] \in Nat /\ s[2] \in Nat /\ s[1] < s[2]
  BY Places
<1>4. s \in Selected(from, to) => s[1]..s[2] \subseteq from..to
  BY <1>2, <1>3 DEF Selected
<1>5. ASSUME s \notin Selected(from, to), NEW a \in s[1]..s[2], a \in from..to PROVE FALSE
  <2>1. s[1] < from \/ to < s[2]
    BY <1>2, <1>3, <1>5 DEF Selected
  <2>2. CASE s[1] < from
    <3>1. from \in s[1]..s[2] /\ from \in f[1]..f[2]
      BY <1>1, <1>2, <1>3, <1>5, <2>2, Places
    <3> QED BY <1>1, <1>2, <1>3, <2>2, <3>1, Apart
  <2>3. CASE to < s[2]
    <3>1. to \in s[1]..s[2] /\ to \in l[1]..l[2]
      BY <1>1, <1>2, <1>3, <1>5, <2>3, Places
    <3> QED BY <1>1, <1>2, <1>3, <2>3, <3>1, Apart
  <2> QED BY <2>1, <2>2, <2>3
<1> QED BY <1>2, <1>4, <1>5

\* The code is put in where its sector is selected, and it lies in the selection then;
\* otherwise it lies outside.
LEMMA CodeInOrBeside ==
    ASSUME NEW from, NEW to, Selectable(from, to), NEW a \in {HookAt, RoutineAt} \union Traps
    PROVE  /\ a \in Addresses /\ AntiBrick(from, to) \in BOOLEAN
           /\ AntiBrick(from, to) <=> a \in from..to
           /\ \A s \in Sectors : s[2] # a
<1>1. PICK h \in Sectors : {HookAt, RoutineAt} \union Traps \subseteq h[1]..(h[2] - 1)
  BY CodeAssumption
<1>2. /\ h[1] \in Nat /\ h[2] \in Nat /\ 1 <= h[1] /\ h[2] <= Len(Stock) /\ a \in h[1]..h[2] /\ a # h[2]
      /\ HookAt \in h[1]..h[2]
  BY <1>1, Places
<1>3. a \in Addresses
  BY <1>2, Places
<1>4. \A s \in Sectors : s[2] # a
  <2>1. SUFFICES ASSUME NEW s \in Sectors, s[2] = a PROVE FALSE
    OBVIOUS
  <2>2. a \in s[1]..s[2]
    BY <2>1, Places
  <2> QED BY <1>2, <2>1, <2>2, Apart
<1>5. AntiBrick(from, to) <=> h \in Selected(from, to)
  <2>1. Selected(from, to) \subseteq Sectors
    BY DEF Selected
  <2>2. ASSUME NEW s \in Sectors, HookAt \in s[1]..s[2] PROVE s = h
    BY <1>2, <2>2, Apart
  <2> QED BY <1>2, <2>1, <2>2 DEF AntiBrick
<1>6. h \in Selected(from, to) <=> a \in from..to
  BY <1>2, InOrBeside
<1> QED BY <1>3, <1>4, <1>5, <1>6 DEF AntiBrick

--------------------------------------------------------------------------------
(***************************************************************************)
(* Images, sums and checksums.                                             *)
(***************************************************************************)

\* An image has a word at each address; which words there are is not asked.
Whole(img) == img \in [Addresses -> {img[a] : a \in Addresses}]

LEMMA WholeIsSequence ==
    ASSUME NEW img, Whole(img)
    PROVE  img \in Seq({img[a] : a \in Addresses}) /\ Len(img) = Len(Stock) /\ DOMAIN img = Addresses
  BY Places DEF Whole

LEMMA WholeFunction ==
    ASSUME NEW img, DOMAIN img = Addresses, img = [a \in Addresses |-> img[a]]
    PROVE  Whole(img)
  BY DEF Whole

\* The last word of a sector, and what its checksum is taken over.
LEMMA SectorFacts ==
    ASSUME NEW img, Whole(img), NEW s \in Sectors
    PROVE  /\ Last(Sector(img, s)) = img[s[2]]
           /\ Body(Sector(img, s)) = SubSeq(img, s[1], s[2] - 1)
<1> DEFINE S == {img[a] : a \in Addresses}
<1>1. img \in Seq(S) /\ Len(img) = Len(Stock)
  BY WholeIsSequence
<1> HIDE DEF S
<1>2. s[1] \in Nat /\ s[2] \in Nat /\ 1 <= s[1] /\ s[1] < s[2] /\ s[2] <= Len(img)
  BY <1>1, Places
<1> DEFINE w == SubSeq(img, s[1], s[2])
<1>3. w \in Seq(S) /\ Len(w) = s[2] - s[1] + 1 /\ \A i \in 1..(s[2] - s[1] + 1) : w[i] = img[s[1] + i - 1]
  BY <1>1, <1>2, WindowFacts
<1>4. Last(w) = img[s[2]]
  <2>1. s[2] - s[1] + 1 \in 1..(s[2] - s[1] + 1) /\ s[1] + (s[2] - s[1] + 1) - 1 = s[2]
    BY <1>2
  <2> QED BY <1>3, <2>1 DEF Last
<1>5. Body(w) = SubSeq(img, s[1], s[2] - 1)
  BY <1>1, <1>2, FrontOfWindow DEF Body, Front
<1> QED BY <1>4, <1>5 DEF Sector

\* Images that agree on a sector but for its last word have one checksum for it, those
\* that agree on all of it are valid there together.
LEMMA SameSum ==
    ASSUME NEW img, NEW other, Whole(img), Whole(other), NEW s \in Sectors,
           \A a \in s[1]..(s[2] - 1) : img[a] = other[a]
    PROVE  /\ Checksum(Sector(img, s)) = Checksum(Sector(other, s))
           /\ img[s[2]] = other[s[2]] => Valid(Sector(img, s)) = Valid(Sector(other, s))
<1>1. SubSeq(img, s[1], s[2] - 1) = SubSeq(other, s[1], s[2] - 1)
  <2>1. /\ img \in Seq({img[a] : a \in Addresses}) /\ Len(img) = Len(Stock)
        /\ other \in Seq({other[a] : a \in Addresses}) /\ Len(other) = Len(Stock)
    BY WholeIsSequence
  <2>2. /\ s[1] \in Nat /\ s[2] - 1 \in Nat /\ 1 <= s[1] /\ s[1] <= (s[2] - 1) + 1 /\ s[2] - 1 <= Len(Stock)
    BY Places
  <2> QED BY <2>1, <2>2, SameWindow
<1>2. Body(Sector(img, s)) = Body(Sector(other, s))
  BY <1>1, SectorFacts
<1>3. Checksum(Sector(img, s)) = Checksum(Sector(other, s))
  BY <1>2 DEF Checksum
<1> QED BY <1>3, SectorFacts DEF Valid

\* Total adds the words up, one by one.
LEMMA Summed ==
    ASSUME NEW words \in Seq(Words)
    PROVE  \E f \in [0..Len(words) -> Nat] :
             /\ f[0] = 0 /\ Total(words) = f[Len(words)]
             /\ \A i \in 1..Len(words) : f[i] = f[i - 1] + words[i]
<1> DEFINE n == Len(words)
           body(g, i) == IF i = 0 THEN 0 ELSE g[i - 1] + words[i]
           sum == CHOOSE g : g = [i \in 0..n |-> body(g, i)]
           step == [i \in 1..n |-> [t \in Nat |-> t + words[i]]]
<1>1. n \in Nat /\ \A i \in 1..n : words[i] \in Nat
  BY PatcherAssumption DEF Words
<1>2. step \in [1..n -> [Nat -> Nat]]
  BY <1>1
<1>3. PICK f : Chain(f, Nat, 0, step, n)
  <2> HIDE DEF step, n
  <2> QED BY <1>1, <1>2, Recursion
<1>4. f \in [0..n -> Nat] /\ f[0] = 0 /\ \A i \in 1..n : f[i] = step[i][f[i - 1]]
  <2> HIDE DEF step, n
  <2> QED BY <1>3 DEF Chain
<1>5. ASSUME NEW i \in 1..n PROVE f[i] = f[i - 1] + words[i]
  <2>1. f[i - 1] \in Nat
    <3> HIDE DEF step, n
    <3> QED BY <1>1, <1>4
  <2>2. step[i] = [t \in Nat |-> t + words[i]]
    OBVIOUS
  <2>3. step[i][f[i - 1]] = f[i - 1] + words[i]
    BY <2>1, <2>2
  <2> HIDE DEF step
  <2> QED BY <1>4, <2>3
<1> HIDE DEF step
<1>6. f = [i \in 0..n |-> body(f, i)]
  <2>1. ASSUME NEW i \in 0..n PROVE f[i] = body(f, i)
    <3>1. CASE i = 0
      BY <1>4, <3>1
    <3>2. CASE i # 0
      BY <1>1, <1>5, <3>2
    <3> QED BY <3>1, <3>2
  <2> HIDE DEF body, n
  <2> QED BY <1>4, <2>1
<1>7. sum = [i \in 0..n |-> body(sum, i)]
  <2> HIDE DEF body
  <2> QED BY <1>6
<1>8. Total(words) = sum[n]
  BY DEF Total
<1> HIDE DEF sum
<1> DEFINE Good == {i \in Nat : i <= n => sum[i] = f[i]}
<1>9. 0 \in Good
  BY <1>1, <1>4, <1>7
<1>10. ASSUME NEW i \in Nat, i \in Good PROVE i + 1 \in Good
  <2> SUFFICES ASSUME i + 1 <= n PROVE sum[i + 1] = f[i + 1]
    OBVIOUS
  <2>1. i + 1 \in 1..n /\ i + 1 \in 0..n /\ i + 1 # 0 /\ (i + 1) - 1 = i /\ sum[i] = f[i]
    BY <1>1, <1>10
  <2>2. sum[i + 1] = sum[i] + words[i + 1]
    BY <1>7, <2>1
  <2> QED BY <1>5, <2>1, <2>2
<1> HIDE DEF Good
<1>11. n \in Good
  BY <1>1, <1>9, <1>10, Counting
<1>12. sum[n] = f[n]
  BY <1>1, <1>11 DEF Good
<1> QED BY <1>4, <1>5, <1>8, <1>12

\* A word more or less at one place is as much more or less in the sum.
LEMMA OneWord ==
    ASSUME NEW v \in Seq(Words), NEW w \in Seq(Words), Len(v) = Len(w), NEW k \in 1..Len(v),
           \A i \in 1..Len(v) : i # k => w[i] = v[i]
    PROVE  /\ Total(v) \in Nat /\ Total(w) \in Nat /\ v[k] \in Nat /\ w[k] \in Nat
           /\ Total(w) - Total(v) = w[k] - v[k]
<1> DEFINE n == Len(v)
<1>1. n \in Nat /\ Len(w) = n /\ \A i \in 1..n : v[i] \in Nat /\ w[i] \in Nat
  <2>1. Words \subseteq Nat
    BY PatcherAssumption DEF Words
  <2>2. n \in Nat /\ Len(w) = n /\ \A i \in 1..n : v[i] \in Words /\ w[i] \in Words
    OBVIOUS
  <2> HIDE DEF n
  <2> QED BY <2>1, <2>2
<1>2. PICK f \in [0..n -> Nat] : f[0] = 0 /\ Total(v) = f[n] /\ \A i \in 1..n : f[i] = f[i - 1] + v[i]
  BY Summed
<1>3. PICK g \in [0..n -> Nat] : g[0] = 0 /\ Total(w) = g[n] /\ \A i \in 1..n : g[i] = g[i - 1] + w[i]
  <2>1. \E h \in [0..Len(w) -> Nat] :
          h[0] = 0 /\ Total(w) = h[Len(w)] /\ \A i \in 1..Len(w) : h[i] = h[i - 1] + w[i]
    BY Summed
  <2> QED BY <1>1, <2>1
<1> HIDE DEF n
<1> DEFINE Good == {i \in Nat : i <= n => g[i] - f[i] = IF i < k THEN 0 ELSE w[k] - v[k]}
<1>4. k \in 1..n /\ k \in Nat /\ \A i \in 1..n : i # k => w[i] = v[i]
  BY DEF n
<1>5. 0 \in Good
  BY <1>2, <1>3, <1>4
<1>6. ASSUME NEW i \in Nat, i \in Good PROVE i + 1 \in Good
  <2> SUFFICES ASSUME i + 1 <= n PROVE g[i + 1] - f[i + 1] = IF i + 1 < k THEN 0 ELSE w[k] - v[k]
    OBVIOUS
  <2>1. /\ i + 1 \in 1..n /\ i \in 0..n /\ (i + 1) - 1 = i
        /\ g[i] - f[i] = IF i < k THEN 0 ELSE w[k] - v[k]
    BY <1>1, <1>6
  <2>2. /\ f[i + 1] = f[i] + v[i + 1] /\ g[i + 1] = g[i] + w[i + 1]
        /\ f[i] \in Nat /\ g[i] \in Nat /\ v[i + 1] \in Nat /\ w[i + 1] \in Nat
        /\ v[k] \in Nat /\ w[k] \in Nat
    BY <1>1, <1>2, <1>3, <1>4, <2>1
  <2>3. CASE i + 1 = k
    BY <1>4, <2>1, <2>2, <2>3
  <2>4. CASE i + 1 # k
    <3>1. w[i + 1] = v[i + 1]
      BY <1>4, <2>1, <2>4
    <3>2. g[i + 1] - f[i + 1] = g[i] - f[i] /\ (i + 1 < k <=> i < k)
      BY <1>4, <2>2, <2>4, <3>1
    <3> QED BY <2>1, <3>2
  <2> QED BY <2>3, <2>4
<1> HIDE DEF Good
<1>7. n \in Good
  BY <1>1, <1>5, <1>6, Counting
<1>8. g[n] - f[n] = w[k] - v[k]
  BY <1>1, <1>4, <1>7 DEF Good
<1> QED BY <1>1, <1>2, <1>3, <1>4, <1>8

\* Numbers with one remainder are as far apart as the divisor, or the same.
LEMMA SameRemainder ==
    ASSUME NEW m \in Nat \ {0}, NEW a \in Nat, NEW b \in Nat, a % m = b % m, a < b
    PROVE  b - a >= m
<1> DEFINE p == a \div m
           q == b \div m
           t == a % m
<1>1. p \in Int /\ q \in Int /\ t \in 0..(m - 1) /\ a = m * p + t /\ b = m * q + t
  OBVIOUS
<1> HIDE DEF p, q, t
<1>2. p < q
  <2>1. SUFFICES ASSUME q <= p PROVE FALSE
    BY <1>1
  <2>2. m * (p - q) >= 0 /\ m * (p - q) = m * p - m * q
    BY <1>1, <2>1
  <2> QED BY <1>1, <2>2
<1>3. m * (q - p - 1) >= 0 /\ m * (q - p - 1) = m * q - m * p - m
  BY <1>1, <1>2
<1> QED BY <1>1, <1>3

\* A checksum is a word, and a word that changes changes it.
LEMMA ChecksumShows ==
    ASSUME NEW img \in Images, NEW s \in Sectors
    PROVE  /\ Checksum(Sector(img, s)) \in Words
           /\ \A other \in Images, a \in s[1]..(s[2] - 1) :
                other[a] # img[a] /\ (\A b \in Addresses : b # a => other[b] = img[b]) =>
                  Checksum(Sector(other, s)) # Checksum(Sector(img, s))
<1>1. s[1] \in Nat /\ s[2] \in Nat /\ 1 <= s[1] /\ s[1] < s[2] /\ s[2] <= Len(Stock)
  BY Places
<1> DEFINE first == s[1]
           last == s[2] - 1
           n == last - first + 1
<1>2. first \in Nat /\ last \in Nat /\ 1 <= first /\ first <= last /\ last <= Len(Stock) /\ n \in Nat
  BY <1>1
<1>3. ASSUME NEW i \in Images
      PROVE  /\ Body(Sector(i, s)) = SubSeq(i, first, last)
             /\ SubSeq(i, first, last) \in Seq(Words) /\ Len(SubSeq(i, first, last)) = n
             /\ \A b \in 1..n : SubSeq(i, first, last)[b] = i[first + b - 1]
  <2>1. Whole(i) /\ i \in Seq(Words) /\ Len(i) = Len(Stock)
    BY Places DEF Images, Whole
  <2>2. Body(Sector(i, s)) = SubSeq(i, first, last)
    BY <2>1, SectorFacts
  <2> HIDE DEF first, last
  <2> QED BY <1>2, <2>1, <2>2, WindowFacts DEF n
<1> HIDE DEF first, last, n
<1>4. Size \in Nat \ {0} /\ Words = 0..(Size - 1)
  BY PatcherAssumption DEF Words
<1>5. ASSUME NEW i \in Images
      PROVE  /\ Total(Body(Sector(i, s))) \in Nat
             /\ Checksum(Sector(i, s)) = Size - 1 - (Total(Body(Sector(i, s))) % Size)
  <2>1. Total(Body(Sector(i, s))) \in Nat
    <3> DEFINE body == Body(Sector(i, s))
    <3>1. body \in Seq(Words) /\ Len(body) \in Nat
      <4>1. body = SubSeq(i, first, last)
        BY <1>3
      <4> HIDE DEF body
      <4>2. body \in Seq(Words)
        BY <1>3, <4>1
      <4> QED BY <4>2
    <3> HIDE DEF body
    <3>2. \E f \in [0..Len(body) -> Nat] : Total(body) = f[Len(body)]
      BY <3>1, Summed
    <3> QED BY <3>1, <3>2 DEF body
  <2> QED BY <2>1 DEF Checksum
<1>6. Checksum(Sector(img, s)) \in Words
  BY <1>4, <1>5
<1>7. ASSUME NEW other \in Images, NEW a \in first..last, other[a] # img[a],
             \A b \in Addresses : b # a => other[b] = img[b]
      PROVE  Checksum(Sector(other, s)) # Checksum(Sector(img, s))
  <2> DEFINE v == SubSeq(img, first, last)
             w == SubSeq(other, first, last)
             k == a - first + 1
             x == Total(v)
             y == Total(w)
  <2>1. k \in 1..n /\ first + k - 1 = a /\ \A b \in 1..n : b # k => first + b - 1 # a
    BY <1>2 DEF n
  <2>2. v[k] = img[a] /\ w[k] = other[a] /\ v[k] # w[k]
    BY <1>3, <1>7, <2>1
  <2>3. \A b \in 1..n : first + b - 1 \in Addresses
    BY <1>2, Places DEF n
  <2>4. \A b \in 1..n : b # k => w[b] = v[b]
    BY <1>3, <1>7, <2>1, <2>3
  <2>5. v \in Seq(Words) /\ w \in Seq(Words) /\ Len(v) = n /\ Len(w) = n
    BY <1>3
  <2>6. v[k] \in Words /\ w[k] \in Words
    BY <2>1, <2>5
  <2> HIDE DEF v, w, k
  <2>7. x \in Nat /\ y \in Nat /\ y - x = w[k] - v[k]
    BY <2>1, <2>4, <2>5, OneWord
  <2> HIDE DEF x, y
  <2>8. x % Size # y % Size
    <3>1. SUFFICES ASSUME x % Size = y % Size PROVE FALSE
      OBVIOUS
    <3>2. x # y /\ x - y < Size /\ y - x < Size
      BY <1>4, <2>2, <2>6, <2>7
    <3>3. CASE x < y
      <4>1. y - x >= Size
        BY <1>4, <2>7, <3>1, <3>3, SameRemainder
      <4> QED BY <1>4, <2>7, <3>2, <4>1
    <3>4. CASE y < x
      <4>1. x - y >= Size
        BY <1>4, <2>7, <3>1, <3>4, SameRemainder
      <4> QED BY <1>4, <2>7, <3>2, <4>1
    <3> QED BY <2>7, <3>2, <3>3, <3>4
  <2>9. /\ Checksum(Sector(img, s)) = Size - 1 - (x % Size)
        /\ Checksum(Sector(other, s)) = Size - 1 - (y % Size)
    BY <1>3, <1>5 DEF x, y, v, w
  <2>10. x % Size \in Int /\ y % Size \in Int
    BY <1>4, <2>7
  <2> QED BY <1>4, <2>8, <2>9, <2>10
<1> QED BY <1>6, <1>7 DEF first, last

--------------------------------------------------------------------------------
(***************************************************************************)
(* What patch_firmware makes of an image.                                  *)
(***************************************************************************)

\* The code without the simulator's patches.
Coded(img, from, to) == WithCode(img, from, to, FALSE)

\* It stays an image, with the simulator's patches or without.
LEMMA PatchedWhole ==
    ASSUME NEW img, Whole(img), NEW from, NEW to, NEW simulator
    PROVE  /\ Whole(Patched(img, from, to, simulator))
           /\ Whole(Prepared(img, from, to)) /\ Whole(Coded(img, from, to))
<1>1. DOMAIN img = Addresses
  BY DEF Whole
<1>2. Whole(Coded(img, from, to))
  BY <1>1, WholeFunction DEF Coded, WithCode
<1>3. Whole(Patched(img, from, to, simulator))
  BY <1>1, WholeFunction DEF Patched
<1>4. Whole(Prepared(img, from, to))
  BY <1>1, WholeFunction DEF Prepared, Patched
<1> QED BY <1>2, <1>3, <1>4

\* A sector is found by its last word.
LEMMA ByLastWord ==
    ASSUME NEW s \in Sectors
    PROVE  (CHOOSE t \in Sectors : t[2] = s[2]) = s
<1>1. ASSUME NEW t \in Sectors, t[2] = s[2] PROVE t = s
  <2>1. s[2] \in s[1]..s[2] /\ s[2] \in t[1]..t[2]
    BY <1>1, Places
  <2> QED BY <2>1, Apart
<1> QED BY <1>1

\* Where the words come from: the code, the checksums of the selected sectors, the image.
LEMMA WordsOfPatched ==
    ASSUME NEW img, Whole(img), NEW from, NEW to, Selectable(from, to)
    PROVE  /\ \A a \in Addresses :
                 /\ a = RoutineAt /\ AntiBrick(from, to) => Prepared(img, from, to)[a] = Routine
                 /\ a = HookAt /\ AntiBrick(from, to) => Prepared(img, from, to)[a] = Hook
                 /\ a \in Traps /\ AntiBrick(from, to) =>
                      Prepared(img, from, to)[a] = IF img[a] = SelfLoop THEN Escape ELSE img[a]
                 /\ (\A s \in Selected(from, to) : s[2] # a) =>
                      Prepared(img, from, to)[a] = Coded(img, from, to)[a]
                 /\ ~AntiBrick(from, to) \/ a \notin {HookAt, RoutineAt} \union Traps =>
                      Coded(img, from, to)[a] = img[a]
           /\ \A s \in Selected(from, to) :
                 Prepared(img, from, to)[s[2]] = Checksum(Sector(Coded(img, from, to), s))
<1> DEFINE code == Coded(img, from, to)
           after == Prepared(img, from, to)
<1>1. DOMAIN img = Addresses
  BY DEF Whole
<1>2. ASSUME NEW a \in Addresses
      PROVE  /\ a = RoutineAt /\ AntiBrick(from, to) => code[a] = Routine
             /\ a = HookAt /\ AntiBrick(from, to) => code[a] = Hook
             /\ a \in Traps /\ AntiBrick(from, to) => code[a] = IF img[a] = SelfLoop THEN Escape ELSE img[a]
             /\ ~AntiBrick(from, to) \/ a \notin {HookAt, RoutineAt} \union Traps => code[a] = img[a]
  BY <1>1, CodeAssumption DEF Coded, WithCode
<1>3. Selected(from, to) \subseteq Sectors
  BY DEF Selected
<1>4. ASSUME NEW a \in Addresses
      PROVE  after[a] = IF \E s \in Selected(from, to) : s[2] = a
                          THEN Checksum(Sector(code, CHOOSE s \in Sectors : s[2] = a)) ELSE code[a]
  BY <1>1 DEF Prepared, Coded, Patched, Repaired
<1>5. ASSUME NEW a \in {HookAt, RoutineAt} \union Traps PROVE a \in Addresses /\ after[a] = code[a]
  <2>1. a \in Addresses /\ \A s \in Sectors : s[2] # a
    BY CodeInOrBeside
  <2> QED BY <1>3, <1>4, <2>1
<1>6. ASSUME NEW s \in Selected(from, to) PROVE after[s[2]] = Checksum(Sector(code, s))
  <2>1. s[2] \in Addresses /\ (CHOOSE t \in Sectors : t[2] = s[2]) = s
    BY <1>3, Places, ByLastWord
  <2> QED BY <1>4, <2>1
<1>7. ASSUME NEW a \in Addresses, \A s \in Selected(from, to) : s[2] # a PROVE after[a] = code[a]
  BY <1>4, <1>7
<1> HIDE DEF code, after
<1> QED BY <1>2, <1>5, <1>6, <1>7 DEF code, after

\* The patched image is the old one outside the selection, and every sector of the
\* selection is valid.
LEMMA PatchedOutside ==
    ASSUME NEW img, Whole(img), NEW from, NEW to, Selectable(from, to), NEW a \in Addresses, a \notin from..to
    PROVE  Prepared(img, from, to)[a] = img[a]
<1>1. \A s \in Selected(from, to) : s[2] # a
  <2>1. ASSUME NEW s \in Selected(from, to) PROVE s \in Sectors /\ s[2] \in from..to
    <3>1. s \in Sectors
      BY DEF Selected
    <3>2. s[2] \in s[1]..s[2]
      BY <3>1, Places
    <3> QED BY <3>1, <3>2, InOrBeside
  <2> QED BY <2>1
<1>2. ~AntiBrick(from, to) \/ a \notin {HookAt, RoutineAt} \union Traps
  BY CodeInOrBeside
<1>3. Prepared(img, from, to)[a] = Coded(img, from, to)[a]
  BY <1>1, WordsOfPatched
<1>4. Coded(img, from, to)[a] = img[a]
  BY <1>2, WordsOfPatched
<1> QED BY <1>3, <1>4

LEMMA PatchedValid ==
    ASSUME NEW img, Whole(img), NEW from, NEW to, Selectable(from, to), NEW s \in Selected(from, to)
    PROVE  /\ Valid(Sector(Prepared(img, from, to), s))
           /\ \A a \in s[1]..(s[2] - 1) :
                Prepared(img, from, to)[a] = Coded(img, from, to)[a]
<1> DEFINE code == Coded(img, from, to)
           after == Prepared(img, from, to)
<1>1. s \in Sectors /\ Selected(from, to) \subseteq Sectors
  BY DEF Selected
<1>2. Whole(code) /\ Whole(after)
  BY PatchedWhole
<1>3. ASSUME NEW a \in s[1]..(s[2] - 1) PROVE after[a] = code[a]
  <2>1. a \in s[1]..s[2] /\ a # s[2] /\ a \in Addresses
    BY <1>1, Places
  <2>2. ASSUME NEW t \in Selected(from, to), t[2] = a PROVE FALSE
    <3>1. t \in Sectors /\ a \in t[1]..t[2]
      BY <1>1, <2>2, Places
    <3> QED BY <1>1, <2>1, <2>2, <3>1, Apart
  <2> QED BY <2>1, <2>2, WordsOfPatched
<1>4. after[s[2]] = Checksum(Sector(code, s))
  BY WordsOfPatched
<1> HIDE DEF code, after
<1>5. Valid(Sector(after, s))
  BY <1>1, <1>2, <1>3, <1>4, SameSum, SectorFacts DEF Valid
<1> QED BY <1>3, <1>5 DEF code, after

\* To prepare an image again changes nothing: its code is there, and its sums are taken.
LEMMA PreparedAgain ==
    ASSUME NEW img, Whole(img), NEW from, NEW to, Selectable(from, to)
    PROVE  /\ Preimage(Prepared(img, from, to), from, to, FALSE)
           /\ Prepared(Prepared(img, from, to), from, to) = Prepared(img, from, to)
<1> DEFINE after == Prepared(img, from, to)
           again == Prepared(after, from, to)
<1>1. Whole(after) /\ Whole(again) /\ Whole(Coded(after, from, to)) /\ Whole(Coded(img, from, to))
  BY PatchedWhole
<1>2. ASSUME AntiBrick(from, to)
      PROVE  after[RoutineAt] = Routine /\ after[HookAt] = Hook /\ \A t \in Traps : after[t] # SelfLoop
  <2>1. \A a \in {HookAt, RoutineAt} \union Traps : a \in Addresses
    BY CodeInOrBeside
  <2>2. after[RoutineAt] = Routine /\ after[HookAt] = Hook
    BY <1>2, <2>1, WordsOfPatched
  <2>3. \A t \in Traps : after[t] = IF img[t] = SelfLoop THEN Escape ELSE img[t]
    BY <1>2, <2>1, WordsOfPatched
  <2> QED BY <2>2, <2>3, CodeAssumption
<1>3. Preimage(after, from, to, FALSE)
  BY <1>2 DEF Preimage
<1> HIDE DEF after
<1>4. ASSUME NEW a \in Addresses PROVE Coded(after, from, to)[a] = after[a]
  <2>1. CASE ~AntiBrick(from, to) \/ a \notin {HookAt, RoutineAt} \union Traps
    BY <1>1, <2>1, WordsOfPatched
  <2>2. CASE AntiBrick(from, to) /\ a \in {HookAt, RoutineAt} \union Traps
    <3>1. \A s \in Selected(from, to) : s[2] # a
      BY <2>2, CodeInOrBeside DEF Selected
    <3>2. again[a] = Coded(after, from, to)[a]
      BY <1>1, <3>1, WordsOfPatched
    <3>3. /\ a = RoutineAt => again[a] = Routine
          /\ a = HookAt => again[a] = Hook
          /\ a \in Traps => again[a] = IF after[a] = SelfLoop THEN Escape ELSE after[a]
      BY <1>1, <2>2, WordsOfPatched
    <3> QED BY <1>2, <2>2, <3>2, <3>3
  <2> QED BY <2>1, <2>2
<1>5. ASSUME NEW a \in Addresses PROVE again[a] = after[a]
  <2>1. CASE \A s \in Selected(from, to) : s[2] # a
    BY <1>1, <1>4, <2>1, WordsOfPatched
  <2>2. ASSUME NEW s \in Selected(from, to), s[2] = a PROVE again[a] = after[a]
    <3>1. s \in Sectors /\ \A b \in s[1]..(s[2] - 1) : b \in Addresses
      BY Places DEF Selected
    <3>2. again[a] = Checksum(Sector(Coded(after, from, to), s))
      BY <1>1, <2>2, WordsOfPatched
    <3>3. after[a] = Checksum(Sector(Coded(img, from, to), s))
      BY <2>2, WordsOfPatched DEF after
    <3>4. \A b \in s[1]..(s[2] - 1) : after[b] = Coded(img, from, to)[b]
      BY PatchedValid DEF after
    <3>5. \A b \in s[1]..(s[2] - 1) : Coded(after, from, to)[b] = Coded(img, from, to)[b]
      BY <1>4, <3>1, <3>4
    <3> QED BY <1>1, <3>1, <3>2, <3>3, <3>5, SameSum
  <2> QED BY <2>1, <2>2
<1>6. again = after
  BY <1>1, <1>5 DEF Whole
<1> QED BY <1>3, <1>6 DEF after

\* The three things that PreparedInSelection says, of any image.
LEMMA Preparing ==
    ASSUME Whole(image)
    PROVE  PreparedInSelection
<1>1. SUFFICES ASSUME NEW from \in Addresses, NEW to \in Addresses, Selectable(from, to)
               PROVE  LET after == Prepared(image, from, to)
                      IN  /\ \A a \in Addresses \ (from..to) : after[a] = image[a]
                          /\ \A s \in Selected(from, to) : Valid(Sector(after, s))
                          /\ Preimage(after, from, to, FALSE) /\ Prepared(after, from, to) = after
  BY DEF PreparedInSelection
<1>2. \A a \in Addresses \ (from..to) : Prepared(image, from, to)[a] = image[a]
  BY <1>1, PatchedOutside
<1>3. \A s \in Selected(from, to) : Valid(Sector(Prepared(image, from, to), s))
  BY <1>1, PatchedValid
<1> QED BY <1>1, <1>2, <1>3, PreparedAgain

\* A sector that is cut out of captured data is that sector of the memory.
LEMMA Capturing ==
    ASSUME Whole(image)
    PROVE  RowsAgree
<1>1. SUFFICES ASSUME NEW from \in Addresses, NEW to \in Addresses, from <= to,
                      NEW row \in Rows(SubSeq(image, from, to), from), row.valid # "unknown"
               PROVE  /\ row.sector[1] \in from..to /\ row.sector[2] \in from..to
                      /\ row.valid = "yes" <=> Valid(Sector(image, row.sector))
  BY DEF RowsAgree
<1> DEFINE data == SubSeq(image, from, to)
<1>2. from \in Nat /\ to \in Nat /\ 1 <= from /\ to <= Len(Stock)
  BY Places
<1>3. image \in Seq({image[a] : a \in Addresses}) /\ Len(image) = Len(Stock)
  BY WholeIsSequence
<1>4. from + Len(data) - 1 = to
  <2>1. Len(data) = to - from + 1
    BY <1>1, <1>2, <1>3, WindowFacts
  <2> QED BY <1>2, <2>1
<1>5. PICK s \in Sectors :
        row = [sector |-> s,
               valid  |-> IF from <= s[1] /\ s[2] <= to
                            THEN (IF Valid(Captured(data, from, s)) THEN "yes" ELSE "no")
                            ELSE "unknown"]
  BY <1>1, <1>4 DEF Rows
<1>6. row.sector = s /\ from <= s[1] /\ s[2] <= to /\ (row.valid = "yes" <=> Valid(Captured(data, from, s)))
  BY <1>1, <1>5
<1>7. s[1] \in Nat /\ s[2] \in Nat /\ s[1] < s[2]
  BY Places
<1>8. Captured(data, from, s) = Sector(image, s)
  <2> DEFINE S == {image[a] : a \in Addresses}
             first == s[1]
             last == s[2]
  <2>1. /\ image \in Seq(S) /\ to <= Len(image) /\ first <= last /\ from <= first /\ last <= to
        /\ first \in Nat /\ last \in Nat /\ from \in Nat /\ to \in Nat /\ 1 <= from
    BY <1>2, <1>3, <1>6, <1>7
  <2> HIDE DEF S, first, last
  <2>2. SubSeq(SubSeq(image, from, to), first - from + 1, last - from + 1) = SubSeq(image, first, last)
    BY <2>1, WindowInWindow
  <2> QED BY <2>2 DEF first, last, Captured, Sector
<1> QED BY <1>2, <1>6, <1>7, <1>8

--------------------------------------------------------------------------------
(***************************************************************************)
(* The invariant, and what it shows.                                       *)
(***************************************************************************)

\* Whatever is flashed, the controller keeps an application it starts.
LEMMA FlashStep ==
    ASSUME Whole(image), Whole(flash), FlashBoots, Flash
    PROVE  Whole(flash') /\ FlashBoots'
<1>1. PICK from \in Addresses, to \in Addresses :
        /\ Selectable(from, to)
        /\ flash' = [a \in DOMAIN flash |-> IF a \in from..to THEN Prepared(image, from, to)[a] ELSE flash[a]]
  BY DEF Flash
<1> DEFINE after == Prepared(image, from, to)
<1>2. /\ DOMAIN flash = Addresses /\ DOMAIN flash' = Addresses
      /\ \A a \in Addresses : flash'[a] = IF a \in from..to THEN after[a] ELSE flash[a]
  BY <1>1 DEF Whole
<1>3. Whole(flash') /\ Whole(after)
  BY <1>1, <1>2, WholeFunction, PatchedWhole
<1>4. ASSUME NEW s \in Sectors PROVE Valid(Sector(flash', s))
  <2>1. /\ s[2] \in s[1]..s[2] /\ s[1]..s[2] \subseteq Addresses
        /\ s[1]..(s[2] - 1) \subseteq s[1]..s[2]
    BY Places
  <2>2. CASE s \in Selected(from, to)
    <3>1. \A a \in s[1]..s[2] : flash'[a] = after[a]
      BY <1>1, <1>2, <2>1, <2>2, InOrBeside
    <3>2. Valid(Sector(after, s))
      BY <1>1, <2>2, PatchedValid
    <3> HIDE DEF after
    <3> QED BY <1>3, <2>1, <3>1, <3>2, SameSum
  <2>3. CASE s \notin Selected(from, to)
    <3>1. \A a \in s[1]..s[2] : flash'[a] = flash[a]
      BY <1>1, <1>2, <2>1, <2>3, InOrBeside
    <3>2. Valid(Sector(flash, s))
      BY DEF FlashBoots
    <3> QED BY <1>3, <2>1, <3>1, <3>2, SameSum
  <2> QED BY <2>2, <2>3
<1>5. ASSUME flash'[HookAt] = Hook
      PROVE  flash'[RoutineAt] = Routine /\ \A t \in Traps : flash'[t] # SelfLoop
  <2>1. \A a \in {HookAt, RoutineAt} \union Traps : a \in Addresses /\ (AntiBrick(from, to) <=> a \in from..to)
    BY <1>1, CodeInOrBeside
  <2>2. CASE AntiBrick(from, to)
    <3>1. \A a \in {HookAt, RoutineAt} \union Traps : flash'[a] = after[a]
      BY <1>2, <2>1, <2>2
    <3>2. after[RoutineAt] = Routine /\ \A t \in Traps : after[t] = IF image[t] = SelfLoop THEN Escape ELSE image[t]
      BY <1>1, <2>1, <2>2, WordsOfPatched
    <3> QED BY <3>1, <3>2, CodeAssumption
  <2>3. CASE ~AntiBrick(from, to)
    <3>1. \A a \in {HookAt, RoutineAt} \union Traps : flash'[a] = flash[a]
      BY <1>2, <2>1, <2>3
    <3> QED BY <1>5, <3>1 DEF FlashBoots
  <2> QED BY <2>2, <2>3
<1> QED BY <1>3, <1>4, <1>5 DEF FlashBoots

\* The file stays a whole image.
LEMMA FileStep ==
    ASSUME Whole(image), Edit \/ PatchFile \/ Fix
    PROVE  Whole(image') /\ flash' = flash
<1>0. DOMAIN image = Addresses
  BY DEF Whole
<1>1. CASE Edit \/ Fix
  BY <1>0, <1>1, WholeFunction DEF Edit, Fix
<1>2. CASE PatchFile
  BY <1>2, PatchedWhole DEF PatchFile
<1> QED BY <1>1, <1>2

\* The file and the memory are whole images.
WholeInv == Whole(image) /\ Whole(flash)

LEMMA InitWhole ==
    ASSUME Init
    PROVE  WholeInv
<1>1. DOMAIN Stock = Addresses /\ Stock = [a \in Addresses |-> Stock[a]]
  BY PatcherAssumption DEF Addresses
<1>2. Whole(Stock)
  BY <1>1, WholeFunction
<1> QED BY <1>2 DEF Init, WholeInv

\* Every step keeps the file and the memory whole, whatever the memory holds.
LEMMA WholeStep ==
    ASSUME WholeInv, [Next]_vars
    PROVE  WholeInv'
<1>1. CASE Edit \/ PatchFile \/ Fix
  BY <1>1, FileStep DEF WholeInv
<1>2. CASE Flash
  <2>1. image' = image /\ DOMAIN flash' = Addresses /\ flash' = [a \in Addresses |-> flash'[a]]
    BY <1>2 DEF Flash, WholeInv, Whole
  <2> QED BY <2>1, WholeFunction DEF WholeInv
<1>3. CASE UNCHANGED vars
  BY <1>3 DEF vars, WholeInv
<1> QED BY <1>1, <1>2, <1>3 DEF Next

\* A controller that starts keeps starting: whatever the user edits, patches, corrects
\* and flashes, its checksums hold, and no hook is there without its routine (161-222,
\* and prepare_image of artifacts.py).
THEOREM FlashBootsHolds == Spec /\ FlashBoots => []FlashBoots
<1>1. Init => WholeInv
  BY InitWhole
<1>2. WholeInv /\ FlashBoots /\ [Next]_vars => (WholeInv /\ FlashBoots)'
  <2>1. SUFFICES ASSUME WholeInv, FlashBoots, [Next]_vars PROVE WholeInv' /\ FlashBoots'
    OBVIOUS
  <2>2. WholeInv'
    BY <2>1, WholeStep
  <2>3. CASE Flash
    BY <2>1, <2>2, <2>3, FlashStep DEF WholeInv
  <2>4. CASE UNCHANGED flash
    BY <2>1, <2>2, <2>4 DEF FlashBoots
  <2> QED BY <2>1, <2>2, <2>3, <2>4, FileStep DEF Next, vars, WholeInv
<1> QED BY <1>1, <1>2, PTL DEF Spec

\* The prepared image is the file but for the selection, passes the checks of
\* prepare_image, and prepared again stays the same (161-222).
THEOREM PreparedInSelectionHolds == Spec => []PreparedInSelection
<1>1. Init => WholeInv
  BY InitWhole
<1>2. WholeInv /\ [Next]_vars => WholeInv'
  BY WholeStep
<1>3. WholeInv => PreparedInSelection
  BY Preparing DEF WholeInv
<1> QED BY <1>1, <1>2, <1>3, PTL DEF Spec

\* A capture of any part of the memory is judged as the memory (300-320).
THEOREM RowsAgreeHolds == Spec => []RowsAgree
<1>1. Init => WholeInv
  BY InitWhole
<1>2. WholeInv /\ [Next]_vars => WholeInv'
  BY WholeStep
<1>3. WholeInv => RowsAgree
  BY Capturing DEF WholeInv
<1> QED BY <1>1, <1>2, <1>3, PTL DEF Spec

\* What patch_firmware puts in are words.
LEMMA PatchedWords ==
    ASSUME NEW img \in Images, NEW from, NEW to, NEW simulator
    PROVE  Patched(img, from, to, simulator) \in Images
<1> DEFINE code == WithCode(img, from, to, simulator)
<1>1. DOMAIN img = Addresses /\ \A a \in Addresses : img[a] \in Words
  BY DEF Images
<1>2. code \in Images
  <2>1. {Routine, Hook, Escape, Bypass} \subseteq Words
    BY CodeAssumption
  <2>2. ASSUME NEW a \in Addresses PROVE code[a] \in {Routine, Hook, Escape, Bypass, img[a]}
    BY <1>1 DEF WithCode
  <2>3. DOMAIN code = Addresses /\ code = [a \in Addresses |-> code[a]]
    BY <1>1 DEF WithCode
  <2> HIDE DEF code
  <2> QED BY <1>1, <2>1, <2>2, <2>3 DEF Images
<1> DEFINE after == Patched(img, from, to, simulator)
<1>3. DOMAIN after = Addresses /\ after = [a \in Addresses |-> after[a]]
  BY <1>1 DEF Patched
<1>4. ASSUME NEW a \in Addresses PROVE after[a] \in Words
  <2>1. after[a] = IF \E s \in Selected(from, to) : s[2] = a
                     THEN Checksum(Sector(code, CHOOSE s \in Sectors : s[2] = a)) ELSE code[a]
    BY <1>1 DEF Patched, Repaired
  <2> HIDE DEF after, code
  <2>2. CASE \E s \in Selected(from, to) : s[2] = a
    <3>1. PICK s \in Sectors : s[2] = a
      BY <2>2 DEF Selected
    <3>2. after[a] = Checksum(Sector(code, s))
      <4>1. (CHOOSE t \in Sectors : t[2] = a) = s
        BY <3>1, ByLastWord
      <4> QED BY <2>1, <2>2, <4>1
    <3> QED BY <1>2, <3>2, ChecksumShows
  <2>3. CASE ~\E s \in Selected(from, to) : s[2] = a
    BY <1>2, <2>1, <2>3 DEF Images
  <2> QED BY <2>2, <2>3
<1> HIDE DEF after
<1> QED BY <1>3, <1>4 DEF after, Images

LEMMA TypesStep ==
    ASSUME TypeOK, [Next]_vars
    PROVE  TypeOK'
<1>1. /\ image \in Images /\ flash \in Images /\ edits \in 0..MaxEdits /\ MaxEdits \in Nat
      /\ Edits \subseteq Words
  BY PatcherAssumption DEF TypeOK
<1>2. CASE Edit
  <2>1. /\ image' \in Images
        /\ flash' = flash /\ edits < MaxEdits /\ edits' = edits + 1
    BY <1>1, <1>2 DEF Edit, Images
  <2> QED BY <1>1, <2>1 DEF TypeOK
<1>3. CASE PatchFile
  BY <1>1, <1>3, PatchedWords DEF PatchFile, TypeOK
<1>4. CASE Fix
  <2>1. PICK s \in Sectors : image' = [image EXCEPT ![s[2]] = Checksum(Sector(image, s))]
                            /\ UNCHANGED <<flash, edits>>
    BY <1>4 DEF Fix
  <2>2. Checksum(Sector(image, s)) \in Words
    BY <1>1, ChecksumShows
  <2>3. image' \in Images
    BY <1>1, <2>1, <2>2 DEF Images
  <2> QED BY <1>1, <2>1, <2>3 DEF TypeOK
<1>5. CASE Flash
  <2>1. PICK from \in Addresses, to \in Addresses :
          flash' = [a \in DOMAIN flash |-> IF a \in from..to THEN Prepared(image, from, to)[a] ELSE flash[a]]
    BY <1>5 DEF Flash
  <2>2. Prepared(image, from, to) \in Images
    BY <1>1, PatchedWords DEF Prepared
  <2>3. flash' \in Images
    BY <1>1, <2>1, <2>2 DEF Images
  <2>4. UNCHANGED <<image, edits>>
    BY <1>5 DEF Flash
  <2> QED BY <1>1, <2>3, <2>4 DEF TypeOK
<1>6. CASE UNCHANGED vars
  BY <1>1, <1>6 DEF TypeOK, vars
<1> QED BY <1>2, <1>3, <1>4, <1>5, <1>6 DEF Next

\* The file and the memory are images of words, whatever is computed for a checksum (60-88).
THEOREM TypesHold == Spec => []TypeOK
<1>1. Init => TypeOK
  BY PatcherAssumption, Places DEF Init, TypeOK, Images, Addresses
<1>2. TypeOK /\ [Next]_vars => TypeOK'
  BY TypesStep
<1> QED BY <1>1, <1>2, PTL DEF Spec

\* An edit of one word in a sector with a valid checksum never leaves it valid, whatever the
\* width of a word and the size of the sector (60-88).
LEMMA EditShows ==
    ASSUME TypeOK, TypeOK', Edit, NEW s \in Sectors,
           Valid(Sector(image, s)), Sector(image, s) # Sector(image', s)
    PROVE  ~Valid(Sector(image', s))
<1>1. PICK a \in Addresses, w \in Edits : w # image[a] /\ image' = [image EXCEPT ![a] = w]
  BY DEF Edit
<1>2. image \in Images /\ image' \in Images /\ Whole(image) /\ Whole(image')
  BY Places DEF TypeOK, Images, Whole
<1>3. image'[a] # image[a] /\ \A b \in Addresses : b # a => image'[b] = image[b]
  BY <1>1, <1>2 DEF Images
<1>4. s[1] \in Nat /\ s[2] \in Nat /\ s[1] < s[2] /\ s[2] \in Addresses /\ s[1]..s[2] \subseteq Addresses
  BY Places
<1>5. image[s[2]] = Checksum(Sector(image, s))
  BY <1>2, SectorFacts DEF Valid
<1>6. CASE a = s[2]
  <2>1. \A b \in s[1]..(s[2] - 1) : b \in Addresses /\ b # a
    BY <1>4, <1>6
  <2>2. Checksum(Sector(image', s)) = Checksum(Sector(image, s))
    BY <1>2, <1>3, <2>1, SameSum
  <2> QED BY <1>2, <1>3, <1>5, <1>6, <2>2, SectorFacts DEF Valid
<1>7. CASE a \in s[1]..(s[2] - 1)
  <2>1. Checksum(Sector(image', s)) # Checksum(Sector(image, s))
    BY <1>2, <1>3, <1>7, ChecksumShows
  <2>2. image'[s[2]] = image[s[2]]
    BY <1>3, <1>4, <1>7
  <2> QED BY <1>2, <1>5, <2>1, <2>2, SectorFacts DEF Valid
<1>8. CASE a \notin s[1]..s[2]
  <2>1. \A b \in s[1]..s[2] : image'[b] = image[b]
    BY <1>3, <1>4, <1>8
  <2>2. image \in Seq({image[b] : b \in Addresses}) /\ Len(image) = Len(Stock)
        /\ image' \in Seq({image'[b] : b \in Addresses}) /\ Len(image') = Len(Stock)
    BY <1>2, WholeIsSequence
  <2>3. s[1] \in Nat /\ s[2] \in Nat /\ 1 <= s[1] /\ s[1] <= s[2] + 1 /\ s[2] <= Len(Stock)
    BY Places
  <2>4. SubSeq(image, s[1], s[2]) = SubSeq(image', s[1], s[2])
    BY <2>1, <2>2, <2>3, SameWindow
  <2> QED BY <2>4 DEF Sector
<1> QED BY <1>4, <1>6, <1>7, <1>8

THEOREM EditsShowHolds == Spec => EditsShow
<1> DEFINE Shows == edits' # edits =>
                      \A s \in Sectors : Valid(Sector(image, s)) /\ Sector(image, s) # Sector(image', s)
                                           => ~Valid(Sector(image', s))
<1>1. TypeOK /\ TypeOK' /\ [Next]_vars => [Shows]_vars
  <2>1. SUFFICES ASSUME TypeOK, TypeOK', [Next]_vars, edits' # edits PROVE Shows
    OBVIOUS
  <2>2. Edit
    BY <2>1 DEF Next, PatchFile, Fix, Flash, vars
  <2> QED BY <2>1, <2>2, EditShows
<1> QED BY <1>1, TypesHold, PTL DEF Spec, EditsShow
================================================================================
