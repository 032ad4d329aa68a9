---------------------------- MODULE SignalsProofs ----------------------------
(* The pattern library, for every history there can be: the pivots of the    *)
(* harmonic detectors, and the twins that read differences of prices. What a *)
(* recursive function computes cannot be reached by induction here; where it *)
(* first goes wrong can.                                                     *)
EXTENDS WellFoundedInduction, SequenceTheorems, MCSignals, TLAPS

LEMMA LeastNat == ASSUME NEW T \in SUBSET Nat, T # {} PROVE \E x \in T : \A y \in T : x <= y
<1>1. OpToRel(<, Nat) = {p \in Nat \X Nat : p[1] < p[2]}
  BY Zenon DEF OpToRel
<1> DEFINE R == {p \in Nat \X Nat : p[1] < p[2]}
<1>2. IsWellFoundedOn(R, Nat)
  BY <1>1, NatLessThanWellFounded, Zenon
<1>3. \A x, y \in Nat : <<x, y>> \in R <=> x < y
  OBVIOUS
<1> HIDE DEF R
<1>4. PICK x \in T : \A y \in T : ~ (<<y, x>> \in R)
  BY <1>2, WFMin, Zenon
<1>5. ASSUME NEW y \in T PROVE x <= y
<2>1. ~ (y < x)
  BY <1>3, <1>4
<2> QED
  BY <2>1
<1> QED
  BY <1>5

\* What a bar makes of the pivots before it.
Through(q, k, h, l, highs, lows) ==
    AddPivot(AddPivot(q, highs, k, "high", h), lows, k, "low", l)
\* f holds the pivots after each bar, as LastFive collects them.
Cleans(f, h, l, highs, lows, m) ==
    f = [k \in 0..m |-> IF k = 0 THEN <<>> ELSE Through(f[k - 1], k, h, l, highs, lows)]

\* There are such lists, for the first length without them would not be the first.
LEMMA PivotsExist ==
    ASSUME NEW h, NEW l, NEW highs, NEW lows, NEW n \in Nat
    PROVE  \E f : Cleans(f, h, l, highs, lows, n)
<1> DEFINE Bad == {m \in Nat : ~ \E f : Cleans(f, h, l, highs, lows, m)}
<1>1. SUFFICES ASSUME Bad # {} PROVE FALSE
  OBVIOUS
<1>2. PICK m \in Bad : \A k \in Bad : m <= k
  BY <1>1, LeastNat
<1> DEFINE By(q, k) == Through(q, k, h, l, highs, lows)
<1> HIDE DEF By
<1>3. CASE m = 0
<2> DEFINE g == [k \in 0..0 |-> <<>>]
<2>1. g = [k \in 0..0 |-> IF k = 0 THEN <<>> ELSE Through(g[k - 1], k, h, l, highs, lows)]
  OBVIOUS
<2>2. Cleans(g, h, l, highs, lows, 0)
  BY <2>1, Zenon DEF Cleans
<2> QED
  BY <1>2, <1>3, <2>2
<1>4. CASE m # 0
<2>1. m - 1 \in Nat /\ m \in Nat /\ m - 1 \notin Bad
  BY <1>2, <1>4
<2>2. PICK f : Cleans(f, h, l, highs, lows, m - 1)
  BY <2>1
<2> DEFINE g == [k \in 0..m |-> IF k = m THEN By(f[m - 1], m) ELSE f[k]]
<2>3. f = [k \in 0..(m - 1) |-> IF k = 0 THEN <<>> ELSE By(f[k - 1], k)]
  BY <2>2 DEF Cleans, By
<2>4. \A k \in 0..(m - 1) : /\ g[k] = f[k] /\ k # m
                            /\ f[k] = IF k = 0 THEN <<>> ELSE By(f[k - 1], k)
  BY <2>1, <2>3
<2>5. ASSUME NEW k \in 0..m PROVE g[k] = IF k = 0 THEN <<>> ELSE By(g[k - 1], k)
<3>1. CASE k = m
<4>1. m - 1 \in 0..(m - 1) /\ m # 0
  BY <2>1, <1>4
<4> QED
  BY <3>1, <2>4, <4>1
<3>2. CASE k # m /\ k # 0
<4>1. k \in 0..(m - 1) /\ k - 1 \in 0..(m - 1)
  BY <2>1, <3>2
<4> QED
  BY <3>2, <2>4, <4>1
<3>3. CASE k # m /\ k = 0
<4>1. k \in 0..(m - 1)
  BY <2>1, <3>3
<4> QED
  BY <3>3, <2>4, <4>1
<3> QED
  BY <3>1, <3>2, <3>3
<2>6. Cleans(g, h, l, highs, lows, m)
<3>1. g = [k \in 0..m |-> g[k]]
  OBVIOUS
<3> HIDE DEF g
<3> QED
  BY <2>5, <3>1 DEF Cleans, By
<2> QED
  BY <1>2, <2>6
<1> QED
  BY <1>3, <1>4

\* A list of pivots of alternating kind.
Alternates(q, V) ==
    /\ q \in Seq([kind : {"high", "low"}, price : V])
    /\ \A i \in 1..(Len(q) - 1) : q[i].kind # q[i + 1].kind

\* A pivot more, or a more extreme one, leaves it so.
LEMMA ExtremeAlternates ==
    ASSUME NEW V, NEW q, Alternates(q, V), NEW kind \in {"high", "low"}, NEW price \in V
    PROVE  Alternates(Extreme(q, [kind |-> kind, price |-> price]), V)
<1> DEFINE p == [kind |-> kind, price |-> price]
           P == [kind : {"high", "low"}, price : V]
<1>1. p \in P /\ p.kind = kind /\ q \in Seq(P)
  BY DEF Alternates
<1> HIDE DEF p
<1>2. CASE q = <<>> \/ Now(q).kind # p.kind
<2>1. Extreme(q, p) = Append(q, p)
  BY <1>2, Zenon DEF Extreme
<2>2. Append(q, p) \in Seq(P)
  BY <1>1
<2>3. ASSUME NEW i \in 1..(Len(Append(q, p)) - 1)
      PROVE  Append(q, p)[i].kind # Append(q, p)[i + 1].kind
<3>1. i \in 1..Len(q) /\ Len(q) \in Nat /\ Append(q, p)[i] = q[i]
  BY <1>1
<3>2. CASE i = Len(q)
  BY <3>1, <3>2, <1>1, <1>2 DEF Now
<3>3. CASE i # Len(q)
<4>1. i \in 1..(Len(q) - 1) /\ Append(q, p)[i + 1] = q[i + 1]
  BY <3>1, <3>3, <1>1
<4> QED
  BY <3>1, <4>1 DEF Alternates
<3> QED
  BY <3>2, <3>3
<2> QED
  BY <2>1, <2>2, <2>3 DEF Alternates, p
<1>3. CASE q # <<>> /\ Now(q).kind = p.kind
<2>1. Extreme(q, p) = [q EXCEPT ![Len(q)] = p] \/ Extreme(q, p) = q
  BY <1>3, Zenon DEF Extreme
<2> DEFINE r == [q EXCEPT ![Len(q)] = p]
<2>2. r \in Seq(P) /\ Len(r) = Len(q) /\ \A i \in 1..Len(q) : r[i].kind = q[i].kind
  BY <1>1, <1>3 DEF Now
<2>3. Alternates(r, V)
<3> HIDE DEF r
<3>1. \A i \in 1..(Len(q) - 1) : i \in 1..Len(q) /\ i + 1 \in 1..Len(q)
  BY <1>1
<3> QED
  BY <2>2, <3>1 DEF Alternates
<2> QED
  BY <2>1, <2>3 DEF p
<1> QED
  BY <1>2, <1>3

\* The prices a pivot may have.
PricesOf(h, l, n) == {h[k] : k \in 1..n} \cup {l[k] : k \in 1..n}

\* So does every list that grows bar by bar: the first that did not would have
\* grown from one that does.
LEMMA CleansAlternate ==
    ASSUME NEW h, NEW l, NEW highs, NEW lows, NEW n \in Nat, NEW f,
           Cleans(f, h, l, highs, lows, n)
    PROVE  Alternates(f[n], PricesOf(h, l, n))
<1> DEFINE V == PricesOf(h, l, n)
           Bad == {m \in 0..n : ~ Alternates(f[m], V)}
<1>1. SUFFICES ASSUME Bad # {} PROVE FALSE
<2>1. n \in 0..n
  OBVIOUS
<2> QED
  BY <2>1, Zenon
<1>2. PICK m \in Bad : \A k \in Bad : m <= k
<2>1. Bad \in SUBSET Nat
  OBVIOUS
<2> HIDE DEF Bad
<2> QED
  BY <1>1, <2>1, LeastNat
<1>3. f[m] = IF m = 0 THEN <<>> ELSE Through(f[m - 1], m, h, l, highs, lows)
  BY DEF Cleans
<1>4. CASE m = 0
<2>1. Alternates(<<>>, V)
  BY DEF Alternates
<2> QED
  BY <1>2, <1>3, <1>4, <2>1
<1>5. CASE m # 0
<2>1. m - 1 \in 0..n /\ m - 1 \notin Bad /\ h[m] \in V /\ l[m] \in V
<3>1. m \in 1..n /\ m - 1 \in 0..n
  BY <1>2, <1>5
<3>2. h[m] \in V /\ l[m] \in V
  BY <3>1 DEF PricesOf
<3>3. m - 1 \notin Bad
<4>1. ~ (m <= m - 1)
  BY <3>1
<4> HIDE DEF Bad
<4> QED
  BY <1>2, <4>1
<3> QED
  BY <3>1, <3>2, <3>3
<2> DEFINE q == f[m - 1]
           r == AddPivot(q, highs, m, "high", h)
<2>2. Alternates(q, V)
  BY <2>1
<2> HIDE DEF V, Bad, q
<2>3. Alternates(r, V)
<3>1. \/ r = Extreme(q, [kind |-> "high", price |-> h[m]])
      \/ r = q
  BY Zenon DEF AddPivot
<3>2. Alternates(Extreme(q, [kind |-> "high", price |-> h[m]]), V)
  BY <2>1, <2>2, ExtremeAlternates
<3> QED
  BY <2>2, <3>1, <3>2, Zenon
<2> HIDE DEF r
<2>4. Alternates(AddPivot(r, lows, m, "low", l), V)
<3>1. \/ AddPivot(r, lows, m, "low", l) = Extreme(r, [kind |-> "low", price |-> l[m]])
      \/ AddPivot(r, lows, m, "low", l) = r
  BY Zenon DEF AddPivot
<3>2. Alternates(Extreme(r, [kind |-> "low", price |-> l[m]]), V)
  BY <2>1, <2>3, ExtremeAlternates
<3> QED
  BY <2>3, <3>1, <3>2, Zenon
<2>5. Alternates(f[m], V)
  BY <1>3, <1>5, <2>4, Zenon DEF Through, q, r
<2> QED
  BY <1>2, <2>5 DEF Bad
<1> QED
  BY <1>4, <1>5

\* Whatever the bars and their swings, there are no five pivots or the first and
\* the last of them are of one kind.
LEMMA FiveEndAsTheyBegin ==
    ASSUME NEW h, NEW l, NEW highs, NEW lows, Len(h) \in Nat,
           LastFive(h, l, highs, lows) # <<>>
    PROVE  LastFive(h, l, highs, lows)[1].kind = LastFive(h, l, highs, lows)[5].kind
<1>1. PICK f : /\ f = [k \in 0..Len(h) |-> IF k = 0 THEN <<>>
                         ELSE AddPivot(AddPivot(f[k - 1], highs, k, "high", h), lows, k, "low", l)]
               /\ LastFive(h, l, highs, lows) =
                    IF Len(f[Len(h)]) < 5 THEN <<>>
                    ELSE SubSeq(f[Len(h)], Len(f[Len(h)]) - 4, Len(f[Len(h)]))
<2>1. \E f : f = [k \in 0..Len(h) |-> IF k = 0 THEN <<>>
                    ELSE AddPivot(AddPivot(f[k - 1], highs, k, "high", h), lows, k, "low", l)]
<3>1. PICK f : Cleans(f, h, l, highs, lows, Len(h))
  BY PivotsExist
<3> QED
  BY <3>1, Zenon DEF Cleans, Through
<2> QED
  BY <2>1, Zenon DEF LastFive
<1> DEFINE q == f[Len(h)]
           n == Len(q)
           V == PricesOf(h, l, Len(h))
           P == [kind : {"high", "low"}, price : V]
<1>2. Alternates(q, V)
<2>1. Cleans(f, h, l, highs, lows, Len(h))
  BY <1>1, Zenon DEF Cleans, Through
<2> QED
  BY <2>1, CleansAlternate
<1> HIDE DEF q, V
<1>3. n >= 5 /\ n \in Nat /\ q \in Seq(P)
  BY <1>1, <1>2 DEF Alternates, q
<1>4. LastFive(h, l, highs, lows) = SubSeq(q, n - 4, n)
  BY <1>1, <1>3 DEF q
<1>5. SubSeq(q, n - 4, n)[1] = q[n - 4] /\ SubSeq(q, n - 4, n)[5] = q[n]
<2> HIDE DEF P
<2> QED
  BY <1>3
<1>6. \A i \in 1..n : q[i].kind \in {"high", "low"}
<2>1. \A x \in P : x.kind \in {"high", "low"}
  OBVIOUS
<2> HIDE DEF P
<2>2. \A i \in 1..n : q[i] \in P
  BY <1>3
<2> QED
  BY <2>1, <2>2, Zenon
<1> HIDE DEF n
<1>7. /\ q[n - 4].kind # q[n - 3].kind /\ q[n - 3].kind # q[n - 2].kind
      /\ q[n - 2].kind # q[n - 1].kind /\ q[n - 1].kind # q[n].kind
<2>1. \A i \in 1..(n - 1) : q[i].kind # q[i + 1].kind
  BY <1>2 DEF Alternates, n
<2>2. /\ n - 4 \in 1..(n - 1) /\ n - 3 \in 1..(n - 1) /\ n - 2 \in 1..(n - 1) /\ n - 1 \in 1..(n - 1)
      /\ (n - 4) + 1 = n - 3 /\ (n - 3) + 1 = n - 2 /\ (n - 2) + 1 = n - 1 /\ (n - 1) + 1 = n
  BY <1>3
<2> QED
  BY <2>1, <2>2, Zenon
<1>8. /\ n - 4 \in 1..n /\ n - 3 \in 1..n /\ n - 2 \in 1..n /\ n - 1 \in 1..n /\ n \in 1..n
  BY <1>3
<1>9. q[n - 4].kind = q[n].kind
  BY <1>6, <1>7, <1>8
<1> QED
  BY <1>4, <1>5, <1>9

\* The four harmonic detectors want a last pivot of the other kind than the first
\* (harmonic_gartley.py:39-45): there is no history on which one of them fires.
THEOREM HarmonicsNeverFire ==
    ASSUME NEW h, NEW l, NEW highs, NEW lows, Len(h) \in Nat, NEW name, NEW dir \in {"LONG", "SHORT"}
    PROVE  ~ HarmonicOn(LastFive(h, l, highs, lows), name, dir)
<1> DEFINE p == LastFive(h, l, highs, lows)
<1>1. p # <<>> => p[1].kind = p[5].kind
  BY FiveEndAsTheyBegin, Zenon
<1> HIDE DEF p
<1>2. p # <<>> => ~ Turns(p[1], p[5], dir)
  BY <1>1 DEF Turns
<1>3. ~ HarmonicOn(p, name, dir)
  BY <1>2, Zenon DEF HarmonicOn
<1> QED
  BY <1>3 DEF p

\* HarmonicsStaySilent: so on every history the market can draw, whatever the
\* number of legs and bars.
THEOREM HarmonicsAreSilent == Spec => []HarmonicsStaySilent
<1>1. HarmonicsStaySilent
<2> DEFINE w == History(bars)
           h == LastOf(w.h, 80)
           l == LastOf(w.l, 80)
<2>1. w.h = [i \in 1..201 |-> bars[i]["h"]]
  BY DEF History, Series, N
<2>2. Len(w.h) = 201
  BY <2>1
<2>3. Len(h) = 81
  BY <2>1, <2>2 DEF LastOf
<2>4. find_xabcd_pivots(w, 80) = LastFive(h, l, find_swing_highs(h, 15, 3), find_swing_lows(l, 15, 3))
  BY Zenon DEF find_xabcd_pivots
<2> HIDE DEF w, h, l
<2>5. \A name, dir : dir \in {"LONG", "SHORT"} => ~ HarmonicOn(find_xabcd_pivots(w, 80), name, dir)
  BY <2>3, <2>4, HarmonicsNeverFire
<2> QED
  BY <2>5, Zenon DEF HarmonicsStaySilent, w
<1> QED
  BY <1>1, PTL

-----------------------------------------------------------------------------
(* Series of prices, and what of them turns with them.                      *)

\* A series upside down about m / 2.
Over(s, m) == [i \in DOMAIN s |-> m - s[i]]
\* Series of n prices, and histories of n bars.
Walks(n) == {s \in Seq(Int) : Len(s) = n}
Market(n) == [o : Walks(n), h : Walks(n), l : Walks(n), c : Walks(n), v : Walks(n), tr : Int]

\* A sequence of numbers has a least one, for the first prefix without one would
\* not be the first.
LEMMA LeastEntry ==
    ASSUME NEW s \in Seq(Int), s # <<>>
    PROVE  \E i \in DOMAIN s : \A j \in DOMAIN s : s[i] <= s[j]
<1> DEFINE Lacks == {k \in 1..Len(s) : ~ \E i \in 1..k : \A j \in 1..k : s[i] <= s[j]}
<1>1. Len(s) \in Nat /\ DOMAIN s = 1..Len(s) /\ Len(s) > 0 /\ \A i \in 1..Len(s) : s[i] \in Int
  BY SMTT(30)
<1>2. ASSUME Lacks # {} PROVE FALSE
  <2>1. PICK k \in Lacks : \A y \in Lacks : k <= y
    <3>1. Lacks \subseteq Nat
      BY <1>1
    <3> QED BY <1>2, <3>1, LeastNat
  <2>2. k \in 1..Len(s) /\ ~ \E i \in 1..k : \A j \in 1..k : s[i] <= s[j]
    OBVIOUS
  <2> HIDE DEF Lacks
  <2>9. k # 1
    BY <1>1, <2>2
  <2>3. k - 1 \in 1..Len(s) /\ k - 1 \notin Lacks
    BY <1>1, <2>1, <2>2, <2>9, SMTT(30)
  <2>4. PICK i \in 1..(k - 1) : \A j \in 1..(k - 1) : s[i] <= s[j]
    BY <2>3 DEF Lacks
  <2>5. s[i] \in Int /\ s[k] \in Int /\ k \in 1..Len(s)
    BY <1>1, <2>2, <2>4
  <2>6. CASE s[i] <= s[k]
    <3>1. i \in 1..k /\ \A j \in 1..k : s[i] <= s[j]
      BY <2>2, <2>4, <2>6, SMTT(30)
    <3> QED BY <2>2, <3>1
  <2>7. CASE s[k] < s[i]
    <3>1. \A j \in 1..k : s[k] <= s[j]
      <4>1. k \in Nat /\ \A j \in 1..k : j = k \/ j \in 1..(k - 1)
        BY <1>1, <2>2
      <4>2. \A j \in 1..k : j \in 1..Len(s) /\ s[j] \in Int
        <5> k \in Nat /\ k <= Len(s) /\ Len(s) \in Nat
          BY <1>1, <2>2
        <5> QED BY <1>1
      <4> QED BY <2>4, <2>5, <2>7, <4>1, <4>2
    <3> QED BY <2>2, <3>1
  <2> QED BY <2>5, <2>6, <2>7
<1>3. Len(s) \notin Lacks
  BY <1>2
<1>4. \E i \in 1..Len(s) : \A j \in 1..Len(s) : s[i] <= s[j]
  BY <1>1, <1>3
<1> QED BY <1>1, <1>4

\* What the least and the greatest of a series are: entries that bound the others,
LEMMA BottomIs ==
    ASSUME NEW s \in Seq(Int), s # <<>>
    PROVE  /\ Bottom(s) \in Int /\ \A j \in DOMAIN s : Bottom(s) <= s[j]
           /\ \E i \in DOMAIN s : Bottom(s) = s[i]
<1>1. PICK i \in DOMAIN s : \A j \in DOMAIN s : s[i] <= s[j]
  BY LeastEntry
<1> DEFINE Values == {s[k] : k \in DOMAIN s}
<1>2. s[i] \in Values /\ \A j \in DOMAIN s : s[i] <= s[j]
  BY <1>1
<1>3. Bottom(s) \in Values /\ \A j \in DOMAIN s : Bottom(s) <= s[j]
  BY <1>2, Zenon DEF Bottom
<1> QED BY <1>3

\* and nothing else is.
LEMMA BottomOnly ==
    ASSUME NEW s \in Seq(Int), NEW i \in DOMAIN s, \A j \in DOMAIN s : s[i] <= s[j]
    PROVE  Bottom(s) = s[i]
<1>1. s # <<>>
  OBVIOUS
<1>2. PICK k \in DOMAIN s : Bottom(s) = s[k]
  BY <1>1, BottomIs
<1>3. Bottom(s) <= s[i] /\ s[i] <= s[k] /\ s[i] \in Int /\ s[k] \in Int
  BY <1>1, <1>2, BottomIs
<1> QED BY <1>2, <1>3

\* So for the greatest,
LEMMA TopIs ==
    ASSUME NEW s \in Seq(Int), s # <<>>
    PROVE  /\ Top(s) \in Int /\ \A j \in DOMAIN s : s[j] <= Top(s)
           /\ \E i \in DOMAIN s : Top(s) = s[i]
<1> DEFINE q == [i \in DOMAIN s |-> -s[i]]
<1>1. q \in Seq(Int) /\ q # <<>> /\ DOMAIN q = DOMAIN s /\ \A i \in DOMAIN s : q[i] = -s[i] /\ s[i] \in Int
  OBVIOUS
<1>2. Top(s) = -Bottom(q)
  BY DEF Top
<1> HIDE DEF q
<1>3. Bottom(q) \in Int /\ \A j \in DOMAIN s : Bottom(q) <= -s[j]
  BY <1>1, BottomIs
<1>4. PICK i \in DOMAIN s : Bottom(q) = -s[i]
  BY <1>1, BottomIs
<1> QED BY <1>1, <1>2, <1>3, <1>4

\* and nothing else.
LEMMA TopOnly ==
    ASSUME NEW s \in Seq(Int), NEW i \in DOMAIN s, \A j \in DOMAIN s : s[j] <= s[i]
    PROVE  Top(s) = s[i]
<1>1. s # <<>>
  OBVIOUS
<1>2. PICK k \in DOMAIN s : Top(s) = s[k]
  BY <1>1, TopIs
<1>3. s[i] <= Top(s) /\ s[k] <= s[i] /\ s[i] \in Int /\ s[k] \in Int
  BY <1>1, <1>2, TopIs
<1> QED BY <1>2, <1>3

\* An overturned series is as long and has the opposite entries;
LEMMA OverIs ==
    ASSUME NEW s \in Seq(Int), NEW m \in Int
    PROVE  /\ Over(s, m) \in Seq(Int) /\ Len(Over(s, m)) = Len(s) /\ DOMAIN Over(s, m) = DOMAIN s
           /\ \A i \in DOMAIN s : Over(s, m)[i] = m - s[i] /\ s[i] \in Int
  BY DEF Over

\* its extremes have changed places;
LEMMA ExtremesOver ==
    ASSUME NEW s \in Seq(Int), s # <<>>, NEW m \in Int
    PROVE  Top(Over(s, m)) = m - Bottom(s) /\ Bottom(Over(s, m)) = m - Top(s)
<1> DEFINE q == Over(s, m)
<1>1. q \in Seq(Int) /\ DOMAIN q = DOMAIN s /\ \A i \in DOMAIN s : q[i] = m - s[i] /\ s[i] \in Int
  BY OverIs
<1> HIDE DEF q
<1>2. PICK i \in DOMAIN s : Bottom(s) = s[i]
  BY BottomIs
<1>3. \A j \in DOMAIN q : q[j] <= q[i]
  BY <1>1, <1>2, BottomIs
<1>4. PICK k \in DOMAIN s : Top(s) = s[k]
  BY TopIs
<1>5. \A j \in DOMAIN q : q[k] <= q[j]
  BY <1>1, <1>4, TopIs
<1>6. Top(q) = q[i] /\ Bottom(q) = q[k]
  BY <1>1, <1>2, <1>3, <1>4, <1>5, TopOnly, BottomOnly
<1> QED BY <1>1, <1>2, <1>4, <1>6 DEF q

\* its pieces are those of the series, overturned;
LEMMA PiecesOver ==
    ASSUME NEW s \in Seq(Int), NEW m \in Int, NEW a \in Int, NEW b \in Int,
           1 <= a, a <= b, b <= Len(s)
    PROVE  /\ SubSeq(Over(s, m), a, b) = Over(SubSeq(s, a, b), m)
           /\ SubSeq(s, a, b) \in Seq(Int) /\ SubSeq(s, a, b) # <<>>
           /\ Len(SubSeq(s, a, b)) = b - a + 1
<1>1. /\ SubSeq(s, a, b) \in Seq(Int) /\ Len(SubSeq(s, a, b)) = b - a + 1
      /\ \A i \in 1..(b - a + 1) : SubSeq(s, a, b)[i] = s[a + i - 1]
  BY SubSeqProperties
<1> DEFINE q == Over(s, m)
<1>9. q \in Seq(Int) /\ Len(q) = Len(s) /\ DOMAIN q = DOMAIN s /\ \A i \in DOMAIN s : q[i] = m - s[i]
  BY OverIs
<1> HIDE DEF q
<1>2. /\ SubSeq(q, a, b) \in Seq(Int) /\ Len(SubSeq(q, a, b)) = b - a + 1
      /\ \A i \in 1..(b - a + 1) : SubSeq(q, a, b)[i] = q[a + i - 1]
  <2>1. \A i \in a..b : q[i] \in Int
    BY <1>9
  <2> QED BY <2>1, SubSeqProperties
<1>3. \A i \in 1..(b - a + 1) : a + i - 1 \in DOMAIN s
  OBVIOUS
<1> DEFINE p == SubSeq(s, a, b)
<1>4. p \in Seq(Int) /\ Len(p) = b - a + 1 /\ \A i \in 1..(b - a + 1) : p[i] = s[a + i - 1]
  BY <1>1
<1> HIDE DEF p
<1>5. /\ Over(p, m) \in Seq(Int) /\ Len(Over(p, m)) = b - a + 1
      /\ \A i \in 1..(b - a + 1) : Over(p, m)[i] = m - p[i]
  <2>1. DOMAIN p = 1..(b - a + 1)
    BY <1>4
  <2> QED BY <1>4, <2>1, OverIs
<1>6. \A i \in 1..(b - a + 1) : SubSeq(q, a, b)[i] = Over(p, m)[i]
  BY <1>2, <1>3, <1>4, <1>5, <1>9
<1>7. SubSeq(q, a, b) = Over(p, m)
  BY <1>2, <1>5, <1>6, SeqEqual
<1>8. p # <<>>
  BY <1>4
<1> QED BY <1>4, <1>7, <1>8 DEF p, q

\* The extremes of two numbers are what a comparison says,
LEMMA Two ==
    ASSUME NEW a \in Int, NEW b \in Int
    PROVE  /\ Top(<<a, b>>) = (IF a < b THEN b ELSE a)
           /\ Bottom(<<a, b>>) = (IF a < b THEN a ELSE b)
<1> DEFINE s == <<a, b>>
<1>1. s \in Seq(Int) /\ DOMAIN s = {1, 2} /\ s[1] = a /\ s[2] = b
  OBVIOUS
<1> HIDE DEF s
<1>2. (a < b => Top(s) = b /\ Bottom(s) = a) /\ (~(a < b) => Top(s) = a /\ Bottom(s) = b)
  <2>1. CASE a < b
    <3>1. \A j \in DOMAIN s : s[j] <= s[2] /\ s[1] <= s[j]
      BY <1>1, <2>1
    <3> QED BY <1>1, <2>1, <3>1, TopOnly, BottomOnly
  <2>2. CASE ~(a < b)
    <3>1. \A j \in DOMAIN s : s[j] <= s[1] /\ s[2] <= s[j]
      BY <1>1, <2>2
    <3> QED BY <1>1, <2>2, <3>1, TopOnly, BottomOnly
  <2> QED BY <2>1, <2>2
<1> QED BY <1>2 DEF s

\* and that of three does not depend on their order.
LEMMA Three ==
    ASSUME NEW a \in Int, NEW b \in Int, NEW c \in Int
    PROVE  Top(<<a, b, c>>) = Top(<<a, c, b>>) /\ Top(<<a, b, c>>) \in Int
<1> DEFINE s == <<a, b, c>>
           t == <<a, c, b>>
<1>1. /\ s \in Seq(Int) /\ s # <<>> /\ DOMAIN s = {1, 2, 3} /\ s[1] = a /\ s[2] = b /\ s[3] = c
      /\ t \in Seq(Int) /\ t # <<>> /\ DOMAIN t = {1, 2, 3} /\ t[1] = a /\ t[2] = c /\ t[3] = b
  OBVIOUS
<1> HIDE DEF s, t
<1>2. Top(s) \in Int /\ Top(s) \in {a, b, c} /\ a <= Top(s) /\ b <= Top(s) /\ c <= Top(s)
  BY <1>1, TopIs
<1>3. Top(t) \in Int /\ Top(t) \in {a, b, c} /\ a <= Top(t) /\ b <= Top(t) /\ c <= Top(t)
  BY <1>1, TopIs
<1>4. Top(s) = Top(t)
  BY <1>2, <1>3
<1> QED BY <1>2, <1>4 DEF s, t

\* Two histories of n bars, of which one is the other upside down.
Opposite(w, u, m, n) ==
    /\ n \in Nat /\ n > 200 /\ m \in Int /\ w \in Market(n) /\ u \in Market(n)
    /\ u.o = Over(w.o, m) /\ u.c = Over(w.c, m) /\ u.h = Over(w.l, m) /\ u.l = Over(w.h, m)
    /\ u.v = w.v /\ u.tr = w.tr

\* and overturned twice it is itself again.
LEMMA OverOver ==
    ASSUME NEW s \in Seq(Int), NEW m \in Int
    PROVE  Over(Over(s, m), m) = s
<1> DEFINE q == Over(s, m)
<1>1. q \in Seq(Int) /\ Len(q) = Len(s) /\ DOMAIN q = DOMAIN s /\ \A i \in DOMAIN s : q[i] = m - s[i] /\ s[i] \in Int
  BY OverIs
<1> HIDE DEF q
<1>2. Over(q, m) \in Seq(Int) /\ Len(Over(q, m)) = Len(s) /\ \A i \in DOMAIN s : Over(q, m)[i] = m - q[i]
  BY <1>1, OverIs
<1>3. \A i \in 1..Len(s) : Over(q, m)[i] = s[i]
  BY <1>1, <1>2, SMTT(30)
<1> QED BY <1>2, <1>3, SeqEqual DEF q

\* Each is the other upside down.
LEMMA OppositeTurns ==
    ASSUME NEW w, NEW u, NEW m, NEW n, Opposite(w, u, m, n)
    PROVE  Opposite(u, w, m, n)
  BY OverOver DEF Opposite, Market, Walks

\* The bars of k bars ago.
LEMMA OppositeAgo ==
    ASSUME NEW w, NEW u, NEW m, NEW n, Opposite(w, u, m, n), NEW k \in 0..(n - 1)
    PROVE  /\ {Ago(w.o, k), Ago(w.h, k), Ago(w.l, k), Ago(w.c, k), w.tr, m} \subseteq Int
           /\ Ago(u.o, k) = m - Ago(w.o, k) /\ Ago(u.c, k) = m - Ago(w.c, k)
           /\ Ago(u.h, k) = m - Ago(w.l, k) /\ Ago(u.l, k) = m - Ago(w.h, k)
           /\ u.tr = w.tr
<1>1. /\ w.o \in Seq(Int) /\ w.h \in Seq(Int) /\ w.l \in Seq(Int) /\ w.c \in Seq(Int) /\ w.tr \in Int
      /\ Len(w.o) = n /\ Len(w.h) = n /\ Len(w.l) = n /\ Len(w.c) = n /\ m \in Int
      /\ n - k \in 1..n
  BY DEF Opposite, Market, Walks
<1>2. /\ u.o[n - k] = m - w.o[n - k] /\ u.c[n - k] = m - w.c[n - k]
      /\ u.h[n - k] = m - w.l[n - k] /\ u.l[n - k] = m - w.h[n - k]
      /\ Len(u.o) = n /\ Len(u.h) = n /\ Len(u.l) = n /\ Len(u.c) = n
  <2>1. ASSUME NEW s \in Seq(Int), Len(s) = n
        PROVE  Over(s, m)[n - k] = m - s[n - k] /\ Len(Over(s, m)) = n
    <3>1. n - k \in DOMAIN s
      BY <1>1, <2>1
    <3> QED BY <1>1, <2>1, <3>1, OverIs
  <2> QED BY <1>1, <2>1 DEF Opposite
<1>3. w.o[n - k] \in Int /\ w.h[n - k] \in Int /\ w.l[n - k] \in Int /\ w.c[n - k] \in Int
  <2>1. ASSUME NEW s \in Seq(Int), Len(s) = n PROVE s[n - k] \in Int
    <3>1. n - k \in DOMAIN s
      BY <1>1, <2>1
    <3> QED BY <3>1
  <2> QED BY <1>1, <2>1
<1>4. /\ Ago(w.o, k) = w.o[n - k] /\ Ago(w.h, k) = w.h[n - k] /\ Ago(w.l, k) = w.l[n - k]
      /\ Ago(w.c, k) = w.c[n - k] /\ Ago(u.o, k) = u.o[n - k] /\ Ago(u.h, k) = u.h[n - k]
      /\ Ago(u.l, k) = u.l[n - k] /\ Ago(u.c, k) = u.c[n - k]
  BY <1>1, <1>2 DEF Ago
<1>5. u.tr = w.tr
  BY DEF Opposite
<1> QED BY <1>1, <1>2, <1>3, <1>4, <1>5

\* The current bars.
LEMMA OppositeNow ==
    ASSUME NEW w, NEW u, NEW m, NEW n, Opposite(w, u, m, n)
    PROVE  /\ {Now(w.o), Now(w.h), Now(w.l), Now(w.c), w.tr, m} \subseteq Int
           /\ Now(u.o) = m - Now(w.o) /\ Now(u.c) = m - Now(w.c)
           /\ Now(u.h) = m - Now(w.l) /\ Now(u.l) = m - Now(w.h)
           /\ u.tr = w.tr
<1>1. \A x \in {w, u} : /\ Now(x.o) = Ago(x.o, 0) /\ Now(x.c) = Ago(x.c, 0)
                        /\ Now(x.h) = Ago(x.h, 0) /\ Now(x.l) = Ago(x.l, 0)
  BY DEF Opposite, Market, Walks, Now, Ago
<1> QED BY <1>1, OppositeAgo DEF Opposite

\* The bars: their bodies are as large, their wicks change places.
LEMMA OppositeBars ==
    ASSUME NEW w, NEW u, NEW m, NEW n, Opposite(w, u, m, n), NEW k \in 0..(n - 1)
    PROVE  /\ {Bar(w, k).o, Bar(w, k).h, Bar(w, k).l, Bar(w, k).c, m} \subseteq Int
           /\ Bar(u, k).o = m - Bar(w, k).o /\ Bar(u, k).c = m - Bar(w, k).c
           /\ Bar(u, k).h = m - Bar(w, k).l /\ Bar(u, k).l = m - Bar(w, k).h
           /\ is_bullish(Bar(u, k)) <=> is_bearish(Bar(w, k))
           /\ is_bearish(Bar(u, k)) <=> is_bullish(Bar(w, k))
           /\ body_size(Bar(u, k)) = body_size(Bar(w, k)) /\ body_size(Bar(w, k)) \in Int
           /\ upper_wick(Bar(u, k)) = lower_wick(Bar(w, k)) /\ upper_wick(Bar(w, k)) \in Int
           /\ lower_wick(Bar(u, k)) = upper_wick(Bar(w, k)) /\ lower_wick(Bar(w, k)) \in Int
           /\ BarRange(Bar(u, k)) = BarRange(Bar(w, k)) /\ BarRange(Bar(w, k)) \in Int
<1> DEFINE b == Bar(w, k)
           a == Bar(u, k)
<1>1. /\ {b.o, b.h, b.l, b.c, m} \subseteq Int
      /\ a.o = m - b.o /\ a.c = m - b.c /\ a.h = m - b.l /\ a.l = m - b.h
  BY OppositeAgo DEF Bar
<1> HIDE DEF a, b
<1>2. /\ is_bullish(a) <=> is_bearish(b)
      /\ is_bearish(a) <=> is_bullish(b)
      /\ body_size(a) = body_size(b) /\ body_size(b) \in Int
      /\ BarRange(a) = BarRange(b) /\ BarRange(b) \in Int
  BY <1>1 DEF is_bullish, is_bearish, body_size, BarRange, Abs
<1>3. /\ Top(<<b.o, b.c>>) = (IF b.o < b.c THEN b.c ELSE b.o)
      /\ Bottom(<<b.o, b.c>>) = (IF b.o < b.c THEN b.o ELSE b.c)
      /\ Top(<<a.o, a.c>>) = (IF a.o < a.c THEN a.c ELSE a.o)
      /\ Bottom(<<a.o, a.c>>) = (IF a.o < a.c THEN a.o ELSE a.c)
  <2>1. b.o \in Int /\ b.c \in Int /\ a.o \in Int /\ a.c \in Int
    BY <1>1
  <2> QED BY <2>1, Two
<1>4. /\ upper_wick(a) = lower_wick(b) /\ upper_wick(b) \in Int
      /\ lower_wick(a) = upper_wick(b) /\ lower_wick(b) \in Int
  BY <1>1, <1>3 DEF upper_wick, lower_wick
<1> QED BY <1>1, <1>2, <1>4 DEF a, b

\* The extremes of the last bars.
LEMMA OppositeEdges ==
    ASSUME NEW w, NEW u, NEW m, NEW n, Opposite(w, u, m, n), NEW a \in Int, NEW b \in Int,
           1 <= a, a <= b, b <= n
    PROVE  /\ Top(SubSeq(u.h, a, b)) = m - Bottom(SubSeq(w.l, a, b))
           /\ Bottom(SubSeq(u.l, a, b)) = m - Top(SubSeq(w.h, a, b))
           /\ Top(SubSeq(u.c, a, b)) = m - Bottom(SubSeq(w.c, a, b))
           /\ Bottom(SubSeq(u.c, a, b)) = m - Top(SubSeq(w.c, a, b))
           /\ Top(SubSeq(w.h, a, b)) \in Int /\ Bottom(SubSeq(w.l, a, b)) \in Int
           /\ Top(SubSeq(w.c, a, b)) \in Int /\ Bottom(SubSeq(w.c, a, b)) \in Int
<1>1. /\ w.h \in Seq(Int) /\ w.l \in Seq(Int) /\ w.c \in Seq(Int) /\ m \in Int
      /\ Len(w.h) = n /\ Len(w.l) = n /\ Len(w.c) = n
      /\ u.c = Over(w.c, m) /\ u.h = Over(w.l, m) /\ u.l = Over(w.h, m)
  BY DEF Opposite, Market, Walks
<1>2. ASSUME NEW s \in Seq(Int), Len(s) = n
      PROVE  /\ Top(SubSeq(Over(s, m), a, b)) = m - Bottom(SubSeq(s, a, b))
             /\ Bottom(SubSeq(Over(s, m), a, b)) = m - Top(SubSeq(s, a, b))
             /\ Top(SubSeq(s, a, b)) \in Int /\ Bottom(SubSeq(s, a, b)) \in Int
  <2>0. m \in Int /\ b <= Len(s)
    BY <1>1, <1>2
  <2>1. /\ SubSeq(Over(s, m), a, b) = Over(SubSeq(s, a, b), m)
        /\ SubSeq(s, a, b) \in Seq(Int) /\ SubSeq(s, a, b) # <<>>
    BY <2>0, PiecesOver, ZenonT(60)
  <2> QED BY <1>1, <2>1, ExtremesOver, TopIs, BottomIs
<1> QED BY <1>1, <1>2

-----------------------------------------------------------------------------
(* The detectors that read single bars.                                     *)

\* The patterns of one to three candles.
LEMMA CandleTwins ==
    ASSUME NEW w, NEW u, NEW m, NEW n, Opposite(w, u, m, n)
    PROVE  /\ BearishKickerVolume(w) <=> BullishKickerVolume(u)
           /\ GapFillReversalLong(w) <=> GapFillReversalShort(u)
           /\ InsideBarBreakoutShort(w) <=> InsideBarBreakoutLong(u)
           /\ KeyReversalShort(w) <=> KeyReversalLong(u)
           /\ WideRangeEngulf(w, "SHORT") <=> WideRangeEngulf(u, "LONG")
           /\ StrictThreeBlackCrows(w) <=> StrictThreeWhiteSoldiers(u)
           /\ PinbarShort(w) <=> PinbarLong(u)
<1>1. n \in Nat /\ n > 200
  BY DEF Opposite
<1>2. \A k \in 0..2 : k \in 0..(n - 1)
  BY <1>1
<1>3. \A k \in 0..2 :
           /\ {Bar(w, k).o, Bar(w, k).h, Bar(w, k).l, Bar(w, k).c, m} \subseteq Int
           /\ Bar(u, k).o = m - Bar(w, k).o /\ Bar(u, k).c = m - Bar(w, k).c
           /\ Bar(u, k).h = m - Bar(w, k).l /\ Bar(u, k).l = m - Bar(w, k).h
           /\ is_bullish(Bar(u, k)) <=> is_bearish(Bar(w, k))
           /\ is_bearish(Bar(u, k)) <=> is_bullish(Bar(w, k))
           /\ body_size(Bar(u, k)) = body_size(Bar(w, k)) /\ body_size(Bar(w, k)) \in Int
           /\ upper_wick(Bar(u, k)) = lower_wick(Bar(w, k)) /\ upper_wick(Bar(w, k)) \in Int
           /\ lower_wick(Bar(u, k)) = upper_wick(Bar(w, k)) /\ lower_wick(Bar(w, k)) \in Int
           /\ BarRange(Bar(u, k)) = BarRange(Bar(w, k)) /\ BarRange(Bar(w, k)) \in Int
  BY <1>2, OppositeBars
<1>4. \A k, tenths \in Int : VolumeAbove(u, k, tenths) <=> VolumeAbove(w, k, tenths)
  BY DEF VolumeAbove, Opposite
<1>5. \A k \in 0..2 :
          LET b == Bar(w, k)  a == Bar(u, k)
          IN /\ Top(<<b.o, b.c>>) = (IF b.o < b.c THEN b.c ELSE b.o)
             /\ Bottom(<<b.o, b.c>>) = (IF b.o < b.c THEN b.o ELSE b.c)
             /\ Top(<<a.o, a.c>>) = (IF a.o < a.c THEN a.c ELSE a.o)
             /\ Bottom(<<a.o, a.c>>) = (IF a.o < a.c THEN a.o ELSE a.c)
  <2>1. \A k \in 0..2 : Bar(w, k).o \in Int /\ Bar(w, k).c \in Int /\ Bar(u, k).o \in Int /\ Bar(u, k).c \in Int
    BY <1>3
  <2> QED BY <2>1, Two
<1>6. BearishKickerVolume(w) <=> BullishKickerVolume(u)
  BY <1>3, <1>4 DEF BearishKickerVolume, BullishKickerVolume
<1>7. GapFillReversalLong(w) <=> GapFillReversalShort(u)
  BY <1>3 DEF GapFillReversalLong, GapFillReversalShort
<1>8. InsideBarBreakoutShort(w) <=> InsideBarBreakoutLong(u)
  BY <1>3 DEF InsideBarBreakoutShort, InsideBarBreakoutLong, Inside
<1>9. KeyReversalShort(w) <=> KeyReversalLong(u)
  BY <1>3 DEF KeyReversalShort, KeyReversalLong
<1>10. WideRangeEngulf(w, "SHORT") <=> WideRangeEngulf(u, "LONG")
  <2>1. \A k \in 0..1 :
            LET b == Bar(w, k)  a == Bar(u, k)
            IN /\ Top(<<a.o, a.c>>) = m - Bottom(<<b.o, b.c>>) /\ Bottom(<<b.o, b.c>>) \in Int
               /\ Bottom(<<a.o, a.c>>) = m - Top(<<b.o, b.c>>) /\ Top(<<b.o, b.c>>) \in Int
    BY <1>3, <1>5
  <2>2. \A k \in 0..1 : m \in Int /\ body_size(Bar(u, k)) = body_size(Bar(w, k))
                          /\ (is_bullish(Bar(u, k)) <=> is_bearish(Bar(w, k)))
                          /\ (is_bearish(Bar(u, k)) <=> is_bullish(Bar(w, k)))
    BY <1>3
  <2>3. VolumeAbove(u, 20, 15) <=> VolumeAbove(w, 20, 15)
    BY <1>4
  <2> DEFINE Covers(x) ==
                 /\ Top(<<Bar(x, 0).o, Bar(x, 0).c>>) >= Top(<<Bar(x, 1).o, Bar(x, 1).c>>)
                 /\ Bottom(<<Bar(x, 0).o, Bar(x, 0).c>>) <= Bottom(<<Bar(x, 1).o, Bar(x, 1).c>>)
                 /\ 2 * body_size(Bar(x, 0)) >= 3 * body_size(Bar(x, 1))
  <2>4. Covers(u) <=> Covers(w)
    BY <1>3, <2>1, <2>2
  <2> HIDE DEF Covers
  <2>5. WideRangeEngulf(w, "SHORT") <=>
            (Covers(w) /\ is_bearish(Bar(w, 0)) /\ is_bullish(Bar(w, 1)) /\ VolumeAbove(w, 20, 15))
    BY DEF WideRangeEngulf, Covers
  <2>6. WideRangeEngulf(u, "LONG") <=>
            (Covers(u) /\ is_bullish(Bar(u, 0)) /\ is_bearish(Bar(u, 1)) /\ VolumeAbove(u, 20, 15))
    BY DEF WideRangeEngulf, Covers
  <2> QED BY <2>2, <2>3, <2>4, <2>5, <2>6
<1>11. StrictThreeBlackCrows(w) <=> StrictThreeWhiteSoldiers(u)
  <2>1. compute_atr(u) = compute_atr(w) /\ \A k \in 0..2 : \A x : Strong(x, Bar(u, k)) <=> Strong(x, Bar(w, k))
    <3>1. \A i \in 1..14 :
              Top(<<Ago(u.h, i - 1) - Ago(u.l, i - 1), Abs(Ago(u.h, i - 1) - Ago(u.c, i)),
                    Abs(Ago(u.l, i - 1) - Ago(u.c, i))>>)
              = Top(<<Ago(w.h, i - 1) - Ago(w.l, i - 1), Abs(Ago(w.h, i - 1) - Ago(w.c, i)),
                      Abs(Ago(w.l, i - 1) - Ago(w.c, i))>>)
      <4> TAKE i \in 1..14
      <4>1. i - 1 \in 0..(n - 1) /\ i \in 0..(n - 1)
        BY <1>1
      <4> DEFINE a == Ago(w.h, i - 1) - Ago(w.l, i - 1)
                 b == Abs(Ago(w.h, i - 1) - Ago(w.c, i))
                 c == Abs(Ago(w.l, i - 1) - Ago(w.c, i))
      <4>2. /\ a \in Int /\ b \in Int /\ c \in Int /\ Ago(u.h, i - 1) - Ago(u.l, i - 1) = a
            /\ Abs(Ago(u.h, i - 1) - Ago(u.c, i)) = c /\ Abs(Ago(u.l, i - 1) - Ago(u.c, i)) = b
        BY <4>1, OppositeAgo DEF Abs
      <4> HIDE DEF a, b, c
      <4>3. Top(<<a, b, c>>) = Top(<<a, c, b>>)
        BY <4>2, Three
      <4> QED BY <4>2, <4>3 DEF a, b, c
    <3>2. compute_atr(u) = compute_atr(w)
      <4> DEFINE Reach(x) ==
                   [i \in 1..14 |-> Top(<<Ago(x.h, i - 1) - Ago(x.l, i - 1),
                        Abs(Ago(x.h, i - 1) - Ago(x.c, i)), Abs(Ago(x.l, i - 1) - Ago(x.c, i))>>)]
      <4>1. Reach(u) = Reach(w)
        BY <3>1
      <4>2. compute_atr(u) = Total(Reach(u)) /\ compute_atr(w) = Total(Reach(w))
        BY DEF compute_atr
      <4> HIDE DEF Reach
      <4> QED BY <4>1, <4>2
    <3>3. \A k \in 0..2 : \A x : Strong(x, Bar(u, k)) <=> Strong(x, Bar(w, k))
      <4> TAKE k \in 0..2
      <4> TAKE x
      <4>1. Top(<<upper_wick(Bar(u, k)), lower_wick(Bar(u, k))>>)
              = Top(<<upper_wick(Bar(w, k)), lower_wick(Bar(w, k))>>)
        <5>1. upper_wick(Bar(w, k)) \in Int /\ lower_wick(Bar(w, k)) \in Int
          BY <1>3
        <5>2. Top(<<upper_wick(Bar(w, k)), lower_wick(Bar(w, k))>>)
                = Top(<<lower_wick(Bar(w, k)), upper_wick(Bar(w, k))>>)
          BY <5>1, Two
        <5> QED BY <1>3, <5>2
      <4> QED BY <1>3, <4>1 DEF Strong
    <3> QED BY <3>2, <3>3
  <2> QED BY <1>3, <2>1 DEF StrictThreeBlackCrows, StrictThreeWhiteSoldiers
<1>12. PinbarShort(w) <=> PinbarLong(u)
  <2>1. Top(LastOf(u.h, 19)) = m - Bottom(LastOf(w.l, 19)) /\ Bottom(LastOf(w.l, 19)) \in Int
    <3>1. Len(u.h) = n /\ Len(w.l) = n /\ n - 19 \in Int /\ 1 <= n - 19 /\ n - 19 <= n
      BY <1>1 DEF Opposite, Market, Walks
    <3> QED BY <1>1, <3>1, OppositeEdges DEF LastOf
  <2> QED BY <1>3, <1>5, <2>1 DEF PinbarShort, PinbarLong
<1> QED BY <1>6, <1>7, <1>8, <1>9, <1>10, <1>11, <1>12

\* The extremes of the k bars before the current one.
LEMMA EdgesBefore ==
    ASSUME NEW w, NEW u, NEW m, NEW n, Opposite(w, u, m, n), NEW k \in 1..(n - 1)
    PROVE  /\ Top(Before(u.h, k)) = m - Bottom(Before(w.l, k))
           /\ Bottom(Before(u.l, k)) = m - Top(Before(w.h, k))
           /\ Bottom(Before(w.l, k)) \in Int /\ Top(Before(w.h, k)) \in Int
<1>1. /\ Len(u.h) = n /\ Len(w.l) = n /\ Len(u.l) = n /\ Len(w.h) = n
      /\ n - k \in Int /\ n - 1 \in Int /\ 1 <= n - k /\ n - k <= n - 1 /\ n - 1 <= n
  BY DEF Opposite, Market, Walks
<1> QED BY <1>1, OppositeEdges DEF Before

\* The gaps, key reversals, two-bar reversals and volume climaxes.
LEMMA GapTwins ==
    ASSUME NEW w, NEW u, NEW m, NEW n, Opposite(w, u, m, n)
    PROVE  /\ KeyReversalHigh(w) <=> KeyReversalLow(u)
           /\ BreakawayGapDown(w) <=> BreakawayGapUp(u)
           /\ RunawayGapDown(w) <=> RunawayGapUp(u)
           /\ ExhaustionGapUp(w) <=> ExhaustionGapDown(u)
           /\ DoubleGapContinuationDown(w) <=> DoubleGapContinuationUp(u)
           /\ TwoBarReversalTop(w) <=> TwoBarReversalBottom(u)
           /\ VolumeClimaxTop(w) <=> VolumeClimaxBottom(u)
           /\ CommonGap(w, "SHORT") <=> CommonGap(u, "LONG")
           /\ GapWindow(w, "SHORT") <=> GapWindow(u, "LONG")
<1>1. n \in Nat /\ n > 200
  BY DEF Opposite
<1>2. \A k \in 0..40 : k \in 0..(n - 1)
  BY <1>1
<1>3. \A k \in 0..40 :
           /\ {Ago(w.o, k), Ago(w.h, k), Ago(w.l, k), Ago(w.c, k), w.tr, m} \subseteq Int
           /\ Ago(u.o, k) = m - Ago(w.o, k) /\ Ago(u.c, k) = m - Ago(w.c, k)
           /\ Ago(u.h, k) = m - Ago(w.l, k) /\ Ago(u.l, k) = m - Ago(w.h, k)
           /\ u.tr = w.tr
  BY <1>2, OppositeAgo
<1>4. /\ {Now(w.o), Now(w.h), Now(w.l), Now(w.c), w.tr, m} \subseteq Int
      /\ Now(u.o) = m - Now(w.o) /\ Now(u.c) = m - Now(w.c)
      /\ Now(u.h) = m - Now(w.l) /\ Now(u.l) = m - Now(w.h)
      /\ u.tr = w.tr
  BY OppositeNow
<1>5. \A k, tenths \in Int : VolumeAbove(u, k, tenths) <=> VolumeAbove(w, k, tenths)
  BY DEF VolumeAbove, Opposite
<1>6. \A k \in {20, 50} :
          /\ Top(Before(u.h, k)) = m - Bottom(Before(w.l, k))
          /\ Bottom(Before(u.l, k)) = m - Top(Before(w.h, k))
          /\ Bottom(Before(w.l, k)) \in Int /\ Top(Before(w.h, k)) \in Int
  <2>1. \A k \in {20, 50} : k \in 1..(n - 1)
    BY <1>1
  <2> QED BY <2>1, EdgesBefore
<1>10. KeyReversalHigh(w) <=> KeyReversalLow(u)
  BY <1>3, <1>4, <1>6 DEF KeyReversalHigh, KeyReversalLow
<1>11. BreakawayGapDown(w) <=> BreakawayGapUp(u)
  BY <1>4, <1>6 DEF BreakawayGapDown, BreakawayGapUp
<1>12. RunawayGapDown(w) <=> RunawayGapUp(u)
  BY <1>3, <1>4, <1>5 DEF RunawayGapDown, RunawayGapUp, Atr
<1>13. ExhaustionGapUp(w) <=> ExhaustionGapDown(u)
  BY <1>3, <1>4 DEF ExhaustionGapUp, ExhaustionGapDown, Atr
<1>14. DoubleGapContinuationDown(w) <=> DoubleGapContinuationUp(u)
  BY <1>3, <1>4 DEF DoubleGapContinuationDown, DoubleGapContinuationUp
<1>15. TwoBarReversalTop(w) <=> TwoBarReversalBottom(u)
  BY <1>3, <1>4 DEF TwoBarReversalTop, TwoBarReversalBottom, TwoBar, Atr, Abs
<1>16. VolumeClimaxTop(w) <=> VolumeClimaxBottom(u)
  <2>1. VolumeAbove(u, 50, 30) <=> VolumeAbove(w, 50, 30)
    BY <1>5
  <2>2. Top(Before(u.h, 50)) = m - Bottom(Before(w.l, 50)) /\ Bottom(Before(u.l, 50)) = m - Top(Before(w.h, 50))
        /\ Bottom(Before(w.l, 50)) \in Int /\ Top(Before(w.h, 50)) \in Int
    BY <1>6
  <2> QED BY <1>4, <2>1, <2>2 DEF VolumeClimaxTop, VolumeClimaxBottom
<1>17. CommonGap(w, "SHORT") <=> CommonGap(u, "LONG")
  BY <1>3, <1>4 DEF CommonGap
<1>18. GapWindow(w, "SHORT") <=> GapWindow(u, "LONG")
  <2>1. \A k \in 1..10 : /\ OpenGap(w, k, "SHORT") <=> OpenGap(u, k, "LONG")
                         /\ OpenGap(w, k, "LONG") <=> OpenGap(u, k, "SHORT")
    <3> TAKE k \in 1..10
    <3>1. k + 1 \in 0..40 /\ k \in 0..40 /\ 0..k \subseteq 0..40
      OBVIOUS
    <3> QED BY <1>3, <3>1 DEF OpenGap
  <2>2. {k \in 1..10 : OpenGap(w, k, "LONG") \/ OpenGap(w, k, "SHORT")}
          = {k \in 1..10 : OpenGap(u, k, "LONG") \/ OpenGap(u, k, "SHORT")}
    BY <2>1
  <2> QED BY <1>4, <2>1, <2>2 DEF GapWindow
<1> QED BY <1>10, <1>11, <1>12, <1>13, <1>14, <1>15, <1>16, <1>17, <1>18

\* The breakouts out of a range, and the reversal at the end of a day.
LEMMA RangeTwins ==
    ASSUME NEW w, NEW u, NEW m, NEW n, Opposite(w, u, m, n)
    PROVE  /\ OpeningRangeBreakout(w, "SHORT") <=> OpeningRangeBreakout(u, "LONG")
           /\ WeeklyPivotBreak(w, "SHORT") <=> WeeklyPivotBreak(u, "LONG")
           /\ EndOfDayReversal(w, "SHORT") <=> EndOfDayReversal(u, "LONG")
<1>1. n \in Nat /\ n > 200
  BY DEF Opposite
<1>2. /\ {Now(w.o), Now(w.h), Now(w.l), Now(w.c), w.tr, m} \subseteq Int
      /\ Now(u.o) = m - Now(w.o) /\ Now(u.c) = m - Now(w.c) /\ u.tr = w.tr
  BY OppositeNow
<1>3. OpeningRangeBreakout(w, "SHORT") <=> OpeningRangeBreakout(u, "LONG")
  <2>1. ASSUME NEW s \in Seq(Int), Len(s) = n
        PROVE  SubSeq(LastOf(s, 30), 1, 5) = SubSeq(s, n - 30, n - 26)
    <3>1. /\ LastOf(s, 30) \in Seq(Int) /\ Len(LastOf(s, 30)) = 31
          /\ \A i \in 1..31 : LastOf(s, 30)[i] = s[n - 30 + i - 1]
      <4>1. 1 <= n - 30 /\ n - 30 <= n + 1 /\ n <= n /\ \A i \in (n - 30)..n : s[i] \in Int
        BY <1>1, <2>1
      <4> QED BY <1>1, <2>1, <4>1, SubSeqProperties DEF LastOf
    <3> DEFINE q == LastOf(s, 30)
    <3>2. q \in Seq(Int) /\ Len(q) = 31 /\ \A i \in 1..31 : q[i] = s[n - 30 + i - 1]
      BY <3>1
    <3> HIDE DEF q
    <3>3. SubSeq(q, 1, 5) \in Seq(Int) /\ Len(SubSeq(q, 1, 5)) = 5 /\ \A i \in 1..5 : SubSeq(q, 1, 5)[i] = q[i]
      <4>1. \A i \in 1..5 : i \in 1..31
        OBVIOUS
      <4>2. \A i \in 1..31 : q[i] \in Int
        <5>1. q \in Seq(Int) /\ Len(q) = 31
          BY <3>2
        <5> QED BY <5>1, ElementOfSeq
      <4> QED BY <4>1, <4>2, SubSeqProperties
    <3> DEFINE p == SubSeq(s, n - 30, n - 26)
    <3>4. p \in Seq(Int) /\ Len(p) = 5 /\ \A i \in 1..5 : p[i] = s[n - 30 + i - 1]
      <4>1. 1 <= n - 30 /\ n - 30 <= n - 26 + 1 /\ n - 26 <= n /\ \A i \in (n - 30)..(n - 26) : s[i] \in Int
        BY <1>1, <2>1
      <4> QED BY <1>1, <2>1, <4>1, SubSeqProperties
    <3> HIDE DEF p
    <3>5. SubSeq(q, 1, 5) = p
      <4>1. \A i \in 1..5 : i \in 1..31
        OBVIOUS
      <4>2. \A i \in 1..5 : SubSeq(q, 1, 5)[i] = p[i]
        BY <3>2, <3>3, <3>4, <4>1, Zenon
      <4> QED BY <3>3, <3>4, <4>2, SeqEqual, ZenonT(30)
    <3> QED BY <3>5 DEF p, q
  <2>2. /\ w.h \in Seq(Int) /\ w.l \in Seq(Int) /\ u.h \in Seq(Int) /\ u.l \in Seq(Int)
        /\ Len(w.h) = n /\ Len(w.l) = n /\ Len(u.h) = n /\ Len(u.l) = n
    BY DEF Opposite, Market, Walks
  <2>3. n - 30 \in Int /\ n - 26 \in Int /\ 1 <= n - 30 /\ n - 30 <= n - 26 /\ n - 26 <= n
    BY <1>1
  <2>4. /\ Top(SubSeq(u.h, n - 30, n - 26)) = m - Bottom(SubSeq(w.l, n - 30, n - 26))
        /\ Bottom(SubSeq(w.l, n - 30, n - 26)) \in Int
    BY <2>3, OppositeEdges
  <2>5. /\ Top(SubSeq(LastOf(u.h, 30), 1, 5)) = m - Bottom(SubSeq(LastOf(w.l, 30), 1, 5))
        /\ Bottom(SubSeq(LastOf(w.l, 30), 1, 5)) \in Int
    BY <2>1, <2>2, <2>4
  <2> QED BY <1>2, <2>5 DEF OpeningRangeBreakout, Breaks
<1>4. WeeklyPivotBreak(w, "SHORT") <=> WeeklyPivotBreak(u, "LONG")
  <2>1. Top(Before(u.h, 168)) = m - Bottom(Before(w.l, 168)) /\ Bottom(Before(w.l, 168)) \in Int
    <3>1. 168 \in 1..(n - 1)
      BY <1>1
    <3> QED BY <3>1, EdgesBefore
  <2> QED BY <1>2, <2>1 DEF WeeklyPivotBreak, Breaks
<1>5. EndOfDayReversal(w, "SHORT") <=> EndOfDayReversal(u, "LONG")
  <2>1. \A k \in {1, 5} : Ago(w.c, k) \in Int /\ Ago(u.c, k) = m - Ago(w.c, k)
    <3>1. \A k \in {1, 5} : k \in 0..(n - 1)
      BY <1>1
    <3> QED BY <3>1, OppositeAgo
  <2> QED BY <1>2, <2>1 DEF EndOfDayReversal
<1> QED BY <1>3, <1>4, <1>5

-----------------------------------------------------------------------------
(* Sums, lines and parabolas through a series.                              *)

\* f holds the sums of the first entries.
SumsTo(f, s, m) == f = [n \in 0..m |-> IF n = 0 THEN 0 ELSE f[n - 1] + s[n]]

\* There are such sums, for the first length without them would not be the first.
LEMMA SumsExist ==
    ASSUME NEW s, NEW n \in Nat
    PROVE  \E f : SumsTo(f, s, n)
<1> DEFINE Bad == {m \in Nat : ~ \E f : SumsTo(f, s, m)}
<1>1. SUFFICES ASSUME Bad # {} PROVE FALSE
  OBVIOUS
<1>2. PICK m \in Bad : \A k \in Bad : m <= k
  BY <1>1, LeastNat
<1>3. CASE m = 0
  <2> DEFINE g == [k \in 0..0 |-> 0]
  <2>1. g = [k \in 0..0 |-> IF k = 0 THEN 0 ELSE g[k - 1] + s[k]]
    OBVIOUS
  <2>2. SumsTo(g, s, 0)
    BY <2>1, Zenon DEF SumsTo
  <2> QED BY <1>2, <1>3, <2>2
<1>4. CASE m # 0
  <2>1. m - 1 \in Nat /\ m \in Nat /\ m - 1 \notin Bad
    BY <1>2, <1>4
  <2>2. PICK f : f = [k \in 0..(m - 1) |-> IF k = 0 THEN 0 ELSE f[k - 1] + s[k]]
    BY <2>1 DEF SumsTo
  <2> DEFINE g == [k \in 0..m |-> IF k = m THEN f[m - 1] + s[m] ELSE f[k]]
  <2>3. \A k \in 0..(m - 1) : g[k] = f[k] /\ k # m /\ f[k] = IF k = 0 THEN 0 ELSE f[k - 1] + s[k]
    BY <2>1, <2>2
  <2>4. ASSUME NEW k \in 0..m PROVE g[k] = IF k = 0 THEN 0 ELSE g[k - 1] + s[k]
    <3>1. CASE k = m
      <4>1. m - 1 \in 0..(m - 1) /\ m # 0
        BY <2>1, <1>4
      <4> QED BY <3>1, <2>3, <4>1
    <3>2. CASE k # m /\ k # 0
      <4>1. k \in 0..(m - 1) /\ k - 1 \in 0..(m - 1)
        BY <2>1, <3>2
      <4> QED BY <3>2, <2>3, <4>1
    <3>3. CASE k # m /\ k = 0
      <4>1. k \in 0..(m - 1)
        BY <2>1, <3>3
      <4> QED BY <3>3, <2>3, <4>1
    <3> QED BY <3>1, <3>2, <3>3
  <2>5. SumsTo(g, s, m)
    <3>1. g = [k \in 0..m |-> g[k]]
      OBVIOUS
    <3> HIDE DEF g
    <3> QED BY <2>4, <3>1 DEF SumsTo
  <2> QED BY <1>2, <2>5
<1> QED BY <1>3, <1>4

\* The sum of a sequence is that of its last prefix.
LEMMA TotalIs ==
    ASSUME NEW s, Len(s) \in Nat
    PROVE  \E f : SumsTo(f, s, Len(s)) /\ Total(s) = f[Len(s)]
<1>1. \E f : f = [n \in 0..Len(s) |-> IF n = 0 THEN 0 ELSE f[n - 1] + s[n]]
  <2>1. PICK f : SumsTo(f, s, Len(s))
    BY SumsExist
  <2> QED BY <2>1, Zenon DEF SumsTo
<1>2. PICK f : /\ f = [n \in 0..Len(s) |-> IF n = 0 THEN 0 ELSE f[n - 1] + s[n]]
               /\ Total(s) = f[Len(s)]
  BY <1>1, Zenon DEF Total
<1> QED BY <1>2, Zenon DEF SumsTo

\* Entries that add up to a multiple of k: so do the sums.
LEMMA TotalsAddUp ==
    ASSUME NEW s \in Seq(Int), NEW t \in Seq(Int), Len(s) = Len(t), NEW k \in Int,
           \A i \in DOMAIN s : t[i] = k - s[i]
    PROVE  Total(s) \in Int /\ Total(t) = Len(s) * k - Total(s)
<1> DEFINE n == Len(s)
<1>1. n \in Nat /\ Len(t) = n /\ \A i \in 1..n : s[i] \in Int /\ t[i] = k - s[i]
  OBVIOUS
<1>2. PICK f : SumsTo(f, s, n) /\ Total(s) = f[n]
  BY <1>1, TotalIs
<1>3. PICK g : SumsTo(g, t, n) /\ Total(t) = g[n]
  BY <1>1, TotalIs
<1> HIDE DEF n
<1>4. \A i \in 0..n : /\ f[i] = IF i = 0 THEN 0 ELSE f[i - 1] + s[i]
                      /\ g[i] = IF i = 0 THEN 0 ELSE g[i - 1] + t[i]
  BY <1>2, <1>3 DEF SumsTo
<1> DEFINE Good(i) == f[i] \in Int /\ g[i] = i * k - f[i]
           Bad == {i \in 0..n : ~ Good(i)}
<1>5. Bad = {}
  <2>1. SUFFICES ASSUME Bad # {} PROVE FALSE
    OBVIOUS
  <2>2. PICK i \in Bad : \A j \in Bad : i <= j
    <3>1. Bad \subseteq Nat
      BY <1>1
    <3> HIDE DEF Bad
    <3> QED BY <2>1, <3>1, LeastNat
  <2>3. i \in 0..n /\ ~ Good(i)
    OBVIOUS
  <2> HIDE DEF Bad
  <2>4. CASE i = 0
    <3>1. f[0] = 0 /\ g[0] = 0 /\ 0 * k = 0
      BY <1>1, <1>4
    <3> QED BY <2>3, <2>4, <3>1
  <2>5. CASE i # 0
    <3>1. i \in 1..n /\ i - 1 \in 0..n /\ i \in Nat
      BY <1>1, <2>3, <2>5
    <3>2. Good(i - 1)
      <4>1. i - 1 \notin Bad
        BY <2>2, <3>1
      <4> QED BY <3>1, <4>1 DEF Bad
    <3>3. f[i] = f[i - 1] + s[i] /\ g[i] = g[i - 1] + (k - s[i]) /\ s[i] \in Int
      BY <1>1, <1>4, <2>5, <3>1
    <3> DEFINE before == (i - 1) * k
               after == i * k
    <3>4. before + k = after /\ before \in Int /\ after \in Int
      BY <3>1
    <3>5. f[i - 1] \in Int /\ g[i - 1] = before - f[i - 1]
      BY <3>2
    <3> HIDE DEF before, after, Good
    <3> DEFINE x == f[i - 1]
               z == s[i]
               y == g[i - 1]
               x1 == f[i]
               y1 == g[i]
    <3>6. x \in Int /\ z \in Int /\ y = before - x /\ x1 = x + z /\ y1 = y + (k - z)
      BY <3>3, <3>5
    <3> HIDE DEF x, y, z, x1, y1
    <3>7. x1 \in Int /\ y1 = after - x1
      BY <3>4, <3>6
    <3> QED BY <2>3, <3>7 DEF after, Good, x1, y1
  <2> QED BY <2>4, <2>5
<1>6. Good(n)
  <2>1. n \in 0..n /\ n \notin Bad
    BY <1>1, <1>5, SMTT(30)
  <2> QED BY <2>1
<1> QED BY <1>2, <1>3, <1>6 DEF n

\* The last k + 1 bars.
LEMMA OppositeWindows ==
    ASSUME NEW w, NEW u, NEW m, NEW n, Opposite(w, u, m, n), NEW k \in 0..(n - 1)
    PROVE  /\ LastOf(u.h, k) = Over(LastOf(w.l, k), m) /\ LastOf(u.l, k) = Over(LastOf(w.h, k), m)
           /\ LastOf(u.c, k) = Over(LastOf(w.c, k), m)
           /\ LastOf(w.h, k) \in Seq(Int) /\ LastOf(w.h, k) # <<>> /\ Len(LastOf(w.h, k)) = k + 1
           /\ LastOf(w.l, k) \in Seq(Int) /\ LastOf(w.l, k) # <<>> /\ Len(LastOf(w.l, k)) = k + 1
           /\ LastOf(w.c, k) \in Seq(Int) /\ LastOf(w.c, k) # <<>> /\ Len(LastOf(w.c, k)) = k + 1
<1>1. /\ w.h \in Seq(Int) /\ w.l \in Seq(Int) /\ w.c \in Seq(Int) /\ m \in Int
      /\ Len(w.h) = n /\ Len(w.l) = n /\ Len(w.c) = n
      /\ Len(u.h) = n /\ Len(u.l) = n /\ Len(u.c) = n /\ n \in Nat
      /\ u.c = Over(w.c, m) /\ u.h = Over(w.l, m) /\ u.l = Over(w.h, m)
  BY DEF Opposite, Market, Walks
<1>2. n - k \in Int /\ 1 <= n - k /\ n - k <= n /\ n - (n - k) + 1 = k + 1
  BY <1>1
<1>3. ASSUME NEW s \in Seq(Int), Len(s) = n
      PROVE  /\ SubSeq(Over(s, m), n - k, n) = Over(SubSeq(s, n - k, n), m)
             /\ SubSeq(s, n - k, n) \in Seq(Int) /\ SubSeq(s, n - k, n) # <<>>
             /\ Len(SubSeq(s, n - k, n)) = k + 1
  <2> DEFINE j == n - k
  <2>1. /\ n \in Int /\ n <= Len(s) /\ m \in Int
        /\ j \in Int /\ 1 <= j /\ j <= n /\ n - j + 1 = k + 1
    BY <1>1, <1>2, <1>3
  <2> HIDE DEF j
  <2>2. /\ SubSeq(Over(s, m), j, n) = Over(SubSeq(s, j, n), m)
        /\ SubSeq(s, j, n) \in Seq(Int) /\ SubSeq(s, j, n) # <<>>
        /\ Len(SubSeq(s, j, n)) = n - j + 1
    BY <2>1, PiecesOver, ZenonT(60)
  <2> QED BY <2>1, <2>2 DEF j
<1> QED BY <1>1, <1>3 DEF LastOf

\* The entries of an overturned series, by number.
LEMMA EntriesOver ==
    ASSUME NEW s \in Seq(Int), NEW m \in Int
    PROVE  \A i \in 1..Len(s) : Over(s, m)[i] = m - s[i] /\ s[i] \in Int
  BY OverIs

\* The reversals in a V.
LEMMA VTwins ==
    ASSUME NEW w, NEW u, NEW m, NEW n, Opposite(w, u, m, n)
    PROVE  VTop(w) <=> VBottom(u)
<1> DEFINE h == LastOf(w.h, 30)
           l == LastOf(u.l, 30)
<1>1. 30 \in 0..(n - 1) /\ w.tr \in Int /\ u.tr = w.tr /\ m \in Int
  BY DEF Opposite, Market
<1>2. \A i \in 1..31 : l[i] = m - h[i] /\ h[i] \in Int
  <2>1. l = Over(h, m) /\ h \in Seq(Int) /\ Len(h) = 31
    <3>1. \A k \in 0..(n - 1) : /\ LastOf(u.l, k) = Over(LastOf(w.h, k), m)
                                /\ LastOf(w.h, k) \in Seq(Int) /\ Len(LastOf(w.h, k)) = k + 1
      BY OppositeWindows
    <3>2. LastOf(u.l, 30) = Over(LastOf(w.h, 30), m)
      BY <1>1, <3>1, Zenon
    <3>3. LastOf(w.h, 30) \in Seq(Int) /\ Len(LastOf(w.h, 30)) = 30 + 1
      BY <1>1, <3>1, Zenon
    <3> QED BY <3>2, <3>3
  <2> HIDE DEF h, l
  <2> QED BY <1>1, <2>1, EntriesOver
<1> HIDE DEF h, l
<1> DEFINE Peak(p) == /\ \A i \in 1..31 : IF i < p THEN h[i] < h[p] ELSE h[i] <= h[p]
                      /\ w.tr > 0 /\ 28 * (h[p] - h[1]) >= w.tr * (p - 1)
                      /\ 28 * (h[p] - h[31]) >= w.tr * (31 - p)
           Trough(p) == /\ \A i \in 1..31 : IF i < p THEN l[i] > l[p] ELSE l[i] >= l[p]
                        /\ u.tr > 0 /\ 28 * (l[1] - l[p]) >= u.tr * (p - 1)
                        /\ 28 * (l[31] - l[p]) >= u.tr * (31 - p)
<1>3. ASSUME NEW p \in 11..21 PROVE Peak(p) <=> Trough(p)
  <2>1. p \in 1..31 /\ 1 \in 1..31 /\ 31 \in 1..31
    OBVIOUS
  <2>2. l[p] = m - h[p] /\ l[1] = m - h[1] /\ l[31] = m - h[31] /\ {h[p], h[1], h[31], m} \subseteq Int
    BY <1>1, <1>2, <2>1
  <2>3. (\A i \in 1..31 : IF i < p THEN h[i] < h[p] ELSE h[i] <= h[p])
          <=> (\A i \in 1..31 : IF i < p THEN l[i] > l[p] ELSE l[i] >= l[p])
    BY <1>2, <2>2
  <2>4. h[p] - h[1] = l[1] - l[p] /\ h[p] - h[31] = l[31] - l[p]
    BY <2>2
  <2> QED BY <1>1, <2>3, <2>4
<1>4. (VTop(w) <=> \E p \in 11..21 : Peak(p)) /\ (VBottom(u) <=> \E p \in 11..21 : Trough(p))
  BY DEF VTop, VBottom, h, l
<1> HIDE DEF Peak, Trough
<1> QED BY <1>3, <1>4

\* The pauses after a run, and the return to a mean.
LEMMA PauseTwins ==
    ASSUME NEW w, NEW u, NEW m, NEW n, Opposite(w, u, m, n)
    PROVE  /\ MidTermConsolidation(w, "SHORT") <=> MidTermConsolidation(u, "LONG")
           /\ BreakoutPullbackShort(w) <=> BreakoutPullbackLong(u)
           /\ MeanReversionToMa(w, "SHORT") <=> MeanReversionToMa(u, "LONG")
<1>1. /\ n \in Nat /\ n > 200 /\ m \in Int /\ w.tr \in Int /\ u.tr = w.tr
  BY DEF Opposite, Market
<1>2. \A k \in 0..60 : k \in 0..(n - 1)
  BY <1>1
<1>3. /\ {Now(w.h), Now(w.l), Now(w.c)} \subseteq Int
      /\ Now(u.c) = m - Now(w.c) /\ Now(u.h) = m - Now(w.l) /\ Now(u.l) = m - Now(w.h)
  BY OppositeNow
<1>4. MidTermConsolidation(w, "SHORT") <=> MidTermConsolidation(u, "LONG")
  <2>1. \A k \in {31, 60} : Ago(w.c, k) \in Int /\ Ago(u.c, k) = m - Ago(w.c, k)
    BY <1>2, OppositeAgo
  <2>2. /\ Top(LastOf(u.h, 29)) = m - Bottom(LastOf(w.l, 29)) /\ Bottom(LastOf(w.l, 29)) \in Int
        /\ Bottom(LastOf(u.l, 29)) = m - Top(LastOf(w.h, 29)) /\ Top(LastOf(w.h, 29)) \in Int
    <3>1. 29 \in 0..(n - 1)
      BY <1>2
    <3> QED BY <1>1, <3>1, OppositeWindows, ExtremesOver, TopIs, BottomIs
  <2> QED BY <1>1, <2>1, <2>2 DEF MidTermConsolidation, Atr, Abs
<1>5. BreakoutPullbackShort(w) <=> BreakoutPullbackLong(u)
  <2> DEFINE l == LastOf(w.l, 50)
             c == LastOf(w.c, 50)
  <2>1. /\ LastOf(u.h, 50) = Over(l, m) /\ LastOf(u.c, 50) = Over(c, m)
        /\ l \in Seq(Int) /\ c \in Seq(Int) /\ Len(l) = 51 /\ Len(c) = 51
    <3>1. 50 \in 0..(n - 1)
      BY <1>2
    <3>2. \A k \in 0..(n - 1) :
              /\ LastOf(u.h, k) = Over(LastOf(w.l, k), m) /\ LastOf(u.c, k) = Over(LastOf(w.c, k), m)
              /\ LastOf(w.l, k) \in Seq(Int) /\ Len(LastOf(w.l, k)) = k + 1
              /\ LastOf(w.c, k) \in Seq(Int) /\ Len(LastOf(w.c, k)) = k + 1
      BY OppositeWindows
    <3>3. LastOf(u.h, 50) = Over(l, m) /\ LastOf(u.c, 50) = Over(c, m)
      BY <3>1, <3>2, Zenon
    <3>4. l \in Seq(Int) /\ c \in Seq(Int) /\ Len(l) = 50 + 1 /\ Len(c) = 50 + 1
      BY <3>1, <3>2, Zenon
    <3> QED BY <3>3, <3>4
  <2> HIDE DEF l, c
  <2>2. ASSUME NEW s \in Seq(Int), Len(s) = 51
        PROVE  /\ FirstHalf(Over(s, m)) = Over(FirstHalf(s), m) /\ FirstHalf(s) \in Seq(Int) /\ FirstHalf(s) # <<>>
               /\ SecondHalf(Over(s, m)) = Over(SecondHalf(s), m) /\ SecondHalf(s) \in Seq(Int) /\ SecondHalf(s) # <<>>
    <3>1. Len(Over(s, m)) = 51 /\ 51 \div 2 = 25
      BY <1>1, <2>2, OverIs
    <3>2. /\ SubSeq(Over(s, m), 1, 25) = Over(SubSeq(s, 1, 25), m)
          /\ SubSeq(s, 1, 25) \in Seq(Int) /\ SubSeq(s, 1, 25) # <<>>
      <4>1. \A a, b \in Int : 1 <= a /\ a <= b /\ b <= Len(s) =>
                /\ SubSeq(Over(s, m), a, b) = Over(SubSeq(s, a, b), m)
                /\ SubSeq(s, a, b) \in Seq(Int) /\ SubSeq(s, a, b) # <<>>
        BY <1>1, <2>2, PiecesOver, ZenonT(30)
      <4>2. 1 \in Int /\ 25 \in Int /\ 1 <= 1 /\ 1 <= 25 /\ 25 <= Len(s)
        BY <2>2
      <4> QED BY <4>1, <4>2, Zenon
    <3>3. /\ SubSeq(Over(s, m), 26, 51) = Over(SubSeq(s, 26, 51), m)
          /\ SubSeq(s, 26, 51) \in Seq(Int) /\ SubSeq(s, 26, 51) # <<>>
      <4>1. \A a, b \in Int : 1 <= a /\ a <= b /\ b <= Len(s) =>
                /\ SubSeq(Over(s, m), a, b) = Over(SubSeq(s, a, b), m)
                /\ SubSeq(s, a, b) \in Seq(Int) /\ SubSeq(s, a, b) # <<>>
        BY <1>1, <2>2, PiecesOver, ZenonT(30)
      <4>2. 26 \in Int /\ 51 \in Int /\ 1 <= 26 /\ 26 <= 51 /\ 51 <= Len(s)
        BY <2>2
      <4> QED BY <4>1, <4>2, Zenon
    <3>4. FirstHalf(s) = SubSeq(s, 1, 25) /\ FirstHalf(Over(s, m)) = SubSeq(Over(s, m), 1, 25)
      BY <2>2, <3>1 DEF FirstHalf
    <3>5. SecondHalf(s) = SubSeq(s, 26, 51) /\ SecondHalf(Over(s, m)) = SubSeq(Over(s, m), 26, 51)
      BY <2>2, <3>1 DEF SecondHalf
    <3> QED BY <3>2, <3>3, <3>4, <3>5
  <2>3. /\ Top(FirstHalf(LastOf(u.h, 50))) = m - Bottom(FirstHalf(l)) /\ Bottom(FirstHalf(l)) \in Int
        /\ Top(SecondHalf(LastOf(u.c, 50))) = m - Bottom(SecondHalf(c)) /\ Bottom(SecondHalf(c)) \in Int
    BY <1>1, <2>1, <2>2, ExtremesOver, BottomIs
  <2> QED BY <1>1, <1>3, <2>3 DEF BreakoutPullbackShort, BreakoutPullbackLong, Atr, Abs, l, c
<1>6. MeanReversionToMa(w, "SHORT") <=> MeanReversionToMa(u, "LONG")
  <2> DEFINE c == LastOf(w.c, 49)
  <2>1. Total(c) \in Int /\ Total(LastOf(u.c, 49)) = 50 * m - Total(c)
    <3>1. LastOf(u.c, 49) = Over(c, m) /\ c \in Seq(Int) /\ Len(c) = 50
      <4>1. 49 \in 0..(n - 1)
        BY <1>2
      <4>2. \A k \in 0..(n - 1) : /\ LastOf(u.c, k) = Over(LastOf(w.c, k), m)
                                  /\ LastOf(w.c, k) \in Seq(Int) /\ Len(LastOf(w.c, k)) = k + 1
        BY OppositeWindows
      <4>3. LastOf(u.c, 49) = Over(c, m)
        BY <4>1, <4>2, Zenon
      <4>4. c \in Seq(Int) /\ Len(c) = 49 + 1
        BY <4>1, <4>2, Zenon
      <4> QED BY <4>3, <4>4
    <3> HIDE DEF c
    <3>2. /\ Over(c, m) \in Seq(Int) /\ Len(Over(c, m)) = Len(c)
          /\ \A i \in DOMAIN c : Over(c, m)[i] = m - c[i]
      BY <1>1, <3>1, OverIs
    <3>3. Total(c) \in Int /\ Total(Over(c, m)) = Len(c) * m - Total(c)
      BY <1>1, <3>1, <3>2, TotalsAddUp
    <3> QED BY <3>1, <3>3 DEF c
  <2> HIDE DEF c
  <2>2. 50 * Now(u.c) - Total(LastOf(u.c, 49)) = -(50 * Now(w.c) - Total(c))
    BY <1>1, <1>3, <2>1
  <2> QED BY <1>1, <1>3, <2>1, <2>2 DEF MeanReversionToMa, Abs, c
<1> QED BY <1>4, <1>5, <1>6

\* What satisfies the recurrence of the sums, scaled by c, is the sum.
LEMMA TotalFollows ==
    ASSUME NEW s \in Seq(Int), NEW c \in Int, NEW F, F[0] = 0,
           \A i \in 1..Len(s) : F[i] = F[i - 1] + c * s[i]
    PROVE  Total(s) \in Int /\ c * Total(s) = F[Len(s)]
<1> DEFINE n == Len(s)
<1>1. n \in Nat /\ \A i \in 1..n : s[i] \in Int /\ F[i] = F[i - 1] + c * s[i]
  OBVIOUS
<1>2. PICK f : SumsTo(f, s, n) /\ Total(s) = f[n]
  BY <1>1, TotalIs
<1> HIDE DEF n
<1>4. \A i \in 0..n : f[i] = IF i = 0 THEN 0 ELSE f[i - 1] + s[i]
  BY <1>2 DEF SumsTo
<1> DEFINE Good(i) == f[i] \in Int /\ c * f[i] = F[i]
           Bad == {i \in 0..n : ~ Good(i)}
<1>5. Bad = {}
  <2>1. SUFFICES ASSUME Bad # {} PROVE FALSE
    OBVIOUS
  <2>2. PICK i \in Bad : \A j \in Bad : i <= j
    <3>1. Bad \subseteq Nat
      BY <1>1
    <3> HIDE DEF Bad
    <3> QED BY <2>1, <3>1, LeastNat
  <2>3. i \in 0..n /\ ~ Good(i)
    OBVIOUS
  <2>4. CASE i = 0
    <3>1. f[0] = 0 /\ c * 0 = 0
      BY <1>1, <1>4
    <3> QED BY <2>3, <2>4, <3>1
  <2>5. CASE i # 0
    <3>1. i \in 1..n /\ i - 1 \in 0..n /\ i \in Nat
      BY <1>1, <2>3, <2>5
    <3>2. Good(i - 1)
      <4>1. i - 1 \notin Bad
        BY <2>2, <3>1
      <4> QED BY <3>1, <4>1
    <3>3. f[i] = f[i - 1] + s[i] /\ F[i] = F[i - 1] + c * s[i] /\ s[i] \in Int
      BY <1>1, <1>4, <2>5, <3>1
    <3>4. c * (f[i - 1] + s[i]) = c * f[i - 1] + c * s[i]
      BY <3>2, <3>3
    <3> QED BY <2>3, <3>2, <3>3, <3>4
  <2> QED BY <2>4, <2>5
<1>6. Good(n)
  <2>1. n \in 0..n
    BY <1>1
  <2>2. n \notin Bad
    BY <1>5
  <2> QED BY <2>1, <2>2
<1> QED BY <1>2, <1>6 DEF n

\* Turned signs turn the sum, and the quotient.
LEMMA TotalTurns ==
    ASSUME NEW n \in Nat, NEW a, NEW b, \A i \in 1..n : a[i] \in Int /\ b[i] = -a[i]
    PROVE  /\ Total([i \in 1..n |-> a[i]]) \in Int
           /\ Total([i \in 1..n |-> b[i]]) = -Total([i \in 1..n |-> a[i]])
<1> DEFINE s == [i \in 1..n |-> a[i]]
           t == [i \in 1..n |-> b[i]]
<1>1. s \in Seq(Int) /\ t \in Seq(Int) /\ Len(s) = n /\ Len(t) = n /\ \A i \in DOMAIN s : t[i] = 0 - s[i]
  OBVIOUS
<1> HIDE DEF s, t
<1>2. Total(s) \in Int /\ Total(t) = Len(s) * 0 - Total(s)
  <2>1. 0 \in Int /\ Len(s) = Len(t)
    BY <1>1
  <2> QED BY <1>1, <2>1, TotalsAddUp, Zenon
<1>3. Total(t) = -Total(s)
  BY <1>1, <1>2
<1> QED BY <1>2, <1>3 DEF s, t

\* The code's division rounds towards zero, so it turns with the sign.
LEMMA QuotTurns ==
    ASSUME NEW a \in Int, NEW b \in Int, b # 0
    PROVE  Quot(a, b) \in Int /\ Quot(-a, b) = -Quot(a, b)
<1>1. Abs(a) \in Nat /\ Abs(b) \in Nat /\ Abs(b) > 0 /\ Abs(-a) = Abs(a)
  BY DEF Abs
<1>2. Abs(a) \div Abs(b) \in Int
  BY <1>1
<1>3. a = 0 => Abs(a) \div Abs(b) = 0
  <2>1. ASSUME NEW d \in Nat, d > 0 PROVE 0 \div d = 0
    BY <2>1
  <2> QED BY <1>1, <2>1 DEF Abs
<1> QED BY <1>1, <1>2, <1>3 DEF Quot

\* The spread of the places 0 to n - 1 about their mean.
LEMMA Spread ==
    ASSUME NEW n \in {16, 41, 61, 81}
    PROVE  LET xs == [i \in 1..n |-> i - 1]
               dx == [i \in 1..n |-> n * xs[i] - Total(xs)]
           IN /\ \A i \in 1..n : dx[i] \in Int
              /\ Total([i \in 1..n |-> dx[i] * xs[i]]) \in Int
              /\ Total([i \in 1..n |-> dx[i] * xs[i]]) >= 1000
<1> DEFINE xs == [i \in 1..n |-> i - 1]
           sum == Total(xs)
<1>1. xs \in Seq(Int) /\ Len(xs) = n /\ n \in Nat /\ \A i \in 1..n : xs[i] = i - 1
  OBVIOUS
<1>2. sum \in Int /\ 2 * sum = n * (n - 1)
  <2> DEFINE F == [k \in 0..n |-> k * (k - 1)]
  <2>1. F[0] = 0 /\ F[n] = n * (n - 1)
    BY <1>1
  <2>2. \A i \in 1..Len(xs) : F[i] = F[i - 1] + 2 * xs[i]
    <3> TAKE i \in 1..Len(xs)
    <3>1. i \in 1..n /\ i \in 0..n /\ i - 1 \in 0..n /\ i \in Int
      BY <1>1
    <3>2. i * (i - 1) = (i - 1) * ((i - 1) - 1) + 2 * (i - 1)
      BY <3>1
    <3>3. F[i] = i * (i - 1) /\ F[i - 1] = (i - 1) * ((i - 1) - 1) /\ xs[i] = i - 1
      BY <3>1
    <3> HIDE DEF F, xs
    <3> QED BY <3>2, <3>3
  <2> HIDE DEF F, xs
  <2>3. Total(xs) \in Int /\ 2 * Total(xs) = F[Len(xs)]
    <3>1. 2 \in Int
      OBVIOUS
    <3> QED BY <1>1, <2>1, <2>2, <3>1, TotalFollows, Zenon
  <2> QED BY <1>1, <2>1, <2>3
<1> HIDE DEF sum
<1> DEFINE dx == [i \in 1..n |-> n * xs[i] - sum]
           ds == [i \in 1..n |-> dx[i] * xs[i]]
<1>3. \A i \in 1..n : dx[i] = n * (i - 1) - sum /\ dx[i] \in Int /\ ds[i] = (n * (i - 1) - sum) * (i - 1) /\ ds[i] \in Int
  BY <1>1, <1>2
<1>4. ds \in Seq(Int) /\ Len(ds) = n
  BY <1>1, <1>3
<1>5. Total(ds) \in Int /\ 6 * Total(ds) = n * (n * (n - 1) * (2 * n - 1)) - 3 * (sum * (n * (n - 1)))
  <2> DEFINE F == [k \in 0..n |-> n * (k * (k - 1) * (2 * k - 1)) - 3 * (sum * (k * (k - 1)))]
  <2>1. F[0] = 0 /\ F[n] = n * (n * (n - 1) * (2 * n - 1)) - 3 * (sum * (n * (n - 1)))
    <3>1. 0 \in 0..n /\ n \in 0..n
      BY <1>1
    <3>2. n * (0 * (0 - 1) * (2 * 0 - 1)) - 3 * (sum * (0 * (0 - 1))) = 0
      BY <1>1, <1>2
    <3> QED BY <3>1, <3>2
  <2>2. \A i \in 1..Len(ds) : F[i] = F[i - 1] + 6 * ds[i]
    <3> TAKE i \in 1..Len(ds)
    <3>1. i \in 1..n /\ i \in 0..n /\ i - 1 \in 0..n /\ i \in Int
      BY <1>1, <1>4
    <3> DEFINE j == i - 1
    <3>2. j \in Int /\ i = j + 1
      BY <3>1
    <3>3. /\ F[i] = n * (i * (i - 1) * (2 * i - 1)) - 3 * (sum * (i * (i - 1)))
          /\ F[j] = n * (j * (j - 1) * (2 * j - 1)) - 3 * (sum * (j * (j - 1)))
          /\ ds[i] = (n * (i - 1) - sum) * (i - 1)
      BY <1>3, <3>1
    <3> HIDE DEF F, ds, j
    <3>4. i * (i - 1) * (2 * i - 1) = j * (j - 1) * (2 * j - 1) + 6 * (j * j) /\ i * (i - 1) = j * (j - 1) + 2 * j
      BY <3>2
    <3>5. n * (j * (j - 1) * (2 * j - 1) + 6 * (j * j)) = n * (j * (j - 1) * (2 * j - 1)) + 6 * (n * (j * j))
          /\ sum * (j * (j - 1) + 2 * j) = sum * (j * (j - 1)) + 2 * (sum * j)
      BY <1>1, <1>2, <3>2
    <3>6. ds[i] = n * (j * j) - sum * j
      BY <1>1, <1>2, <3>2, <3>3
    <3>7. F[i] = F[j] + 6 * ds[i]
      BY <1>1, <1>2, <3>2, <3>3, <3>4, <3>5, <3>6
    <3> QED BY <3>7 DEF j
  <2> HIDE DEF F, ds
  <2>3. Total(ds) \in Int /\ 6 * Total(ds) = F[Len(ds)]
    <3>1. 6 \in Int
      OBVIOUS
    <3> QED BY <1>4, <2>1, <2>2, <3>1, TotalFollows, Zenon
  <2> QED BY <1>4, <2>1, <2>3
<1> HIDE DEF ds
<1>6. Total(ds) >= 1000
  <2>1. CASE n = 16
    BY <1>2, <1>5, <2>1
  <2>2. CASE n = 41
    BY <1>2, <1>5, <2>2
  <2>3. CASE n = 61
    BY <1>2, <1>5, <2>3
  <2>4. CASE n = 81
    BY <1>2, <1>5, <2>4
  <2> QED BY <2>1, <2>2, <2>3, <2>4
<1> QED BY <1>3, <1>5, <1>6 DEF ds, sum

\* The windows through which the detectors fit a line.
Spans == {16, 41, 61, 81}

\* The slope of the line turns with the series,
LEMMA SlopeTurns ==
    ASSUME NEW ys \in Seq(Int), Len(ys) \in Spans, NEW m \in Int
    PROVE  Slope(ys) \in Int /\ Slope(Over(ys, m)) = -Slope(ys)
<1> DEFINE n == Len(ys)
           zs == Over(ys, m)
<1>1. /\ n \in {16, 41, 61, 81} /\ n \in Nat /\ Len(zs) = n
      /\ \A i \in 1..n : zs[i] = m - ys[i] /\ ys[i] \in Int
  BY OverIs DEF Spans
<1> HIDE DEF n, zs
<1> DEFINE xs == [i \in 1..n |-> i - 1]
           dx == [i \in 1..n |-> n * xs[i] - Total(xs)]
           den == Total([i \in 1..n |-> dx[i] * xs[i]])
           Num(s) == Total([i \in 1..n |-> dx[i] * (s[i] - s[1])])
<1>2. Len(xs) = n
  BY <1>1
<1>3. /\ \A i \in 1..n : dx[i] \in Int
      /\ den \in Int /\ den >= 1000
  <2>1. n \in {16, 41, 61, 81}
    BY <1>1
  <2> QED BY <2>1, Spread, ZenonT(60)
<1>4. \A s : Len(s) = n => Slope(s) = IF Abs(Num(s)) < 2000000 THEN Quot(1000 * Num(s), den)
                                                               ELSE Quot(Num(s), den \div 1000)
  BY <1>2 DEF Slope, SlopeAt
<1> HIDE DEF xs, dx, den
<1>5. Num(ys) \in Int /\ Num(zs) = -Num(ys)
  <2> DEFINE a == [i \in 1..n |-> dx[i] * (ys[i] - ys[1])]
             b == [i \in 1..n |-> dx[i] * (zs[i] - zs[1])]
  <2>1. \A i \in 1..n : a[i] \in Int /\ b[i] = -a[i]
    <3> TAKE i \in 1..n
    <3>1. 1 \in 1..n /\ dx[i] \in Int
      BY <1>1, <1>3
    <3>2. zs[i] - zs[1] = -(ys[i] - ys[1]) /\ ys[i] - ys[1] \in Int
      BY <1>1, <3>1
    <3>3. ASSUME NEW x \in Int, NEW y \in Int PROVE x * y \in Int /\ x * (-y) = -(x * y)
      BY <3>3
    <3>4. a[i] = dx[i] * (ys[i] - ys[1]) /\ b[i] = dx[i] * (zs[i] - zs[1])
      OBVIOUS
    <3> HIDE DEF a, b
    <3> QED BY <3>1, <3>2, <3>3, <3>4
  <2>2. a = [i \in 1..n |-> a[i]] /\ b = [i \in 1..n |-> b[i]]
    OBVIOUS
  <2>3. Num(ys) = Total(a) /\ Num(zs) = Total(b)
    OBVIOUS
  <2> HIDE DEF a, b, Num
  <2>4. /\ Total([i \in 1..n |-> a[i]]) \in Int
        /\ Total([i \in 1..n |-> b[i]]) = -Total([i \in 1..n |-> a[i]])
    <3>1. n \in Nat
      BY <1>1
    <3> QED BY <2>1, <3>1, TotalTurns
  <2>5. Total(a) \in Int /\ Total(b) = -Total(a)
    BY <2>2, <2>4, Zenon
  <2> QED BY <2>3, <2>5
<1>6. Slope(ys) = (IF Abs(Num(ys)) < 2000000 THEN Quot(1000 * Num(ys), den) ELSE Quot(Num(ys), den \div 1000))
      /\ Slope(zs) = (IF Abs(Num(zs)) < 2000000 THEN Quot(1000 * Num(zs), den) ELSE Quot(Num(zs), den \div 1000))
  <2>1. Len(ys) = n /\ Len(zs) = n
    BY <1>1 DEF n
  <2> HIDE DEF Num
  <2> QED BY <1>4, <2>1
<1> HIDE DEF Num
<1>7. /\ Quot(1000 * Num(ys), den) \in Int /\ Quot(-(1000 * Num(ys)), den) = -Quot(1000 * Num(ys), den)
      /\ Quot(Num(ys), den \div 1000) \in Int /\ Quot(-Num(ys), den \div 1000) = -Quot(Num(ys), den \div 1000)
  <2>1. den # 0 /\ den \div 1000 \in Int /\ den \div 1000 # 0 /\ 1000 * Num(ys) \in Int
    BY <1>3, <1>5
  <2>2. Quot(1000 * Num(ys), den) \in Int /\ Quot(-(1000 * Num(ys)), den) = -Quot(1000 * Num(ys), den)
    <3>1. den \in Int /\ den # 0 /\ 1000 * Num(ys) \in Int
      BY <1>3, <2>1
    <3> DEFINE x == 1000 * Num(ys)
    <3>2. x \in Int
      BY <3>1
    <3> HIDE DEF x
    <3>3. Quot(x, den) \in Int /\ Quot(-x, den) = -Quot(x, den)
      BY <3>1, <3>2, QuotTurns
    <3> QED BY <3>3 DEF x
  <2>3. /\ Quot(Num(ys), den \div 1000) \in Int
        /\ Quot(-Num(ys), den \div 1000) = -Quot(Num(ys), den \div 1000)
    <3> DEFINE x == Num(ys)
               y == den \div 1000
    <3>2. x \in Int /\ y \in Int /\ y # 0
      BY <1>5, <2>1
    <3> HIDE DEF x, y
    <3>3. Quot(x, y) \in Int /\ Quot(-x, y) = -Quot(x, y)
      BY <3>2, QuotTurns
    <3> QED BY <3>3 DEF x, y
  <2> QED BY <2>2, <2>3
<1>8. 1000 * Num(zs) = -(1000 * Num(ys)) /\ Abs(Num(zs)) = Abs(Num(ys))
  BY <1>5 DEF Abs
<1>9. Slope(ys) \in Int /\ Slope(zs) = -Slope(ys)
  BY <1>5, <1>6, <1>7, <1>8
<1> QED BY <1>9 DEF zs

\* and so do the distances from it.
LEMMA ResidualsTurn ==
    ASSUME NEW ys \in Seq(Int), Len(ys) \in Spans, NEW m \in Int
    PROVE  /\ Residuals(ys) \in Seq(Int) /\ Len(Residuals(ys)) = Len(ys) /\ Residuals(ys) # <<>>
           /\ Residuals(Over(ys, m)) = Over(Residuals(ys), 0)
<1> DEFINE n == Len(ys)
           zs == Over(ys, m)
<1>1. /\ n \in {16, 41, 61, 81} /\ n \in Nat /\ n # 0 /\ Len(zs) = n
      /\ \A i \in 1..n : zs[i] = m - ys[i] /\ ys[i] \in Int
  <2>1. n \in {16, 41, 61, 81} /\ n \in Nat /\ n # 0
    <3>1. n \in {16, 41, 61, 81}
      BY DEF Spans
    <3> HIDE DEF n
    <3> QED BY <3>1
  <2>2. Len(zs) = n /\ \A i \in 1..n : zs[i] = m - ys[i] /\ ys[i] \in Int
    BY OverIs
  <2> QED BY <2>1, <2>2
<1>2. Slope(ys) \in Int /\ Slope(zs) = -Slope(ys)
  BY SlopeTurns
<1> DEFINE Drift(s) == Total([i \in 1..n |-> s[i] - s[1]])
           Off(s) == [i \in 1..n |-> 100 * [k \in 1..n |-> s[k] - s[1]][i] - Quot(100 * Drift(s), n)
                                        - Quot(Slope(s) * (2 * i - n - 1), 20)]
<1>3. Residuals(ys) = Off(ys) /\ Residuals(zs) = Off(zs)
  BY <1>1 DEF Residuals
<1> HIDE DEF n, zs
<1>4. Drift(ys) \in Int /\ Drift(zs) = -Drift(ys)
  <2> DEFINE a == [i \in 1..n |-> ys[i] - ys[1]]
             b == [i \in 1..n |-> zs[i] - zs[1]]
  <2>1. \A i \in 1..n : a[i] \in Int /\ b[i] = -a[i]
    <3>1. 1 \in 1..n
      BY <1>1
    <3> QED BY <1>1, <3>1
  <2>2. a = [i \in 1..n |-> a[i]] /\ b = [i \in 1..n |-> b[i]]
    OBVIOUS
  <2>3. Drift(ys) = Total(a) /\ Drift(zs) = Total(b)
    OBVIOUS
  <2> HIDE DEF a, b, Drift
  <2>4. /\ Total([i \in 1..n |-> a[i]]) \in Int
        /\ Total([i \in 1..n |-> b[i]]) = -Total([i \in 1..n |-> a[i]])
    BY <1>1, <2>1, TotalTurns, ZenonT(30)
  <2>5. Total(a) \in Int /\ Total(b) = -Total(a)
    BY <2>2, <2>4, Zenon
  <2> QED BY <2>3, <2>5
<1> HIDE DEF Drift
<1>5. Quot(100 * Drift(ys), n) \in Int /\ Quot(100 * Drift(zs), n) = -Quot(100 * Drift(ys), n)
  <2>1. 100 * Drift(ys) \in Int /\ 100 * Drift(zs) = -(100 * Drift(ys)) /\ n \in Int
    BY <1>1, <1>4
  <2>2. Quot(100 * Drift(ys), n) \in Int /\ Quot(-(100 * Drift(ys)), n) = -Quot(100 * Drift(ys), n)
    BY <1>1, <2>1, QuotTurns
  <2> QED BY <2>1, <2>2
<1>6. \A i \in 1..n : Off(ys)[i] \in Int /\ Off(zs)[i] = 0 - Off(ys)[i]
  <2> TAKE i \in 1..n
  <2>1. ys[i] - ys[1] \in Int /\ zs[i] - zs[1] = -(ys[i] - ys[1])
    <3>1. 1 \in 1..n
      BY <1>1
    <3> QED BY <1>1, <3>1
  <2> DEFINE k == 2 * i - n - 1
  <2>2. k \in Int
    BY <1>1
  <2>3. Quot(Slope(ys) * k, 20) \in Int /\ Quot(Slope(zs) * k, 20) = -Quot(Slope(ys) * k, 20)
    <3> HIDE DEF k
    <3>1. Slope(ys) * k \in Int /\ Slope(zs) * k = -(Slope(ys) * k)
      BY <1>2, <2>2
    <3>2. Quot(Slope(ys) * k, 20) \in Int /\ Quot(-(Slope(ys) * k), 20) = -Quot(Slope(ys) * k, 20)
      <4>1. \A x \in Int : Quot(x, 20) \in Int /\ Quot(-x, 20) = -Quot(x, 20)
        <5>1. 20 \in Int /\ 20 # 0
          OBVIOUS
        <5> QED BY <5>1, QuotTurns, Zenon
      <4> QED BY <3>1, <4>1
    <3> QED BY <3>1, <3>2
  <2>4. \A s : Off(s)[i] = 100 * (s[i] - s[1]) - Quot(100 * Drift(s), n) - Quot(Slope(s) * k, 20)
    OBVIOUS
  <2> DEFINE p == ys[i] - ys[1]
             q == Quot(100 * Drift(ys), n)
             r == Quot(Slope(ys) * k, 20)
  <2>5. Off(ys)[i] = 100 * p - q - r /\ Off(zs)[i] = 100 * (-p) - (-q) - (-r)
    <3> HIDE DEF Off, k
    <3> QED BY <1>5, <2>1, <2>3, <2>4
  <2>6. p \in Int /\ q \in Int /\ r \in Int
    BY <1>5, <2>1, <2>3
  <2> HIDE DEF Off, k, p, q, r
  <2> QED BY <2>5, <2>6
<1>7. Off(ys) \in Seq(Int) /\ Len(Off(ys)) = n /\ Off(ys) # <<>> /\ DOMAIN Off(ys) = 1..n /\ DOMAIN Off(zs) = 1..n
  <2>1. Off(ys) = [i \in 1..n |-> Off(ys)[i]] /\ DOMAIN Off(ys) = 1..n /\ DOMAIN Off(zs) = 1..n
    OBVIOUS
  <2> HIDE DEF Off
  <2>2. Off(ys) \in Seq(Int) /\ Len(Off(ys)) = n
    BY <1>1, <1>6, <2>1, SMTT(30)
  <2> QED BY <1>1, <2>1, <2>2
<1>8. Off(zs) = Over(Off(ys), 0)
  <2>1. Off(zs) = [i \in 1..n |-> Off(zs)[i]]
    OBVIOUS
  <2> HIDE DEF Off
  <2> QED BY <1>6, <1>7, <2>1 DEF Over
<1> HIDE DEF Off
<1> QED BY <1>3, <1>7, <1>8 DEF n, zs

\* The halves of an overturned series.
LEMMA HalvesOver ==
    ASSUME NEW s \in Seq(Int), Len(s) > 1, NEW m \in Int
    PROVE  /\ FirstHalf(Over(s, m)) = Over(FirstHalf(s), m) /\ FirstHalf(s) \in Seq(Int)
           /\ FirstHalf(s) # <<>> /\ Len(FirstHalf(s)) = Len(s) \div 2
           /\ SecondHalf(Over(s, m)) = Over(SecondHalf(s), m) /\ SecondHalf(s) \in Seq(Int)
           /\ SecondHalf(s) # <<>> /\ Len(SecondHalf(s)) = Len(s) - Len(s) \div 2
<1> DEFINE n == Len(s)
           k == n \div 2
<1>1. n \in Int /\ k \in Int /\ 1 <= k /\ k <= n /\ 1 <= k + 1 /\ k + 1 <= n /\ k + 1 \in Int /\ 1 \in Int
      /\ n - (k + 1) + 1 = n - k /\ k - 1 + 1 = k
  OBVIOUS
<1>2. Len(Over(s, m)) = n
  BY OverIs
<1>3. /\ FirstHalf(s) = SubSeq(s, 1, k) /\ SecondHalf(s) = SubSeq(s, k + 1, n)
      /\ FirstHalf(Over(s, m)) = SubSeq(Over(s, m), 1, k)
      /\ SecondHalf(Over(s, m)) = SubSeq(Over(s, m), k + 1, n)
  BY <1>2 DEF FirstHalf, SecondHalf
<1> HIDE DEF n, k
<1>4. ASSUME NEW a \in Int, NEW b \in Int, 1 <= a, a <= b, b <= n
      PROVE  /\ SubSeq(Over(s, m), a, b) = Over(SubSeq(s, a, b), m)
             /\ SubSeq(s, a, b) \in Seq(Int) /\ SubSeq(s, a, b) # <<>>
             /\ Len(SubSeq(s, a, b)) = b - a + 1
  BY <1>4, PiecesOver DEF n
<1>5. /\ SubSeq(Over(s, m), 1, k) = Over(SubSeq(s, 1, k), m)
      /\ SubSeq(s, 1, k) \in Seq(Int) /\ SubSeq(s, 1, k) # <<>>
      /\ Len(SubSeq(s, 1, k)) = k - 1 + 1
  <2>1. 1 <= 1
    OBVIOUS
  <2> QED BY <1>1, <1>4, <2>1, Zenon
<1>6. /\ SubSeq(Over(s, m), k + 1, n) = Over(SubSeq(s, k + 1, n), m)
      /\ SubSeq(s, k + 1, n) \in Seq(Int) /\ SubSeq(s, k + 1, n) # <<>>
      /\ Len(SubSeq(s, k + 1, n)) = n - (k + 1) + 1
  <2>1. n <= n
    BY <1>1
  <2> QED BY <1>1, <1>4, <2>1, Zenon
<1>7. Len(SubSeq(s, 1, k)) = k /\ Len(SubSeq(s, k + 1, n)) = n - k
  BY <1>1, <1>5, <1>6
<1> QED BY <1>3, <1>5, <1>6, <1>7 DEF n, k

\* The flags, the pennants and the rectangles.
LEMMA RunTwins ==
    ASSUME NEW w, NEW u, NEW m, NEW n, Opposite(w, u, m, n)
    PROVE  /\ BearishFlag(w) <=> BullishFlag(u)
           /\ BearishPennant(w) <=> BullishPennant(u)
           /\ RectangleContinuation(w, "SHORT") <=> RectangleContinuation(u, "LONG")
<1>1. /\ n \in Nat /\ n > 200 /\ m \in Int /\ w.tr \in Int /\ u.tr = w.tr
  BY DEF Opposite, Market
<1>2. \A k \in 0..60 : k \in 0..(n - 1)
  BY <1>1
<1>3. \A k \in 0..60 :
           /\ LastOf(u.h, k) = Over(LastOf(w.l, k), m) /\ LastOf(u.l, k) = Over(LastOf(w.h, k), m)
           /\ LastOf(u.c, k) = Over(LastOf(w.c, k), m)
           /\ LastOf(w.h, k) \in Seq(Int) /\ LastOf(w.h, k) # <<>> /\ Len(LastOf(w.h, k)) = k + 1
           /\ LastOf(w.l, k) \in Seq(Int) /\ LastOf(w.l, k) # <<>> /\ Len(LastOf(w.l, k)) = k + 1
           /\ LastOf(w.c, k) \in Seq(Int) /\ LastOf(w.c, k) # <<>> /\ Len(LastOf(w.c, k)) = k + 1
  BY <1>2, OppositeWindows, ZenonT(30)
<1>4. 30 \in 0..60 /\ 40 \in 0..60
  OBVIOUS
<1>5. BearishFlag(w) <=> BullishFlag(u)
  <2> DEFINE c == LastOf(w.c, 30)
             pole == FirstHalf(c)
             flag == SecondHalf(c)
             d == LastOf(u.c, 30)
             top == FirstHalf(d)
             back == SecondHalf(d)
  <2>1. d = Over(c, m) /\ c \in Seq(Int) /\ Len(c) = 30 + 1
    BY <1>3, <1>4, Zenon
  <2> HIDE DEF c, d
  <2>2. Len(c) = 31 /\ Len(c) > 1 /\ 31 \div 2 = 15
    BY <2>1
  <2>3. /\ top = Over(pole, m) /\ pole \in Seq(Int) /\ pole # <<>> /\ Len(pole) = 15
        /\ back = Over(flag, m) /\ flag \in Seq(Int) /\ flag # <<>> /\ Len(flag) = 16
    <3>1. /\ FirstHalf(Over(c, m)) = Over(FirstHalf(c), m) /\ FirstHalf(c) \in Seq(Int)
          /\ FirstHalf(c) # <<>> /\ Len(FirstHalf(c)) = Len(c) \div 2
          /\ SecondHalf(Over(c, m)) = Over(SecondHalf(c), m) /\ SecondHalf(c) \in Seq(Int)
          /\ SecondHalf(c) # <<>> /\ Len(SecondHalf(c)) = Len(c) - Len(c) \div 2
      BY <1>1, <2>1, <2>2, HalvesOver, Zenon
    <3>2. Len(FirstHalf(c)) = 15 /\ Len(SecondHalf(c)) = 16
      BY <2>2, <3>1
    <3> QED BY <2>1, <3>1, <3>2, Zenon
  <2> HIDE DEF pole, flag, top, back
  <2>4. /\ Top(back) = m - Bottom(flag) /\ Bottom(back) = m - Top(flag) /\ Top(flag) \in Int /\ Bottom(flag) \in Int
        /\ Top(top) = m - Bottom(pole) /\ Bottom(top) = m - Top(pole) /\ Top(pole) \in Int /\ Bottom(pole) \in Int
    BY <1>1, <2>3, ExtremesOver, TopIs, BottomIs
  <2>5. Slope(flag) \in Int /\ Slope(back) = -Slope(flag)
    <3>1. Len(flag) \in Spans
      BY <2>3 DEF Spans
    <3> QED BY <1>1, <2>3, <3>1, SlopeTurns
  <2>6. /\ Now(pole) \in Int /\ pole[1] \in Int
        /\ Now(top) = m - Now(pole) /\ top[1] = m - pole[1]
    <3>1. /\ \A i \in 1..Len(pole) : top[i] = m - pole[i] /\ pole[i] \in Int
          /\ Len(top) = Len(pole)
      BY <1>1, <2>3, EntriesOver, OverIs
    <3>2. 1 \in 1..Len(pole) /\ Len(pole) \in 1..Len(pole)
      BY <2>3
    <3> QED BY <3>1, <3>2 DEF Now
  <2>7. BearishFlag(w) <=> /\ w.tr > 0 /\ Atr(w, 50, pole[1] - Now(pole)) /\ Slope(flag) >= 0
                           /\ 2 * (Top(flag) - Bottom(flag)) <= Top(pole) - Bottom(pole)
    BY DEF BearishFlag, pole, flag, c
  <2>8. BullishFlag(u) <=> /\ u.tr > 0 /\ Atr(u, 50, Now(top) - top[1]) /\ Slope(back) <= 0
                           /\ 2 * (Top(back) - Bottom(back)) <= Top(top) - Bottom(top)
    BY DEF BullishFlag, top, back, d
  <2>9. Atr(w, 50, pole[1] - Now(pole)) <=> Atr(u, 50, Now(top) - top[1])
    BY <1>1, <2>6 DEF Atr
  <2> QED BY <1>1, <2>4, <2>5, <2>7, <2>8, <2>9
<1>6. Narrowing(w) <=> Narrowing(u)
  <2>1. ASSUME NEW s \in Seq(Int), Len(s) = 31
        PROVE  Slope(SecondHalf(s)) \in Int /\ Slope(SecondHalf(Over(s, m))) = -Slope(SecondHalf(s))
    <3>1. Len(s) > 1 /\ Len(s) - Len(s) \div 2 = 16
      BY <2>1
    <3>2. SecondHalf(Over(s, m)) = Over(SecondHalf(s), m) /\ SecondHalf(s) \in Seq(Int)
          /\ Len(SecondHalf(s)) = Len(s) - Len(s) \div 2
      BY <1>1, <2>1, <3>1, HalvesOver, Zenon
    <3>3. Len(SecondHalf(s)) \in Spans
      BY <3>1, <3>2 DEF Spans
    <3> QED BY <1>1, <3>2, <3>3, SlopeTurns
  <2>2. /\ LastOf(u.h, 30) = Over(LastOf(w.l, 30), m) /\ LastOf(u.l, 30) = Over(LastOf(w.h, 30), m)
        /\ LastOf(w.h, 30) \in Seq(Int) /\ Len(LastOf(w.h, 30)) = 30 + 1
        /\ LastOf(w.l, 30) \in Seq(Int) /\ Len(LastOf(w.l, 30)) = 30 + 1
    BY <1>3, <1>4, Zenon
  <2>3. Len(LastOf(w.h, 30)) = 31 /\ Len(LastOf(w.l, 30)) = 31
    BY <2>2
  <2>4. /\ Slope(SecondHalf(LastOf(w.h, 30))) \in Int /\ Slope(SecondHalf(LastOf(w.l, 30))) \in Int
        /\ Slope(SecondHalf(LastOf(u.h, 30))) = -Slope(SecondHalf(LastOf(w.l, 30)))
        /\ Slope(SecondHalf(LastOf(u.l, 30))) = -Slope(SecondHalf(LastOf(w.h, 30)))
    BY <2>1, <2>2, <2>3
  <2> QED BY <2>4 DEF Narrowing
<1>7. BearishPennant(w) <=> BullishPennant(u)
  <2>1. \A k \in {15, 30} : Ago(w.c, k) \in Int /\ Ago(u.c, k) = m - Ago(w.c, k)
    BY <1>2, OppositeAgo
  <2> QED BY <1>1, <1>6, <2>1 DEF BearishPennant, BullishPennant, Atr
<1>8. RectangleContinuation(w, "SHORT") <=> RectangleContinuation(u, "LONG")
  <2>1. \A k \in {41, 60} : Ago(w.c, k) \in Int /\ Ago(u.c, k) = m - Ago(w.c, k)
    BY <1>2, OppositeAgo
  <2>2. /\ LastOf(u.h, 40) = Over(LastOf(w.l, 40), m) /\ LastOf(u.l, 40) = Over(LastOf(w.h, 40), m)
        /\ LastOf(w.h, 40) \in Seq(Int) /\ LastOf(w.h, 40) # <<>> /\ Len(LastOf(w.h, 40)) = 40 + 1
        /\ LastOf(w.l, 40) \in Seq(Int) /\ LastOf(w.l, 40) # <<>> /\ Len(LastOf(w.l, 40)) = 40 + 1
    BY <1>3, <1>4, Zenon
  <2>3. /\ Top(LastOf(u.h, 40)) = m - Bottom(LastOf(w.l, 40)) /\ Bottom(LastOf(w.l, 40)) \in Int
        /\ Bottom(LastOf(u.l, 40)) = m - Top(LastOf(w.h, 40)) /\ Top(LastOf(w.h, 40)) \in Int
    BY <1>1, <2>2, ExtremesOver, TopIs, BottomIs
  <2>4. /\ Slope(LastOf(w.h, 40)) \in Int /\ Slope(LastOf(u.l, 40)) = -Slope(LastOf(w.h, 40))
        /\ Slope(LastOf(w.l, 40)) \in Int /\ Slope(LastOf(u.h, 40)) = -Slope(LastOf(w.l, 40))
    <3>1. Len(LastOf(w.h, 40)) \in Spans /\ Len(LastOf(w.l, 40)) \in Spans
      BY <2>2 DEF Spans
    <3> QED BY <1>1, <2>2, <3>1, SlopeTurns
  <2> QED BY <1>1, <2>1, <2>3, <2>4 DEF RectangleContinuation, Atr, Abs
<1> QED BY <1>5, <1>7, <1>8

\* What makes a channel of a series makes one of it upside down.
LEMMA ChannelsOver ==
    ASSUME NEW c \in Seq(Int), Len(c) \in Spans, NEW m \in Int
    PROVE  /\ Channel(Over(c, m)) <=> Channel(c)
           /\ RegressionChannel(Over(c, m)) <=> RegressionChannel(c)
<1> DEFINE n == Len(c)
           d == Over(c, m)
           r == Residuals(c)
           q == Residuals(d)
<1>1. n \in Nat /\ n # 0 /\ Len(d) = n /\ c # <<>>
  <2>1. n \in {16, 41, 61, 81}
    BY DEF Spans
  <2>2. Len(d) = n
    BY OverIs
  <2> HIDE DEF n, d
  <2>3. n \in Nat /\ n # 0
    BY <2>1
  <2>4. c # <<>>
    BY <2>3 DEF n
  <2> QED BY <2>2, <2>3, <2>4
<1>2. Slope(c) \in Int /\ Slope(d) = -Slope(c)
  BY SlopeTurns
<1>3. r \in Seq(Int) /\ Len(r) = n /\ r # <<>> /\ q = Over(r, 0)
  BY ResidualsTurn
<1>4. /\ Top(d) = m - Bottom(c) /\ Bottom(d) = m - Top(c) /\ Top(c) \in Int /\ Bottom(c) \in Int
  BY <1>1, ExtremesOver, TopIs, BottomIs
<1> HIDE DEF n, d, r, q
<1>5. /\ Top(q) = -Bottom(r) /\ Bottom(q) = -Top(r) /\ Top(r) \in Int /\ Bottom(r) \in Int
  <2>1. Top(r) \in Int /\ Bottom(r) \in Int
    BY <1>3, TopIs, BottomIs
  <2>2. 0 \in Int
    OBVIOUS
  <2>3. Top(q) = 0 - Bottom(r) /\ Bottom(q) = 0 - Top(r)
    BY <1>3, <2>2, ExtremesOver, Zenon
  <2> QED BY <2>1, <2>3
<1>6. Abs(Slope(d)) = Abs(Slope(c)) /\ Top(d) - Bottom(d) = Top(c) - Bottom(c) /\ Top(q) - Bottom(q) = Top(r) - Bottom(r)
  BY <1>2, <1>4, <1>5 DEF Abs
<1>7. Channel(d) <=> Channel(c)
  <2>1. Channel(c) <=> /\ 2 * Top(r) > Top(c) - Bottom(c) /\ 2 * Bottom(r) < -(Top(c) - Bottom(c))
                       /\ Abs(Slope(c)) * n >= 3 * (Top(r) - Bottom(r))
    BY DEF Channel, r, n
  <2>2. Channel(d) <=> /\ 2 * Top(q) > Top(d) - Bottom(d) /\ 2 * Bottom(q) < -(Top(d) - Bottom(d))
                       /\ Abs(Slope(d)) * n >= 3 * (Top(q) - Bottom(q))
    BY <1>1 DEF Channel, q
  <2>3. /\ 2 * Top(q) > Top(c) - Bottom(c) <=> 2 * Bottom(r) < -(Top(c) - Bottom(c))
        /\ 2 * Bottom(q) < -(Top(c) - Bottom(c)) <=> 2 * Top(r) > Top(c) - Bottom(c)
    BY <1>4, <1>5, SMTT(30)
  <2> QED BY <1>6, <2>1, <2>2, <2>3
<1>8. RegressionChannel(d) <=> RegressionChannel(c)
  <2> DEFINE Tenth(s) == [i \in 1..n |-> Quot(s[i], 10)]
             Spot(s) == [i \in 1..n |-> Tenth(s)[i] * Tenth(s)[i]]
             Judge(s, sigma2, scale, slope) ==
                 /\ scale > 0 /\ 10000 * sigma2 >= scale * scale
                 /\ Quot(slope * n, 100) * Quot(slope * n, 100) >= 4 * sigma2
                 /\ 10 * Cardinality({i \in 1..n : Tenth(s)[i] * Tenth(s)[i] < 4 * sigma2}) >= 9 * n
  <2>1. \A x \in Int : Quot(x, 10) \in Int /\ Quot(-x, 10) = -Quot(x, 10)
                       /\ Quot(x, 100) \in Int /\ Quot(-x, 100) = -Quot(x, 100)
    <3>1. 10 \in Int /\ 10 # 0 /\ 100 \in Int /\ 100 # 0
      OBVIOUS
    <3> QED BY <3>1, QuotTurns, Zenon
  <2>2. \A i \in 1..n : Tenth(q)[i] * Tenth(q)[i] = Tenth(r)[i] * Tenth(r)[i]
    <3> TAKE i \in 1..n
    <3>1. r[i] \in Int /\ q[i] = -r[i]
      <4>1. 0 \in Int
        OBVIOUS
      <4>2. Over(r, 0)[i] = 0 - r[i] /\ r[i] \in Int
        BY <1>3, <4>1, EntriesOver
      <4> QED BY <1>3, <4>2
    <3>2. Tenth(q)[i] = Quot(q[i], 10) /\ Tenth(r)[i] = Quot(r[i], 10)
      OBVIOUS
    <3> HIDE DEF Tenth
    <3>3. Tenth(q)[i] = -Tenth(r)[i] /\ Tenth(r)[i] \in Int
      BY <2>1, <3>1, <3>2, ZenonT(30)
    <3> QED BY <3>3
  <2>3. Spot(q) = Spot(r)
    BY <2>2
  <2>4. RegressionChannel(c) <=> Judge(r, Total(Spot(r)) \div n, Top(c) - Bottom(c), Slope(c))
    BY DEF RegressionChannel, r, n
  <2>5. RegressionChannel(d) <=> Judge(q, Total(Spot(q)) \div n, Top(d) - Bottom(d), Slope(d))
    BY <1>1 DEF RegressionChannel, q
  <2>6. Quot(Slope(d) * n, 100) * Quot(Slope(d) * n, 100) = Quot(Slope(c) * n, 100) * Quot(Slope(c) * n, 100)
    <3>1. Slope(c) * n \in Int /\ Slope(d) * n = -(Slope(c) * n)
      BY <1>1, <1>2
    <3>2. Quot(Slope(d) * n, 100) = -Quot(Slope(c) * n, 100) /\ Quot(Slope(c) * n, 100) \in Int
      BY <2>1, <3>1
    <3> QED BY <3>2
  <2>7. \A x : {i \in 1..n : Tenth(q)[i] * Tenth(q)[i] < x} = {i \in 1..n : Tenth(r)[i] * Tenth(r)[i] < x}
    <3> HIDE DEF Tenth
    <3> QED BY <2>2
  <2> DEFINE v == Total(Spot(r)) \div n
             k == Top(c) - Bottom(c)
  <2> HIDE DEF v, k, Spot, Judge
  <2>8. RegressionChannel(d) <=> Judge(q, v, k, Slope(d))
    <3>1. Total(Spot(q)) \div n = v /\ Top(d) - Bottom(d) = k
      BY <1>6, <2>3 DEF v, k
    <3> QED BY <2>5, <3>1
  <2>9. RegressionChannel(c) <=> Judge(r, v, k, Slope(c))
    BY <2>4 DEF v, k
  <2> HIDE DEF Tenth
  <2>10. Judge(q, v, k, Slope(d)) <=> Judge(r, v, k, Slope(c))
    <3>1. {i \in 1..n : Tenth(q)[i] * Tenth(q)[i] < 4 * v} = {i \in 1..n : Tenth(r)[i] * Tenth(r)[i] < 4 * v}
      BY <2>7
    <3> DEFINE a == Quot(Slope(d) * n, 100) * Quot(Slope(d) * n, 100)
               b == Quot(Slope(c) * n, 100) * Quot(Slope(c) * n, 100)
               x == {i \in 1..n : Tenth(q)[i] * Tenth(q)[i] < 4 * v}
               y == {i \in 1..n : Tenth(r)[i] * Tenth(r)[i] < 4 * v}
    <3>2. Judge(q, v, k, Slope(d)) <=>
              k > 0 /\ 10000 * v >= k * k /\ a >= 4 * v /\ 10 * Cardinality(x) >= 9 * n
      BY DEF Judge
    <3>3. Judge(r, v, k, Slope(c)) <=>
              k > 0 /\ 10000 * v >= k * k /\ b >= 4 * v /\ 10 * Cardinality(y) >= 9 * n
      BY DEF Judge
    <3>4. a = b /\ x = y
      BY <2>6, <3>1
    <3> HIDE DEF a, b, x, y
    <3> QED BY <3>2, <3>3, <3>4
  <2> QED BY <2>8, <2>9, <2>10
<1> QED BY <1>7, <1>8 DEF d

\* The channels.
LEMMA ChannelTwins ==
    ASSUME NEW w, NEW u, NEW m, NEW n, Opposite(w, u, m, n)
    PROVE  /\ ChannelDown(w) <=> ChannelUp(u)
           /\ RegressionChannelDown(w) <=> RegressionChannelUp(u)
<1>1. n \in Nat /\ n > 200 /\ m \in Int
  BY DEF Opposite
<1> DEFINE c == LastOf(w.c, 60)
           d == LastOf(u.c, 60)
<1>2. d = Over(c, m) /\ c \in Seq(Int) /\ Len(c) = 60 + 1
  <2>1. \A k \in 0..(n - 1) : /\ LastOf(u.c, k) = Over(LastOf(w.c, k), m)
                              /\ LastOf(w.c, k) \in Seq(Int) /\ Len(LastOf(w.c, k)) = k + 1
    BY OppositeWindows
  <2>2. 60 \in 0..(n - 1)
    BY <1>1
  <2> QED BY <2>1, <2>2, Zenon
<1>3. Len(c) \in Spans
  <2> HIDE DEF c
  <2> QED BY <1>2 DEF Spans
<1>4. /\ ChannelDown(w) <=> Slope(c) < 0 /\ Channel(c)
      /\ ChannelUp(u) <=> Slope(d) > 0 /\ Channel(d)
      /\ RegressionChannelDown(w) <=> Slope(c) < 0 /\ RegressionChannel(c)
      /\ RegressionChannelUp(u) <=> Slope(d) > 0 /\ RegressionChannel(d)
  BY DEF ChannelDown, ChannelUp, RegressionChannelDown, RegressionChannelUp
<1> HIDE DEF c, d
<1>5. Slope(c) \in Int /\ Slope(d) = -Slope(c)
  BY <1>1, <1>2, <1>3, SlopeTurns
<1>6. (Channel(d) <=> Channel(c)) /\ (RegressionChannel(d) <=> RegressionChannel(c))
  BY <1>1, <1>2, <1>3, ChannelsOver
<1> QED BY <1>4, <1>5, <1>6

\* A sum of what is not negative is at least its first term.
LEMMA TotalAtLeast ==
    ASSUME NEW s \in Seq(Int), s # <<>>, \A i \in 1..Len(s) : s[i] >= 0
    PROVE  Total(s) \in Int /\ Total(s) >= s[1]
<1> DEFINE n == Len(s)
<1>1. n \in Nat /\ n > 0 /\ \A i \in 1..n : s[i] \in Int /\ s[i] >= 0
  OBVIOUS
<1>2. PICK f : SumsTo(f, s, n) /\ Total(s) = f[n]
  BY <1>1, TotalIs
<1> HIDE DEF n
<1>3. \A i \in 0..n : f[i] = IF i = 0 THEN 0 ELSE f[i - 1] + s[i]
  BY <1>2 DEF SumsTo
<1> DEFINE Good(i) == f[i] \in Int /\ f[i] >= s[1]
           Bad == {i \in 1..n : ~ Good(i)}
<1>4. Bad = {}
  <2>1. SUFFICES ASSUME Bad # {} PROVE FALSE
    OBVIOUS
  <2>2. PICK i \in Bad : \A j \in Bad : i <= j
    <3>1. Bad \subseteq Nat
      BY <1>1
    <3> HIDE DEF Bad
    <3> QED BY <2>1, <3>1, LeastNat
  <2>3. i \in 1..n /\ ~ Good(i)
    OBVIOUS
  <2>4. CASE i = 1
    <3>1. 0 \in 0..n /\ 1 \in 0..n /\ 1 \in 1..n
      BY <1>1
    <3>2. f[0] = 0 /\ f[1] = f[0] + s[1] /\ s[1] \in Int
      BY <1>1, <1>3, <3>1
    <3> QED BY <2>3, <2>4, <3>2
  <2>5. CASE i # 1
    <3>1. i - 1 \in 1..n /\ i \in 0..n /\ i # 0 /\ 1 \in 1..n
      BY <1>1, <2>3, <2>5
    <3>2. Good(i - 1)
      <4>1. i - 1 \notin Bad
        BY <2>2, <3>1
      <4> QED BY <3>1, <4>1
    <3>3. f[i] = f[i - 1] + s[i] /\ s[i] \in Int /\ s[i] >= 0 /\ s[1] \in Int
      BY <1>1, <1>3, <2>3, <3>1
    <3> QED BY <2>3, <3>2, <3>3
  <2> QED BY <2>4, <2>5
<1>5. Good(n)
  <2>1. n \in 1..n
    BY <1>1
  <2>2. n \notin Bad
    BY <1>4
  <2> QED BY <2>1, <2>2
<1> QED BY <1>2, <1>5

\* The variance stays.
LEMMA VarianceTurns ==
    ASSUME NEW ys \in Seq(Int), ys # <<>>, NEW m \in Int
    PROVE  Variance(Over(ys, m)) = Variance(ys)
<1> DEFINE n == Len(ys)
           zs == Over(ys, m)
           Off(s) == [i \in DOMAIN s |-> s[i] - s[1]]
           Sq(s) == [i \in DOMAIN s |-> Off(s)[i] * Off(s)[i]]
<1>1. /\ n \in Nat /\ n # 0 /\ Len(zs) = n /\ DOMAIN zs = 1..n /\ DOMAIN ys = 1..n
      /\ \A i \in 1..n : zs[i] = m - ys[i] /\ ys[i] \in Int
  BY OverIs
<1>2. \A s : Variance(s) = (100 * (Total(Sq(s)) - (Total(Off(s)) * Total(Off(s))) \div Len(s))) \div Len(s)
  BY DEF Variance
<1> HIDE DEF n, zs
<1>3. \A i \in 1..n : Off(ys)[i] \in Int /\ Off(zs)[i] = -Off(ys)[i]
  <2>1. 1 \in 1..n
    BY <1>1
  <2> QED BY <1>1, <2>1
<1>4. /\ Off(ys) = [i \in 1..n |-> Off(ys)[i]] /\ Off(zs) = [i \in 1..n |-> Off(zs)[i]]
  BY <1>1
<1>5. Sq(zs) = Sq(ys)
  <2>1. Sq(zs) = [i \in 1..n |-> Off(zs)[i] * Off(zs)[i]] /\ Sq(ys) = [i \in 1..n |-> Off(ys)[i] * Off(ys)[i]]
    BY <1>1
  <2> HIDE DEF Off, Sq
  <2>2. \A i \in 1..n : Off(zs)[i] * Off(zs)[i] = Off(ys)[i] * Off(ys)[i]
    <3> TAKE i \in 1..n
    <3> DEFINE x == Off(ys)[i]
               y == Off(zs)[i]
    <3>1. x \in Int /\ y = -x
      BY <1>3
    <3> HIDE DEF x, y
    <3>2. y * y = x * x
      BY <3>1
    <3> QED BY <3>2 DEF x, y
  <2> QED BY <2>1, <2>2
<1> HIDE DEF Off, Sq
<1>6. Total(Off(zs)) * Total(Off(zs)) = Total(Off(ys)) * Total(Off(ys))
  <2>1. /\ Total([i \in 1..n |-> Off(ys)[i]]) \in Int
        /\ Total([i \in 1..n |-> Off(zs)[i]]) = -Total([i \in 1..n |-> Off(ys)[i]])
    <3>1. n \in Nat
      BY <1>1
    <3> QED BY <1>3, <3>1, TotalTurns
  <2> DEFINE x == Total(Off(ys))
             y == Total(Off(zs))
  <2>2. x \in Int /\ y = -x
    BY <1>4, <2>1, Zenon
  <2> HIDE DEF x, y
  <2>3. y * y = x * x
    BY <2>2
  <2> QED BY <2>3 DEF x, y
<1>7. Len(zs) = Len(ys)
  BY <1>1 DEF n
<1> DEFINE V(sq, off, k) == (100 * (sq - off \div k)) \div k
<1>8. \A s : Variance(s) = V(Total(Sq(s)), Total(Off(s)) * Total(Off(s)), Len(s))
  BY <1>2
<1> HIDE DEF V
<1>9. Variance(zs) = Variance(ys)
  BY <1>5, <1>6, <1>7, <1>8, Zenon
<1> QED BY <1>9 DEF zs

\* The parabola turns about the same apex and fits as well.
LEMMA ParabolaTurns ==
    ASSUME NEW ys \in Seq(Int), Len(ys) \in Spans, Len(ys) > 61, NEW m \in Int
    PROVE  /\ Parabola(ys).curve \in Int /\ Parabola(Over(ys, m)).curve = -Parabola(ys).curve
           /\ Parabola(Over(ys, m)).apex = Parabola(ys).apex
           /\ Parabola(Over(ys, m)).fit = Parabola(ys).fit
<1> DEFINE n == Len(ys)
           zs == Over(ys, m)
           p2 == [i \in 1..n |-> 6 * (i - 1) * (i - 1) - 6 * (n - 1) * (i - 1) + (n - 1) * ((n - 1) - 1)]
           Num(s) == Total([i \in 1..n |-> (s[i] - s[1]) * p2[i]])
           den == Total([i \in 1..n |-> (p2[i] * p2[i]) \div 1000]) \div 6000
           Curve(s) == Quot(Num(s), den)
           Bent(s) == Quot(Curve(s) * (n * n - 2), 10000)
           Part(a) == ((a \div 100) * ((n * n - 1) \div 12)) \div 100
           Explained(s) == Part(Slope(s) * Slope(s)) + (Bent(s) * Bent(s)) \div 18000
           Apex(s) == IF Curve(s) = 0 THEN -1 ELSE (n - 1) \div 2 - Quot(500 * Slope(s), Curve(s))
           Fit(s) == (100 * Explained(s)) \div (Variance(s) + 1)
<1>1. n \in Nat /\ Len(zs) = n /\ \A i \in 1..n : zs[i] = m - ys[i] /\ ys[i] \in Int
  <2>1. DOMAIN ys = 1..n /\ n \in Nat
    OBVIOUS
  <2> QED BY <2>1, OverIs
<1>20. n = 81 /\ ys # <<>>
  <2>1. n \in {16, 41, 61, 81} /\ n > 61
    BY DEF Spans
  <2> HIDE DEF n, zs
  <2>2. n = 81
    BY <2>1
  <2>3. ys # <<>>
    BY <2>1 DEF n
  <2> QED BY <2>2, <2>3
<1>2. /\ Parabola(ys) = [curve |-> Curve(ys), apex |-> Apex(ys), fit |-> Fit(ys)]
      /\ Parabola(zs) = [curve |-> Curve(zs), apex |-> Apex(zs), fit |-> Fit(zs)]
  BY <1>1, SMTT(30) DEF Parabola
<1> HIDE DEF n, zs
<1>3. \A i \in 1..n : p2[i] \in Int
  BY <1>1
<1>4. p2[1] = 6320 /\ 1 \in 1..n
  BY <1>20
<1> HIDE DEF p2
<1>5. den \in Int /\ den # 0
  <2> DEFINE q == [i \in 1..n |-> (p2[i] * p2[i]) \div 1000]
  <2>1. \A i \in 1..n : q[i] \in Int /\ q[i] >= 0
    <3>1. ASSUME NEW x \in Int PROVE (x * x) \div 1000 \in Int /\ (x * x) \div 1000 >= 0
      <4>1. x * x \in Int /\ x * x >= 0
        OBVIOUS
      <4> DEFINE y == x * x
      <4>2. y \in Int /\ y >= 0
        BY <4>1
      <4> HIDE DEF y
      <4>3. y \div 1000 \in Int /\ y \div 1000 >= 0
        BY <4>2
      <4> QED BY <4>3 DEF y
    <3> QED BY <1>3, <3>1
  <2>2. q \in Seq(Int) /\ Len(q) = n /\ q # <<>>
    BY <1>1, <1>20, <2>1, SMTT(30)
  <2>3. q[1] = 39942
    <3>1. (6320 * 6320) \div 1000 = 39942
      OBVIOUS
    <3> QED BY <1>4, <3>1
  <2> HIDE DEF q
  <2>4. Total(q) \in Int /\ Total(q) >= 39942
    <3>1. Total(q) \in Int /\ Total(q) >= q[1]
      BY <2>1, <2>2, TotalAtLeast
    <3> QED BY <2>3, <3>1
  <2>5. Total(q) \div 6000 \in Int /\ Total(q) \div 6000 # 0
    BY <2>4
  <2> QED BY <2>5 DEF q
<1> HIDE DEF den
<1>6. Num(ys) \in Int /\ Num(zs) = -Num(ys)
  <2> DEFINE a == [i \in 1..n |-> (ys[i] - ys[1]) * p2[i]]
             b == [i \in 1..n |-> (zs[i] - zs[1]) * p2[i]]
  <2>1. \A i \in 1..n : a[i] \in Int /\ b[i] = -a[i]
    <3> TAKE i \in 1..n
    <3>1. 1 \in 1..n /\ p2[i] \in Int
      BY <1>3, <1>4
    <3>2. zs[i] - zs[1] = -(ys[i] - ys[1]) /\ ys[i] - ys[1] \in Int
      BY <1>1, <3>1
    <3>3. ASSUME NEW x \in Int, NEW y \in Int PROVE x * y \in Int /\ (-x) * y = -(x * y)
      BY <3>3
    <3>4. a[i] = (ys[i] - ys[1]) * p2[i] /\ b[i] = (zs[i] - zs[1]) * p2[i]
      OBVIOUS
    <3> HIDE DEF a, b
    <3> QED BY <3>1, <3>2, <3>3, <3>4
  <2>2. a = [i \in 1..n |-> a[i]] /\ b = [i \in 1..n |-> b[i]]
    OBVIOUS
  <2>3. Num(ys) = Total(a) /\ Num(zs) = Total(b)
    OBVIOUS
  <2> HIDE DEF a, b, Num
  <2>4. /\ Total([i \in 1..n |-> a[i]]) \in Int
        /\ Total([i \in 1..n |-> b[i]]) = -Total([i \in 1..n |-> a[i]])
    <3>1. n \in Nat
      BY <1>1
    <3> QED BY <2>1, <3>1, TotalTurns
  <2>5. Total(a) \in Int /\ Total(b) = -Total(a)
    BY <2>2, <2>4, Zenon
  <2> QED BY <2>3, <2>5
<1> HIDE DEF Num
<1>7. Curve(ys) \in Int /\ Curve(zs) = -Curve(ys)
  <2>1. Quot(Num(ys), den) \in Int /\ Quot(-Num(ys), den) = -Quot(Num(ys), den)
    BY <1>5, <1>6, QuotTurns
  <2> QED BY <1>6, <2>1
<1> HIDE DEF Curve
<1>8. Slope(ys) \in Int /\ Slope(zs) = -Slope(ys)
  BY SlopeTurns DEF zs
<1>9. Apex(zs) = Apex(ys)
  <2>1. CASE Curve(ys) = 0
    <3>1. Curve(zs) = 0
      <4>1. Curve(zs) + Curve(ys) = 0 /\ Curve(zs) \in Int
        BY <1>7
      <4> QED BY <2>1, <4>1
    <3> QED BY <2>1, <3>1
  <2>2. CASE Curve(ys) # 0
    <3>1. Curve(zs) # 0
      BY <1>7, <2>2
    <3>2. ASSUME NEW x \in Int, NEW y \in Int, y # 0 PROVE Quot(-x, -y) = Quot(x, y)
      <4>1. Abs(-x) = Abs(x) /\ Abs(-y) = Abs(y) /\ Abs(x) \in Nat /\ Abs(y) \in Nat /\ Abs(y) # 0
        BY <3>2 DEF Abs
      <4>2. CASE x = 0
        <5>1. Abs(x) \div Abs(y) = 0
          <6>1. ASSUME NEW d \in Nat, d # 0 PROVE 0 \div d = 0
            BY <6>1
          <6>2. Abs(x) = 0
            BY <4>2 DEF Abs
          <6> QED BY <4>1, <6>1, <6>2
        <5>2. Quot(-x, -y) \in {0, -0} /\ Quot(x, y) \in {0, -0}
          BY <4>1, <5>1, Zenon DEF Quot
        <5> QED BY <5>2
      <4>3. CASE x # 0
        <5>1. ((-x) < 0) = ((-y) < 0) <=> (x < 0) = (y < 0)
          BY <3>2, <4>3
        <5> QED BY <4>1, <5>1, Zenon DEF Quot
      <4> QED BY <4>2, <4>3
    <3>3. 500 * Slope(ys) \in Int /\ 500 * Slope(zs) = -(500 * Slope(ys))
      BY <1>8
    <3>4. Quot(500 * Slope(zs), Curve(zs)) = Quot(500 * Slope(ys), Curve(ys))
      BY <1>7, <2>2, <3>2, <3>3
    <3> QED BY <2>2, <3>1, <3>4
  <2> QED BY <2>1, <2>2
<1>10. Bent(ys) * Bent(ys) = Bent(zs) * Bent(zs) /\ Slope(zs) * Slope(zs) = Slope(ys) * Slope(ys)
  <2>1. ASSUME NEW x \in Int, NEW y, y = -x PROVE y * y = x * x
    BY <2>1
  <2> DEFINE a == Curve(ys) * (n * n - 2)
             b == Curve(zs) * (n * n - 2)
  <2>2. a \in Int /\ b = -a
    BY <1>1, <1>7
  <2> HIDE DEF a, b
  <2> DEFINE k == 10000
  <2>3. k \in Int /\ k # 0
    OBVIOUS
  <2> HIDE DEF k
  <2>4. Quot(a, k) \in Int /\ Quot(-a, k) = -Quot(a, k)
    BY <2>2, <2>3, QuotTurns
  <2>5. Bent(ys) = Quot(a, k) /\ Bent(zs) = Quot(b, k)
    BY DEF a, b, k
  <2> HIDE DEF Bent
  <2> QED BY <1>8, <2>1, <2>2, <2>4, <2>5
<1> HIDE DEF Bent, Part
<1>11. Fit(zs) = Fit(ys)
  <2>1. ys # <<>>
    BY <1>20
  <2>2. Variance(zs) = Variance(ys)
    BY <2>1, VarianceTurns DEF zs
  <2>3. Explained(zs) = Explained(ys)
    BY <1>10
  <2> HIDE DEF Explained
  <2> QED BY <2>2, <2>3
<1> HIDE DEF Apex, Fit
<1>12. /\ Parabola(ys).curve = Curve(ys) /\ Parabola(zs).curve = Curve(zs)
       /\ Parabola(ys).apex = Apex(ys) /\ Parabola(zs).apex = Apex(zs)
       /\ Parabola(ys).fit = Fit(ys) /\ Parabola(zs).fit = Fit(zs)
  BY <1>2
<1> QED BY <1>7, <1>9, <1>11, <1>12 DEF zs

\* The rounding tops and bottoms.
LEMMA RoundingTwins ==
    ASSUME NEW w, NEW u, NEW m, NEW n, Opposite(w, u, m, n)
    PROVE  RoundingTop(w) <=> RoundingBottom(u)
<1>1. n \in Nat /\ n > 200 /\ m \in Int
  BY DEF Opposite
<1> DEFINE h == LastOf(w.h, 80)
           l == LastOf(u.l, 80)
<1>2. l = Over(h, m) /\ h \in Seq(Int) /\ h # <<>> /\ Len(h) = 80 + 1
  <2>1. \A k \in 0..(n - 1) : /\ LastOf(u.l, k) = Over(LastOf(w.h, k), m) /\ LastOf(w.h, k) # <<>>
                              /\ LastOf(w.h, k) \in Seq(Int) /\ Len(LastOf(w.h, k)) = k + 1
    BY OppositeWindows
  <2>2. 80 \in 0..(n - 1)
    BY <1>1
  <2> QED BY <2>1, <2>2, Zenon
<1>3. /\ RoundingTop(w) <=> /\ Parabola(h).curve < -1 /\ Parabola(h).apex \in 0..81
                            /\ Abs(Parabola(h).curve) * 6561 >= 500000 * (Top(h) - Bottom(h)) /\ Parabola(h).fit >= 70
      /\ RoundingBottom(u) <=> /\ Parabola(l).curve > 1 /\ Parabola(l).apex \in 0..81
                               /\ Abs(Parabola(l).curve) * 6561 >= 500000 * (Top(l) - Bottom(l)) /\ Parabola(l).fit >= 70
  BY DEF RoundingTop, RoundingBottom
<1> HIDE DEF h, l
<1>4. Len(h) \in Spans /\ Len(h) > 61
  BY <1>2 DEF Spans
<1>5. /\ Parabola(h).curve \in Int /\ Parabola(l).curve = -Parabola(h).curve
      /\ Parabola(l).apex = Parabola(h).apex /\ Parabola(l).fit = Parabola(h).fit
  BY <1>1, <1>2, <1>4, ParabolaTurns
<1>6. /\ Top(l) = m - Bottom(h) /\ Bottom(l) = m - Top(h) /\ Top(h) \in Int /\ Bottom(h) \in Int
  BY <1>1, <1>2, ExtremesOver, TopIs, BottomIs
<1>7. Top(l) - Bottom(l) = Top(h) - Bottom(h) /\ Abs(Parabola(l).curve) = Abs(Parabola(h).curve)
  BY <1>1, <1>5, <1>6 DEF Abs
<1> QED BY <1>3, <1>5, <1>7

-----------------------------------------------------------------------------
(* A history and its mirror image.                                          *)

\* Bars of whole numbers, and the histories they make.
Candle == [o : Int, c : Int, h : Int, l : Int, v : Int]
Candles == {s \in Seq(Candle) : Len(s) = N}

\* Whole numbers have a whole sum.
LEMMA TotalIsNumber == ASSUME NEW s \in Seq(Int) PROVE Total(s) \in Int
<1>0. 0 \in Int
  OBVIOUS
<1>1. Over(s, 0) \in Seq(Int) /\ Len(Over(s, 0)) = Len(s) /\ \A i \in DOMAIN s : Over(s, 0)[i] = 0 - s[i]
  BY <1>0, OverIs
<1> DEFINE t == Over(s, 0)
<1> HIDE DEF t
<1>2. t \in Seq(Int) /\ Len(s) = Len(t) /\ \A i \in DOMAIN s : t[i] = 0 - s[i]
  BY <1>1 DEF t
<1> QED BY <1>0, <1>2, TotalsAddUp

\* The true ranges of a history are those of its mirror image.
LEMMA RangesTurn ==
    ASSUME NEW w, NEW u, NEW m \in Int, NEW n \in Nat, n > 200,
           w.h \in Walks(n), w.l \in Walks(n), w.c \in Walks(n),
           u.h = Over(w.l, m), u.l = Over(w.h, m), u.c = Over(w.c, m)
    PROVE  recent_atr(w) \in Int /\ recent_atr(u) = recent_atr(w)
<1> DEFINE Last(x) == SubSeq(x, n - 13, n)
           Before1(x, i) == IF i = 1 THEN Last(x.c)[1] ELSE Last(x.c)[i - 1]
           Reach(x) ==
             [i \in 1..14 |-> Top(<<Last(x.h)[i] - Last(x.l)[i], Abs(Last(x.h)[i] - Before1(x, i)),
                                    Abs(Last(x.l)[i] - Before1(x, i))>>)]
<1>1. /\ \A s \in {w.h, w.l, w.c} : s \in Seq(Int) /\ Len(s) = n
      /\ \A s \in {w.h, w.l, w.c} : Over(s, m) \in Seq(Int) /\ Len(Over(s, m)) = n
  BY OverIs DEF Walks
<1>2. recent_atr(w) = Total(Reach(w)) /\ recent_atr(u) = Total(Reach(u))
  BY <1>1 DEF recent_atr, LastOf
<1>3. \A s \in {w.h, w.l, w.c} : \A i \in 1..14 :
         Last(s)[i] \in Int /\ Last(Over(s, m))[i] = m - Last(s)[i]
  <2> TAKE s \in {w.h, w.l, w.c}
  <2> DEFINE p == Last(s)
  <2>1. /\ Last(Over(s, m)) = Over(p, m) /\ p \in Seq(Int) /\ Len(p) = 14
    <3> DEFINE k == n - 13
    <3>1. s \in Seq(Int) /\ Len(s) = n /\ n \in Int /\ k \in Int /\ 1 <= k /\ k <= n /\ n - k + 1 = 14
      BY <1>1
    <3> HIDE DEF k
    <3>2. /\ SubSeq(Over(s, m), k, n) = Over(SubSeq(s, k, n), m)
          /\ SubSeq(s, k, n) \in Seq(Int) /\ Len(SubSeq(s, k, n)) = n - k + 1
      BY <3>1, PiecesOver, SMTT(30)
    <3> QED BY <3>1, <3>2 DEF k
  <2> HIDE DEF p
  <2>2. \A i \in 1..14 : Over(p, m)[i] = m - p[i] /\ p[i] \in Int
    BY <2>1, EntriesOver
  <2> QED BY <2>1, <2>2 DEF p
<1> HIDE DEF Last
<1>4. ASSUME NEW i \in 1..14 PROVE Reach(w)[i] \in Int /\ Reach(u)[i] = Reach(w)[i]
  <2> DEFINE a == Last(w.h)[i] - Last(w.l)[i]
             b == Abs(Last(w.h)[i] - Before1(w, i))
             c == Abs(Last(w.l)[i] - Before1(w, i))
  <2>1. Before1(w, i) \in Int /\ Before1(u, i) = m - Before1(w, i)
    <3>1. i = 1 \/ i - 1 \in 1..14
      OBVIOUS
    <3> QED BY <1>3, <3>1
  <2>2. /\ a \in Int /\ b \in Int /\ c \in Int /\ Last(u.h)[i] - Last(u.l)[i] = a
        /\ Abs(Last(u.h)[i] - Before1(u, i)) = c /\ Abs(Last(u.l)[i] - Before1(u, i)) = b
    <3> HIDE DEF Before1
    <3> QED BY <1>3, <2>1 DEF Abs
  <2>3. /\ Reach(w)[i] = Top(<<a, b, c>>)
        /\ Reach(u)[i] = Top(<<Last(u.h)[i] - Last(u.l)[i], Abs(Last(u.h)[i] - Before1(u, i)),
                               Abs(Last(u.l)[i] - Before1(u, i))>>)
    OBVIOUS
  <2> HIDE DEF a, b, c, Reach, Before1
  <2>4. Top(<<a, b, c>>) = Top(<<a, c, b>>) /\ Top(<<a, b, c>>) \in Int
    BY <2>2, Three
  <2> QED BY <2>2, <2>3, <2>4
<1>5. /\ DOMAIN Reach(w) = 1..14 /\ DOMAIN Reach(u) = 1..14
      /\ Reach(w) = [i \in 1..14 |-> Reach(w)[i]] /\ Reach(u) = [i \in 1..14 |-> Reach(u)[i]]
  OBVIOUS
<1> HIDE DEF Reach
<1>6. Reach(u) = Reach(w) /\ Reach(w) \in Seq(Int)
  BY <1>4, <1>5
<1> QED BY <1>2, <1>6, TotalIsNumber

\* The mirror image of a history is its opposite.
LEMMA MirrorIsOpposite ==
    ASSUME NEW s \in Candles
    PROVE  Opposite(History(s), History(Mirror(s)), 2 * Mid, N)
<1> DEFINE m == 2 * Mid
           r == Mirror(s)
           S(x, f) == Series(x, f)
           W(x) == [o |-> S(x, "o"), h |-> S(x, "h"), l |-> S(x, "l"), c |-> S(x, "c"),
                    v |-> S(x, "v"), tr |-> 0]
           w == W(s)
           u == W(r)
<1>1. N \in Nat /\ N > 200 /\ m \in Int /\ \A i \in 1..N : s[i] \in Candle
  <2>1. N = 201 /\ Mid = 1000
    BY DEF N, Mid
  <2>2. m \in Int
    BY <2>1
  <2> HIDE DEF m
  <2>3. s \in Seq(Candle) /\ Len(s) = N /\ N \in Nat /\ N > 200
    BY <2>1 DEF Candles
  <2> HIDE DEF m
  <2> QED BY <2>2, <2>3
<1>2. /\ \A f \in {"o", "h", "l", "c", "v"} : S(s, f) \in Walks(N) /\ DOMAIN S(s, f) = 1..N
      /\ S(r, "o") = Over(S(s, "o"), m) /\ S(r, "c") = Over(S(s, "c"), m)
      /\ S(r, "h") = Over(S(s, "l"), m) /\ S(r, "l") = Over(S(s, "h"), m) /\ S(r, "v") = S(s, "v")
  <2> HIDE DEF m
  <2>1. \A i \in 1..N : /\ s[i].o \in Int /\ s[i].h \in Int /\ s[i].l \in Int /\ s[i].c \in Int /\ s[i].v \in Int
                        /\ r[i].o = m - s[i].o /\ r[i].c = m - s[i].c
                        /\ r[i].h = m - s[i].l /\ r[i].l = m - s[i].h /\ r[i].v = s[i].v
    BY <1>1 DEF Mirror, Candle, m
  <2> HIDE DEF r
  <2>2. \A f \in {"o", "h", "l", "c", "v"} : S(s, f) \in Walks(N) /\ DOMAIN S(s, f) = 1..N
    BY <1>1, <2>1 DEF Series, Walks
  <2>3. /\ S(r, "o") = Over(S(s, "o"), m) /\ S(r, "c") = Over(S(s, "c"), m)
        /\ S(r, "h") = Over(S(s, "l"), m) /\ S(r, "l") = Over(S(s, "h"), m) /\ S(r, "v") = S(s, "v")
    BY <2>1 DEF Series, Over
  <2> QED BY <2>2, <2>3
<1> HIDE DEF m, r, S
<1>3. /\ u.o = Over(w.o, m) /\ u.c = Over(w.c, m) /\ u.h = Over(w.l, m) /\ u.l = Over(w.h, m) /\ u.v = w.v
      /\ w.o \in Walks(N) /\ w.h \in Walks(N) /\ w.l \in Walks(N) /\ w.c \in Walks(N) /\ w.v \in Walks(N)
  BY <1>2
<1>4. u.o \in Walks(N) /\ u.h \in Walks(N) /\ u.l \in Walks(N) /\ u.c \in Walks(N) /\ u.v \in Walks(N)
  <2>1. \A q \in Walks(N) : Over(q, m) \in Walks(N)
    BY <1>1, OverIs DEF Walks
  <2> HIDE DEF u, w
  <2> QED BY <1>3, <2>1
<1>5. /\ History(s) = [w EXCEPT !.tr = recent_atr(w)] /\ History(r) = [u EXCEPT !.tr = recent_atr(u)]
  BY DEF History, S
<1>6. recent_atr(w) \in Int /\ recent_atr(u) = recent_atr(w)
  <2> HIDE DEF u, w
  <2> QED BY <1>1, <1>3, RangesTurn
<1> DEFINE tr == recent_atr(w)
<1>7. /\ History(s) = [o |-> w.o, h |-> w.h, l |-> w.l, c |-> w.c, v |-> w.v, tr |-> tr]
      /\ History(r) = [o |-> u.o, h |-> u.h, l |-> u.l, c |-> u.c, v |-> u.v, tr |-> tr]
  BY <1>5, <1>6
<1> HIDE DEF u, w, tr
<1>8. Opposite(History(s), History(r), m, N)
  BY <1>1, <1>3, <1>4, <1>6, <1>7 DEF Opposite, Market, tr
<1> QED BY <1>8 DEF m, r

\* What every detector of one side says of a history, its twin says of the opposite.
LEMMA TwinCalls ==
    ASSUME NEW w, NEW u, NEW m, NEW n, Opposite(w, u, m, n)
    PROVE  /\ DOMAIN PriceVerdicts(w) = 1..29
           /\ \A i \in 1..29 : /\ PriceVerdicts(u)[i].name = PriceVerdicts(w)[i].name
                               /\ PriceVerdicts(w)[i].SHORT <=> PriceVerdicts(u)[i].LONG
<1> DEFINE v == PriceVerdicts(w)
           x == PriceVerdicts(u)
<1>1. x[1].name = v[1].name /\ (v[1].SHORT <=> x[1].LONG)
  <2>1. VTop(w) <=> VBottom(u)
    BY CandleTwins, GapTwins, RangeTwins, VTwins, PauseTwins, RunTwins, ChannelTwins, RoundingTwins
  <2>2. v[1] = Row("v", VTop(w), VBottom(w)) /\ x[1] = Row("v", VTop(u), VBottom(u))
    BY DEF PriceVerdicts
  <2> QED BY <2>1, <2>2 DEF Row
<1>2. x[2].name = v[2].name /\ (v[2].SHORT <=> x[2].LONG)
  <2>1. RoundingTop(w) <=> RoundingBottom(u)
    BY CandleTwins, GapTwins, RangeTwins, VTwins, PauseTwins, RunTwins, ChannelTwins, RoundingTwins
  <2>2. v[2] = Row("rounding", RoundingTop(w), RoundingBottom(w)) /\ x[2] = Row("rounding", RoundingTop(u), RoundingBottom(u))
    BY DEF PriceVerdicts
  <2> QED BY <2>1, <2>2 DEF Row
<1>3. x[3].name = v[3].name /\ (v[3].SHORT <=> x[3].LONG)
  <2>1. ChannelDown(w) <=> ChannelUp(u)
    BY CandleTwins, GapTwins, RangeTwins, VTwins, PauseTwins, RunTwins, ChannelTwins, RoundingTwins
  <2>2. v[3] = Row("channel", ChannelDown(w), ChannelUp(w)) /\ x[3] = Row("channel", ChannelDown(u), ChannelUp(u))
    BY DEF PriceVerdicts
  <2> QED BY <2>1, <2>2 DEF Row
<1>4. x[4].name = v[4].name /\ (v[4].SHORT <=> x[4].LONG)
  <2>1. RegressionChannelDown(w) <=> RegressionChannelUp(u)
    BY CandleTwins, GapTwins, RangeTwins, VTwins, PauseTwins, RunTwins, ChannelTwins, RoundingTwins
  <2>2. v[4] = Row("regression_channel", RegressionChannelDown(w), RegressionChannelUp(w)) /\ x[4] = Row("regression_channel", RegressionChannelDown(u), RegressionChannelUp(u))
    BY DEF PriceVerdicts
  <2> QED BY <2>1, <2>2 DEF Row
<1>5. x[5].name = v[5].name /\ (v[5].SHORT <=> x[5].LONG)
  <2>1. BearishFlag(w) <=> BullishFlag(u)
    BY CandleTwins, GapTwins, RangeTwins, VTwins, PauseTwins, RunTwins, ChannelTwins, RoundingTwins
  <2>2. v[5] = Row("flag", BearishFlag(w), BullishFlag(w)) /\ x[5] = Row("flag", BearishFlag(u), BullishFlag(u))
    BY DEF PriceVerdicts
  <2> QED BY <2>1, <2>2 DEF Row
<1>6. x[6].name = v[6].name /\ (v[6].SHORT <=> x[6].LONG)
  <2>1. BearishPennant(w) <=> BullishPennant(u)
    BY CandleTwins, GapTwins, RangeTwins, VTwins, PauseTwins, RunTwins, ChannelTwins, RoundingTwins
  <2>2. v[6] = Row("pennant", BearishPennant(w), BullishPennant(w)) /\ x[6] = Row("pennant", BearishPennant(u), BullishPennant(u))
    BY DEF PriceVerdicts
  <2> QED BY <2>1, <2>2 DEF Row
<1>7. x[7].name = v[7].name /\ (v[7].SHORT <=> x[7].LONG)
  <2>1. BreakoutPullbackShort(w) <=> BreakoutPullbackLong(u)
    BY CandleTwins, GapTwins, RangeTwins, VTwins, PauseTwins, RunTwins, ChannelTwins, RoundingTwins
  <2>2. v[7] = Row("breakout_pullback", BreakoutPullbackShort(w), BreakoutPullbackLong(w)) /\ x[7] = Row("breakout_pullback", BreakoutPullbackShort(u), BreakoutPullbackLong(u))
    BY DEF PriceVerdicts
  <2> QED BY <2>1, <2>2 DEF Row
<1>8. x[8].name = v[8].name /\ (v[8].SHORT <=> x[8].LONG)
  <2>1. BearishKickerVolume(w) <=> BullishKickerVolume(u)
    BY CandleTwins, GapTwins, RangeTwins, VTwins, PauseTwins, RunTwins, ChannelTwins, RoundingTwins
  <2>2. v[8] = Row("kicker_volume", BearishKickerVolume(w), BullishKickerVolume(w)) /\ x[8] = Row("kicker_volume", BearishKickerVolume(u), BullishKickerVolume(u))
    BY DEF PriceVerdicts
  <2> QED BY <2>1, <2>2 DEF Row
<1>9. x[9].name = v[9].name /\ (v[9].SHORT <=> x[9].LONG)
  <2>1. GapFillReversalLong(w) <=> GapFillReversalShort(u)
    BY CandleTwins, GapTwins, RangeTwins, VTwins, PauseTwins, RunTwins, ChannelTwins, RoundingTwins
  <2>2. v[9] = Row("gap_fill_reversal", GapFillReversalLong(w), GapFillReversalShort(w)) /\ x[9] = Row("gap_fill_reversal", GapFillReversalLong(u), GapFillReversalShort(u))
    BY DEF PriceVerdicts
  <2> QED BY <2>1, <2>2 DEF Row
<1>10. x[10].name = v[10].name /\ (v[10].SHORT <=> x[10].LONG)
  <2>1. InsideBarBreakoutShort(w) <=> InsideBarBreakoutLong(u)
    BY CandleTwins, GapTwins, RangeTwins, VTwins, PauseTwins, RunTwins, ChannelTwins, RoundingTwins
  <2>2. v[10] = Row("inside_bar_breakout", InsideBarBreakoutShort(w), InsideBarBreakoutLong(w)) /\ x[10] = Row("inside_bar_breakout", InsideBarBreakoutShort(u), InsideBarBreakoutLong(u))
    BY DEF PriceVerdicts
  <2> QED BY <2>1, <2>2 DEF Row
<1>11. x[11].name = v[11].name /\ (v[11].SHORT <=> x[11].LONG)
  <2>1. KeyReversalShort(w) <=> KeyReversalLong(u)
    BY CandleTwins, GapTwins, RangeTwins, VTwins, PauseTwins, RunTwins, ChannelTwins, RoundingTwins
  <2>2. v[11] = Row("key_reversal_candle", KeyReversalShort(w), KeyReversalLong(w)) /\ x[11] = Row("key_reversal_candle", KeyReversalShort(u), KeyReversalLong(u))
    BY DEF PriceVerdicts
  <2> QED BY <2>1, <2>2 DEF Row
<1>12. x[12].name = v[12].name /\ (v[12].SHORT <=> x[12].LONG)
  <2>1. PinbarShort(w) <=> PinbarLong(u)
    BY CandleTwins, GapTwins, RangeTwins, VTwins, PauseTwins, RunTwins, ChannelTwins, RoundingTwins
  <2>2. v[12] = Row("pinbar", PinbarShort(w), PinbarLong(w)) /\ x[12] = Row("pinbar", PinbarShort(u), PinbarLong(u))
    BY DEF PriceVerdicts
  <2> QED BY <2>1, <2>2 DEF Row
<1>13. x[13].name = v[13].name /\ (v[13].SHORT <=> x[13].LONG)
  <2>1. StrictThreeBlackCrows(w) <=> StrictThreeWhiteSoldiers(u)
    BY CandleTwins, GapTwins, RangeTwins, VTwins, PauseTwins, RunTwins, ChannelTwins, RoundingTwins
  <2>2. v[13] = Row("strict_three", StrictThreeBlackCrows(w), StrictThreeWhiteSoldiers(w)) /\ x[13] = Row("strict_three", StrictThreeBlackCrows(u), StrictThreeWhiteSoldiers(u))
    BY DEF PriceVerdicts
  <2> QED BY <2>1, <2>2 DEF Row
<1>14. x[14].name = v[14].name /\ (v[14].SHORT <=> x[14].LONG)
  <2>1. KeyReversalHigh(w) <=> KeyReversalLow(u)
    BY CandleTwins, GapTwins, RangeTwins, VTwins, PauseTwins, RunTwins, ChannelTwins, RoundingTwins
  <2>2. v[14] = Row("key_reversal", KeyReversalHigh(w), KeyReversalLow(w)) /\ x[14] = Row("key_reversal", KeyReversalHigh(u), KeyReversalLow(u))
    BY DEF PriceVerdicts
  <2> QED BY <2>1, <2>2 DEF Row
<1>15. x[15].name = v[15].name /\ (v[15].SHORT <=> x[15].LONG)
  <2>1. BreakawayGapDown(w) <=> BreakawayGapUp(u)
    BY CandleTwins, GapTwins, RangeTwins, VTwins, PauseTwins, RunTwins, ChannelTwins, RoundingTwins
  <2>2. v[15] = Row("breakaway_gap", BreakawayGapDown(w), BreakawayGapUp(w)) /\ x[15] = Row("breakaway_gap", BreakawayGapDown(u), BreakawayGapUp(u))
    BY DEF PriceVerdicts
  <2> QED BY <2>1, <2>2 DEF Row
<1>16. x[16].name = v[16].name /\ (v[16].SHORT <=> x[16].LONG)
  <2>1. RunawayGapDown(w) <=> RunawayGapUp(u)
    BY CandleTwins, GapTwins, RangeTwins, VTwins, PauseTwins, RunTwins, ChannelTwins, RoundingTwins
  <2>2. v[16] = Row("runaway_gap", RunawayGapDown(w), RunawayGapUp(w)) /\ x[16] = Row("runaway_gap", RunawayGapDown(u), RunawayGapUp(u))
    BY DEF PriceVerdicts
  <2> QED BY <2>1, <2>2 DEF Row
<1>17. x[17].name = v[17].name /\ (v[17].SHORT <=> x[17].LONG)
  <2>1. ExhaustionGapUp(w) <=> ExhaustionGapDown(u)
    BY CandleTwins, GapTwins, RangeTwins, VTwins, PauseTwins, RunTwins, ChannelTwins, RoundingTwins
  <2>2. v[17] = Row("exhaustion_gap", ExhaustionGapUp(w), ExhaustionGapDown(w)) /\ x[17] = Row("exhaustion_gap", ExhaustionGapUp(u), ExhaustionGapDown(u))
    BY DEF PriceVerdicts
  <2> QED BY <2>1, <2>2 DEF Row
<1>18. x[18].name = v[18].name /\ (v[18].SHORT <=> x[18].LONG)
  <2>1. DoubleGapContinuationDown(w) <=> DoubleGapContinuationUp(u)
    BY CandleTwins, GapTwins, RangeTwins, VTwins, PauseTwins, RunTwins, ChannelTwins, RoundingTwins
  <2>2. v[18] = Row("double_gap_continuation", DoubleGapContinuationDown(w), DoubleGapContinuationUp(w)) /\ x[18] = Row("double_gap_continuation", DoubleGapContinuationDown(u), DoubleGapContinuationUp(u))
    BY DEF PriceVerdicts
  <2> QED BY <2>1, <2>2 DEF Row
<1>19. x[19].name = v[19].name /\ (v[19].SHORT <=> x[19].LONG)
  <2>1. TwoBarReversalTop(w) <=> TwoBarReversalBottom(u)
    BY CandleTwins, GapTwins, RangeTwins, VTwins, PauseTwins, RunTwins, ChannelTwins, RoundingTwins
  <2>2. v[19] = Row("two_bar_reversal", TwoBarReversalTop(w), TwoBarReversalBottom(w)) /\ x[19] = Row("two_bar_reversal", TwoBarReversalTop(u), TwoBarReversalBottom(u))
    BY DEF PriceVerdicts
  <2> QED BY <2>1, <2>2 DEF Row
<1>20. x[20].name = v[20].name /\ (v[20].SHORT <=> x[20].LONG)
  <2>1. VolumeClimaxTop(w) <=> VolumeClimaxBottom(u)
    BY CandleTwins, GapTwins, RangeTwins, VTwins, PauseTwins, RunTwins, ChannelTwins, RoundingTwins
  <2>2. v[20] = Row("volume_climax", VolumeClimaxTop(w), VolumeClimaxBottom(w)) /\ x[20] = Row("volume_climax", VolumeClimaxTop(u), VolumeClimaxBottom(u))
    BY DEF PriceVerdicts
  <2> QED BY <2>1, <2>2 DEF Row
<1>21. x[21].name = v[21].name /\ (v[21].SHORT <=> x[21].LONG)
  <2>1. RectangleContinuation(w, "SHORT") <=> RectangleContinuation(u, "LONG")
    BY CandleTwins, GapTwins, RangeTwins, VTwins, PauseTwins, RunTwins, ChannelTwins, RoundingTwins
  <2>2. v[21] = Row("rectangle_continuation", RectangleContinuation(w, "SHORT"), RectangleContinuation(w, "LONG")) /\ x[21] = Row("rectangle_continuation", RectangleContinuation(u, "SHORT"), RectangleContinuation(u, "LONG"))
    BY DEF PriceVerdicts
  <2> QED BY <2>1, <2>2 DEF Row
<1>22. x[22].name = v[22].name /\ (v[22].SHORT <=> x[22].LONG)
  <2>1. MidTermConsolidation(w, "SHORT") <=> MidTermConsolidation(u, "LONG")
    BY CandleTwins, GapTwins, RangeTwins, VTwins, PauseTwins, RunTwins, ChannelTwins, RoundingTwins
  <2>2. v[22] = Row("mid_term_consolidation", MidTermConsolidation(w, "SHORT"), MidTermConsolidation(w, "LONG")) /\ x[22] = Row("mid_term_consolidation", MidTermConsolidation(u, "SHORT"), MidTermConsolidation(u, "LONG"))
    BY DEF PriceVerdicts
  <2> QED BY <2>1, <2>2 DEF Row
<1>23. x[23].name = v[23].name /\ (v[23].SHORT <=> x[23].LONG)
  <2>1. MeanReversionToMa(w, "SHORT") <=> MeanReversionToMa(u, "LONG")
    BY CandleTwins, GapTwins, RangeTwins, VTwins, PauseTwins, RunTwins, ChannelTwins, RoundingTwins
  <2>2. v[23] = Row("mean_reversion_to_ma", MeanReversionToMa(w, "SHORT"), MeanReversionToMa(w, "LONG")) /\ x[23] = Row("mean_reversion_to_ma", MeanReversionToMa(u, "SHORT"), MeanReversionToMa(u, "LONG"))
    BY DEF PriceVerdicts
  <2> QED BY <2>1, <2>2 DEF Row
<1>24. x[24].name = v[24].name /\ (v[24].SHORT <=> x[24].LONG)
  <2>1. WideRangeEngulf(w, "SHORT") <=> WideRangeEngulf(u, "LONG")
    BY CandleTwins, GapTwins, RangeTwins, VTwins, PauseTwins, RunTwins, ChannelTwins, RoundingTwins
  <2>2. v[24] = Row("wide_range_engulf", WideRangeEngulf(w, "SHORT"), WideRangeEngulf(w, "LONG")) /\ x[24] = Row("wide_range_engulf", WideRangeEngulf(u, "SHORT"), WideRangeEngulf(u, "LONG"))
    BY DEF PriceVerdicts
  <2> QED BY <2>1, <2>2 DEF Row
<1>25. x[25].name = v[25].name /\ (v[25].SHORT <=> x[25].LONG)
  <2>1. CommonGap(w, "SHORT") <=> CommonGap(u, "LONG")
    BY CandleTwins, GapTwins, RangeTwins, VTwins, PauseTwins, RunTwins, ChannelTwins, RoundingTwins
  <2>2. v[25] = Row("common_gap", CommonGap(w, "SHORT"), CommonGap(w, "LONG")) /\ x[25] = Row("common_gap", CommonGap(u, "SHORT"), CommonGap(u, "LONG"))
    BY DEF PriceVerdicts
  <2> QED BY <2>1, <2>2 DEF Row
<1>26. x[26].name = v[26].name /\ (v[26].SHORT <=> x[26].LONG)
  <2>1. GapWindow(w, "SHORT") <=> GapWindow(u, "LONG")
    BY CandleTwins, GapTwins, RangeTwins, VTwins, PauseTwins, RunTwins, ChannelTwins, RoundingTwins
  <2>2. v[26] = Row("gap_window", GapWindow(w, "SHORT"), GapWindow(w, "LONG")) /\ x[26] = Row("gap_window", GapWindow(u, "SHORT"), GapWindow(u, "LONG"))
    BY DEF PriceVerdicts
  <2> QED BY <2>1, <2>2 DEF Row
<1>27. x[27].name = v[27].name /\ (v[27].SHORT <=> x[27].LONG)
  <2>1. OpeningRangeBreakout(w, "SHORT") <=> OpeningRangeBreakout(u, "LONG")
    BY CandleTwins, GapTwins, RangeTwins, VTwins, PauseTwins, RunTwins, ChannelTwins, RoundingTwins
  <2>2. v[27] = Row("opening_range_breakout", OpeningRangeBreakout(w, "SHORT"), OpeningRangeBreakout(w, "LONG")) /\ x[27] = Row("opening_range_breakout", OpeningRangeBreakout(u, "SHORT"), OpeningRangeBreakout(u, "LONG"))
    BY DEF PriceVerdicts
  <2> QED BY <2>1, <2>2 DEF Row
<1>28. x[28].name = v[28].name /\ (v[28].SHORT <=> x[28].LONG)
  <2>1. WeeklyPivotBreak(w, "SHORT") <=> WeeklyPivotBreak(u, "LONG")
    BY CandleTwins, GapTwins, RangeTwins, VTwins, PauseTwins, RunTwins, ChannelTwins, RoundingTwins
  <2>2. v[28] = Row("weekly_pivot_break", WeeklyPivotBreak(w, "SHORT"), WeeklyPivotBreak(w, "LONG")) /\ x[28] = Row("weekly_pivot_break", WeeklyPivotBreak(u, "SHORT"), WeeklyPivotBreak(u, "LONG"))
    BY DEF PriceVerdicts
  <2> QED BY <2>1, <2>2 DEF Row
<1>29. x[29].name = v[29].name /\ (v[29].SHORT <=> x[29].LONG)
  <2>1. EndOfDayReversal(w, "SHORT") <=> EndOfDayReversal(u, "LONG")
    BY CandleTwins, GapTwins, RangeTwins, VTwins, PauseTwins, RunTwins, ChannelTwins, RoundingTwins
  <2>2. v[29] = Row("end_of_day_reversal", EndOfDayReversal(w, "SHORT"), EndOfDayReversal(w, "LONG")) /\ x[29] = Row("end_of_day_reversal", EndOfDayReversal(u, "SHORT"), EndOfDayReversal(u, "LONG"))
    BY DEF PriceVerdicts
  <2> QED BY <2>1, <2>2 DEF Row
<1>30. DOMAIN v = 1..29
  BY DEF PriceVerdicts
<1> HIDE DEF v, x
<1>31. \A i \in 1..29 : x[i].name = v[i].name /\ (v[i].SHORT <=> x[i].LONG)
  BY <1>1, <1>2, <1>3, <1>4, <1>5, <1>6, <1>7, <1>8, <1>9, <1>10, <1>11, <1>12, <1>13, <1>14, <1>15,
     <1>16, <1>17, <1>18, <1>19, <1>20, <1>21, <1>22, <1>23, <1>24, <1>25, <1>26, <1>27, <1>28, <1>29, SMTT(30)
<1> QED BY <1>30, <1>31 DEF v, x

\* Verdicts that are each other's opposite make calls that are.
LEMMA OppositeCalls ==
    ASSUME NEW v, NEW x, NEW n \in Nat, DOMAIN v = 1..n, DOMAIN x = 1..n,
           \A i \in 1..n : /\ x[i].name = v[i].name
                           /\ v[i].SHORT <=> x[i].LONG
                           /\ x[i].SHORT <=> v[i].LONG
    PROVE  Called(x) = Turned(Called(v))
<1> DEFINE Other(dir) == IF dir = "LONG" THEN "SHORT" ELSE "LONG"
           Sides == {"LONG", "SHORT"}
           Says(y, i, dir) == y[i][dir] /\ y[i].name \notin Lopsided
<1>1. /\ Called(v) = {call \in (1..n) \X Sides : Says(v, call[1], call[2])}
      /\ Called(x) = {call \in (1..n) \X Sides : Says(x, call[1], call[2])}
  BY DEF Called
<1>2. \A i \in 1..n : \A dir \in Sides : Says(x, i, dir) <=> Says(v, i, Other(dir))
  OBVIOUS
<1>3. \A dir \in Sides : Other(dir) \in Sides /\ Other(Other(dir)) = dir
  OBVIOUS
<1>4. Turned(Called(v)) = {<<call[1], Other(call[2])>> : call \in Called(v)}
  BY DEF Turned
<1> HIDE DEF Says, Other, Sides
<1>5. ASSUME NEW call \in Called(x) PROVE call \in Turned(Called(v))
  <2>1. PICK i \in 1..n, dir \in Sides : call = <<i, dir>> /\ Says(x, i, dir)
    BY <1>1
  <2>2. <<i, Other(dir)>> \in Called(v)
    BY <1>1, <1>2, <1>3, <2>1
  <2> QED BY <1>3, <1>4, <2>1, <2>2
<1>6. ASSUME NEW call \in Turned(Called(v)) PROVE call \in Called(x)
  <2>1. PICK i \in 1..n, dir \in Sides : call = <<i, Other(dir)>> /\ Says(v, i, dir)
    BY <1>1, <1>4
  <2>2. Says(x, i, Other(dir))
    BY <1>2, <1>3, <2>1
  <2> QED BY <1>1, <1>3, <2>1, <2>2
<1> QED BY <1>5, <1>6

\* Whatever 201 bars of whole numbers a history has: a formation of the first half
\* of the registry (__init__.py:132-214) is called LONG on it exactly if its twin is
\* called SHORT on the mirror image, and the other way round.
THEOREM PriceTwinsCallTheOtherWay ==
    ASSUME NEW s \in Candles
    PROVE  Called(PriceVerdicts(History(Mirror(s)))) = Turned(Called(PriceVerdicts(History(s))))
<1> DEFINE w == History(s)
           u == History(Mirror(s))
           m == 2 * Mid
<1>1. Opposite(w, u, m, N)
  BY MirrorIsOpposite
<1> HIDE DEF w, u, m
<1>2. Opposite(u, w, m, N)
  BY <1>1, OppositeTurns
<1>3. /\ DOMAIN PriceVerdicts(w) = 1..29
      /\ \A i \in 1..29 : /\ PriceVerdicts(u)[i].name = PriceVerdicts(w)[i].name
                          /\ PriceVerdicts(w)[i].SHORT <=> PriceVerdicts(u)[i].LONG
  BY <1>1, TwinCalls
<1>4. /\ DOMAIN PriceVerdicts(u) = 1..29
      /\ \A i \in 1..29 : PriceVerdicts(u)[i].SHORT <=> PriceVerdicts(w)[i].LONG
  BY <1>2, TwinCalls
<1> DEFINE v == PriceVerdicts(w)
           x == PriceVerdicts(u)
<1>5. Called(x) = Turned(Called(v))
  <2> HIDE DEF v, x
  <2>1. /\ DOMAIN v = 1..29 /\ DOMAIN x = 1..29 /\ 29 \in Nat
        /\ \A i \in 1..29 : /\ x[i].name = v[i].name
                            /\ v[i].SHORT <=> x[i].LONG
                            /\ x[i].SHORT <=> v[i].LONG
    BY <1>3, <1>4 DEF v, x
  <2> QED BY <2>1, OppositeCalls, Zenon
<1> QED BY <1>5 DEF w, u

\* So on every history of the runs' length, the property of the run holds.
LEMMA TwinsOf ==
    ASSUME bars \in Candles
    PROVE  PriceTwinsMirror
<1> DEFINE called == [side \in {1, -1} |->
             Called(PriceVerdicts(History(IF side = 1 THEN bars ELSE Mirror(bars))))]
<1>1. called[1] = Called(PriceVerdicts(History(bars)))
  OBVIOUS
<1>2. called[-1] = Called(PriceVerdicts(History(Mirror(bars))))
  OBVIOUS
<1>3. called[-1] = Turned(called[1])
  BY <1>1, <1>2, PriceTwinsCallTheOtherWay
<1> HIDE DEF called
<1>4. Twins(called)
  BY <1>3 DEF Twins
<1> QED BY <1>4 DEF PriceTwinsMirror, called

-----------------------------------------------------------------------------
(* The histories of the run.                                                *)

\* Legs, and markets long enough to be a history.
Legs == Int \X (Nat \ {0}) \X Int
Long == {s \in Seq(Candle) : Len(s) >= N}
\* f holds the market after each leg.
DrawnTo(f, legs, m) ==
    f = [k \in 0..m |->
           IF k = 0 THEN Flat
           ELSE f[k - 1] \o Walk(f[k - 1][Len(f[k - 1])].c, legs[k][1], legs[k][2], legs[k][3])]

\* What the histories are built of: a bar,
LEMMA OneBarIs ==
    ASSUME NEW o \in Int, NEW c \in Int, NEW up \in Int, NEW down \in Int, NEW v \in Int
    PROVE  OneBar(o, c, up, down, v) \in Candle
<1>1. Top(<<o, c>>) \in Int /\ Bottom(<<o, c>>) \in Int
  BY Two
<1> QED BY <1>1 DEF OneBar, Candle

\* a walk from one price to another,
LEMMA WalkIs ==
    ASSUME NEW from \in Int, NEW to \in Int, NEW n \in Nat \ {0}, NEW wick \in Int
    PROVE  Walk(from, to, n, wick) \in Seq(Candle) /\ Len(Walk(from, to, n, wick)) = n
<1> DEFINE Reached(j) == from + Quot((to - from) * j, n)
<1>1. \A j \in Int : Reached(j) \in Int
  <2>1. \A x \in Int : Quot(x, n) \in Int
    BY DEF Quot, Abs
  <2>2. \A j \in Int : (to - from) * j \in Int
    OBVIOUS
  <2> QED BY <2>1, <2>2
<1>2. Walk(from, to, n, wick) = [i \in 1..n |-> OneBar(Reached(i - 1), Reached(i), wick, wick, 10)]
  BY DEF Walk
<1> HIDE DEF Reached
<1>3. \A i \in 1..n : OneBar(Reached(i - 1), Reached(i), wick, wick, 10) \in Candle
  <2> TAKE i \in 1..n
  <2>1. Reached(i - 1) \in Int /\ Reached(i) \in Int
    BY <1>1
  <2> QED BY <2>1, OneBarIs
<1> QED BY <1>2, <1>3

\* the latest bars of a market,
LEMMA LatestIs ==
    ASSUME NEW s \in Long
    PROVE  Latest(s) \in Candles
<1> DEFINE a == Len(s) - N + 1
<1>1. s \in Seq(Candle) /\ Len(s) \in Nat /\ a \in Int /\ 1 <= a /\ a <= Len(s) /\ Len(s) - a + 1 = N
  BY DEF Long, N
<1>2. \A i \in a..Len(s) : s[i] \in Candle
  BY <1>1
<1> HIDE DEF a
<1>3. SubSeq(s, a, Len(s)) \in Seq(Candle) /\ Len(SubSeq(s, a, Len(s))) = Len(s) - a + 1
  BY <1>1, <1>2, SubSeqProperties
<1> QED BY <1>1, <1>3 DEF Latest, Candles, a

\* a market that goes on,
LEMMA LongerIs ==
    ASSUME NEW s \in Long, NEW t \in Seq(Candle)
    PROVE  s \o t \in Long /\ s[Len(s)] \in Candle
  BY DEF Long, N

\* the flat market,
LEMMA FlatIs == Flat \in Candles /\ Candles \subseteq Long
<1>1. N \in Nat \ {0} /\ Mid \in Int
  BY DEF N, Mid
<1> QED BY <1>1, WalkIs DEF Flat, Candles, Long

\* and a market with a leg more.
LEMMA LegIs ==
    ASSUME NEW s \in Long, NEW to \in Int, NEW n \in Nat \ {0}, NEW wick \in Int
    PROVE  s \o Walk(s[Len(s)].c, to, n, wick) \in Long
<1>1. s[Len(s)].c \in Int
  BY LongerIs DEF Candle, Long, N
<1> QED BY <1>1, WalkIs, LongerIs

\* There are such markets, for the first leg without one would not be the first.
LEMMA DrawnExist ==
    ASSUME NEW legs, NEW n \in Nat
    PROVE  \E f : DrawnTo(f, legs, n)
<1> DEFINE Bad == {m \in Nat : ~ \E f : DrawnTo(f, legs, m)}
           By(q, k) == q \o Walk(q[Len(q)].c, legs[k][1], legs[k][2], legs[k][3])
<1>0. \A f, m : DrawnTo(f, legs, m) <=> f = [k \in 0..m |-> IF k = 0 THEN Flat ELSE By(f[k - 1], k)]
  BY DEF DrawnTo
<1> HIDE DEF By
<1>1. SUFFICES ASSUME Bad # {} PROVE FALSE
  OBVIOUS
<1>2. PICK m \in Bad : \A k \in Bad : m <= k
  BY <1>1, LeastNat
<1>3. CASE m = 0
  <2> DEFINE g == [k \in 0..0 |-> Flat]
  <2>1. g = [k \in 0..0 |-> IF k = 0 THEN Flat ELSE By(g[k - 1], k)]
    OBVIOUS
  <2>2. DrawnTo(g, legs, 0)
    BY <1>0, <2>1, Zenon
  <2> QED BY <1>2, <1>3, <2>2
<1>4. CASE m # 0
  <2>1. m - 1 \in Nat /\ m \in Nat /\ m - 1 \notin Bad
    BY <1>2, <1>4
  <2>2. PICK f : f = [k \in 0..(m - 1) |-> IF k = 0 THEN Flat ELSE By(f[k - 1], k)]
    BY <1>0, <2>1
  <2> DEFINE g == [k \in 0..m |-> IF k = m THEN By(f[m - 1], m) ELSE f[k]]
  <2>3. \A k \in 0..(m - 1) : g[k] = f[k] /\ k # m /\ f[k] = IF k = 0 THEN Flat ELSE By(f[k - 1], k)
    BY <2>1, <2>2
  <2>4. ASSUME NEW k \in 0..m PROVE g[k] = IF k = 0 THEN Flat ELSE By(g[k - 1], k)
    <3>1. CASE k = m
      <4>1. m - 1 \in 0..(m - 1) /\ m # 0
        BY <2>1, <1>4
      <4> QED BY <3>1, <2>3, <4>1
    <3>2. CASE k # m /\ k # 0
      <4>1. k \in 0..(m - 1) /\ k - 1 \in 0..(m - 1)
        BY <2>1, <3>2
      <4> QED BY <3>2, <2>3, <4>1
    <3>3. CASE k # m /\ k = 0
      <4>1. k \in 0..(m - 1)
        BY <2>1, <3>3
      <4> QED BY <3>3, <2>3, <4>1
    <3> QED BY <3>1, <3>2, <3>3
  <2>5. g = [k \in 0..m |-> IF k = 0 THEN Flat ELSE By(g[k - 1], k)]
    <3>1. g = [k \in 0..m |-> g[k]]
      OBVIOUS
    <3> HIDE DEF g
    <3> QED BY <2>4, <3>1
  <2> HIDE DEF g
  <2>6. DrawnTo(g, legs, m)
    BY <1>0, <2>5, Zenon
  <2> QED BY <1>2, <2>6
<1> QED BY <1>3, <1>4

\* So legs after a flat market draw a history,
LEMMA DrawnIs ==
    ASSUME NEW legs \in Seq(Legs)
    PROVE  Drawn(legs) \in Candles
<1> DEFINE n == Len(legs)
<1>1. n \in Nat
  OBVIOUS
<1>2. \E f : f = [k \in 0..Len(legs) |->
                   IF k = 0 THEN Flat
                   ELSE LET before == f[k - 1]
                        IN before \o Walk(before[Len(before)].c, legs[k][1], legs[k][2], legs[k][3])]
  <2>1. PICK f : DrawnTo(f, legs, Len(legs))
    BY <1>1, DrawnExist
  <2> QED BY <2>1, Zenon DEF DrawnTo
<1>3. PICK f : /\ f = [k \in 0..Len(legs) |->
                         IF k = 0 THEN Flat
                         ELSE LET before == f[k - 1]
                              IN before \o Walk(before[Len(before)].c, legs[k][1], legs[k][2], legs[k][3])]
               /\ Drawn(legs) = Latest(f[Len(legs)])
  BY <1>2, Zenon DEF Drawn
<1>4. \A k \in 0..n : f[k] = IF k = 0 THEN Flat
                      ELSE f[k - 1] \o Walk(f[k - 1][Len(f[k - 1])].c, legs[k][1], legs[k][2], legs[k][3])
  BY <1>3
<1>5. \A k \in 1..n : legs[k][1] \in Int /\ legs[k][2] \in Nat \ {0} /\ legs[k][3] \in Int
  BY DEF Legs
<1> DEFINE Bad == {k \in 0..n : f[k] \notin Long}
<1>6. Bad = {}
  <2>1. SUFFICES ASSUME Bad # {} PROVE FALSE
    OBVIOUS
  <2>2. PICK i \in Bad : \A j \in Bad : i <= j
    <3>1. Bad \subseteq Nat
      BY <1>1
    <3> HIDE DEF Bad
    <3> QED BY <2>1, <3>1, LeastNat
  <2>3. i \in 0..n /\ f[i] \notin Long
    OBVIOUS
  <2>4. i # 0
    BY <1>4, <2>3, FlatIs
  <2>5. i \in 1..n /\ i - 1 \in 0..n /\ i - 1 \notin Bad
    BY <1>1, <2>2, <2>3, <2>4
  <2>6. f[i - 1] \in Long
    BY <2>5
  <2>7. f[i] \in Long
    <3>1. f[i] = f[i - 1] \o Walk(f[i - 1][Len(f[i - 1])].c, legs[i][1], legs[i][2], legs[i][3])
      BY <1>4, <2>3, <2>4
    <3>2. legs[i][1] \in Int /\ legs[i][2] \in Nat \ {0} /\ legs[i][3] \in Int
      BY <1>5, <2>5
    <3> QED BY <2>6, <3>1, <3>2, LegIs
  <2> QED BY <2>3, <2>7
<1>7. f[n] \in Long
  BY <1>1, <1>6
<1> QED BY <1>3, <1>7, LatestIs

\* and a single bar after a history makes one.
LEMMA AfterIs ==
    ASSUME NEW s \in Candles, NEW b \in Int \X Int \X Int \X Int \X Int
    PROVE  After(s, b) \in Candles
<1>1. s \in Long /\ s[Len(s)].c \in Int
  BY FlatIs, LongerIs DEF Candle, Candles, Long, N
<1> DEFINE last == s[Len(s)].c
           bar == OneBar(last + b[1], last + b[1] + b[2], b[3], b[4], b[5])
<1>2. bar \in Candle
  <2>1. last \in Int /\ last + b[1] \in Int /\ last + b[1] + b[2] \in Int /\ b[3] \in Int /\ b[4] \in Int /\ b[5] \in Int
    BY <1>1
  <2> HIDE DEF last
  <2> QED BY <2>1, OneBarIs
<1> HIDE DEF bar
<1>3. Append(s, bar) \in Long
  BY <1>1, <1>2 DEF Long, N
<1>4. After(s, b) = Latest(Append(s, bar))
  BY DEF After, bar
<1> QED BY <1>3, <1>4, LatestIs

\* The portraits are drawn in legs.
LEMMA PortraitsAreLegs ==
    ASSUME NEW name \in DOMAIN Portraits
    PROVE  Portraits[name] \in Seq(Legs)
<1>1. Portraits.v \in Seq(Legs)
  BY DEF Portraits, Legs
<1>2. Portraits.diamond \in Seq(Legs)
  BY DEF Portraits, Legs
<1>3. Portraits.cup \in Seq(Legs)
  BY DEF Portraits, Legs
<1>4. Portraits.flag \in Seq(Legs)
  BY DEF Portraits, Legs
<1>5. Portraits.pennant \in Seq(Legs)
  BY DEF Portraits, Legs
<1>6. Portraits.drives \in Seq(Legs)
  BY DEF Portraits, Legs
<1>7. Portraits.wedge \in Seq(Legs)
  BY DEF Portraits, Legs
<1>8. Portraits.expanding \in Seq(Legs)
  BY DEF Portraits, Legs
<1>9. Portraits.abcd \in Seq(Legs)
  BY DEF Portraits, Legs
<1>10. Portraits.triangle \in Seq(Legs)
  BY DEF Portraits, Legs
<1>11. Portraits.symmetrical \in Seq(Legs)
  BY DEF Portraits, Legs
<1>12. Portraits.rectangle \in Seq(Legs)
  BY DEF Portraits, Legs
<1>13. Portraits.bump \in Seq(Legs)
  BY DEF Portraits, Legs
<1>14. Portraits.round \in Seq(Legs)
  BY DEF Portraits, Legs
<1>15. Portraits.double \in Seq(Legs)
  BY DEF Portraits, Legs
<1>16. Portraits.block \in Seq(Legs)
  BY DEF Portraits, Legs
<1>17. Portraits.sweep \in Seq(Legs)
  BY DEF Portraits, Legs
<1>18. Portraits.gartley \in Seq(Legs)
  BY DEF Portraits, Legs
<1>19. DOMAIN Portraits = {"v", "diamond", "cup", "flag", "pennant", "drives", "wedge", "expanding", "abcd", "triangle", "symmetrical", "rectangle", "bump", "round", "double", "block", "sweep", "gartley"}
  BY DEF Portraits
<1> QED BY <1>1, <1>2, <1>3, <1>4, <1>5, <1>6, <1>7, <1>8, <1>9, <1>10, <1>11, <1>12, <1>13, <1>14, <1>15, <1>16, <1>17, <1>18, <1>19

\* The histories are of bars of whole numbers.
HistoryOK == bars \in Candles

\* Every market begins with a history of whole numbers,
LEMMA InitIs == Init => HistoryOK
<1>1. Flat \in Candles
  BY FlatIs
<1>2. Rise \in Candles
  <2> DEFINE legs == << <<1100, 50, 2>> >>
  <2>1. legs \in Seq(Legs)
    BY DEF Legs
  <2>2. Rise = Drawn(legs)
    BY DEF Rise
  <2> HIDE DEF legs
  <2> QED BY <2>1, <2>2, DrawnIs
<1>3. Island \in Candles
  <2>1. GapUp \in Int \X Int \X Int \X Int \X Int /\ <<-20, -4, 2, 2, 10>> \in Int \X Int \X Int \X Int \X Int
    BY DEF GapUp
  <2> DEFINE up == After(Flat, GapUp)
             later == Latest(up \o Walk(up[N].c, up[N].c + 1, 6, 2))
  <2>2. up \in Candles
    BY <1>1, <2>1, AfterIs
  <2> HIDE DEF up
  <2>3. later \in Candles
    <3>1. up \in Long /\ up[N].c \in Int /\ up[N].c + 1 \in Int /\ Len(up) = N
      <4>1. up \in Seq(Candle) /\ Len(up) = N /\ up \in Long
        BY <2>2, FlatIs DEF Candles
      <4>2. up[N] \in Candle
        BY <4>1, LongerIs
      <4> QED BY <4>1, <4>2 DEF Candle
    <3>2. up \o Walk(up[N].c, up[N].c + 1, 6, 2) \in Long
      <4>1. 6 \in Nat \ {0} /\ 2 \in Int
        OBVIOUS
      <4> QED BY <3>1, <4>1, LegIs
    <3> QED BY <3>2, LatestIs
  <2> HIDE DEF later
  <2> QED BY <2>1, <2>3, AfterIs DEF Island, up, later
<1>4. ASSUME NEW name \in DOMAIN Portraits PROVE Drawn(Portraits[name]) \in Candles
  BY PortraitsAreLegs, DrawnIs
<1> QED BY <1>1, <1>2, <1>3, <1>4 DEF Init, HistoryOK

\* and whatever arrives leaves one.
LEMMA NextIs == HistoryOK /\ [Next]_vars => HistoryOK'
<1> SUFFICES ASSUME bars \in Candles, [Next]_vars PROVE bars' \in Candles
  BY DEF HistoryOK
<1>1. CASE LegArrives
  <2>1. PICK price \in Zigzag(Len(story)) : bars' = Latest(bars \o Walk(bars[N].c, price, 10, 2))
    BY <1>1 DEF LegArrives
  <2>2. price \in Int
    BY <2>1 DEF Zigzag
  <2>3. bars \in Long /\ Len(bars) = N /\ 10 \in Nat \ {0} /\ 2 \in Int
    BY FlatIs DEF Candles
  <2>4. bars \o Walk(bars[N].c, price, 10, 2) \in Long
    BY <2>2, <2>3, LegIs
  <2> QED BY <2>1, <2>4, LatestIs
<1>2. CASE BarArrives
  <2>1. PICK b \in IF Len(story) = 1 THEN {Big, GapUp, Small} ELSE Kinds : bars' = After(bars, b)
    BY <1>2 DEF BarArrives
  <2>2. b \in Int \X Int \X Int \X Int \X Int
    BY <2>1 DEF Kinds, Big, GapUp, Small
  <2> QED BY <2>1, <2>2, AfterIs
<1>3. CASE UNCHANGED vars
  BY <1>3 DEF vars
<1> QED BY <1>1, <1>2, <1>3 DEF Next

\* PriceTwinsMirror: in particular on every history the market can draw, whatever
\* the number of legs and bars.
THEOREM PriceTwinsMirrorEachOther == Spec => []PriceTwinsMirror
<1>1. Spec => []HistoryOK
  BY InitIs, NextIs, PTL DEF Spec
<1>2. HistoryOK => PriceTwinsMirror
  BY TwinsOf DEF HistoryOK
<1> QED BY <1>1, <1>2, PTL
==============================================================================
