----------------------------- MODULE SshProofs -----------------------------
(* Proofs about the edits of ~/.ssh/config by one process at a time.  First what an edit *)
(* does to a file: it puts one block in the place of another, and every other block, and *)
(* every line of the user's, stays.  Then the invariant, and that the edits implement    *)
(* the table of HostTable.                                                               *)
EXTENDS SshProperties, SequenceTheorems, WellFoundedInduction, TLAPS

-----------------------------------------------------------------------------
(* Numbers.                                                                              *)

\* A set of numbers has a least one.
LEMMA Least ==
  ASSUME NEW T, T \subseteq Nat, T # {}
  PROVE  \E x \in T : \A y \in T : x <= y
<1> DEFINE R == OpToRel(<, Nat)
<1>1. PICK x \in T : \A y \in T : <<y, x>> \notin R
  <2>1. IsWellFoundedOn(R, Nat)
    BY NatLessThanWellFounded
  <2> HIDE DEF R
  <2> QED
    BY <2>1, WFMin
<1>2. \A y \in T : y \in Nat /\ x \in Nat /\ ~(y < x)
  <2>1. \A y \in T : <<y, x>> \in R <=> y < x
    BY DEF OpToRel
  <2> QED
    BY <1>1, <2>1
<1> QED
  BY <1>2

\* Induction, for the set of the numbers that have a property.
LEMMA SetInduction ==
  ASSUME NEW T, 0 \in T, \A n \in Nat : n \in T => n + 1 \in T
  PROVE  \A n \in Nat : n \in T
<1> DEFINE Rest == {n \in Nat : n \notin T}
<1> SUFFICES ASSUME Rest # {} PROVE FALSE
  OBVIOUS
<1>1. PICK x \in Rest : \A y \in Rest : x <= y
  BY Least
<1>2. x \in Nat /\ x # 0 /\ x \notin T
  OBVIOUS
<1>3. x - 1 \in Nat /\ x - 1 \notin Rest
  BY <1>1, <1>2
<1>4. (x - 1) + 1 \in T
  BY <1>3
<1> QED
  BY <1>2, <1>4

\* A set of numbers that is bounded has a greatest one.
LEMMA Greatest ==
  ASSUME NEW T, NEW m \in Nat, T \subseteq 0..m, T # {}
  PROVE  \E x \in T : \A y \in T : y <= x
<1> DEFINE U == {m - x : x \in T}
<1>0. \A x \in T : x \in 0..m /\ m - x \in Nat
  OBVIOUS
<1>1. U \subseteq Nat /\ U # {}
  BY <1>0
<1>2. PICK u \in U : \A v \in U : u <= v
  <2> HIDE DEF U
  <2> QED
    BY <1>1, Least
<1>3. PICK x \in T : u = m - x
  OBVIOUS
<1>4. \A y \in T : u <= m - y
  BY <1>2
<1>5. \A y \in T : y <= x
  BY <1>0, <1>3, <1>4
<1> QED
  BY <1>5

\* A number of the set that none is below is its Min.
LEMMA MinIs ==
  ASSUME NEW S, S \subseteq Nat, NEW x \in S, \A y \in S : x <= y
  PROVE  Min(S) = x
<1>1. \A z \in S : (\A y \in S : z =< y) => z = x
  OBVIOUS
<1> QED
  BY <1>1, Zenon DEF Min

\* A number of the set that none is above is its Max.
LEMMA MaxIs ==
  ASSUME NEW S, S \subseteq Nat, NEW x \in S, \A y \in S : y <= x
  PROVE  Max(S) = x
<1>1. \A z \in S : (\A y \in S : z >= y) => z = x
  OBVIOUS
<1>2. \A y \in S : x >= y
  OBVIOUS
<1> QED
  BY <1>1, <1>2, Zenon DEF Max

\* Min is in the set, and least.
LEMMA MinThere ==
  ASSUME NEW S, S \subseteq Nat, S # {}
  PROVE  Min(S) \in S /\ \A y \in S : Min(S) <= y
BY Least, MinIs

-----------------------------------------------------------------------------
(* What the code sees of a file.                                                         *)

\* A file is a sequence of lines with arguments.
LEMMA LineShape ==
  ASSUME NEW f \in Seq(Lines)
  PROVE  /\ Len(f) \in Nat /\ DOMAIN f = 1..Len(f)
         /\ \A i \in DOMAIN f : f[i] \in Lines /\ f[i].args \in Seq(Words)
<1>1. \A l \in Lines : l.args \in Seq(Words)
  BY DEF Lines
<1>2. \A i \in DOMAIN f : f[i] \in Lines
  OBVIOUS
<1> QED
  BY <1>1, <1>2

\* FindBlock finds a Host line of the box, where there is one.
LEMMA FindIs ==
  ASSUME NEW f \in Seq(Lines), NEW n
  PROVE  /\ Found(f, n) <=> \E i \in DOMAIN f : Names(f[i], n)
         /\ Found(f, n) => FindBlock(f, n) \in DOMAIN f /\ Names(f[FindBlock(f, n)], n)
         /\ ~Found(f, n) => FindBlock(f, n) = 0
<1> DEFINE I == {k \in 1..Len(f) : IsHost(f[k]) /\ Contains(f[k].args, n)}
<1>1. FindBlock(f, n) = IF I # {} THEN Min(I) ELSE 0
  BY Zenon DEF FindBlock, SelectInSeq
<1>2. I # {} => Min(I) \in I
  <2>1. I \subseteq Nat
    OBVIOUS
  <2> HIDE DEF I
  <2> QED
    BY <2>1, MinThere
<1>3. DOMAIN f = 1..Len(f) /\ I = {k \in DOMAIN f : Names(f[k], n)}
  <2>1. DOMAIN f = 1..Len(f)
    OBVIOUS
  <2> QED
    BY <2>1 DEF Names
<1> HIDE DEF I
<1> QED
  BY <1>1, <1>2, <1>3 DEF Found

\* The block of a Host line: the line itself and those below it, up to the next.
LEMMA EndThere ==
  ASSUME NEW f \in Seq(Lines), NEW i \in DOMAIN f
  PROVE  LET e == BlockEnd(f, i) IN
         /\ e \in i..Len(f)
         /\ \A k \in (i + 1)..e : ~IsHost(f[k])
         /\ e < Len(f) => IsHost(f[e + 1])
<1> DEFINE J == {k \in HostLines(f) : k > i}
           E == {j - 1 : j \in J} \cup {Len(f)}
           e == Min(E)
<1>1. BlockEnd(f, i) = e
  BY DEF BlockEnd
<1>2. Len(f) \in Nat /\ DOMAIN f = 1..Len(f) /\ J = {k \in 1..Len(f) : IsHost(f[k]) /\ k > i}
  BY LineShape DEF HostLines
<1> HIDE DEF J
<1>3. E \subseteq Nat /\ E # {}
  BY <1>2
<1>4. e \in E /\ \A y \in E : e <= y
  BY <1>3, MinThere
<1>5. e \in i..Len(f)
  BY <1>2, <1>4
<1>6. \A k \in (i + 1)..e : ~IsHost(f[k])
  <2> SUFFICES ASSUME NEW k \in (i + 1)..e, IsHost(f[k]) PROVE FALSE
    OBVIOUS
  <2>1. k \in J /\ k \in Nat
    BY <1>2, <1>5
  <2>2. e <= k - 1
    BY <1>4, <2>1
  <2> QED
    BY <1>2, <1>5, <2>1, <2>2
<1>7. e < Len(f) => IsHost(f[e + 1])
  <2> SUFFICES ASSUME e < Len(f) PROVE IsHost(f[e + 1])
    OBVIOUS
  <2>1. PICK j \in J : e = j - 1
    BY <1>2, <1>4
  <2>2. e + 1 = j
    BY <1>2, <2>1
  <2> QED
    BY <1>2, <2>2
<1> HIDE DEF e
<1> QED
  BY <1>1, <1>5, <1>6, <1>7

\* The end of a section is known by what is above and below it.
LEMMA EndIs ==
  ASSUME NEW f \in Seq(Lines), NEW i \in DOMAIN f, NEW e \in i..Len(f),
         \A k \in (i + 1)..e : ~IsHost(f[k]), e < Len(f) => IsHost(f[e + 1])
  PROVE  BlockEnd(f, i) = e
<1>1. Len(f) \in Nat /\ DOMAIN f = 1..Len(f)
  BY LineShape
<1>2. PICK x : x = BlockEnd(f, i)
  OBVIOUS
<1>3. x \in i..Len(f) /\ (\A k \in (i + 1)..x : ~IsHost(f[k])) /\ (x < Len(f) => IsHost(f[x + 1]))
  BY <1>2, EndThere
<1>4. ~(x < e)
  BY <1>1, <1>3
<1>5. ~(e < x)
  BY <1>1, <1>3
<1> QED
  BY <1>1, <1>2, <1>3, <1>4, <1>5
-----------------------------------------------------------------------------
(* A block in the place of another.                                                      *)

\* A Host line and lines that are none, or nothing.
Section(b) ==
  b # <<>> => IsHost(b[1]) /\ \A k \in 2..Len(b) : ~IsHost(b[k])

\* g is f with the section b instead of c, below the first x lines.
Swapped(f, g, x, c, b) ==
  /\ f \in Seq(Lines) /\ g \in Seq(Lines) /\ c \in Seq(Lines) /\ b \in Seq(Lines)
  /\ Section(c) /\ Section(b)
  /\ x \in Nat /\ x + Len(c) <= Len(f) /\ Len(g) = (Len(f) - Len(c)) + Len(b)
  /\ \A k \in 1..x : f[k] = g[k]
  /\ \A k \in 1..Len(c) : f[x + k] = c[k]
  /\ \A k \in 1..Len(b) : g[x + k] = b[k]
  /\ \A k \in 1..(Len(f) - Len(c) - x) : f[x + Len(c) + k] = g[x + Len(b) + k]
  /\ x + Len(c) < Len(f) => IsHost(f[x + Len(c) + 1])

\* The lines outside the block, and where they are afterwards.
Outside(f, x, c) == {k \in DOMAIN f : k <= x \/ k > x + Len(c)}
To(x, c, b, k) == IF k <= x THEN k ELSE (k - Len(c)) + Len(b)

\* To put a section in the place of another can be undone in the same way.
LEMMA SwapBack ==
  ASSUME NEW f, NEW g, NEW x, NEW c, NEW b, Swapped(f, g, x, c, b)
  PROVE  Swapped(g, f, x, b, c)
<1>1. /\ f \in Seq(Lines) /\ g \in Seq(Lines) /\ c \in Seq(Lines) /\ b \in Seq(Lines) /\ x \in Nat
      /\ Len(f) \in Nat /\ Len(g) \in Nat /\ Len(b) \in Nat /\ Len(c) \in Nat
      /\ x + Len(c) <= Len(f) /\ Len(g) = (Len(f) - Len(c)) + Len(b)
  BY DEF Swapped
<1>2. x + Len(b) <= Len(g) /\ Len(f) = (Len(g) - Len(b)) + Len(c)
      /\ Len(g) - Len(b) - x = Len(f) - Len(c) - x
      /\ (x + Len(b) < Len(g) => x + Len(c) < Len(f) /\ 1 \in 1..(Len(f) - Len(c) - x))
  BY <1>1
<1>3. x + Len(b) < Len(g) => IsHost(g[x + Len(b) + 1])
  BY <1>2 DEF Swapped
<1> QED
  BY <1>1, <1>2, <1>3 DEF Swapped

\* A line outside the section is where To says, and the order of two stays.
LEMMA ToThere ==
  ASSUME NEW f, NEW g, NEW x, NEW c, NEW b, Swapped(f, g, x, c, b)
  PROVE  /\ \A k \in Outside(f, x, c) :
              /\ To(x, c, b, k) \in Outside(g, x, b)
              /\ g[To(x, c, b, k)] = f[k]
              /\ To(x, b, c, To(x, c, b, k)) = k
         /\ \A k, l \in Outside(f, x, c) : k < l <=> To(x, c, b, k) < To(x, c, b, l)
<1>1. /\ f \in Seq(Lines) /\ g \in Seq(Lines) /\ x \in Nat
      /\ Len(f) \in Nat /\ Len(g) \in Nat /\ Len(b) \in Nat /\ Len(c) \in Nat
      /\ x + Len(c) <= Len(f) /\ Len(g) = (Len(f) - Len(c)) + Len(b)
      /\ DOMAIN f = 1..Len(f) /\ DOMAIN g = 1..Len(g)
  BY DEF Swapped
<1>2. ASSUME NEW k \in Outside(f, x, c)
      PROVE  /\ To(x, c, b, k) \in Outside(g, x, b)
             /\ g[To(x, c, b, k)] = f[k]
             /\ To(x, b, c, To(x, c, b, k)) = k
  <2>1. k \in 1..Len(f) /\ (k <= x \/ k > x + Len(c))
    BY <1>1, <1>2 DEF Outside
  <2>2. CASE k <= x
    <3>1. To(x, c, b, k) = k /\ k \in 1..x
      BY <1>1, <2>1, <2>2 DEF To
    <3>2. g[k] = f[k]
      BY <3>1 DEF Swapped
    <3> QED
      BY <1>1, <2>1, <2>2, <3>1, <3>2 DEF To, Outside
  <2>3. CASE ~(k <= x)
    <3> DEFINE l == k - (x + Len(c))
    <3>1. l \in 1..(Len(f) - Len(c) - x) /\ k = x + Len(c) + l
      BY <1>1, <2>1, <2>3
    <3>2. To(x, c, b, k) = x + Len(b) + l
      BY <1>1, <2>1, <2>3 DEF To
    <3> HIDE DEF l
    <3>3. g[x + Len(b) + l] = f[k]
      <4>1. f[x + Len(c) + l] = g[x + Len(b) + l]
        BY <3>1 DEF Swapped
      <4> QED
        BY <3>1, <4>1
    <3>4. x + Len(b) + l \in 1..Len(g) /\ x + Len(b) + l > x + Len(b)
      <4>1. l \in Nat /\ 1 <= l /\ l <= Len(f) - Len(c) - x
        BY <1>1, <3>1
      <4>2. x + Len(b) + l \in Nat /\ x + Len(b) + l <= Len(g)
        BY <1>1, <4>1
      <4> QED
        BY <1>1, <4>1, <4>2
    <3>5. To(x, b, c, x + Len(b) + l) = x + Len(c) + l
      BY <1>1, <3>1 DEF To
    <3> QED
      BY <1>1, <3>1, <3>2, <3>3, <3>4, <3>5 DEF Outside
  <2> QED
    BY <2>2, <2>3
<1>3. ASSUME NEW k \in Outside(f, x, c), NEW l \in Outside(f, x, c)
      PROVE  k < l <=> To(x, c, b, k) < To(x, c, b, l)
  BY <1>1, <1>3 DEF Outside, To
<1> QED
  BY <1>2, <1>3

\* What is above and below the block is not in its section, nor the block in theirs.
LEMMA InBlock ==
  ASSUME NEW f, NEW g, NEW x, NEW c, NEW b, Swapped(f, g, x, c, b), NEW k \in DOMAIN f
  PROVE  /\ k \notin Outside(f, x, c) =>
              /\ x + 1 \in DOMAIN f \ Outside(f, x, c) /\ IsHost(f[x + 1]) /\ f[x + 1] = c[1]
              /\ c # <<>> /\ k - x \in 1..Len(c) /\ f[k] = c[k - x]
              /\ ~Loose(f, k) /\ \A h : Under(f, h, k) <=> h = x + 1
         /\ k \in Outside(f, x, c) => \A h : Under(f, h, k) => h \in Outside(f, x, c)
<1>1. /\ f \in Seq(Lines) /\ x \in Nat /\ Len(f) \in Nat /\ Len(c) \in Nat
      /\ x + Len(c) <= Len(f) /\ DOMAIN f = 1..Len(f) /\ c \in Seq(Lines)
  BY DEF Swapped
<1>2. ASSUME k \notin Outside(f, x, c)
      PROVE  /\ x + 1 \in DOMAIN f \ Outside(f, x, c) /\ IsHost(f[x + 1]) /\ f[x + 1] = c[1]
             /\ c # <<>> /\ k - x \in 1..Len(c) /\ f[k] = c[k - x]
             /\ ~Loose(f, k) /\ \A h : Under(f, h, k) <=> h = x + 1
  <2>1. k - x \in 1..Len(c) /\ k = x + (k - x)
    BY <1>1, <1>2 DEF Outside
  <2>2. c # <<>> /\ 1 \in 1..Len(c)
    BY <1>1, <2>1
  <2>3. f[k] = c[k - x] /\ f[x + 1] = c[1]
    BY <2>1, <2>2 DEF Swapped
  <2>4. IsHost(f[x + 1]) /\ x + 1 \in 1..Len(f) /\ x + 1 <= k
    BY <1>1, <2>1, <2>2, <2>3 DEF Swapped, Section
  <2>5. x + 1 \notin Outside(f, x, c)
    BY <1>1, <2>1 DEF Outside
  <2>6. \A m \in DOMAIN f : x + 1 < m /\ m <= k => ~IsHost(f[m])
    <3> SUFFICES ASSUME NEW m \in DOMAIN f, x + 1 < m, m <= k PROVE ~IsHost(f[m])
      OBVIOUS
    <3>1. m - x \in 2..Len(c) /\ m - x \in 1..Len(c) /\ m = x + (m - x)
      BY <1>1, <2>1
    <3>2. f[m] = c[m - x]
      BY <3>1 DEF Swapped
    <3> QED
      BY <2>2, <3>1, <3>2 DEF Swapped, Section
  <2>7. ~Loose(f, k)
    BY <1>1, <2>4 DEF Loose
  <2>8. Under(f, x + 1, k)
    BY <1>1, <2>4, <2>6 DEF Under, HostLines
  <2>9. ASSUME NEW h, Under(f, h, k) PROVE h = x + 1
    <3>1. h \in 1..Len(f) /\ IsHost(f[h]) /\ h <= k
      BY <1>1, <2>9 DEF Under, HostLines
    <3>2. ~(h < x + 1)
      BY <1>1, <2>4, <2>9 DEF Under
    <3>3. ~(x + 1 < h)
      BY <1>1, <2>6, <3>1
    <3> QED
      BY <1>1, <3>1, <3>2, <3>3
  <2> QED
    BY <1>1, <2>1, <2>2, <2>3, <2>4, <2>5, <2>7, <2>8, <2>9
<1>3. ASSUME k \in Outside(f, x, c), NEW h, Under(f, h, k) PROVE h \in Outside(f, x, c)
  <2>1. h \in 1..Len(f) /\ h <= k /\ \A m \in DOMAIN f : h < m /\ m <= k => ~IsHost(f[m])
    BY <1>1, <1>3 DEF Under, HostLines
  <2>2. CASE k <= x
    BY <1>1, <2>1, <2>2 DEF Outside
  <2>3. CASE k > x + Len(c)
    <3>1. x + Len(c) + 1 \in DOMAIN f /\ x + Len(c) + 1 <= k /\ IsHost(f[x + Len(c) + 1])
      BY <1>1, <2>3 DEF Swapped
    <3> QED
      BY <1>1, <2>1, <3>1 DEF Outside
  <2> QED
    BY <1>3, <2>2, <2>3 DEF Outside
<1> QED
  BY <1>2, <1>3

\* Lines outside the block stay in their section.
LEMMA SectionsStay ==
  ASSUME NEW f, NEW g, NEW x, NEW c, NEW b, Swapped(f, g, x, c, b),
         NEW k \in Outside(f, x, c)
  PROVE  /\ \A h : Under(f, h, k) => Under(g, To(x, c, b, h), To(x, c, b, k))
         /\ Loose(f, k) => Loose(g, To(x, c, b, k))
<1> DEFINE to(m) == To(x, c, b, m)
           back(m) == To(x, b, c, m)
<1>1. /\ f \in Seq(Lines) /\ g \in Seq(Lines) /\ x \in Nat
      /\ Len(f) \in Nat /\ Len(g) \in Nat /\ Len(b) \in Nat /\ Len(c) \in Nat
      /\ x + Len(c) <= Len(f) /\ Len(g) = (Len(f) - Len(c)) + Len(b)
      /\ DOMAIN f = 1..Len(f) /\ DOMAIN g = 1..Len(g)
  BY DEF Swapped
<1>2. /\ \A m \in Outside(f, x, c) : to(m) \in Outside(g, x, b) /\ g[to(m)] = f[m] /\ back(to(m)) = m
      /\ \A m, l \in Outside(f, x, c) : m < l <=> to(m) < to(l)
  BY ToThere
<1>3. \A m \in Outside(g, x, b) : back(m) \in Outside(f, x, c) /\ f[back(m)] = g[m] /\ to(back(m)) = m
  BY SwapBack, ToThere
<1>4. k \in DOMAIN f /\ to(k) \in DOMAIN g
  BY <1>2 DEF Outside
<1>5. ASSUME NEW m \in DOMAIN g, m \notin Outside(g, x, b), m <= to(k)
      PROVE  /\ x + Len(c) + 1 \in DOMAIN f /\ x + Len(c) + 1 <= k
             /\ IsHost(f[x + Len(c) + 1]) /\ x + Len(c) + 1 \in Outside(f, x, c)
  <2>1. m > x /\ m <= x + Len(b)
    BY <1>1, <1>5 DEF Outside
  <2>2. k > x + Len(c)
    <3>1. k <= x => to(k) = k
      BY DEF To
    <3> QED
      BY <1>1, <1>4, <1>5, <2>1, <3>1 DEF Outside
  <2> QED
    BY <1>1, <1>4, <2>2 DEF Swapped, Outside
<1> HIDE DEF to, back
<1>6. ASSUME NEW h, Under(f, h, k) PROVE Under(g, to(h), to(k))
  <2>1. h \in Outside(f, x, c) /\ h \in 1..Len(f) /\ IsHost(f[h]) /\ h <= k
    BY <1>1, <1>4, <1>6, InBlock DEF Under, HostLines
  <2>2. \A m \in DOMAIN f : h < m /\ m <= k => ~IsHost(f[m])
    BY <1>6 DEF Under
  <2>3. to(h) \in DOMAIN g /\ IsHost(g[to(h)]) /\ to(h) <= to(k)
    <3>1. to(h) \in DOMAIN g /\ g[to(h)] = f[h]
      BY <1>2, <2>1 DEF Outside
    <3>2. k < h <=> to(k) < to(h)
      BY <1>2, <2>1
    <3> QED
      BY <1>1, <1>4, <2>1, <3>1, <3>2
  <2>4. ASSUME NEW m \in DOMAIN g, to(h) < m, m <= to(k) PROVE ~IsHost(g[m])
    <3>1. CASE m \in Outside(g, x, b)
      <4>1. back(m) \in Outside(f, x, c) /\ f[back(m)] = g[m] /\ to(back(m)) = m /\ back(m) \in DOMAIN f
        BY <1>3, <3>1 DEF Outside
      <4>2. h < back(m)
        BY <1>2, <2>1, <2>4, <4>1
      <4>3. ~(k < back(m))
        BY <1>1, <1>2, <1>4, <2>4, <4>1
      <4> QED
        BY <1>1, <1>4, <2>2, <4>1, <4>2, <4>3
    <3>2. CASE m \notin Outside(g, x, b)
      <4>1. /\ x + Len(c) + 1 \in DOMAIN f /\ x + Len(c) + 1 <= k
            /\ IsHost(f[x + Len(c) + 1]) /\ x + Len(c) + 1 \in Outside(f, x, c)
        BY <1>5, <2>4, <3>2
      <4>2. h <= x
        <5>1. h >= x + Len(c) + 1 => to(h) > x + Len(b)
          BY <1>1, <2>1 DEF to, To
        <5>2. m <= x + Len(b)
          BY <1>1, <3>2 DEF Outside
        <5> QED
          BY <1>1, <2>1, <2>3, <2>4, <5>1, <5>2 DEF Outside
      <4> QED
        BY <1>1, <2>1, <2>2, <4>1, <4>2
    <3> QED
      BY <3>1, <3>2
  <2> QED
    BY <1>4, <2>3, <2>4 DEF Under, HostLines
<1>7. ASSUME Loose(f, k) PROVE Loose(g, to(k))
  <2>1. \A m \in DOMAIN f : m <= k => ~IsHost(f[m])
    BY <1>7 DEF Loose
  <2>2. ASSUME NEW m \in DOMAIN g, m <= to(k) PROVE ~IsHost(g[m])
    <3>1. CASE m \in Outside(g, x, b)
      <4>1. back(m) \in Outside(f, x, c) /\ f[back(m)] = g[m] /\ to(back(m)) = m /\ back(m) \in DOMAIN f
        BY <1>3, <3>1 DEF Outside
      <4>2. ~(k < back(m))
        BY <1>1, <1>2, <1>4, <2>2, <4>1
      <4> QED
        BY <1>1, <1>4, <2>1, <4>1, <4>2
    <3>2. CASE m \notin Outside(g, x, b)
      BY <1>5, <2>1, <2>2, <3>2
    <3> QED
      BY <3>1, <3>2
  <2> QED
    BY <1>4, <2>2 DEF Loose
<1> QED
  BY <1>6, <1>7 DEF to

\* The block of a box, line by line.
LEMMA BlockShape ==
  ASSUME NEW f \in Seq(Lines), NEW n
  PROVE  /\ Block(f, n) \in Seq(Lines)
         /\ ~Found(f, n) => Block(f, n) = <<>>
         /\ Found(f, n) => LET i == FindBlock(f, n)
                               e == BlockEnd(f, i)
                               b == Block(f, n) IN
              /\ i \in DOMAIN f /\ e \in i..Len(f) /\ Len(b) = e - i + 1
              /\ \A k \in 1..Len(b) : b[k] = f[i + k - 1]
              /\ Names(b[1], n) /\ Section(b) /\ b # <<>>
<1>1. CASE ~Found(f, n)
  BY <1>1 DEF Found, Block
<1>2. CASE Found(f, n)
  <2>1. PICK i : i = FindBlock(f, n)
    OBVIOUS
  <2>2. PICK e : e = BlockEnd(f, i)
    OBVIOUS
  <2>3. i \in DOMAIN f /\ Names(f[i], n) /\ i # 0 /\ i \in 1..Len(f) /\ Len(f) \in Nat
    BY <1>2, <2>1, FindIs, LineShape DEF Found
  <2>4. e \in i..Len(f) /\ \A k \in (i + 1)..e : ~IsHost(f[k])
    BY <2>2, <2>3, EndThere
  <2>5. Block(f, n) = SubSeq(f, i, e)
    BY <2>1, <2>2, <2>3 DEF Block
  <2>6. PICK b : b = SubSeq(f, i, e)
    OBVIOUS
  <2>7. /\ b \in Seq(Lines) /\ Len(b) = e - i + 1
        /\ \A k \in 1..Len(b) : b[k] = f[i + k - 1]
    <3>1. \A k \in i..e : f[k] \in Lines
      BY <2>3, <2>4
    <3>2. i \in Int /\ e \in Int /\ i <= e
      BY <2>3, <2>4
    <3>3. /\ b \in Seq(Lines)
          /\ Len(b) = IF i <= e THEN e - i + 1 ELSE 0
          /\ \A k \in 1..(e - i + 1) : b[k] = f[i + k - 1]
      BY <2>6, <3>1, <3>2, SubSeqProperties
    <3> QED
      BY <3>2, <3>3
  <2>8. 1 \in 1..Len(b) /\ b[1] = f[i] /\ b # <<>>
    BY <2>3, <2>4, <2>7
  <2>9. \A k \in 2..Len(b) : ~IsHost(b[k])
    <3> SUFFICES ASSUME NEW k \in 2..Len(b) PROVE ~IsHost(b[k])
      OBVIOUS
    <3>1. k \in 1..Len(b) /\ i + k - 1 \in (i + 1)..e
      BY <2>3, <2>4, <2>7
    <3> QED
      BY <2>4, <2>7, <3>1
  <2> QED
    BY <1>2, <2>1, <2>2, <2>3, <2>4, <2>5, <2>6, <2>7, <2>8, <2>9 DEF Section, Names
<1> QED
  BY <1>1, <1>2

\* A block is known by its first line and its end.
BlockAt(f, i, b) ==
  /\ b # <<>> /\ Section(b) /\ i + Len(b) - 1 <= Len(f)
  /\ \A k \in 1..Len(b) : b[k] = f[i + k - 1]
  /\ i + Len(b) - 1 < Len(f) => IsHost(f[i + Len(b)])

\* It is the block of the one box that its line names.
LEMMA BlockIs ==
  ASSUME NEW f \in Seq(Lines), NEW n, NEW i \in DOMAIN f, Names(f[i], n),
         \A j \in DOMAIN f : Names(f[j], n) => j = i,
         NEW b \in Seq(Lines), BlockAt(f, i, b)
  PROVE  Block(f, n) = b /\ FindBlock(f, n) = i /\ BlockEnd(f, i) = i + Len(b) - 1
<1>0. PICK e : e = i + Len(b) - 1
  OBVIOUS
<1>1. /\ i \in 1..Len(f) /\ i \in Nat /\ Len(f) \in Nat /\ Len(b) \in Nat /\ Len(b) > 0
      /\ e \in Nat /\ e + 1 = i + Len(b) /\ Len(b) = e - i + 1 /\ i <= e /\ e <= Len(f)
  <2>1. i \in 1..Len(f) /\ Len(f) \in Nat
    BY LineShape
  <2>2. b # <<>> /\ i + Len(b) - 1 <= Len(f)
    BY DEF BlockAt
  <2> QED
    BY <1>0, <2>1, <2>2
<1>2. Found(f, n) /\ FindBlock(f, n) = i
  BY FindIs
<1>3. e \in i..Len(f) /\ (e < Len(f) => IsHost(f[e + 1]))
  <2>1. i + Len(b) - 1 < Len(f) => IsHost(f[i + Len(b)])
    BY DEF BlockAt
  <2> QED
    BY <1>0, <1>1, <2>1
<1>4. \A k \in (i + 1)..e : ~IsHost(f[k])
  <2> SUFFICES ASSUME NEW k \in (i + 1)..e PROVE ~IsHost(f[k])
    OBVIOUS
  <2>1. k - i + 1 \in 2..Len(b) /\ k - i + 1 \in 1..Len(b) /\ i + (k - i + 1) - 1 = k
    BY <1>1
  <2>2. b[k - i + 1] = f[i + (k - i + 1) - 1] /\ ~IsHost(b[k - i + 1])
    BY <2>1 DEF BlockAt, Section
  <2> QED
    BY <2>1, <2>2
<1>5. BlockEnd(f, i) = e
  BY <1>3, <1>4, EndIs
<1>6. PICK d : d = Block(f, n)
  OBVIOUS
<1>7. d \in Seq(Lines) /\ Len(d) = e - i + 1 /\ \A k \in 1..Len(d) : d[k] = f[i + k - 1]
  BY <1>2, <1>5, <1>6, BlockShape
<1>8. Len(d) = Len(b)
  BY <1>1, <1>7
<1>9. \A k \in 1..Len(d) : d[k] = b[k]
  BY <1>7, <1>8 DEF BlockAt
<1>10. d = b
  BY <1>7, <1>8, <1>9
<1> QED
  BY <1>0, <1>2, <1>5, <1>6, <1>10

\* The block of a box outside the section is moved, and stays what it is.
LEMMA OtherBlock ==
  ASSUME NEW f, NEW g, NEW x, NEW c, NEW b, Swapped(f, g, x, c, b), NEW n,
         NEW h \in Outside(f, x, c), Names(f[h], n),
         \A j \in DOMAIN f : Names(f[j], n) => j = h,
         \A j \in DOMAIN g : Names(g[j], n) => j = To(x, c, b, h)
  PROVE  Block(g, n) = Block(f, n) /\ FindBlock(g, n) = To(x, c, b, h)
<1>1. /\ f \in Seq(Lines) /\ g \in Seq(Lines) /\ x \in Nat
      /\ Len(f) \in Nat /\ Len(g) \in Nat /\ Len(b) \in Nat /\ Len(c) \in Nat
      /\ x + Len(c) <= Len(f) /\ Len(g) = (Len(f) - Len(c)) + Len(b)
      /\ DOMAIN f = 1..Len(f) /\ DOMAIN g = 1..Len(g)
  BY DEF Swapped
<1>2. PICK i : i = To(x, c, b, h)
  OBVIOUS
<1>3. i \in Outside(g, x, b) /\ g[i] = f[h] /\ i \in DOMAIN g /\ h \in DOMAIN f
  BY <1>2, ToThere DEF Outside
<1>4. Found(f, n) /\ FindBlock(f, n) = h
  BY <1>1, <1>3, FindIs
<1>5. PICK d : d = Block(f, n)
  OBVIOUS
<1>6. PICK e : e = BlockEnd(f, h)
  OBVIOUS
<1>7. /\ d \in Seq(Lines) /\ Section(d) /\ d # <<>>
      /\ e \in h..Len(f) /\ Len(d) = e - h + 1
      /\ \A k \in 1..Len(d) : d[k] = f[h + k - 1]
  BY <1>1, <1>4, <1>5, <1>6, BlockShape
<1>7a. e \in h..Len(f) /\ e \in Int /\ Len(d) = e - h + 1 /\ Len(d) \in Nat /\ h \in 1..Len(f)
  BY <1>1, <1>3, <1>7
<1>8. e < Len(f) => IsHost(f[e + 1])
  BY <1>1, <1>3, <1>6, EndThere
<1>9. \A k \in (h + 1)..e : ~IsHost(f[k])
  BY <1>1, <1>3, <1>6, EndThere
<1>10. CASE h > x + Len(c)
  <2>1. i = (h - Len(c)) + Len(b) /\ i > x + Len(b)
    BY <1>1, <1>2, <1>3, <1>10 DEF To
  <2>2. \A k \in 1..Len(d) : d[k] = g[i + k - 1]
    <3> SUFFICES ASSUME NEW k \in 1..Len(d) PROVE d[k] = g[i + k - 1]
      OBVIOUS
    <3> PICK l : l = h + k - 1 - (x + Len(c))
      OBVIOUS
    <3>1. l \in 1..(Len(f) - Len(c) - x) /\ h + k - 1 = x + Len(c) + l /\ i + k - 1 = x + Len(b) + l
      <4>1. k \in Int /\ 1 <= k /\ k <= Len(d) /\ l \in Int
        BY <1>1, <1>7a
      <4>2. h + k - 1 = x + Len(c) + l /\ i + k - 1 = x + Len(b) + l
        BY <1>1, <1>7a, <2>1, <4>1
      <4>3. 1 <= l
        BY <1>1, <1>7a, <1>10, <4>1
      <4>4. h + k - 1 <= e /\ e <= Len(f)
        BY <1>7a, <4>1
      <4>5. l <= Len(f) - Len(c) - x
        BY <1>1, <1>7a, <4>1, <4>4
      <4> QED
        BY <1>1, <4>1, <4>2, <4>3, <4>5
    <3> QED
      BY <1>7, <3>1 DEF Swapped
  <2>3. i + Len(d) - 1 <= Len(g)
    BY <1>1, <1>7a, <2>1
  <2>4. i + Len(d) - 1 < Len(g) => IsHost(g[i + Len(d)])
    <3> SUFFICES ASSUME i + Len(d) - 1 < Len(g) PROVE IsHost(g[i + Len(d)])
      OBVIOUS
    <3> DEFINE l == e + 1 - (x + Len(c))
    <3>1. l \in 1..(Len(f) - Len(c) - x) /\ e + 1 = x + Len(c) + l /\ i + Len(d) = x + Len(b) + l
          /\ e < Len(f)
      BY <1>1, <1>7a, <1>10, <2>1
    <3> HIDE DEF l
    <3> QED
      BY <1>8, <3>1 DEF Swapped
  <2>5. BlockAt(g, i, d)
    BY <1>7, <2>2, <2>3, <2>4 DEF BlockAt
  <2> QED
    BY <1>1, <1>2, <1>3, <1>5, <1>7, <2>5, BlockIs
<1>11. CASE h <= x
  <2>1. i = h
    BY <1>2, <1>11 DEF To
  <2>2. e <= x
    <3>1. CASE c # <<>>
      <4>1. x + 1 \in DOMAIN f /\ IsHost(f[x + 1])
        <5>1. 1 \in 1..Len(c)
          BY <1>1, <3>1 DEF Swapped
        <5> QED
          BY <1>1, <5>1 DEF Swapped, Section
      <4> QED
        BY <1>1, <1>3, <1>7, <1>9, <1>11, <4>1
    <3>2. CASE c = <<>>
      BY <1>1, <1>3, <1>7, <1>9, <1>11, <3>2 DEF Swapped
    <3> QED
      BY <3>1, <3>2
  <2>3. \A k \in 1..Len(d) : d[k] = g[i + k - 1]
    <3> SUFFICES ASSUME NEW k \in 1..Len(d) PROVE d[k] = g[i + k - 1]
      OBVIOUS
    <3>1. h + k - 1 \in 1..x
      BY <1>1, <1>7a, <2>2
    <3> QED
      BY <1>7, <2>1, <3>1 DEF Swapped
  <2>4. i + Len(d) - 1 = e
    BY <1>1, <1>7a, <2>1
  <2>5. e < Len(g) => IsHost(g[e + 1])
    <3> SUFFICES ASSUME e < Len(g) PROVE IsHost(g[e + 1])
      OBVIOUS
    <3>1. CASE e < x
      <4>1. e + 1 \in 1..x /\ e < Len(f)
        BY <1>1, <1>7a, <3>1
      <4> QED
        BY <1>8, <4>1 DEF Swapped
    <3>2. CASE e = x /\ b # <<>>
      <4>1. 1 \in 1..Len(b)
        BY <1>1, <3>2 DEF Swapped
      <4> QED
        BY <3>2, <4>1 DEF Swapped, Section
    <3>3. CASE e = x /\ b = <<>>
      <4>1. Len(b) = 0 /\ 1 \in 1..(Len(f) - Len(c) - x) /\ x + Len(c) < Len(f)
        BY <1>1, <3>3
      <4>2. g[x + Len(b) + 1] = f[x + Len(c) + 1] /\ IsHost(f[x + Len(c) + 1])
        BY <4>1 DEF Swapped
      <4> QED
        BY <1>1, <3>3, <4>1, <4>2
    <3> QED
      BY <1>1, <1>7a, <2>2, <3>1, <3>2, <3>3
  <2>6. i + Len(d) = e + 1 /\ e <= Len(g)
    BY <1>1, <1>7a, <2>1, <2>2, <2>4
  <2>7. BlockAt(g, i, d)
    BY <1>7, <2>3, <2>4, <2>5, <2>6 DEF BlockAt
  <2> QED
    BY <1>1, <1>2, <1>3, <1>5, <1>7, <2>7, BlockIs
<1> QED
  BY <1>1, <1>3, <1>10, <1>11 DEF Outside

\* The new section is the block of the box its line names.
LEMMA NewBlock ==
  ASSUME NEW f, NEW g, NEW x, NEW c, NEW b, Swapped(f, g, x, c, b), NEW n,
         b # <<>>, Names(b[1], n), \A j \in DOMAIN g : Names(g[j], n) => j = x + 1
  PROVE  Block(g, n) = b
<1>1. /\ f \in Seq(Lines) /\ g \in Seq(Lines) /\ x \in Nat /\ b \in Seq(Lines)
      /\ Len(f) \in Nat /\ Len(g) \in Nat /\ Len(b) \in Nat /\ Len(c) \in Nat
      /\ x + Len(c) <= Len(f) /\ Len(g) = (Len(f) - Len(c)) + Len(b)
      /\ DOMAIN f = 1..Len(f) /\ DOMAIN g = 1..Len(g)
  BY DEF Swapped
<1>2. 1 \in 1..Len(b) /\ x + 1 \in DOMAIN g /\ g[x + 1] = b[1]
  <2>1. 1 \in 1..Len(b)
    BY <1>1
  <2> QED
    BY <1>1, <2>1 DEF Swapped
<1>3. \A k \in 1..Len(b) : b[k] = g[x + 1 + k - 1]
  <2>1. \A k \in 1..Len(b) : x + 1 + k - 1 = x + k
    BY <1>1
  <2> QED
    BY <2>1 DEF Swapped
<1>4. x + 1 + Len(b) - 1 = x + Len(b) /\ x + 1 + Len(b) = x + Len(b) + 1
  <2>1. x \in Nat /\ Len(b) \in Nat
    BY <1>1
  <2> QED
    BY ONLY <2>1
<1>5. x + Len(b) < Len(g) => IsHost(g[x + Len(b) + 1])
  <2>1. Swapped(g, f, x, b, c)
    BY SwapBack
  <2> QED
    BY ONLY <2>1 DEF Swapped
<1>6. Section(b) /\ x + Len(b) <= Len(g)
  BY SwapBack DEF Swapped
<1>7. BlockAt(g, x + 1, b)
  BY <1>3, <1>4, <1>5, <1>6 DEF BlockAt
<1> QED
  BY <1>1, <1>2, <1>7, BlockIs

-----------------------------------------------------------------------------
(* What a rewritten block leaves of the file.                                            *)

\* The block of n, or none, is replaced by one of m, or by none.
Rewrites(f, g, x, c, b, n, m) ==
  /\ Swapped(f, g, x, c, b)
  /\ n \in Boxes /\ m \in Boxes
  /\ c # <<>> => Names(c[1], n)
  /\ b # <<>> => Sole(b[1], m)
  /\ \A k \in Outside(f, x, c) : ~Names(f[k], m)
  /\ \A k \in 1..Len(b) :
       /\ b[k].key # "Match" /\ b[k].args # <<>>
       /\ b[k].key = "HostName" => b[k].args[1] \in Addrs

\* A line that is of one box names no other.
LEMMA NamesSole ==
  ASSUME NEW l \in Lines, NEW m \in Boxes, Sole(l, m), NEW n \in Boxes, Names(l, n)
  PROVE  n = m
<1>1. l.args \in Seq(Words)
  BY DEF Lines
<1>2. PICK j \in 1..Len(l.args) : l.args[j] = n
  BY DEF Names, Contains
<1>3. PICK k \in 1..Len(l.args) : l.args[k] = m
  BY DEF Sole, Names, Contains
<1>4. j \in DOMAIN l.args /\ k \in DOMAIN l.args
  BY <1>1
<1> QED
  BY <1>2, <1>3, <1>4 DEF Sole

\* A line afterwards: one of before, or one of the new block.
LEMMA LineOf ==
  ASSUME NEW f, NEW g, NEW x, NEW c, NEW b, NEW n, NEW m, Rewrites(f, g, x, c, b, n, m),
         NEW k \in DOMAIN g
  PROVE  \/ /\ k \in Outside(g, x, b)
            /\ To(x, b, c, k) \in Outside(f, x, c) /\ To(x, b, c, k) \in DOMAIN f
            /\ f[To(x, b, c, k)] = g[k] /\ To(x, c, b, To(x, b, c, k)) = k
         \/ /\ k \notin Outside(g, x, b) /\ b # <<>> /\ k - x \in 1..Len(b) /\ g[k] = b[k - x]
            /\ g[x + 1] = b[1] /\ IsHost(b[1]) /\ (IsHost(g[k]) => k = x + 1)
<1>1. Swapped(f, g, x, c, b) /\ Swapped(g, f, x, b, c)
  BY SwapBack DEF Rewrites
<1>2. CASE k \in Outside(g, x, b)
  BY <1>1, <1>2, ToThere DEF Outside
<1>3. CASE k \notin Outside(g, x, b)
  <2>1. /\ IsHost(g[x + 1]) /\ g[x + 1] = b[1] /\ b # <<>> /\ k - x \in 1..Len(b) /\ g[k] = b[k - x]
        /\ \A h : Under(g, h, k) <=> h = x + 1
    BY <1>1, <1>3, InBlock
  <2>2. IsHost(g[k]) => k = x + 1
    <3>1. DOMAIN g = 1..Len(g) /\ x \in Nat /\ Len(g) \in Nat
      BY <1>1 DEF Swapped
    <3>2. IsHost(g[k]) => Under(g, k, k)
      BY <3>1 DEF Under, HostLines
    <3> QED
      BY <2>1, <3>2
  <2> QED
    BY <1>3, <2>1, <2>2
<1> QED
  BY <1>2, <1>3

\* Which lines name a box afterwards.
LEMMA NamedAfter ==
  ASSUME NEW f, NEW g, NEW x, NEW c, NEW b, NEW n, NEW m, Rewrites(f, g, x, c, b, n, m),
         NEW k \in DOMAIN g, NEW o \in Boxes, Names(g[k], o)
  PROVE  \/ /\ k \in Outside(g, x, b) /\ o # m
            /\ To(x, b, c, k) \in Outside(f, x, c) /\ To(x, b, c, k) \in DOMAIN f
            /\ Names(f[To(x, b, c, k)], o) /\ To(x, c, b, To(x, b, c, k)) = k
         \/ k = x + 1 /\ o = m /\ b # <<>> /\ g[k] = b[1] /\ k \notin Outside(g, x, b)
<1>1. CASE k \in Outside(g, x, b)
  BY <1>1, LineOf DEF Rewrites
<1>2. CASE k \notin Outside(g, x, b)
  <2>1. k = x + 1 /\ g[k] = b[1] /\ b # <<>>
    BY <1>2, LineOf DEF Names
  <2>2. b[1] \in Lines /\ Sole(b[1], m) /\ m \in Boxes
    BY <2>1 DEF Rewrites, Swapped
  <2> QED
    BY <1>2, <2>1, <2>2, NamesSole
<1> QED
  BY <1>1, <1>2

\* A rewritten file is WellFormed if it was.
LEMMA StaysWellFormed ==
  ASSUME NEW f, NEW g, NEW x, NEW c, NEW b, NEW n, NEW m, Rewrites(f, g, x, c, b, n, m),
         WellFormed(f)
  PROVE  WellFormed(g)
<1>0. Swapped(g, f, x, b, c)
  BY SwapBack DEF Rewrites
<1>1. \A k \in DOMAIN g : g[k].key # "Match" /\ g[k].args # <<>>
  BY LineOf DEF Rewrites, WellFormed
<1>2. ASSUME NEW k \in DOMAIN g, NEW o \in Boxes, Names(g[k], o) PROVE Sole(g[k], o)
  BY <1>2, NamedAfter, LineOf DEF Rewrites, WellFormed
<1>3. ASSUME NEW j \in DOMAIN g, NEW k \in DOMAIN g, NEW o \in Boxes, Names(g[j], o), Names(g[k], o)
      PROVE  j = k
  <2>1. CASE o = m
    BY <1>3, <2>1, NamedAfter
  <2>2. CASE o # m
    <3>1. To(x, b, c, j) \in DOMAIN f /\ Names(f[To(x, b, c, j)], o) /\ To(x, c, b, To(x, b, c, j)) = j
      BY <1>3, <2>2, NamedAfter
    <3>2. To(x, b, c, k) \in DOMAIN f /\ Names(f[To(x, b, c, k)], o) /\ To(x, c, b, To(x, b, c, k)) = k
      BY <1>3, <2>2, NamedAfter
    <3>3. To(x, b, c, j) = To(x, b, c, k)
      BY <3>1, <3>2 DEF WellFormed
    <3> QED
      BY <3>1, <3>2, <3>3
  <2> QED
    BY <2>1, <2>2
<1>4. ASSUME NEW h \in DOMAIN g, NEW k \in DOMAIN g, NEW o \in Boxes,
             Under(g, h, k), Names(g[h], o), g[k].key = "HostName"
      PROVE  g[k].args[1] \in Addrs
  <2>1. CASE k \in Outside(g, x, b)
    <3>1. h \in Outside(g, x, b)
      BY <1>0, <1>4, <2>1, InBlock
    <3>2. Under(f, To(x, b, c, h), To(x, b, c, k))
      BY <1>0, <1>4, <2>1, SectionsStay
    <3>3. /\ To(x, b, c, h) \in DOMAIN f /\ f[To(x, b, c, h)] = g[h]
          /\ To(x, b, c, k) \in DOMAIN f /\ f[To(x, b, c, k)] = g[k]
      BY <2>1, <3>1, LineOf
    <3> QED
      BY <1>4, <3>2, <3>3 DEF WellFormed
  <2>2. CASE k \notin Outside(g, x, b)
    BY <1>4, <2>2, LineOf DEF Rewrites
  <2> QED
    BY <2>1, <2>2
<1> QED
  BY <1>1, <1>2, <1>3, <1>4 DEF WellFormed

\* A rewritten file sets nothing for all hosts that it did not.
LEMMA StaysNothingForAll ==
  ASSUME NEW f, NEW g, NEW x, NEW c, NEW b, NEW n, NEW m, Rewrites(f, g, x, c, b, n, m),
         NothingForAll(f)
  PROVE  NothingForAll(g)
<1>0. Swapped(f, g, x, c, b) /\ Swapped(g, f, x, b, c)
  BY SwapBack DEF Rewrites
<1> SUFFICES ASSUME NEW k \in DOMAIN g, g[k].key \in Written
             PROVE  /\ ~Loose(g, k)
                    /\ \A h \in DOMAIN g : Under(g, h, k) => ~Contains(g[h].args, AllHosts)
  BY DEF NothingForAll
<1>1. CASE k \in Outside(g, x, b)
  <2> DEFINE l == To(x, b, c, k)
  <2>1. l \in DOMAIN f /\ f[l] = g[k]
    BY <1>1, LineOf
  <2>2. Loose(g, k) => Loose(f, l)
    BY <1>0, <1>1, SectionsStay
  <2>3. ASSUME NEW h \in DOMAIN g, Under(g, h, k) PROVE ~Contains(g[h].args, AllHosts)
    <3>1. Under(f, To(x, b, c, h), l)
      BY <1>0, <1>1, <2>3, SectionsStay
    <3>2. h \in Outside(g, x, b)
      BY <1>0, <1>1, <2>3, InBlock
    <3>3. To(x, b, c, h) \in DOMAIN f /\ f[To(x, b, c, h)] = g[h]
      BY <3>2, LineOf
    <3> QED
      BY <2>1, <3>1, <3>3 DEF NothingForAll
  <2> QED
    BY <2>1, <2>2, <2>3 DEF NothingForAll
<1>2. CASE k \notin Outside(g, x, b)
  <2>1. ~Loose(g, k) /\ b # <<>> /\ g[x + 1] = b[1] /\ \A h : Under(g, h, k) <=> h = x + 1
    BY <1>0, <1>2, InBlock
  <2> QED
    BY <2>1 DEF Rewrites, Sole
<1> QED
  BY <1>1, <1>2

\* The blocks afterwards.
LEMMA BlocksAfter ==
  ASSUME NEW f, NEW g, NEW x, NEW c, NEW b, NEW n, NEW m, Rewrites(f, g, x, c, b, n, m),
         WellFormed(f)
  PROVE  /\ \A o \in Boxes \ {n, m} : Block(g, o) = Block(f, o)
         /\ b # <<>> => Block(g, m) = b
         /\ c # <<>> /\ (b = <<>> \/ n # m) => Block(g, n) = <<>>
<1>0. Swapped(f, g, x, c, b) /\ f \in Seq(Lines) /\ g \in Seq(Lines) /\ n \in Boxes /\ m \in Boxes
  BY DEF Rewrites, Swapped
<1>1. ASSUME NEW o \in Boxes \ {n, m} PROVE Block(g, o) = Block(f, o)
  <2>1. CASE ~Found(f, o)
    <3>1. ~Found(g, o)
      <4> SUFFICES ASSUME NEW k \in DOMAIN g, Names(g[k], o) PROVE FALSE
        BY <1>0, FindIs
      <4>1. To(x, b, c, k) \in DOMAIN f /\ Names(f[To(x, b, c, k)], o)
        BY <1>1, NamedAfter
      <4> QED
        BY <1>0, <2>1, <4>1, FindIs
    <3> QED
      BY <1>0, <2>1, <3>1, BlockShape
  <2>2. CASE Found(f, o)
    <3>1. PICK h \in DOMAIN f : Names(f[h], o)
      BY <1>0, <2>2, FindIs
    <3>2. h \in Outside(f, x, c)
      <4> SUFFICES ASSUME h \notin Outside(f, x, c) PROVE FALSE
        OBVIOUS
      <4>1. /\ IsHost(f[x + 1]) /\ f[x + 1] = c[1] /\ c # <<>> /\ x + 1 \in DOMAIN f
            /\ \A l : Under(f, l, h) <=> l = x + 1
        BY <1>0, InBlock
      <4>2. Under(f, h, h)
        <5>1. DOMAIN f = 1..Len(f) /\ Len(f) \in Nat
          BY <1>0
        <5> QED
          BY <3>1, <5>1 DEF Under, HostLines, Names
      <4>3. h = x + 1 /\ Names(f[h], n)
        BY <4>1, <4>2 DEF Rewrites
      <4>4. Sole(f[h], n) /\ f[h] \in Lines
        BY <1>0, <4>3 DEF WellFormed
      <4> QED
        BY <1>0, <1>1, <3>1, <4>4, NamesSole
    <3>3. \A j \in DOMAIN f : Names(f[j], o) => j = h
      BY <3>1 DEF WellFormed
    <3>4. \A j \in DOMAIN g : Names(g[j], o) => j = To(x, c, b, h)
      <4> SUFFICES ASSUME NEW j \in DOMAIN g, Names(g[j], o) PROVE j = To(x, c, b, h)
        OBVIOUS
      <4>1. /\ To(x, b, c, j) \in DOMAIN f /\ Names(f[To(x, b, c, j)], o)
            /\ To(x, c, b, To(x, b, c, j)) = j
        BY <1>1, NamedAfter
      <4> QED
        BY <3>3, <4>1
    <3> QED
      BY <1>0, <3>1, <3>2, <3>3, <3>4, OtherBlock
  <2> QED
    BY <2>1, <2>2
<1>2. b # <<>> => Block(g, m) = b
  <2> SUFFICES ASSUME b # <<>> PROVE Block(g, m) = b
    OBVIOUS
  <2>1. Names(b[1], m)
    BY DEF Rewrites, Sole
  <2>2. \A j \in DOMAIN g : Names(g[j], m) => j = x + 1
    BY <1>0, NamedAfter
  <2> QED
    BY <1>0, <2>1, <2>2, NewBlock
<1>3. ASSUME c # <<>>, b = <<>> \/ n # m PROVE Block(g, n) = <<>>
  <2>1. x + 1 \in DOMAIN f /\ Names(f[x + 1], n) /\ x + 1 \notin Outside(f, x, c)
    <3>1. 1 \in 1..Len(c) /\ x \in Nat /\ DOMAIN f = 1..Len(f) /\ x + Len(c) <= Len(f) /\ Len(c) \in Nat
          /\ Len(f) \in Nat
      BY <1>3 DEF Rewrites, Swapped
    <3>2. f[x + 1] = c[1]
      BY <3>1 DEF Rewrites, Swapped
    <3> QED
      BY <1>3, <3>1, <3>2 DEF Rewrites, Outside
  <2>2. ASSUME NEW k \in DOMAIN g, Names(g[k], n) PROVE FALSE
    <3>1. To(x, b, c, k) \in Outside(f, x, c) /\ To(x, b, c, k) \in DOMAIN f /\ Names(f[To(x, b, c, k)], n)
      BY <1>0, <1>3, <2>2, NamedAfter
    <3>2. To(x, b, c, k) = x + 1
      BY <1>0, <2>1, <3>1 DEF WellFormed
    <3> QED
      BY <2>1, <3>1, <3>2
  <2> QED
    BY <1>0, <2>2, FindIs, BlockShape
<1> QED
  BY <1>1, <1>2, <1>3

-----------------------------------------------------------------------------
(* The lines of the user's.                                                              *)

\* The header of a line is the Host line it is under.
LEMMA HeaderIs ==
  ASSUME NEW f \in Seq(Lines), \A j \in DOMAIN f : f[j].key # "Match", NEW i \in DOMAIN f
  PROVE  /\ Loose(f, i) => Header(f, i) = 0
         /\ \A h : Under(f, h, i) => Header(f, i) = h
         /\ Loose(f, i) \/ \E h \in DOMAIN f : Under(f, h, i)
<1> DEFINE I == {k \in 1..i : f[k].key \in {"Host", "Match"}}
<1>1. Header(f, i) = IF I # {} THEN Max(I) ELSE 0
  BY Zenon DEF Header, SelectLastInSubSeq
<1>2. i \in 1..Len(f) /\ Len(f) \in Nat /\ DOMAIN f = 1..Len(f)
  BY LineShape
<1>3. I = {k \in DOMAIN f : k <= i /\ IsHost(f[k])}
  <2>1. \A k : k \in 1..i <=> k \in DOMAIN f /\ k <= i
    BY <1>2
  <2> QED
    BY <2>1 DEF IsHost
<1> HIDE DEF I
<1>4. ASSUME Loose(f, i) PROVE Header(f, i) = 0
  BY <1>1, <1>3, <1>4 DEF Loose
<1>5. ASSUME NEW h, Under(f, h, i) PROVE Header(f, i) = h
  <2>1. h \in I /\ h \in 1..Len(f)
    BY <1>2, <1>3, <1>5 DEF Under, HostLines
  <2>2. \A k \in I : k <= h
    <3> SUFFICES ASSUME NEW k \in I, ~(k <= h) PROVE FALSE
      OBVIOUS
    <3>1. k \in DOMAIN f /\ k <= i /\ IsHost(f[k]) /\ h < k
      BY <1>2, <1>3, <2>1
    <3> QED
      BY <1>5, <3>1 DEF Under
  <2>3. I \subseteq Nat
    BY <1>2, <1>3
  <2> QED
    BY <1>1, <2>1, <2>2, <2>3, MaxIs
<1>6. ASSUME ~Loose(f, i) PROVE \E h \in DOMAIN f : Under(f, h, i)
  <2>1. I # {}
    BY <1>3, <1>6 DEF Loose
  <2>2. I \subseteq 0..Len(f)
    BY <1>2, <1>3
  <2>3. PICK h \in I : \A k \in I : k <= h
    BY <1>2, <2>1, <2>2, Greatest
  <2>4. h \in DOMAIN f /\ h <= i /\ IsHost(f[h])
    BY <1>3
  <2>5. ASSUME NEW k \in DOMAIN f, h < k, k <= i PROVE ~IsHost(f[k])
    <3>1. h \in Int /\ k \in Int /\ ~(k <= h)
      BY <1>2, <2>4, <2>5
    <3> QED
      BY <1>3, <2>3, <2>5, <3>1
  <2> QED
    BY <2>4, <2>5 DEF Under, HostLines
<1> QED
  BY <1>4, <1>5, <1>6

\* The lines of the first i places that are in S: LinesAt is defined by recursion over i.
Grown(f, S, u, i) ==
  IF i = 0 THEN <<>> ELSE IF i \in S THEN Append(u[i - 1], f[i]) ELSE u[i - 1]
UpTo(f, S) == CHOOSE u : u = [i \in 0..Len(f) |-> Grown(f, S, u, i)]

\* LinesAt takes the lines one by one.
LEMMA UpToGrows ==
  ASSUME NEW f \in Seq(Lines), NEW S
  PROVE  /\ LinesAt(f, S) = UpTo(f, S)[Len(f)]
         /\ UpTo(f, S)[0] = <<>>
         /\ \A i \in 1..Len(f) : UpTo(f, S)[i] = IF i \in S THEN Append(UpTo(f, S)[i - 1], f[i])
                                                 ELSE UpTo(f, S)[i - 1]
<1> DEFINE T == {m \in Nat : \E u : u = [i \in 0..m |-> Grown(f, S, u, i)]}
<1>1. 0 \in T
  <2> DEFINE u == [i \in 0..0 |-> <<>>]
  <2>1. u = [i \in 0..0 |-> Grown(f, S, u, i)]
    BY DEF Grown
  <2> QED
    BY <2>1
<1>2. ASSUME NEW m \in Nat, m \in T PROVE m + 1 \in T
  <2>1. PICK u : u = [i \in 0..m |-> Grown(f, S, u, i)]
    BY <1>2
  <2> DEFINE v == [i \in 0..(m + 1) |-> IF i = m + 1 THEN Grown(f, S, u, m + 1) ELSE u[i]]
  <2>2. \A i \in 0..m : v[i] = u[i]
    OBVIOUS
  <2>3. ASSUME NEW i \in 0..(m + 1) PROVE v[i] = Grown(f, S, v, i)
    <3>1. i # 0 => i - 1 \in 0..m
      OBVIOUS
    <3>2. Grown(f, S, u, i) = Grown(f, S, v, i)
      <4> HIDE DEF v
      <4> QED
        BY <2>2, <3>1 DEF Grown
    <3>3. CASE i = m + 1
      BY <3>2, <3>3
    <3>4. CASE i # m + 1
      <4>1. i \in 0..m
        BY <3>4
      <4>2. u[i] = Grown(f, S, u, i)
        BY <2>1, <4>1
      <4> QED
        BY <2>2, <3>2, <4>1, <4>2
    <3> QED
      BY <3>3, <3>4
  <2>4. v = [i \in 0..(m + 1) |-> Grown(f, S, v, i)]
    BY <2>3
  <2> HIDE DEF v
  <2>5. \E w : w = [i \in 0..(m + 1) |-> Grown(f, S, w, i)]
    BY <2>4, Zenon
  <2> QED
    BY <2>5
<1>3. Len(f) \in Nat
  OBVIOUS
<1>4. Len(f) \in T
  <2> HIDE DEF T
  <2> QED
    BY <1>1, <1>2, <1>3, SetInduction
<1>5. PICK w : w = UpTo(f, S)
  OBVIOUS
<1>6. w = [i \in 0..Len(f) |-> Grown(f, S, w, i)]
  BY <1>4, <1>5, Zenon DEF UpTo
<1>7. LinesAt(f, S) = w[Len(f)]
  BY <1>5, Zenon DEF LinesAt, UpTo, Grown
<1>8. w[0] = <<>>
  BY <1>3, <1>6 DEF Grown
<1>9. ASSUME NEW i \in 1..Len(f)
      PROVE  w[i] = IF i \in S THEN Append(w[i - 1], f[i]) ELSE w[i - 1]
  <2>1. i \in 0..Len(f) /\ i # 0
    BY <1>3
  <2>2. w[i] = Grown(f, S, w, i)
    BY <1>6, <2>1
  <2> QED
    BY <2>1, <2>2 DEF Grown
<1> QED
  BY <1>5, <1>7, <1>8, <1>9

\* No line of a block is taken, so what is taken after it is what was before it.
LEMMA NoneTaken ==
  ASSUME NEW f \in Seq(Lines), NEW S, NEW x \in Nat, NEW d \in Nat, x + d <= Len(f),
         \A k \in 1..d : x + k \notin S
  PROVE  UpTo(f, S)[x + d] = UpTo(f, S)[x]
<1> DEFINE u == UpTo(f, S)
           T == {k \in Nat : k <= d => u[x + k] = u[x]}
<1>1. 0 \in T
  <2>1. x + 0 = x
    OBVIOUS
  <2> QED
    BY <2>1
<1>2. ASSUME NEW k \in Nat, k \in T PROVE k + 1 \in T
  <2> SUFFICES ASSUME k + 1 <= d PROVE u[x + (k + 1)] = u[x]
    OBVIOUS
  <2>1. u[x + k] = u[x]
    BY <1>2
  <2>2. k + 1 \in 1..d /\ x + (k + 1) \in 1..Len(f) /\ (x + (k + 1)) - 1 = x + k
    BY <1>2
  <2> HIDE DEF u
  <2>3. x + (k + 1) \notin S
    BY <2>2
  <2>4. u[x + (k + 1)] = u[(x + (k + 1)) - 1]
    BY <2>2, <2>3, UpToGrows DEF u
  <2> QED
    BY <2>1, <2>2, <2>4
<1>3. d \in T
  <2> HIDE DEF T
  <2> QED
    BY <1>1, <1>2, SetInduction
<1> QED
  BY <1>3

\* Two files that have the same lines in the same order at the places taken.
Alike(f, S, x, g, T, y, d) ==
  \A k \in 1..d : f[x + k] = g[y + k] /\ (x + k \in S <=> y + k \in T)

\* From two such files the same lines are taken.
LEMMA SameTaken ==
  ASSUME NEW f \in Seq(Lines), NEW g \in Seq(Lines), NEW S, NEW T,
         NEW x, NEW y, NEW d, x \in Nat /\ y \in Nat /\ d \in Nat,
         x + d <= Len(f), y + d <= Len(g),
         Alike(f, S, x, g, T, y, d),
         UpTo(f, S)[x] = UpTo(g, T)[y]
  PROVE  UpTo(f, S)[x + d] = UpTo(g, T)[y + d]
<1> DEFINE u == UpTo(f, S)
           v == UpTo(g, T)
           Q == {k \in Nat : k <= d => u[x + k] = v[y + k]}
<1>1. 0 \in Q
  <2>1. x + 0 = x /\ y + 0 = y
    OBVIOUS
  <2> QED
    BY <2>1
<1>2. ASSUME NEW k \in Nat, k \in Q PROVE k + 1 \in Q
  <2> SUFFICES ASSUME k + 1 <= d PROVE u[x + (k + 1)] = v[y + (k + 1)]
    OBVIOUS
  <2>1. u[x + k] = v[y + k]
    BY <1>2
  <2>2. /\ k + 1 \in 1..d
        /\ x + (k + 1) \in 1..Len(f) /\ (x + (k + 1)) - 1 = x + k
        /\ y + (k + 1) \in 1..Len(g) /\ (y + (k + 1)) - 1 = y + k
    BY <1>2
  <2> HIDE DEF u, v
  <2>3. f[x + (k + 1)] = g[y + (k + 1)] /\ (x + (k + 1) \in S <=> y + (k + 1) \in T)
    BY <2>2 DEF Alike
  <2>4. u[x + (k + 1)] = IF x + (k + 1) \in S THEN Append(u[x + k], f[x + (k + 1)]) ELSE u[x + k]
    BY <2>2, UpToGrows DEF u
  <2>5. v[y + (k + 1)] = IF y + (k + 1) \in T THEN Append(v[y + k], g[y + (k + 1)]) ELSE v[y + k]
    BY <2>2, UpToGrows DEF v
  <2> QED
    BY <2>1, <2>3, <2>4, <2>5
<1>3. d \in Q
  <2> HIDE DEF Q
  <2> QED
    BY <1>1, <1>2, SetInduction
<1> QED
  BY <1>3

\* A line is the user's when it is under no Host line, or under one of no box.
LEMMA UsersLine ==
  ASSUME NEW f \in Seq(Lines), WellFormed(f), NEW i \in DOMAIN f
  PROVE  OfTheUser(f, i) <=> \/ Loose(f, i)
                             \/ \E h \in DOMAIN f : Under(f, h, i) /\ ToSet(f[h].args) \cap Boxes = {}
<1>1. \A j \in DOMAIN f : f[j].key # "Match"
  BY DEF WellFormed
<1>2. /\ Loose(f, i) => Header(f, i) = 0
      /\ \A h : Under(f, h, i) => Header(f, i) = h
      /\ Loose(f, i) \/ \E h \in DOMAIN f : Under(f, h, i)
  BY <1>1, HeaderIs
<1>3. \A h \in DOMAIN f : h # 0
  BY LineShape
<1> QED
  BY <1>2, <1>3 DEF OfTheUser

\* The user's lines are the same in a rewritten file.
LEMMA UserLinesStay ==
  ASSUME NEW f, NEW g, NEW x, NEW c, NEW b, NEW n, NEW m, Rewrites(f, g, x, c, b, n, m),
         WellFormed(f)
  PROVE  UserLines(g) = UserLines(f)
<1> DEFINE S == {i \in DOMAIN f : OfTheUser(f, i)}
           T == {i \in DOMAIN g : OfTheUser(g, i)}
<1>1. /\ Swapped(f, g, x, c, b) /\ Swapped(g, f, x, b, c)
      /\ f \in Seq(Lines) /\ g \in Seq(Lines) /\ x \in Nat
      /\ Len(f) \in Nat /\ Len(g) \in Nat /\ Len(b) \in Nat /\ Len(c) \in Nat
      /\ x + Len(c) <= Len(f) /\ Len(g) = (Len(f) - Len(c)) + Len(b)
      /\ DOMAIN f = 1..Len(f) /\ DOMAIN g = 1..Len(g)
  <2>1. Swapped(f, g, x, c, b)
    BY DEF Rewrites
  <2>2. /\ f \in Seq(Lines) /\ g \in Seq(Lines) /\ x \in Nat
        /\ Len(f) \in Nat /\ Len(g) \in Nat /\ Len(b) \in Nat /\ Len(c) \in Nat
        /\ x + Len(c) <= Len(f) /\ Len(g) = (Len(f) - Len(c)) + Len(b)
        /\ DOMAIN f = 1..Len(f) /\ DOMAIN g = 1..Len(g)
    BY <2>1 DEF Swapped
  <2> QED
    BY <2>1, <2>2, SwapBack
<1>2. WellFormed(g)
  BY StaysWellFormed
<1>3. ASSUME NEW k \in DOMAIN f, k \notin Outside(f, x, c) PROVE k \notin S
  <2>1. /\ ~Loose(f, k) /\ f[x + 1] = c[1] /\ c # <<>> /\ x + 1 \in DOMAIN f
        /\ \A h : Under(f, h, k) <=> h = x + 1
    BY <1>1, <1>3, InBlock
  <2>2. n \in ToSet(f[x + 1].args) \cap Boxes
    <3>1. Names(f[x + 1], n) /\ n \in Boxes /\ f[x + 1].args \in Seq(Words)
      BY <1>1, <2>1, LineShape DEF Rewrites
    <3>2. DOMAIN f[x + 1].args = 1..Len(f[x + 1].args)
      BY <3>1
    <3> QED
      BY <3>1, <3>2 DEF Names, Contains, ToSet
  <2> QED
    BY <1>1, <1>3, <2>1, <2>2, UsersLine
<1>4. ASSUME NEW k \in DOMAIN g, k \notin Outside(g, x, b) PROVE k \notin T
  <2>1. /\ ~Loose(g, k) /\ g[x + 1] = b[1] /\ b # <<>> /\ x + 1 \in DOMAIN g
        /\ \A h : Under(g, h, k) <=> h = x + 1
    BY <1>1, <1>4, InBlock
  <2>2. m \in ToSet(g[x + 1].args) \cap Boxes
    <3>1. Names(g[x + 1], m) /\ m \in Boxes /\ g[x + 1].args \in Seq(Words)
      BY <1>1, <2>1, LineShape DEF Rewrites, Sole
    <3>2. DOMAIN g[x + 1].args = 1..Len(g[x + 1].args)
      BY <3>1
    <3> QED
      BY <3>1, <3>2 DEF Names, Contains, ToSet
  <2> QED
    BY <1>1, <1>2, <1>4, <2>1, <2>2, UsersLine
<1>5. ASSUME NEW k \in Outside(f, x, c)
      PROVE  To(x, c, b, k) \in DOMAIN g /\ (k \in S <=> To(x, c, b, k) \in T)
  <2> DEFINE l == To(x, c, b, k)
  <2>1. k \in DOMAIN f /\ l \in Outside(g, x, b) /\ l \in DOMAIN g /\ To(x, b, c, l) = k
    BY <1>1, <1>5, ToThere DEF Outside
  <2>2. k \in S => l \in T
    <3>1. Loose(f, k) => Loose(g, l)
      BY <1>1, <1>5, SectionsStay
    <3>2. ASSUME NEW h \in DOMAIN f, Under(f, h, k)
          PROVE  Under(g, To(x, c, b, h), l) /\ To(x, c, b, h) \in DOMAIN g /\ g[To(x, c, b, h)] = f[h]
      <4>1. h \in Outside(f, x, c)
        BY <1>1, <1>5, <2>1, <3>2, InBlock
      <4>2. Under(g, To(x, c, b, h), l)
        BY <1>1, <1>5, <3>2, SectionsStay
      <4>3. To(x, c, b, h) \in Outside(g, x, b) /\ g[To(x, c, b, h)] = f[h]
        BY <1>1, <4>1, ToThere
      <4> QED
        BY <4>2, <4>3 DEF Outside
    <3>3. k \in S <=> \/ Loose(f, k)
                      \/ \E h \in DOMAIN f : Under(f, h, k) /\ ToSet(f[h].args) \cap Boxes = {}
      BY <1>1, <2>1, UsersLine
    <3>4. l \in T <=> \/ Loose(g, l)
                      \/ \E h \in DOMAIN g : Under(g, h, l) /\ ToSet(g[h].args) \cap Boxes = {}
      BY <1>1, <1>2, <2>1, UsersLine
    <3> HIDE DEF l, S, T
    <3> QED
      BY <3>1, <3>2, <3>3, <3>4
  <2>3. l \in T => k \in S
    <3>1. Loose(g, l) => Loose(f, k)
      BY <1>1, <2>1, SectionsStay
    <3>2. ASSUME NEW h \in DOMAIN g, Under(g, h, l)
          PROVE  Under(f, To(x, b, c, h), k) /\ To(x, b, c, h) \in DOMAIN f /\ f[To(x, b, c, h)] = g[h]
      <4>1. h \in Outside(g, x, b)
        BY <1>1, <2>1, <3>2, InBlock
      <4>2. Under(f, To(x, b, c, h), To(x, b, c, l))
        BY <1>1, <2>1, <3>2, SectionsStay
      <4>3. To(x, b, c, h) \in Outside(f, x, c) /\ f[To(x, b, c, h)] = g[h]
        BY <1>1, <4>1, ToThere
      <4> QED
        BY <2>1, <4>2, <4>3 DEF Outside
    <3>3. k \in S <=> \/ Loose(f, k)
                      \/ \E h \in DOMAIN f : Under(f, h, k) /\ ToSet(f[h].args) \cap Boxes = {}
      BY <1>1, <2>1, UsersLine
    <3>4. l \in T <=> \/ Loose(g, l)
                      \/ \E h \in DOMAIN g : Under(g, h, l) /\ ToSet(g[h].args) \cap Boxes = {}
      BY <1>1, <1>2, <2>1, UsersLine
    <3> HIDE DEF l, S, T
    <3> QED
      BY <3>1, <3>2, <3>3, <3>4
  <2> QED
    BY <2>1, <2>2, <2>3
<1> HIDE DEF S, T
<1>6. UpTo(f, S)[0] = UpTo(g, T)[0]
  BY <1>1, UpToGrows
<1>7. UpTo(f, S)[x] = UpTo(g, T)[x]
  <2>0. PICK o : o = 0
    OBVIOUS
  <2>1. ASSUME NEW k \in 1..x PROVE f[o + k] = g[o + k] /\ (o + k \in S <=> o + k \in T)
    <3>1. k \in Outside(f, x, c) /\ To(x, c, b, k) = k /\ o + k = k
      BY <1>1, <2>0 DEF Outside, To
    <3> QED
      BY <1>1, <1>5, <3>1, ToThere
  <2>2. o \in Nat /\ o + x = x /\ o + x <= Len(f) /\ o + x <= Len(g)
    BY <1>1, <2>0
  <2>3. UpTo(f, S)[o] = UpTo(g, T)[o]
    BY <1>6, <2>0
  <2>4. f \in Seq(Lines) /\ g \in Seq(Lines) /\ x \in Nat
    BY <1>1
  <2>5. UpTo(f, S)[o + x] = UpTo(g, T)[o + x]
    <3>1. Alike(f, S, o, g, T, o, x)
      BY <2>1 DEF Alike
    <3> QED
      BY <2>2, <2>3, <2>4, <3>1, SameTaken
  <2> QED
    BY <2>2, <2>5
<1>8. UpTo(f, S)[x + Len(c)] = UpTo(f, S)[x]
  <2>1. \A k \in 1..Len(c) : x + k \notin S
    <3> SUFFICES ASSUME NEW k \in 1..Len(c) PROVE x + k \notin S
      OBVIOUS
    <3>1. x + k \in DOMAIN f /\ x + k \notin Outside(f, x, c)
      BY <1>1 DEF Outside
    <3> QED
      BY <1>3, <3>1
  <2> QED
    BY <1>1, <2>1, NoneTaken
<1>9. UpTo(g, T)[x + Len(b)] = UpTo(g, T)[x]
  <2>1. \A k \in 1..Len(b) : x + k \notin T
    <3> SUFFICES ASSUME NEW k \in 1..Len(b) PROVE x + k \notin T
      OBVIOUS
    <3>1. x + k \in DOMAIN g /\ x + k \notin Outside(g, x, b)
      BY <1>1 DEF Outside
    <3> QED
      BY <1>4, <3>1
  <2>2. x + Len(b) <= Len(g)
    BY <1>1
  <2> QED
    BY <1>1, <2>1, <2>2, NoneTaken
<1>10. PICK d : d = Len(f) - Len(c) - x
  OBVIOUS
<1>11. d \in Nat /\ (x + Len(c)) + d = Len(f) /\ (x + Len(b)) + d = Len(g)
       /\ x + Len(c) \in Nat /\ x + Len(b) \in Nat
  BY <1>1, <1>10
<1>11a. PICK y, z : y = x + Len(c) /\ z = x + Len(b)
  OBVIOUS
<1>12. ASSUME NEW k \in 1..d PROVE f[y + k] = g[z + k] /\ (y + k \in S <=> z + k \in T)
  <2>1. y + k \in Outside(f, x, c) /\ To(x, c, b, y + k) = z + k
    BY <1>1, <1>11, <1>11a DEF Outside, To
  <2> QED
    BY <1>1, <1>5, <2>1, ToThere
<1>13. UpTo(f, S)[Len(f)] = UpTo(g, T)[Len(g)]
  <2>1. UpTo(f, S)[y] = UpTo(g, T)[z]
    BY <1>7, <1>8, <1>9, <1>11a
  <2>2. y \in Nat /\ z \in Nat /\ d \in Nat /\ y + d = Len(f) /\ z + d = Len(g)
    BY <1>11, <1>11a
  <2>2b. /\ y \in Nat /\ z \in Nat /\ d \in Nat /\ f \in Seq(Lines) /\ g \in Seq(Lines)
         /\ y + d <= Len(f) /\ z + d <= Len(g)
    BY <1>1, <2>2
  <2>3. UpTo(f, S)[y + d] = UpTo(g, T)[z + d]
    <3>1. Alike(f, S, y, g, T, z, d)
      BY <1>12 DEF Alike
    <3> QED
      BY <2>1, <2>2b, <3>1, SameTaken
  <2> QED
    BY <2>2, <2>3
<1>14. LinesAt(f, S) = LinesAt(g, T)
  <2>1. f \in Seq(Lines) /\ g \in Seq(Lines)
    BY <1>1
  <2>2. LinesAt(f, S) = UpTo(f, S)[Len(f)]
    BY ONLY <2>1, UpToGrows
  <2>3. LinesAt(g, T) = UpTo(g, T)[Len(g)]
    BY ONLY <2>1, UpToGrows
  <2> QED
    BY <1>13, <2>2, <2>3
<1> QED
  BY <1>14 DEF S, T, UserLines

-----------------------------------------------------------------------------
(* The options of a block.                                                               *)

\* The place o of the first option k in b, or 0.
FirstAt(b, k, o) ==
  \/ o = 0 /\ \A j \in 1..Len(b) : b[j].key # k
  \/ o \in 1..Len(b) /\ b[o].key = k /\ \A j \in 1..Len(b) : j < o => b[j].key # k

\* OptionLine is the place of the first such option.
LEMMA OptionIs ==
  ASSUME NEW b \in Seq(Lines), NEW k
  PROVE  FirstAt(b, k, OptionLine(b, k)) /\ \A o : FirstAt(b, k, o) => OptionLine(b, k) = o
<1> DEFINE I == {j \in 1..Len(b) : b[j].key = k}
<1>1. OptionLine(b, k) = IF I # {} THEN Min(I) ELSE 0
  BY Zenon DEF OptionLine, SelectInSeq
<1>2. I \subseteq Nat /\ Len(b) \in Nat
  BY LineShape
<1>3. I # {} => Min(I) \in I /\ \A y \in I : Min(I) <= y
  <2> HIDE DEF I
  <2> QED
    BY <1>2, MinThere
<1>4. FirstAt(b, k, OptionLine(b, k))
  <2>1. CASE I = {}
    BY <1>1, <2>1 DEF FirstAt
  <2>2. CASE I # {}
    <3>1. PICK o : o = Min(I)
      OBVIOUS
    <3>2. o \in I /\ \A j \in I : o <= j
      BY <1>3, <2>2, <3>1
    <3>3. \A j \in 1..Len(b) : j < o => ~(o <= j)
      BY <1>2, <3>2
    <3>4. o \in 1..Len(b) /\ b[o].key = k /\ \A j \in 1..Len(b) : j < o => b[j].key # k
      BY <3>2, <3>3
    <3> QED
      BY <1>1, <2>2, <3>1, <3>4 DEF FirstAt
  <2> QED
    BY <2>1, <2>2
<1>5. ASSUME NEW o, NEW q, FirstAt(b, k, o), FirstAt(b, k, q) PROVE o = q
  <2>1. CASE o = 0 \/ q = 0
    BY <1>5, <2>1 DEF FirstAt
  <2>2. CASE o # 0 /\ q # 0
    <3>1. o \in 1..Len(b) /\ q \in 1..Len(b) /\ ~(o < q) /\ ~(q < o)
      BY <1>5, <2>2 DEF FirstAt
    <3> QED
      BY <1>2, <3>1
  <2> QED
    BY <2>1, <2>2
<1> QED
  BY <1>4, <1>5

\* Two blocks have the same value for k, or neither has it.
SameOption(b, d, k) ==
  \/ FirstAt(b, k, 0) /\ FirstAt(d, k, 0)
  \/ \E o \in 1..Len(b), q \in 1..Len(d) :
       FirstAt(b, k, o) /\ FirstAt(d, k, q) /\ b[o].args[1] = d[q].args[1]

AddrIn(b) ==
  IF OptionLine(b, "HostName") = 0 THEN NoAddr ELSE b[OptionLine(b, "HostName")].args[1]

\* What the code reads of a block depends on the first such option.
LEMMA SameValues ==
  ASSUME NEW b \in Seq(Lines), NEW d \in Seq(Lines)
  PROVE  /\ SameOption(b, d, "HostName") => AddrIn(b) = AddrIn(d)
         /\ SameOption(b, d, "ForwardAgent") => (ForwardAgentEnabled(b) <=> ForwardAgentEnabled(d))
<1>1. ASSUME NEW k, SameOption(b, d, k)
      PROVE  \/ OptionLine(b, k) = 0 /\ OptionLine(d, k) = 0
             \/ /\ OptionLine(b, k) # 0 /\ OptionLine(d, k) # 0
                /\ b[OptionLine(b, k)].args[1] = d[OptionLine(d, k)].args[1]
  <2>1. CASE FirstAt(b, k, 0) /\ FirstAt(d, k, 0)
    BY <2>1, OptionIs
  <2>2. ASSUME NEW o \in 1..Len(b), NEW q \in 1..Len(d), FirstAt(b, k, o), FirstAt(d, k, q),
               b[o].args[1] = d[q].args[1]
        PROVE  /\ OptionLine(b, k) # 0 /\ OptionLine(d, k) # 0
               /\ b[OptionLine(b, k)].args[1] = d[OptionLine(d, k)].args[1]
    <3>1. OptionLine(b, k) = o /\ OptionLine(d, k) = q
      BY <2>2, OptionIs
    <3> QED
      BY <2>2, <3>1
  <2> QED
    BY <1>1, <2>1, <2>2 DEF SameOption
<1> QED
  BY <1>1 DEF AddrIn, ForwardAgentEnabled

\* The lines of the block of n that give option k.
OptionPlaces(f, n, k) == {j \in FindBlock(f, n)..BlockEnd(f, FindBlock(f, n)) : f[j].key = k}

\* The first of them in the file is the first in the block.
LEMMA FirstInFile ==
  ASSUME NEW f \in Seq(Lines), NEW n, Found(f, n), NEW k
  PROVE  LET J == OptionPlaces(f, n, k)
             b == Block(f, n)
             o == OptionLine(b, k) IN
         /\ o = 0 <=> J = {}
         /\ J # {} => f[Min(J)] = b[o]
<1>0. PICK J : J = OptionPlaces(f, n, k)
  OBVIOUS
<1>1. PICK i : i = FindBlock(f, n)
  OBVIOUS
<1>2. PICK e : e = BlockEnd(f, i)
  OBVIOUS
<1>3. PICK b : b = Block(f, n)
  OBVIOUS
<1>4. /\ i \in DOMAIN f /\ e \in i..Len(f) /\ Len(b) = e - i + 1
      /\ \A l \in 1..Len(b) : b[l] = f[i + l - 1]
      /\ b \in Seq(Lines)
  BY <1>1, <1>2, <1>3, BlockShape
<1>5. i \in Nat /\ e \in Nat /\ i <= e /\ i > 0 /\ Len(b) = e - i + 1
  BY <1>4, LineShape
<1>6. PICK o : o = OptionLine(b, k)
  OBVIOUS
<1>7. FirstAt(b, k, o)
  BY <1>4, <1>6, OptionIs
<1>8. \A j \in i..e : j - i + 1 \in 1..Len(b) /\ i + (j - i + 1) - 1 = j
  BY <1>5
<1>9. \A j \in i..e : f[j] = b[j - i + 1]
  <2> SUFFICES ASSUME NEW j \in i..e PROVE f[j] = b[j - i + 1]
    OBVIOUS
  <2>1. j - i + 1 \in 1..Len(b) /\ i + (j - i + 1) - 1 = j
    BY <1>8
  <2>2. b[j - i + 1] = f[i + (j - i + 1) - 1]
    BY <1>4, <2>1
  <2> QED
    BY <2>1, <2>2
<1>9a. J = {j \in i..e : f[j].key = k}
  BY <1>0, <1>1, <1>2 DEF OptionPlaces
<1>10. CASE o = 0
  <2>1. \A j \in 1..Len(b) : b[j].key # k
    BY <1>7, <1>10 DEF FirstAt
  <2>2. J = {}
    BY <1>8, <1>9, <1>9a, <2>1
  <2> QED
    BY <1>0, <1>3, <1>6, <1>10, <2>2
<1>11. CASE o # 0
  <2>1. o \in 1..Len(b) /\ b[o].key = k /\ \A j \in 1..Len(b) : j < o => b[j].key # k
    BY <1>7, <1>11 DEF FirstAt
  <2>2. PICK m : m = i + o - 1
    OBVIOUS
  <2>3. m \in i..e /\ m \in Nat /\ m - i + 1 = o
    BY <1>5, <2>1, <2>2
  <2>4. m \in J /\ f[m] = b[o]
    BY <1>9, <1>9a, <2>1, <2>3
  <2>5. \A j \in J : m <= j
    <3> SUFFICES ASSUME NEW j \in J, ~(m <= j) PROVE FALSE
      OBVIOUS
    <3>1. j \in i..e /\ f[j].key = k
      BY <1>9a
    <3>2. j - i + 1 \in 1..Len(b) /\ j - i + 1 < o
      BY <1>5, <2>3, <3>1
    <3> QED
      BY <1>9, <2>1, <3>1, <3>2
  <2>6. J \subseteq Nat
    BY <1>5, <1>9a
  <2>7. Min(J) = m
    BY <2>4, <2>5, <2>6, MinIs
  <2> QED
    BY <1>0, <1>3, <1>6, <1>11, <2>4, <2>7
<1> QED
  BY <1>10, <1>11

\* HostNameOf reads the address from the block.
LEMMA AddrOf ==
  ASSUME NEW f \in Seq(Lines), NEW n
  PROVE  HostNameOf(f, n) = AddrIn(Block(f, n))
<1>1. CASE Found(f, n)
  <2>1. HostNameOf(f, n) = IF OptionPlaces(f, n, "HostName") = {} THEN NoAddr
                          ELSE f[Min(OptionPlaces(f, n, "HostName"))].args[1]
    BY <1>1 DEF HostNameOf, OptionPlaces, Found
  <2> QED
    BY <1>1, <2>1, FirstInFile DEF AddrIn
<1>2. CASE ~Found(f, n)
  <2>1. HostNameOf(f, n) = NoAddr
    BY <1>2 DEF HostNameOf, Found
  <2>2. Block(f, n) = <<>> /\ Block(f, n) \in Seq(Lines)
    BY <1>2, BlockShape
  <2>3. FirstAt(Block(f, n), "HostName", 0)
    BY <2>2 DEF FirstAt
  <2>4. OptionLine(Block(f, n), "HostName") = 0
    BY <2>2, <2>3, OptionIs
  <2> QED
    BY <2>1, <2>4 DEF AddrIn
<1> QED
  BY <1>1, <1>2

\* Where nothing is set for all hosts, OpenSSH takes the options of a box from its block.
LEMMA LookedUp ==
  ASSUME NEW f \in Seq(Lines), WellFormed(f), NothingForAll(f), NEW n \in Boxes,
         NEW k \in Written, NEW default
  PROVE  LET b == Block(f, n)
             o == OptionLine(b, k) IN
         Lookup(f, n, k, default) = IF o = 0 THEN default ELSE b[o].args[1]
<1> DEFINE I == {i \in DOMAIN f : f[i].key = k /\ Applies(f, i, n)}
<1>1. Lookup(f, n, k, default) = IF I = {} THEN default ELSE f[Min(I)].args[1]
  BY DEF Lookup
<1>2. \A j \in DOMAIN f : f[j].key # "Match" /\ j # 0
  BY LineShape DEF WellFormed
<1>3. \A i \in DOMAIN f : i \in I <=> /\ f[i].key = k
                                      /\ \E h \in DOMAIN f : Under(f, h, i) /\ Names(f[h], n)
  <2> SUFFICES ASSUME NEW i \in DOMAIN f, f[i].key = k
               PROVE  Applies(f, i, n) <=> \E h \in DOMAIN f : Under(f, h, i) /\ Names(f[h], n)
    OBVIOUS
  <2>1. Applies(f, i, n) <=> \/ Header(f, i) = 0
                             \/ /\ IsHost(f[Header(f, i)])
                                /\ Contains(f[Header(f, i)].args, n) \/ Contains(f[Header(f, i)].args, AllHosts)
    BY Zenon DEF Applies, Header
  <2>2. /\ \A h : Under(f, h, i) => Header(f, i) = h
        /\ Loose(f, i) \/ \E h \in DOMAIN f : Under(f, h, i)
    BY <1>2, HeaderIs
  <2>3. ~Loose(f, i) /\ \A h \in DOMAIN f : Under(f, h, i) => ~Contains(f[h].args, AllHosts)
    BY DEF NothingForAll
  <2>4. PICK h \in DOMAIN f : Under(f, h, i)
    BY <2>2, <2>3
  <2>5. Header(f, i) = h /\ h # 0 /\ IsHost(f[h])
    BY <1>2, <2>2, <2>4 DEF Under, HostLines
  <2>6. Applies(f, i, n) <=> Names(f[h], n)
    BY <2>1, <2>3, <2>4, <2>5 DEF Names
  <2>7. \A j \in DOMAIN f : Under(f, j, i) => j = h
    BY <2>2, <2>5
  <2> QED
    BY <2>4, <2>6, <2>7
<1>4. I \subseteq DOMAIN f
  OBVIOUS
<1> HIDE DEF I
<1>5. CASE Found(f, n)
  <2>1. PICK i : i = FindBlock(f, n)
    OBVIOUS
  <2>2. i \in DOMAIN f /\ Names(f[i], n) /\ IsHost(f[i])
    BY <1>5, <2>1, FindIs DEF Names
  <2>3. \A h \in DOMAIN f : Names(f[h], n) => h = i
    BY <2>2 DEF WellFormed
  <2>4. PICK e : e = BlockEnd(f, i)
    OBVIOUS
  <2>5. /\ e \in i..Len(f) /\ (\A j \in (i + 1)..e : ~IsHost(f[j]))
        /\ e < Len(f) => IsHost(f[e + 1])
    BY <2>2, <2>4, EndThere
  <2>6. DOMAIN f = 1..Len(f) /\ Len(f) \in Nat /\ i \in Nat /\ e \in Nat
    BY <2>2, <2>5, LineShape
  <2>7. \A j \in DOMAIN f : Under(f, i, j) <=> j \in i..e
    <3> SUFFICES ASSUME NEW j \in DOMAIN f PROVE Under(f, i, j) <=> j \in i..e
      OBVIOUS
    <3>1. ASSUME j \in i..e PROVE Under(f, i, j)
      <4>1. \A l \in DOMAIN f : i < l /\ l <= j => l \in (i + 1)..e
        BY <2>6, <3>1
      <4> QED
        BY <2>2, <2>5, <2>6, <3>1, <4>1 DEF Under, HostLines
    <3>2. ASSUME Under(f, i, j) PROVE j \in i..e
      <4>1. i <= j /\ j \in Nat /\ j <= Len(f)
        BY <2>6, <3>2 DEF Under
      <4>2. ASSUME j > e PROVE FALSE
        <5>1. e + 1 \in DOMAIN f /\ i < e + 1 /\ e + 1 <= j /\ IsHost(f[e + 1])
          BY <2>5, <2>6, <4>1, <4>2
        <5> QED
          BY <3>2, <5>1 DEF Under
      <4> QED
        BY <2>6, <4>1, <4>2
    <3> QED
      BY <3>1, <3>2
  <2>8. \A j : j \in i..e => j \in DOMAIN f
    BY <2>2, <2>5, <2>6
  <2>9. I = OptionPlaces(f, n, k)
    <3>1. I = {j \in i..e : f[j].key = k}
      BY <1>3, <1>4, <2>2, <2>3, <2>7, <2>8
    <3> QED
      BY <2>1, <2>4, <3>1 DEF OptionPlaces
  <2>10. LET o == OptionLine(Block(f, n), k) IN
         (o = 0 <=> I = {}) /\ (I # {} => f[Min(I)] = Block(f, n)[o])
    BY <1>5, <2>9, FirstInFile
  <2> QED
    BY <1>1, <2>10 DEF I
<1>6. CASE ~Found(f, n)
  <2>1. I = {}
    BY <1>3, <1>4, <1>6, FindIs
  <2>2. Block(f, n) = <<>> /\ Block(f, n) \in Seq(Lines)
    BY <1>6, BlockShape
  <2>3. FirstAt(Block(f, n), k, 0)
    BY <2>2 DEF FirstAt
  <2>4. OptionLine(Block(f, n), k) = 0
    BY <2>2, <2>3, OptionIs
  <2> QED
    BY <1>1, <2>1, <2>4 DEF I
<1> QED
  BY <1>5, <1>6
-----------------------------------------------------------------------------
(* What an edit makes of a block.                                                        *)

\* A block of n's in a file that is WellFormed.
Fits(b, n) ==
  /\ b \in Seq(Lines) /\ b # <<>> /\ Section(b) /\ Sole(b[1], n)
  /\ \A k \in 1..Len(b) :
       /\ b[k].key # "Match" /\ b[k].args # <<>>
       /\ b[k].key = "HostName" => b[k].args[1] \in Addrs

\* The block of a box in a WellFormed file fits it.
LEMMA BlockFits ==
  ASSUME NEW f \in Seq(Lines), WellFormed(f), NEW n \in Boxes, Found(f, n)
  PROVE  Fits(Block(f, n), n)
<1>1. PICK i, b : i = FindBlock(f, n) /\ b = Block(f, n)
  OBVIOUS
<1>2. PICK e : e = BlockEnd(f, i)
  OBVIOUS
<1>3. /\ i \in DOMAIN f /\ e \in i..Len(f) /\ Len(b) = e - i + 1
      /\ \A k \in 1..Len(b) : b[k] = f[i + k - 1]
      /\ Names(b[1], n) /\ Section(b) /\ b # <<>> /\ b \in Seq(Lines)
  BY <1>1, <1>2, BlockShape
<1>4. /\ i \in Nat /\ e \in Nat /\ i > 0 /\ Len(f) \in Nat /\ DOMAIN f = 1..Len(f)
      /\ Len(b) = e - i + 1 /\ i <= e /\ e <= Len(f)
  BY <1>3, LineShape
<1>5. b[1] = f[i] /\ Names(f[i], n)
  BY <1>3, <1>4
<1>6. Sole(b[1], n)
  BY <1>3, <1>5 DEF WellFormed
<1>7. ASSUME NEW k \in 1..Len(b)
      PROVE  /\ b[k].key # "Match" /\ b[k].args # <<>>
             /\ b[k].key = "HostName" => b[k].args[1] \in Addrs
  <2>1. PICK j : j = i + k - 1
    OBVIOUS
  <2>2. j \in i..e /\ j \in DOMAIN f /\ j \in Nat /\ b[k] = f[j]
    BY <1>3, <1>4, <2>1
  <2>3. Under(f, i, j)
    <3>1. \A l \in (i + 1)..e : ~IsHost(f[l])
      BY <1>2, <1>3, EndThere
    <3>2. \A l \in DOMAIN f : i < l /\ l <= j => l \in (i + 1)..e
      BY <1>4, <2>2
    <3>3. i \in HostLines(f) /\ i <= j
      BY <1>3, <1>4, <1>5, <2>2 DEF HostLines, Names
    <3> QED
      BY <2>2, <3>1, <3>2, <3>3 DEF Under
  <2> QED
    BY <1>3, <1>5, <2>2, <2>3 DEF WellFormed
<1> QED
  BY <1>1, <1>3, <1>6, <1>7 DEF Fits

\* An option has its keyword and its one argument.
LEMMA LineIs ==
  ASSUME NEW k \in Keywords, NEW v \in Words
  PROVE  /\ Opt(k, v) \in Lines /\ Opt(k, v).key = k
         /\ Opt(k, v).args = <<v>> /\ Opt(k, v).args # <<>> /\ Opt(k, v).args[1] = v
<1>1. <<v>> \in Seq(Words) /\ <<v>> # <<>> /\ <<v>>[1] = v
  OBVIOUS
<1> QED
  BY <1>1 DEF Opt, Line, Lines

\* A new block fits its box, and has its address.
LEMMA HostBlockFits ==
  ASSUME NEW n \in Boxes, NEW a \in Addrs, NEW u \in Users
  PROVE  LET b == HostBlock(n, a, u) IN
         Fits(b, n) /\ AddrIn(b) = a
<1>1. n \in Words /\ a \in Words /\ u \in Words /\ n # AllHosts
  BY SshAssumption
<1>2. PICK h, o, q : h = Opt("Host", n) /\ o = Opt("HostName", a) /\ q = Opt("User", u)
  OBVIOUS
<1>3. /\ h \in Lines /\ h.key = "Host" /\ h.args = <<n>> /\ h.args # <<>>
      /\ o \in Lines /\ o.key = "HostName" /\ o.args # <<>> /\ o.args[1] = a
      /\ q \in Lines /\ q.key = "User" /\ q.args # <<>>
  BY <1>1, <1>2, LineIs DEF Keywords
<1>4. PICK b : b = HostBlock(n, a, u)
  OBVIOUS
<1>5. b = <<h, o, q>>
  BY <1>2, <1>4 DEF HostBlock
<1>6. b \in Seq(Lines) /\ b # <<>> /\ Len(b) = 3 /\ b[1] = h /\ b[2] = o /\ b[3] = q
  BY <1>3, <1>5
<1>7. Section(b)
  BY <1>3, <1>6 DEF Section, IsHost
<1>8. Sole(h, n)
  <2>1. DOMAIN h.args = {1} /\ h.args[1] = n /\ h.args \in Seq(Words) /\ Len(h.args) = 1
    BY <1>1, <1>3
  <2>2. Contains(h.args, n) /\ ~Contains(h.args, AllHosts)
    BY <1>1, <2>1 DEF Contains
  <2>3. \A j, k \in DOMAIN h.args : j = k
    BY <2>1
  <2>4. IsHost(h)
    BY <1>3 DEF IsHost
  <2> QED
    BY <2>2, <2>3, <2>4 DEF Sole, Names
<1>9. Fits(b, n)
  <2>1. \A k \in 1..Len(b) : b[k] = h \/ b[k] = o \/ b[k] = q
    BY <1>6
  <2>2. /\ h.key # "Match" /\ h.key # "HostName" /\ q.key # "Match" /\ q.key # "HostName"
        /\ o.key # "Match" /\ o.args[1] \in Addrs
    BY <1>3
  <2>3. h.args # <<>> /\ o.args # <<>> /\ q.args # <<>>
    BY <1>3
  <2> QED
    BY <1>6, <1>7, <1>8, <2>1, <2>2, <2>3 DEF Fits
<1>10. FirstAt(b, "HostName", 2)
  BY <1>3, <1>6 DEF FirstAt
<1>11. OptionLine(b, "HostName") = 2
  BY <1>6, <1>10, OptionIs
<1>12. AddrIn(b) = a
  BY <1>3, <1>6, <1>11 DEF AddrIn
<1> QED
  BY <1>4, <1>9, <1>12

\* A block with a line below the first that is no Host line, or with another in its place.
Inserted(b, d, l) ==
  /\ d \in Seq(Lines) /\ Len(d) = Len(b) + 1
  /\ d[1] = b[1] /\ d[2] = l
  /\ \A j \in 2..Len(b) : d[j + 1] = b[j]
Replaced(b, d, o, l) ==
  /\ d \in Seq(Lines) /\ Len(d) = Len(b)
  /\ o \in 1..Len(b) /\ d[o] = l
  /\ \A j \in 1..Len(b) : j # o => d[j] = b[j]

\* Three sequences of lines, one after the other.
LEMMA Joined ==
  ASSUME NEW p, NEW m, NEW t, p \in Seq(Lines) /\ m \in Seq(Lines) /\ t \in Seq(Lines)
  PROVE  LET s == p \o m \o t IN
         /\ s \in Seq(Lines) /\ Len(s) = Len(p) + Len(m) + Len(t)
         /\ \A j \in 1..Len(p) : s[j] = p[j]
         /\ \A j \in 1..Len(m) : s[Len(p) + j] = m[j]
         /\ \A j \in 1..Len(t) : s[Len(p) + Len(m) + j] = t[j]
<1>1. PICK r : r = p \o m
  OBVIOUS
<1>2. Len(p) \in Nat /\ Len(m) \in Nat /\ Len(t) \in Nat
  BY LineShape
<1>3. r \in Seq(Lines) /\ Len(r) = Len(p) + Len(m)
  BY <1>1, ConcatProperties
<1>4. \A j \in 1..Len(p) + Len(m) : r[j] = IF j <= Len(p) THEN p[j] ELSE m[j - Len(p)]
  BY <1>1, ConcatProperties
<1>5. \A j \in 1..Len(p) : r[j] = p[j]
  BY <1>2, <1>4
<1>6. \A j \in 1..Len(m) : r[Len(p) + j] = m[j]
  <2> SUFFICES ASSUME NEW j \in 1..Len(m) PROVE r[Len(p) + j] = m[j]
    OBVIOUS
  <2>1. PICK q : q = Len(p) + j
    OBVIOUS
  <2>2. q \in 1..Len(p) + Len(m) /\ ~(q <= Len(p)) /\ q - Len(p) = j
    BY <1>2, <2>1
  <2> QED
    BY <1>4, <2>1, <2>2
<1>7. PICK s : s = r \o t
  OBVIOUS
<1>8. s \in Seq(Lines) /\ Len(s) = Len(r) + Len(t)
  BY <1>3, <1>7, ConcatProperties
<1>9. \A j \in 1..Len(r) + Len(t) : s[j] = IF j <= Len(r) THEN r[j] ELSE t[j - Len(r)]
  BY <1>3, <1>7, ConcatProperties
<1>10. \A j \in 1..Len(r) : s[j] = r[j]
  BY <1>2, <1>3, <1>9
<1>11. \A j \in 1..Len(t) : s[Len(r) + j] = t[j]
  <2> SUFFICES ASSUME NEW j \in 1..Len(t) PROVE s[Len(r) + j] = t[j]
    OBVIOUS
  <2>1. PICK q : q = Len(r) + j
    OBVIOUS
  <2>2. q \in 1..Len(r) + Len(t) /\ ~(q <= Len(r)) /\ q - Len(r) = j
    BY <1>2, <1>3, <2>1
  <2> QED
    BY <1>9, <2>1, <2>2
<1>12. \A j : /\ j \in 1..Len(p) => j \in 1..Len(r)
              /\ j \in 1..Len(m) => Len(p) + j \in 1..Len(r)
  BY <1>2, <1>3
<1> QED
  BY <1>1, <1>3, <1>5, <1>6, <1>7, <1>8, <1>10, <1>11, <1>12

\* InsertAt puts a line below the first.
LEMMA InsertedIs ==
  ASSUME NEW b \in Seq(Lines), b # <<>>, NEW l \in Lines
  PROVE  Inserted(b, InsertAt(b, 2, l), l)
<1>1. Len(b) \in Nat /\ Len(b) >= 1
  BY LineShape
<1>2. PICK p, t : p = SubSeq(b, 1, 2 - 1) /\ t = SubSeq(b, 2, Len(b))
  OBVIOUS
<1>3. p \in Seq(Lines) /\ Len(p) = 1 /\ p[1] = b[1]
  BY <1>1, <1>2, SubSeqProperties
<1>4. t \in Seq(Lines) /\ Len(t) = Len(b) - 1 /\ \A j \in 1..(Len(b) - 1) : t[j] = b[j + 1]
  BY <1>1, <1>2, SubSeqProperties
<1>5a. PICK m \in Seq(Lines) : m = <<l>> /\ Len(m) = 1 /\ m[1] = l
  <2>1. <<l>> \in Seq(Lines) /\ Len(<<l>>) = 1 /\ <<l>>[1] = l
    OBVIOUS
  <2> QED
    BY <2>1, Zenon
<1>5. PICK d : d = p \o m \o t
  OBVIOUS
<1>5b. /\ d \in Seq(Lines) /\ Len(d) = Len(p) + Len(m) + Len(t)
       /\ \A j \in 1..Len(p) : d[j] = p[j]
       /\ \A j \in 1..Len(m) : d[Len(p) + j] = m[j]
       /\ \A j \in 1..Len(t) : d[Len(p) + Len(m) + j] = t[j]
  <2>1. p \in Seq(Lines) /\ m \in Seq(Lines) /\ t \in Seq(Lines)
    BY <1>3, <1>4
  <2> QED
    BY ONLY <1>5, <2>1, Joined
<1>6. d \in Seq(Lines) /\ Len(d) = Len(b) + 1 /\ d[1] = b[1] /\ d[2] = l
  BY <1>1, <1>3, <1>4, <1>5a, <1>5b
<1>7. \A j \in 2..Len(b) : d[j + 1] = b[j]
  <2> SUFFICES ASSUME NEW j \in 2..Len(b) PROVE d[j + 1] = b[j]
    OBVIOUS
  <2>1. j - 1 \in 1..Len(t) /\ j - 1 \in 1..(Len(b) - 1) /\ (j - 1) + 1 = j
        /\ Len(p) + Len(m) + (j - 1) = j + 1
    BY <1>1, <1>3, <1>4, <1>5a
  <2>2. t[j - 1] = b[j]
    BY <1>4, <2>1
  <2> QED
    BY <1>5b, <2>1, <2>2
<1>8. d = InsertAt(b, 2, l)
  BY <1>2, <1>5, <1>5a DEF InsertAt
<1> QED
  BY <1>6, <1>7, <1>8 DEF Inserted

\* ReplaceAt puts a line in the place of another.
LEMMA ReplacedIs ==
  ASSUME NEW b \in Seq(Lines), NEW o \in 1..Len(b), NEW l \in Lines
  PROVE  Replaced(b, ReplaceAt(b, o, l), o, l)
BY DEF ReplaceAt, Replaced

\* A block with an option set where it was not fits its box, and has its other options.
LEMMA OptionAdded ==
  ASSUME NEW n \in Boxes, NEW b, Fits(b, n), NEW k \in Written, NEW v \in Words,
         k = "HostName" => v \in Addrs, NEW d, Inserted(b, d, Opt(k, v)), FirstAt(b, k, 0)
  PROVE  /\ Fits(d, n) /\ FirstAt(d, k, 2) /\ d[2].args[1] = v
         /\ \A q : q # k => SameOption(b, d, q)
<1>1. b \in Seq(Lines) /\ b # <<>> /\ Len(b) \in Nat /\ Len(b) >= 1 /\ IsHost(b[1])
  BY LineShape DEF Fits, Section
<1>2. k # "Host" /\ k # "Match" /\ k \in Keywords
  BY DEF Written, Keywords
<1>3. PICK l : l = Opt(k, v)
  OBVIOUS
<1>4. l \in Lines /\ l.key = k /\ l.args # <<>> /\ l.args[1] = v
  BY <1>2, <1>3, LineIs
<1>5. /\ d \in Seq(Lines) /\ Len(d) = Len(b) + 1
      /\ d[1] = b[1] /\ d[2] = l
      /\ \A j \in 2..Len(b) : d[j + 1] = b[j]
  BY <1>3 DEF Inserted
<1>6. ASSUME NEW j \in 1..Len(d) PROVE j = 1 \/ j = 2 \/ (j - 1 \in 2..Len(b) /\ d[j] = b[j - 1])
  <2>1. j \in Nat /\ (j = 1 \/ j = 2 \/ (j - 1 \in 2..Len(b) /\ (j - 1) + 1 = j))
    BY <1>1, <1>5
  <2> QED
    BY <1>5, <2>1
<1>7. Fits(d, n)
  <2>1. Section(d)
    <3>1. \A j \in 2..Len(d) : ~IsHost(d[j])
      <4> SUFFICES ASSUME NEW j \in 2..Len(d) PROVE ~IsHost(d[j])
        OBVIOUS
      <4>1. j \in 1..Len(d) /\ j # 1
        OBVIOUS
      <4>2. ~IsHost(l)
        BY <1>2, <1>4 DEF IsHost
      <4> QED
        BY <1>1, <1>5, <1>6, <4>1, <4>2 DEF Fits, Section
    <3> QED
      BY <1>1, <1>5, <3>1 DEF Section
  <2>2. d # <<>> /\ Sole(d[1], n)
    BY <1>1, <1>5 DEF Fits
  <2>3. \A j \in 1..Len(d) : /\ d[j].key # "Match" /\ d[j].args # <<>>
                             /\ d[j].key = "HostName" => d[j].args[1] \in Addrs
    <3> SUFFICES ASSUME NEW j \in 1..Len(d)
                 PROVE  /\ d[j].key # "Match" /\ d[j].args # <<>>
                        /\ d[j].key = "HostName" => d[j].args[1] \in Addrs
      OBVIOUS
    <3>1. CASE j = 2
      BY <1>2, <1>4, <1>5, <3>1
    <3>2. CASE j = 1
      BY <1>1, <1>5, <3>2 DEF Fits
    <3>3. CASE j - 1 \in 2..Len(b) /\ d[j] = b[j - 1]
      <4>1. j - 1 \in 1..Len(b)
        BY <3>3
      <4> QED
        BY <3>3, <4>1 DEF Fits
    <3> QED
      BY <1>6, <3>1, <3>2, <3>3
  <2> QED
    BY <1>5, <2>1, <2>2, <2>3 DEF Fits
<1>8. FirstAt(d, k, 2)
  <2>1. b[1].key # k
    BY <1>1, <1>2 DEF IsHost
  <2>2. 2 \in 1..Len(d) /\ \A j \in 1..Len(d) : j < 2 => j = 1
    BY <1>1, <1>5
  <2> QED
    BY <1>4, <1>5, <2>1, <2>2 DEF FirstAt
<1>9. ASSUME NEW q, q # k PROVE SameOption(b, d, q)
  <2>1. PICK o : o = OptionLine(b, q)
    OBVIOUS
  <2>2. FirstAt(b, q, o)
    BY <1>1, <2>1, OptionIs
  <2>3. CASE o = 0
    <3>1. \A j \in 1..Len(b) : b[j].key # q
      BY <2>2, <2>3 DEF FirstAt
    <3>2. \A j \in 1..Len(d) : d[j].key # q
      <4> SUFFICES ASSUME NEW j \in 1..Len(d) PROVE d[j].key # q
        OBVIOUS
      <4>1. 1 \in 1..Len(b) /\ (j - 1 \in 2..Len(b) => j - 1 \in 1..Len(b))
        BY <1>1
      <4> QED
        BY <1>4, <1>5, <1>6, <1>9, <3>1, <4>1
    <3> QED
      BY <2>2, <2>3, <3>2 DEF FirstAt, SameOption
  <2>4. CASE o # 0
    <3>1. o \in 1..Len(b) /\ b[o].key = q /\ \A j \in 1..Len(b) : j < o => b[j].key # q
      BY <2>2, <2>4 DEF FirstAt
    <3>2. PICK p : p = IF o = 1 THEN 1 ELSE o + 1
      OBVIOUS
    <3>3. p \in 1..Len(d) /\ d[p] = b[o]
      <4>1. CASE o = 1
        BY <1>1, <1>5, <3>2, <4>1
      <4>2. CASE o # 1
        BY <1>1, <1>5, <3>1, <3>2, <4>2
      <4> QED
        BY <4>1, <4>2
    <3>4. ASSUME NEW j \in 1..Len(d), j < p PROVE d[j].key # q
      <4>1. o # 1 /\ p = o + 1 /\ o \in Nat
        BY <3>1, <3>2, <3>4
      <4>2. (j = 1 => 1 \in 1..Len(b) /\ 1 < o)
            /\ (j - 1 \in 2..Len(b) => j - 1 \in 1..Len(b) /\ j - 1 < o)
        BY <1>1, <3>1, <3>4, <4>1
      <4> QED
        BY <1>4, <1>5, <1>6, <1>9, <3>1, <4>2
    <3>5. FirstAt(d, q, p)
      BY <3>1, <3>3, <3>4 DEF FirstAt
    <3> QED
      BY <2>2, <3>1, <3>3, <3>5 DEF SameOption
  <2> QED
    BY <2>3, <2>4
<1> QED
  BY <1>4, <1>5, <1>7, <1>8, <1>9

\* The same for a line that replaces the first such option.
LEMMA OptionReplaced ==
  ASSUME NEW n \in Boxes, NEW b, Fits(b, n), NEW k \in Written, NEW v \in Words,
         k = "HostName" => v \in Addrs, NEW d, NEW o, Replaced(b, d, o, Opt(k, v)), FirstAt(b, k, o)
  PROVE  /\ Fits(d, n) /\ FirstAt(d, k, o) /\ d[o].args[1] = v
         /\ \A q : q # k => SameOption(b, d, q)
<1>1. b \in Seq(Lines) /\ b # <<>> /\ Len(b) \in Nat /\ Len(b) >= 1 /\ IsHost(b[1])
  BY LineShape DEF Fits, Section
<1>2. k # "Host" /\ k # "Match" /\ k \in Keywords
  BY DEF Written, Keywords
<1>3. PICK l : l = Opt(k, v)
  OBVIOUS
<1>4. l \in Lines /\ l.key = k /\ l.args # <<>> /\ l.args[1] = v
  BY <1>2, <1>3, LineIs
<1>5. /\ d \in Seq(Lines) /\ Len(d) = Len(b)
      /\ o \in 1..Len(b) /\ d[o] = l
      /\ \A j \in 1..Len(b) : j # o => d[j] = b[j]
  BY <1>3 DEF Replaced
<1>6. b[o].key = k /\ (\A j \in 1..Len(b) : j < o => b[j].key # k) /\ o # 1
  <2>1. b[o].key = k /\ \A j \in 1..Len(b) : j < o => b[j].key # k
    BY <1>5 DEF FirstAt
  <2> QED
    BY <1>1, <1>2, <2>1 DEF IsHost
<1>7. \A j \in 1..Len(b) : d[j].key = b[j].key
  BY <1>4, <1>5, <1>6
<1>8. Fits(d, n)
  <2>1. d[1] = b[1] /\ d # <<>>
    BY <1>1, <1>5, <1>6
  <2>2. Section(d)
    <3>1. \A j \in 2..Len(b) : j \in 1..Len(b)
      OBVIOUS
    <3> QED
      BY <1>1, <1>5, <1>7, <2>1, <3>1 DEF Fits, Section, IsHost
  <2>3. \A j \in 1..Len(b) : /\ d[j].key # "Match" /\ d[j].args # <<>>
                             /\ d[j].key = "HostName" => d[j].args[1] \in Addrs
    BY <1>2, <1>4, <1>5 DEF Fits
  <2> QED
    BY <1>5, <2>1, <2>2, <2>3 DEF Fits
<1>9. FirstAt(d, k, o)
  BY <1>4, <1>5, <1>6, <1>7 DEF FirstAt
<1>10. ASSUME NEW q, q # k PROVE SameOption(b, d, q)
  <2>1. PICK p : p = OptionLine(b, q)
    OBVIOUS
  <2>2. FirstAt(b, q, p)
    BY <1>1, <2>1, OptionIs
  <2>3. FirstAt(d, q, p)
    BY <1>5, <1>7, <2>2 DEF FirstAt
  <2>4. CASE p = 0
    BY <2>2, <2>3, <2>4 DEF SameOption
  <2>5. CASE p # 0
    <3>1. p \in 1..Len(b) /\ b[p].key = q
      BY <2>2, <2>5 DEF FirstAt
    <3>2. d[p] = b[p]
      BY <1>5, <1>6, <1>10, <3>1
    <3> QED
      BY <1>5, <2>2, <2>3, <3>1, <3>2 DEF SameOption
  <2> QED
    BY <2>4, <2>5
<1> QED
  BY <1>4, <1>5, <1>8, <1>9, <1>10

OptionSet(b, k, v) ==
  IF OptionLine(b, k) = 0 THEN InsertAt(b, 2, Opt(k, v)) ELSE ReplaceAt(b, OptionLine(b, k), Opt(k, v))

\* A block with an option set fits its box, has the option, and the others it had.
LEMMA OptionFits ==
  ASSUME NEW n \in Boxes, NEW b, Fits(b, n), NEW k \in {"HostName", "User"}, NEW v \in Words,
         k = "HostName" => v \in Addrs
  PROVE  LET d == OptionSet(b, k, v) IN
         /\ Fits(d, n) /\ AddrIn(d) = IF k = "HostName" THEN v ELSE AddrIn(b)
         /\ ForwardAgentEnabled(d) <=> ForwardAgentEnabled(b)
<1>1. b \in Seq(Lines) /\ b # <<>> /\ k \in Written /\ k \in Keywords
  BY DEF Fits, Written, Keywords
<1>2. PICK o : o = OptionLine(b, k)
  OBVIOUS
<1>3. FirstAt(b, k, o)
  BY <1>1, <1>2, OptionIs
<1>4. PICK l : l = Opt(k, v)
  OBVIOUS
<1>5. l \in Lines
  BY <1>1, <1>4, LineIs
<1>6. PICK d : d = OptionSet(b, k, v)
  OBVIOUS
<1>7. \E p : p # 0 /\ Fits(d, n) /\ FirstAt(d, k, p) /\ d[p].args[1] = v
             /\ \A q : q # k => SameOption(b, d, q)
  <2>1. CASE o = 0
    <3>1. Inserted(b, d, l)
      BY <1>1, <1>2, <1>4, <1>5, <1>6, <2>1, InsertedIs DEF OptionSet
    <3>2. /\ Fits(d, n) /\ FirstAt(d, k, 2) /\ d[2].args[1] = v
          /\ \A q : q # k => SameOption(b, d, q)
      BY <1>1, <1>3, <1>4, <2>1, <3>1, OptionAdded
    <3> QED
      BY <3>2
  <2>2. CASE o # 0
    <3>1. o \in 1..Len(b)
      BY <1>3, <2>2 DEF FirstAt
    <3>2. Replaced(b, d, o, l)
      BY <1>1, <1>2, <1>4, <1>5, <1>6, <2>2, <3>1, ReplacedIs DEF OptionSet
    <3>3. /\ Fits(d, n) /\ FirstAt(d, k, o) /\ d[o].args[1] = v
          /\ \A q : q # k => SameOption(b, d, q)
      BY <1>1, <1>3, <1>4, <3>2, OptionReplaced
    <3> QED
      BY <2>2, <3>3
  <2> QED
    BY <2>1, <2>2
<1>8. PICK p : /\ p # 0 /\ Fits(d, n) /\ FirstAt(d, k, p) /\ d[p].args[1] = v
               /\ \A q : q # k => SameOption(b, d, q)
  BY <1>7
<1>9. d \in Seq(Lines)
  BY <1>8 DEF Fits
<1>10. OptionLine(d, k) = p
  BY <1>8, <1>9, OptionIs
<1>11. ForwardAgentEnabled(d) <=> ForwardAgentEnabled(b)
  BY <1>1, <1>8, <1>9, SameValues
<1>12. AddrIn(d) = IF k = "HostName" THEN v ELSE AddrIn(b)
  <2>1. CASE k = "HostName"
    BY <1>8, <1>10, <2>1 DEF AddrIn
  <2>2. CASE k # "HostName"
    BY <1>1, <1>8, <1>9, <2>2, SameValues
  <2> QED
    BY <2>1, <2>2
<1> QED
  BY <1>6, <1>8, <1>11, <1>12

\* A block under another alias.
AliasSet(b, o, n) ==
  ReplaceAt(b, 1, Line("Host", ReplaceAt(b[1].args, SelectInSeq(b[1].args, LAMBDA x : x = o), n)))

\* A block with its alias replaced fits the new name, with the same address.
LEMMA AliasFits ==
  ASSUME NEW o \in Boxes, NEW b, Fits(b, o), NEW n \in Boxes
  PROVE  LET d == AliasSet(b, o, n) IN Fits(d, n) /\ AddrIn(d) = AddrIn(b)
<1>1. PICK w : w = b[1].args
  OBVIOUS
<1>2. /\ b \in Seq(Lines) /\ b # <<>> /\ Len(b) \in Nat /\ Len(b) >= 1 /\ b[1] \in Lines
      /\ w \in Seq(Words) /\ b[1].key = "Host"
  <2>1. b \in Seq(Lines) /\ b # <<>> /\ IsHost(b[1])
    BY DEF Fits, Section
  <2>2. 1 \in 1..Len(b) /\ DOMAIN b = 1..Len(b) /\ Len(b) \in Nat
    BY <2>1, LineShape
  <2> QED
    BY <1>1, <2>1, <2>2, LineShape DEF IsHost
<1>3. /\ \E j \in 1..Len(w) : w[j] = o
      /\ \A j, k \in 1..Len(w) : w[j] \in Boxes /\ w[k] \in Boxes => j = k
      /\ \A j \in 1..Len(w) : w[j] # AllHosts
  <2>1. Contains(w, o) /\ ~Contains(w, AllHosts) /\ DOMAIN w = 1..Len(w)
        /\ \A j, k \in DOMAIN w : w[j] \in Boxes /\ w[k] \in Boxes => j = k
    BY <1>1, <1>2 DEF Fits, Sole, Names
  <2> QED
    BY <2>1 DEF Contains
<1>4. PICK i : i = SelectInSeq(w, LAMBDA x : x = o)
  OBVIOUS
<1>5. i \in 1..Len(w) /\ w[i] = o
  <2> DEFINE I == {j \in 1..Len(w) : w[j] = o}
  <2>1. i = IF I # {} THEN Min(I) ELSE 0
    BY <1>4, Zenon DEF SelectInSeq
  <2>2. I # {} /\ I \subseteq Nat
    BY <1>2, <1>3
  <2>3. i \in I
    <3> HIDE DEF I
    <3> QED
      BY <2>1, <2>2, MinThere
  <2> QED
    BY <2>3
<1>6. PICK v : v = ReplaceAt(w, i, n)
  OBVIOUS
<1>7. n \in Words /\ n # AllHosts
  BY SshAssumption
<1>8. v \in Seq(Words) /\ Len(v) = Len(w) /\ v[i] = n /\ \A j \in 1..Len(w) : j # i => v[j] = w[j]
  BY <1>2, <1>5, <1>6, <1>7 DEF ReplaceAt
<1>9. PICK l : l = Line("Host", v)
  OBVIOUS
<1>10. l \in Lines /\ l.key = "Host" /\ l.args = v
  BY <1>8, <1>9 DEF Line, Lines, Keywords
<1>11. v # <<>> /\ DOMAIN v = 1..Len(w)
  BY <1>2, <1>5, <1>8
<1>12. Sole(l, n)
  <2>1. Contains(v, n)
    BY <1>5, <1>8 DEF Contains
  <2>2. ~Contains(v, AllHosts)
    BY <1>3, <1>7, <1>8 DEF Contains
  <2>3. \A j \in DOMAIN v : v[j] \in Boxes => j = i
    BY <1>3, <1>5, <1>8, <1>11
  <2>4. IsHost(l)
    BY <1>10 DEF IsHost
  <2> QED
    BY <1>10, <2>1, <2>2, <2>3, <2>4 DEF Sole, Names
<1>13. PICK d : d = AliasSet(b, o, n)
  OBVIOUS
<1>14. d = ReplaceAt(b, 1, l)
  BY <1>1, <1>4, <1>6, <1>9, <1>13, Zenon DEF AliasSet
<1>15. d \in Seq(Lines) /\ Len(d) = Len(b) /\ d[1] = l /\ \A j \in 1..Len(b) : j # 1 => d[j] = b[j]
  <2>1. Replaced(b, d, 1, l)
    BY <1>2, <1>10, <1>14, ReplacedIs
  <2> QED
    BY <2>1 DEF Replaced
<1>16. \A j \in 1..Len(b) : d[j].key = b[j].key
  BY <1>2, <1>10, <1>15
<1>17. Fits(d, n)
  <2>1. d # <<>> /\ Sole(d[1], n)
    BY <1>2, <1>12, <1>15
  <2>2. Section(d)
    <3>1. \A j \in 2..Len(b) : j \in 1..Len(b)
      OBVIOUS
    <3> QED
      BY <1>2, <1>10, <1>15, <1>16, <3>1 DEF Fits, Section, IsHost
  <2>3. \A j \in 1..Len(b) : /\ d[j].key # "Match" /\ d[j].args # <<>>
                             /\ d[j].key = "HostName" => d[j].args[1] \in Addrs
    BY <1>10, <1>11, <1>15 DEF Fits
  <2> QED
    BY <1>15, <2>1, <2>2, <2>3 DEF Fits
<1>18. SameOption(b, d, "HostName")
  <2>1. PICK p : p = OptionLine(b, "HostName")
    OBVIOUS
  <2>2. FirstAt(b, "HostName", p)
    BY <1>2, <2>1, OptionIs
  <2>3. FirstAt(d, "HostName", p)
    BY <1>15, <1>16, <2>2 DEF FirstAt
  <2>4. CASE p = 0
    BY <2>2, <2>3, <2>4 DEF SameOption
  <2>5. CASE p # 0
    <3>1. p \in 1..Len(b) /\ b[p].key = "HostName"
      BY <2>2, <2>5 DEF FirstAt
    <3>2. d[p] = b[p]
      BY <1>2, <1>15, <3>1
    <3> QED
      BY <1>15, <2>2, <2>3, <3>1, <3>2 DEF SameOption
  <2> QED
    BY <2>4, <2>5
<1>19. AddrIn(d) = AddrIn(b)
  BY <1>2, <1>15, <1>18, SameValues
<1> QED
  BY <1>13, <1>17, <1>19

\* A block with a ForwardAgent yes at its end, where it had none.
LEMMA AppendFits ==
  ASSUME NEW n \in Boxes, NEW b, Fits(b, n), FirstAt(b, "ForwardAgent", 0)
  PROVE  LET d == Append(b, Opt("ForwardAgent", "yes")) IN
         Fits(d, n) /\ AddrIn(d) = AddrIn(b) /\ ForwardAgentEnabled(d)
<1>1. PICK l : l = Opt("ForwardAgent", "yes")
  OBVIOUS
<1>2. l \in Lines /\ l.key = "ForwardAgent" /\ l.args # <<>> /\ l.args[1] = "yes"
  BY <1>1, LineIs, SshAssumption DEF Keywords
<1>3. b \in Seq(Lines) /\ b # <<>> /\ Len(b) \in Nat /\ Len(b) >= 1
  BY LineShape DEF Fits
<1>4. PICK d : d = Append(b, l)
  OBVIOUS
<1>5. /\ d \in Seq(Lines) /\ Len(d) = Len(b) + 1 /\ d[Len(b) + 1] = l
      /\ \A j \in 1..Len(b) : d[j] = b[j]
  BY <1>2, <1>3, <1>4
<1>6. PICK m : m = Len(b) + 1
  OBVIOUS
<1>7. m \in 1..Len(d) /\ d[m] = l /\ (\A j \in 1..Len(d) : j # m => j \in 1..Len(b) /\ d[j] = b[j])
      /\ m # 1 /\ 1 \in 1..Len(b)
  BY <1>3, <1>5, <1>6
<1>8. Fits(d, n)
  <2>1. d # <<>> /\ Sole(d[1], n)
    BY <1>3, <1>5, <1>7 DEF Fits
  <2>2. Section(d)
    <3>1. \A j \in 2..Len(d) : j = m \/ (j \in 2..Len(b) /\ d[j] = b[j])
      BY <1>3, <1>5, <1>6
    <3> QED
      BY <1>2, <1>3, <1>5, <1>7, <3>1 DEF Fits, Section, IsHost
  <2>3. \A j \in 1..Len(d) : /\ d[j].key # "Match" /\ d[j].args # <<>>
                             /\ d[j].key = "HostName" => d[j].args[1] \in Addrs
    BY <1>2, <1>7 DEF Fits
  <2> QED
    BY <1>5, <2>1, <2>2, <2>3 DEF Fits
<1>9. SameOption(b, d, "HostName")
  <2>1. PICK p : p = OptionLine(b, "HostName")
    OBVIOUS
  <2>2. FirstAt(b, "HostName", p)
    BY <1>3, <2>1, OptionIs
  <2>4. CASE p = 0
    <3>1. \A j \in 1..Len(d) : d[j].key # "HostName"
      BY <1>2, <1>7, <2>2, <2>4 DEF FirstAt
    <3> QED
      BY <2>2, <2>4, <3>1 DEF FirstAt, SameOption
  <2>5. CASE p # 0
    <3>1. p \in 1..Len(b) /\ b[p].key = "HostName" /\ \A j \in 1..Len(b) : j < p => b[j].key # "HostName"
      BY <2>2, <2>5 DEF FirstAt
    <3>2. p \in 1..Len(d) /\ d[p] = b[p]
      BY <1>3, <1>5, <3>1
    <3>3. FirstAt(d, "HostName", p)
      BY <1>2, <1>7, <3>1, <3>2 DEF FirstAt
    <3> QED
      BY <2>2, <3>1, <3>2, <3>3 DEF SameOption
  <2> QED
    BY <2>4, <2>5
<1>10. ForwardAgentEnabled(d)
  <2>1. \A j \in 1..Len(b) : b[j].key # "ForwardAgent"
    BY <1>3 DEF FirstAt
  <2>2. FirstAt(d, "ForwardAgent", m)
    <3>1. \A j \in 1..Len(d) : j < m => j # m
      BY <1>3, <1>6
    <3> QED
      BY <1>2, <1>7, <2>1, <3>1 DEF FirstAt
  <2>3. OptionLine(d, "ForwardAgent") = m
    BY <1>5, <2>2, OptionIs
  <2> QED
    BY <1>2, <1>7, <2>3 DEF ForwardAgentEnabled
<1>11. AddrIn(d) = AddrIn(b)
  BY <1>3, <1>5, <1>9, SameValues
<1> QED
  BY <1>1, <1>4, <1>8, <1>10, <1>11

\* What the first i lines of a block are without those of forwarding: the first line stays,
\* the others are some of before, and the first HostName is what it was.
KeptLines(b, i, r) ==
  /\ r \in Seq(Lines) /\ r # <<>> /\ r[1] = b[1]
  /\ \A k \in 2..Len(r) : \E j \in 2..i : b[j].key # "ForwardAgent" /\ r[k] = b[j]
NoAddress(b, i) == \A j \in 1..i : b[j].key # "HostName"
FirstAddress(b, i, p) ==
  p \in 1..i /\ b[p].key = "HostName" /\ \A j \in 1..i : j < p => b[j].key # "HostName"
KeptAddress(b, i, r) ==
  \/ NoAddress(b, i) /\ NoAddress(r, Len(r))
  \/ \E p, q : FirstAddress(b, i, p) /\ FirstAddress(r, Len(r), q) /\ b[p] = r[q]
Kept(b, i, r) == KeptLines(b, i, r) /\ KeptAddress(b, i, r)

\* The first line is kept.
LEMMA KeptStart ==
  ASSUME NEW b \in Seq(Lines), b # <<>>, IsHost(b[1])
  PROVE  Kept(b, 1, <<b[1]>>)
<1>1. b[1] \in Lines /\ b[1].key # "HostName"
  BY DEF IsHost
<1>2. PICK r : r = <<b[1]>>
  OBVIOUS
<1>3. r \in Seq(Lines) /\ r # <<>> /\ Len(r) = 1 /\ r[1] = b[1]
  BY <1>1, <1>2
<1>4. \A j \in 1..1 : j = 1
  OBVIOUS
<1>5. 2..Len(r) = {}
  BY <1>3
<1> QED
  BY <1>1, <1>2, <1>3, <1>4, <1>5 DEF Kept, KeptLines, KeptAddress, NoAddress

\* A line of forwarding is left out.
LEMMA KeptWithout ==
  ASSUME NEW b \in Seq(Lines), NEW i, i \in Nat, i >= 1, NEW r, Kept(b, i, r),
         b[i + 1].key = "ForwardAgent"
  PROVE  Kept(b, i + 1, r)
<1>1. PICK m : m = i + 1
  OBVIOUS
<1>2. /\ \A j \in 1..m : j \in 1..i \/ j = m
      /\ \A j \in 1..i : j \in 1..m
      /\ \A j \in 2..i : j \in 2..m
  BY <1>1
<1>3. b[m].key # "HostName"
  BY <1>1
<1>4. KeptLines(b, m, r)
  BY <1>2 DEF Kept, KeptLines
<1>5. NoAddress(b, i) => NoAddress(b, m)
  BY <1>2, <1>3 DEF NoAddress
<1>6. \A p : FirstAddress(b, i, p) => FirstAddress(b, m, p)
  BY <1>2, <1>3 DEF FirstAddress
<1>7. KeptAddress(b, m, r)
  BY <1>5, <1>6 DEF Kept, KeptAddress
<1> QED
  BY <1>1, <1>4, <1>7 DEF Kept

\* Any other line is kept.
LEMMA KeptWith ==
  ASSUME NEW b \in Seq(Lines), NEW i, i \in Nat, i >= 1, NEW r, Kept(b, i, r),
         b[i + 1].key # "ForwardAgent", b[i + 1] \in Lines
  PROVE  Kept(b, i + 1, Append(r, b[i + 1]))
<1>1. PICK m : m = i + 1
  OBVIOUS
<1>2. /\ \A j \in 1..m : j \in 1..i \/ j = m
      /\ \A j \in 1..i : j \in 1..m /\ j < m
      /\ \A j \in 2..i : j \in 2..m
      /\ m \in 2..m /\ m \in 1..m
  BY <1>1
<1>3. PICK l : l = b[m]
  OBVIOUS
<1>4. PICK d : d = Append(r, l)
  OBVIOUS
<1>5. r \in Seq(Lines) /\ r # <<>> /\ r[1] = b[1] /\ Len(r) \in Nat /\ Len(r) >= 1 /\ l \in Lines
  BY <1>1, <1>3, LineShape DEF Kept, KeptLines
<1>6. PICK e : e = Len(r) + 1
  OBVIOUS
<1>7. d \in Seq(Lines) /\ Len(d) = e /\ d[e] = l /\ \A j \in 1..Len(r) : d[j] = r[j]
  BY <1>4, <1>5, <1>6
<1>8. /\ \A j \in 1..Len(d) : j = e \/ (j \in 1..Len(r) /\ d[j] = r[j])
      /\ \A j \in 2..Len(d) : j = e \/ (j \in 2..Len(r) /\ d[j] = r[j])
      /\ \A j \in 1..Len(r) : j \in 1..Len(d) /\ j < e
      /\ e \in 1..Len(d) /\ 1 \in 1..Len(r) /\ d # <<>>
  BY <1>5, <1>6, <1>7
<1>9. KeptLines(b, m, d)
  <2>1. d[1] = b[1]
    BY <1>5, <1>7, <1>8
  <2>2. ASSUME NEW k \in 2..Len(d)
        PROVE  \E j \in 2..m : b[j].key # "ForwardAgent" /\ d[k] = b[j]
    <3>1. CASE k = e
      BY <1>1, <1>2, <1>3, <1>7, <3>1
    <3>2. CASE k \in 2..Len(r) /\ d[k] = r[k]
      <4>1. PICK j \in 2..i : b[j].key # "ForwardAgent" /\ r[k] = b[j]
        BY <3>2 DEF Kept, KeptLines
      <4> QED
        BY <1>2, <3>2, <4>1
    <3> QED
      BY <1>8, <3>1, <3>2
  <2> QED
    BY <1>7, <1>8, <2>1, <2>2 DEF KeptLines
<1>10. ASSUME NoAddress(b, i), NoAddress(r, Len(r)) PROVE KeptAddress(b, m, d)
  <2>1. CASE l.key = "HostName"
    <3>1. FirstAddress(b, m, m)
      <4>1. \A j \in 1..m : j < m => j \in 1..i
        BY <1>1
      <4> QED
        BY <1>2, <1>3, <1>10, <2>1, <4>1 DEF FirstAddress, NoAddress
    <3>2. FirstAddress(d, Len(d), e)
      <4>1. \A j \in 1..Len(d) : j < e => j # e
        BY <1>5, <1>6
      <4> QED
        BY <1>7, <1>8, <1>10, <2>1, <4>1 DEF FirstAddress, NoAddress
    <3> QED
      BY <1>3, <1>7, <3>1, <3>2 DEF KeptAddress
  <2>2. CASE l.key # "HostName"
    <3>1. NoAddress(b, m)
      BY <1>2, <1>3, <1>10, <2>2 DEF NoAddress
    <3>2. NoAddress(d, Len(d))
      BY <1>7, <1>8, <1>10, <2>2 DEF NoAddress
    <3> QED
      BY <3>1, <3>2 DEF KeptAddress
  <2> QED
    BY <2>1, <2>2
<1>11. ASSUME NEW p, NEW q, FirstAddress(b, i, p), FirstAddress(r, Len(r), q), b[p] = r[q]
       PROVE  KeptAddress(b, m, d)
  <2>1. FirstAddress(b, m, p)
    <3>1. p \in 1..i /\ \A j \in 1..m : j < p => j # m
      BY <1>1, <1>11 DEF FirstAddress
    <3> QED
      BY <1>2, <1>11, <3>1 DEF FirstAddress
  <2>2. FirstAddress(d, Len(d), q)
    <3>1. q \in 1..Len(r) /\ \A j \in 1..Len(d) : j < q => j # e
      BY <1>5, <1>6, <1>11 DEF FirstAddress
    <3> QED
      BY <1>7, <1>8, <1>11, <3>1 DEF FirstAddress
  <2>3. d[q] = r[q]
    BY <1>7, <1>11 DEF FirstAddress
  <2> QED
    BY <1>11, <2>1, <2>2, <2>3 DEF KeptAddress
<1>12. KeptAddress(b, m, d)
  BY <1>10, <1>11 DEF Kept, KeptAddress
<1>13. Kept(b, m, d)
  BY <1>9, <1>12 DEF Kept
<1> QED
  BY <1>1, <1>3, <1>4, <1>13

\* A block without its lines of forwarding fits its box, with the same address.
LEMMA RemovedFits ==
  ASSUME NEW n \in Boxes, NEW b, Fits(b, n)
  PROVE  LET r == RemoveForwardAgent(b) IN
         Fits(r, n) /\ AddrIn(r) = AddrIn(b) /\ FirstAt(r, "ForwardAgent", 0)
<1>1. b \in Seq(Lines) /\ b # <<>> /\ Len(b) \in Nat /\ Len(b) >= 1 /\ DOMAIN b = 1..Len(b) /\ IsHost(b[1])
  BY LineShape DEF Fits, Section
<1>2. PICK S : S = DOMAIN b \ ForwardAgentLines(b)
  OBVIOUS
<1>3. \A j \in 1..Len(b) : j \in S <=> b[j].key # "ForwardAgent"
  BY <1>1, <1>2 DEF ForwardAgentLines
<1>4. PICK u : u = UpTo(b, S)
  OBVIOUS
<1>5. /\ LinesAt(b, S) = u[Len(b)] /\ u[0] = <<>>
      /\ \A i \in 1..Len(b) : u[i] = IF i \in S THEN Append(u[i - 1], b[i]) ELSE u[i - 1]
  BY <1>1, <1>4, UpToGrows
<1> DEFINE T == {i \in Nat : i + 1 <= Len(b) => Kept(b, i + 1, u[i + 1])}
<1>6. 0 \in T
  <2>1. 1 \in 1..Len(b) /\ 1 \in S
    BY <1>1, <1>3 DEF IsHost
  <2>2. u[1] = Append(u[1 - 1], b[1])
    BY <1>5, <2>1
  <2>3. u[1] = Append(<<>>, b[1])
    <3>1. 1 - 1 = 0
      OBVIOUS
    <3> QED
      BY <1>5, <2>2, <3>1
  <2>4. u[1] = <<b[1]>>
    BY <1>1, <2>1, <2>3
  <2>5. Kept(b, 1, u[1])
    BY <1>1, <2>4, KeptStart
  <2>6. 0 + 1 = 1
    OBVIOUS
  <2> QED
    BY <2>5, <2>6
<1>7. ASSUME NEW k \in Nat, k \in T PROVE k + 1 \in T
  <2> SUFFICES ASSUME (k + 1) + 1 <= Len(b) PROVE Kept(b, (k + 1) + 1, u[(k + 1) + 1])
    OBVIOUS
  <2>1. PICK i : i = k + 1
    OBVIOUS
  <2>2. i \in Nat /\ i >= 1 /\ i <= Len(b) /\ i + 1 \in 1..Len(b) /\ (i + 1) - 1 = i
    BY <1>1, <2>1
  <2>3. Kept(b, i, u[i])
    BY <1>7, <2>1, <2>2
  <2> HIDE DEF T
  <2>4. u[i + 1] = IF i + 1 \in S THEN Append(u[i], b[i + 1]) ELSE u[i]
    BY <1>5, <2>2
  <2>5. b[i + 1] \in Lines /\ (i + 1 \in S <=> b[i + 1].key # "ForwardAgent")
    BY <1>1, <1>3, <2>2
  <2>6. CASE i + 1 \in S
    BY <1>1, <2>1, <2>2, <2>3, <2>4, <2>5, <2>6, KeptWith
  <2>7. CASE i + 1 \notin S
    BY <1>1, <2>1, <2>2, <2>3, <2>4, <2>5, <2>7, KeptWithout
  <2> QED
    BY <2>6, <2>7
<1>8. Kept(b, Len(b), u[Len(b)])
  <2>1. \A i \in Nat : i \in T
    <3> HIDE DEF T
    <3> QED
      BY <1>6, <1>7, SetInduction
  <2>2. Len(b) - 1 \in Nat /\ (Len(b) - 1) + 1 = Len(b)
    BY <1>1
  <2>3. Len(b) - 1 \in T
    BY <2>1, <2>2
  <2> QED
    BY <1>1, <2>2, <2>3
<1> HIDE DEF T
<1>9. PICK r : r = RemoveForwardAgent(b)
  OBVIOUS
<1>10. Kept(b, Len(b), r)
  BY <1>2, <1>5, <1>8, <1>9 DEF RemoveForwardAgent
<1>11. /\ r \in Seq(Lines) /\ r # <<>> /\ r[1] = b[1]
       /\ \A k \in 2..Len(r) : \E j \in 2..Len(b) : b[j].key # "ForwardAgent" /\ r[k] = b[j]
  BY <1>10 DEF Kept, KeptLines
<1>12. /\ \A j \in 1..Len(r) : j = 1 \/ j \in 2..Len(r)
       /\ \A j \in 2..Len(b) : j \in 1..Len(b)
       /\ 1 \in 1..Len(b)
  BY <1>1
<1>13. ASSUME NEW k \in 1..Len(r)
       PROVE  \E j \in 1..Len(b) : b[j].key # "ForwardAgent" /\ r[k] = b[j]
  <2>1. CASE k = 1
    BY <1>1, <1>11, <1>12, <2>1 DEF IsHost
  <2>2. CASE k \in 2..Len(r)
    BY <1>11, <1>12, <2>2
  <2> QED
    BY <1>12, <2>1, <2>2
<1>14. Fits(r, n)
  <2>1. Section(r)
    BY <1>1, <1>11 DEF Fits, Section
  <2>2. Sole(r[1], n)
    BY <1>11 DEF Fits
  <2>3. \A j \in 1..Len(r) : /\ r[j].key # "Match" /\ r[j].args # <<>>
                             /\ r[j].key = "HostName" => r[j].args[1] \in Addrs
    BY <1>13 DEF Fits
  <2> QED
    BY <1>11, <2>1, <2>2, <2>3 DEF Fits
<1>15. FirstAt(r, "ForwardAgent", 0)
  BY <1>13 DEF FirstAt
<1>16. SameOption(b, r, "HostName")
  <2>1. CASE NoAddress(b, Len(b)) /\ NoAddress(r, Len(r))
    BY <2>1 DEF SameOption, FirstAt, NoAddress
  <2>2. ASSUME NEW p, NEW q,
               FirstAddress(b, Len(b), p), FirstAddress(r, Len(r), q), b[p] = r[q]
        PROVE  SameOption(b, r, "HostName")
    BY <2>2 DEF FirstAddress, FirstAt, SameOption
  <2> QED
    BY <1>10, <2>1, <2>2 DEF Kept, KeptAddress
<1>17. AddrIn(r) = AddrIn(b)
  BY <1>1, <1>11, <1>16, SameValues
<1> QED
  BY <1>9, <1>14, <1>15, <1>17

-----------------------------------------------------------------------------
(* What an edit makes of the file.                                                       *)

\* Splice rewrites the block of a box.
LEMMA SpliceRewrites ==
  ASSUME NEW f \in Seq(Lines), WellFormed(f), NEW n \in Boxes, Found(f, n),
         NEW m \in Boxes, m = n \/ ~Found(f, m),
         NEW b, (b = <<>> /\ m = n) \/ Fits(b, m)
  PROVE  Rewrites(f, Splice(f, n, b), FindBlock(f, n) - 1, Block(f, n), b, n, m)
<1>1. PICK i, c : i = FindBlock(f, n) /\ c = Block(f, n)
  OBVIOUS
<1>2. PICK e : e = BlockEnd(f, i)
  OBVIOUS
<1>3. /\ i \in DOMAIN f /\ e \in i..Len(f) /\ Len(c) = e - i + 1
      /\ \A k \in 1..Len(c) : c[k] = f[i + k - 1]
      /\ Names(c[1], n) /\ Section(c) /\ c # <<>> /\ c \in Seq(Lines)
  BY <1>1, <1>2, BlockShape
<1>4. /\ i \in Nat /\ e \in Nat /\ i >= 1 /\ Len(f) \in Nat /\ DOMAIN f = 1..Len(f)
      /\ Len(c) = e - i + 1 /\ i <= e /\ e <= Len(f) /\ Len(c) \in Nat
  BY <1>3, LineShape
<1>5. b \in Seq(Lines) /\ Section(b) /\ Len(b) \in Nat
  <2>1. CASE b = <<>>
    BY <2>1 DEF Section
  <2>2. CASE b # <<>>
    BY <2>2 DEF Fits
  <2> QED
    BY <2>1, <2>2
<1>6. PICK x : x = i - 1
  OBVIOUS
<1>7. PICK p, t : p = SubSeq(f, 1, i - 1) /\ t = SubSeq(f, e + 1, Len(f))
  OBVIOUS
<1>8. p \in Seq(Lines) /\ Len(p) = x /\ \A k \in 1..x : p[k] = f[k]
  <2>1. \A k \in 1..(i - 1) : f[k] \in Lines
    BY <1>4
  <2>2. /\ p \in Seq(Lines) /\ Len(p) = IF 1 <= i - 1 THEN (i - 1) - 1 + 1 ELSE 0
        /\ \A k \in 1..((i - 1) - 1 + 1) : p[k] = f[1 + k - 1]
    BY <1>4, <1>7, <2>1, SubSeqProperties
  <2> QED
    BY <1>4, <1>6, <2>2
<1>9. t \in Seq(Lines) /\ Len(t) = Len(f) - e /\ \A k \in 1..(Len(f) - e) : t[k] = f[e + k]
  <2>1. \A k \in (e + 1)..Len(f) : f[k] \in Lines
    BY <1>4
  <2>2. /\ t \in Seq(Lines) /\ Len(t) = IF e + 1 <= Len(f) THEN Len(f) - (e + 1) + 1 ELSE 0
        /\ \A k \in 1..(Len(f) - (e + 1) + 1) : t[k] = f[(e + 1) + k - 1]
    BY <1>4, <1>7, <2>1, SubSeqProperties
  <2>3. ASSUME NEW k \in 1..(Len(f) - e) PROVE t[k] = f[e + k]
    <3>1. k \in 1..(Len(f) - (e + 1) + 1) /\ (e + 1) + k - 1 = e + k
      BY <1>4
    <3> QED
      BY <2>2, <3>1
  <2>4. Len(t) = Len(f) - e
    <3>1. Len(t) = IF e + 1 <= Len(f) THEN Len(f) - (e + 1) + 1 ELSE 0
      BY <2>2
    <3>2. PICK z : z = Len(f)
      OBVIOUS
    <3>3. e \in Nat /\ z \in Nat /\ e <= z /\ Len(t) = IF e + 1 <= z THEN z - (e + 1) + 1 ELSE 0
      BY <1>4, <3>1, <3>2
    <3>4. Len(t) = z - e
      BY ONLY <3>3
    <3> QED
      BY <3>2, <3>4
  <2> QED
    BY <2>2, <2>3, <2>4
<1>10. PICK g : g = p \o b \o t
  OBVIOUS
<1>11. /\ g \in Seq(Lines) /\ Len(g) = Len(p) + Len(b) + Len(t)
       /\ \A k \in 1..Len(p) : g[k] = p[k]
       /\ \A k \in 1..Len(b) : g[Len(p) + k] = b[k]
       /\ \A k \in 1..Len(t) : g[Len(p) + Len(b) + k] = t[k]
  <2>1. p \in Seq(Lines) /\ b \in Seq(Lines) /\ t \in Seq(Lines)
    BY <1>5, <1>8, <1>9
  <2>2. LET s == p \o b \o t IN
        /\ s \in Seq(Lines) /\ Len(s) = Len(p) + Len(b) + Len(t)
        /\ \A k \in 1..Len(p) : s[k] = p[k]
        /\ \A k \in 1..Len(b) : s[Len(p) + k] = b[k]
        /\ \A k \in 1..Len(t) : s[Len(p) + Len(b) + k] = t[k]
    BY ONLY <2>1, Joined
  <2> QED
    BY ONLY <1>10, <2>2
<1>12. g = Splice(f, n, b)
  BY <1>1, <1>2, <1>7, <1>10 DEF Splice
<1>13. x \in Nat /\ x + Len(c) = e /\ x + 1 = i /\ Len(f) - Len(c) - x = Len(f) - e
  BY <1>4, <1>6
<1>14. Swapped(f, g, x, c, b)
  <2>1. Len(g) = (Len(f) - Len(c)) + Len(b)
    <3>1. Len(g) = Len(p) + Len(b) + Len(t) /\ Len(p) = x /\ Len(t) = Len(f) - e
      BY <1>8, <1>9, <1>11
    <3>2. /\ Len(f) \in Nat /\ e \in Nat /\ x \in Nat /\ Len(b) \in Nat /\ Len(c) \in Nat
          /\ x + Len(c) = e
      BY <1>4, <1>5, <1>13
    <3> QED
      BY ONLY <3>1, <3>2
  <2>2. \A k \in 1..x : f[k] = g[k]
    BY <1>8, <1>11
  <2>3. \A k \in 1..Len(c) : f[x + k] = c[k]
    <3> SUFFICES ASSUME NEW k \in 1..Len(c) PROVE f[x + k] = c[k]
      OBVIOUS
    <3>1. x + k = i + k - 1
      BY <1>4, <1>6
    <3>2. c[k] = f[i + k - 1]
      BY <1>3
    <3> QED
      BY <3>1, <3>2
  <2>4. \A k \in 1..Len(b) : g[x + k] = b[k]
    BY <1>8, <1>11
  <2>5. \A k \in 1..(Len(f) - Len(c) - x) : f[x + Len(c) + k] = g[x + Len(b) + k]
    <3> SUFFICES ASSUME NEW k \in 1..(Len(f) - e) PROVE f[e + k] = g[x + Len(b) + k]
      BY <1>13
    <3>1. t[k] = f[e + k] /\ k \in 1..Len(t)
      BY <1>9
    <3>2. g[Len(p) + Len(b) + k] = t[k]
      BY <1>11, <3>1
    <3> QED
      BY <1>8, <3>1, <3>2
  <2>6. x + Len(c) < Len(f) => IsHost(f[x + Len(c) + 1])
    <3>1. e < Len(f) => IsHost(f[e + 1])
      BY <1>2, <1>3, EndThere
    <3> QED
      BY <1>13, <3>1
  <2> QED
    BY <1>3, <1>4, <1>5, <1>11, <1>13, <2>1, <2>2, <2>3, <2>4, <2>5, <2>6 DEF Swapped
<1>15. \A k \in Outside(f, x, c) : ~Names(f[k], m)
  <2> SUFFICES ASSUME NEW k \in Outside(f, x, c), Names(f[k], m) PROVE FALSE
    OBVIOUS
  <2>1. k \in DOMAIN f /\ (k <= x \/ k > x + Len(c))
    BY DEF Outside
  <2>2. m = n
    BY <2>1, FindIs
  <2>3. Names(f[i], n)
    BY <1>1, FindIs
  <2>4. k = i
    BY <1>3, <2>1, <2>2, <2>3 DEF WellFormed
  <2> QED
    BY <1>4, <1>13, <2>1, <2>4
<1>16. b # <<>> => Sole(b[1], m)
  BY DEF Fits
<1>17. \A k \in 1..Len(b) : /\ b[k].key # "Match" /\ b[k].args # <<>>
                            /\ b[k].key = "HostName" => b[k].args[1] \in Addrs
  <2>1. b = <<>> => 1..Len(b) = {}
    OBVIOUS
  <2> QED
    BY <2>1 DEF Fits
<1>18. Rewrites(f, g, x, c, b, n, m)
  BY <1>3, <1>14, <1>15, <1>16, <1>17 DEF Rewrites
<1> QED
  BY <1>1, <1>6, <1>12, <1>18

\* So does a block at the end, of a box that had none.
LEMMA AppendRewrites ==
  ASSUME NEW f \in Seq(Lines), NEW n \in Boxes, ~Found(f, n), NEW b, Fits(b, n)
  PROVE  Rewrites(f, f \o b, Len(f), <<>>, b, n, n)
<1>1. PICK g : g = f \o b
  OBVIOUS
<1>2. b \in Seq(Lines) /\ Len(b) \in Nat /\ Len(f) \in Nat /\ Section(b) /\ DOMAIN f = 1..Len(f)
  BY LineShape DEF Fits
<1>3. PICK c : c = <<>>
  OBVIOUS
<1>4. c \in Seq(Lines) /\ Len(c) = 0 /\ c = <<>>
  BY <1>3
<1>5. g \in Seq(Lines) /\ Len(g) = Len(f) + Len(b)
  BY <1>1, <1>2, ConcatProperties
<1>6. \A j \in 1..Len(f) + Len(b) : g[j] = IF j <= Len(f) THEN f[j] ELSE b[j - Len(f)]
  BY <1>1, <1>2, ConcatProperties
<1>7. \A k \in 1..Len(f) : f[k] = g[k]
  BY <1>2, <1>6
<1>8. \A k \in 1..Len(b) : g[Len(f) + k] = b[k]
  <2> SUFFICES ASSUME NEW j \in 1..Len(b) PROVE g[Len(f) + j] = b[j]
    OBVIOUS
  <2>1. PICK q : q = Len(f) + j
    OBVIOUS
  <2>2. q \in 1..Len(f) + Len(b) /\ ~(q <= Len(f)) /\ q - Len(f) = j
    BY <1>2, <2>1
  <2> QED
    BY <1>6, <2>1, <2>2
<1>9. Swapped(f, g, Len(f), c, b)
  <2>1. /\ Len(f) + Len(c) <= Len(f) /\ Len(g) = (Len(f) - Len(c)) + Len(b)
        /\ 1..Len(c) = {} /\ 1..(Len(f) - Len(c) - Len(f)) = {} /\ ~(Len(f) + Len(c) < Len(f))
    BY <1>2, <1>4, <1>5
  <2>2. Section(c)
    BY <1>4 DEF Section
  <2> QED
    BY <1>2, <1>4, <1>5, <1>7, <1>8, <2>1, <2>2 DEF Swapped
<1>10. \A k \in Outside(f, Len(f), c) : ~Names(f[k], n)
  BY FindIs DEF Outside
<1>11. Rewrites(f, g, Len(f), c, b, n, n)
  BY <1>4, <1>9, <1>10 DEF Rewrites, Fits
<1> QED
  BY <1>1, <1>3, <1>11

\* What every edit keeps of a file.
Sound(f, g) ==
  /\ g \in Seq(Lines) /\ WellFormed(g) /\ UserLines(g) = UserLines(f)
  /\ NothingForAll(f) => NothingForAll(g)

\* A rewritten file keeps what every edit keeps.
LEMMA Rewritten ==
  ASSUME NEW f, NEW g, NEW x, NEW c, NEW b, NEW n, NEW m, Rewrites(f, g, x, c, b, n, m),
         WellFormed(f)
  PROVE  Sound(f, g)
<1>1. g \in Seq(Lines)
  BY DEF Rewrites, Swapped
<1> QED
  BY <1>1, StaysWellFormed, StaysNothingForAll, UserLinesStay DEF Sound

\* What Splice makes of the blocks of a file.
LEMMA Spliced ==
  ASSUME NEW f \in Seq(Lines), WellFormed(f), NEW n \in Boxes, Found(f, n),
         NEW m \in Boxes, m = n \/ ~Found(f, m),
         NEW b, (b = <<>> /\ m = n) \/ Fits(b, m)
  PROVE  LET g == Splice(f, n, b) IN
         /\ Sound(f, g) /\ Block(g, m) = b
         /\ m # n => Block(g, n) = <<>>
         /\ \A o \in Boxes \ {n, m} : Block(g, o) = Block(f, o)
<1>1. PICK g, x, c : g = Splice(f, n, b) /\ x = FindBlock(f, n) - 1 /\ c = Block(f, n)
  OBVIOUS
<1>2. Rewrites(f, g, x, c, b, n, m)
  BY <1>1, SpliceRewrites
<1>3. c # <<>>
  BY <1>1, BlockShape
<1>4. /\ \A o \in Boxes \ {n, m} : Block(g, o) = Block(f, o)
      /\ b # <<>> => Block(g, m) = b
      /\ c # <<>> /\ (b = <<>> \/ n # m) => Block(g, n) = <<>>
  BY <1>2, BlocksAfter
<1>5. Sound(f, g)
  BY <1>2, Rewritten
<1>6. Block(g, m) = b
  <2>1. CASE b = <<>> /\ m = n
    BY <1>3, <1>4, <2>1
  <2>2. CASE Fits(b, m)
    BY <1>4, <2>2 DEF Fits
  <2> QED
    BY <2>1, <2>2
<1>7. m # n => Block(g, n) = <<>>
  BY <1>3, <1>4
<1> QED
  BY <1>1, <1>4, <1>5, <1>6, <1>7

\* What a block at the end makes of them.
LEMMA Added ==
  ASSUME NEW f \in Seq(Lines), WellFormed(f), NEW n \in Boxes, ~Found(f, n), NEW b, Fits(b, n)
  PROVE  LET g == f \o b IN
         /\ Sound(f, g) /\ Block(g, n) = b
         /\ \A o \in Boxes \ {n} : Block(g, o) = Block(f, o)
<1>1. PICK g, x, c : g = f \o b /\ x = Len(f) /\ c = <<>>
  OBVIOUS
<1>2. Rewrites(f, g, x, c, b, n, n)
  BY <1>1, AppendRewrites
<1>3. /\ \A o \in Boxes \ {n} : Block(g, o) = Block(f, o)
      /\ b # <<>> => Block(g, n) = b
  BY <1>2, BlocksAfter
<1>4. Sound(f, g)
  BY <1>2, Rewritten
<1> QED
  BY <1>1, <1>3, <1>4 DEF Fits

\* A box without a block has no address, and no forwarding.
LEMMA NoBlock == AddrIn(<<>>) = NoAddr /\ ~ForwardAgentEnabled(<<>>)
<1>1. PICK b : b = <<>>
  OBVIOUS
<1>2. b \in Seq(Lines) /\ \A k : FirstAt(b, k, 0)
  BY <1>1 DEF FirstAt
<1>3. \A k : OptionLine(b, k) = 0
  BY <1>2, OptionIs
<1> QED
  BY <1>1, <1>3 DEF AddrIn, ForwardAgentEnabled

Forwards(f, n) == ForwardAgentEnabled(Block(f, n))

\* The edits after which git-sync need not have left its box enabled.
Lapses == {"RenameHost", "DeleteHost", "DisableForwardAgent"}

\* How the address of each box in g comes from those in f: the edit leaves them, or changes
\* the one of its box, or moves it to the new name.
SameAddr(f, g, n) == HostNameOf(g, n) = HostNameOf(f, n)
Tabled(j, f, g) ==
  \/ \A n \in Boxes : SameAddr(f, g, n)
  \/ /\ HostNameOf(g, j.box) \in Addrs \cup {NoAddr}
     /\ \A n \in Boxes \ {j.box} : SameAddr(f, g, n)
  \/ /\ HostNameOf(f, j.to) = NoAddr /\ j.to # j.box
     /\ HostNameOf(g, j.to) = HostNameOf(f, j.box) /\ HostNameOf(g, j.box) = NoAddr
     /\ \A n \in Boxes \ {j.box, j.to} : SameAddr(f, g, n)

Done(j, f, g) ==
  /\ Sound(f, g) /\ Tabled(j, f, g)
  /\ \A n \in Boxes : Forwards(f, n) /\ (n # j.box \/ j.edit \notin Lapses) => Forwards(g, n)
  /\ j.edit = "EnableForwardAgent" => Forwards(g, j.box)

\* An edit that rewrites the block of its box.
LEMMA BlockEdit ==
  ASSUME NEW j \in Jobs, NEW f \in Seq(Lines), WellFormed(f), Found(f, j.box),
         NEW b, Fits(b, j.box),
         AddrIn(b) = AddrIn(Block(f, j.box)) \/ AddrIn(b) \in Addrs,
         j.edit \notin Lapses => (Forwards(f, j.box) => ForwardAgentEnabled(b)),
         j.edit = "EnableForwardAgent" => ForwardAgentEnabled(b)
  PROVE  Done(j, f, Splice(f, j.box, b))
<1>1. PICK n : n = j.box /\ n \in Boxes
  BY DEF Jobs
<1>2. PICK g : g = Splice(f, n, b)
  OBVIOUS
<1>3. /\ Sound(f, g) /\ Block(g, n) = b
      /\ \A o \in Boxes \ {n} : Block(g, o) = Block(f, o)
  BY <1>1, <1>2, Spliced
<1>4. g \in Seq(Lines)
  BY <1>3 DEF Sound
<1>5. \A o : HostNameOf(f, o) = AddrIn(Block(f, o)) /\ HostNameOf(g, o) = AddrIn(Block(g, o))
  BY <1>4, AddrOf
<1>6. \A o \in Boxes \ {n} : SameAddr(f, g, o)
  BY <1>3, <1>5 DEF SameAddr
<1>7. Tabled(j, f, g)
  <2>1. CASE AddrIn(b) = AddrIn(Block(f, n))
    BY <1>1, <1>3, <1>5, <1>6, <2>1 DEF Tabled, SameAddr
  <2>2. CASE AddrIn(b) \in Addrs
    BY <1>1, <1>3, <1>5, <1>6, <2>2 DEF Tabled
  <2> QED
    BY <1>1, <2>1, <2>2
<1>8. \A o \in Boxes : Forwards(f, o) /\ (o # n \/ j.edit \notin Lapses) => Forwards(g, o)
  BY <1>1, <1>3 DEF Forwards
<1> QED
  BY <1>1, <1>2, <1>3, <1>7, <1>8 DEF Done, Forwards

\* Every edit that is not refused does what Done says.
LEMMA EditDone ==
  ASSUME NEW j \in Jobs, j.edit # "none", NEW f \in Seq(Lines), WellFormed(f), ~Refused(j, f)
  PROVE  Done(j, f, Edited(j, f))
<1>1. j.box \in Boxes /\ j.to \in Boxes /\ j.addr \in Addrs /\ j.user \in Users /\ j.edit \in Edits
  BY DEF Jobs
<1>2. PICK n, m : n = j.box /\ m = j.to
  OBVIOUS
<1>3. n \in Boxes /\ m \in Boxes /\ j.addr \in Words /\ j.user \in Words
  BY <1>1, <1>2, SshAssumption
<1>4. Found(f, n) => Fits(Block(f, n), n)
  BY <1>3, BlockFits
<1>5. PICK b : b = Block(f, n)
  OBVIOUS
<1>6. CASE j.edit = "AddHost"
  <2>1. PICK h : h = HostBlock(n, j.addr, j.user)
    OBVIOUS
  <2>2. Fits(h, n) /\ AddrIn(h) = j.addr
    BY <1>1, <1>3, <2>1, HostBlockFits
  <2>3. ~Found(f, n)
    BY <1>2, <1>6 DEF Refused
  <2>4. PICK g : g = f \o h
    OBVIOUS
  <2>5. /\ Sound(f, g) /\ Block(g, n) = h
        /\ \A o \in Boxes \ {n} : Block(g, o) = Block(f, o)
    BY <1>3, <2>2, <2>3, <2>4, Added
  <2>6. g \in Seq(Lines)
    BY <2>5 DEF Sound
  <2>7. \A o : HostNameOf(f, o) = AddrIn(Block(f, o)) /\ HostNameOf(g, o) = AddrIn(Block(g, o))
    BY <2>6, AddrOf
  <2>8. Tabled(j, f, g)
    BY <1>1, <1>2, <2>2, <2>5, <2>7 DEF Tabled, SameAddr
  <2>9. Block(f, n) = <<>>
    BY <2>3, BlockShape
  <2>10. \A o \in Boxes : Forwards(f, o) => Forwards(g, o)
    BY <2>5, <2>9, NoBlock DEF Forwards
  <2>11. g = Edited(j, f)
    BY <1>2, <1>6, <2>1, <2>4 DEF Edited, WithHost
  <2> QED
    BY <1>6, <2>5, <2>8, <2>10, <2>11 DEF Done
<1>7. CASE j.edit \in {"UpdateHost", "UpdateHostUser"}
  <2>1. Found(f, n)
    BY <1>2, <1>7 DEF Refused
  <2>2. PICK k, v : IF j.edit = "UpdateHost" THEN k = "HostName" /\ v = j.addr
                    ELSE k = "User" /\ v = j.user
    BY Zenon
  <2>3. k \in {"HostName", "User"} /\ v \in Words /\ (k = "HostName" => v \in Addrs)
    BY <1>1, <1>3, <1>7, <2>2
  <2>4. PICK d : d = OptionSet(b, k, v)
    OBVIOUS
  <2>5. /\ Fits(d, n) /\ AddrIn(d) = IF k = "HostName" THEN v ELSE AddrIn(b)
        /\ ForwardAgentEnabled(d) <=> ForwardAgentEnabled(b)
    BY <1>3, <1>4, <1>5, <2>1, <2>3, <2>4, OptionFits
  <2>6. Edited(j, f) = WithOption(f, n, k, v)
    BY <1>2, <1>7, <2>2 DEF Edited
  <2>7. WithOption(f, n, k, v) = Splice(f, n, d)
    BY <1>5, <2>4, Zenon DEF WithOption, OptionSet
  <2>8. AddrIn(d) = AddrIn(b) \/ AddrIn(d) \in Addrs
    BY <2>3, <2>5
  <2>9. Forwards(f, n) => ForwardAgentEnabled(d)
    BY <1>5, <2>5 DEF Forwards
  <2> QED
    BY <1>2, <1>5, <1>7, <2>1, <2>5, <2>6, <2>7, <2>8, <2>9, BlockEdit
<1>8. CASE j.edit = "RenameHost"
  <2>1. Found(f, n) /\ ~Found(f, m)
    BY <1>2, <1>8 DEF Refused
  <2>2. n # m
    BY <2>1
  <2>3. PICK d : d = AliasSet(b, n, m)
    OBVIOUS
  <2>4. Fits(d, m) /\ AddrIn(d) = AddrIn(b)
    BY <1>3, <1>4, <1>5, <2>1, <2>3, AliasFits
  <2>5. PICK g : g = Splice(f, n, d)
    OBVIOUS
  <2>6. /\ Sound(f, g) /\ Block(g, m) = d /\ Block(g, n) = <<>>
        /\ \A o \in Boxes \ {n, m} : Block(g, o) = Block(f, o)
    BY <1>3, <2>1, <2>2, <2>4, <2>5, Spliced
  <2>7. g \in Seq(Lines)
    BY <2>6 DEF Sound
  <2>8. \A o : HostNameOf(f, o) = AddrIn(Block(f, o)) /\ HostNameOf(g, o) = AddrIn(Block(g, o))
    BY <2>7, AddrOf
  <2>9. Block(f, m) = <<>>
    BY <2>1, BlockShape
  <2>10. Tabled(j, f, g)
    <3>1. HostNameOf(f, m) = NoAddr /\ HostNameOf(g, n) = NoAddr
      BY <2>6, <2>8, <2>9, NoBlock
    <3>2. HostNameOf(g, m) = HostNameOf(f, n)
      BY <1>5, <2>4, <2>6, <2>8
    <3>3. \A o \in Boxes \ {n, m} : SameAddr(f, g, o)
      BY <2>6, <2>8 DEF SameAddr
    <3> QED
      BY <1>2, <2>2, <3>1, <3>2, <3>3 DEF Tabled
  <2>11. \A o \in Boxes : Forwards(f, o) /\ o # n => Forwards(g, o)
    BY <2>6, <2>9, NoBlock DEF Forwards
  <2>12. g = Edited(j, f)
    BY <1>2, <1>5, <1>8, <2>3, <2>5 DEF Edited, WithAlias, AliasSet
  <2> QED
    BY <1>2, <1>8, <2>6, <2>10, <2>11, <2>12 DEF Done, Lapses
<1>9. CASE j.edit = "DeleteHost"
  <2>1. PICK g : g = Without(f, n)
    OBVIOUS
  <2>2. /\ Sound(f, g) /\ (Block(g, n) = <<>> \/ Block(g, n) = Block(f, n))
        /\ \A o \in Boxes \ {n} : Block(g, o) = Block(f, o)
    <3>1. CASE Found(f, n)
      <4>1. PICK e : e = <<>>
        OBVIOUS
      <4>2. g = Splice(f, n, e)
        BY <2>1, <3>1, <4>1 DEF Without
      <4> QED
        BY <1>3, <3>1, <4>1, <4>2, Spliced
    <3>2. CASE ~Found(f, n)
      BY <2>1, <3>2 DEF Without, Sound
    <3> QED
      BY <3>1, <3>2
  <2>3. g \in Seq(Lines)
    BY <2>2 DEF Sound
  <2>4. \A o : HostNameOf(f, o) = AddrIn(Block(f, o)) /\ HostNameOf(g, o) = AddrIn(Block(g, o))
    BY <2>3, AddrOf
  <2>5. Tabled(j, f, g)
    <3>1. \A o \in Boxes \ {n} : SameAddr(f, g, o)
      BY <2>2, <2>4 DEF SameAddr
    <3>2. HostNameOf(g, n) = NoAddr \/ SameAddr(f, g, n)
      BY <2>2, <2>4, NoBlock DEF SameAddr
    <3> QED
      BY <1>2, <3>1, <3>2 DEF Tabled
  <2>6. \A o \in Boxes : Forwards(f, o) /\ o # n => Forwards(g, o)
    BY <2>2 DEF Forwards
  <2>7. g = Edited(j, f)
    BY <1>2, <1>9, <2>1 DEF Edited
  <2> QED
    BY <1>2, <1>9, <2>2, <2>5, <2>6, <2>7 DEF Done, Lapses
<1>10. CASE j.edit \in {"EnableForwardAgent", "DisableForwardAgent"}
  <2>1. Found(f, n)
    BY <1>2, <1>10 DEF Refused
  <2>2. PICK r : r = RemoveForwardAgent(b)
    OBVIOUS
  <2>3. Fits(r, n) /\ AddrIn(r) = AddrIn(b) /\ FirstAt(r, "ForwardAgent", 0)
    BY <1>3, <1>4, <1>5, <2>1, <2>2, RemovedFits
  <2>4. CASE j.edit = "DisableForwardAgent"
    <3>1. Edited(j, f) = Splice(f, n, r)
      BY <1>2, <1>5, <2>2, <2>4 DEF Edited, WithoutForwardAgent
    <3> QED
      BY <1>2, <1>5, <2>1, <2>3, <2>4, <3>1, BlockEdit DEF Lapses
  <2>5. CASE j.edit = "EnableForwardAgent"
    <3>1. PICK d : d = Append(r, Opt("ForwardAgent", "yes"))
      OBVIOUS
    <3>2. Fits(d, n) /\ AddrIn(d) = AddrIn(r) /\ ForwardAgentEnabled(d)
      BY <1>3, <2>3, <3>1, AppendFits
    <3>3. (Edited(j, f) = f /\ ForwardAgentEnabled(b)) \/ Edited(j, f) = Splice(f, n, d)
      BY <1>2, <1>5, <2>2, <2>5, <3>1 DEF Edited, WithForwardAgent
    <3>4. CASE Edited(j, f) = f /\ ForwardAgentEnabled(b)
      <4>1. Sound(f, f) /\ Tabled(j, f, f)
        BY DEF Sound, Tabled, SameAddr
      <4> QED
        BY <1>2, <1>5, <3>4, <4>1 DEF Done, Forwards
    <3>5. CASE Edited(j, f) = Splice(f, n, d)
      BY <1>2, <1>5, <2>1, <2>3, <3>2, <3>5, BlockEdit
    <3> QED
      BY <3>3, <3>4, <3>5
  <2> QED
    BY <1>10, <2>4, <2>5
<1> QED
  BY <1>1, <1>6, <1>7, <1>8, <1>9, <1>10 DEF Edits

-----------------------------------------------------------------------------
(* The invariant.                                                                        *)

OneProcess == \A p, q \in Procs : p = q
OurFiles == \A f \in UserFiles : WellFormed(f)
PlainOptions == \A f \in UserFiles : NothingForAll(f)

Places == {"idle", "toggle", "ask", "read", "truncate", "write", "agent"}

SshTypes ==
  /\ file \in Seq(Lines)
  /\ pc \in [Procs -> Places]
  /\ job \in [Procs -> Jobs \cup {NoJob}]
  /\ text \in [Procs -> Seq(Lines)]
  /\ DOMAIN tries = Procs
  /\ kills \in Nat
  /\ synced \subseteq Boxes

\* What a process knows of the file where it stands.
Placed(p) ==
  LET j == job[p] IN
  /\ ~At(p, "idle") => j \in Jobs
  /\ pc[p] \in {"toggle", "ask"} => j.cmd = "git-sync"
  /\ pc[p] \in {"ask", "read", "truncate"} => j.edit # "none"
  /\ At(p, "truncate") => ~Refused(j, file) /\ text[p] = Edited(j, file)
  /\ At(p, "write") => file = <<>>
  /\ pc[p] \in {"write", "agent"} /\ j.edit = "EnableForwardAgent" => Forwards(Content, j.box)

FileKept == WellFormed(Content) /\ (PlainOptions => NothingForAll(Content))

\* git-sync's promise, and that a command which breaks it has dropped its box from synced.
Syncing == {"delete", "rename", "git-sync"}
Promise ==
  /\ \A n \in synced : agent /\ Forwards(Content, n)
  /\ \A p \in Procs : /\ job[p].cmd \in Syncing => job[p].box \notin synced
                      /\ job[p].edit \in Lapses => job[p].cmd \in Syncing

SshInv == SshTypes /\ (\A p \in Procs : Placed(p)) /\ FileKept /\ Promise

\* The content, where p is the only process.
LEMMA ContentIs ==
  ASSUME OneProcess, NEW p \in Procs
  PROVE  /\ Content = IF At(p, "write") THEN text[p] ELSE file
         /\ Content' = IF pc'[p] = "write" THEN text'[p] ELSE file'
<1>1. \A q \in Procs : q = p
  BY DEF OneProcess
<1>2. Content = IF At(p, "write") THEN text[p] ELSE file
  <2>1. CASE At(p, "write")
    <3>1. (CHOOSE q \in Procs : At(q, "write")) = p
      BY <1>1, <2>1
    <3> QED
      BY <2>1, <3>1 DEF Content, Whole
  <2>2. CASE ~At(p, "write")
    BY <1>1, <2>2 DEF Content, Whole
  <2> QED
    BY <2>1, <2>2
<1>3. Content' = IF pc'[p] = "write" THEN text'[p] ELSE file'
  <2>1. CASE pc'[p] = "write"
    <3>1. (CHOOSE q \in Procs : pc'[q] = "write") = p
      BY <1>1, <2>1
    <3> QED
      BY <2>1, <3>1 DEF Content, Whole, At
  <2>2. CASE pc'[p] # "write"
    BY <1>1, <2>2 DEF Content, Whole, At
  <2> QED
    BY <2>1, <2>2
<1> QED
  BY <1>2, <1>3

\* What must be shown of a step of p.
LEMMA Settled ==
  ASSUME OneProcess, NEW p \in Procs, SshTypes', Placed(p)', FileKept',
         \A n \in synced' : agent' /\ Forwards(Content', n),
         job'[p].cmd \in Syncing => job'[p].box \notin synced',
         job'[p].edit \in Lapses => job'[p].cmd \in Syncing
  PROVE  SshInv'
<1>1. \A q \in Procs : q = p
  BY DEF OneProcess
<1>2. (\A q \in Procs : Placed(q))'
  BY <1>1
<1>3. Promise'
  BY <1>1 DEF Promise
<1> QED
  BY <1>2, <1>3 DEF SshInv

\* A job with another edit is a job, of the same command and box.
LEMMA JobWith ==
  ASSUME NEW j \in Jobs, NEW e \in Edits
  PROVE  LET k == [j EXCEPT !.edit = e] IN
         k \in Jobs /\ k.edit = e /\ k.cmd = j.cmd /\ k.box = j.box
BY DEF Jobs

\* What the end of an edit leaves of the job.
LEMMA EndedEdit ==
  ASSUME SshTypes, NEW p \in Procs, NEW ok, EndEdit(p, ok), job[p] \in Jobs
  PROVE  /\ pc' \in [Procs -> Places] /\ job' \in [Procs -> Jobs \cup {NoJob}]
         /\ text' \in [Procs -> Seq(Lines)] /\ DOMAIN tries' = Procs
         /\ pc'[p] \in {"idle", "agent", "read"}
         /\ pc'[p] # "idle" => job'[p] \in Jobs
         /\ pc'[p] = "agent" => ok /\ job'[p] = job[p]
         /\ pc'[p] = "read" => job'[p].edit # "none"
         /\ job'[p].cmd \in Syncing => job'[p].cmd = job[p].cmd /\ job'[p].box = job[p].box
         /\ job'[p].edit \in Lapses => job'[p] = job[p]
<1>0. <<>> \in Seq(Lines)
  OBVIOUS
<1>1. CASE Return(p)
  <2>1. pc' = [pc EXCEPT ![p] = "idle"] /\ job' = [job EXCEPT ![p] = NoJob]
        /\ text' = [text EXCEPT ![p] = <<>>] /\ tries' = [tries EXCEPT ![p] = 0]
    BY <1>1 DEF Return, Goto
  <2>2. NoJob.cmd = "none" /\ NoJob.edit = "none"
    BY DEF NoJob
  <2>3. pc'[p] = "idle" /\ job'[p] = NoJob
    BY <2>1 DEF SshTypes
  <2>4. /\ pc' \in [Procs -> Places] /\ job' \in [Procs -> Jobs \cup {NoJob}]
        /\ text' \in [Procs -> Seq(Lines)] /\ DOMAIN tries' = Procs
    BY <1>0, <2>1 DEF SshTypes, Places
  <2> QED
    BY <2>2, <2>3, <2>4 DEF Syncing, Lapses
<1>2. CASE /\ Goto(p, "agent") /\ ok
           /\ text' = [text EXCEPT ![p] = <<>>]
           /\ tries' = [tries EXCEPT ![p] = 0]
           /\ UNCHANGED job
  <2>1. pc'[p] = "agent" /\ job'[p] = job[p]
    BY <1>2 DEF SshTypes, Goto
  <2>2. /\ pc' \in [Procs -> Places] /\ job' \in [Procs -> Jobs \cup {NoJob}]
        /\ text' \in [Procs -> Seq(Lines)] /\ DOMAIN tries' = Procs
    BY <1>0, <1>2 DEF SshTypes, Places, Goto
  <2> QED
    BY <1>2, <2>1, <2>2
<1>3. ASSUME NEW e, e = NextEdit(job[p], ok), e # "none",
             Goto(p, "read"), job' = [job EXCEPT ![p].edit = e],
             text' = [text EXCEPT ![p] = <<>>], tries' = [tries EXCEPT ![p] = 0]
      PROVE  /\ pc' \in [Procs -> Places] /\ job' \in [Procs -> Jobs \cup {NoJob}]
             /\ text' \in [Procs -> Seq(Lines)] /\ DOMAIN tries' = Procs
             /\ pc'[p] = "read" /\ job'[p] \in Jobs /\ job'[p].edit = e /\ e \notin Lapses
             /\ job'[p].cmd = job[p].cmd /\ job'[p].box = job[p].box
  <2>1. e \in {"UpdateHostUser", "AddHost"}
    BY <1>3 DEF NextEdit
  <2>2. e \in Edits /\ e \notin Lapses
    BY <2>1 DEF Edits, Lapses
  <2>3. PICK k : k = [job[p] EXCEPT !.edit = e]
    OBVIOUS
  <2>4. k \in Jobs /\ k.edit = e /\ k.cmd = job[p].cmd /\ k.box = job[p].box
    BY <2>2, <2>3, JobWith
  <2>5. job' = [job EXCEPT ![p] = k]
    BY <1>3, <2>3
  <2>6. /\ pc'[p] = "read" /\ job'[p] = k
        /\ pc' \in [Procs -> Places] /\ job' \in [Procs -> Jobs \cup {NoJob}]
        /\ text' \in [Procs -> Seq(Lines)] /\ DOMAIN tries' = Procs
    BY <1>0, <1>3, <2>4, <2>5 DEF SshTypes, Goto, Places
  <2> QED
    BY <2>2, <2>4, <2>6
<1>4. CASE job[p].cmd = "git-sync" /\ ok
  BY <1>2, <1>4 DEF EndEdit
<1>5. CASE ~(job[p].cmd = "git-sync" /\ ok) /\ NextEdit(job[p], ok) = "none"
  BY <1>1, <1>5 DEF EndEdit
<1>6. CASE ~(job[p].cmd = "git-sync" /\ ok) /\ NextEdit(job[p], ok) # "none"
  BY <1>3, <1>6 DEF EndEdit
<1> QED
  BY <1>4, <1>5, <1>6

\* The empty file meets every demand.
LEMMA EmptyFile == <<>> \in Seq(Lines) /\ WellFormed(<<>>) /\ NothingForAll(<<>>)
BY DEF WellFormed, NothingForAll

\* Neither the content nor what git-sync promised changes, beyond a promise given up.
LEMMA Unmoved ==
  ASSUME SshInv, Content' = Content, UNCHANGED agent, synced' \subseteq synced
  PROVE  FileKept' /\ \A n \in synced' : agent' /\ Forwards(Content', n)
<1>1. FileKept'
  BY DEF SshInv, FileKept
<1> QED
  BY <1>1 DEF SshInv, Promise

\* The invariant holds at first.
LEMMA InitKeeps ==
  ASSUME OneProcess, OurFiles, Init
  PROVE  SshInv
<1>1. \A p \in Procs : pc[p] = "idle" /\ job[p] = NoJob
  BY DEF Init
<1>2. NoJob.cmd = "none" /\ NoJob.edit = "none"
  BY DEF NoJob
<1>3. SshTypes
  BY EmptyFile, SshAssumption DEF Init, SshTypes, Places
<1>4. \A p \in Procs : Placed(p)
  BY <1>1 DEF Placed, At
<1>5. Content = file
  BY <1>1 DEF Content, Whole, At
<1>6. FileKept
  BY <1>5 DEF FileKept, OurFiles, PlainOptions, Init
<1>7. Promise
  BY <1>1, <1>2 DEF Promise, Init, Syncing, Lapses
<1> QED
  BY <1>3, <1>4, <1>6, <1>7 DEF SshInv

\* Begin keeps it: a command that breaks git-sync's promise drops its box.
LEMMA BeginKeeps ==
  ASSUME OneProcess, SshInv, NEW p \in Procs, NEW c \in AllCommands, NEW n \in Boxes, NEW m \in Boxes,
         NEW a \in Addrs, NEW u \in Users, Begin(p, c, n, m, a, u)
  PROVE  SshInv' /\ Content' = Content
<1>1. PICK e, k : /\ e = IF c = "git-sync" THEN "none" ELSE FirstEdit[c]
                  /\ k = [cmd |-> c, edit |-> e, box |-> n, to |-> m, addr |-> a, user |-> u]
  OBVIOUS
<1>2. /\ e \in Edits /\ (c # "git-sync" => e # "none") /\ (e \in Lapses => c \in Syncing)
  BY <1>1 DEF AllCommands, FirstEdit, Edits, Lapses, Syncing
<1>3. k \in Jobs /\ k.cmd = c /\ k.edit = e /\ k.box = n
  BY <1>1, <1>2 DEF Jobs
<1>4. /\ pc[p] = "idle"
      /\ pc' = [pc EXCEPT ![p] = IF c = "git-sync" THEN "toggle" ELSE "read"]
      /\ job' = [job EXCEPT ![p] = k]
      /\ synced' = IF c \in Syncing THEN synced \ {n} ELSE synced
      /\ UNCHANGED <<file, agent, text, tries, kills>>
  BY <1>1 DEF Begin, At, Goto, Syncing
<1>5. pc'[p] = (IF c = "git-sync" THEN "toggle" ELSE "read") /\ job'[p] = k
  BY <1>4 DEF SshInv, SshTypes
<1>6. SshTypes'
  BY <1>3, <1>4 DEF SshInv, SshTypes, Places
<1>7. Placed(p)'
  BY <1>2, <1>3, <1>5 DEF Placed, At
<1>8. Content' = Content
  BY <1>4, <1>5, ContentIs DEF At
<1>9. FileKept' /\ \A o \in synced' : agent' /\ Forwards(Content', o)
  BY <1>4, <1>8, Unmoved
<1> QED
  BY <1>2, <1>3, <1>4, <1>5, <1>6, <1>7, <1>9, <1>8, Settled

\* The end of a command.
LEMMA ReturnIs ==
  ASSUME SshTypes, NEW p \in Procs, Return(p)
  PROVE  /\ pc' \in [Procs -> Places] /\ job' \in [Procs -> Jobs \cup {NoJob}]
         /\ text' \in [Procs -> Seq(Lines)] /\ DOMAIN tries' = Procs
         /\ pc'[p] = "idle" /\ job'[p] = NoJob
         /\ NoJob.cmd \notin Syncing /\ NoJob.edit \notin Lapses
<1>1. pc' = [pc EXCEPT ![p] = "idle"] /\ job' = [job EXCEPT ![p] = NoJob]
      /\ text' = [text EXCEPT ![p] = <<>>] /\ tries' = [tries EXCEPT ![p] = 0]
  BY DEF Return, Goto
<1>2. NoJob.cmd = "none" /\ NoJob.edit = "none"
  BY DEF NoJob
<1>3. /\ pc' \in [Procs -> Places] /\ job' \in [Procs -> Jobs \cup {NoJob}]
      /\ text' \in [Procs -> Seq(Lines)] /\ DOMAIN tries' = Procs
      /\ pc'[p] = "idle" /\ job'[p] = NoJob
  BY <1>1, EmptyFile DEF SshTypes, Places
<1> QED
  BY <1>2, <1>3 DEF Syncing, Lapses

\* Toggle keeps it.
LEMMA ToggleKeeps ==
  ASSUME OneProcess, SshInv, NEW p \in Procs, Toggle(p)
  PROVE  SshInv' /\ Content' = Content
<1>0. SshTypes /\ pc[p] = "toggle" /\ job[p] \in Jobs
  BY DEF SshInv, Toggle, At, Placed
<1>1. UNCHANGED <<file, agent, kills, synced>>
  BY DEF Toggle, counts
<1>2. CASE Return(p)
  <2>1. SshTypes'
    BY <1>0, <1>1, <1>2, ReturnIs DEF SshTypes
  <2>2. Placed(p)'
    BY <1>0, <1>2, ReturnIs, Zenon DEF Placed, At, NoJob
  <2>3. Content' = Content
    BY <1>0, <1>1, <1>2, ReturnIs, ContentIs DEF At
  <2>4. FileKept' /\ \A o \in synced' : agent' /\ Forwards(Content', o)
    BY <1>1, <2>3, Unmoved
  <2> QED
    BY <1>0, <1>2, <2>1, <2>2, <2>3, <2>4, ReturnIs, Settled
<1>3. CASE Goto(p, "ask") /\ UNCHANGED <<text, tries>>
           /\ job' = [job EXCEPT ![p].edit = IF ForwardAgentEnabled(Block(file, job[p].box))
                                             THEN "DisableForwardAgent" ELSE "EnableForwardAgent"]
           /\ Found(file, job[p].box)
  <2>1. PICK e, k : /\ e = IF ForwardAgentEnabled(Block(file, job[p].box))
                           THEN "DisableForwardAgent" ELSE "EnableForwardAgent"
                    /\ k = [job[p] EXCEPT !.edit = e]
    OBVIOUS
  <2>2. e \in Edits
    BY <2>1 DEF Edits
  <2>3. k \in Jobs /\ k.edit = e /\ k.cmd = job[p].cmd /\ k.box = job[p].box
    BY <1>0, <2>1, <2>2, JobWith
  <2>4. job' = [job EXCEPT ![p] = k]
    BY <1>3, <2>1
  <2>5. pc'[p] = "ask" /\ job'[p] = k
    BY <1>0, <1>3, <2>4 DEF Goto, SshTypes
  <2>6. SshTypes'
    BY <1>0, <1>1, <1>3, <2>3, <2>4 DEF SshTypes, Goto, Places
  <2>7. Placed(p)'
    BY <1>0, <2>1, <2>3, <2>5 DEF Placed, At, SshInv
  <2>8. Content' = Content
    BY <1>0, <1>1, <2>5, ContentIs DEF At
  <2>9. FileKept' /\ \A o \in synced' : agent' /\ Forwards(Content', o)
    BY <1>1, <2>8, Unmoved
  <2>10. k.cmd = "git-sync" /\ k.box \notin synced'
    BY <1>0, <1>1, <2>3 DEF SshInv, Placed, Promise, Syncing
  <2> QED
    BY <2>5, <2>6, <2>7, <2>8, <2>9, <2>10, Settled DEF Syncing
<1> QED
  BY <1>2, <1>3 DEF Toggle

\* AskAgent keeps it.
LEMMA AskKeeps ==
  ASSUME OneProcess, SshInv, NEW p \in Procs, AskAgent(p)
  PROVE  SshInv' /\ Content' = Content
<1>0. SshTypes /\ pc[p] = "ask" /\ job[p] \in Jobs /\ job[p].cmd = "git-sync" /\ job[p].box \notin synced
  BY DEF SshInv, AskAgent, At, Placed, Promise, Syncing
<1>1. UNCHANGED <<file, agent, kills, synced, text, tries>> /\ pc' = [pc EXCEPT ![p] = "read"]
  BY DEF AskAgent, counts, Goto
<1>2. PICK e, k : /\ e = IF agent THEN job[p].edit ELSE "EnableForwardAgent"
                  /\ k = [job[p] EXCEPT !.edit = e]
  OBVIOUS
<1>3. e \in Edits
  BY <1>0, <1>2 DEF Edits, Jobs
<1>4. k \in Jobs /\ k.edit = e /\ k.cmd = job[p].cmd /\ k.box = job[p].box
  BY <1>0, <1>2, <1>3, JobWith
<1>5. job' = [job EXCEPT ![p] = k]
  BY <1>0, <1>2 DEF AskAgent, SshTypes
<1>6. pc'[p] = "read" /\ job'[p] = k
  BY <1>0, <1>1, <1>5 DEF SshTypes
<1>7. SshTypes'
  BY <1>0, <1>1, <1>4, <1>5 DEF SshTypes, Places
<1>8. e # "none"
  BY <1>0, <1>2 DEF SshInv, Placed
<1>9. Placed(p)'
  BY <1>4, <1>6, <1>8 DEF Placed, At
<1>10. Content' = Content
  BY <1>0, <1>1, <1>6, ContentIs DEF At
<1>11. FileKept' /\ \A o \in synced' : agent' /\ Forwards(Content', o)
  BY <1>1, <1>10, Unmoved
<1> QED
  BY <1>0, <1>1, <1>4, <1>6, <1>7, <1>9, <1>11, <1>10, Settled DEF Syncing

\* The end of an edit, in a read that changes nothing or after the write.
LEMMA EndKeeps ==
  ASSUME OneProcess, SshInv, NEW p \in Procs, job[p] \in Jobs, NEW ok, EndEdit(p, ok),
         UNCHANGED <<agent, kills, synced>>, file' = Content,
         ok /\ job[p].edit = "EnableForwardAgent" => Forwards(Content, job[p].box)
  PROVE  SshInv' /\ Content' = Content
<1>0. SshTypes
  BY DEF SshInv
<1>1. /\ pc' \in [Procs -> Places] /\ job' \in [Procs -> Jobs \cup {NoJob}]
      /\ text' \in [Procs -> Seq(Lines)] /\ DOMAIN tries' = Procs
      /\ pc'[p] \in {"idle", "agent", "read"}
      /\ pc'[p] # "idle" => job'[p] \in Jobs
      /\ pc'[p] = "agent" => ok /\ job'[p] = job[p]
      /\ pc'[p] = "read" => job'[p].edit # "none"
      /\ job'[p].cmd \in Syncing => job'[p].cmd = job[p].cmd /\ job'[p].box = job[p].box
      /\ job'[p].edit \in Lapses => job'[p] = job[p]
  BY <1>0, EndedEdit
<1>2. Content \in Seq(Lines)
  BY <1>0, ContentIs DEF SshTypes
<1>3. SshTypes'
  BY <1>0, <1>1, <1>2 DEF SshTypes
<1>4. Content' = Content
  BY <1>1, ContentIs
<1>5. Placed(p)'
  BY <1>1, <1>4 DEF Placed, At
<1>6. FileKept' /\ \A o \in synced' : agent' /\ Forwards(Content', o)
  BY <1>4, Unmoved
<1>7. /\ job'[p].cmd \in Syncing => job'[p].box \notin synced'
      /\ job'[p].edit \in Lapses => job'[p].cmd \in Syncing
  BY <1>1 DEF SshInv, Promise
<1> QED
  BY <1>3, <1>4, <1>5, <1>6, <1>7, Settled

\* What the edit of p makes of the file it reads.
LEMMA EditOf ==
  ASSUME OneProcess, SshInv, NEW p \in Procs, pc[p] \in {"read", "truncate"}, ~Refused(job[p], file)
  PROVE  job[p] \in Jobs /\ Content = file /\ Done(job[p], file, Edited(job[p], file))
<1>1. job[p] \in Jobs /\ job[p].edit # "none"
  BY DEF SshInv, Placed, At
<1>2. Content = file
  BY ContentIs DEF At
<1>3. file \in Seq(Lines) /\ WellFormed(file)
  BY <1>2 DEF SshInv, SshTypes, FileKept
<1> QED
  BY <1>1, <1>2, <1>3, EditDone

\* ReadConfig keeps it: what it is about to write is the edit of what it read.
LEMMA ReadKeeps ==
  ASSUME OneProcess, SshInv, NEW p \in Procs, ReadConfig(p)
  PROVE  SshInv' /\ Content' = Content
<1>0. SshTypes /\ pc[p] = "read" /\ job[p] \in Jobs /\ job[p].edit # "none"
  BY DEF SshInv, ReadConfig, At, Placed
<1>1. UNCHANGED <<file, agent, kills, synced>>
  BY DEF ReadConfig, counts
<1>2. Content = file /\ Content \in Seq(Lines)
  BY <1>0, ContentIs DEF At, SshTypes
<1>3. CASE tries' = [tries EXCEPT ![p] = @ + 1] /\ UNCHANGED <<pc, job, text>>
  <2>1. SshTypes'
    BY <1>0, <1>1, <1>3 DEF SshTypes
  <2>2. Content' = Content
    BY <1>0, <1>1, <1>2, <1>3, ContentIs DEF At
  <2>3. Placed(p)'
    BY <1>0, <1>3 DEF Placed, At
  <2>4. FileKept' /\ \A o \in synced' : agent' /\ Forwards(Content', o)
    BY <1>1, <2>2, Unmoved
  <2>5. /\ job'[p].cmd \in Syncing => job'[p].box \notin synced'
        /\ job'[p].edit \in Lapses => job'[p].cmd \in Syncing
    BY <1>1, <1>3 DEF SshInv, Promise
  <2> QED
    BY <2>1, <2>2, <2>3, <2>4, <2>5, Settled
<1>4. CASE EndEdit(p, FALSE)
  BY <1>0, <1>1, <1>2, <1>4, EndKeeps
<1>5. CASE ~Refused(job[p], file) /\ Edited(job[p], file) = file /\ EndEdit(p, TRUE)
  <2>1. job[p].edit = "EnableForwardAgent" => Forwards(Content, job[p].box)
    BY <1>0, <1>2, <1>5, EditOf DEF Done
  <2> QED
    BY <1>0, <1>1, <1>2, <1>5, <2>1, EndKeeps
<1>6. CASE /\ ~Refused(job[p], file)
           /\ text' = [text EXCEPT ![p] = Edited(job[p], file)]
           /\ Goto(p, "truncate") /\ UNCHANGED <<job, tries>>
  <2>1. Edited(job[p], file) \in Seq(Lines)
    BY <1>0, <1>6, EditOf DEF Done, Sound
  <2>2. pc'[p] = "truncate" /\ text'[p] = Edited(job[p], file) /\ job'[p] = job[p]
    BY <1>0, <1>6 DEF SshTypes, Goto
  <2>3. SshTypes'
    BY <1>0, <1>1, <1>6, <2>1 DEF SshTypes, Goto, Places
  <2>4. Content' = Content
    BY <1>1, <1>2, <2>2, ContentIs
  <2>5. Placed(p)'
    BY <1>0, <1>1, <1>6, <2>2 DEF Placed, At
  <2>6. FileKept' /\ \A o \in synced' : agent' /\ Forwards(Content', o)
    BY <1>1, <2>4, Unmoved
  <2>7. /\ job'[p].cmd \in Syncing => job'[p].box \notin synced'
        /\ job'[p].edit \in Lapses => job'[p].cmd \in Syncing
    BY <1>1, <2>2 DEF SshInv, Promise
  <2> QED
    BY <2>3, <2>4, <2>5, <2>6, <2>7, Settled
<1> QED
  BY <1>3, <1>4, <1>5, <1>6, Zenon DEF ReadConfig

\* TruncateConfig keeps it, and is where the content changes.
LEMMA TruncateKeeps ==
  ASSUME OneProcess, SshInv, NEW p \in Procs, TruncateConfig(p)
  PROVE  SshInv' /\ Done(job[p], Content, Content') /\ job[p] \in Jobs
<1>0. SshTypes /\ pc[p] = "truncate"
  BY DEF SshInv, TruncateConfig, At
<1>1. UNCHANGED <<agent, job, text, tries, kills, synced>> /\ file' = <<>> /\ pc' = [pc EXCEPT ![p] = "write"]
  BY DEF TruncateConfig, counts, Goto
<1>2. pc'[p] = "write"
  BY <1>0, <1>1 DEF SshTypes
<1>3. ~Refused(job[p], file) /\ text[p] = Edited(job[p], file)
  BY <1>0 DEF SshInv, Placed, At
<1>4. job[p] \in Jobs /\ Content = file /\ Done(job[p], file, text[p])
  BY <1>0, <1>3, EditOf
<1>5. Content' = text[p]
  BY <1>1, <1>2, ContentIs
<1>6. Done(job[p], Content, Content')
  BY <1>4, <1>5
<1>7. SshTypes'
  BY <1>0, <1>1, EmptyFile DEF SshTypes, Places
<1>8. Placed(p)'
  BY <1>1, <1>2, <1>4, <1>6 DEF Placed, At, Done
<1>9. FileKept'
  BY <1>6 DEF SshInv, FileKept, Done, Sound
<1>10. \A n \in synced' : agent' /\ Forwards(Content', n)
  <2> SUFFICES ASSUME NEW n \in synced PROVE agent /\ Forwards(Content', n)
    BY <1>1
  <2>1. agent /\ Forwards(Content, n) /\ n \in Boxes
    BY <1>0 DEF SshInv, Promise, SshTypes
  <2>2. n # job[p].box \/ job[p].edit \notin Lapses
    BY DEF SshInv, Promise
  <2> QED
    BY <1>6, <2>1, <2>2 DEF Done
<1>11. /\ job'[p].cmd \in Syncing => job'[p].box \notin synced'
       /\ job'[p].edit \in Lapses => job'[p].cmd \in Syncing
  BY <1>1 DEF SshInv, Promise
<1> QED
  BY <1>4, <1>6, <1>7, <1>8, <1>9, <1>10, <1>11, Settled

\* WriteConfig keeps it: the file is empty, so the text is all there is.
LEMMA WriteKeeps ==
  ASSUME OneProcess, SshInv, NEW p \in Procs, WriteConfig(p)
  PROVE  SshInv' /\ Content' = Content
<1>0. SshTypes /\ pc[p] = "write" /\ job[p] \in Jobs /\ file = <<>>
      /\ (job[p].edit = "EnableForwardAgent" => Forwards(Content, job[p].box))
  BY DEF SshInv, WriteConfig, At, Placed
<1>1. UNCHANGED <<agent, kills, synced>> /\ EndEdit(p, TRUE)
      /\ file' = text[p] \o SubSeq(file, Len(text[p]) + 1, Len(file))
  BY DEF WriteConfig, counts
<1>2. Content = text[p] /\ text[p] \in Seq(Lines)
  BY <1>0, ContentIs DEF At, SshTypes
<1>3. SubSeq(file, Len(text[p]) + 1, Len(file)) = <<>>
  <2>1. Len(file) = 0 /\ Len(text[p]) \in Nat
    BY <1>0, <1>2
  <2> QED
    BY <2>1, SubSeqEmpty
<1>4. file' = Content
  BY <1>1, <1>2, <1>3, ConcatEmptySeq
<1> QED
  BY <1>0, <1>1, <1>4, EndKeeps

\* SetAgent keeps it: the block of its box has been written.
LEMMA AgentKeeps ==
  ASSUME OneProcess, SshInv, NEW p \in Procs, SetAgent(p)
  PROVE  SshInv' /\ Content' = Content
<1>0. SshTypes /\ pc[p] = "agent" /\ job[p] \in Jobs
      /\ (job[p].edit = "EnableForwardAgent" => Forwards(Content, job[p].box))
  BY DEF SshInv, SetAgent, At, Placed
<1>1. /\ agent' = (job[p].edit = "EnableForwardAgent")
      /\ synced' = IF job[p].edit = "EnableForwardAgent" THEN synced \cup {job[p].box} ELSE {}
      /\ Return(p) /\ UNCHANGED <<file, kills>>
  BY DEF SetAgent, counts
<1>2. /\ pc' \in [Procs -> Places] /\ job' \in [Procs -> Jobs \cup {NoJob}]
      /\ text' \in [Procs -> Seq(Lines)] /\ DOMAIN tries' = Procs
      /\ pc'[p] = "idle" /\ job'[p] = NoJob
      /\ NoJob.cmd \notin Syncing /\ NoJob.edit \notin Lapses
  BY <1>0, <1>1, ReturnIs
<1>3. job[p].box \in Boxes
  BY <1>0 DEF Jobs
<1>4. SshTypes'
  BY <1>0, <1>1, <1>2, <1>3 DEF SshTypes
<1>5. Content' = Content
  BY <1>0, <1>1, <1>2, ContentIs DEF At
<1>6. Placed(p)'
  BY <1>2 DEF Placed, At, NoJob
<1>7. FileKept'
  BY <1>5 DEF SshInv, FileKept
<1>8. \A n \in synced' : agent' /\ Forwards(Content', n)
  BY <1>0, <1>1, <1>5 DEF SshInv, Promise
<1> QED
  BY <1>2, <1>4, <1>5, <1>6, <1>7, <1>8, Settled

\* Kill keeps it: the content stays, or all of it is lost.
LEMMA KillKeeps ==
  ASSUME OneProcess, SshInv, NEW p \in Procs, Kill(p)
  PROVE  SshInv' /\ (Content' = Content \/ Content' = <<>>)
<1>0. SshTypes
  BY DEF SshInv
<1>1. /\ kills' = kills + 1
      /\ synced' = IF pc[p] = "write" THEN {} ELSE synced
      /\ Return(p) /\ UNCHANGED <<file, agent>>
  BY DEF Kill, At
<1>2. /\ pc' \in [Procs -> Places] /\ job' \in [Procs -> Jobs \cup {NoJob}]
      /\ text' \in [Procs -> Seq(Lines)] /\ DOMAIN tries' = Procs
      /\ pc'[p] = "idle" /\ job'[p] = NoJob
      /\ NoJob.cmd \notin Syncing /\ NoJob.edit \notin Lapses
  BY <1>0, <1>1, ReturnIs
<1>3. SshTypes'
  BY <1>0, <1>1, <1>2 DEF SshTypes
<1>4. Placed(p)'
  BY <1>2 DEF Placed, At, NoJob
<1>5. Content' = file
  BY <1>1, <1>2, ContentIs
<1>6. CASE pc[p] # "write"
  <2>1. Content' = Content
    BY <1>5, <1>6, ContentIs DEF At
  <2>2. FileKept' /\ \A o \in synced' : agent' /\ Forwards(Content', o)
    BY <1>1, <1>6, <2>1, Unmoved
  <2> QED
    BY <1>2, <1>3, <1>4, <2>1, <2>2, Settled
<1>7. CASE pc[p] = "write"
  <2>1. file = <<>>
    BY <1>7 DEF SshInv, Placed, At
  <2>2. Content' = <<>> /\ synced' = {}
    BY <1>1, <1>5, <1>7, <2>1
  <2>3. FileKept'
    BY <2>2, EmptyFile DEF FileKept
  <2> QED
    BY <1>2, <1>3, <1>4, <2>2, <2>3, Settled
<1> QED
  BY <1>6, <1>7

\* The table of HostTable, as SshProperties reads it from the content.
TableOf(f) == [n \in Boxes |-> HostNameOf(f, n)]

\* The table of a WellFormed file has addresses only.
LEMMA TableTyped ==
  ASSUME NEW f \in Seq(Lines), WellFormed(f)
  PROVE  TableOf(f) \in [Boxes -> Addrs \cup {NoAddr}]
<1> SUFFICES ASSUME NEW n \in Boxes PROVE HostNameOf(f, n) \in Addrs \cup {NoAddr}
  BY DEF TableOf
<1>1. PICK b : b = Block(f, n)
  OBVIOUS
<1>2. HostNameOf(f, n) = AddrIn(b)
  BY <1>1, AddrOf
<1>3. CASE Found(f, n)
  <2>1. Fits(b, n) /\ b \in Seq(Lines)
    BY <1>1, <1>3, BlockFits DEF Fits
  <2>2. PICK o : o = OptionLine(b, "HostName")
    OBVIOUS
  <2>3. FirstAt(b, "HostName", o)
    BY <2>1, <2>2, OptionIs
  <2>4. CASE o = 0
    BY <1>2, <2>2, <2>4 DEF AddrIn
  <2>5. CASE o # 0
    <3>1. o \in 1..Len(b) /\ b[o].key = "HostName"
      BY <2>3, <2>5 DEF FirstAt
    <3>2. b[o].args[1] \in Addrs
      BY <2>1, <3>1 DEF Fits
    <3> QED
      BY <1>2, <2>2, <2>5, <3>2 DEF AddrIn
  <2> QED
    BY <2>4, <2>5
<1>4. CASE ~Found(f, n)
  BY <1>1, <1>2, <1>4, BlockShape, NoBlock
<1> QED
  BY <1>3, <1>4

\* A file with nothing in it has no box and no line of the user's.
LEMMA EmptyTable == TableOf(<<>>) = [n \in Boxes |-> NoAddr] /\ UserLines(<<>>) = <<>>
<1>1. PICK f : f = <<>>
  OBVIOUS
<1>2. f \in Seq(Lines) /\ Len(f) = 0 /\ DOMAIN f = {}
  BY <1>1
<1>3. ASSUME NEW n PROVE HostNameOf(f, n) = NoAddr
  <2>1. ~Found(f, n)
    BY <1>2, FindIs
  <2> QED
    BY <1>2, <2>1, AddrOf, BlockShape, NoBlock
<1>4. UserLines(f) = <<>>
  <2>1. PICK S : S = {i \in DOMAIN f : OfTheUser(f, i)}
    OBVIOUS
  <2>2. LinesAt(f, S) = <<>>
    <3>1. LinesAt(f, S) = UpTo(f, S)[Len(f)] /\ UpTo(f, S)[0] = <<>>
      BY <1>2, UpToGrows
    <3> QED
      BY <1>2, <3>1
  <2> QED
    BY <2>1, <2>2 DEF UserLines
<1> QED
  BY <1>1, <1>3, <1>4 DEF TableOf

\* An edit changes one entry of the table, or moves one.
LEMMA TableEdited ==
  ASSUME NEW j \in Jobs, NEW f, NEW g, Done(j, f, g), g \in Seq(Lines), WellFormed(g)
  PROVE  \/ TableOf(g) = TableOf(f)
         \/ \E n \in Boxes, a \in Addrs \cup {NoAddr} : TableOf(g) = [TableOf(f) EXCEPT ![n] = a]
         \/ \E o, n \in Boxes :
              /\ TableOf(f)[n] = NoAddr
              /\ TableOf(g) = [TableOf(f) EXCEPT ![n] = TableOf(f)[o], ![o] = NoAddr]
<1>1. PICK n, m : n = j.box /\ m = j.to /\ n \in Boxes /\ m \in Boxes
  BY DEF Jobs
<1>2. CASE \A o \in Boxes : SameAddr(f, g, o)
  BY <1>2 DEF TableOf, SameAddr
<1>3. CASE /\ HostNameOf(g, n) \in Addrs \cup {NoAddr}
           /\ \A o \in Boxes \ {n} : SameAddr(f, g, o)
  <2>1. PICK a : a = HostNameOf(g, n)
    OBVIOUS
  <2>2. TableOf(g) = [TableOf(f) EXCEPT ![n] = a]
    BY <1>1, <1>3, <2>1 DEF TableOf, SameAddr
  <2> QED
    BY <1>1, <1>3, <2>1, <2>2
<1>4. CASE /\ HostNameOf(f, m) = NoAddr /\ m # n
           /\ HostNameOf(g, m) = HostNameOf(f, n) /\ HostNameOf(g, n) = NoAddr
           /\ \A o \in Boxes \ {n, m} : SameAddr(f, g, o)
  <2>1. TableOf(f)[m] = NoAddr /\ TableOf(f)[n] = HostNameOf(f, n)
    BY <1>1, <1>4 DEF TableOf
  <2>2. TableOf(g) = [TableOf(f) EXCEPT ![m] = HostNameOf(f, n), ![n] = NoAddr]
    BY <1>1, <1>4 DEF TableOf, SameAddr
  <2>3. TableOf(g) = [TableOf(f) EXCEPT ![m] = TableOf(f)[n], ![n] = NoAddr]
    BY <2>1, <2>2
  <2>4. \E q \in Boxes : /\ TableOf(f)[q] = NoAddr
                        /\ TableOf(g) = [TableOf(f) EXCEPT ![q] = TableOf(f)[n], ![n] = NoAddr]
    BY <1>1, <2>1, <2>3
  <2> QED
    BY <1>1, <2>4
<1> QED
  BY <1>1, <1>2, <1>3, <1>4 DEF Done, Tabled

-----------------------------------------------------------------------------
(* The theorems.                                                                         *)

\* What a step does to the content.
LEMMA StepKeeps ==
  ASSUME OneProcess, SshInv, [Next]_vars
  PROVE  /\ SshInv'
         /\ \/ kills' = kills /\ Content' = Content
            \/ kills' = kills /\ \E j \in Jobs : Done(j, Content, Content')
            \/ kills' = kills + 1 /\ (Content' = Content \/ Content' = <<>>)
<1>1. CASE UNCHANGED vars
  <2>1. Content' = Content
    BY <1>1 DEF vars, Content, Whole, At
  <2>2. SshInv'
    BY <1>1, <2>1 DEF vars, SshInv, SshTypes, Placed, FileKept, Promise, At
  <2> QED
    BY <1>1, <2>1, <2>2 DEF vars
<1>2. ASSUME NEW p \in Procs, NEW c \in AllCommands, NEW n \in Boxes, NEW m \in Boxes,
             NEW a \in Addrs, NEW u \in Users, Begin(p, c, n, m, a, u)
      PROVE  SshInv' /\ Content' = Content /\ kills' = kills
  BY <1>2, BeginKeeps DEF Begin
<1>3. ASSUME NEW p \in Procs, Toggle(p) PROVE SshInv' /\ Content' = Content /\ kills' = kills
  BY <1>3, ToggleKeeps DEF Toggle, counts
<1>4. ASSUME NEW p \in Procs, AskAgent(p) PROVE SshInv' /\ Content' = Content /\ kills' = kills
  BY <1>4, AskKeeps DEF AskAgent, counts
<1>5. ASSUME NEW p \in Procs, ReadConfig(p) PROVE SshInv' /\ Content' = Content /\ kills' = kills
  BY <1>5, ReadKeeps DEF ReadConfig, counts
<1>6. ASSUME NEW p \in Procs, TruncateConfig(p)
      PROVE  SshInv' /\ kills' = kills /\ \E j \in Jobs : Done(j, Content, Content')
  BY <1>6, TruncateKeeps DEF TruncateConfig, counts
<1>7. ASSUME NEW p \in Procs, WriteConfig(p) PROVE SshInv' /\ Content' = Content /\ kills' = kills
  BY <1>7, WriteKeeps DEF WriteConfig, counts
<1>8. ASSUME NEW p \in Procs, SetAgent(p) PROVE SshInv' /\ Content' = Content /\ kills' = kills
  BY <1>8, AgentKeeps DEF SetAgent, counts
<1>9. ASSUME NEW p \in Procs, Kill(p)
      PROVE  SshInv' /\ kills' = kills + 1 /\ (Content' = Content \/ Content' = <<>>)
  BY <1>9, KillKeeps DEF Kill
<1> QED
  BY <1>1, <1>2, <1>3, <1>4, <1>5, <1>6, <1>7, <1>8, <1>9 DEF Next, Step

\* With one process at a time, and files that name each box once, the invariant holds.
THEOREM ContentKept ==
  ASSUME OneProcess, OurFiles
  PROVE  Spec => []SshInv
<1>1. Init => SshInv
  BY InitKeeps
<1>2. SshInv /\ [Next]_vars => SshInv'
  BY StepKeeps
<1> QED
  BY <1>1, <1>2, PTL DEF Spec

TableStep ==
  [Table!Next]_<<[n \in Boxes |-> HostNameOf(Content, n)], UserLines(Content), kills>>

\* The edits implement the table of HostTable: each changes the address of one box, or
\* moves it to a new name, and none changes a line of the user's; a process killed while it
\* writes loses the whole file, never part of it.
THEOREM EditsImplementTable ==
  ASSUME OneProcess, OurFiles
  PROVE  Spec => TableSpec
<1>1. Init => Table!Init
  <2> SUFFICES ASSUME Init PROVE Table!Init
    OBVIOUS
  <2>1. SshInv
    BY InitKeeps
  <2>2. Content \in Seq(Lines) /\ WellFormed(Content)
    <3>1. Content = file
      BY DEF Init, Content, Whole, At
    <3> QED
      BY <2>1, <3>1 DEF SshInv, SshTypes, FileKept
  <2>3. TableOf(Content) \in [Boxes -> Addrs \cup {NoAddr}]
    BY <2>2, TableTyped
  <2> QED
    BY <2>3 DEF Table!Init, TableOf, Init
<1>2. SshInv /\ [Next]_vars => TableStep
  <2> SUFFICES ASSUME SshInv, [Next]_vars PROVE TableStep
    OBVIOUS
  <2>1. CASE kills' = kills /\ Content' = Content
    BY <2>1 DEF TableStep
  <2>2. CASE kills' = kills /\ \E j \in Jobs : Done(j, Content, Content')
    <3>1. PICK j \in Jobs : Done(j, Content, Content')
      BY <2>2
    <3>2. UserLines(Content') = UserLines(Content) /\ Content' \in Seq(Lines) /\ WellFormed(Content')
      BY <3>1 DEF Done, Sound
    <3>3. \/ TableOf(Content') = TableOf(Content)
          \/ \E n \in Boxes, a \in Addrs \cup {NoAddr} :
               TableOf(Content') = [TableOf(Content) EXCEPT ![n] = a]
          \/ \E o, n \in Boxes :
               /\ TableOf(Content)[n] = NoAddr
               /\ TableOf(Content') = [TableOf(Content) EXCEPT ![n] = TableOf(Content)[o], ![o] = NoAddr]
      BY <3>1, <3>2, TableEdited
    <3> QED
      BY <2>2, <3>2, <3>3
      DEF TableStep, TableOf, Table!Next, Table!Edit, Table!Put, Table!Move
  <2>3. CASE kills' = kills + 1 /\ (Content' = Content \/ Content' = <<>>)
    BY <2>3, EmptyTable DEF TableStep, TableOf, Table!Next, Table!Killed
  <2> QED
    BY <2>1, <2>2, <2>3, StepKeeps
<1> QED
  BY <1>1, <1>2, ContentKept, PTL DEF Spec, TableSpec, Table!Spec, TableStep

\* The file is the content, or is empty while it is written.
LEMMA FileOrEmpty ==
  ASSUME OneProcess, SshInv
  PROVE  /\ file \in Seq(Lines) /\ WellFormed(file) /\ (PlainOptions => NothingForAll(file))
         /\ Whole => file = Content
<1>1. Whole => file = Content
  BY DEF Content
<1>2. ~Whole => file = <<>>
  BY DEF Whole, SshInv, Placed
<1> QED
  BY <1>1, <1>2, EmptyFile DEF SshInv, FileKept, SshTypes

\* Where no option that the program writes is set for every host, ssh to a box goes where
\* its block says, as the user it says.
THEOREM AliasReaches ==
  ASSUME OneProcess, OurFiles, PlainOptions
  PROVE  Spec => []ReachesByAlias
<1>1. SshInv => ReachesByAlias
  <2> SUFFICES ASSUME SshInv, NEW n \in Boxes, NEW k \in {"HostName", "User"},
                      OptionLine(Block(file, n), k) # 0
               PROVE  Lookup(file, n, k, NoAddr) = Block(file, n)[OptionLine(Block(file, n), k)].args[1]
    BY DEF ReachesByAlias
  <2>1. k \in Written
    BY DEF Written
  <2> QED
    BY <2>1, FileOrEmpty, LookedUp
<1> QED
  BY <1>1, ContentKept, PTL

\* There, what git-sync takes for enabled is what OpenSSH does for the box.
THEOREM ForwardingTold ==
  ASSUME OneProcess, OurFiles, PlainOptions
  PROVE  Spec => []ForwardingAsReported
<1>1. SshInv => ForwardingAsReported
  <2> SUFFICES ASSUME SshInv, NEW n \in Boxes
               PROVE  ForwardAgentEnabled(Block(file, n))
                        <=> Found(file, n) /\ Lookup(file, n, "ForwardAgent", "no") = "yes"
    BY DEF ForwardingAsReported
  <2>1. PICK b, o : b = Block(file, n) /\ o = OptionLine(b, "ForwardAgent")
    OBVIOUS
  <2>2. Lookup(file, n, "ForwardAgent", "no") = IF o = 0 THEN "no" ELSE b[o].args[1]
    BY <2>1, FileOrEmpty, LookedUp DEF Written
  <2>3. o # 0 => Found(file, n)
    BY <2>1, FileOrEmpty, BlockShape, NoBlock, OptionIs DEF FirstAt
  <2> QED
    BY <2>1, <2>2, <2>3 DEF ForwardAgentEnabled
<1> QED
  BY <1>1, ContentKept, PTL

\* GitHub access that git-sync enabled for a box lasts until git-sync is run for that box
\* again, or turned off for another, or the box is renamed or deleted.
THEOREM SyncedLasts ==
  ASSUME OneProcess, OurFiles
  PROVE  Spec => []SyncedStaysSynced
<1>1. SshInv => SyncedStaysSynced
  BY FileOrEmpty DEF SyncedStaysSynced, SshInv, Promise, Forwards
<1> QED
  BY <1>1, ContentKept, PTL

=============================================================================
