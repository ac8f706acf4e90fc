----------------------------- MODULE HomeProofs -----------------------------
(* Proofs about Home: what is in the start-up files, the credentials and the database    *)
(* is what the user may count on, for any number of processes, directories, files, keys  *)
(* and rows.  First the lemmas about the lines of a file, then the inductive invariant.  *)
EXTENDS HomeProperties, FiniteSetTheorems, TLAPS

-----------------------------------------------------------------------------
(* The places of a set of numbers.                                                       *)

Places(m) == SUBSET (1..m)
Below(S, i) == {j \in S : j < i}
Rank(S, i) == Cardinality(Below(S, i))
Nth(S, n) == CHOOSE i \in S : Rank(S, i) = n - 1

\* The number of smaller members is less for a smaller member, and one less for the
\* member right below.
LEMMA RankGrows ==
  ASSUME NEW m \in Nat, NEW S \in Places(m)
  PROVE  /\ IsFiniteSet(S) /\ Cardinality(S) \in Nat
         /\ \A i \in S : Rank(S, i) \in 0..(Cardinality(S) - 1)
         /\ \A i, j \in S : i < j => Rank(S, i) < Rank(S, j)
         /\ \A i \in S : i + 1 \in S => Rank(S, i + 1) = Rank(S, i) + 1
<1>0. \A i \in S : i \in Int /\ ~(i < i)
  BY DEF Places
<1>1. IsFiniteSet(1..m)
  BY FS_Interval
<1>2. \A T \in Places(m) : IsFiniteSet(T) /\ Cardinality(T) \in Nat
  BY <1>1, FS_Subset, FS_CardinalityType DEF Places
<1>3. \A T, U \in Places(m) : T \subseteq U => Cardinality(T) <= Cardinality(U)
  BY <1>2, FS_Subset DEF Places
<1>3a. \A i \in S : Below(S, i) \in Places(m) /\ i \notin Below(S, i)
  BY <1>0 DEF Below, Places
<1>3b. \A i \in S : Rank(S, i) \in Int
  BY <1>2, <1>3a DEF Rank
<1>4. ASSUME NEW i \in S
      PROVE  Rank(S, i) \in Nat /\ Cardinality(Below(S, i) \cup {i}) = Rank(S, i) + 1
  <2>1. Below(S, i) \in Places(m) /\ i \notin Below(S, i)
    BY <1>3a, <1>4
  <2>2. Cardinality(Below(S, i) \cup {i}) = Cardinality(Below(S, i)) + 1
    BY <2>1, <1>2, FS_AddElement
  <2> QED BY <2>1, <2>2, <1>2 DEF Rank
<1>5. ASSUME NEW i \in S PROVE Rank(S, i) \in 0..(Cardinality(S) - 1)
  <2>1. Below(S, i) \cup {i} \subseteq S /\ Below(S, i) \cup {i} \in Places(m)
    BY <1>5 DEF Below, Places
  <2>2. Rank(S, i) + 1 <= Cardinality(S)
    BY <2>1, <1>3, <1>4, <1>5
    <2>3. Rank(S, i) \in Nat /\ Cardinality(S) \in Nat
    BY <1>2, <1>4, <1>5
  <2> QED BY <2>2, <2>3
<1>6. ASSUME NEW i \in S, NEW j \in S, i < j PROVE Rank(S, i) < Rank(S, j)
  <2>1. /\ Below(S, i) \cup {i} \subseteq Below(S, j)
        /\ Below(S, i) \cup {i} \in Places(m) /\ Below(S, j) \in Places(m)
    <3>1. \A k \in S : k \in Int /\ k \in 1..m
      BY DEF Places
    <3>2. i \in S /\ j \in S /\ i < j
      BY <1>6
    <3>3. Below(S, i) \cup {i} \subseteq Below(S, j)
      BY <3>1, <3>2 DEF Below
    <3> QED BY <3>1, <3>2, <3>3 DEF Below, Places
  <2>2. Rank(S, i) + 1 <= Rank(S, j)
    BY <2>1, <1>3, <1>4, <1>6 DEF Rank
  <2> QED BY <2>2, <1>3b, <1>6
<1>7. ASSUME NEW i \in S, i + 1 \in S PROVE Rank(S, i + 1) = Rank(S, i) + 1
  <2>1. Below(S, i + 1) = Below(S, i) \cup {i}
    <3>1. \A k \in S : k \in Int /\ (k < i + 1 <=> k < i \/ k = i)
      BY <1>0, <1>7
    <3> QED BY <3>1, <1>7 DEF Below
  <2> QED BY <2>1, <1>4, <1>7 DEF Rank
<1> QED BY <1>2, <1>5, <1>6, <1>7

\* Every place up to the number of members is that of one member.
LEMMA RankOnto ==
  ASSUME NEW m \in Nat, NEW S \in Places(m), NEW n \in 1..Cardinality(S)
  PROVE  \E i \in S : Rank(S, i) = n - 1
<1> DEFINE c == Cardinality(S)
           f == [i \in S |-> Rank(S, i) + 1]
<1>0. \A i \in S : i \in Int
  BY DEF Places
<1>1. IsFiniteSet(S) /\ c \in Nat
  BY RankGrows
<1>2. f \in [S -> 1..c]
  BY RankGrows
<1>3. ASSUME NEW i \in S, NEW j \in S, f[i] = f[j] PROVE i = j
  <2>1. i \in Int /\ j \in Int /\ Rank(S, i) \in Int /\ Rank(S, j) \in Int
    BY <1>0, <1>3, RankGrows
  <2>2. Rank(S, i) = Rank(S, j)
    BY <1>3, <2>1
  <2>3. ~(i < j) /\ ~(j < i)
    BY <2>1, <2>2, RankGrows
  <2> QED BY <2>1, <2>3
<1>4. f \in Injection(S, 1..c)
  BY <1>2, <1>3 DEF Injection, IsInjective
<1>5. IsFiniteSet(1..c) /\ Cardinality(1..c) = c
  BY <1>1, FS_Interval
<1>6. f \in Surjection(S, 1..c)
  BY <1>4, <1>5, FS_Injection
<1>7. PICK i \in S : f[i] = n
  BY <1>6 DEF Surjection
<1>8. Rank(S, i) \in Int /\ n \in Int
  BY RankGrows, <1>1
<1> QED BY <1>7, <1>8

\* The member at a place, its place, and their order.
LEMMA NthMember ==
  ASSUME NEW m \in Nat, NEW S \in Places(m)
  PROVE  /\ \A n \in 1..Cardinality(S) : Nth(S, n) \in S /\ Rank(S, Nth(S, n)) = n - 1
         /\ \A i \in S : Rank(S, i) + 1 \in 1..Cardinality(S) /\ Nth(S, Rank(S, i) + 1) = i
         /\ \A i, j \in S : Rank(S, i) = Rank(S, j) => i = j
         /\ \A k, l \in 1..Cardinality(S) : k < l <=> Nth(S, k) < Nth(S, l)
<1> DEFINE c == Cardinality(S)
<1>0. \A i \in S : i \in Int
  BY DEF Places
<1>1. \A i \in S : i \in Int /\ Rank(S, i) \in 0..(c - 1)
  BY <1>0, RankGrows
<1>2. ASSUME NEW n \in 1..c PROVE Nth(S, n) \in S /\ Rank(S, Nth(S, n)) = n - 1
  <2>1. \E i \in S : Rank(S, i) = n - 1
    BY RankOnto
  <2> QED BY <2>1 DEF Nth
<1>3. c \in Nat
  BY RankGrows
<1>4. ASSUME NEW i \in S, NEW j \in S, Rank(S, i) = Rank(S, j) PROVE i = j
  <2>1. ~(i < j) /\ ~(j < i)
    BY <1>1, <1>4, RankGrows
  <2> QED BY <2>1, <1>1
<1>5. ASSUME NEW i \in S PROVE Rank(S, i) + 1 \in 1..c /\ Nth(S, Rank(S, i) + 1) = i
  <2>1. Rank(S, i) + 1 \in 1..c
    BY <1>1, <1>3
  <2>2. PICK n \in 1..c : n = Rank(S, i) + 1
    BY <2>1
  <2>3. Nth(S, n) \in S /\ Rank(S, Nth(S, n)) = n - 1
    BY <1>2
  <2>4. n - 1 = Rank(S, i)
    BY <1>1, <1>5, <2>2
  <2> QED BY <2>1, <2>2, <2>3, <2>4, <1>4, <1>5
<1>6. ASSUME NEW k \in 1..c, NEW l \in 1..c PROVE k < l <=> Nth(S, k) < Nth(S, l)
  <2> DEFINE i == Nth(S, k)
             j == Nth(S, l)
  <2>1. i \in S /\ j \in S /\ Rank(S, i) = k - 1 /\ Rank(S, j) = l - 1
    BY <1>2
  <2> HIDE DEF i, j
  <2>2. i < j => k < l
    BY <2>1, <1>3, RankGrows
  <2>3. j < i => l < k
    BY <2>1, <1>3, RankGrows
  <2>4. i = j => k = l
    BY <2>1, <1>3
  <2>5. k \in Int /\ l \in Int /\ i \in Int /\ j \in Int
    BY <1>1, <1>3, <2>1
  <2>6. k < l <=> i < j
    BY <2>2, <2>3, <2>4, <2>5
  <2> QED BY <2>6 DEF i, j
<1> QED BY <1>2, <1>4, <1>5, <1>6

\* Numbers that are at the same places in K as A's are as many as A's.
LEMMA SameCount ==
  ASSUME NEW m \in Nat, NEW K \in Places(m), NEW A \in Places(Cardinality(K)),
         NEW B \in SUBSET K,
         \A k \in 1..Cardinality(K) : Nth(K, k) \in B <=> k \in A
  PROVE  Cardinality(A) = Cardinality(B)
<1> DEFINE c == Cardinality(K)
           f == [k \in A |-> Nth(K, k)]
<1>1. c \in Nat
  BY RankGrows
<1>2. A \subseteq 1..c /\ \A k \in A : k \in 1..c /\ k \in Int
  BY <1>1 DEF Places
<1>3. f \in [A -> B]
  BY <1>2
<1>4. ASSUME NEW k \in A, NEW l \in A, f[k] = f[l] PROVE k = l
  <2>1. Rank(K, Nth(K, k)) = k - 1 /\ Rank(K, Nth(K, l)) = l - 1
    BY <1>2, <1>4, NthMember
  <2>2. Nth(K, k) = Nth(K, l)
    BY <1>4
  <2> QED BY <2>1, <2>2, <1>2, <1>4
<1>5. ASSUME NEW b \in B PROVE \E k \in A : f[k] = b
  <2>1. b \in K
    BY <1>5
  <2>2. PICK k \in 1..c : Nth(K, k) = b
    BY <2>1, NthMember
  <2>3. k \in A
    BY <2>2, <1>5
  <2> QED BY <2>2, <2>3
<1>6. f \in Bijection(A, B)
  BY <1>3, <1>4, <1>5 DEF Bijection, Injection, Surjection, IsInjective
<1>7. IsFiniteSet(A)
  BY <1>1, RankGrows
<1> QED BY <1>6, <1>7, FS_Bijection DEF ExistsBijection

-----------------------------------------------------------------------------
(* The lines of a file at some of its places.                                            *)

\* The lines at some places are as many as the places, and the n-th is that of the n-th
\* place.
LEMMA LinesForm ==
  ASSUME NEW s \in Seq(Line), NEW S \in Places(Len(s))
  PROVE  /\ LinesAt(s, S) \in Seq(Line)
         /\ Len(LinesAt(s, S)) = Cardinality(S) /\ Cardinality(S) \in Nat
         /\ DOMAIN LinesAt(s, S) = 1..Cardinality(S)
         /\ \A n \in 1..Cardinality(S) : LinesAt(s, S)[n] = s[Nth(S, n)]
<1> DEFINE c == Cardinality(S)
<1>1. LinesAt(s, S) = [n \in 1..c |-> s[Nth(S, n)]]
  BY Zenon DEF LinesAt, Nth, Rank, Below
<1>2. Len(s) \in Nat /\ c \in Nat
  BY RankGrows
<1>3. \A n \in 1..c : Nth(S, n) \in 1..Len(s)
  BY <1>2, NthMember DEF Places
<1>4. \A n \in 1..c : s[Nth(S, n)] \in Line
  BY <1>3
<1>5. LinesAt(s, S) \in [1..c -> Line]
  BY <1>1, <1>4
<1> HIDE DEF c
<1>6. LinesAt(s, S) \in Seq(Line) /\ Len(LinesAt(s, S)) = c
  BY <1>2, <1>5
<1> QED BY <1>1, <1>2, <1>6 DEF c

\* Taking lines twice is taking them once.
LEMMA Composed ==
  ASSUME NEW s \in Seq(Line), NEW K \in Places(Len(s)), NEW T \in Places(Cardinality(K)),
         NEW U \in SUBSET K,
         \A k \in 1..Cardinality(K) : Nth(K, k) \in U <=> k \in T
  PROVE  LinesAt(LinesAt(s, K), T) = LinesAt(s, U)
<1> DEFINE m == Len(s)
           c == Cardinality(K)
           z == LinesAt(s, K)
<1>1. m \in Nat /\ c \in Nat /\ z \in Seq(Line) /\ Len(z) = c
  BY LinesForm
<1>2. U \in Places(m) /\ T \in Places(Len(z))
  BY <1>1 DEF Places
<1>3. Cardinality(U) = Cardinality(T)
  BY <1>1, SameCount
<1>4. ASSUME NEW k \in T PROVE Rank(U, Nth(K, k)) = Rank(T, k)
  <2>1. k \in 1..c
    BY <1>4 DEF Places
  <2>2. Below(T, k) \in Places(c) /\ Below(U, Nth(K, k)) \in SUBSET K
    BY DEF Below, Places
  <2>3. \A l \in 1..c : Nth(K, l) \in Below(U, Nth(K, k)) <=> l \in Below(T, k)
    BY <1>1, <2>1, NthMember DEF Below
  <2> QED BY <1>1, <2>2, <2>3, SameCount DEF Rank
<1>5. ASSUME NEW n \in 1..Cardinality(T) PROVE LinesAt(z, T)[n] = LinesAt(s, U)[n]
  <2> DEFINE k == Nth(T, n)
  <2>1. k \in T /\ Rank(T, k) = n - 1
    BY <1>1, <1>5, NthMember
  <2>2. k \in 1..c
    BY <2>1 DEF Places
  <2>3. Nth(K, k) \in U /\ Rank(U, Nth(K, k)) = n - 1
    BY <2>1, <2>2, <1>4
  <2>4. n \in 1..Cardinality(U) /\ Nth(U, n) \in U /\ Rank(U, Nth(U, n)) = n - 1
    BY <1>1, <1>2, <1>3, <1>5, NthMember
  <2>5. Nth(U, n) = Nth(K, k)
    BY <1>1, <1>2, <2>3, <2>4, NthMember
  <2>6. LinesAt(z, T)[n] = z[k]
    BY <1>1, <1>2, <1>5, LinesForm
  <2>7. z[k] = s[Nth(K, k)]
    BY <2>2, LinesForm
  <2>8. LinesAt(s, U)[n] = s[Nth(U, n)]
    BY <1>2, <2>4, LinesForm
  <2> QED BY <2>5, <2>6, <2>7, <2>8
<1>6. LinesAt(z, T) \in Seq(Line) /\ Len(LinesAt(z, T)) = Cardinality(T) /\ Cardinality(T) \in Nat
  BY <1>1, <1>2, LinesForm
<1>7. LinesAt(s, U) \in Seq(Line) /\ Len(LinesAt(s, U)) = Cardinality(T)
  BY <1>2, <1>3, LinesForm
<1> HIDE DEF z
<1>8. LinesAt(z, T) = LinesAt(s, U)
  BY <1>5, <1>6, <1>7
<1> QED BY <1>8 DEF z

\* The lines at all places are the file.
LEMMA AllLines ==
  ASSUME NEW s \in Seq(Line)
  PROVE  LinesAt(s, 1..Len(s)) = s
<1> DEFINE m == Len(s)
<1>1. m \in Nat /\ 1..m \in Places(m)
  BY DEF Places
<1>2. Cardinality(1..m) = m
  <2>1. \A k \in Nat : k \in Int /\ 1 \in Int /\ (IF 1 > k THEN 0 ELSE k - 1 + 1) = k
    OBVIOUS
  <2>2. \A k \in Nat : Cardinality(1..k) = k
    BY <2>1, FS_Interval
  <2> QED BY <1>1, <2>2
<1>3. ASSUME NEW i \in 1..m PROVE Rank(1..m, i) = i - 1
  <2>1. i \in Int /\ i - 1 \in Int /\ 1 <= i /\ i <= m
    BY <1>1, <1>3
  <2>2. Below(1..m, i) = 1..(i - 1)
    BY <1>1, <2>1 DEF Below
  <2>3. Cardinality(1..(i - 1)) = i - 1
    BY <2>1, FS_Interval
  <2> QED BY <2>2, <2>3 DEF Rank
<1>4. ASSUME NEW n \in 1..m PROVE LinesAt(s, 1..m)[n] = s[n]
  <2>1. n \in Int /\ Nth(1..m, n) \in 1..m /\ Rank(1..m, Nth(1..m, n)) = n - 1
    BY <1>1, <1>2, <1>4, NthMember
  <2>2. Nth(1..m, n) - 1 = n - 1 /\ Nth(1..m, n) \in Int
    BY <2>1, <1>3
  <2>3. Nth(1..m, n) = n
    BY <2>1, <2>2
  <2> QED BY <1>1, <1>2, <1>4, <2>3, LinesForm
<1>5. LinesAt(s, 1..m) \in Seq(Line) /\ Len(LinesAt(s, 1..m)) = m
  BY <1>1, <1>2, LinesForm
<1> QED BY <1>4, <1>5

-----------------------------------------------------------------------------
(* What install.sh and uninstall do to the lines of a file.                              *)

\* From the first marker on, every other line is an export right below a marker.
Tidy(s) ==
  \A i, j \in DOMAIN s : i < j /\ s[i] = Marker /\ s[j] # Marker =>
    s[j - 1] = Marker /\ s[j].kind = "export"

\* No block for the directory is left.
NoBlock(s, d) == \A i \in DOMAIN s : ~BlockAt(s, i, d)

\* The places of the user's own lines, and those uninstall keeps.
Plain(s) == {i \in DOMAIN s : /\ s[i] # Marker
                              /\ ~(i > 1 /\ s[i - 1] = Marker /\ s[i].kind = "export")}
Remains(s, d) == {i \in DOMAIN s : ~BlockAt(s, i, d) /\ ~BlockAt(s, i - 1, d)}

\* What the installer did not write, and what uninstall leaves, are lines at places of the
\* file.
LEMMA PlaceSets ==
  ASSUME NEW s \in Seq(Line), NEW d
  PROVE  /\ DOMAIN s = 1..Len(s) /\ Len(s) \in Nat
         /\ Plain(s) \in Places(Len(s)) /\ Outside(s) = LinesAt(s, Plain(s))
         /\ Remains(s, d) \in Places(Len(s)) /\ cleanShellRCContent(s, d) = LinesAt(s, Remains(s, d))
<1>1. DOMAIN s = 1..Len(s) /\ Len(s) \in Nat
  OBVIOUS
<1>2. Outside(s) = LinesAt(s, Plain(s)) /\ cleanShellRCContent(s, d) = LinesAt(s, Remains(s, d))
  BY Zenon DEF Outside, cleanShellRCContent, Plain, Remains
<1>3. Plain(s) \in Places(Len(s)) /\ Remains(s, d) \in Places(Len(s))
  BY <1>1 DEF Plain, Remains, Places
<1> QED BY <1>1, <1>2, <1>3

\* An export below a marker that uninstall keeps has, in the file it writes, the same line
\* above it.
LEMMA ExportKept ==
  ASSUME NEW s \in Seq(Line), Tidy(s), NEW d, NEW i \in DOMAIN s, NEW j \in Remains(s, d),
         i < j, s[i] = Marker, s[j] # Marker
  PROVE  /\ j - 1 \in Remains(s, d) /\ s[j - 1] = Marker /\ s[j].kind = "export"
         /\ Rank(Remains(s, d), j) = Rank(Remains(s, d), j - 1) + 1
         /\ ~isoutpostPathExport(s[j], d)
<1>1. DOMAIN s = 1..Len(s) /\ Len(s) \in Nat /\ i \in 1..Len(s) /\ j \in 1..Len(s)
  BY PlaceSets DEF Remains
<1>2. s[j - 1] = Marker /\ s[j].kind = "export"
  BY <1>1 DEF Tidy
<1>3. j - 1 \in 1..(Len(s) - 1) /\ (j - 1) + 1 = j /\ ((j - 1) - 1) + 1 = j - 1
  BY <1>1
<1>4. ~BlockAt(s, j - 1, d)
  BY DEF Remains
<1>5. ~isoutpostPathExport(s[j], d)
  BY <1>2, <1>3, <1>4 DEF BlockAt
<1>6. ~BlockAt(s, (j - 1) - 1, d)
  <2>1. ~isoutpostPathExport(s[j - 1], d)
    BY <1>2 DEF isoutpostPathExport, Marker
  <2> QED BY <1>3, <2>1 DEF BlockAt
<1>7. j - 1 \in Remains(s, d)
  BY <1>1, <1>3, <1>4, <1>6 DEF Remains
<1>8. Rank(Remains(s, d), j) = Rank(Remains(s, d), j - 1) + 1
  <2>1. \A k \in Remains(s, d) : k + 1 \in Remains(s, d) =>
           Rank(Remains(s, d), k + 1) = Rank(Remains(s, d), k) + 1
    BY PlaceSets, RankGrows
  <2> QED BY <1>3, <1>7, <2>1
<1> QED BY <1>2, <1>5, <1>7, <1>8

\* What uninstall writes back: no block for its directory, and the user's own lines.
LEMMA Cleaning ==
  ASSUME NEW s \in Seq(Line), Tidy(s), NEW d
  PROVE  LET z == cleanShellRCContent(s, d) IN
           z \in Seq(Line) /\ Tidy(z) /\ NoBlock(z, d) /\ Outside(z) = Outside(s)
<1> DEFINE K == Remains(s, d)
           c == Cardinality(K)
           z == cleanShellRCContent(s, d)
<1>1. DOMAIN s = 1..Len(s) /\ Len(s) \in Nat /\ K \in Places(Len(s)) /\ z = LinesAt(s, K)
  BY PlaceSets
<1>2. /\ z \in Seq(Line) /\ DOMAIN z = 1..c /\ c \in Nat /\ Len(z) = c
      /\ \A n \in 1..c : z[n] = s[Nth(K, n)]
  BY <1>1, LinesForm
<1>3. \A n \in 1..c : Nth(K, n) \in K /\ Nth(K, n) \in 1..Len(s) /\ Nth(K, n) \in Int
  <2>1. \A i \in K : i \in 1..Len(s) /\ i \in Int
    BY <1>1 DEF Places
  <2> QED BY <1>1, <2>1, NthMember
<1>4. ASSUME NEW k \in 1..c, NEW n \in 1..c, k < n, z[k] = Marker, z[n] # Marker
      PROVE  /\ n - 1 \in 1..c /\ Nth(K, n - 1) = Nth(K, n) - 1
             /\ z[n - 1] = Marker /\ s[Nth(K, n) - 1] = Marker /\ z[n].kind = "export"
             /\ ~isoutpostPathExport(z[n], d)
  <2> DEFINE i == Nth(K, k)
             j == Nth(K, n)
  <2>1. /\ i \in K /\ i \in DOMAIN s /\ s[i] = Marker /\ j \in K /\ s[j] = z[n] /\ i < j
        /\ Rank(K, j) = n - 1 /\ n \in Int
    BY <1>1, <1>2, <1>3, <1>4, NthMember
  <2>2. /\ j - 1 \in K /\ s[j - 1] = Marker /\ s[j].kind = "export"
        /\ Rank(K, j) = Rank(K, j - 1) + 1 /\ ~isoutpostPathExport(s[j], d)
    BY <1>4, <2>1, ExportKept
  <2>3. Rank(K, j - 1) \in Int
    BY <1>1, <2>2, RankGrows
  <2>4. Rank(K, j - 1) + 1 = n - 1
    BY <2>1, <2>2, <2>3
  <2>5. n - 1 \in 1..c /\ Nth(K, n - 1) = j - 1
    BY <1>1, <2>2, <2>4, NthMember
  <2> QED BY <1>2, <2>1, <2>2, <2>5
<1> HIDE DEF z, c
<1>5. Tidy(z)
  BY <1>2, <1>4 DEF Tidy
<1>6. NoBlock(z, d)
  <2>1. ASSUME NEW n \in 1..c, BlockAt(z, n, d) PROVE FALSE
    <3>1. n + 1 \in 1..c /\ n < n + 1 /\ z[n] = Marker /\ isoutpostPathExport(z[n + 1], d)
      BY <1>2, <2>1 DEF BlockAt
    <3>2. z[n + 1] # Marker
      BY <3>1 DEF isoutpostPathExport, Marker
    <3> QED BY <1>4, <2>1, <3>1, <3>2
  <2> QED BY <1>2, <2>1 DEF NoBlock
<1>7. ASSUME NEW n \in Plain(z) PROVE n \in 1..c /\ Nth(K, n) \in Plain(s)
  <2> DEFINE i == Nth(K, n)
  <2>1. /\ n \in 1..c /\ n \in Int /\ z[n] # Marker
        /\ ~(n > 1 /\ z[n - 1] = Marker /\ z[n].kind = "export")
    BY <1>2, <1>7 DEF Plain
  <2>2. i \in K /\ i \in 1..Len(s) /\ i \in Int /\ z[n] = s[i] /\ Rank(K, i) = n - 1
    BY <1>1, <1>2, <1>3, <2>1, NthMember DEF c
  <2> HIDE DEF i
  <2>3. ASSUME i > 1, s[i - 1] = Marker, s[i].kind = "export" PROVE FALSE
    <3>1. i - 1 \in 1..(Len(s) - 1) /\ (i - 1) + 1 = i /\ i - 1 \in DOMAIN s
      BY <1>1, <2>2, <2>3
    <3>2. ~BlockAt(s, i - 1, d)
      BY <2>2 DEF K, Remains
    <3>3. ~BlockAt(s, (i - 1) - 1, d)
      <4>1. ((i - 1) - 1) + 1 = i - 1
        BY <2>2
      <4>2. ~isoutpostPathExport(s[i - 1], d)
        BY <2>3 DEF isoutpostPathExport, Marker
      <4> QED BY <4>1, <4>2 DEF BlockAt
    <3>4. i - 1 \in K
      BY <3>1, <3>2, <3>3 DEF K, Remains
    <3>5. Rank(K, i) = Rank(K, i - 1) + 1 /\ Rank(K, i - 1) + 1 \in 1..c /\ Nth(K, Rank(K, i - 1) + 1) = i - 1
      <4>1. \A k \in K : k + 1 \in K => Rank(K, k + 1) = Rank(K, k) + 1
        BY <1>1, RankGrows
      <4> QED BY <1>1, <2>2, <3>1, <3>4, <4>1, NthMember DEF c
    <3>6. n - 1 \in 1..c /\ Nth(K, n - 1) = i - 1
      BY <2>2, <3>5
    <3>7. z[n - 1] = Marker /\ n > 1
      BY <1>2, <2>1, <2>3, <3>6
    <3> QED BY <2>1, <2>2, <2>3, <3>7
  <2> QED BY <1>1, <2>1, <2>2, <2>3 DEF Plain, i
<1>8. ASSUME NEW i \in Plain(s) PROVE i \in K
  <2>1. /\ i \in DOMAIN s /\ i \in 1..Len(s) /\ i \in Int /\ s[i] # Marker
        /\ ~(i > 1 /\ s[i - 1] = Marker /\ s[i].kind = "export")
    BY <1>1, <1>8 DEF Plain
  <2>2. ~BlockAt(s, i, d)
    BY <2>1 DEF BlockAt
  <2>3. ASSUME BlockAt(s, i - 1, d) PROVE FALSE
    <3>1. i - 1 \in 1..(Len(s) - 1) /\ s[i - 1] = Marker /\ s[(i - 1) + 1].kind = "export"
      BY <2>3 DEF BlockAt, isoutpostPathExport
    <3>2. (i - 1) + 1 = i /\ i > 1
      BY <2>1, <3>1
    <3> QED BY <2>1, <3>1, <3>2
  <2> QED BY <2>1, <2>2, <2>3 DEF K, Remains
<1>9. ASSUME NEW n \in 1..c, Nth(K, n) \in Plain(s) PROVE n \in Plain(z)
  <2> DEFINE i == Nth(K, n)
  <2>1. /\ i \in K /\ i \in Int /\ n \in Int /\ z[n] = s[i] /\ Rank(K, i) = n - 1 /\ s[i] # Marker
        /\ ~(i > 1 /\ s[i - 1] = Marker /\ s[i].kind = "export")
    BY <1>1, <1>2, <1>3, <1>9, NthMember DEF c, Plain
  <2>2. ASSUME n > 1, z[n - 1] = Marker, z[n].kind = "export" PROVE FALSE
    <3>1. n - 1 \in 1..c /\ n - 1 < n /\ z[n] # Marker
      BY <1>2, <1>9, <2>1, <2>2
    <3>2. Nth(K, n - 1) = i - 1 /\ s[i - 1] = Marker /\ Nth(K, n - 1) \in 1..Len(s)
      BY <1>3, <1>4, <1>9, <2>2, <3>1
    <3>3. i > 1
      BY <1>1, <2>1, <3>2
    <3> QED BY <2>1, <2>2, <3>2, <3>3
  <2> QED BY <1>2, <1>9, <2>1, <2>2 DEF Plain
<1>10. Outside(z) = Outside(s)
  <2>1. Plain(z) \in Places(c) /\ Outside(z) = LinesAt(z, Plain(z)) /\ Outside(s) = LinesAt(s, Plain(s))
    BY <1>2, PlaceSets
  <2>2. Plain(s) \in SUBSET K
    BY <1>8
  <2>3. \A n \in 1..c : Nth(K, n) \in Plain(s) <=> n \in Plain(z)
    BY <1>7, <1>9
  <2>4. LinesAt(LinesAt(s, K), Plain(z)) = LinesAt(s, Plain(s))
    BY <1>1, <2>1, <2>2, <2>3, Composed DEF c
  <2> QED BY <1>1, <2>1, <2>4
<1> QED BY <1>2, <1>5, <1>6, <1>10 DEF z

\* A line install.sh appends, a marker or the export below it, leaves those above it, and
\* is none of the user's.
LEMMA Appending ==
  ASSUME NEW s \in Seq(Line), Tidy(s), NEW l \in Line,
         l = Marker \/ (l.kind = "export" /\ Len(s) > 0 /\ s[Len(s)] = Marker)
  PROVE  LET z == Append(s, l) IN
           z \in Seq(Line) /\ Tidy(z) /\ Outside(z) = Outside(s)
<1> DEFINE z == Append(s, l)
           m == Len(s)
<1>3. /\ m \in Nat /\ DOMAIN s = 1..m
      /\ z \in Seq(Line) /\ Len(z) = m + 1 /\ DOMAIN z = 1..(m + 1)
      /\ \A i \in 1..m : z[i] = s[i]
      /\ z[m + 1] = l
  OBVIOUS
<1>1. l = Marker \/ (l.kind = "export" /\ m > 0 /\ s[m] = Marker)
  OBVIOUS
<1> HIDE DEF z, m
<1>2. l = Marker \/ (l.kind = "export" /\ m > 0 /\ z[m] = Marker)
  <2>1. m > 0 => m \in 1..m
    BY <1>3
  <2> QED BY <1>1, <1>3, <2>1
<1>4. Tidy(z)
  <2>1. ASSUME NEW i \in DOMAIN z, NEW j \in DOMAIN z, i < j, z[i] = Marker, z[j] # Marker
        PROVE  z[j - 1] = Marker /\ z[j].kind = "export"
    <3>1. CASE j \in 1..m
      <4>1. i \in 1..m /\ j - 1 \in 1..m /\ s[i] = Marker /\ s[j] = z[j]
        BY <1>3, <2>1, <3>1
      <4> QED BY <1>3, <2>1, <3>1, <4>1 DEF Tidy
    <3>2. CASE j \notin 1..m
      <4>1. j = m + 1 /\ j - 1 = m
        BY <1>3, <2>1, <3>2
      <4> QED BY <1>2, <1>3, <2>1, <4>1
    <3> QED BY <3>1, <3>2
  <2> QED BY <2>1 DEF Tidy
<1>5. Plain(z) = Plain(s)
  <2>2. ASSUME NEW i \in 1..m PROVE i \in Plain(z) <=> i \in Plain(s)
    <3>1. i \in DOMAIN z /\ i \in DOMAIN s /\ z[i] = s[i] /\ (i > 1 => z[i - 1] = s[i - 1])
      BY <1>3, <2>2
    <3> QED BY <3>1 DEF Plain
  <2>3. m + 1 \notin Plain(z)
    <3>1. (m + 1) - 1 = m /\ (m > 0 => m + 1 > 1)
      BY <1>3
    <3> QED BY <1>2, <1>3, <3>1 DEF Plain
  <2>5. Plain(s) \subseteq 1..m /\ Plain(z) \subseteq 1..(m + 1)
    BY <1>3 DEF Plain
  <2>6. \A i \in 1..(m + 1) : i \in 1..m \/ i = m + 1
    BY <1>3
  <2> QED BY <2>2, <2>3, <2>5, <2>6
<1>6. Outside(z) = LinesAt(z, Plain(z)) /\ Outside(s) = LinesAt(s, Plain(s))
  BY <1>3, PlaceSets
<1>7. LinesAt(z, Plain(s)) = LinesAt(s, Plain(s))
  <2>1. Plain(s) \in Places(Len(s)) /\ Plain(s) \in Places(Len(z))
    BY <1>3 DEF Plain, Places, m
  <2>2. /\ LinesAt(s, Plain(s)) \in Seq(Line) /\ Len(LinesAt(s, Plain(s))) = Cardinality(Plain(s))
        /\ LinesAt(z, Plain(s)) \in Seq(Line) /\ Len(LinesAt(z, Plain(s))) = Cardinality(Plain(s))
    BY <1>3, <2>1, LinesForm
  <2>3. ASSUME NEW n \in 1..Cardinality(Plain(s))
        PROVE  LinesAt(z, Plain(s))[n] = LinesAt(s, Plain(s))[n]
    <3>1. Nth(Plain(s), n) \in 1..m
      BY <1>3, <2>1, <2>3, NthMember DEF m, Places
    <3>2. /\ LinesAt(s, Plain(s))[n] = s[Nth(Plain(s), n)]
          /\ LinesAt(z, Plain(s))[n] = z[Nth(Plain(s), n)]
      BY <1>3, <2>1, <2>3, LinesForm
    <3> QED BY <1>3, <3>1, <3>2
  <2> QED BY <2>2, <2>3
<1> QED BY <1>3, <1>4, <1>5, <1>6, <1>7 DEF z

\* A file without a marker is all the user's own.
LEMMA NoMarkers ==
  ASSUME NEW s \in Seq(Line), Marker \notin Range(s)
  PROVE  Tidy(s) /\ Outside(s) = s
<1>1. DOMAIN s = 1..Len(s) /\ Len(s) \in Nat /\ \A i \in DOMAIN s : s[i] # Marker
  BY DEF Range
<1>2. \A i \in DOMAIN s : i > 1 => i - 1 \in DOMAIN s
  BY <1>1
<1>3. Plain(s) = 1..Len(s)
  BY <1>1, <1>2 DEF Plain
<1>4. Outside(s) = LinesAt(s, 1..Len(s))
  BY <1>3, PlaceSets
<1> QED BY <1>1, <1>4, AllLines DEF Tidy

-----------------------------------------------------------------------------
(* The inductive invariant, in four parts: who does what, the start-up files, the        *)
(* database, and what an uninstall has removed.                                          *)

Erases == {"wipeDb", "rmdir", "clean", "truncate", "write"}
Uninstalls == {"boxes", "images", "ask", "wipeConfig"} \cup Erases

\* What a process is about when it is at a step.
Role(step, j) ==
  /\ step = "idle" => j = NoJob
  /\ step # "idle" => j.cmd # "none"
  /\ step \in {"install", "path", "marker", "export"} => j.cmd = "install" /\ j.dir \in Dirs /\ j.file \in Files
  /\ step \in Uninstalls => j.cmd = "uninstall" /\ j.dir \in Dirs
  /\ step \in {"truncate", "write"} => j.file \in Files
  /\ step \in {"save", "rename"} => j.cmd \in {"setup", "clear"}
  /\ j.cmd = "clear" => j.key = Blank /\ ~j.kept

FlowType ==
  /\ pc \in [Procs -> Steps] /\ job \in [Procs -> Job]
  /\ overlap \subseteq Procs /\ started \in 0..MaxCommands /\ kills \in 0..MaxKills
Roles == \A p \in Procs : Role(pc[p], job[p])

\* Of a process beside which no other touched the same things, none does.
Alone ==
  \A p \in Procs \ overlap : \A q \in Procs \ {p} : Writes(job[q].cmd) \cap Writes(job[p].cmd) = {}

Flow == FlowType /\ Roles /\ Alone

\* A file that was not torn is tidy, also while an uninstall holds what it will write, and
\* what it holds are the user's lines; and an install.sh between its two lines is the only
\* one, and its first is the last of the file.
LinesType ==
  /\ rc \in [Files -> Seq(Line)] /\ own \in [Files -> Seq(Line)] /\ held \in [Procs -> Seq(Line)]
  /\ torn \subseteq Files /\ left \in [Procs -> SUBSET Files]
Blocks == \A f \in Files \ torn : Tidy(rc[f])
HeldLines ==
  \A p \in Procs : pc[p] \in {"truncate", "write"} /\ job[p].file \notin torn =>
    Tidy(held[p]) /\ Outside(held[p]) = own[job[p].file]
RcLines == \A f \in Files \ torn : ~Emptied(f) => Outside(rc[f]) = own[f]
HalfBlocks ==
  \A p \in Procs : \A f \in Files \ torn :
    pc[p] = "export" /\ job[p].file = f =>
      ~Emptied(f) /\ ~Halfway(p, f) /\ Len(rc[f]) > 0 /\ rc[f][Len(rc[f])] = Marker

Shell == LinesType /\ Blocks /\ HeldLines /\ RcLines /\ HalfBlocks

\* Whose handle is of a file that is there; and what an uninstall knows of the rows, by
\* how far its count has come.
RowsType ==
  /\ db = NoDb \/ db \subseteq Rows
  /\ made \subseteq Rows /\ crossed \subseteq Rows /\ stale \subseteq Procs
Handles == \A p \in Procs : pc[p] \in {"insert", "drop"} /\ p \notin stale => db # NoDb
CountedRows ==
  \A p \in Procs :
    /\ pc[p] = "images" => made \cap Boxes \subseteq crossed
    /\ pc[p] \in {"ask", "wipeConfig", "wipeDb"} => made \subseteq crossed
    /\ pc[p] \in {"boxes", "images"} /\ p \in stale => made \subseteq crossed

Records == RowsType /\ Handles /\ CountedRows /\ RecordsKept

\* The credentials kept are those promised, and one uninstall beside which nothing ran
\* finds everything before its step removed.
SavedType ==
  /\ exe \subseteq Dirs /\ temp \subseteq Procs
  /\ config \in Keys \cup {Blank, NoConfig} /\ promised \in Keys \cup {Blank}
KeptKey ==
  \A p \in Procs \ overlap : pc[p] \in {"save", "rename"} /\ job[p].kept => job[p].key = promised
Gone(p) ==
  /\ pc[p] \in Erases => config = NoConfig /\ temp = {}
  /\ pc[p] \in Erases \ {"wipeDb"} => db = NoDb
  /\ pc[p] = "clean" => \A f \in Files \ (left[p] \cup torn) : NoBlock(rc[f], job[p].dir)
  /\ pc[p] \in {"truncate", "write"} =>
       /\ job[p].file \notin torn => NoBlock(held[p], job[p].dir)
       /\ \A f \in Files \ (left[p] \cup torn \cup {job[p].file}) : NoBlock(rc[f], job[p].dir)
Wiped == \A p \in Procs \ overlap : Gone(p)

Saved == SavedType /\ CredentialsAsPromised /\ KeptKey

IInv == Flow /\ Shell /\ Records /\ Saved /\ Wiped

-----------------------------------------------------------------------------
(* Who does what.                                                                        *)

Commands == {"none", "install", "uninstall", "setup", "clear", "create", "delete"}

\* Which commands write the same things: all meet an uninstall.
LEMMA WritesFacts ==
  /\ Writes("none") = {}
  /\ \A c \in Commands \ {"none"} : Writes(c) \cap Writes("uninstall") # {}
  /\ Writes("setup") = {"config"} /\ Writes("clear") = {"config"} /\ "config" \in Writes("uninstall")
BY DEF Writes, Commands

\* A command that starts.
Starts(p) ==
  InstallBegin(p) \/ Update(p) \/ UninstallBegin(p) \/ Setup(p) \/ ClearCreds(p)
  \/ Create(p) \/ Delete(p)

\* What every step leaves of the other processes.
Moved(p) ==
  /\ own' = own
  /\ \A q \in Procs \ {p} : pc'[q] = pc[q] /\ job'[q] = job[q] /\ (q \in overlap => q \in overlap')

\* A command starts at a step of its kind; a setup that keeps the credentials has read
\* them.
LEMMA Begins ==
  ASSUME FlowType, SavedType, NEW p \in Procs, Starts(p)
  PROVE  \E j \in Job, step \in Steps :
           /\ Begin(p, j, step) /\ Role(step, j) /\ j.cmd \in Commands \ {"none"}
           /\ step \notin Erases \cup {"idle", "export", "images", "wipeConfig"}
           /\ step \in {"save", "rename"} => UNCHANGED dbVars
           /\ step \in {"save", "rename"} /\ j.kept => j.key = Load /\ Load # Blank
<1> USE DEF Role, Job, NoJob, Steps, Commands, Erases, Uninstalls, FlowType, SavedType
<1>1. CASE InstallBegin(p)
  <2>1. PICK d \in Dirs, f \in Files :
          Begin(p, [NoJob EXCEPT !.cmd = "install", !.dir = d, !.file = f], "install")
    BY <1>1 DEF InstallBegin
  <2> DEFINE j == [NoJob EXCEPT !.cmd = "install", !.dir = d, !.file = f]
  <2>2. j \in Job /\ j.cmd = "install" /\ j.dir = d /\ j.file = f
    OBVIOUS
  <2> HIDE DEF j
  <2>3. Begin(p, j, "install")
    BY <2>1 DEF j
  <2> QED BY <2>2, <2>3
<1>2. CASE Update(p)
  <2>1. PICK d \in Dirs, f \in Files :
          Begin(p, [NoJob EXCEPT !.cmd = "install", !.dir = d, !.file = f], "install")
    BY <1>2 DEF Update
  <2> DEFINE j == [NoJob EXCEPT !.cmd = "install", !.dir = d, !.file = f]
  <2>2. j \in Job /\ j.cmd = "install" /\ j.dir = d /\ j.file = f
    OBVIOUS
  <2> HIDE DEF j
  <2>3. Begin(p, j, "install")
    BY <2>1 DEF j
  <2> QED BY <2>2, <2>3
<1>3. CASE UninstallBegin(p)
  <2> DEFINE step == IF db = NoDb THEN "ask" ELSE "boxes"
  <2>1. PICK d \in Dirs : Begin(p, [NoJob EXCEPT !.cmd = "uninstall", !.dir = d], step)
    BY <1>3 DEF UninstallBegin
  <2> DEFINE j == [NoJob EXCEPT !.cmd = "uninstall", !.dir = d]
  <2>2. j \in Job /\ j.cmd = "uninstall" /\ j.dir = d
    OBVIOUS
  <2>3. step = "ask" \/ step = "boxes"
    OBVIOUS
  <2> HIDE DEF j, step
  <2>4. Begin(p, j, step)
    BY <2>1 DEF j
  <2> QED BY <2>2, <2>3, <2>4
<1>4. CASE Setup(p)
  <2>1. CASE \E k \in Keys : Begin(p, [NoJob EXCEPT !.cmd = "setup", !.key = k], "save")
    <3>1. PICK k \in Keys : Begin(p, [NoJob EXCEPT !.cmd = "setup", !.key = k], "save")
      BY <2>1
    <3> DEFINE j == [NoJob EXCEPT !.cmd = "setup", !.key = k]
    <3>2. j \in Job /\ j.cmd = "setup" /\ ~j.kept
      OBVIOUS
    <3> HIDE DEF j
    <3>3. Begin(p, j, "save") /\ UNCHANGED dbVars
      BY <1>4, <3>1 DEF j, Setup
    <3> QED BY <3>2, <3>3
  <2>2. CASE /\ Load # Blank
             /\ Begin(p, [NoJob EXCEPT !.cmd = "setup", !.key = Load, !.kept = TRUE], "save")
    <3> DEFINE j == [NoJob EXCEPT !.cmd = "setup", !.key = Load, !.kept = TRUE]
    <3>1. Load \in Keys \cup {Blank}
      BY DEF Load
    <3>2. j \in Job /\ j.cmd = "setup" /\ j.key = Load
      BY <3>1
    <3> HIDE DEF j
    <3>3. Begin(p, j, "save") /\ UNCHANGED dbVars
      BY <1>4, <2>2 DEF j, Setup
    <3> QED BY <2>2, <3>2, <3>3
  <2> QED BY <1>4, <2>1, <2>2 DEF Setup
<1>5. CASE ClearCreds(p)
  <2> DEFINE j == [NoJob EXCEPT !.cmd = "clear"]
  <2>1. j \in Job /\ j.cmd = "clear" /\ j.key = Blank /\ ~j.kept
    OBVIOUS
  <2> HIDE DEF j
  <2>2. Begin(p, j, "save") /\ UNCHANGED dbVars
    BY <1>5 DEF ClearCreds, j
  <2> QED BY <2>1, <2>2
<1>6. CASE Create(p)
  <2> DEFINE j == [NoJob EXCEPT !.cmd = "create"]
  <2>1. j \in Job /\ j.cmd = "create"
    OBVIOUS
  <2> HIDE DEF j
  <2>2. Begin(p, j, "insert")
    BY <1>6 DEF Create, Open, j
  <2> QED BY <2>1, <2>2
<1>7. CASE Delete(p)
  <2> DEFINE j == [NoJob EXCEPT !.cmd = "delete"]
  <2>1. j \in Job /\ j.cmd = "delete"
    OBVIOUS
  <2> HIDE DEF j
  <2>2. Begin(p, j, "drop")
    BY <1>7 DEF Delete, Open, j
  <2> QED BY <2>1, <2>2
<1> QED BY <1>1, <1>2, <1>3, <1>4, <1>5, <1>6, <1>7 DEF Starts

\* A command that starts finds every other it would disturb, and is found by it.
LEMMA BeginMoves ==
  ASSUME ConstantsAssumption, Flow, NEW p \in Procs, NEW j \in Job, NEW step \in Steps,
         Role(step, j), Begin(p, j, step)
  PROVE  Flow' /\ Moved(p) /\ pc[p] = "idle" /\ pc'[p] = step /\ job'[p] = j
<1>1. /\ FlowType /\ Roles /\ Alone /\ pc[p] = "idle" /\ started' = started + 1 /\ started < MaxCommands
      /\ job' = [job EXCEPT ![p] = j] /\ pc' = [pc EXCEPT ![p] = step]
      /\ overlap' = Overlapping(p, j.cmd) /\ kills' = kills /\ own' = own
  BY DEF Flow, Begin, At, Goto
<1>2. /\ \A q \in Procs \ {p} : pc'[q] = pc[q] /\ job'[q] = job[q]
      /\ pc'[p] = step /\ job'[p] = j /\ pc' \in [Procs -> Steps] /\ job' \in [Procs -> Job]
  BY <1>1 DEF FlowType
<1> DEFINE beside == {q \in Procs \ {p} : Writes(job[q].cmd) \cap Writes(j.cmd) # {}}
<1>3. overlap' = IF beside = {} THEN overlap \ {p} ELSE overlap \cup beside \cup {p}
  BY <1>1 DEF Overlapping
<1>4. overlap' \subseteq Procs /\ \A q \in Procs \ {p} : q \in overlap => q \in overlap'
  BY <1>1, <1>3 DEF FlowType
<1>5. started' \in 0..MaxCommands /\ kills' \in 0..MaxKills
  <2>1. started \in 0..MaxCommands /\ MaxCommands \in Nat
    BY <1>1 DEF FlowType, ConstantsAssumption
  <2> QED BY <1>1, <2>1 DEF FlowType
<1>6. FlowType'
  BY <1>2, <1>4, <1>5 DEF FlowType
<1>7. Roles'
  BY <1>1, <1>2 DEF Roles
<1>8. Alone'
  <2>1. ASSUME NEW r \in Procs \ overlap', NEW q \in Procs \ {r}
        PROVE  Writes(job'[q].cmd) \cap Writes(job'[r].cmd) = {}
    <3>1. CASE r = p
      <4>1. beside = {} /\ q # p
        BY <1>3, <2>1, <3>1
      <4>2. Writes(job[q].cmd) \cap Writes(j.cmd) = {}
        BY <2>1, <4>1
      <4> QED BY <1>2, <2>1, <3>1, <4>1, <4>2
    <3>2. CASE r # p /\ q = p
      <4>1. r \notin beside
        BY <1>3, <2>1, <3>2
      <4>2. Writes(job[r].cmd) \cap Writes(j.cmd) = {}
        BY <2>1, <3>2, <4>1
      <4> QED BY <1>2, <2>1, <3>2, <4>2
    <3>3. CASE r # p /\ q # p
      <4>1. r \notin overlap
        BY <1>4, <2>1, <3>3
      <4> QED BY <1>1, <1>2, <2>1, <3>3, <4>1 DEF Alone
    <3> QED BY <3>1, <3>2, <3>3
  <2> QED BY <2>1 DEF Alone
<1> HIDE DEF beside
<1> QED BY <1>1, <1>2, <1>4, <1>6, <1>7, <1>8 DEF Flow, Moved

\* A command that goes on, or returns, touches no more than before.
LEMMA OnMoves ==
  ASSUME Flow, NEW p \in Procs, NEW j \in Job, NEW step \in Steps,
         Role(step, j), j.cmd \in {job[p].cmd, "none"},
         pc' = [pc EXCEPT ![p] = step], job' = [job EXCEPT ![p] = j],
         UNCHANGED <<own, overlap, started>>, kills' \in 0..MaxKills
  PROVE  Flow' /\ Moved(p) /\ pc'[p] = step /\ job'[p] = j
<1>1. /\ FlowType /\ Roles /\ Alone
      /\ overlap' = overlap /\ started' = started /\ own' = own
  BY DEF Flow
<1>2. /\ \A q \in Procs \ {p} : pc'[q] = pc[q] /\ job'[q] = job[q]
      /\ pc'[p] = step /\ job'[p] = j /\ pc' \in [Procs -> Steps] /\ job' \in [Procs -> Job]
  BY <1>1 DEF FlowType
<1>3. FlowType'
  BY <1>1, <1>2 DEF FlowType
<1>4. Roles'
  BY <1>1, <1>2 DEF Roles
<1>5. \A q \in Procs : Writes(job'[q].cmd) \subseteq Writes(job[q].cmd)
  <2>1. CASE j.cmd = job[p].cmd
    BY <1>2, <2>1
  <2>2. CASE j.cmd = "none"
    BY <1>2, <2>2, WritesFacts
  <2> QED BY <2>1, <2>2
<1>6. Alone'
  BY <1>1, <1>5 DEF Alone
<1> QED BY <1>1, <1>2, <1>3, <1>4, <1>6 DEF Flow, Moved

\* A step that keeps the command: what it is about stays, or it returns.
LEMMA ProceedMoves ==
  ASSUME Flow, NEW p \in Procs, NEW step \in Steps, Role(step, job[p]), Proceed(p, step), Counts
  PROVE  Flow' /\ Moved(p) /\ pc'[p] = step /\ job'[p] = job[p]
<1>1. /\ pc' = [pc EXCEPT ![p] = step] /\ job' = job
      /\ UNCHANGED <<own, overlap, started>> /\ kills' = kills
  BY DEF Proceed, Goto, Counts
<1>2. job[p] \in Job /\ kills \in 0..MaxKills /\ job = [job EXCEPT ![p] = job[p]]
  BY DEF Flow, FlowType
<1> QED BY <1>1, <1>2, OnMoves

\* A command that returns, or is killed, keeps what is known of the flow.
LEMMA ReturnMoves ==
  ASSUME Flow, NEW p \in Procs, Return(p), UNCHANGED <<own, overlap, started>>,
         kills' \in 0..MaxKills
  PROVE  Flow' /\ Moved(p) /\ pc'[p] = "idle" /\ job'[p] = NoJob
<1>1. pc' = [pc EXCEPT ![p] = "idle"] /\ job' = [job EXCEPT ![p] = NoJob]
  BY DEF Return, Goto
<1>2. NoJob \in Job /\ NoJob.cmd = "none" /\ "idle" \in Steps /\ Role("idle", NoJob)
  BY DEF NoJob, Job, Steps, Role, Uninstalls, Erases
<1> QED BY <1>1, <1>2, OnMoves

\* Every step keeps the first part of the invariant, and the other processes.
LEMMA FlowStep ==
  ASSUME ConstantsAssumption, Flow, LinesType, SavedType, NEW p \in Procs, Step(p)
  PROVE  Flow' /\ Moved(p)
<1>1. /\ FlowType /\ Role(pc[p], job[p]) /\ pc[p] \in Steps /\ job[p] \in Job
      /\ kills \in 0..MaxKills /\ MaxKills \in Nat
  BY DEF Flow, FlowType, Roles, ConstantsAssumption
<1>2. CASE Starts(p)
  BY <1>1, <1>2, Begins, BeginMoves
<1>3. ASSUME Return(p), Counts PROVE Flow' /\ Moved(p)
  BY <1>1, <1>3, ReturnMoves DEF Counts
<1>4. ASSUME NEW step \in Steps, Role(step, job[p]), Proceed(p, step), Counts
      PROVE  Flow' /\ Moved(p)
  BY <1>4, ProceedMoves
<1>5. ASSUME pc[p] \in Uninstalls
      PROVE  \A step \in Uninstalls \ {"truncate", "write"} : step \in Steps /\ Role(step, job[p])
  BY <1>1, <1>5 DEF Role, Uninstalls, Erases, Steps
<1>6. CASE InstallBinary(p)
  <2>1. pc[p] = "install" => "path" \in Steps /\ Role("path", job[p])
    BY <1>1 DEF Role, Uninstalls, Erases, Steps
  <2> QED BY <1>3, <1>4, <1>6, <2>1 DEF InstallBinary, At
<1>7. CASE ConfigurePath(p) \/ AppendMarker(p) \/ AppendExport(p)
  <2>1. pc[p] \in {"path", "marker"} =>
          "marker" \in Steps /\ Role("marker", job[p]) /\ "export" \in Steps /\ Role("export", job[p])
    BY <1>1 DEF Role, Uninstalls, Erases, Steps
  <2> QED BY <1>3, <1>4, <1>7, <2>1 DEF ConfigurePath, AppendMarker, AppendExport, At
<1>8. CASE CountInstances(p)
  <2>1. pc[p] \in Uninstalls /\ "images" \in Uninstalls \ {"truncate", "write"}
    BY <1>8 DEF CountInstances, At, Uninstalls, Erases
  <2> QED BY <1>3, <1>4, <1>5, <1>8, <2>1 DEF CountInstances, Counted
<1>9. CASE CountSnapshots(p)
  <2>1. pc[p] \in Uninstalls /\ "ask" \in Uninstalls \ {"truncate", "write"}
    BY <1>9 DEF CountSnapshots, At, Uninstalls, Erases
  <2> QED BY <1>3, <1>4, <1>5, <1>9, <2>1 DEF CountSnapshots, Counted
<1>10. CASE Confirm(p)
  <2>1. pc[p] \in Uninstalls /\ "wipeConfig" \in Uninstalls \ {"truncate", "write"}
    BY <1>10 DEF Confirm, At, Uninstalls, Erases
  <2> QED BY <1>3, <1>4, <1>5, <1>10, <2>1 DEF Confirm
<1>11. CASE RemoveConfig(p)
  <2>1. pc[p] \in Uninstalls /\ "wipeDb" \in Uninstalls \ {"truncate", "write"}
    BY <1>11 DEF RemoveConfig, At, Uninstalls, Erases
  <2> QED BY <1>4, <1>5, <1>11, <2>1 DEF RemoveConfig
<1>12. CASE RemoveDb(p)
  <2>1. pc[p] \in Uninstalls /\ "rmdir" \in Uninstalls \ {"truncate", "write"}
    BY <1>12 DEF RemoveDb, At, Uninstalls, Erases
  <2> QED BY <1>4, <1>5, <1>12, <2>1 DEF RemoveDb
<1>13. CASE RemoveDataDir(p)
  <2>1. pc[p] \in Uninstalls /\ "clean" \in Uninstalls \ {"truncate", "write"}
    BY <1>13 DEF RemoveDataDir, At, Uninstalls, Erases
  <2> QED BY <1>3, <1>4, <1>5, <1>13, <2>1 DEF RemoveDataDir
<1>14. CASE cleanShellRCFile(p)
  <2>1. pc[p] = "clean" /\ Counts
    BY <1>14 DEF cleanShellRCFile, At
  <2>2. PICK f \in left[p] :
          \/ UNCHANGED <<pc, job>>
          \/ job' = [job EXCEPT ![p].file = f] /\ Goto(p, "truncate")
    BY <1>14, Zenon DEF cleanShellRCFile
  <2>3. CASE UNCHANGED <<pc, job>>
    BY <1>4, <1>5, <2>1, <2>3
    DEF Flow, FlowType, Roles, Alone, Moved, Counts
  <2>4. f \in Files
    BY DEF LinesType
  <2>5. CASE job' = [job EXCEPT ![p].file = f] /\ Goto(p, "truncate")
    <3> DEFINE j == [job[p] EXCEPT !.file = f]
    <3>1. /\ j \in Job /\ j.cmd = job[p].cmd /\ j.file = f /\ j.dir = job[p].dir
          /\ j.key = job[p].key /\ j.kept = job[p].kept
      BY <1>1, <2>4 DEF Job
    <3>2. job' = [job EXCEPT ![p] = j] /\ pc' = [pc EXCEPT ![p] = "truncate"]
      BY <2>5 DEF Goto, Flow, FlowType
    <3> HIDE DEF j
    <3>3. "truncate" \in Steps /\ Role("truncate", j)
      BY <1>1, <2>1, <2>4, <3>1 DEF Role, Steps, Uninstalls, Erases
    <3>4. UNCHANGED <<own, overlap, started>> /\ kills' \in 0..MaxKills
      BY <1>1, <2>1 DEF Counts
    <3> QED BY <3>1, <3>2, <3>3, <3>4, OnMoves
  <2> QED BY <2>2, <2>3, <2>5
<1>15. CASE TruncateRC(p)
  <2>1. pc[p] = "truncate" /\ Proceed(p, "write") /\ Counts
    BY <1>15 DEF TruncateRC, At
  <2>2. "write" \in Steps /\ Role("write", job[p])
    BY <1>1, <2>1 DEF Role, Steps, Uninstalls, Erases
  <2> QED BY <1>4, <2>1, <2>2
<1>16. CASE WriteRC(p)
  <2>1. pc[p] \in Uninstalls /\ "clean" \in Uninstalls \ {"truncate", "write"}
    BY <1>16 DEF WriteRC, At, Uninstalls, Erases
  <2> QED BY <1>4, <1>5, <1>16, <2>1 DEF WriteRC
<1>17. CASE RemoveBinary(p)
  BY <1>3, <1>17 DEF RemoveBinary
<1>18. CASE Save(p)
  <2>1. pc[p] = "save" /\ Proceed(p, "rename") /\ Counts
    BY <1>18 DEF Save, At
  <2>2. "rename" \in Steps /\ Role("rename", job[p])
    BY <1>1, <2>1 DEF Role, Steps, Uninstalls, Erases
  <2> QED BY <1>4, <2>1, <2>2
<1>19. CASE RenameConfig(p)
  BY <1>3, <1>19 DEF RenameConfig
<1>20. CASE Insert(p)
  BY <1>3, <1>20 DEF Insert
<1>21. CASE Drop(p)
  BY <1>3, <1>21 DEF Drop
<1>22. CASE Kill(p)
  <2>1. Return(p) /\ UNCHANGED <<own, overlap, started>> /\ kills' = kills + 1 /\ kills < MaxKills
    BY <1>22 DEF Kill
  <2>2. kills' \in 0..MaxKills
    BY <1>1, <2>1
  <2> QED BY <2>1, <2>2, ReturnMoves
<1> QED
  BY <1>2, <1>6, <1>7, <1>8, <1>9, <1>10, <1>11, <1>12, <1>13, <1>14, <1>15, <1>16, <1>17,
     <1>18, <1>19, <1>20, <1>21, <1>22 DEF Step, Starts

-----------------------------------------------------------------------------
(* The start-up files.                                                                   *)

\* A file another process has emptied stays so.
LEMMA StillEmptied ==
  ASSUME NEW p \in Procs, Moved(p), NEW f, Emptied(f),
         ~(pc[p] = "write" /\ job[p].file = f)
  PROVE  Emptied(f)'
<1>1. PICK q \in Procs : pc[q] = "write" /\ job[q].file = f
  BY DEF Emptied, At
<1>2. q # p /\ pc'[q] = pc[q] /\ job'[q] = job[q]
  BY <1>1 DEF Moved
<1> QED BY <1>1, <1>2 DEF Emptied, At

\* Beside a step, an install.sh between its two lines: the file is as it was, and nobody has
\* emptied it or begun a second block.
LEMMA HalfKept ==
  ASSUME HalfBlocks, NEW p \in Procs, Moved(p), torn \subseteq torn',
         NEW q \in Procs \ {p}, NEW f \in Files \ torn', pc[q] = "export", job[q].file = f,
         rc'[f] = rc[f], pc'[p] \in {"write", "export"} => job'[p].file # f
  PROVE  ~Emptied(f)' /\ ~Halfway(q, f)' /\ Len(rc'[f]) > 0 /\ rc'[f][Len(rc'[f])] = Marker
<1>1. ~Emptied(f) /\ ~Halfway(q, f) /\ Len(rc[f]) > 0 /\ rc[f][Len(rc[f])] = Marker
  BY DEF HalfBlocks
<1>2. \A r \in Procs \ {p} : pc'[r] = pc[r] /\ job'[r] = job[r]
  BY DEF Moved
<1>3. ~Emptied(f)'
  BY <1>1, <1>2 DEF Emptied, At
<1>4. ~Halfway(q, f)'
  BY <1>1, <1>2 DEF Halfway, At
<1> QED BY <1>1, <1>3, <1>4

\* The same of all of them, at a step that does not leave one.
LEMMA HalfFrame ==
  ASSUME HalfBlocks, NEW p \in Procs, Moved(p), torn \subseteq torn', pc'[p] # "export",
         \A q \in Procs \ {p} : \A f \in Files \ torn' :
           pc[q] = "export" /\ job[q].file = f =>
             rc'[f] = rc[f] /\ (pc'[p] = "write" => job'[p].file # f)
  PROVE  HalfBlocks'
<1>1. ASSUME NEW q \in Procs, NEW f \in Files \ torn', pc'[q] = "export", job'[q].file = f
      PROVE  ~Emptied(f)' /\ ~Halfway(q, f)' /\ Len(rc'[f]) > 0 /\ rc'[f][Len(rc'[f])] = Marker
  <2>1. q \in Procs \ {p} /\ pc[q] = "export" /\ job[q].file = f
    BY <1>1 DEF Moved
  <2>2. rc'[f] = rc[f] /\ (pc'[p] \in {"write", "export"} => job'[p].file # f)
    BY <1>1, <2>1
  <2> QED BY <1>1, <2>1, <2>2, HalfKept
<1> QED BY <1>1 DEF HalfBlocks

\* The start-up files are the user's at first.
LEMMA Initially ==
  ASSUME ConstantsAssumption, Init
  PROVE  Shell
<1>1. /\ rc \in InitialFiles /\ own = rc /\ torn = {}
      /\ left = [p \in Procs |-> {}] /\ held = [p \in Procs |-> <<>>]
      /\ pc = [p \in Procs |-> "idle"]
  BY DEF Init
<1>2. rc \in [Files -> Seq(Line)] /\ \A f \in Files : Marker \notin Range(rc[f])
  BY <1>1 DEF ConstantsAssumption
<1>3. <<>> \in Seq(Line)
  OBVIOUS
<1>4. held \in [Procs -> Seq(Line)]
  BY <1>1, <1>3
<1>5. \A f \in Files : Tidy(rc[f]) /\ Outside(rc[f]) = rc[f]
  BY <1>2, NoMarkers
<1> QED BY <1>1, <1>2, <1>4, <1>5 DEF Shell, LinesType, Blocks, HeldLines, RcLines, HalfBlocks

\* A step that does not touch the files, of a process that is not writing one.
LEMMA ShellQuiet ==
  ASSUME Shell, NEW p \in Procs, Moved(p), UNCHANGED <<rc, held>>,
         torn \subseteq torn', torn' \subseteq Files, left' \in [Procs -> SUBSET Files],
         pc[p] \notin {"truncate", "write"}, pc'[p] \notin {"truncate", "write", "export"}
  PROVE  Shell'
<1>1. LinesType' /\ Blocks'
  BY DEF Shell, LinesType, Blocks, Moved
<1>2. HeldLines'
  BY DEF Shell, HeldLines, Moved
<1>3. \A f \in Files : Emptied(f) => Emptied(f)'
  BY StillEmptied
<1>4. RcLines'
  BY <1>3 DEF Shell, RcLines, Moved
<1>5. HalfBlocks'
  BY HalfFrame DEF Shell
<1> QED BY <1>1, <1>2, <1>4, <1>5 DEF Shell

\* install.sh appends a line to a file that is tidy, or torn.
LEMMA ShellAppend ==
  ASSUME Shell, NEW p \in Procs, Moved(p), NEW f \in Files, NEW l \in Line,
         UNCHANGED <<held, left>>, rc' = [rc EXCEPT ![f] = Append(@, l)],
         torn \subseteq torn', torn' \subseteq Files,
         pc[p] \notin {"truncate", "write"}, pc'[p] \notin {"truncate", "write"},
         f \in torn' \/ l = Marker
           \/ (l.kind = "export" /\ Len(rc[f]) > 0 /\ rc[f][Len(rc[f])] = Marker)
  PROVE  LinesType' /\ Blocks' /\ HeldLines' /\ RcLines'
<1>1. LinesType /\ Blocks /\ HeldLines /\ RcLines /\ own' = own
  BY DEF Shell, Moved
<1>2. rc[f] \in Seq(Line) /\ Append(rc[f], l) \in Seq(Line)
  BY <1>1 DEF LinesType
<1> DEFINE z == Append(rc[f], l)
<1>3. f \notin torn' => Tidy(z) /\ Outside(z) = Outside(rc[f])
  <2>1. f \notin torn' => Tidy(rc[f])
    BY <1>1 DEF Blocks
  <2> QED BY <1>2, <2>1, Appending
<1>4. rc' = [rc EXCEPT ![f] = z]
  OBVIOUS
<1> HIDE DEF z
<1>5. rc' \in [Files -> Seq(Line)] /\ rc'[f] = z /\ \A g \in Files \ {f} : rc'[g] = rc[g]
  <2>1. z \in Seq(Line)
    BY <1>2 DEF z
  <2> QED BY <1>1, <1>4, <2>1 DEF LinesType
<1>6. \A g \in Files \ torn' : Tidy(rc'[g]) /\ Outside(rc'[g]) = Outside(rc[g])
  BY <1>1, <1>3, <1>5 DEF Blocks
<1>7. LinesType' /\ Blocks'
  BY <1>1, <1>5, <1>6 DEF LinesType, Blocks
<1>8. HeldLines'
  BY <1>1 DEF HeldLines, Moved
<1>9. \A g \in Files : Emptied(g) => Emptied(g)'
  BY StillEmptied
<1>10. RcLines'
  BY <1>1, <1>6, <1>9 DEF RcLines
<1> QED BY <1>7, <1>8, <1>10

\* The marker goes to the end of the file; one that was empty, or had a marker without its
\* export, is torn.
LEMMA ShellMarker ==
  ASSUME Shell, Flow, NEW p \in Procs, Moved(p), AppendMarker(p)
  PROVE  Shell'
<1>0. PICK f \in Files : f = job[p].file
  BY DEF AppendMarker, At, Flow, Roles, Role
<1>1. /\ pc[p] = "marker" /\ pc'[p] = "export" /\ job'[p].file = f
      /\ UNCHANGED <<held, left>> /\ rc' = [rc EXCEPT ![f] = Append(@, Marker)]
      /\ torn' = IF Emptied(f) \/ Halfway(p, f) THEN torn \cup {f} ELSE torn
      /\ LinesType /\ HalfBlocks
  BY <1>0 DEF AppendMarker, TornIf, At, Proceed, Goto, Shell, Flow, FlowType
<1>2. Marker \in Line
  BY DEF Marker, Line
<1>3. torn \subseteq torn' /\ torn' \subseteq Files
  BY <1>1 DEF LinesType
<1>4. LinesType' /\ Blocks' /\ HeldLines' /\ RcLines'
  BY <1>1, <1>2, <1>3, ShellAppend
<1>5. /\ \A g \in Files \ {f} : rc'[g] = rc[g]
      /\ rc[f] \in Seq(Line) /\ rc'[f] = Append(rc[f], Marker)
  BY <1>1 DEF LinesType
<1>6. ASSUME NEW q \in Procs, NEW g \in Files \ torn', pc'[q] = "export", job'[q].file = g
      PROVE  ~Emptied(g)' /\ ~Halfway(q, g)' /\ Len(rc'[g]) > 0 /\ rc'[g][Len(rc'[g])] = Marker
  <2>1. CASE q = p
    <3>1. g = f /\ ~Emptied(f) /\ ~Halfway(p, f)
      BY <1>1, <1>6, <2>1
    <3>2. \A r \in Procs \ {p} : pc'[r] = pc[r] /\ job'[r] = job[r]
      BY DEF Moved
    <3>3. ~Emptied(f)' /\ ~Halfway(p, f)'
      BY <1>1, <3>1, <3>2 DEF Emptied, Halfway, At
    <3>4. Len(rc'[f]) > 0 /\ rc'[f][Len(rc'[f])] = Marker
      BY <1>2, <1>5
    <3> QED BY <2>1, <3>1, <3>3, <3>4
  <2>2. CASE q # p
    <3>1. pc[q] = "export" /\ job[q].file = g
      BY <1>6, <2>2 DEF Moved
    <3>2. g # f
      BY <1>1, <1>6, <2>2, <3>1 DEF Halfway, At
    <3> QED BY <1>1, <1>3, <1>5, <1>6, <2>2, <3>1, <3>2, HalfKept
  <2> QED BY <2>1, <2>2
<1>7. HalfBlocks'
  BY <1>6 DEF HalfBlocks
<1> QED BY <1>4, <1>7 DEF Shell

\* The export goes below its own marker, if the file is not torn.
LEMMA ShellExport ==
  ASSUME Shell, Flow, NEW p \in Procs, Moved(p), pc'[p] = "idle", AppendExport(p)
  PROVE  Shell'
<1>0. PICK f \in Files, d \in Dirs : f = job[p].file /\ d = job[p].dir
  BY DEF AppendExport, At, Flow, Roles, Role
<1>1. /\ pc[p] = "export" /\ UNCHANGED <<held, left, torn>>
      /\ rc' = [rc EXCEPT ![f] = Append(@, Export(d))]
      /\ LinesType /\ HalfBlocks
  BY <1>0 DEF AppendExport, At, Shell
<1>2. Export(d) \in Line /\ Export(d).kind = "export"
  BY DEF Export, Line
<1>3. f \notin torn => ~Halfway(p, f) /\ Len(rc[f]) > 0 /\ rc[f][Len(rc[f])] = Marker
  BY <1>0, <1>1 DEF HalfBlocks
<1>4. torn \subseteq torn' /\ torn' \subseteq Files
  BY <1>1 DEF LinesType
<1>5. LinesType' /\ Blocks' /\ HeldLines' /\ RcLines'
  BY <1>1, <1>2, <1>3, <1>4, ShellAppend
<1>6. HalfBlocks'
  <2>1. ASSUME NEW q \in Procs \ {p}, NEW g \in Files \ torn', pc[q] = "export", job[q].file = g
        PROVE  rc'[g] = rc[g]
    <3>1. g # f
      BY <1>1, <1>3, <2>1 DEF Halfway, At
    <3> QED BY <1>1, <2>1, <3>1 DEF LinesType
  <2> QED BY <1>1, <1>4, <2>1, HalfFrame
<1> QED BY <1>5, <1>6 DEF Shell

\* uninstall holds what it will write of a file, and notes one that was empty.
LEMMA ShellClean ==
  ASSUME Shell, Flow, NEW p \in Procs, Moved(p), cleanShellRCFile(p)
  PROVE  Shell'
<1>1. /\ LinesType /\ Blocks /\ HeldLines /\ RcLines /\ HalfBlocks
      /\ pc[p] = "clean" /\ rc' = rc /\ own' = own
  BY DEF Shell, cleanShellRCFile, At, Moved
<1>2. PICK f \in left[p] :
        LET cleaned == cleanShellRCContent(rc[f], job[p].dir) IN
        /\ left' = [left EXCEPT ![p] = @ \ {f}]
        /\ IF cleaned = rc[f] THEN UNCHANGED <<pc, job, held>>
           ELSE /\ held' = [held EXCEPT ![p] = cleaned]
                /\ job' = [job EXCEPT ![p].file = f]
                /\ Goto(p, "truncate")
        /\ TornIf(Emptied(f), f)
  BY Zenon DEF cleanShellRCFile
<1> DEFINE cleaned == cleanShellRCContent(rc[f], job[p].dir)
<1>3. f \in Files /\ rc[f] \in Seq(Line) /\ (f \notin torn => Tidy(rc[f]))
  BY <1>1 DEF LinesType, Blocks
<1>4. /\ cleaned \in Seq(Line)
      /\ f \notin torn => Tidy(cleaned) /\ Outside(cleaned) = Outside(rc[f])
  <2>1. cleaned \in Seq(Line)
    BY <1>3, PlaceSets, LinesForm
  <2> QED BY <1>3, <2>1, Cleaning
<1>5. left' \in [Procs -> SUBSET Files]
  BY <1>1, <1>2 DEF LinesType
<1>6. torn' = IF Emptied(f) THEN torn \cup {f} ELSE torn
  BY <1>2 DEF TornIf
<1>7. torn \subseteq torn' /\ torn' \subseteq Files
  BY <1>1, <1>3, <1>6 DEF LinesType
<1>8. \/ pc' = pc /\ job' = job /\ held' = held
      \/ /\ held' = [held EXCEPT ![p] = cleaned]
         /\ job' = [job EXCEPT ![p].file = f] /\ pc' = [pc EXCEPT ![p] = "truncate"]
  BY <1>2, Zenon DEF Goto
<1> HIDE DEF cleaned
<1>9. LinesType' /\ Blocks'
  BY <1>1, <1>4, <1>5, <1>7, <1>8 DEF LinesType, Blocks
<1>10. HeldLines'
  <2>1. CASE pc' = pc /\ job' = job /\ held' = held
    BY <1>1, <1>7, <2>1 DEF HeldLines
  <2>2. CASE /\ held' = [held EXCEPT ![p] = cleaned]
             /\ job' = [job EXCEPT ![p].file = f] /\ pc' = [pc EXCEPT ![p] = "truncate"]
    <3>1. job'[p].file = f /\ held'[p] = cleaned /\ \A q \in Procs \ {p} : held'[q] = held[q]
      <4>1. job \in [Procs -> Job] /\ held \in [Procs -> Seq(Line)]
        BY <1>1 DEF Flow, FlowType, LinesType
      <4> QED BY <2>2, <4>1 DEF Job
    <3>2. f \notin torn' => Tidy(cleaned) /\ Outside(cleaned) = own[f]
      BY <1>1, <1>3, <1>4, <1>6 DEF RcLines
    <3>3. ASSUME NEW q \in Procs, pc'[q] \in {"truncate", "write"}, job'[q].file \notin torn'
          PROVE  Tidy(held'[q]) /\ Outside(held'[q]) = own'[job'[q].file]
      <4>1. CASE q = p
        BY <1>1, <3>1, <3>2, <3>3, <4>1
      <4>2. CASE q # p
        BY <1>1, <1>7, <3>1, <3>3, <4>2 DEF HeldLines, Moved
      <4> QED BY <4>1, <4>2
    <3> QED BY <3>3 DEF HeldLines
  <2> QED BY <1>8, <2>1, <2>2
<1>11. RcLines'
  <2>1. \A g \in Files : Emptied(g) => Emptied(g)'
    BY <1>1, StillEmptied
  <2> QED BY <1>1, <1>7, <2>1 DEF RcLines
<1>12. HalfBlocks'
  <2>1. pc'[p] \in {"clean", "truncate"}
    BY <1>1, <1>8 DEF Flow, FlowType
  <2> QED BY <1>1, <1>7, <2>1, HalfFrame
<1> QED BY <1>9, <1>10, <1>11, <1>12 DEF Shell

\* A file is empty until what is held is written.
LEMMA ShellTruncate ==
  ASSUME Shell, Flow, NEW p \in Procs, Moved(p), TruncateRC(p)
  PROVE  Shell'
<1> DEFINE f == job[p].file
<1>1. /\ LinesType /\ Blocks /\ HeldLines /\ RcLines /\ HalfBlocks
      /\ pc[p] = "truncate" /\ pc'[p] = "write"
      /\ f \in Files /\ job' = job /\ own' = own /\ UNCHANGED <<left, held>>
      /\ rc' = [rc EXCEPT ![f] = <<>>]
      /\ torn' = IF Halfway(p, f) THEN torn \cup {f} ELSE torn
  BY DEF Shell, TruncateRC, TornIf, Proceed, Goto, At, Moved, Flow, FlowType, Roles, Role
<1>2. <<>> \in Seq(Line) /\ Tidy(<<>>)
  BY DEF Tidy
<1>3. torn \subseteq torn' /\ torn' \subseteq Files
  BY <1>1 DEF LinesType
<1>4. \A q \in Procs \ {p} : pc[q] = "export" /\ job[q].file = f => f \in torn'
  BY <1>1 DEF Halfway, At
<1>5. job'[p].file = f
  BY <1>1
<1> HIDE DEF f
<1>6. LinesType' /\ Blocks'
  BY <1>1, <1>2, <1>3 DEF LinesType, Blocks
<1>7. HeldLines'
  BY <1>1, <1>3 DEF HeldLines, Moved
<1>8. RcLines'
  <2>1. \A g \in Files : g = f => Emptied(g)'
    BY <1>1 DEF Emptied, At, f
  <2>2. \A g \in Files : Emptied(g) => Emptied(g)'
    BY <1>1, StillEmptied
  <2> QED BY <1>1, <1>3, <2>1, <2>2 DEF RcLines, LinesType
<1>9. HalfBlocks'
  <2>1. ASSUME NEW q \in Procs \ {p}, NEW g \in Files \ torn', pc[q] = "export", job[q].file = g
        PROVE  rc'[g] = rc[g] /\ job'[p].file # g
    <3>1. g # f
      BY <1>4, <2>1
    <3> QED BY <1>1, <1>5, <2>1, <3>1 DEF LinesType
  <2> QED BY <1>1, <1>3, <2>1, HalfFrame
<1> QED BY <1>6, <1>7, <1>8, <1>9 DEF Shell

\* What is held is written: the user's lines, unless the file was torn.
LEMMA ShellWrite ==
  ASSUME Shell, Flow, NEW p \in Procs, Moved(p), WriteRC(p)
  PROVE  Shell'
<1> DEFINE f == job[p].file
<1>1. /\ LinesType /\ Blocks /\ HeldLines /\ RcLines /\ HalfBlocks
      /\ pc[p] = "write" /\ pc'[p] = "clean"
      /\ f \in Files /\ job' = job /\ own' = own /\ UNCHANGED <<left, torn>>
      /\ rc' = [rc EXCEPT ![f] = held[p]] /\ held' = [held EXCEPT ![p] = <<>>]
  BY DEF Shell, WriteRC, Proceed, Goto, At, Moved, Flow, FlowType, Roles, Role
<1>2. <<>> \in Seq(Line)
  OBVIOUS
<1>3. held[p] \in Seq(Line) /\ (f \notin torn => Tidy(held[p]) /\ Outside(held[p]) = own[f])
  BY <1>1 DEF LinesType, HeldLines
<1>4. \A g \in Files \ {f} : Emptied(g) => Emptied(g)'
  BY <1>1, StillEmptied
<1>8. ASSUME NEW q \in Procs \ {p}, NEW g \in Files \ torn', pc[q] = "export", job[q].file = g
      PROVE  rc'[g] = rc[g]
  <2>1. g # f
    BY <1>1, <1>8 DEF HalfBlocks, Emptied, At
  <2> QED BY <1>1, <1>8, <2>1 DEF LinesType
<1>9. HalfBlocks'
  BY <1>1, <1>8, HalfFrame
<1> HIDE DEF f
<1>5. LinesType' /\ Blocks'
  BY <1>1, <1>2, <1>3 DEF LinesType, Blocks
<1>6. HeldLines'
  BY <1>1 DEF HeldLines, LinesType, Moved
<1>7. RcLines'
  BY <1>1, <1>3, <1>4 DEF RcLines, LinesType
<1> QED BY <1>5, <1>6, <1>7, <1>9 DEF Shell

\* A process killed while it writes leaves the file torn.
LEMMA ShellKill ==
  ASSUME Shell, Flow, NEW p \in Procs, Moved(p), pc'[p] = "idle", Kill(p)
  PROVE  Shell'
<1> DEFINE f == job[p].file
<1>1. /\ LinesType /\ Blocks /\ HeldLines /\ RcLines /\ HalfBlocks
      /\ own' = own /\ rc' = rc
      /\ left' = [left EXCEPT ![p] = {}] /\ held' = [held EXCEPT ![p] = <<>>]
      /\ torn' = IF pc[p] = "write" THEN torn \cup {f} ELSE torn
  BY DEF Shell, Kill, TornIf, At
<1>2. <<>> \in Seq(Line)
  OBVIOUS
<1>3. pc[p] = "write" => f \in Files
  BY DEF Flow, Roles, Role
<1>4. torn \subseteq torn' /\ torn' \subseteq Files
  BY <1>1, <1>3 DEF LinesType
<1>5. \A g \in Files \ torn' : Emptied(g) => Emptied(g)'
  BY <1>1, StillEmptied
<1> HIDE DEF f
<1>6. LinesType' /\ Blocks'
  BY <1>1, <1>2, <1>4 DEF LinesType, Blocks
<1>7. HeldLines'
  BY <1>1, <1>4 DEF HeldLines, LinesType, Moved
<1>8. RcLines'
  BY <1>1, <1>4, <1>5 DEF RcLines, LinesType
<1>9. HalfBlocks'
  BY <1>1, <1>4, HalfFrame
<1> QED BY <1>6, <1>7, <1>8, <1>9 DEF Shell

\* Every step of a command keeps what is known of the start-up files.
LEMMA ShellStep ==
  ASSUME ConstantsAssumption, Shell, Flow, SavedType, NEW p \in Procs, Moved(p), Step(p)
  PROVE  Shell'
<1>1. FlowType /\ LinesType /\ \A step : Goto(p, step) => pc'[p] = step
  BY DEF Flow, FlowType, Shell, Goto
<1>2. \A step : Proceed(p, step) => pc'[p] = step
  BY <1>1 DEF Proceed
<1>3. Return(p) => pc'[p] = "idle"
  BY <1>1 DEF Return
<1>4. CASE Starts(p)
  <2>1. PICK j \in Job, step \in Steps :
          /\ Begin(p, j, step) /\ Role(step, j) /\ step \notin Erases \cup {"idle", "export", "images", "wipeConfig"}
    BY <1>1, <1>4, Begins
  <2>2. pc[p] = "idle" /\ pc'[p] = step /\ UNCHANGED rcVars
    BY <2>1, BeginMoves DEF Begin
  <2> QED BY <1>1, <2>1, <2>2, ShellQuiet DEF rcVars, Erases, LinesType
<1>5. CASE \/ InstallBinary(p) \/ CountInstances(p) \/ CountSnapshots(p) \/ Confirm(p)
           \/ RemoveConfig(p) \/ RemoveDb(p)
  <2>1. /\ UNCHANGED <<rc, held, torn, left>> /\ pc[p] \notin {"truncate", "write"}
        /\ pc'[p] \notin {"truncate", "write", "export"}
    BY <1>2, <1>3, <1>5
    DEF InstallBinary, CountInstances, CountSnapshots, Counted, Confirm, RemoveConfig, RemoveDb,
        At, rcVars
  <2> QED BY <1>1, <2>1, ShellQuiet DEF LinesType
<1>6. CASE RemoveDataDir(p)
  <2>1. /\ UNCHANGED <<rc, held, torn>> /\ pc[p] \notin {"truncate", "write"}
        /\ pc'[p] \notin {"truncate", "write", "export"}
        /\ left' = [left EXCEPT ![p] = Files] \/ left' = left
    BY <1>2, <1>3, <1>6 DEF RemoveDataDir, At, shellRCFiles
  <2>2. left' \in [Procs -> SUBSET Files]
    BY <1>1, <2>1 DEF LinesType
  <2> QED BY <1>1, <2>1, <2>2, ShellQuiet DEF LinesType
<1>7. CASE RemoveBinary(p) \/ Save(p) \/ RenameConfig(p) \/ Insert(p) \/ Drop(p)
  <2>1. /\ UNCHANGED <<rc, held, torn, left>> /\ pc[p] \notin {"truncate", "write"}
        /\ pc'[p] \notin {"truncate", "write", "export"}
    BY <1>2, <1>3, <1>7 DEF RemoveBinary, Save, RenameConfig, Insert, Drop, At, rcVars
  <2> QED BY <1>1, <2>1, ShellQuiet DEF LinesType
<1>8. CASE ConfigurePath(p)
  <2> DEFINE f == job[p].file
  <2>1. /\ f \in Files /\ UNCHANGED <<rc, held, left>> /\ pc[p] = "path" /\ pc'[p] \in {"idle",
                                                                                        "marker"}
        /\ torn' = IF Emptied(f) THEN torn \cup {f} ELSE torn
    BY <1>2, <1>3, <1>8 DEF ConfigurePath, TornIf, At, Flow, Roles, Role
  <2> HIDE DEF f
  <2>2. torn \subseteq torn' /\ torn' \subseteq Files
    BY <1>1, <2>1 DEF LinesType
  <2> QED BY <1>1, <2>1, <2>2, ShellQuiet DEF LinesType
<1>13. CASE AppendMarker(p)
  BY <1>13, ShellMarker
<1>14. CASE AppendExport(p)
  BY <1>3, <1>14, ShellExport DEF AppendExport
<1>9. CASE cleanShellRCFile(p)
  BY <1>9, ShellClean
<1>10. CASE TruncateRC(p)
  BY <1>10, ShellTruncate
<1>11. CASE WriteRC(p)
  BY <1>11, ShellWrite
<1>12. CASE Kill(p)
  BY <1>3, <1>12, ShellKill DEF Kill
<1> QED
  BY <1>4, <1>5, <1>6, <1>7, <1>8, <1>9, <1>10, <1>11, <1>12, <1>13, <1>14 DEF Step, Starts

-----------------------------------------------------------------------------
(* The database.                                                                         *)

\* A step that leaves the rows: what holds of the process's new step is all there is to show.
LEMMA RecordsFrame ==
  ASSUME Records, NEW p \in Procs, Moved(p), UNCHANGED dbVars,
         pc'[p] \notin {"insert", "drop"},
         pc'[p] = "images" => made \cap Boxes \subseteq crossed,
         pc'[p] \in {"ask", "wipeConfig", "wipeDb"} => made \subseteq crossed,
         pc'[p] \in {"boxes", "images"} /\ p \in stale => made \subseteq crossed
  PROVE  Records'
<1>1. db' = db /\ stale' = stale /\ made' = made /\ crossed' = crossed
  BY DEF dbVars
<1>2. RowsType' /\ Handles'
  BY <1>1 DEF Records, RowsType, Handles, Moved
<1>3. CountedRows'
  BY <1>1 DEF Records, CountedRows, Moved
<1>4. RecordsKept'
  BY <1>1 DEF Records, RecordsKept, TableRows
<1> QED BY <1>2, <1>3, <1>4 DEF Records

\* An uninstall that begins while none counts or asks finds the rows of the database in it.
LEMMA RecordsUninstall ==
  ASSUME Records, FlowType, NEW p \in Procs, Moved(p), UninstallBegin(p)
  PROVE  Records'
<1>1. /\ pc'[p] = IF db = NoDb THEN "ask" ELSE "boxes"
      /\ stale' = stale \ {p} /\ db' = db /\ made' = made
      /\ crossed' = IF Uninstalling THEN crossed ELSE crossed \ TableRows
  BY DEF UninstallBegin, Begin, Goto, FlowType
<1>2. RowsType /\ Handles /\ CountedRows /\ RecordsKept
  BY DEF Records
<1>3. RowsType'
  BY <1>1, <1>2 DEF RowsType
<1>4. Handles'
  BY <1>1, <1>2 DEF Handles, Moved
<1>5. RecordsKept'
  BY <1>1, <1>2 DEF RecordsKept, TableRows
<1>6. ASSUME NEW q \in Procs
      PROVE  /\ pc'[q] = "images" => made' \cap Boxes \subseteq crossed'
             /\ pc'[q] \in {"ask", "wipeConfig", "wipeDb"} => made' \subseteq crossed'
             /\ pc'[q] \in {"boxes", "images"} /\ q \in stale' => made' \subseteq crossed'
  <2>1. CASE q = p
    <3>1. db = NoDb => made \subseteq crossed /\ crossed' = crossed
      BY <1>1, <1>2 DEF RecordsKept, TableRows
    <3> QED BY <1>1, <2>1, <3>1
  <2>2. CASE q # p /\ pc[q] \in {"boxes", "images", "ask", "wipeConfig", "wipeDb"}
    <3>1. crossed' = crossed
      BY <1>1, <2>2 DEF Uninstalling
    <3> QED BY <1>1, <1>2, <2>2, <3>1 DEF CountedRows, Moved
  <2>3. CASE q # p /\ pc[q] \notin {"boxes", "images", "ask", "wipeConfig", "wipeDb"}
    BY <2>3 DEF Moved
  <2> QED BY <2>1, <2>2, <2>3
<1>7. CountedRows'
  BY <1>6 DEF CountedRows
<1> QED BY <1>3, <1>4, <1>5, <1>7 DEF Records

\* A command that opens the database finds a file, or makes one.
LEMMA RecordsOpen ==
  ASSUME ConstantsAssumption, Records, FlowType, NEW p \in Procs, Moved(p),
         Create(p) \/ Delete(p)
  PROVE  Records'
<1>1. /\ pc'[p] \in {"insert", "drop"}
      /\ stale' = stale \ {p} /\ made' = made /\ crossed' = crossed
      /\ db' = IF db = NoDb THEN {} ELSE db
  BY DEF Create, Delete, Open, Begin, Goto, FlowType
<1>2. RowsType /\ Handles /\ CountedRows /\ RecordsKept
  BY DEF Records
<1>3. db' \subseteq Rows /\ db' # NoDb
  <2>1. \A S \in SUBSET Rows : NoDb # S
    BY DEF ConstantsAssumption
  <2> QED BY <1>1, <1>2, <2>1 DEF RowsType
<1>4. TableRows' = TableRows
  BY <1>1, <1>3 DEF TableRows
<1>5. RowsType' /\ Handles'
  BY <1>1, <1>2, <1>3 DEF RowsType, Handles
<1>6. CountedRows'
  BY <1>1, <1>2 DEF CountedRows, Moved
<1>7. RecordsKept'
  BY <1>1, <1>2, <1>4 DEF RecordsKept
<1> QED BY <1>5, <1>6, <1>7 DEF Records

\* The database goes once its rows are all known to have crossed the count.
LEMMA RecordsRemove ==
  ASSUME Records, FlowType, NEW p \in Procs, Moved(p), RemoveDb(p)
  PROVE  Records'
<1>1. /\ pc[p] = "wipeDb" /\ pc'[p] = "rmdir" /\ db' = NoDb /\ made' = made /\ crossed' = crossed
      /\ stale' = {q \in Procs : pc[q] \in {"boxes", "images", "insert", "drop"}}
  BY DEF RemoveDb, At, Proceed, Goto, FlowType
<1>2. RowsType /\ Handles /\ CountedRows /\ RecordsKept
  BY DEF Records
<1>3. made \subseteq crossed
  BY <1>1, <1>2 DEF CountedRows
<1>4. RowsType' /\ RecordsKept'
  BY <1>1, <1>2, <1>3 DEF RowsType, RecordsKept, TableRows
<1>5. Handles' /\ CountedRows'
  BY <1>1, <1>2, <1>3 DEF Handles, CountedRows, Moved
<1> QED BY <1>4, <1>5 DEF Records

\* A row inserted is in the database, or has crossed an uninstall.
LEMMA RecordsInsert ==
  ASSUME ConstantsAssumption, Records, FlowType, NEW p \in Procs, Moved(p), Insert(p)
  PROVE  Records'
<1>1. pc[p] = "insert" /\ pc'[p] = "idle" /\ stale' = stale
  BY DEF Insert, At, Return, Goto, FlowType
<1>2. PICK r \in Rows \ (made \cup crossed) :
        /\ db' = IF p \in stale THEN db ELSE db \cup {r}
        /\ made' = made \cup {r}
        /\ crossed' = IF p \in stale \/ Uninstalling THEN crossed \cup {r} ELSE crossed
  BY DEF Insert
<1>3. RowsType /\ Handles /\ CountedRows /\ RecordsKept
  BY DEF Records
<1>4. \A S \in SUBSET Rows : NoDb # S
  BY DEF ConstantsAssumption
<1>5. p \notin stale => db # NoDb /\ db \subseteq Rows /\ db' # NoDb /\ db' \subseteq Rows
  BY <1>1, <1>2, <1>3, <1>4 DEF Handles, RowsType
<1>6. RowsType'
  BY <1>1, <1>2, <1>3, <1>5 DEF RowsType
<1>7. Handles'
  BY <1>1, <1>2, <1>3, <1>5 DEF Handles, Moved
<1>8. RecordsKept'
  BY <1>2, <1>3, <1>5 DEF RecordsKept, TableRows
<1>9. ASSUME NEW q \in Procs
      PROVE  /\ pc'[q] = "images" => made' \cap Boxes \subseteq crossed'
             /\ pc'[q] \in {"ask", "wipeConfig", "wipeDb"} => made' \subseteq crossed'
             /\ pc'[q] \in {"boxes", "images"} /\ q \in stale' => made' \subseteq crossed'
  <2>1. CASE q = p
    BY <1>1, <2>1
  <2>2. CASE q # p /\ pc[q] \in {"boxes", "images", "ask", "wipeConfig", "wipeDb"}
    <3>1. crossed' = crossed \cup {r}
      BY <1>2, <2>2 DEF Uninstalling
    <3> QED BY <1>1, <1>2, <1>3, <2>2, <3>1 DEF CountedRows, Moved
  <2>3. CASE q # p /\ pc[q] \notin {"boxes", "images", "ask", "wipeConfig", "wipeDb"}
    BY <2>3 DEF Moved
  <2> QED BY <2>1, <2>2, <2>3
<1>10. CountedRows'
  BY <1>9 DEF CountedRows
<1> QED BY <1>6, <1>7, <1>8, <1>10 DEF Records

\* The delete of a box removes a row, beside a count too.
LEMMA RecordsDrop ==
  ASSUME ConstantsAssumption, Records, FlowType, NEW p \in Procs, Moved(p), Drop(p)
  PROVE  Records'
<1>1. /\ pc[p] = "drop" /\ pc'[p] = "idle" /\ stale' = stale /\ crossed' = crossed
  BY DEF Drop, At, Return, Goto, FlowType
<1>2. \/ UNCHANGED <<db, made>>
      \/ p \notin stale /\ \E r \in db : db' = db \ {r} /\ made' = made \ {r}
  BY DEF Drop
<1>3. RowsType /\ Handles /\ CountedRows /\ RecordsKept
  BY DEF Records
<1>4. CASE UNCHANGED <<db, made>>
  BY <1>1, <1>4, RecordsFrame DEF dbVars
<1>5. CASE p \notin stale /\ \E r \in db : db' = db \ {r} /\ made' = made \ {r}
  <2>1. PICK r \in db : db' = db \ {r} /\ made' = made \ {r}
    BY <1>5
  <2>2. \A S \in SUBSET Rows : NoDb # S
    BY DEF ConstantsAssumption
  <2>3. db # NoDb /\ db \subseteq Rows /\ db' # NoDb /\ db' \subseteq Rows
    BY <1>1, <1>3, <1>5, <2>1, <2>2 DEF Handles, RowsType
  <2>4. RowsType' /\ Handles'
    BY <1>1, <1>3, <2>1, <2>3 DEF RowsType, Handles
  <2>5. CountedRows'
    BY <1>1, <1>3, <2>1 DEF CountedRows, Moved
  <2>6. RecordsKept'
    BY <1>1, <1>3, <2>1, <2>3 DEF RecordsKept, TableRows
  <2> QED BY <2>4, <2>5, <2>6 DEF Records
<1> QED BY <1>2, <1>4, <1>5

\* Every step of a command keeps what is known of the count.
LEMMA RecordsStep ==
  ASSUME ConstantsAssumption, Records, Flow, SavedType, NEW p \in Procs, Moved(p), Step(p)
  PROVE  Records'
<1>1. FlowType /\ \A step : Goto(p, step) => pc'[p] = step
  BY DEF Flow, FlowType, Goto
<1>2. \A step : Proceed(p, step) => pc'[p] = step
  BY <1>1 DEF Proceed
<1>3. Return(p) => pc'[p] = "idle"
  BY <1>1 DEF Return
<1>4. RowsType /\ CountedRows /\ RecordsKept
  BY DEF Records
<1>5. CASE InstallBegin(p) \/ Update(p) \/ Setup(p) \/ ClearCreds(p)
  <2>1. UNCHANGED dbVars /\ pc'[p] \in {"install", "save"}
    BY <1>1, <1>5 DEF InstallBegin, Update, Setup, ClearCreds, Begin
  <2> QED BY <2>1, RecordsFrame
<1>6. CASE UninstallBegin(p)
  BY <1>1, <1>6, RecordsUninstall
<1>7. CASE Create(p) \/ Delete(p)
  BY <1>1, <1>7, RecordsOpen
<1>8. CASE CountInstances(p)
  <2>1. /\ pc[p] = "boxes" /\ UNCHANGED dbVars
        /\ \/ pc'[p] = "idle"
           \/ (TableRows \cap Boxes = {} \/ p \in stale) /\ pc'[p] = "images"
    BY <1>2, <1>3, <1>8 DEF CountInstances, Counted, At
  <2>2. pc'[p] = "images" => made \cap Boxes \subseteq crossed
    BY <1>4, <2>1 DEF CountedRows, RecordsKept
  <2>3. p \in stale => made \subseteq crossed
    BY <1>4, <2>1 DEF CountedRows
  <2> QED BY <2>1, <2>2, <2>3, RecordsFrame
<1>9. CASE CountSnapshots(p)
  <2>1. /\ pc[p] = "images" /\ UNCHANGED dbVars
        /\ \/ pc'[p] = "idle"
           \/ (TableRows \cap Images = {} \/ p \in stale) /\ pc'[p] = "ask"
    BY <1>2, <1>3, <1>9 DEF CountSnapshots, Counted, At
  <2>2. made \cap Boxes \subseteq crossed /\ (p \in stale => made \subseteq crossed)
    BY <1>4, <2>1 DEF CountedRows
  <2>3. pc'[p] = "ask" => made \subseteq crossed
    BY <1>4, <2>1, <2>2 DEF RecordsKept, RowsType, Rows
  <2> QED BY <2>1, <2>3, RecordsFrame
<1>10. CASE Confirm(p)
  <2>1. pc[p] = "ask" /\ UNCHANGED dbVars /\ pc'[p] \in {"wipeConfig", "idle"}
    BY <1>2, <1>3, <1>10 DEF Confirm, At
  <2>2. made \subseteq crossed
    BY <1>4, <2>1 DEF CountedRows
  <2> QED BY <2>1, <2>2, RecordsFrame
<1>11. CASE RemoveConfig(p)
  <2>1. pc[p] = "wipeConfig" /\ UNCHANGED dbVars /\ pc'[p] = "wipeDb"
    BY <1>2, <1>11 DEF RemoveConfig, At
  <2>2. made \subseteq crossed
    BY <1>4, <2>1 DEF CountedRows
  <2> QED BY <2>1, <2>2, RecordsFrame
<1>12. CASE RemoveDb(p)
  BY <1>1, <1>12, RecordsRemove
<1>13. CASE \/ InstallBinary(p) \/ ConfigurePath(p) \/ AppendMarker(p) \/ AppendExport(p)
            \/ RemoveDataDir(p) \/ TruncateRC(p) \/ WriteRC(p)
            \/ RemoveBinary(p) \/ Save(p) \/ RenameConfig(p) \/ Kill(p)
  <2>1. UNCHANGED dbVars /\ pc'[p] \in {"path", "marker", "export", "idle", "clean", "write",
                                        "rename"}
    BY <1>2, <1>3, <1>13
    DEF InstallBinary, ConfigurePath, AppendMarker, AppendExport, RemoveDataDir, TruncateRC,
        WriteRC, RemoveBinary, Save,
        RenameConfig, Kill
  <2> QED BY <2>1, RecordsFrame
<1>14. CASE cleanShellRCFile(p)
  <2>1. UNCHANGED dbVars /\ pc[p] = "clean" /\ (pc' = pc \/ Goto(p, "truncate"))
    BY <1>14, Zenon DEF cleanShellRCFile, At
  <2>2. pc'[p] \in {"clean", "truncate"}
    BY <1>1, <2>1
  <2> QED BY <2>1, <2>2, RecordsFrame
<1>15. CASE Insert(p)
  BY <1>1, <1>15, RecordsInsert
<1>16. CASE Drop(p)
  BY <1>1, <1>16, RecordsDrop
<1> QED
  BY <1>5, <1>6, <1>7, <1>8, <1>9, <1>10, <1>11, <1>12, <1>13, <1>14, <1>15, <1>16 DEF Step

-----------------------------------------------------------------------------
(* The credentials, and what an uninstall has removed.                                   *)

\* A step that leaves the saved credentials.
LEMMA SavedFrame ==
  ASSUME Saved, NEW p \in Procs, Moved(p), UNCHANGED <<config, promised>>,
         exe' \subseteq Dirs, temp' \subseteq Procs,
         pc'[p] \in {"save",
                     "rename"} /\ job'[p].kept /\ p \notin overlap' => job'[p].key = promised
  PROVE  Saved'
<1>1. SavedType /\ CredentialsAsPromised /\ KeptKey
  BY DEF Saved
<1>2. SavedType' /\ CredentialsAsPromised'
  BY <1>1 DEF SavedType, CredentialsAsPromised
<1>3. KeptKey'
  BY <1>1 DEF KeptKey, Moved
<1> QED BY <1>2, <1>3 DEF Saved

\* While a process saves alone, nobody else is at the configuration.
LEMMA SavesAlone ==
  ASSUME Flow, NEW p \in Procs, NEW q \in Procs \ {p}, q \notin overlap,
         pc[q] \in {"save", "rename"}
  PROVE  pc[p] \notin Uninstalls \cup {"save", "rename"}
<1>1. job[q].cmd \in {"setup", "clear"} /\ Role(pc[p], job[p])
  BY DEF Flow, Roles, Role
<1>2. Writes(job[p].cmd) \cap Writes(job[q].cmd) = {}
  BY DEF Flow, Alone
<1>3. "config" \notin Writes(job[p].cmd)
  BY <1>1, <1>2, WritesFacts
<1>4. job[p].cmd \notin {"setup", "clear", "uninstall"}
  BY <1>3, WritesFacts
<1> QED BY <1>1, <1>4 DEF Role

\* Uninstall removes the credentials, and what was promised of them with them.
LEMMA SavedRemove ==
  ASSUME ConstantsAssumption, Saved, Flow, NEW p \in Procs, Moved(p), RemoveConfig(p)
  PROVE  Saved'
<1>1. /\ pc[p] \in Uninstalls /\ pc'[p] = "wipeDb" /\ overlap' = overlap /\ exe' = exe
      /\ config' = NoConfig /\ temp' = {} /\ promised' = Blank
  BY DEF RemoveConfig, At, Proceed, Goto, Counts, Flow, FlowType, Uninstalls, Erases
<1>2. SavedType' /\ CredentialsAsPromised'
  BY <1>1 DEF Saved, SavedType, CredentialsAsPromised
<1>3. KeptKey'
  BY <1>1, SavesAlone DEF KeptKey, Moved
<1> QED BY <1>2, <1>3 DEF Saved

\* The file that is renamed has what the user may count on.
LEMMA SavedRename ==
  ASSUME ConstantsAssumption, Saved, Flow, NEW p \in Procs, Moved(p), RenameConfig(p)
  PROVE  Saved'
<1>1. /\ pc[p] = "rename" /\ pc'[p] = "idle" /\ overlap' = overlap /\ exe' = exe
      /\ job[p].cmd \in {"setup", "clear"} /\ job[p].key \in Keys \cup {Blank}
      /\ job[p].cmd = "clear" => job[p].key = Blank
      /\ NoConfig \notin Keys \cup {Blank}
  BY DEF RenameConfig, At, Return, Goto, Counts, Flow, FlowType, Roles, Role, Job,
         ConstantsAssumption
<1>2. SavedType /\ CredentialsAsPromised /\ KeptKey
  BY DEF Saved
<1>3. CASE p \in temp
  <2>1. config' = job[p].key /\ temp' = temp \ {p} /\ promised' = Promise(p)
    BY <1>3 DEF RenameConfig
  <2>2. Promise(p) = job[p].key
    BY <1>1, <1>2 DEF Promise, KeptKey
  <2>3. SavedType' /\ CredentialsAsPromised'
    BY <1>1, <1>2, <2>1, <2>2 DEF SavedType, CredentialsAsPromised
  <2>4. KeptKey'
    BY <1>1, SavesAlone DEF KeptKey, Moved
  <2> QED BY <2>3, <2>4 DEF Saved
<1>4. CASE p \notin temp
  <2>1. UNCHANGED <<config, temp, promised>>
    BY <1>4 DEF RenameConfig, configVars
  <2> QED BY <1>1, <1>2, <2>1, SavedFrame DEF SavedType
<1> QED BY <1>3, <1>4

\* Every step of a command keeps what is known of the credentials.
LEMMA SavedStep ==
  ASSUME ConstantsAssumption, Saved, Flow, NEW p \in Procs, Moved(p), Step(p)
  PROVE  Saved'
<1>1. FlowType /\ SavedType /\ \A step : Goto(p, step) => pc'[p] = step
  BY DEF Flow, FlowType, Saved, Goto
<1>2. \A step : Proceed(p, step) => pc'[p] = step
  BY <1>1 DEF Proceed
<1>3. Return(p) => pc'[p] = "idle"
  BY <1>1 DEF Return
<1>4. CASE Starts(p)
  <2>1. PICK j \in Job, step \in Steps :
          /\ Begin(p, j, step) /\ Role(step, j)
          /\ step \in {"save", "rename"} /\ j.kept => j.key = Load /\ Load # Blank
    BY <1>1, <1>4, Begins
  <2>2. pc'[p] = step /\ job'[p] = j /\ UNCHANGED <<exe, configVars>>
    BY <2>1, BeginMoves DEF Begin
  <2>3. Load # Blank => Load = promised
    BY DEF Saved, CredentialsAsPromised, Load
  <2> QED BY <1>1, <2>1, <2>2, <2>3, SavedFrame DEF SavedType, configVars
<1>5. CASE InstallBinary(p)
  <2>1. job[p].dir \in Dirs
    BY <1>5 DEF InstallBinary, At, Flow, Roles, Role
  <2>2. exe' \subseteq Dirs /\ UNCHANGED configVars /\ pc'[p] \in {"idle", "path"}
    BY <1>1, <1>2, <1>3, <1>5, <2>1 DEF InstallBinary, SavedType
  <2> QED BY <1>1, <2>2, SavedFrame DEF SavedType, configVars
<1>6. CASE \/ ConfigurePath(p) \/ AppendMarker(p) \/ AppendExport(p) \/ CountInstances(p)
           \/ CountSnapshots(p) \/ Confirm(p) \/ RemoveDb(p)
           \/ RemoveDataDir(p) \/ TruncateRC(p) \/ WriteRC(p)
  <2>1. /\ UNCHANGED <<exe, configVars>>
        /\ pc'[p] \in {"idle", "marker", "export", "images", "ask", "wipeConfig", "rmdir",
                       "clean", "write"}
    BY <1>2, <1>3, <1>6
    DEF ConfigurePath, AppendMarker, AppendExport, CountInstances, CountSnapshots, Counted,
        Confirm, RemoveDb, RemoveDataDir,
        TruncateRC, WriteRC
  <2> QED BY <1>1, <2>1, SavedFrame DEF SavedType, configVars
<1>7. CASE RemoveConfig(p)
  BY <1>7, SavedRemove
<1>8. CASE cleanShellRCFile(p)
  <2>1. UNCHANGED <<exe, configVars>> /\ pc[p] = "clean" /\ (pc' = pc \/ Goto(p, "truncate"))
    BY <1>8, Zenon DEF cleanShellRCFile, At
  <2>2. pc'[p] \in {"clean", "truncate"}
    BY <1>1, <2>1
  <2> QED BY <1>1, <2>1, <2>2, SavedFrame DEF SavedType, configVars
<1>9. CASE RemoveBinary(p) \/ Insert(p) \/ Drop(p) \/ Kill(p)
  <2>1. exe' \subseteq Dirs /\ UNCHANGED configVars /\ pc'[p] = "idle"
    BY <1>1, <1>3, <1>9 DEF RemoveBinary, Insert, Drop, Kill, SavedType
  <2> QED BY <1>1, <2>1, SavedFrame DEF SavedType, configVars
<1>10. CASE Save(p)
  <2>1. /\ pc[p] = "save" /\ pc'[p] = "rename" /\ job' = job /\ overlap' = overlap
        /\ UNCHANGED <<exe, config, promised>> /\ temp' = temp \cup {p}
    BY <1>2, <1>10 DEF Save, At, Proceed, Counts
  <2>2. p \notin overlap /\ job[p].kept => job[p].key = promised
    BY <2>1 DEF Saved, KeptKey
  <2>3. exe' \subseteq Dirs /\ temp' \subseteq Procs
    BY <1>1, <2>1 DEF SavedType
  <2> QED BY <2>1, <2>2, <2>3, SavedFrame
<1>11. CASE RenameConfig(p)
  BY <1>11, SavedRename
<1> QED
  BY <1>4, <1>5, <1>6, <1>7, <1>8, <1>9, <1>10, <1>11 DEF Step, Starts

\* What is alone with an uninstall does nothing, and what starts beside it is noticed.
LEMMA Undisturbed ==
  ASSUME Flow, SavedType, NEW p \in Procs, NEW q \in Procs \ {p}, Step(p),
         q \notin overlap, q \notin overlap'
  PROVE  pc[q] \notin Uninstalls
<1> SUFFICES ASSUME pc[q] \in Uninstalls PROVE FALSE
  OBVIOUS
<1>1. FlowType /\ job[q].cmd = "uninstall" /\ Role(pc[p], job[p])
  BY DEF Flow, Roles, Role
<1>2. Writes(job[p].cmd) \cap Writes("uninstall") = {}
  BY <1>1 DEF Flow, Alone
<1>3. job[p].cmd \in Commands
  BY <1>1 DEF FlowType, Job, Commands
<1>4. job[p].cmd = "none"
  BY <1>2, <1>3, WritesFacts
<1>5. pc[p] = "idle"
  BY <1>1, <1>4 DEF Role
<1>6. Starts(p)
  BY <1>5
  DEF Step, Starts, InstallBinary, ConfigurePath, AppendMarker, AppendExport, CountInstances,
      CountSnapshots, Confirm,
      RemoveConfig, RemoveDb, RemoveDataDir, cleanShellRCFile, TruncateRC, WriteRC, RemoveBinary,
      Save, RenameConfig, Insert, Drop, Kill, At
<1>7. PICK j \in Job, step \in Steps : Begin(p, j, step) /\ j.cmd \in Commands \ {"none"}
  BY <1>1, <1>6, Begins
<1>8. Writes(job[q].cmd) \cap Writes(j.cmd) # {}
  BY <1>1, <1>7, WritesFacts
<1>9. q \in overlap'
  BY <1>7, <1>8 DEF Begin, Overlapping
<1> QED BY <1>9

\* An uninstall beside which nothing ran finds removed what it has removed.
LEMMA GoneStep ==
  ASSUME ConstantsAssumption, Wiped, Flow, Shell, SavedType, NEW p \in Procs, Step(p),
         p \notin overlap'
  PROVE  Gone(p)'
<1>1. /\ FlowType /\ LinesType /\ Blocks
      /\ \A step : Goto(p, step) => pc'[p] = step
      /\ HeldLines
  BY DEF Flow, FlowType, Shell, Goto
<1>2. \A step : Proceed(p, step) => pc'[p] = step /\ job' = job
  BY <1>1 DEF Proceed
<1>3. Return(p) => pc'[p] = "idle"
  BY <1>1 DEF Return
<1>4. pc'[p] \notin Erases => Gone(p)'
  BY DEF Gone, Erases
<1>5. p \notin overlap => Gone(p)
  BY DEF Wiped
<1>6. CASE Starts(p)
  <2>1. PICK j \in Job, step \in Steps :
          /\ Begin(p, j, step) /\ Role(step, j) /\ step \notin Erases \cup {"idle", "export", "images", "wipeConfig"}
    BY <1>1, <1>6, Begins
  <2>2. pc'[p] = step
    BY <2>1, BeginMoves
  <2> QED BY <1>4, <2>1, <2>2
<1>7. CASE \/ InstallBinary(p) \/ ConfigurePath(p) \/ AppendMarker(p) \/ AppendExport(p)
           \/ CountInstances(p) \/ CountSnapshots(p) \/ Confirm(p)
           \/ RemoveBinary(p) \/ Save(p) \/ RenameConfig(p) \/ Insert(p) \/ Drop(p) \/ Kill(p)
  <2>1. pc'[p] \in {"idle", "path", "marker", "export", "images", "ask", "wipeConfig", "rename"}
    BY <1>2, <1>3, <1>7
    DEF InstallBinary, ConfigurePath, AppendMarker, AppendExport, CountInstances,
        CountSnapshots, Counted, Confirm,
        RemoveBinary, Save, RenameConfig, Insert, Drop, Kill
  <2> QED BY <1>4, <2>1 DEF Erases
<1>8. CASE RemoveConfig(p)
  <2>1. pc'[p] = "wipeDb" /\ config' = NoConfig /\ temp' = {}
    BY <1>2, <1>8 DEF RemoveConfig
  <2> QED BY <2>1 DEF Gone
<1>9. CASE RemoveDb(p) /\ p \notin overlap
  <2>1. pc[p] = "wipeDb" /\ pc'[p] = "rmdir" /\ db' = NoDb /\ UNCHANGED configVars
    BY <1>2, <1>9 DEF RemoveDb, At
  <2> QED BY <1>5, <1>9, <2>1 DEF Gone, Erases, configVars
<1>10. CASE RemoveDataDir(p)
  <2>1. CASE config = NoConfig /\ temp = {} /\ db = NoDb
    <3>1. /\ pc'[p] = "clean" /\ left' = [left EXCEPT ![p] = Files]
          /\ config' = config /\ temp' = temp /\ db' = db
      BY <1>2, <1>10, <2>1 DEF RemoveDataDir, shellRCFiles, configVars, dbVars
    <3>2. left'[p] = Files
      BY <1>1, <3>1 DEF LinesType
    <3> QED BY <2>1, <3>1, <3>2 DEF Gone
  <2>2. CASE ~(config = NoConfig /\ temp = {} /\ db = NoDb)
    BY <1>3, <1>4, <1>10, <2>2 DEF RemoveDataDir, Erases
  <2> QED BY <2>1, <2>2
<1>11. CASE cleanShellRCFile(p) /\ p \notin overlap
  <2>1. /\ pc[p] = "clean" /\ UNCHANGED <<rc, configVars, dbVars>>
        /\ config = NoConfig /\ temp = {} /\ db = NoDb
        /\ \A g \in Files \ (left[p] \cup torn) : NoBlock(rc[g], job[p].dir)
    BY <1>5, <1>11, Zenon DEF cleanShellRCFile, At, Gone, Erases
  <2>2. PICK f \in left[p] :
          LET cleaned == cleanShellRCContent(rc[f], job[p].dir) IN
          /\ left' = [left EXCEPT ![p] = @ \ {f}]
          /\ IF cleaned = rc[f] THEN UNCHANGED <<pc, job, held>>
             ELSE /\ held' = [held EXCEPT ![p] = cleaned]
                  /\ job' = [job EXCEPT ![p].file = f]
                  /\ Goto(p, "truncate")
          /\ torn' = IF Emptied(f) THEN torn \cup {f} ELSE torn
    BY <1>11, Zenon DEF cleanShellRCFile, TornIf
  <2> DEFINE cleaned == cleanShellRCContent(rc[f], job[p].dir)
             d == job[p].dir
  <2>3. f \in Files /\ rc[f] \in Seq(Line) /\ (f \notin torn => Tidy(rc[f])) /\ torn \subseteq torn'
    BY <1>1, <2>2 DEF LinesType, Blocks
  <2>4. f \notin torn' => NoBlock(cleaned, d)
    BY <2>3, Cleaning
  <2>5. left'[p] = left[p] \ {f}
    BY <1>1, <2>2 DEF LinesType
  <2>6. config' = NoConfig /\ temp' = {} /\ db' = NoDb /\ rc' = rc
    BY <2>1 DEF configVars, dbVars
  <2>7. CASE cleaned = rc[f]
    <3>1. pc' = pc /\ job' = job
      BY <2>2, <2>7
    <3>2. \A g \in Files \ (left'[p] \cup torn') : NoBlock(rc[g], d)
      BY <2>1, <2>3, <2>4, <2>5, <2>7
    <3> QED BY <2>1, <2>6, <3>1, <3>2 DEF Gone
  <2>8. CASE cleaned # rc[f]
    <3>1. /\ held' = [held EXCEPT ![p] = cleaned] /\ job' = [job EXCEPT ![p].file = f]
          /\ pc'[p] = "truncate"
      BY <1>1, <2>2, <2>8
    <3> HIDE DEF cleaned
    <3>2. held'[p] = cleaned /\ job'[p].file = f /\ job'[p].dir = d
      BY <1>1, <3>1 DEF LinesType, FlowType, Job
    <3>3. \A g \in Files \ (left'[p] \cup torn' \cup {f}) : NoBlock(rc[g], d)
      BY <2>1, <2>3, <2>5
    <3> QED BY <2>4, <2>6, <3>1, <3>2, <3>3 DEF Gone
  <2> QED BY <2>7, <2>8
<1>12. CASE TruncateRC(p) /\ p \notin overlap
  <2> DEFINE f == job[p].file
  <2>1. /\ pc[p] = "truncate" /\ pc'[p] = "write" /\ job' = job /\ left' = left /\ held' = held
        /\ rc' = [rc EXCEPT ![f] = <<>>] /\ config' = config /\ temp' = temp /\ db' = db
        /\ torn \subseteq torn'
    BY <1>2, <1>12 DEF TruncateRC, TornIf, At, configVars, dbVars
  <2>2. /\ config = NoConfig /\ temp = {} /\ db = NoDb
        /\ f \notin torn => NoBlock(held[p], job[p].dir)
        /\ \A g \in Files \ (left[p] \cup torn \cup {f}) : NoBlock(rc[g], job[p].dir)
    BY <1>5, <1>12, <2>1 DEF Gone, Erases
  <2>3. \A g \in Files \ {f} : rc'[g] = rc[g]
    BY <1>1, <2>1 DEF LinesType
  <2> HIDE DEF f
  <2>4. \A g \in Files \ (left'[p] \cup torn' \cup {f}) : NoBlock(rc'[g], job[p].dir)
    BY <2>1, <2>2, <2>3
  <2>5. f \notin torn' => NoBlock(held'[p], job[p].dir)
    BY <2>1, <2>2
  <2> QED BY <2>1, <2>2, <2>4, <2>5 DEF Gone, f
<1>13. CASE WriteRC(p) /\ p \notin overlap
  <2> DEFINE f == job[p].file
  <2>1. /\ pc[p] = "write" /\ pc'[p] = "clean" /\ job' = job /\ left' = left /\ torn' = torn
        /\ rc' = [rc EXCEPT ![f] = held[p]] /\ config' = config /\ temp' = temp /\ db' = db
    BY <1>2, <1>13 DEF WriteRC, At, configVars, dbVars
  <2>2. /\ config = NoConfig /\ temp = {} /\ db = NoDb
        /\ f \notin torn => NoBlock(held[p], job[p].dir)
        /\ \A g \in Files \ (left[p] \cup torn \cup {f}) : NoBlock(rc[g], job[p].dir)
    BY <1>5, <1>13, <2>1 DEF Gone, Erases
  <2>3. \A g \in Files \ (left[p] \cup torn) : NoBlock(rc'[g], job[p].dir)
    BY <1>1, <2>1, <2>2 DEF LinesType
  <2> QED BY <2>1, <2>2, <2>3 DEF Gone
<1>14. RemoveDb(p) \/ cleanShellRCFile(p) \/ TruncateRC(p) \/ WriteRC(p) => overlap' = overlap
  BY Zenon DEF RemoveDb, cleanShellRCFile, TruncateRC, WriteRC, Counts
<1> QED
  BY <1>6, <1>7, <1>8, <1>9, <1>10, <1>11, <1>12, <1>13, <1>14 DEF Step, Starts

\* What is removed stays so: an uninstall beside which nothing runs takes every step itself.
LEMMA WipedStep ==
  ASSUME ConstantsAssumption, Wiped, Flow, Shell, SavedType, NEW p \in Procs, Moved(p), Step(p)
  PROVE  Wiped'
<1>1. p \notin overlap' => Gone(p)'
  BY GoneStep
<1>2. ASSUME NEW q \in Procs \ {p}, q \notin overlap' PROVE Gone(q)'
  <2>1. q \notin overlap /\ pc'[q] = pc[q]
    BY <1>2 DEF Moved
  <2>2. pc'[q] \notin Uninstalls
    BY <1>2, <2>1, Undisturbed
  <2> QED BY <2>2 DEF Gone, Uninstalls, Erases
<1> QED BY <1>1, <1>2 DEF Wiped

-----------------------------------------------------------------------------
(* The theorems.                                                                         *)

\* The invariant holds before the first command.
LEMMA InvInit == ConstantsAssumption /\ Init => IInv
<1> SUFFICES ASSUME ConstantsAssumption, Init PROVE IInv
  OBVIOUS
<1>1. Shell
  BY Initially
<1>2. /\ exe = {} /\ config = NoConfig /\ temp = {} /\ promised = Blank
      /\ db = NoDb /\ stale = {} /\ made = {} /\ crossed = {}
      /\ pc = [p \in Procs |-> "idle"] /\ job = [p \in Procs |-> NoJob]
      /\ overlap = {} /\ started = 0 /\ kills = 0
  BY DEF Init
<1>3. NoJob \in Job /\ Role("idle", NoJob) /\ NoJob.cmd = "none" /\ "idle" \in Steps
  BY DEF NoJob, Job, Role, Uninstalls, Erases, Steps
<1>4. FlowType /\ Roles
  BY <1>2, <1>3 DEF FlowType, Roles, ConstantsAssumption
<1>5. Alone
  BY <1>2, <1>3, WritesFacts DEF Alone
<1>6. Records
  BY <1>2 DEF Records, RowsType, Handles, CountedRows, RecordsKept
<1>7. Saved
  BY <1>2 DEF Saved, SavedType, CredentialsAsPromised, KeptKey
<1>8. Wiped
  BY <1>2 DEF Wiped, Gone, Erases
<1> QED BY <1>1, <1>4, <1>5, <1>6, <1>7, <1>8 DEF IInv, Flow

\* Every step keeps the invariant.
LEMMA InvStep == ConstantsAssumption /\ IInv /\ [Next]_vars => IInv'
<1> SUFFICES ASSUME ConstantsAssumption, IInv, [Next]_vars PROVE IInv'
  OBVIOUS
<1>1. ASSUME NEW p \in Procs, Step(p) PROVE IInv'
  <2>1. Flow /\ Shell /\ Records /\ Saved /\ Wiped /\ LinesType /\ SavedType
    BY DEF IInv, Shell, Saved
  <2>2. Flow' /\ Moved(p)
    BY <1>1, <2>1, FlowStep
  <2>3. Shell'
    BY <1>1, <2>1, <2>2, ShellStep
  <2>4. Records'
    BY <1>1, <2>1, <2>2, RecordsStep
  <2>5. Saved'
    BY <1>1, <2>1, <2>2, SavedStep
  <2>6. Wiped'
    BY <1>1, <2>1, <2>2, WipedStep
  <2> QED BY <2>2, <2>3, <2>4, <2>5, <2>6 DEF IInv
<1>2. CASE UNCHANGED vars
  <2>1. /\ UNCHANGED <<exe, rc, left, held, torn, config, temp, promised, db, stale, made, crossed>>
        /\ UNCHANGED <<pc, job, own, overlap, started, kills>>
    BY <1>2 DEF vars, rcVars, configVars, dbVars
  <2>2. Flow'
    BY <2>1 DEF IInv, Flow, FlowType, Roles, Alone
  <2>3. Shell'
    BY <2>1 DEF IInv, Shell, LinesType, Blocks, HeldLines, RcLines, HalfBlocks, Emptied, Halfway, At
  <2>4. Records'
    BY <2>1 DEF IInv, Records, RowsType, Handles, CountedRows, RecordsKept, TableRows
  <2>5. Saved'
    BY <2>1 DEF IInv, Saved, SavedType, CredentialsAsPromised, KeptKey
  <2>6. Wiped'
    BY <2>1 DEF IInv, Wiped, Gone
  <2> QED BY <2>2, <2>3, <2>4, <2>5, <2>6 DEF IInv
<1> QED BY <1>1, <1>2 DEF Next

\* The inductive invariant holds of every behaviour.
THEOREM Inductive == Spec => []IInv
<1>1. Init => IInv
  BY InvInit, ConstantsAssumption
<1>2. IInv /\ [Next]_vars => IInv'
  BY InvStep, ConstantsAssumption
<1> QED BY <1>1, <1>2, PTL DEF Spec

\* Every variable has its type.
THEOREM TypeCorrect == Spec => []TypeOK
<1>1. IInv => TypeOK
  BY DEF IInv, Flow, FlowType, Shell, LinesType, Records, RowsType, Saved, SavedType, TypeOK
<1> QED BY <1>1, Inductive, PTL

\* However installs, updates and uninstalls interleave, and whenever one is killed, a
\* start-up file that was not torn holds the user's own lines in their order, or will when
\* what an uninstall holds is written back (cleanShellRCContent and install.sh's append).
THEOREM OwnLines == Spec => []OwnLinesKept
<1>1. ASSUME IInv, NEW f \in Files \ torn, NEW s \in Contents(f) PROVE Outside(s) = own[f]
  <2>1. CASE Emptied(f)
    <3>1. PICK p \in Procs : pc[p] = "write" /\ job[p].file = f /\ s = held[p]
      BY <1>1, <2>1 DEF Contents, At
    <3> QED BY <1>1, <3>1 DEF IInv, Shell, HeldLines
  <2>2. CASE ~Emptied(f)
    <3>1. s = rc[f]
      BY <1>1, <2>2 DEF Contents
    <3> QED BY <1>1, <2>2, <3>1 DEF IInv, Shell, RcLines
  <2> QED BY <2>1, <2>2
<1>2. IInv => OwnLinesKept
  BY <1>1 DEF OwnLinesKept
<1> QED BY <1>2, Inductive, PTL

\* An uninstall removes no database that holds a row it could have counted: every row
\* inserted and not deleted is in the table, or crossed an uninstall's count or question.
THEOREM RowsStay == Spec => []RecordsKept
<1>1. IInv => RecordsKept
  BY DEF IInv, Records
<1> QED BY <1>1, Inductive, PTL

\* The saved credentials are those entered last, also when setup keeps them or is killed
\* between the temporary file and the rename.
THEOREM Credentials == Spec => []CredentialsAsPromised
<1>1. IInv => CredentialsAsPromised
  BY DEF IInv, Saved
<1> QED BY <1>1, Inductive, PTL

\* An uninstall beside which no other command ran removes its binary last: when it goes
\* nothing else of outpost is left, but for blocks in a file that was torn.
THEOREM LastToGo == Spec => BinaryLast
<1>1. ASSUME IInv, Next,
             NEW d \in exe \ exe', NEW p \in Procs \ overlap, job[p].dir = d, pc'[p] # pc[p]
      PROVE  /\ config = NoConfig /\ db = NoDb /\ temp = {}
             /\ \A f \in Files \ torn : \A i \in DOMAIN rc[f] : ~BlockAt(rc[f], i, d)
  <2>1. PICK q \in Procs : Step(q)
    BY <1>1 DEF Next
  <2>2. Moved(q)
    BY <1>1, <2>1, FlowStep, ConstantsAssumption DEF IInv, Shell, Saved
  <2>3. q = p
    BY <1>1, <2>2 DEF Moved
  <2>4. CASE Starts(p)
    <3>1. \E j, step : Begin(p, j, step)
      BY <1>1, <2>4, Begins DEF IInv, Flow, Saved
    <3>2. exe' = exe
      BY <3>1 DEF Begin
    <3> QED BY <1>1, <3>2
  <2>5. CASE RemoveBinary(p)
    <3>1. pc[p] = "clean" /\ left[p] = {}
      BY <2>5 DEF RemoveBinary, At
    <3>2. Gone(p)
      BY <1>1 DEF IInv, Wiped
    <3> QED BY <1>1, <3>1, <3>2 DEF Gone, Erases, NoBlock
  <2>6. CASE ~Starts(p) /\ ~RemoveBinary(p)
    <3>1. exe' = exe \/ exe' = exe \cup {job[p].dir}
      BY <2>1, <2>3, <2>6, Zenon
      DEF Step, Starts, InstallBinary, ConfigurePath, AppendMarker, AppendExport,
          CountInstances, CountSnapshots, Counted,
          Confirm, RemoveConfig, RemoveDb, RemoveDataDir, cleanShellRCFile, TruncateRC, WriteRC,
          Save, RenameConfig, Insert, Drop, Kill
    <3> QED BY <1>1, <3>1
  <2> QED BY <2>4, <2>5, <2>6
<1>2. IInv /\ [Next]_vars =>
        [\A d \in exe \ exe' :
           \A p \in Procs \ overlap : job[p].dir = d /\ pc'[p] # pc[p] =>
             /\ config = NoConfig /\ db = NoDb /\ temp = {}
             /\ \A f \in Files \ torn : \A i \in DOMAIN rc[f] : ~BlockAt(rc[f], i, d)]_vars
  BY <1>1
<1> QED BY <1>2, Inductive, PTL DEF Spec, BinaryLast

=============================================================================
