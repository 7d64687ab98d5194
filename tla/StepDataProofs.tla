--------------------------- MODULE StepDataProofs ---------------------------
(***************************************************************************)
(* Proofs about StepData, for any steps, keys, designs, data and results:  *)
(* what a result changes, what an output reads, what a deploy catches and  *)
(* what the log shows.                                                     *)
(***************************************************************************)
EXTENDS StepData, SequenceTheorems, FiniteSetTheorems, TLAPS

----------------------------------------------------------------------------
(* Induction over the naturals, for definitions that recur on a counter. *)

\* Every set of numbers has a least element.
LEMMA NatMin ==
  ASSUME NEW T \in SUBSET Nat, T # {}
  PROVE  \E m \in T : \A n \in T : m <= n
<1>1. IsWellFoundedOn(OpToRel(<, Nat), Nat)
  BY NatLessThanWellFounded
<1>2. PICK m \in T : \A n \in T : ~ (<<n, m>> \in OpToRel(<, Nat))
  BY <1>1, WFMin
<1>3. \A x, y \in Nat : <<y, x>> \in OpToRel(<, Nat) <=> y < x
  BY DEF OpToRel
<1>4. \A n \in T : ~ (n < m)
  BY <1>2, <1>3
<1>5. \A n \in T : n \in Nat /\ m \in Nat
  OBVIOUS
<1>6. \A n \in T : m <= n
  BY <1>4, <1>5
<1> QED BY <1>6

\* A set of numbers with 0 and every successor has all.
LEMMA NatInd ==
  ASSUME NEW S, 0 \in S, \A n \in Nat : n \in S => n + 1 \in S
  PROVE  Nat \subseteq S
<1>1. SUFFICES ASSUME Nat \ S # {} PROVE FALSE
  OBVIOUS
<1>2. PICK m \in Nat \ S : \A n \in Nat \ S : m <= n
  <2>1. Nat \ S \in SUBSET Nat
    OBVIOUS
  <2> QED BY <1>1, <2>1, NatMin
<1>3. m # 0
  BY <1>2
<1>4. m - 1 \in Nat /\ m - 1 < m
  BY <1>2, <1>3
<1>5. m - 1 \in S
  BY <1>2, <1>4
<1>6. (m - 1) + 1 \in S
  BY <1>4, <1>5
<1>7. (m - 1) + 1 = m
  BY <1>2
<1> QED BY <1>2, <1>6, <1>7

----------------------------------------------------------------------------
(* Paths. *)

\* A prefix, key by key.
LEMMA PrefixAt ==
  ASSUME NEW p \in Path, NEW q \in Path
  PROVE  IsPrefix(p, q) <=> Len(p) <= Len(q) /\ \A n \in 1..Len(p) : p[n] = q[n]
<1>1. Len(p) \in Nat /\ Len(q) \in Nat /\ DOMAIN p = 1..Len(p) /\ DOMAIN q = 1..Len(q)
  BY LenProperties DEF Path
<1>2. \A n \in 1..Len(p) : p[n] \in Key
  BY ElementOfSeq DEF Path
<1>3. \A n \in 1..Len(q) : q[n] \in Key
  BY ElementOfSeq DEF Path
<1>4. SubSeq(p, 1, Len(p)) = p
  BY SubSeqFull DEF Path
<1>5. ASSUME Len(p) <= Len(q)
      PROVE  (SubSeq(q, 1, Len(p)) = p) <=> \A n \in 1..Len(p) : p[n] = q[n]
  <2>1. \A n \in 1..Len(p) : q[n] \in Key
    BY <1>1, <1>3, <1>5
  <2>2. /\ SubSeq(q, 1, Len(p)) \in Seq(Key)
        /\ Len(SubSeq(q, 1, Len(p))) = IF 1 <= Len(p) THEN Len(p) - 1 + 1 ELSE 0
        /\ \A n \in 1..(Len(p) - 1 + 1) : SubSeq(q, 1, Len(p))[n] = q[1 + n - 1]
    BY <2>1, <1>1, SubSeqProperties
  <2>3. Len(SubSeq(q, 1, Len(p))) = Len(p)
    BY <2>2, <1>1
  <2>4. \A n \in 1..Len(p) : SubSeq(q, 1, Len(p))[n] = q[n]
    BY <2>2, <1>1
  <2>5. ASSUME \A n \in 1..Len(p) : p[n] = q[n]
        PROVE  SubSeq(q, 1, Len(p)) = p
    BY <2>2, <2>3, <2>4, <2>5, SeqEqual DEF Path
  <2> QED BY <2>4, <2>5
<1> QED BY <1>4, <1>5 DEF IsPrefix

\* Prefixes are ordered, and the prefixes of one path are comparable.
LEMMA PrefixOrder ==
  ASSUME NEW p \in Path, NEW q \in Path, NEW r \in Path
  PROVE  /\ IsPrefix(p, p)
         /\ IsPrefix(p, q) /\ IsPrefix(q, r) => IsPrefix(p, r)
         /\ IsPrefix(p, q) /\ IsPrefix(q, p) => p = q
         /\ IsPrefix(p, r) /\ IsPrefix(q, r) => Overlap(p, q)
<1>1. Len(p) \in Nat /\ Len(q) \in Nat /\ Len(r) \in Nat
  BY LenProperties DEF Path
<1>2. IsPrefix(p, p)
  BY <1>1, PrefixAt
<1>3. IsPrefix(p, q) /\ IsPrefix(q, r) => IsPrefix(p, r)
  <2>1. SUFFICES ASSUME IsPrefix(p, q), IsPrefix(q, r) PROVE IsPrefix(p, r)
    OBVIOUS
  <2>2. Len(p) <= Len(q) /\ \A n \in 1..Len(p) : p[n] = q[n]
    BY <2>1, PrefixAt
  <2>3. Len(q) <= Len(r) /\ \A n \in 1..Len(q) : q[n] = r[n]
    BY <2>1, PrefixAt
  <2>4. Len(p) <= Len(r) /\ \A n \in 1..Len(p) : p[n] = r[n]
    BY <2>2, <2>3, <1>1
  <2> QED BY <2>4, PrefixAt
<1>4. IsPrefix(p, q) /\ IsPrefix(q, p) => p = q
  <2>1. SUFFICES ASSUME IsPrefix(p, q), IsPrefix(q, p) PROVE p = q
    OBVIOUS
  <2>2. Len(p) = Len(q) /\ \A n \in 1..Len(p) : p[n] = q[n]
    BY <2>1, <1>1, PrefixAt
  <2> QED BY <2>2, SeqEqual DEF Path
<1>5. IsPrefix(p, r) /\ IsPrefix(q, r) => Overlap(p, q)
  <2>1. SUFFICES ASSUME IsPrefix(p, r), IsPrefix(q, r) PROVE Overlap(p, q)
    OBVIOUS
  <2>2. Len(p) <= Len(r) /\ \A n \in 1..Len(p) : p[n] = r[n]
    BY <2>1, PrefixAt
  <2>3. Len(q) <= Len(r) /\ \A n \in 1..Len(q) : q[n] = r[n]
    BY <2>1, PrefixAt
  <2>4. CASE Len(p) <= Len(q)
    <3>1. \A n \in 1..Len(p) : p[n] = q[n]
      BY <2>2, <2>3, <2>4, <1>1
    <3> QED BY <3>1, <2>4, PrefixAt DEF Overlap
  <2>5. CASE Len(q) <= Len(p)
    <3>1. \A n \in 1..Len(q) : q[n] = p[n]
      BY <2>2, <2>3, <2>5, <1>1
    <3> QED BY <3>1, <2>5, PrefixAt DEF Overlap
  <2> QED BY <2>4, <2>5, <1>1
<1> QED BY <1>2, <1>3, <1>4, <1>5

\* What is joined to a path is below it, and its rest.
LEMMA Joined ==
  ASSUME NEW p \in Path, NEW q \in Path
  PROVE  /\ p \o q \in Path /\ Len(p \o q) = Len(p) + Len(q)
         /\ \A n \in 1..Len(p) : (p \o q)[n] = p[n]
         /\ \A n \in 1..Len(q) : (p \o q)[Len(p) + n] = q[n]
         /\ IsPrefix(p, p \o q)
         /\ Rest(p, p \o q) = q
<1>1. Len(p) \in Nat /\ Len(q) \in Nat
  BY LenProperties DEF Path
<1>2. /\ p \o q \in Path
      /\ Len(p \o q) = Len(p) + Len(q)
      /\ \A i \in 1 .. Len(p) + Len(q) :
           (p \o q)[i] = IF i <= Len(p) THEN p[i] ELSE q[i - Len(p)]
  BY ConcatProperties DEF Path
<1>3. \A n \in 1..Len(p) : (p \o q)[n] = p[n]
  BY <1>1, <1>2
<1>4. \A n \in 1..Len(q) : (p \o q)[Len(p) + n] = q[n]
  <2>1. TAKE n \in 1..Len(q)
  <2>2. Len(p) + n \in 1..Len(p) + Len(q) /\ ~(Len(p) + n <= Len(p)) /\ (Len(p) + n) - Len(p) = n
    BY <1>1
  <2> QED BY <1>2, <2>2
<1>5. IsPrefix(p, p \o q)
  <2>1. Len(p) <= Len(p \o q) /\ \A n \in 1..Len(p) : p[n] = (p \o q)[n]
    BY <1>1, <1>2, <1>3
  <2> QED BY <2>1, <1>2, PrefixAt
<1>6. Rest(p, p \o q) = q
  <2> DEFINE r == SubSeq(p \o q, Len(p) + 1, Len(p \o q))
  <2>1. \A i \in (Len(p) + 1)..(Len(p) + Len(q)) : (p \o q)[i] \in Key
    <3>1. Len(p \o q) = Len(p) + Len(q) /\ \A i \in 1..Len(p \o q) : (p \o q)[i] \in Key
      BY <1>2, ElementOfSeq DEF Path
    <3> QED BY <3>1, <1>1
  <2>2. /\ r \in Seq(Key)
        /\ Len(r) = IF Len(p) + 1 <= Len(p) + Len(q) THEN (Len(p) + Len(q)) - (Len(p) + 1) + 1 ELSE 0
        /\ \A i \in 1..((Len(p) + Len(q)) - (Len(p) + 1) + 1) : r[i] = (p \o q)[(Len(p) + 1) + i - 1]
    <3>1. Len(p) + 1 \in Int /\ Len(p) + Len(q) \in Int
      BY <1>1
    <3> QED BY <2>1, <3>1, <1>2, SubSeqProperties
  <2>3. Len(r) = Len(q)
    BY <2>2, <1>1
  <2>4. \A i \in 1..Len(q) : r[i] = q[i]
    <3>1. TAKE i \in 1..Len(q)
    <3>2. i \in 1..((Len(p) + Len(q)) - (Len(p) + 1) + 1) /\ (Len(p) + 1) + i - 1 = Len(p) + i
      BY <1>1
    <3>3. r[i] = (p \o q)[Len(p) + i]
      BY <2>2, <3>2
    <3> QED BY <3>3, <1>4
  <2>5. r = q
    BY <2>2, <2>3, <2>4, SeqEqual DEF Path
  <2> QED BY <2>5 DEF Rest
<1> QED BY <1>2, <1>3, <1>4, <1>5, <1>6

\* What is below a path is the path and a rest.
LEMMA Split ==
  ASSUME NEW p \in Path, NEW q \in Path, IsPrefix(p, q)
  PROVE  Rest(p, q) \in Path /\ q = p \o Rest(p, q) /\ Len(Rest(p, q)) = Len(q) - Len(p)
<1> DEFINE r == SubSeq(q, Len(p) + 1, Len(q))
<1>1. Len(p) \in Nat /\ Len(q) \in Nat /\ Len(p) <= Len(q) /\ \A n \in 1..Len(p) : p[n] = q[n]
  BY LenProperties, PrefixAt DEF Path
<1>2. \A i \in (Len(p) + 1)..Len(q) : q[i] \in Key
  BY <1>1, ElementOfSeq DEF Path
<1>3. /\ r \in Seq(Key)
      /\ Len(r) = IF Len(p) + 1 <= Len(q) THEN Len(q) - (Len(p) + 1) + 1 ELSE 0
      /\ \A i \in 1..(Len(q) - (Len(p) + 1) + 1) : r[i] = q[(Len(p) + 1) + i - 1]
  <2>1. Len(p) + 1 \in Int /\ Len(q) \in Int
    BY <1>1
  <2> QED BY <1>2, <2>1, SubSeqProperties
<1>4. Len(r) = Len(q) - Len(p)
  BY <1>1, <1>3
<1>5. r \in Path
  BY <1>3 DEF Path
<1> HIDE DEF r
<1>6. Len(p \o r) = Len(q) /\ p \o r \in Path
  BY <1>1, <1>4, <1>5, Joined
<1>7. \A n \in 1..Len(q) : (p \o r)[n] = q[n]
  <2>1. TAKE n \in 1..Len(q)
  <2>2. CASE n \in 1..Len(p)
    BY <2>2, <1>1, <1>5, Joined
  <2>3. CASE n - Len(p) \in 1..Len(r)
    <3>1. (p \o r)[Len(p) + (n - Len(p))] = r[n - Len(p)]
      BY <2>3, <1>5, Joined
    <3>2. n - Len(p) \in 1..(Len(q) - (Len(p) + 1) + 1) /\ (Len(p) + 1) + (n - Len(p)) - 1 = n /\ Len(p) + (n - Len(p)) = n
      BY <2>3, <1>1, <1>4
    <3> QED BY <3>1, <3>2, <1>3
  <2> QED BY <2>2, <2>3, <1>1, <1>4
<1>8. p \o r = q
  BY <1>6, <1>7, SeqEqual DEF Path
<1> QED BY <1>4, <1>5, <1>8 DEF Rest, r

\* The empty path is above every other, and a first key above what begins with it.
LEMMA Roots ==
  ASSUME NEW p \in Path
  PROVE  /\ << >> \in Path /\ IsPrefix(<< >>, p) /\ Rest(<< >>, p) = p
         /\ p # << >> => Len(p) \in Nat \ {0} /\ 1 \in DOMAIN p /\ p[1] \in Key /\ Head(p) = p[1]
         /\ p # << >> => <<p[1]>> \in Path /\ IsPrefix(<<p[1]>>, p)
         /\ IsPrefix(p, << >>) => p = << >>
<1>1. << >> \in Path /\ Len(<< >>) = 0 /\ Len(p) \in Nat /\ DOMAIN p = 1..Len(p)
  BY EmptySeq, LenProperties DEF Path
<1>2. IsPrefix(<< >>, p)
  <2>1. Len(<< >>) <= Len(p) /\ \A n \in 1..Len(<< >>) : << >>[n] = p[n]
    BY <1>1
  <2> QED BY <2>1, <1>1, PrefixAt
<1>3. Rest(<< >>, p) = p
  BY <1>1, SubSeqFull DEF Rest, Path
<1>4. ASSUME p # << >>
      PROVE  Len(p) \in Nat \ {0} /\ 1 \in DOMAIN p /\ p[1] \in Key /\ Head(p) = p[1]
  <2>1. Len(p) \in Nat \ {0}
    BY <1>4, EmptySeq DEF Path
  <2>2. 1 \in 1..Len(p)
    BY <2>1
  <2> QED BY <2>1, <2>2, <1>1, ElementOfSeq DEF Path
<1>5. ASSUME p # << >>
      PROVE  <<p[1]>> \in Path /\ IsPrefix(<<p[1]>>, p)
  <2>1. p[1] \in Key /\ Len(p) \in Nat \ {0}
    BY <1>4, <1>5
  <2>2. <<p[1]>> \in Path /\ Len(<<p[1]>>) = 1
    BY <2>1 DEF Path
  <2>3. Len(<<p[1]>>) <= Len(p) /\ \A n \in 1..Len(<<p[1]>>) : <<p[1]>>[n] = p[n]
    BY <2>1, <2>2
  <2> QED BY <2>2, <2>3, PrefixAt
<1>6. IsPrefix(p, << >>) => p = << >>
  BY <1>1, <1>2, PrefixOrder
<1> QED BY <1>1, <1>2, <1>3, <1>4, <1>5, <1>6

\* Paths that overlap begin with the same key.
LEMMA OverlapHeads ==
  ASSUME NEW p \in Path, NEW q \in Path, p # << >>, q # << >>, Overlap(p, q)
  PROVE  p[1] = q[1]
<1>1. Len(p) \in Nat \ {0} /\ Len(q) \in Nat \ {0}
  BY Roots
<1>2. IsPrefix(p, q) => p[1] = q[1]
  BY <1>1, PrefixAt
<1>3. IsPrefix(q, p) => p[1] = q[1]
  BY <1>1, PrefixAt
<1> QED BY <1>2, <1>3 DEF Overlap

\* Joining to the same path keeps the order and tells paths apart.
LEMMA JoinOrder ==
  ASSUME NEW p \in Path, NEW q \in Path, NEW r \in Path
  PROVE  /\ IsPrefix(p \o q, p \o r) <=> IsPrefix(q, r)
         /\ p \o q = p \o r => q = r
<1>1. Len(p) \in Nat /\ Len(q) \in Nat /\ Len(r) \in Nat
  BY LenProperties DEF Path
<1>2. p \o q \in Path /\ p \o r \in Path /\ Len(p \o q) = Len(p) + Len(q) /\ Len(p \o r) = Len(p) + Len(r)
  BY Joined
<1>3. \A n \in 1..Len(p) : (p \o q)[n] = p[n] /\ (p \o r)[n] = p[n]
  BY Joined
<1>4. (\A n \in 1..Len(q) : (p \o q)[Len(p) + n] = q[n]) /\ (\A n \in 1..Len(r) : (p \o r)[Len(p) + n] = r[n])
  BY Joined
<1>5. ASSUME IsPrefix(p \o q, p \o r) PROVE IsPrefix(q, r)
  <2>1. Len(p \o q) <= Len(p \o r) /\ \A n \in 1..Len(p \o q) : (p \o q)[n] = (p \o r)[n]
    BY <1>2, <1>5, PrefixAt
  <2>2. Len(q) <= Len(r)
    BY <2>1, <1>1, <1>2
  <2>3. \A n \in 1..Len(q) : q[n] = r[n]
    <3>1. TAKE n \in 1..Len(q)
    <3>2. Len(p) + n \in 1..Len(p \o q) /\ n \in 1..Len(r)
      BY <1>1, <1>2, <2>2
    <3> QED BY <3>2, <2>1, <1>4
  <2> QED BY <2>2, <2>3, PrefixAt
<1>6. ASSUME IsPrefix(q, r) PROVE IsPrefix(p \o q, p \o r)
  <2>1. Len(q) <= Len(r) /\ \A n \in 1..Len(q) : q[n] = r[n]
    BY <1>6, PrefixAt
  <2>2. Len(p \o q) <= Len(p \o r)
    BY <2>1, <1>1, <1>2
  <2>3. \A n \in 1..Len(p \o q) : (p \o q)[n] = (p \o r)[n]
    <3>1. TAKE n \in 1..Len(p \o q)
    <3>2. CASE n \in 1..Len(p)
      BY <3>2, <1>3
    <3>3. CASE n \notin 1..Len(p)
      <4>1. n - Len(p) \in 1..Len(q) /\ n - Len(p) \in 1..Len(r) /\ Len(p) + (n - Len(p)) = n
        BY <3>3, <1>1, <1>2, <2>1
      <4> QED BY <4>1, <1>4, <2>1
    <3> QED BY <3>2, <3>3
  <2> QED BY <2>2, <2>3, <1>2, PrefixAt
<1>7. p \o q = p \o r => q = r
  <2>1. Rest(p, p \o q) = q /\ Rest(p, p \o r) = r
    BY Joined
  <2> QED BY <2>1
<1> QED BY <1>5, <1>6, <1>7

\* What is apart from a path is apart from all below it.
LEMMA StaysApart ==
  ASSUME NEW p \in Path, NEW q \in Path, NEW r \in Path, IsPrefix(p, q), ~Overlap(p, r)
  PROVE  ~Overlap(q, r) /\ ~Overlap(r, q)
BY PrefixOrder DEF Overlap

----------------------------------------------------------------------------
(* Values. *)

\* w is v with the new value at the path.
IsWritten(w, v, path, new) ==
  /\ \A p \in DOMAIN new : path \o p \in DOMAIN w /\ w[path \o p] = new[p]
  /\ \A p \in DOMAIN v : ~Overlap(path, p) => p \in DOMAIN w /\ w[p] = v[p]
  /\ \A p \in DOMAIN w :
       /\ p \in Path
       /\ \/ p \in DOMAIN v /\ ~Overlap(path, p) /\ w[p] = v[p]
          \/ /\ IsPrefix(path, p) /\ p = path \o Rest(path, p) /\ Rest(path, p) \in DOMAIN new
             /\ w[p] = new[Rest(path, p)]
  /\ w = [p \in DOMAIN w |-> w[p]]

\* That is what SetPath returns.
LEMMA SetPathAt ==
  ASSUME NEW v, NEW path \in Path, NEW new, DOMAIN v \subseteq Path, DOMAIN new \subseteq Path
  PROVE  IsWritten(SetPath(v, path, new), v, path, new)
<1> DEFINE D == {q \in DOMAIN v : ~Overlap(path, q)} \cup Below(path, new)
           w == SetPath(v, path, new)
<1>1. DOMAIN w = D /\ \A p \in D : w[p] = IF p \in Below(path, new) THEN new[Rest(path, p)] ELSE v[p]
  BY DEF SetPath
<1>2. \A p \in DOMAIN new : path \o p \in Below(path, new) /\ Rest(path, path \o p) = p
  BY Joined DEF Below
<1>3. \A p \in Below(path, new) : /\ p \in Path /\ IsPrefix(path, p) /\ p = path \o Rest(path, p)
                                  /\ Rest(path, p) \in DOMAIN new
  BY Joined DEF Below
<1>4. \A p \in DOMAIN v : ~Overlap(path, p) => p \notin Below(path, new)
  BY <1>3 DEF Overlap
<1> HIDE DEF w
<1>5. \A p \in DOMAIN new : path \o p \in DOMAIN w /\ w[path \o p] = new[p]
  BY <1>1, <1>2
<1>6. \A p \in DOMAIN v : ~Overlap(path, p) => p \in DOMAIN w /\ w[p] = v[p]
  BY <1>1, <1>4
<1>7. \A p \in DOMAIN w :
              /\ p \in Path
              /\ \/ /\ p \in DOMAIN v /\ ~Overlap(path, p) /\ w[p] = v[p]
                 \/ /\ IsPrefix(path, p) /\ p = path \o Rest(path, p) /\ Rest(path, p) \in DOMAIN new
                    /\ w[p] = new[Rest(path, p)]
  BY <1>1, <1>3, <1>4
<1>8. w = [p \in DOMAIN w |-> w[p]]
  BY DEF SetPath, w
<1>9. IsWritten(w, v, path, new)
  BY <1>5, <1>6, <1>7, <1>8 DEF IsWritten
<1> QED BY <1>9 DEF w

\* Functions that agree everywhere are equal.
LEMMA SameFcn ==
  ASSUME NEW f, NEW g, f = [x \in DOMAIN f |-> f[x]], g = [x \in DOMAIN g |-> g[x]],
         DOMAIN f = DOMAIN g, \A x \in DOMAIN f : f[x] = g[x]
  PROVE  f = g
OBVIOUS

\* The image of a finite set is finite.
LEMMA FiniteImage ==
  ASSUME NEW S, IsFiniteSet(S), NEW f
  PROVE  IsFiniteSet({f[x] : x \in S})
<1> DEFINE T == {f[x] : x \in S}
           g == [x \in S |-> f[x]]
<1>1. g \in Surjection(S, T)
  BY DEF Surjection
<1> HIDE DEF g
<1>2. IsFiniteSet(T)
  BY <1>1, FS_Surjection
<1> QED BY <1>2

\* A leaf is a value.
LEMMA TreeScalar ==
  ASSUME NEW leaf \in Leaf
  PROVE  /\ IsJson(Scalar(leaf)) /\ DOMAIN Scalar(leaf) = {<< >>} /\ Scalar(leaf)[<< >>] = leaf
<1>1. DOMAIN Scalar(leaf) = {<< >>} /\ Scalar(leaf)[<< >>] = leaf /\ Scalar(leaf) \in [DOMAIN Scalar(leaf) -> Leaf]
  BY DEF Scalar
<1>2. << >> \in Path
  BY EmptySeq DEF Path
<1>3. IsFiniteSet({<< >>})
  BY FS_Singleton
<1> QED BY <1>1, <1>2, <1>3 DEF IsJson, IsTree

\* No variables at all are a scope.
LEMMA ScopeNone == IsScope(None) /\ DOMAIN None = {}
<1>1. DOMAIN None = {} /\ None \in [DOMAIN None -> Leaf]
  BY DEF None
<1> QED BY <1>1, FS_EmptySet DEF IsScope, IsTree

\* w is what is below the path in v.
IsBelow(w, v, path) ==
  /\ \A p \in DOMAIN w : p \in Path /\ path \o p \in DOMAIN v
  /\ \A p \in Path : path \o p \in DOMAIN v => p \in DOMAIN w /\ w[p] = v[path \o p]
  /\ DOMAIN w = {Rest(path, q) : q \in Within(v, path)} /\ DOMAIN w # {}
  /\ w = [p \in DOMAIN w |-> w[p]]

\* That is what Lookup finds.
LEMMA LookupAt ==
  ASSUME NEW v, NEW path \in Path, DOMAIN v \subseteq Path, Has(v, path)
  PROVE  IsBelow(Lookup(v, path), v, path)
<1> DEFINE w == Lookup(v, path)
           D == {Rest(path, q) : q \in Within(v, path)}
<1>1. w = [p \in D |-> v[path \o p]]
  BY DEF Lookup
<1> HIDE DEF w
<1>2. DOMAIN w = D /\ (\A p \in D : w[p] = v[path \o p]) /\ w = [p \in DOMAIN w |-> w[p]]
  BY <1>1
<1>3. \A p \in D : p \in Path /\ path \o p \in DOMAIN v
  BY Split DEF Within
<1>4. ASSUME NEW p \in Path, path \o p \in DOMAIN v PROVE p \in D
  <2>1. IsPrefix(path, path \o p) /\ Rest(path, path \o p) = p
    BY Joined
  <2> QED BY <1>4, <2>1 DEF Within
<1>5. D # {}
  BY DEF Has
<1>6. IsBelow(w, v, path)
  BY <1>2, <1>3, <1>4, <1>5 DEF IsBelow
<1> QED BY <1>6 DEF w

\* What Lookup finds is a value.
LEMMA TreeLookup ==
  ASSUME NEW v, IsTree(v), NEW path \in Path
  PROVE  IsJson(Lookup(v, path))
<1>1. CASE ~Has(v, path)
  BY <1>1, Leaves, TreeScalar DEF Lookup
<1>2. CASE Has(v, path)
  <2> DEFINE w == Lookup(v, path)
             rest == [q \in Within(v, path) |-> Rest(path, q)]
  <2>1. /\ v \in [DOMAIN v -> Leaf] /\ DOMAIN v \subseteq Path /\ IsFiniteSet(DOMAIN v)
        /\ \A p, q \in DOMAIN v : IsPrefix(p, q) => p = q
    BY DEF IsTree
  <2>2. IsBelow(w, v, path)
    BY <1>2, <2>1, LookupAt
  <2>3. IsFiniteSet(DOMAIN w)
    <3>1. IsFiniteSet(Within(v, path))
      BY <2>1, FS_Subset DEF Within
    <3>2. IsFiniteSet({rest[q] : q \in Within(v, path)})
      <4> HIDE DEF rest
      <4> QED BY <3>1, FiniteImage
    <3>3. {rest[q] : q \in Within(v, path)} = {Rest(path, q) : q \in Within(v, path)}
      OBVIOUS
    <3> QED BY <3>2, <3>3, <2>2 DEF IsBelow
  <2> HIDE DEF w
  <2>4. w \in [DOMAIN w -> Leaf]
    BY <2>1, <2>2 DEF IsBelow
  <2>5. \A p, q \in DOMAIN w : IsPrefix(p, q) => p = q
    <3>1. TAKE p, q \in DOMAIN w
    <3>2. HAVE IsPrefix(p, q)
    <3>3. p \in Path /\ q \in Path /\ path \o p \in DOMAIN v /\ path \o q \in DOMAIN v
      BY <2>2 DEF IsBelow
    <3>4. IsPrefix(path \o p, path \o q)
      BY <3>2, <3>3, JoinOrder
    <3>5. path \o p = path \o q
      BY <3>3, <3>4, <2>1
    <3> QED BY <3>3, <3>5, JoinOrder
  <2>6. IsJson(w)
    BY <2>2, <2>3, <2>4, <2>5 DEF IsJson, IsTree, IsBelow
  <2> QED BY <2>6 DEF w
<1> QED BY <1>1, <1>2

\* Writing a value into a tree leaves a tree, of fields when the path is not empty.
LEMMA TreeSetPath ==
  ASSUME NEW v, IsTree(v), NEW path \in Path, NEW new, IsJson(new)
  PROVE  /\ IsTree(SetPath(v, path, new))
         /\ path # << >> => IsScope(SetPath(v, path, new))
         /\ DOMAIN SetPath(v, path, new) # {}
<1> DEFINE w == SetPath(v, path, new)
           joined == [p \in DOMAIN new |-> path \o p]
<1>1. /\ v \in [DOMAIN v -> Leaf] /\ DOMAIN v \subseteq Path /\ IsFiniteSet(DOMAIN v)
      /\ \A p, q \in DOMAIN v : IsPrefix(p, q) => p = q
  BY DEF IsTree
<1>2. /\ new \in [DOMAIN new -> Leaf] /\ DOMAIN new \subseteq Path /\ IsFiniteSet(DOMAIN new)
      /\ \A p, q \in DOMAIN new : IsPrefix(p, q) => p = q
  BY DEF IsTree, IsJson
<1>0. IsWritten(w, v, path, new)
  BY <1>1, <1>2, SetPathAt
<1>3. /\ \A p \in DOMAIN new : path \o p \in DOMAIN w /\ w[path \o p] = new[p]
      /\ \A p \in DOMAIN v : ~Overlap(path, p) => p \in DOMAIN w /\ w[p] = v[p]
      /\ \A p \in DOMAIN w :
           /\ p \in Path
           /\ \/ p \in DOMAIN v /\ ~Overlap(path, p) /\ w[p] = v[p]
              \/ /\ IsPrefix(path, p) /\ p = path \o Rest(path, p) /\ Rest(path, p) \in DOMAIN new
                 /\ w[p] = new[Rest(path, p)]
  BY <1>0 DEF IsWritten
<1>4. DOMAIN w = {q \in DOMAIN v : ~Overlap(path, q)} \cup Below(path, new) /\ w = [p \in DOMAIN w |-> w[p]]
  BY DEF SetPath
<1>5. IsFiniteSet(DOMAIN w)
  <2>1. IsFiniteSet({joined[p] : p \in DOMAIN new})
    <3> HIDE DEF joined
    <3> QED BY <1>2, FiniteImage
  <2>2. {joined[p] : p \in DOMAIN new} = Below(path, new)
    BY DEF Below
  <2>3. IsFiniteSet({q \in DOMAIN v : ~Overlap(path, q)})
    BY <1>1, FS_Subset
  <2>4. IsFiniteSet({q \in DOMAIN v : ~Overlap(path, q)} \cup Below(path, new))
    BY <2>1, <2>2, <2>3, FS_Union
  <2> QED BY <2>4, <1>4
<1> HIDE DEF w
<1>6. w \in [DOMAIN w -> Leaf]
  BY <1>1, <1>2, <1>3, <1>4
<1>7. \A p, q \in DOMAIN w : IsPrefix(p, q) => p = q
  <2>1. TAKE p, q \in DOMAIN w
  <2>2. HAVE IsPrefix(p, q)
  <2>3. p \in Path /\ q \in Path
    BY <1>3
  <2>4. CASE p \in DOMAIN v /\ ~Overlap(path, p)
    <3>1. ~IsPrefix(path, q)
      <4>1. SUFFICES ASSUME IsPrefix(path, q) PROVE FALSE
        OBVIOUS
      <4>2. Overlap(path, p)
        BY <4>1, <2>2, <2>3, PrefixOrder
      <4> QED BY <4>2, <2>4
    <3>2. q \in DOMAIN v
      BY <3>1, <1>3
    <3> QED BY <3>2, <2>4, <2>2, <1>1
  <2>5. CASE IsPrefix(path, p) /\ p = path \o Rest(path, p) /\ Rest(path, p) \in DOMAIN new
    <3>1. IsPrefix(path, q)
      BY <2>2, <2>3, <2>5, PrefixOrder
    <3>2. q = path \o Rest(path, q) /\ Rest(path, q) \in DOMAIN new
      BY <3>1, <1>3 DEF Overlap
    <3>3. Rest(path, p) \in Path /\ Rest(path, q) \in Path
      BY <3>2, <2>5, <1>2
    <3>4. IsPrefix(Rest(path, p), Rest(path, q))
      <4>1. IsPrefix(path \o Rest(path, p), path \o Rest(path, q))
        BY <2>2, <2>5, <3>2
      <4> QED BY <4>1, <3>3, JoinOrder
    <3>5. Rest(path, p) = Rest(path, q)
      BY <3>4, <3>2, <2>5, <1>2
    <3> QED BY <3>5, <3>2, <2>5
  <2> QED BY <2>4, <2>5, <1>3
<1>8. IsTree(w)
  BY <1>3, <1>5, <1>6, <1>7 DEF IsTree
<1>9. DOMAIN w # {}
  BY <1>3 DEF IsJson
<1>10. path # << >> => << >> \notin DOMAIN w
  <2>1. SUFFICES ASSUME path # << >>, << >> \in DOMAIN w PROVE FALSE
    OBVIOUS
  <2>2. Overlap(path, << >>)
    BY Roots DEF Overlap
  <2>3. IsPrefix(path, << >>)
    BY <2>1, <2>2, <1>3
  <2> QED BY <2>1, <2>3, Roots
<1> QED BY <1>8, <1>9, <1>10 DEF IsScope, w

\* What was written is read back, ...
LEMMA LookupWritten ==
  ASSUME NEW v, IsTree(v), NEW path \in Path, NEW new, IsJson(new)
  PROVE  Lookup(SetPath(v, path, new), path) = new
<1> DEFINE w == SetPath(v, path, new)
           u == Lookup(w, path)
<1>1. /\ DOMAIN v \subseteq Path /\ DOMAIN new \subseteq Path /\ DOMAIN new # {}
      /\ new = [p \in DOMAIN new |-> new[p]]
  BY DEF IsJson, IsTree
<1>2. /\ \A p \in DOMAIN new : path \o p \in DOMAIN w /\ w[path \o p] = new[p]
      /\ \A p \in DOMAIN w :
           /\ p \in Path
           /\ \/ p \in DOMAIN v /\ ~Overlap(path, p)
              \/ Rest(path, p) \in DOMAIN new
  BY <1>1, SetPathAt DEF IsWritten
<1> HIDE DEF w
<1>3. Has(w, path)
  <2>1. PICK p \in DOMAIN new : TRUE
    BY <1>1
  <2>2. path \o p \in DOMAIN w /\ IsPrefix(path, path \o p)
    BY <1>1, <1>2, Joined
  <2> QED BY <2>2 DEF Has, Within
<1>4. IsBelow(u, w, path)
  <2>1. DOMAIN w \subseteq Path
    BY <1>2
  <2> QED BY <2>1, <1>3, LookupAt
<1> HIDE DEF u
<1>5. \A p \in DOMAIN u : p \in DOMAIN new
  <2>1. TAKE p \in DOMAIN u
  <2>2. p \in Path /\ path \o p \in DOMAIN w
    BY <1>4 DEF IsBelow
  <2>3. IsPrefix(path, path \o p) /\ Rest(path, path \o p) = p
    BY <2>2, Joined
  <2> QED BY <2>2, <2>3, <1>2 DEF Overlap
<1>6. \A p \in DOMAIN new : p \in DOMAIN u /\ u[p] = new[p]
  BY <1>1, <1>2, <1>4 DEF IsBelow
<1>7. DOMAIN u = DOMAIN new
  BY <1>5, <1>6
<1>8. u = new
  BY <1>1, <1>4, <1>6, <1>7, SameFcn DEF IsBelow
<1> QED BY <1>8 DEF u, w

\* Lookup depends on what is below the path alone.
LEMMA HasAt ==
  ASSUME NEW v, NEW path \in Path, DOMAIN v \subseteq Path
  PROVE  Has(v, path) <=> \E p \in Path : path \o p \in DOMAIN v
<1>1. ASSUME Has(v, path) PROVE \E p \in Path : path \o p \in DOMAIN v
  <2>1. PICK q \in DOMAIN v : IsPrefix(path, q)
    BY <1>1 DEF Has, Within
  <2> QED BY <2>1, Split
<1>2. ASSUME NEW p \in Path, path \o p \in DOMAIN v PROVE Has(v, path)
  BY <1>2, Joined DEF Has, Within
<1> QED BY <1>1, <1>2

\* Values that agree below two paths read the same there.
LEMMA LookupSame ==
  ASSUME NEW v, NEW w, DOMAIN v \subseteq Path, DOMAIN w \subseteq Path, NEW a \in Path, NEW b \in Path,
         \A p \in Path : /\ a \o p \in DOMAIN v <=> b \o p \in DOMAIN w
                         /\ a \o p \in DOMAIN v => v[a \o p] = w[b \o p]
  PROVE  Lookup(v, a) = Lookup(w, b)
<1>1. Has(v, a) <=> Has(w, b)
  BY HasAt
<1>2. CASE Has(v, a)
  <2> DEFINE x == Lookup(v, a)
             y == Lookup(w, b)
  <2>1. IsBelow(x, v, a) /\ IsBelow(y, w, b)
    BY <1>1, <1>2, LookupAt
  <2> HIDE DEF x, y
  <2>2. \A p \in DOMAIN x : p \in DOMAIN y /\ x[p] = y[p]
    BY <2>1 DEF IsBelow
  <2>3. \A p \in DOMAIN y : p \in DOMAIN x
    BY <2>1 DEF IsBelow
  <2>4. x = y
    BY <2>1, <2>2, <2>3, SameFcn DEF IsBelow
  <2> QED BY <2>4 DEF x, y
<1>3. CASE ~Has(v, a)
  BY <1>1, <1>3 DEF Lookup
<1> QED BY <1>2, <1>3

\* What was written elsewhere makes no difference to what is read.
LEMMA LookupBeside ==
  ASSUME NEW v, DOMAIN v \subseteq Path, NEW path \in Path, NEW new, DOMAIN new \subseteq Path,
         NEW other \in Path, ~Overlap(path, other)
  PROVE  Lookup(SetPath(v, path, new), other) = Lookup(v, other)
<1> DEFINE w == SetPath(v, path, new)
<1>1. /\ \A p \in DOMAIN v : ~Overlap(path, p) => p \in DOMAIN w /\ w[p] = v[p]
      /\ \A p \in DOMAIN w : p \in Path /\ (p \in DOMAIN v \/ IsPrefix(path, p))
  BY SetPathAt DEF IsWritten
<1> HIDE DEF w
<1>2. \A p \in Path : other \o p \in Path /\ ~Overlap(path, other \o p)
  BY StaysApart, Joined DEF Overlap
<1>3. \A p \in Path : /\ other \o p \in DOMAIN w <=> other \o p \in DOMAIN v
                      /\ other \o p \in DOMAIN w => w[other \o p] = v[other \o p]
  BY <1>1, <1>2 DEF Overlap
<1>4. DOMAIN w \subseteq Path
  BY <1>1
<1>5. Lookup(w, other) = Lookup(v, other)
  BY <1>3, <1>4, LookupSame
<1> QED BY <1>5 DEF w

\* A scope's fields have names.
LEMMA ScopePaths ==
  ASSUME NEW v, IsScope(v)
  PROVE  /\ v \in [DOMAIN v -> Leaf] /\ DOMAIN v \subseteq Path /\ IsFiniteSet(DOMAIN v)
         /\ \A p, q \in DOMAIN v : IsPrefix(p, q) => p = q
         /\ \A p \in DOMAIN v : p \in Path /\ p # << >> /\ p[1] \in Key /\ p[1] \in Names(v)
         /\ \A name \in Names(v) : name \in Key /\ \E p \in DOMAIN v : p[1] = name
<1>1. /\ v \in [DOMAIN v -> Leaf] /\ DOMAIN v \subseteq Path /\ IsFiniteSet(DOMAIN v)
      /\ \A p, q \in DOMAIN v : IsPrefix(p, q) => p = q
  BY DEF IsScope, IsTree
<1>2. \A p \in DOMAIN v : p \in Path /\ p # << >> /\ p[1] \in Key
  BY <1>1, Roots DEF IsScope
<1>3. (\A p \in DOMAIN v : p[1] \in Names(v)) /\ \A name \in Names(v) : \E p \in DOMAIN v : p[1] = name
  BY DEF Names
<1> QED BY <1>1, <1>2, <1>3

\* What Spread leaves of either scope.
LEMMA SpreadAt ==
  ASSUME NEW top, IsScope(top), NEW base, IsScope(base)
  PROVE  /\ \A p \in DOMAIN top : p \in DOMAIN Spread(top, base) /\ Spread(top, base)[p] = top[p]
         /\ \A p \in DOMAIN base : p[1] \notin Names(top) =>
              p \in DOMAIN Spread(top, base) /\ Spread(top, base)[p] = base[p]
         /\ \A p \in DOMAIN Spread(top, base) :
              /\ p \in Path /\ p # << >>
              /\ p \in DOMAIN top \/ (p \in DOMAIN base /\ p[1] \notin Names(top))
         /\ Spread(top, base) = [p \in DOMAIN Spread(top, base) |-> Spread(top, base)[p]]
<1> DEFINE w == Spread(top, base)
           D == DOMAIN top \cup {q \in DOMAIN base : q[1] \notin Names(top)}
<1>1. w = [p \in D |-> IF p \in DOMAIN top THEN top[p] ELSE base[p]]
  BY DEF Spread
<1> HIDE DEF w
<1>2. DOMAIN w = D /\ w = [p \in DOMAIN w |-> w[p]]
      /\ \A p \in D : w[p] = IF p \in DOMAIN top THEN top[p] ELSE base[p]
  BY <1>1
<1>3. (\A p \in DOMAIN top : p \in Path /\ p # << >> /\ p[1] \in Names(top)) /\ \A p \in DOMAIN base : p \in Path /\ p # << >>
  BY ScopePaths
<1>4. \A p \in DOMAIN top : p \in DOMAIN w /\ w[p] = top[p]
  BY <1>2
<1>5. \A p \in DOMAIN base : p[1] \notin Names(top) => p \in DOMAIN w /\ w[p] = base[p]
  BY <1>2, <1>3
<1>6. \A p \in DOMAIN w :
              /\ p \in Path /\ p # << >>
              /\ p \in DOMAIN top \/ (p \in DOMAIN base /\ p[1] \notin Names(top))
  BY <1>2, <1>3
<1> QED BY <1>2, <1>4, <1>5, <1>6 DEF w

\* Of two scopes, one spread over the other is a scope.
LEMMA ScopeSpread ==
  ASSUME NEW top, IsScope(top), NEW base, IsScope(base)
  PROVE  IsScope(Spread(top, base))
<1> DEFINE w == Spread(top, base)
<1>1. /\ \A p \in DOMAIN top : p \in DOMAIN w /\ w[p] = top[p]
      /\ \A p \in DOMAIN base : p[1] \notin Names(top) => p \in DOMAIN w /\ w[p] = base[p]
      /\ \A p \in DOMAIN w :
              /\ p \in Path /\ p # << >>
              /\ p \in DOMAIN top \/ (p \in DOMAIN base /\ p[1] \notin Names(top))
      /\ w = [p \in DOMAIN w |-> w[p]]
  BY SpreadAt
<1>2. /\ top \in [DOMAIN top -> Leaf] /\ IsFiniteSet(DOMAIN top)
      /\ \A p, q \in DOMAIN top : IsPrefix(p, q) => p = q
      /\ \A p \in DOMAIN top : p[1] \in Names(top)
  BY ScopePaths
<1>3. /\ base \in [DOMAIN base -> Leaf] /\ IsFiniteSet(DOMAIN base)
      /\ \A p, q \in DOMAIN base : IsPrefix(p, q) => p = q
  BY ScopePaths
<1> HIDE DEF w
<1>4. w \in [DOMAIN w -> Leaf]
  BY <1>1, <1>2, <1>3
<1>5. IsFiniteSet(DOMAIN w)
  <2>1. IsFiniteSet(DOMAIN top \cup DOMAIN base)
    BY <1>2, <1>3, FS_Union
  <2>2. DOMAIN w \in SUBSET (DOMAIN top \cup DOMAIN base)
    BY <1>1
  <2> QED BY <2>1, <2>2, FS_Subset
<1>6. \A p, q \in DOMAIN w : IsPrefix(p, q) => p = q
  <2>1. TAKE p, q \in DOMAIN w
  <2>2. HAVE IsPrefix(p, q)
  <2>3. p \in Path /\ q \in Path /\ p # << >> /\ q # << >>
    BY <1>1
  <2>4. p[1] = q[1]
    BY <2>2, <2>3, OverlapHeads DEF Overlap
  <2>5. CASE p \in DOMAIN top
    BY <2>5, <2>4, <2>2, <1>1, <1>2
  <2>6. CASE p \notin DOMAIN top
    BY <2>6, <2>4, <2>2, <1>1, <1>2, <1>3
  <2> QED BY <2>5, <2>6
<1>7. IsScope(w)
  BY <1>1, <1>4, <1>5, <1>6 DEF IsScope, IsTree
<1> QED BY <1>7 DEF w

\* A name is read from the upper scope if that has it, else from the lower.
LEMMA LookupSpread ==
  ASSUME NEW top, IsScope(top), NEW base, IsScope(base), NEW path \in Path, path # << >>
  PROVE  Lookup(Spread(top, base), path) =
           IF path[1] \in Names(top) THEN Lookup(top, path) ELSE Lookup(base, path)
<1> DEFINE w == Spread(top, base)
<1>1. /\ \A p \in DOMAIN top : p \in DOMAIN w /\ w[p] = top[p]
      /\ \A p \in DOMAIN base : p[1] \notin Names(top) => p \in DOMAIN w /\ w[p] = base[p]
      /\ \A p \in DOMAIN w :
              /\ p \in Path /\ p # << >>
              /\ p \in DOMAIN top \/ (p \in DOMAIN base /\ p[1] \notin Names(top))
      /\ w = [p \in DOMAIN w |-> w[p]]
  BY SpreadAt
<1> HIDE DEF w
<1>2. DOMAIN w \subseteq Path /\ DOMAIN top \subseteq Path /\ DOMAIN base \subseteq Path
  BY <1>1, ScopePaths
<1>3. \A p \in Path : path \o p \in Path /\ (path \o p)[1] = path[1]
  <2>1. Len(path) \in Nat \ {0}
    BY Roots
  <2>2. 1 \in 1..Len(path)
    BY <2>1
  <2> QED BY <2>2, Joined
<1>4. \A p \in DOMAIN top : p[1] \in Names(top)
  BY ScopePaths
<1>5. CASE path[1] \in Names(top)
  <2>1. \A p \in Path : /\ path \o p \in DOMAIN w <=> path \o p \in DOMAIN top
                        /\ path \o p \in DOMAIN w => w[path \o p] = top[path \o p]
    BY <1>1, <1>3, <1>5
  <2>2. Lookup(w, path) = Lookup(top, path)
    BY <2>1, <1>2, LookupSame
  <2> QED BY <2>2, <1>5 DEF w
<1>6. CASE path[1] \notin Names(top)
  <2>1. \A p \in Path : /\ path \o p \in DOMAIN w <=> path \o p \in DOMAIN base
                        /\ path \o p \in DOMAIN w => w[path \o p] = base[path \o p]
    BY <1>1, <1>3, <1>4, <1>6
  <2>2. Lookup(w, path) = Lookup(base, path)
    BY <2>1, <1>2, LookupSame
  <2> QED BY <2>2, <1>6 DEF w
<1> QED BY <1>5, <1>6

\* The fields of a value.
LEMMA ScopeFields ==
  ASSUME NEW v, IsTree(v)
  PROVE  IsScope(FieldsOf(v)) /\ \A p \in DOMAIN FieldsOf(v) : p \in DOMAIN v
<1> DEFINE w == FieldsOf(v)
<1>1. w = [p \in DOMAIN v \ {<< >>} |-> v[p]]
  BY DEF FieldsOf
<1> HIDE DEF w
<1>2. DOMAIN w = DOMAIN v \ {<< >>} /\ w \in [DOMAIN w -> Leaf]
  BY <1>1 DEF IsTree
<1>3. IsFiniteSet(DOMAIN w)
  BY <1>2, FS_Subset DEF IsTree
<1>4. IsScope(w)
  BY <1>2, <1>3 DEF IsScope, IsTree
<1> QED BY <1>2, <1>4 DEF w
----------------------------------------------------------------------------
(* The inputs of a step. *)

\* Values by target.
IsInputs(values) ==
  /\ DOMAIN values \subseteq Path \ {<< >>} /\ IsFiniteSet(DOMAIN values)
  /\ \A target \in DOMAIN values : IsJson(values[target])

\* A path of one name.
LEMMA OneName ==
  ASSUME NEW p \in Path
  PROVE  /\ Len(p) = 1 => p = <<p[1]>> /\ p[1] \in Key
         /\ \A key \in Key : <<key>> \in Path /\ Len(<<key>>) = 1 /\ <<key>>[1] = key /\ <<key>> # << >>
<1>1. \A key \in Key : <<key>> \in Path /\ Len(<<key>>) = 1 /\ <<key>>[1] = key /\ <<key>> # << >>
  BY DEF Path
<1>2. ASSUME Len(p) = 1 PROVE p = <<p[1]>> /\ p[1] \in Key
  <2>1. p[1] \in Key
    BY <1>2, ElementOfSeq DEF Path
  <2>2. <<p[1]>> \in Path /\ Len(<<p[1]>>) = 1 /\ <<p[1]>>[1] = p[1]
    BY <1>1, <2>1
  <2>3. \A n \in 1..Len(p) : p[n] = <<p[1]>>[n]
    BY <1>2, <2>2
  <2> QED BY <1>2, <2>1, <2>2, <2>3, SeqEqual DEF Path
<1> QED BY <1>1, <1>2

\* A path is its first name and its tail.
LEMMA HeadAndTail ==
  ASSUME NEW p \in Path, p # << >>
  PROVE  /\ p[1] \in Key /\ <<p[1]>> \in Path /\ Tail(p) \in Path
         /\ p = <<p[1]>> \o Tail(p) /\ Rest(<<p[1]>>, p) = Tail(p)
<1>1. p[1] \in Key /\ <<p[1]>> \in Path /\ IsPrefix(<<p[1]>>, p)
  BY Roots
<1>2. Len(<<p[1]>>) = 1
  OBVIOUS
<1>3. Tail(p) = SubSeq(p, 2, Len(p)) /\ Tail(p) \in Path
  BY TailIsSubSeq, HeadTailProperties DEF Path
<1>4. Rest(<<p[1]>>, p) = Tail(p)
  BY <1>2, <1>3 DEF Rest
<1> QED BY <1>1, <1>3, <1>4, Split

\* Each input that is a name gives the scope its fields.
LEMMA InputFieldsAt ==
  ASSUME NEW values, IsInputs(values)
  PROVE  /\ \A p \in DOMAIN InputFields(values) :
              /\ p \in Path /\ p # << >> /\ p[1] \in Key /\ <<p[1]>> \in DOMAIN values
              /\ Tail(p) \in DOMAIN values[<<p[1]>>]
              /\ InputFields(values)[p] = values[<<p[1]>>][Tail(p)]
         /\ \A p \in Path : p # << >> /\ <<p[1]>> \in DOMAIN values /\ Tail(p) \in DOMAIN values[<<p[1]>>] =>
              p \in DOMAIN InputFields(values)
         /\ InputFields(values) = [p \in DOMAIN InputFields(values) |-> InputFields(values)[p]]
<1> DEFINE w == InputFields(values)
           D == UNION {Below(target, values[target]) : target \in Named(values)}
<1>1. w = [p \in D |-> values[<<p[1]>>][Rest(<<p[1]>>, p)]]
  BY DEF InputFields
<1> HIDE DEF w
<1>2. DOMAIN w = D /\ w = [p \in DOMAIN w |-> w[p]] /\ \A p \in D : w[p] = values[<<p[1]>>][Rest(<<p[1]>>, p)]
  BY <1>1
<1>3. ASSUME NEW p \in D
      PROVE  /\ p \in Path /\ p # << >> /\ p[1] \in Key /\ <<p[1]>> \in DOMAIN values
             /\ Rest(<<p[1]>>, p) = Tail(p) /\ Tail(p) \in DOMAIN values[<<p[1]>>]
  <2>1. PICK target \in Named(values) : p \in Below(target, values[target])
    OBVIOUS
  <2>2. target \in Path /\ Len(target) = 1 /\ target \in DOMAIN values /\ DOMAIN values[target] \subseteq Path
    BY <2>1 DEF Named, IsInputs, IsJson, IsTree
  <2>3. target = <<target[1]>> /\ target[1] \in Key
    BY <2>2, OneName
  <2>4. PICK r \in DOMAIN values[target] : p = target \o r
    BY <2>1 DEF Below
  <2>5. r \in Path
    BY <2>2, <2>4
  <2>6. p \in Path /\ IsPrefix(target, p) /\ Rest(target, p) = r /\ p[1] = target[1] /\ Len(p) = 1 + Len(r) /\ Len(r) \in Nat
    <3>1. 1 \in 1..Len(target)
      BY <2>2
    <3> QED BY <3>1, <2>2, <2>4, <2>5, Joined, LenProperties DEF Path
  <2>7. p # << >>
    <3>1. Len(<< >>) = 0 /\ Len(p) # 0
      BY <2>6
    <3> QED BY <3>1
  <2> QED BY <2>2, <2>3, <2>4, <2>6, <2>7, HeadAndTail
<1>4. ASSUME NEW p \in Path, p # << >>, <<p[1]>> \in DOMAIN values, Tail(p) \in DOMAIN values[<<p[1]>>]
      PROVE  p \in D
  <2>1. p = <<p[1]>> \o Tail(p) /\ Len(<<p[1]>>) = 1
    BY <1>4, HeadAndTail
  <2>2. <<p[1]>> \in Named(values) /\ p \in Below(<<p[1]>>, values[<<p[1]>>])
    BY <1>4, <2>1 DEF Named, Below
  <2> QED BY <2>2
<1> HIDE DEF D
<1> QED BY <1>2, <1>3, <1>4 DEF w

\* The inputs that are names are a scope of those names.
LEMMA ScopeInputFields ==
  ASSUME NEW values, IsInputs(values)
  PROVE  /\ IsScope(InputFields(values))
         /\ \A key \in Key : key \in Names(InputFields(values)) <=> <<key>> \in DOMAIN values
<1> DEFINE w == InputFields(values)
<1>1. /\ \A p \in DOMAIN w :
              /\ p \in Path /\ p # << >> /\ p[1] \in Key /\ <<p[1]>> \in DOMAIN values
              /\ Tail(p) \in DOMAIN values[<<p[1]>>]
              /\ w[p] = values[<<p[1]>>][Tail(p)]
      /\ \A p \in Path : p # << >> /\ <<p[1]>> \in DOMAIN values /\ Tail(p) \in DOMAIN values[<<p[1]>>] =>
              p \in DOMAIN w
      /\ w = [p \in DOMAIN w |-> w[p]]
  BY InputFieldsAt
<1>2. DOMAIN w = UNION {Below(target, values[target]) : target \in Named(values)}
  BY DEF InputFields
<1> HIDE DEF w
<1>3. \A target \in DOMAIN values :
         /\ values[target] \in [DOMAIN values[target] -> Leaf] /\ DOMAIN values[target] \subseteq Path
         /\ IsFiniteSet(DOMAIN values[target]) /\ DOMAIN values[target] # {}
         /\ \A p, q \in DOMAIN values[target] : IsPrefix(p, q) => p = q
  BY DEF IsInputs, IsJson, IsTree
<1>4. w \in [DOMAIN w -> Leaf]
  <2>1. ASSUME NEW p \in DOMAIN w PROVE w[p] \in Leaf
    <3> DEFINE target == <<p[1]>>
    <3>1. target \in DOMAIN values /\ Tail(p) \in DOMAIN values[target] /\ w[p] = values[target][Tail(p)]
      BY <1>1
    <3> HIDE DEF target
    <3>2. values[target] \in [DOMAIN values[target] -> Leaf]
      BY <3>1, <1>3
    <3> QED BY <3>1, <3>2
  <2> QED BY <2>1, <1>1
<1>5. IsFiniteSet(DOMAIN w)
  <2> DEFINE below == [target \in Named(values) |-> Below(target, values[target])]
             W == {below[target] : target \in Named(values)}
  <2>1. IsFiniteSet(W)
    <3>1. IsFiniteSet(Named(values))
      BY FS_Subset DEF IsInputs, Named
    <3> HIDE DEF below
    <3> QED BY <3>1, FiniteImage
  <2>2. ASSUME NEW target \in Named(values) PROVE IsFiniteSet(below[target])
    <3> DEFINE joined == [p \in DOMAIN values[target] |-> target \o p]
    <3>1. IsFiniteSet(DOMAIN values[target])
      BY <1>3 DEF Named
    <3>2. IsFiniteSet({joined[p] : p \in DOMAIN values[target]})
      <4> HIDE DEF joined
      <4> QED BY <3>1, FiniteImage
    <3>3. {joined[p] : p \in DOMAIN values[target]} = Below(target, values[target])
      BY DEF Below
    <3> QED BY <3>2, <3>3
  <2>3. \A T \in W : IsFiniteSet(T)
    BY <2>2
  <2>4. UNION W = DOMAIN w
    BY <1>2
  <2> HIDE DEF W
  <2> QED BY <2>1, <2>3, <2>4, FS_UNION
<1>6. \A p, q \in DOMAIN w : IsPrefix(p, q) => p = q
  <2>1. TAKE p, q \in DOMAIN w
  <2>2. HAVE IsPrefix(p, q)
  <2>3. p \in Path /\ q \in Path /\ p # << >> /\ q # << >>
    BY <1>1
  <2>4. p[1] = q[1]
    BY <2>2, <2>3, OverlapHeads DEF Overlap
  <2>5. /\ p = <<p[1]>> \o Tail(p) /\ q = <<p[1]>> \o Tail(q)
        /\ <<p[1]>> \in Path /\ Tail(p) \in Path /\ Tail(q) \in Path
    BY <2>3, <2>4, HeadAndTail
  <2>6. IsPrefix(<<p[1]>> \o Tail(p), <<p[1]>> \o Tail(q))
    BY <2>2, <2>5
  <2>7. IsPrefix(Tail(p), Tail(q))
    BY <2>5, <2>6, JoinOrder
  <2>8. Tail(p) = Tail(q)
    BY <2>7, <2>4, <1>1, <1>3
  <2> QED BY <2>5, <2>8
<1>7. IsScope(w)
  BY <1>1, <1>4, <1>5, <1>6 DEF IsScope, IsTree
<1>8. ASSUME NEW key \in Key, <<key>> \in DOMAIN values PROVE key \in Names(w)
  <2>1. PICK r \in DOMAIN values[<<key>>] : TRUE
    BY <1>3, <1>8
  <2>2. <<key>> \in Path /\ Len(<<key>>) = 1 /\ <<key>>[1] = key /\ r \in Path
    BY <1>3, <1>8, <2>1, OneName, EmptySeq DEF Path
  <2> DEFINE p == <<key>> \o r
  <2>3. p \in Path /\ p[1] = key /\ Rest(<<key>>, p) = r /\ Len(p) = 1 + Len(r) /\ Len(r) \in Nat
    <3>1. 1 \in 1..Len(<<key>>)
      BY <2>2
    <3> QED BY <3>1, <2>2, Joined, LenProperties DEF Path
  <2> HIDE DEF p
  <2>4. p # << >>
    <3>1. Len(<< >>) = 0 /\ Len(p) # 0
      BY <2>3
    <3> QED BY <3>1
  <2>5. Tail(p) = r
    BY <2>3, <2>4, HeadAndTail
  <2>6. p \in DOMAIN w
    BY <1>1, <1>8, <2>1, <2>3, <2>4, <2>5
  <2> QED BY <2>6, <2>3 DEF Names
<1>9. \A key \in Names(w) : <<key>> \in DOMAIN values
  BY <1>1 DEF Names
<1> QED BY <1>7, <1>8, <1>9 DEF w

\* An input's name reads what is below it.
LEMMA LookupInput ==
  ASSUME NEW values, IsInputs(values), NEW path \in Path, path # << >>, <<path[1]>> \in DOMAIN values
  PROVE  Lookup(InputFields(values), path) = Lookup(values[<<path[1]>>], Tail(path))
<1> DEFINE w == InputFields(values)
           u == values[<<path[1]>>]
<1>1. /\ \A p \in DOMAIN w :
              /\ p \in Path /\ p # << >> /\ p[1] \in Key /\ <<p[1]>> \in DOMAIN values
              /\ Tail(p) \in DOMAIN values[<<p[1]>>]
              /\ w[p] = values[<<p[1]>>][Tail(p)]
      /\ \A p \in Path : p # << >> /\ <<p[1]>> \in DOMAIN values /\ Tail(p) \in DOMAIN values[<<p[1]>>] =>
              p \in DOMAIN w
      /\ w = [p \in DOMAIN w |-> w[p]]
  BY InputFieldsAt
<1> HIDE DEF w
<1>2. DOMAIN w \subseteq Path /\ DOMAIN u \subseteq Path
  BY <1>1 DEF IsInputs, IsJson, IsTree
<1>3. /\ path[1] \in Key /\ <<path[1]>> \in Path /\ Tail(path) \in Path /\ path = <<path[1]>> \o Tail(path)
      /\ Len(path) \in Nat \ {0}
  BY HeadAndTail, Roots
<1>4. ASSUME NEW p \in Path
      PROVE  /\ path \o p \in Path /\ path \o p # << >> /\ (path \o p)[1] = path[1]
             /\ Tail(path \o p) = Tail(path) \o p
  <2>1. path \o p \in Path /\ Len(path \o p) = Len(path) + Len(p) /\ Len(p) \in Nat
    BY Joined, LenProperties DEF Path
  <2>2. path \o p # << >>
    <3>1. Len(<< >>) = 0 /\ Len(path \o p) # 0
      BY <2>1, <1>3
    <3> QED BY <3>1
  <2>3. (path \o p)[1] = path[1]
    <3>1. 1 \in 1..Len(path)
      BY <1>3
    <3> QED BY <3>1, Joined
  <2>4. path \o p = <<path[1]>> \o (Tail(path) \o p)
    BY <1>3, ConcatAssociative DEF Path
  <2>5. Tail(path) \o p \in Path
    BY <1>3, Joined
  <2>6. Rest(<<path[1]>>, path \o p) = Tail(path) \o p
    <3> DEFINE head == <<path[1]>>
               t == Tail(path) \o p
    <3>1. head \in Path /\ t \in Path /\ path \o p = head \o t
      BY <2>4, <2>5, <1>3
    <3> HIDE DEF head, t
    <3>2. Rest(head, head \o t) = t
      BY <3>1, Joined
    <3>3. Rest(head, path \o p) = t
      BY <3>1, <3>2
    <3> QED BY <3>3 DEF head, t
  <2>7. Rest(<<path[1]>>, path \o p) = Tail(path \o p)
    BY <2>1, <2>2, <2>3, HeadAndTail
  <2> QED BY <2>1, <2>2, <2>3, <2>6, <2>7
<1>5. \A p \in Path : /\ path \o p \in DOMAIN w <=> Tail(path) \o p \in DOMAIN u
                      /\ path \o p \in DOMAIN w => w[path \o p] = u[Tail(path) \o p]
  BY <1>1, <1>4
<1>6. Lookup(w, path) = Lookup(u, Tail(path))
  <2> HIDE DEF u
  <2> QED BY <1>2, <1>3, <1>5, LookupSame
<1> QED BY <1>6 DEF w
----------------------------------------------------------------------------
(* Writing rows one after another. *)

\* Induction up to a bound.
LEMMA UpTo ==
  ASSUME NEW N \in Nat, NEW S, 0 \in S, \A n \in 1..N : n - 1 \in S => n \in S
  PROVE  0..N \subseteq S
<1> DEFINE T == {n \in Nat : n <= N => n \in S}
<1>1. 0 \in T
  OBVIOUS
<1>2. \A n \in Nat : n \in T => n + 1 \in T
  <2>1. TAKE n \in Nat
  <2>2. HAVE n \in T
  <2>3. CASE n + 1 <= N
    <3>1. n \in S /\ n + 1 \in 1..N /\ (n + 1) - 1 = n
      BY <2>2, <2>3
    <3> QED BY <3>1
  <2>4. CASE ~(n + 1 <= N)
    BY <2>4
  <2> QED BY <2>3, <2>4
<1>3. Nat \subseteq T
  <2> HIDE DEF T
  <2> QED BY <1>1, <1>2, NatInd
<1> QED BY <1>3

\* Rows, each of a target, a kind and a value.
IsRow(row) ==
  /\ row = Written(row.target, row.kind, row.value)
  /\ row.target \in Path \ {<< >>} /\ IsJson(row.value)
IsRows(rows) == Len(rows) \in Nat /\ \A n \in 1..Len(rows) : IsRow(rows[n])

\* What is written is a row.
LEMMA RowWritten ==
  ASSUME NEW target \in Path, target # << >>, NEW kind, NEW value, IsJson(value)
  PROVE  LET row == Written(target, kind, value) IN
         IsRow(row) /\ row.target = target /\ row.kind = kind /\ row.value = value
BY DEF IsRow, Written

\* A row whose kind or value is another.
LEMMA RowExcept ==
  ASSUME NEW row, IsRow(row), NEW kind, NEW value, IsJson(value)
  PROVE  /\ [row EXCEPT !.kind = kind] = Written(row.target, kind, row.value)
         /\ [row EXCEPT !.value = value] = Written(row.target, row.kind, value)
<1> DEFINE t == row.target  k == row.kind  v == row.value
<1>1. \A a, b, c, d : /\ [[target |-> a, kind |-> b, value |-> c] EXCEPT !.kind = d] = [target |-> a, kind |-> d, value |-> c]
                      /\ [[target |-> a, kind |-> b, value |-> c] EXCEPT !.value = d] = [target |-> a, kind |-> b, value |-> d]
  OBVIOUS
<1>2. row = [target |-> t, kind |-> k, value |-> v]
  BY DEF IsRow, Written
<1> HIDE DEF t, k, v
<1>3. /\ [row EXCEPT !.kind = kind] = [[target |-> t, kind |-> k, value |-> v] EXCEPT !.kind = kind]
      /\ [row EXCEPT !.value = value] = [[target |-> t, kind |-> k, value |-> v] EXCEPT !.value = value]
  BY <1>2
<1> QED BY <1>1, <1>3 DEF t, k, v, Written

\* The recursion of Writing is well defined.
Wrote(v, rows, n, w) ==
  w = [k \in 0..n |-> IF k = 0 THEN v
                      ELSE IF rows[k].kind = "local" THEN w[k - 1]
                      ELSE SetPath(w[k - 1], rows[k].target, rows[k].value)]

\* Each row is written into what the rows before it have left.
LEMMA WritingDef ==
  ASSUME NEW v, NEW rows, Len(rows) \in Nat
  PROVE  /\ Writing(v, rows)[0] = v
         /\ \A n \in 1..Len(rows) : Writing(v, rows)[n] =
              IF rows[n].kind = "local" THEN Writing(v, rows)[n - 1]
              ELSE SetPath(Writing(v, rows)[n - 1], rows[n].target, rows[n].value)
<1> DEFINE S == {n \in Nat : \E w : Wrote(v, rows, n, w)}
<1>1. 0 \in S
  <2> DEFINE w == [k \in 0..0 |-> v]
  <2>1. \A k \in 0..0 : k = 0
    OBVIOUS
  <2>2. Wrote(v, rows, 0, w)
    BY <2>1 DEF Wrote
  <2> QED BY <2>2
<1>2. \A n \in Nat : n \in S => n + 1 \in S
  <2>1. TAKE n \in Nat
  <2>2. HAVE n \in S
  <2>3. PICK w : Wrote(v, rows, n, w)
    BY <2>2
  <2> DEFINE x == [k \in 0..(n + 1) |->
                     IF k <= n THEN w[k]
                     ELSE IF rows[k].kind = "local" THEN w[n] ELSE SetPath(w[n], rows[k].target, rows[k].value)]
             y == [k \in 0..(n + 1) |-> IF k = 0 THEN v
                      ELSE IF rows[k].kind = "local" THEN x[k - 1]
                      ELSE SetPath(x[k - 1], rows[k].target, rows[k].value)]
  <2>4. \A k \in 0..n : w[k] = IF k = 0 THEN v
                      ELSE IF rows[k].kind = "local" THEN w[k - 1]
                      ELSE SetPath(w[k - 1], rows[k].target, rows[k].value)
    BY <2>3 DEF Wrote
  <2>5. \A k \in 0..(n + 1) : x[k] = y[k]
    <3>1. TAKE k \in 0..(n + 1)
    <3>2. CASE k = 0
      BY <3>2, <2>4
    <3>3. CASE k \in 1..n
      <4>1. k - 1 \in 0..(n + 1) /\ k - 1 <= n /\ k \in 0..n /\ k # 0
        BY <3>3
      <4>2. x[k - 1] = w[k - 1] /\ x[k] = w[k]
        BY <4>1
      <4> QED BY <4>1, <4>2, <2>4
    <3>4. CASE k = n + 1
      <4>1. k - 1 \in 0..(n + 1) /\ k - 1 = n /\ ~(k <= n) /\ k # 0
        BY <3>4
      <4>2. x[k - 1] = w[n]
        BY <4>1
      <4> QED BY <4>1, <4>2
    <3> QED BY <3>2, <3>3, <3>4
  <2>6. x = y
    BY <2>5
  <2>7. Wrote(v, rows, n + 1, x)
    BY <2>6 DEF Wrote
  <2> QED BY <2>7
<1>3. Nat \subseteq S
  <2> HIDE DEF S
  <2> QED BY <1>1, <1>2, NatInd
<1>4. PICK w : Wrote(v, rows, Len(rows), w)
  BY <1>3
<1>5. Wrote(v, rows, Len(rows), Writing(v, rows))
  BY <1>4 DEF Wrote, Writing
<1> DEFINE z == Writing(v, rows)
<1>6. \A k \in 0..Len(rows) : z[k] = IF k = 0 THEN v
                      ELSE IF rows[k].kind = "local" THEN z[k - 1]
                      ELSE SetPath(z[k - 1], rows[k].target, rows[k].value)
  <2> HIDE DEF z
  <2> USE DEF Wrote
  <2>1. Wrote(v, rows, Len(rows), z)
    BY <1>5 DEF z
  <2> QED BY <2>1
<1> HIDE DEF z
<1>7. z[0] = v
  BY <1>6
<1>8. \A n \in 1..Len(rows) : z[n] = IF rows[n].kind = "local" THEN z[n - 1]
                                     ELSE SetPath(z[n - 1], rows[n].target, rows[n].value)
  BY <1>6
<1> QED BY <1>7, <1>8 DEF z

\* What is written leaves a scope.
LEMMA ScopeWrite ==
  ASSUME NEW v, IsScope(v), NEW rows, IsRows(rows)
  PROVE  /\ \A n \in 0..Len(rows) : IsScope(Writing(v, rows)[n])
         /\ IsScope(WriteAll(v, rows))
<1> DEFINE w == Writing(v, rows)
           S == {n \in 0..Len(rows) : IsScope(w[n])}
<1>1. Len(rows) \in Nat
  BY DEF IsRows, IsRow
<1>2. /\ w[0] = v
      /\ \A n \in 1..Len(rows) : w[n] = IF rows[n].kind = "local" THEN w[n - 1]
                                        ELSE SetPath(w[n - 1], rows[n].target, rows[n].value)
  BY <1>1, WritingDef
<1> HIDE DEF w
<1>3. 0 \in S
  BY <1>1, <1>2
<1>4. \A n \in 1..Len(rows) : n - 1 \in S => n \in S
  <2>1. TAKE n \in 1..Len(rows)
  <2>2. HAVE n - 1 \in S
  <2>3. rows[n].target \in Path /\ rows[n].target # << >> /\ IsJson(rows[n].value)
    BY DEF IsRows, IsRow
  <2>4. IsTree(w[n - 1])
    BY <2>2 DEF IsScope
  <2>5. IsScope(SetPath(w[n - 1], rows[n].target, rows[n].value))
    BY <2>3, <2>4, TreeSetPath
  <2> QED BY <2>2, <2>5, <1>1, <1>2
<1>5. 0..Len(rows) \subseteq S
  <2> HIDE DEF S
  <2> QED BY <1>1, <1>3, <1>4, UpTo
<1>6. \A n \in 0..Len(rows) : IsScope(w[n])
  BY <1>5
<1>7. IsScope(w[Len(rows)])
  BY <1>1, <1>6
<1> QED BY <1>6, <1>7 DEF w, WriteAll

\* Both have the same at p, or neither has anything.
SameAt(v, w, p) == (p \in DOMAIN v <=> p \in DOMAIN w) /\ (p \in DOMAIN v => v[p] = w[p])

\* A path that no row overlaps from k on keeps what it has.
LEMMA BesideFrom ==
  ASSUME NEW v, IsScope(v), NEW rows, IsRows(rows), NEW p \in Path,
         NEW k \in 0..Len(rows), NEW u \in k..Len(rows),
         \A n \in (k + 1)..u : rows[n].kind # "local" => ~Overlap(rows[n].target, p)
  PROVE  SameAt(Writing(v, rows)[k], Writing(v, rows)[u], p)
<1> DEFINE w == Writing(v, rows)
           S == {n \in 0..Len(rows) : k <= n /\ n <= u => SameAt(w[k], w[n], p)}
<1>1. Len(rows) \in Nat
  BY DEF IsRows, IsRow
<1>2. \A n \in 1..Len(rows) : w[n] = IF rows[n].kind = "local" THEN w[n - 1]
                                     ELSE SetPath(w[n - 1], rows[n].target, rows[n].value)
  BY <1>1, WritingDef
<1>3. \A n \in 0..Len(rows) : IsScope(w[n])
  BY ScopeWrite
<1> HIDE DEF w
<1>4. 0 \in S
  <2>1. k <= 0 => k = 0
    BY <1>1
  <2> QED BY <2>1, <1>1 DEF SameAt
<1>5. \A n \in 1..Len(rows) : n - 1 \in S => n \in S
  <2>1. TAKE n \in 1..Len(rows)
  <2>2. HAVE n - 1 \in S
  <2>3. CASE ~(k < n /\ n <= u)
    <3>1. k <= n /\ n <= u => k = n
      BY <2>3, <1>1
    <3> QED BY <3>1, <1>1 DEF SameAt
  <2>4. CASE k < n /\ n <= u /\ rows[n].kind = "local"
    <3>1. w[n] = w[n - 1]
      BY <2>4, <1>2
    <3>2. SameAt(w[k], w[n - 1], p)
      BY <2>2, <2>4, <1>1
    <3> QED BY <3>1, <3>2, <1>1
  <2>5. CASE k < n /\ n <= u /\ rows[n].kind # "local"
    <3> DEFINE target == rows[n].target
               new == rows[n].value
               before == w[n - 1]
    <3>1. target \in Path /\ DOMAIN new \subseteq Path /\ ~Overlap(target, p)
      <4>1. n \in (k + 1)..u
        BY <2>5, <1>1
      <4> QED BY <4>1, <2>5 DEF IsRows, IsRow, IsJson, IsTree
    <3>2. DOMAIN before \subseteq Path
      <4>1. IsScope(before)
        BY <1>1, <1>3
      <4> QED BY <4>1 DEF IsScope, IsTree
    <3>3. w[n] = SetPath(before, target, new)
      BY <2>5, <1>2
    <3>4. SameAt(w[k], before, p)
      BY <2>2, <2>5, <1>1
    <3> HIDE DEF target, new, before
    <3>5. IsWritten(w[n], before, target, new)
      BY <3>1, <3>2, <3>3, SetPathAt
    <3>6. /\ p \in DOMAIN before => p \in DOMAIN w[n] /\ w[n][p] = before[p]
          /\ p \in DOMAIN w[n] => p \in DOMAIN before
      BY <3>1, <3>5 DEF IsWritten, Overlap
    <3>7. SameAt(w[k], w[n], p)
      BY <3>4, <3>6 DEF SameAt
    <3> QED BY <3>7
  <2> QED BY <2>3, <2>4, <2>5
<1>6. 0..Len(rows) \subseteq S
  <2> HIDE DEF S
  <2> QED BY <1>1, <1>4, <1>5, UpTo
<1>7. u \in S /\ k <= u /\ u <= u
  BY <1>1, <1>6
<1> QED BY <1>7 DEF w

\* A path that no row overlaps keeps what it has.
LEMMA WriteBeside ==
  ASSUME NEW v, IsScope(v), NEW rows, IsRows(rows), NEW p \in Path,
         \A n \in 1..Len(rows) : rows[n].kind # "local" => ~Overlap(rows[n].target, p)
  PROVE  /\ p \in DOMAIN WriteAll(v, rows) <=> p \in DOMAIN v
         /\ p \in DOMAIN v => WriteAll(v, rows)[p] = v[p]
<1>1. Len(rows) \in Nat
  BY DEF IsRows, IsRow
<1>2. Writing(v, rows)[0] = v
  BY <1>1, WritingDef
<1>3. 0 \in 0..Len(rows) /\ Len(rows) \in 0..Len(rows) /\ (0 + 1)..Len(rows) = 1..Len(rows)
  BY <1>1
<1>4. SameAt(Writing(v, rows)[0], Writing(v, rows)[Len(rows)], p)
  BY <1>3, BesideFrom
<1> QED BY <1>2, <1>4 DEF SameAt, WriteAll

\* What is below a path stays there as long as nothing takes its place.
LEMMA HasFrom ==
  ASSUME NEW v, IsScope(v), NEW rows, IsRows(rows), NEW k \in 1..Len(rows), rows[k].kind # "local",
         NEW u \in k..Len(rows),
         \A n \in (k + 1)..u : rows[n].kind # "local" => ~IsPrefix(rows[n].target, rows[k].target)
  PROVE  Has(Writing(v, rows)[u], rows[k].target)
<1> DEFINE w == Writing(v, rows)
           t == rows[k].target
           S == {n \in 0..Len(rows) : k <= n /\ n <= u => Has(w[n], t)}
<1>1. Len(rows) \in Nat /\ k \in Nat \ {0}
  BY DEF IsRows, IsRow
<1>2. \A n \in 1..Len(rows) : w[n] = IF rows[n].kind = "local" THEN w[n - 1]
                                     ELSE SetPath(w[n - 1], rows[n].target, rows[n].value)
  BY <1>1, WritingDef
<1>3. \A n \in 0..Len(rows) : IsScope(w[n])
  BY ScopeWrite
<1>4. t \in Path
  BY DEF IsRows, IsRow
<1> HIDE DEF w
<1>5. 0 \in S
  BY <1>1
<1>6. \A n \in 1..Len(rows) : n - 1 \in S => n \in S
  <2>1. TAKE n \in 1..Len(rows)
  <2>2. HAVE n - 1 \in S
  <2>3. CASE ~(k <= n /\ n <= u)
    BY <2>3
  <2>4. CASE k < n /\ n <= u /\ rows[n].kind = "local"
    BY <2>2, <2>4, <1>1, <1>2
  <2>5. CASE k <= n /\ n <= u /\ rows[n].kind # "local"
    <3> DEFINE target == rows[n].target
               new == rows[n].value
               before == w[n - 1]
    <3>1. target \in Path /\ DOMAIN new \subseteq Path /\ DOMAIN new # {}
      BY <2>5 DEF IsRows, IsRow, IsJson, IsTree
    <3>2. DOMAIN before \subseteq Path
      <4>1. IsScope(before)
        BY <1>1, <1>3
      <4> QED BY <4>1 DEF IsScope, IsTree
    <3>3. w[n] = SetPath(before, target, new)
      BY <2>5, <1>2
    <3>4. n = k \/ (~IsPrefix(target, t) /\ Has(before, t))
      BY <2>2, <2>5, <1>1
    <3>5. n = k => target = t
      OBVIOUS
    <3> HIDE DEF target, new, before, t
    <3>6. IsWritten(w[n], before, target, new)
      BY <3>1, <3>2, <3>3, SetPathAt
    <3>7. CASE IsPrefix(t, target)
      <4>1. PICK q \in DOMAIN new : TRUE
        BY <3>1
      <4>2. target \o q \in DOMAIN w[n] /\ q \in Path
        BY <4>1, <3>1, <3>6 DEF IsWritten
      <4>3. IsPrefix(t, target \o q)
        BY <4>2, <3>1, <3>7, <1>4, Joined, PrefixOrder
      <4> QED BY <4>2, <4>3 DEF Has, Within
    <3>8. CASE ~IsPrefix(t, target)
      <4>1. ~Overlap(target, t) /\ Has(before, t)
        BY <3>4, <3>5, <3>8, <1>4, PrefixOrder DEF Overlap
      <4>2. PICK q \in DOMAIN before : IsPrefix(t, q)
        BY <4>1 DEF Has, Within
      <4>3. ~Overlap(target, q)
        BY <4>1, <4>2, <3>1, <3>2, <1>4, StaysApart DEF Overlap
      <4>4. q \in DOMAIN w[n]
        BY <4>2, <4>3, <3>6 DEF IsWritten
      <4> QED BY <4>2, <4>4 DEF Has, Within
    <3> QED BY <3>7, <3>8 DEF t
  <2> QED BY <2>3, <2>4, <2>5, <1>1
<1>7. 0..Len(rows) \subseteq S
  <2> HIDE DEF S
  <2> QED BY <1>1, <1>5, <1>6, UpTo
<1>8. u \in S /\ k <= u /\ u <= u
  BY <1>1, <1>7
<1> QED BY <1>8 DEF w

\* The last row that writes at or around a target is the one that is read there.
LEMMA WriteLast ==
  ASSUME NEW v, IsScope(v), NEW rows, IsRows(rows), NEW k \in 1..Len(rows), rows[k].kind # "local",
         \A n \in (k + 1)..Len(rows) : rows[n].kind # "local" => ~Overlap(rows[n].target, rows[k].target)
  PROVE  Lookup(WriteAll(v, rows), rows[k].target) = rows[k].value
<1> DEFINE w == Writing(v, rows)
           t == rows[k].target
           S == {n \in 0..Len(rows) : n >= k => Lookup(w[n], t) = rows[k].value}
<1>1. Len(rows) \in Nat /\ k \in Nat \ {0} /\ k <= Len(rows)
  BY DEF IsRows, IsRow
<1>2. /\ w[0] = v
      /\ \A n \in 1..Len(rows) : w[n] = IF rows[n].kind = "local" THEN w[n - 1]
                                        ELSE SetPath(w[n - 1], rows[n].target, rows[n].value)
  BY <1>1, WritingDef
<1>3. \A n \in 0..Len(rows) : IsScope(w[n])
  BY ScopeWrite
<1>4. t \in Path
  BY DEF IsRows, IsRow
<1> HIDE DEF w
<1>5. 0 \in S
  BY <1>1
<1>6. \A n \in 1..Len(rows) : n - 1 \in S => n \in S
  <2>1. TAKE n \in 1..Len(rows)
  <2>2. HAVE n - 1 \in S
  <2>3. IsScope(w[n - 1]) /\ rows[n].target \in Path /\ IsJson(rows[n].value)
    BY <1>1, <1>3 DEF IsRows, IsRow
  <2>4. IsTree(w[n - 1]) /\ DOMAIN w[n - 1] \subseteq Path /\ DOMAIN rows[n].value \subseteq Path
    BY <2>3 DEF IsScope, IsTree, IsJson
  <2>5. CASE n = k
    <3>1. w[n] = SetPath(w[n - 1], t, rows[k].value)
      BY <2>5, <1>2
    <3>2. Lookup(SetPath(w[n - 1], t, rows[k].value), t) = rows[k].value
      <4> HIDE DEF t
      <4>1. IsJson(rows[k].value)
        BY <2>3, <2>5
      <4> QED BY <4>1, <2>4, <1>4, LookupWritten
    <3> QED BY <3>1, <3>2
  <2>6. CASE n > k
    <3>1. n - 1 >= k /\ n \in (k + 1)..Len(rows)
      BY <2>6, <1>1
    <3>2. Lookup(w[n - 1], t) = rows[k].value
      BY <2>2, <3>1
    <3>3. CASE rows[n].kind = "local"
      BY <3>2, <3>3, <1>2
    <3>4. CASE rows[n].kind # "local"
      <4>1. ~Overlap(rows[n].target, t)
        BY <3>1, <3>4
      <4>2. Lookup(SetPath(w[n - 1], rows[n].target, rows[n].value), t) = Lookup(w[n - 1], t)
        BY <4>1, <2>3, <2>4, <1>4, LookupBeside
      <4> QED BY <4>2, <3>2, <3>4, <1>2
    <3> QED BY <3>3, <3>4
  <2>7. CASE n < k
    BY <2>7, <1>1
  <2> QED BY <2>5, <2>6, <2>7, <1>1
<1>7. 0..Len(rows) \subseteq S
  <2> HIDE DEF S
  <2> QED BY <1>1, <1>5, <1>6, UpTo
<1>8. Len(rows) \in S
  BY <1>1, <1>7
<1> QED BY <1>8, <1>1 DEF w, WriteAll

\* An object that was written is what is at its target until another takes its
\* place; any other value is as it was.
LEMMA AsLeftAt ==
  ASSUME NEW passes, NEW rows, Len(rows) \in Nat, NEW written \in SUBSET (1..Len(rows)),
         NEW n \in 1..Len(rows), NEW value
  PROVE  IF IsObject(value)
         THEN \E u \in n..Len(rows) :
                /\ AsLeft(passes, rows, written, n, value) = Lookup(passes[u], rows[n].target)
                /\ \A m \in (n + 1)..u : m \in written => ~IsPrefix(rows[m].target, rows[n].target)
                /\ \/ u = Len(rows)
                   \/ u + 1 \in written /\ IsPrefix(rows[u + 1].target, rows[n].target)
         ELSE AsLeft(passes, rows, written, n, value) = value
<1>1. CASE ~IsObject(value)
  BY <1>1 DEF AsLeft
<1>2. CASE IsObject(value)
  <2> DEFINE over == {m \in written : m > n /\ IsPrefix(rows[m].target, rows[n].target)}
             until == IF over = {} THEN Len(rows) ELSE Min(over) - 1
  <2>1. AsLeft(passes, rows, written, n, value) = Lookup(passes[until], rows[n].target)
    BY <1>2 DEF AsLeft
  <2>2. over \in SUBSET Nat /\ over \subseteq 1..Len(rows)
    <3>1. over \subseteq written
      OBVIOUS
    <3> HIDE DEF over
    <3> QED BY <3>1
  <2>3. /\ until \in n..Len(rows)
        /\ \A m \in (n + 1)..until : m \notin over
        /\ until = Len(rows) \/ until + 1 \in over
    <3>1. CASE over = {}
      BY <3>1
    <3>2. CASE over # {}
      <4> HIDE DEF over
      <4>1. \E m \in over : \A k \in over : m <= k
        BY <3>2, <2>2, NatMin
      <4>2. Min(over) \in over /\ \A k \in over : Min(over) <= k
        BY <4>1 DEF Min
      <4>3. until = Min(over) - 1
        BY <3>2
      <4> DEFINE k == Min(over)
      <4> HIDE DEF k, until
      <4>4. k > n /\ k \in 1..Len(rows)
        BY <4>2, <2>2 DEF k, over
      <4> QED BY <4>2, <4>3, <4>4 DEF k
    <3> QED BY <3>1, <3>2
  <2> HIDE DEF until
  <2>4. \A m \in (n + 1)..until : m \in written => ~IsPrefix(rows[m].target, rows[n].target)
    BY <2>3
  <2> QED BY <1>2, <2>1, <2>3, <2>4
<1> QED BY <1>1, <1>2
----------------------------------------------------------------------------
(* Masking. *)

\* A path that ends with the first sensitive key on it.
IsMask(c) ==
  /\ c \in Path /\ Len(c) \in Nat \ {0} /\ c[Len(c)] \in Sensitive
  /\ \A n \in 1..(Len(c) - 1) : c[n] \notin Sensitive

\* What is shown of a hidden path.
LEMMA ShownHidden ==
  ASSUME NEW p \in Path, IsHidden(p)
  PROVE  IsMask(Shown(p)) /\ IsPrefix(Shown(p), p)
<1> DEFINE First(n) == n \in DOMAIN p /\ p[n] \in Sensitive /\ \A m \in 1..(n - 1) : p[m] \notin Sensitive
           T == {n \in DOMAIN p : p[n] \in Sensitive}
           k == CHOOSE n \in DOMAIN p : p[n] \in Sensitive /\ \A m \in 1..(n - 1) : p[m] \notin Sensitive
<1>1. Len(p) \in Nat /\ DOMAIN p = 1..Len(p) /\ \A n \in 1..Len(p) : p[n] \in Key
  BY LenProperties, ElementOfSeq DEF Path
<1>2. \E n \in DOMAIN p : p[n] \in Sensitive /\ \A m \in 1..(n - 1) : p[m] \notin Sensitive
  <2>1. T \in SUBSET Nat /\ T # {}
    BY <1>1 DEF IsHidden
  <2>2. PICK n \in T : \A m \in T : n <= m
    BY <2>1, NatMin
  <2>3. \A m \in 1..(n - 1) : p[m] \notin Sensitive
    <3>1. TAKE m \in 1..(n - 1)
    <3>2. m \in DOMAIN p /\ ~(n <= m)
      BY <1>1, <2>2
    <3> QED BY <3>2, <2>2
  <2> QED BY <2>2, <2>3
<1>3. k \in DOMAIN p /\ p[k] \in Sensitive /\ \A m \in 1..(k - 1) : p[m] \notin Sensitive
  BY <1>2
<1>4. Shown(p) = SubSeq(p, 1, k)
  BY DEF Shown
<1> HIDE DEF k
<1>5. k \in Nat \ {0} /\ k <= Len(p)
  BY <1>1, <1>3
<1> DEFINE c == SubSeq(p, 1, k)
<1>6. c \in Path /\ Len(c) = k /\ \A n \in 1..k : c[n] = p[n]
  <2>1. \A i \in 1..k : p[i] \in Key
    BY <1>1, <1>5
  <2>2. /\ c \in Seq(Key) /\ Len(c) = IF 1 <= k THEN k - 1 + 1 ELSE 0
        /\ \A i \in 1..(k - 1 + 1) : c[i] = p[1 + i - 1]
    BY <2>1, <1>5, SubSeqProperties
  <2> QED BY <2>2, <1>5 DEF Path
<1> HIDE DEF c
<1>7. IsMask(c)
  BY <1>3, <1>5, <1>6 DEF IsMask
<1>8. IsPrefix(c, p)
  BY <1>5, <1>6, PrefixAt
<1> QED BY <1>4, <1>7, <1>8 DEF c

\* A path has one mask on it.
LEMMA MaskOnce ==
  ASSUME NEW c, IsMask(c), NEW d, IsMask(d), Overlap(c, d)
  PROVE  c = d
<1>1. ASSUME NEW a, IsMask(a), NEW b, IsMask(b), IsPrefix(a, b) PROVE a = b
  <2>1. a \in Path /\ b \in Path /\ Len(a) \in Nat \ {0} /\ Len(b) \in Nat \ {0}
    BY <1>1 DEF IsMask
  <2>2. Len(a) <= Len(b) /\ \A n \in 1..Len(a) : a[n] = b[n]
    BY <1>1, <2>1, PrefixAt
  <2>3. b[Len(a)] \in Sensitive
    BY <1>1, <2>1, <2>2 DEF IsMask
  <2>4. ~(Len(a) <= Len(b) - 1)
    BY <1>1, <2>1, <2>3 DEF IsMask
  <2>5. Len(a) = Len(b)
    BY <2>1, <2>2, <2>4
  <2> QED BY <2>1, <2>2, <2>5, SeqEqual DEF Path
<1> QED BY <1>1 DEF Overlap

\* What is below a mask is shown as the mask.
LEMMA MaskShown ==
  ASSUME NEW c, IsMask(c), NEW p \in Path, IsPrefix(c, p)
  PROVE  IsHidden(p) /\ Shown(p) = c
<1>1. c \in Path /\ Len(c) \in Nat \ {0} /\ Len(p) \in Nat /\ DOMAIN p = 1..Len(p)
  BY LenProperties DEF IsMask, Path
<1>2. Len(c) <= Len(p) /\ \A n \in 1..Len(c) : c[n] = p[n]
  BY <1>1, PrefixAt
<1>3. IsHidden(p)
  <2>1. Len(c) \in DOMAIN p /\ p[Len(c)] \in Sensitive
    BY <1>1, <1>2 DEF IsMask
  <2> QED BY <2>1 DEF IsHidden
<1>4. IsMask(Shown(p)) /\ IsPrefix(Shown(p), p)
  BY <1>3, ShownHidden
<1>5. Overlap(Shown(p), c)
  BY <1>1, <1>4, PrefixOrder DEF IsMask
<1> QED BY <1>3, <1>4, <1>5, MaskOnce

\* What is shown of a path.
LEMMA ShownAt ==
  ASSUME NEW p \in Path
  PROVE  /\ Shown(p) \in Path /\ IsPrefix(Shown(p), p)
         /\ ~IsHidden(p) => Shown(p) = p
         /\ IsHidden(Shown(p)) <=> IsHidden(p)
         /\ Shown(Shown(p)) = Shown(p)
         /\ p # << >> => Shown(p) # << >>
<1>1. CASE ~IsHidden(p)
  BY <1>1, PrefixOrder DEF Shown
<1>2. CASE IsHidden(p)
  <2> DEFINE c == Shown(p)
  <2>1. IsMask(c) /\ IsPrefix(c, p)
    BY <1>2, ShownHidden
  <2> HIDE DEF c
  <2>2. c \in Path /\ IsPrefix(c, c) /\ c # << >>
    <3>1. Len(<< >>) = 0
      OBVIOUS
    <3> QED BY <2>1, <3>1, PrefixOrder DEF IsMask
  <2>3. IsHidden(c) /\ Shown(c) = c
    BY <2>1, <2>2, MaskShown
  <2> QED BY <1>2, <2>1, <2>2, <2>3 DEF c
<1> QED BY <1>1, <1>2

\* All below a hidden path is shown as the path is.
LEMMA ShownBelow ==
  ASSUME NEW p \in Path, IsHidden(p), NEW q \in Path, IsPrefix(p, q)
  PROVE  IsHidden(q) /\ Shown(q) = Shown(p)
<1>1. IsMask(Shown(p)) /\ IsPrefix(Shown(p), p) /\ Shown(p) \in Path
  BY ShownHidden, ShownAt
<1>2. IsPrefix(Shown(p), q)
  BY <1>1, PrefixOrder
<1> QED BY <1>1, <1>2, MaskShown

\* Joining to a path that is not hidden changes nothing of what is hidden.
LEMMA ShownJoined ==
  ASSUME NEW t \in Path, ~IsHidden(t), NEW p \in Path
  PROVE  /\ IsHidden(t \o p) <=> IsHidden(p)
         /\ Shown(t \o p) = t \o Shown(p)
<1>1. /\ Len(t) \in Nat /\ Len(p) \in Nat /\ t \o p \in Path /\ Len(t \o p) = Len(t) + Len(p)
      /\ \A n \in 1..Len(t) : (t \o p)[n] = t[n] /\ t[n] \notin Sensitive
  <2>1. DOMAIN t = 1..Len(t)
    BY LenProperties DEF Path
  <2> QED BY <2>1, Joined, LenProperties DEF Path, IsHidden
<1>2. CASE IsHidden(p)
  <2> DEFINE c == Shown(p)
  <2>1. IsMask(c) /\ IsPrefix(c, p) /\ c \in Path /\ Len(c) \in Nat \ {0}
    BY <1>2, ShownHidden DEF IsMask
  <2> HIDE DEF c
  <2>2. /\ t \o c \in Path /\ Len(t \o c) = Len(t) + Len(c)
        /\ \A n \in 1..Len(t) : (t \o c)[n] = t[n]
        /\ \A n \in 1..Len(c) : (t \o c)[Len(t) + n] = c[n]
    BY <2>1, Joined
  <2>3. IsMask(t \o c)
    <3>1. Len(t \o c) \in Nat \ {0}
      BY <2>1, <2>2, <1>1
    <3>2. (t \o c)[Len(t \o c)] \in Sensitive
      BY <2>1, <2>2 DEF IsMask
    <3>3. \A n \in 1..(Len(t \o c) - 1) : (t \o c)[n] \notin Sensitive
      <4>1. TAKE n \in 1..(Len(t \o c) - 1)
      <4>2. CASE n \in 1..Len(t)
        BY <4>2, <1>1, <2>2
      <4>3. CASE n \notin 1..Len(t)
        <5>1. n - Len(t) \in 1..(Len(c) - 1) /\ n - Len(t) \in 1..Len(c) /\ Len(t) + (n - Len(t)) = n
          BY <4>3, <1>1, <2>1, <2>2
        <5>2. (t \o c)[n] = c[n - Len(t)]
          BY <5>1, <2>2
        <5> QED BY <5>1, <5>2, <2>1 DEF IsMask
      <4> QED BY <4>2, <4>3
    <3> QED BY <3>1, <3>2, <3>3, <2>2 DEF IsMask
  <2>4. IsPrefix(t \o c, t \o p)
    BY <2>1, JoinOrder
  <2>5. IsHidden(t \o p) /\ Shown(t \o p) = t \o c
    BY <2>3, <2>4, <1>1, MaskShown
  <2> QED BY <2>5, <1>2 DEF c
<1>3. CASE ~IsHidden(p)
  <2>1. ~IsHidden(t \o p)
    <3>1. \A n \in 1..Len(t \o p) : (t \o p)[n] \notin Sensitive
      <4>1. TAKE n \in 1..Len(t \o p)
      <4>2. CASE n \in 1..Len(t)
        BY <4>2, <1>1
      <4>3. CASE n \notin 1..Len(t)
        <5>1. n - Len(t) \in 1..Len(p) /\ Len(t) + (n - Len(t)) = n
          BY <4>3, <1>1
        <5>2. (t \o p)[n] = p[n - Len(t)]
          BY <5>1, Joined
        <5>3. DOMAIN p = 1..Len(p)
          BY LenProperties DEF Path
        <5> QED BY <5>1, <5>2, <5>3, <1>3 DEF IsHidden
      <4> QED BY <4>2, <4>3
    <3>2. DOMAIN (t \o p) = 1..Len(t \o p)
      BY <1>1, LenProperties DEF Path
    <3> QED BY <3>1, <3>2 DEF IsHidden
  <2>2. Shown(t \o p) = t \o p /\ Shown(p) = p
    BY <2>1, <1>3 DEF Shown
  <2> QED BY <2>1, <2>2, <1>3
<1> QED BY <1>2, <1>3

\* Paths overlap as what is shown of them does, but for what one mask covers.
LEMMA ShownOverlap ==
  ASSUME NEW t \in Path, NEW q \in Path
  PROVE  /\ ~IsHidden(t) => (Overlap(t, Shown(q)) <=> Overlap(t, q))
         /\ IsHidden(t) /\ ~Overlap(Shown(t), Shown(q)) => ~Overlap(t, q)
         /\ IsHidden(t) /\ ~Overlap(t, q) => Shown(q) = Shown(t) \/ ~Overlap(Shown(t), Shown(q))
<1>1. /\ Shown(q) \in Path /\ IsPrefix(Shown(q), q) /\ (~IsHidden(q) => Shown(q) = q)
      /\ Shown(t) \in Path /\ IsPrefix(Shown(t), t)
  BY ShownAt
<1>2. CASE IsHidden(q)
  <2>1. IsMask(Shown(q))
    BY <1>2, ShownHidden
  <2>2. ASSUME ~IsHidden(t), Overlap(t, Shown(q)) PROVE Overlap(t, q)
    <3>1. ~IsPrefix(Shown(q), t)
      BY <2>1, <2>2, MaskShown
    <3> QED BY <3>1, <2>2, <1>1, PrefixOrder DEF Overlap
  <2>3. ASSUME ~IsHidden(t), Overlap(t, q) PROVE Overlap(t, Shown(q))
    <3>1. CASE IsPrefix(t, q)
      BY <3>1, <1>1, PrefixOrder
    <3>2. CASE IsPrefix(q, t)
      BY <3>2, <1>1, PrefixOrder DEF Overlap
    <3> QED BY <3>1, <3>2, <2>3 DEF Overlap
  <2>4. ASSUME IsHidden(t), Overlap(Shown(t), Shown(q)) PROVE Shown(q) = Shown(t)
    BY <2>1, <2>4, ShownHidden, MaskOnce
  <2>5. ASSUME IsHidden(t), Overlap(t, q) PROVE Overlap(Shown(t), Shown(q))
    <3>1. CASE IsPrefix(t, q)
      <4>1. IsPrefix(Shown(t), q)
        BY <3>1, <1>1, PrefixOrder
      <4> QED BY <4>1, <1>1, PrefixOrder
    <3>2. CASE IsPrefix(q, t)
      <4>1. IsPrefix(Shown(q), t)
        BY <3>2, <1>1, PrefixOrder
      <4> QED BY <4>1, <1>1, PrefixOrder
    <3> QED BY <3>1, <3>2, <2>5 DEF Overlap
  <2> QED BY <2>2, <2>3, <2>4, <2>5
<1>3. CASE ~IsHidden(q)
  <2>1. Shown(q) = q
    BY <1>1, <1>3
  <2>2. ASSUME IsHidden(t), Overlap(Shown(t), q) PROVE Overlap(t, q)
    <3>1. ~IsPrefix(Shown(t), q)
      BY <2>2, <1>3, ShownHidden, MaskShown
    <3>2. IsPrefix(q, Shown(t))
      BY <3>1, <2>2 DEF Overlap
    <3> QED BY <3>2, <1>1, PrefixOrder DEF Overlap
  <2>3. ASSUME IsHidden(t), Overlap(t, q) PROVE Overlap(Shown(t), q)
    <3>1. CASE IsPrefix(t, q)
      BY <3>1, <1>1, PrefixOrder DEF Overlap
    <3>2. CASE IsPrefix(q, t)
      BY <3>2, <1>1, PrefixOrder
    <3> QED BY <3>1, <3>2, <2>3 DEF Overlap
  <2> QED BY <2>1, <2>2, <2>3
<1> QED BY <1>2, <1>3

\* w is v with what is sensitive masked.
IsRedacted(w, v) ==
  /\ \A q \in DOMAIN v : Shown(q) \in DOMAIN w
  /\ \A r \in DOMAIN w : /\ r \in Path /\ \E q \in DOMAIN v : r = Shown(q)
                         /\ w[r] = IF IsHidden(r) THEN Redacted ELSE v[r]
  /\ w = [r \in DOMAIN w |-> w[r]]

\* That is what Redact returns.
LEMMA RedactAt ==
  ASSUME NEW v, DOMAIN v \subseteq Path
  PROVE  IsRedacted(Redact(v), v) /\ DOMAIN Redact(v) \subseteq Path
<1> DEFINE w == Redact(v)
           D == {Shown(q) : q \in DOMAIN v}
<1>1. w = [p \in D |-> IF IsHidden(p) THEN Redacted ELSE v[p]]
  BY DEF Redact
<1> HIDE DEF w
<1>2. DOMAIN w = D /\ w = [r \in DOMAIN w |-> w[r]] /\ \A r \in D : w[r] = IF IsHidden(r) THEN Redacted ELSE v[r]
  BY <1>1
<1>3. \A r \in D : r \in Path
  BY ShownAt
<1>4. IsRedacted(w, v) /\ DOMAIN w \subseteq Path
  BY <1>2, <1>3 DEF IsRedacted
<1> QED BY <1>4 DEF w

\* A place that is not masked is one of the value.
LEMMA Unmasked ==
  ASSUME NEW v, DOMAIN v \subseteq Path, NEW r \in DOMAIN Redact(v), ~IsHidden(r)
  PROVE  r \in DOMAIN v /\ Redact(v)[r] = v[r]
<1>1. r \in Path /\ (\E q \in DOMAIN v : r = Shown(q)) /\ Redact(v)[r] = v[r]
  BY RedactAt DEF IsRedacted
<1>2. PICK q \in DOMAIN v : r = Shown(q)
  BY <1>1
<1>3. q \in Path /\ ~IsHidden(q)
  BY <1>2, ShownAt
<1>4. r = q
  BY <1>2, <1>3, ShownAt
<1> QED BY <1>1, <1>2, <1>4

\* What is shown of a tree is a tree.
LEMMA TreeRedact ==
  ASSUME NEW v, IsTree(v)
  PROVE  /\ IsTree(Redact(v))
         /\ IsJson(v) => IsJson(Redact(v))
         /\ IsScope(v) => IsScope(Redact(v))
<1> DEFINE w == Redact(v)
           shown == [q \in DOMAIN v |-> Shown(q)]
<1>1. /\ v \in [DOMAIN v -> Leaf] /\ DOMAIN v \subseteq Path /\ IsFiniteSet(DOMAIN v)
      /\ \A p, q \in DOMAIN v : IsPrefix(p, q) => p = q
  BY DEF IsTree
<1>2. IsRedacted(w, v) /\ DOMAIN w \subseteq Path
  BY <1>1, RedactAt
<1>3. \A r \in DOMAIN w : ~IsHidden(r) => r \in DOMAIN v /\ w[r] = v[r]
  BY <1>1, Unmasked
<1>4. IsFiniteSet(DOMAIN w)
  <2>1. IsFiniteSet({shown[q] : q \in DOMAIN v})
    <3> HIDE DEF shown
    <3> QED BY <1>1, FiniteImage
  <2>2. {shown[q] : q \in DOMAIN v} = DOMAIN w
    BY DEF Redact
  <2> QED BY <2>1, <2>2
<1> HIDE DEF w
<1>5. w \in [DOMAIN w -> Leaf]
  <2>1. \A r \in DOMAIN w : w[r] \in Leaf
    BY <1>1, <1>2, <1>3, Leaves DEF IsRedacted
  <2> QED BY <2>1, <1>2 DEF IsRedacted
<1>6. \A p, q \in DOMAIN w : IsPrefix(p, q) => p = q
  <2>1. TAKE p, q \in DOMAIN w
  <2>2. HAVE IsPrefix(p, q)
  <2>3. p \in Path /\ q \in Path
    BY <1>2
  <2>4. PICK s \in DOMAIN v : q = Shown(s)
    BY <1>2 DEF IsRedacted
  <2>5. s \in Path /\ IsPrefix(q, s) /\ Shown(q) = q
    BY <2>4, <1>1, ShownAt
  <2>6. CASE IsHidden(p)
    <3>1. Shown(q) = Shown(p)
      BY <2>2, <2>3, <2>6, ShownBelow
    <3>2. PICK u \in DOMAIN v : p = Shown(u)
      BY <1>2 DEF IsRedacted
    <3>3. Shown(p) = p
      BY <3>2, <1>1, ShownAt
    <3> QED BY <3>1, <3>3, <2>5
  <2>7. CASE ~IsHidden(p)
    <3>1. p \in DOMAIN v /\ IsPrefix(p, s)
      BY <2>2, <2>3, <2>5, <2>7, <1>3, PrefixOrder
    <3>2. p = s
      BY <3>1, <1>1
    <3> QED BY <3>2, <2>2, <2>3, <2>5, PrefixOrder
  <2> QED BY <2>6, <2>7
<1>7. IsTree(w)
  BY <1>2, <1>4, <1>5, <1>6 DEF IsTree
<1>8. IsJson(v) => IsJson(w)
  BY <1>7, <1>2 DEF IsJson, IsRedacted
<1>9. IsScope(v) => IsScope(w)
  <2>1. SUFFICES ASSUME << >> \notin DOMAIN v, << >> \in DOMAIN w PROVE FALSE
    BY <1>7 DEF IsScope
  <2>2. PICK q \in DOMAIN v : Shown(q) = << >>
    BY <2>1, <1>2 DEF IsRedacted
  <2> QED BY <2>1, <2>2, <1>1, ShownAt
<1> QED BY <1>7, <1>8, <1>9 DEF w

\* Masking twice is masking once.
LEMMA RedactTwice ==
  ASSUME NEW v, DOMAIN v \subseteq Path
  PROVE  Redact(Redact(v)) = Redact(v)
<1> DEFINE w == Redact(v)
           x == Redact(w)
<1>1. IsRedacted(w, v) /\ DOMAIN w \subseteq Path
  BY RedactAt
<1> HIDE DEF w
<1>2. IsRedacted(x, w) /\ DOMAIN x \subseteq Path
  BY <1>1, RedactAt
<1> HIDE DEF x
<1>3. \A r \in DOMAIN w : Shown(r) = r
  BY <1>1, ShownAt DEF IsRedacted
<1>4. DOMAIN x = DOMAIN w
  BY <1>2, <1>3 DEF IsRedacted
<1>5. \A r \in DOMAIN x : x[r] = w[r]
  BY <1>1, <1>2, <1>4 DEF IsRedacted
<1>6. x = w
  BY <1>1, <1>2, <1>4, <1>5, SameFcn DEF IsRedacted
<1> QED BY <1>6 DEF x, w

\* What is shown of a value written at t.
Cut(t, new) == IF IsHidden(t) THEN Scalar(Redacted) ELSE Redact(new)

\* Masking what was written is writing what is shown of it where it is shown.
LEMMA RedactSetPath ==
  ASSUME NEW v, DOMAIN v \subseteq Path, NEW t \in Path, NEW new, DOMAIN new \subseteq Path, DOMAIN new # {}
  PROVE  Redact(SetPath(v, t, new)) = SetPath(Redact(v), Shown(t), Cut(t, new))
<1> DEFINE w == SetPath(v, t, new)
           r == Redact(w)
           u == Redact(v)
           c == Shown(t)
           cut == Cut(t, new)
           x == SetPath(u, c, cut)
<1>1. IsWritten(w, v, t, new)
  BY SetPathAt
<1>2. DOMAIN w \subseteq Path
  BY <1>1 DEF IsWritten
<1> HIDE DEF w
<1>3. IsRedacted(r, w) /\ DOMAIN r \subseteq Path
  BY <1>2, RedactAt
<1>4. IsRedacted(u, v) /\ DOMAIN u \subseteq Path
  BY RedactAt
<1>5. c \in Path
  BY ShownAt
<1>6. DOMAIN cut \subseteq Path
  <2>1. CASE IsHidden(t)
    BY <2>1, Leaves, TreeScalar DEF Cut, IsJson, IsTree
  <2>2. CASE ~IsHidden(t)
    BY <2>2, RedactAt DEF Cut
  <2> QED BY <2>1, <2>2
<1>7. \A q \in DOMAIN r : ~IsHidden(q) => q \in DOMAIN w /\ r[q] = w[q]
  BY <1>2, Unmasked
<1>8. \A q \in DOMAIN u : ~IsHidden(q) => q \in DOMAIN v /\ u[q] = v[q]
  BY Unmasked
<1> HIDE DEF r, u, cut
<1>9. IsWritten(x, u, c, cut)
  BY <1>4, <1>5, <1>6, SetPathAt
<1> HIDE DEF x, c

\* A leaf of v beside t is shown on both sides.
<1>10. ASSUME NEW q \in DOMAIN v, ~Overlap(t, q), Shown(q) # c \/ ~IsHidden(t)
       PROVE  Shown(q) \in DOMAIN r /\ Shown(q) \in DOMAIN x /\ r[Shown(q)] = x[Shown(q)]
  <2> DEFINE s == Shown(q)
  <2>1. q \in Path /\ q \in DOMAIN w /\ w[q] = v[q] /\ s \in DOMAIN u /\ s \in DOMAIN r
    BY <1>1, <1>3, <1>4, <1>10 DEF IsWritten, IsRedacted
  <2>2. ~Overlap(c, s)
    <3>1. CASE IsHidden(t)
      BY <3>1, <1>10, <2>1, ShownOverlap DEF c
    <3>2. CASE ~IsHidden(t)
      BY <3>2, <1>10, <2>1, ShownOverlap, ShownAt DEF c
    <3> QED BY <3>1, <3>2
  <2>3. s \in DOMAIN x /\ x[s] = u[s]
    BY <2>1, <2>2, <1>9 DEF IsWritten
  <2>4. CASE IsHidden(s)
    BY <2>1, <2>3, <2>4, <1>3, <1>4 DEF IsRedacted
  <2>5. CASE ~IsHidden(s)
    <3>1. s = q
      BY <2>1, <2>5, ShownAt
    <3> QED BY <3>1, <2>1, <2>3, <2>5, <1>7, <1>8
  <2> QED BY <2>1, <2>3, <2>4, <2>5

\* So is the mask over t, ...
<1>11. ASSUME IsHidden(t) PROVE c \in DOMAIN r /\ c \in DOMAIN x /\ r[c] = x[c]
  <2>1. PICK p \in DOMAIN new : TRUE
    OBVIOUS
  <2>2. t \o p \in DOMAIN w /\ t \o p \in Path /\ IsPrefix(t, t \o p)
    BY <2>1, <1>1, Joined DEF IsWritten
  <2>3. Shown(t \o p) = c /\ IsHidden(c)
    BY <2>2, <1>11, ShownBelow, ShownAt DEF c
  <2>4. c \in DOMAIN r /\ r[c] = Redacted
    BY <2>2, <2>3, <1>3 DEF IsRedacted
  <2>5. << >> \in DOMAIN cut /\ cut[<< >>] = Redacted
    BY <1>11, Leaves, TreeScalar DEF cut, Cut
  <2>6. c \o << >> = c
    BY <1>5, ConcatEmptySeq DEF Path
  <2>7. c \in DOMAIN x /\ x[c] = Redacted
    BY <2>5, <2>6, <1>9 DEF IsWritten
  <2> QED BY <2>4, <2>7

\* ... or what is written there.
<1>12. ASSUME ~IsHidden(t), NEW p \in DOMAIN new
       PROVE  Shown(t \o p) \in DOMAIN r /\ Shown(t \o p) \in DOMAIN x /\ r[Shown(t \o p)] = x[Shown(t \o p)]
  <2>1. p \in Path /\ t \o p \in DOMAIN w /\ t \o p \in Path /\ c = t
    BY <1>1, <1>12, Joined, ShownAt DEF IsWritten, c
  <2> DEFINE s == Shown(p)
  <2>2. Shown(t \o p) = t \o s /\ (IsHidden(t \o s) <=> IsHidden(s)) /\ s \in Path
    BY <1>12, <2>1, ShownJoined, ShownAt
  <2>3. IsRedacted(cut, new)
    BY <1>12, RedactAt DEF cut, Cut
  <2>4. s \in DOMAIN cut /\ cut[s] = IF IsHidden(s) THEN Redacted ELSE new[s]
    BY <2>3 DEF IsRedacted
  <2>5. t \o s \in DOMAIN x /\ x[t \o s] = cut[s]
    BY <2>1, <2>4, <1>9 DEF IsWritten
  <2>6. t \o s \in DOMAIN r /\ r[t \o s] = IF IsHidden(t \o s) THEN Redacted ELSE w[t \o s]
    BY <2>1, <2>2, <1>3 DEF IsRedacted
  <2>7. CASE IsHidden(s)
    BY <2>2, <2>4, <2>5, <2>6, <2>7
  <2>8. CASE ~IsHidden(s)
    <3>1. s = p
      BY <2>1, <2>8, ShownAt
    <3>2. w[t \o s] = new[s]
      BY <3>1, <1>1 DEF IsWritten
    <3> QED BY <3>2, <2>2, <2>4, <2>5, <2>6, <2>8
  <2> QED BY <2>7, <2>8
<1>13. \A s \in DOMAIN r : s \in DOMAIN x /\ r[s] = x[s]
  <2>1. TAKE s \in DOMAIN r
  <2>2. PICK q \in DOMAIN w : s = Shown(q)
    BY <1>3 DEF IsRedacted
  <2>3. q \in Path
    BY <1>2
  <2>4. CASE q \in DOMAIN v /\ ~Overlap(t, q)
    <3>1. CASE IsHidden(t) /\ s = c
      BY <3>1, <1>11
    <3>2. CASE ~(IsHidden(t) /\ s = c)
      BY <3>2, <2>2, <2>4, <1>10
    <3> QED BY <3>1, <3>2
  <2>5. CASE IsPrefix(t, q) /\ q = t \o Rest(t, q) /\ Rest(t, q) \in DOMAIN new
    <3>1. CASE IsHidden(t)
      <4>1. s = c
        BY <3>1, <2>2, <2>3, <2>5, ShownBelow DEF c
      <4> QED BY <4>1, <3>1, <1>11
    <3>2. CASE ~IsHidden(t)
      <4>1. Shown(t \o Rest(t, q)) \in DOMAIN x /\ r[Shown(t \o Rest(t, q))] = x[Shown(t \o Rest(t, q))]
        BY <3>2, <2>5, <1>12
      <4> QED BY <4>1, <2>2, <2>5
    <3> QED BY <3>1, <3>2
  <2> QED BY <2>2, <2>4, <2>5, <1>1 DEF IsWritten
<1>14. \A s \in DOMAIN x : s \in DOMAIN r
  <2>1. TAKE s \in DOMAIN x
  <2>2. CASE s \in DOMAIN u /\ ~Overlap(c, s)
    <3>1. PICK q \in DOMAIN v : s = Shown(q)
      BY <2>2, <1>4 DEF IsRedacted
    <3>2. ~Overlap(t, q)
      <4>1. q \in Path
        OBVIOUS
      <4>2. ~IsHidden(t) => c = t
        BY ShownAt DEF c
      <4> QED BY <4>1, <4>2, <3>1, <2>2, ShownOverlap DEF c
    <3>3. q \in DOMAIN w
      BY <3>2, <1>1 DEF IsWritten
    <3> QED BY <3>1, <3>3, <1>3 DEF IsRedacted
  <2>3. CASE IsPrefix(c, s) /\ s = c \o Rest(c, s) /\ Rest(c, s) \in DOMAIN cut
    <3>1. CASE IsHidden(t)
      <4>1. Rest(c, s) = << >>
        BY <2>3, <3>1, Leaves, TreeScalar DEF cut, Cut
      <4>2. s = c
        BY <4>1, <2>3, <1>5, ConcatEmptySeq DEF Path
      <4> QED BY <4>2, <3>1, <1>11
    <3>2. CASE ~IsHidden(t)
      <4>1. IsRedacted(cut, new) /\ c = t
        BY <3>2, RedactAt, ShownAt DEF cut, Cut, c
      <4>2. PICK p \in DOMAIN new : Rest(c, s) = Shown(p)
        BY <4>1, <2>3 DEF IsRedacted
      <4>3. Shown(t \o p) = t \o Shown(p)
        BY <3>2, ShownJoined
      <4> QED BY <4>1, <4>2, <4>3, <3>2, <2>3, <1>12
    <3> QED BY <3>1, <3>2
  <2> QED BY <2>2, <2>3, <1>9 DEF IsWritten
<1>15. r = x
  <2>1. DOMAIN r = DOMAIN x
    BY <1>13, <1>14
  <2> QED BY <2>1, <1>3, <1>9, <1>13, SameFcn DEF IsRedacted, IsWritten
<1> QED BY <1>15 DEF r, x, w, u, c, cut
----------------------------------------------------------------------------
(* The mappings of a step. *)

\* A set of numbers with a bound has a greatest element.
LEMMA NatMax ==
  ASSUME NEW N \in Nat, NEW T \in SUBSET (0..N), T # {}
  PROVE  \E m \in T : \A n \in T : n <= m
<1> DEFINE U == {N - n : n \in T}
<1>1. U \in SUBSET Nat /\ U # {}
  <2>1. \A n \in T : N - n \in Nat
    OBVIOUS
  <2> QED BY <2>1
<1>2. PICK u \in U : \A n \in U : u <= n
  <2> HIDE DEF U
  <2> QED BY <1>1, NatMin
<1>3. PICK m \in T : u = N - m
  BY <1>2
<1>4. \A n \in T : N - m <= N - n
  BY <1>2, <1>3
<1>5. \A n \in T : n <= m
  BY <1>4
<1> QED BY <1>5

\* The parts of a design are what they should be.
LEMMA DesignAt ==
  ASSUME design \in Designs, NEW s \in Step
  PROVE  /\ design[s].kind \in {"service", "user", "message", "script"}
         /\ design[s].inputs \in Seq(Mapping) /\ design[s].outputs \in Seq(Mapping)
         /\ design[s].shape \in Seq(Mapping) /\ design[s].whole \in Path
BY Inputs DEF IsDesign

\* The mappings of a step, one by one.
LEMMA MappingAt ==
  ASSUME NEW mappings \in Seq(Mapping)
  PROVE  /\ Len(mappings) \in Nat /\ DOMAIN mappings = 1..Len(mappings)
         /\ (mappings = << >>) <=> (Len(mappings) = 0)
         /\ \A n \in 1..Len(mappings) :
              /\ mappings[n].target \in Path /\ mappings[n].target # << >>
              /\ mappings[n].source.kind \in {"text", "feel", "broken"}
              /\ mappings[n].source.value \in Leaf /\ mappings[n].source.path \in Path
              /\ mappings[n].source.kind = "feel" => mappings[n].source.path # << >>
              /\ mappings[n].target \in TargetsIn(mappings)
         /\ \A target \in TargetsIn(mappings) : target \in Path /\ target # << >>
         /\ IsFiniteSet(TargetsIn(mappings))
<1>1. Len(mappings) \in Nat /\ DOMAIN mappings = 1..Len(mappings)
  BY LenProperties
<1>2. (mappings = << >>) <=> (Len(mappings) = 0)
  BY EmptySeq
<1>3. \A n \in 1..Len(mappings) :
         /\ mappings[n].target \in Path /\ mappings[n].target # << >>
         /\ mappings[n].source.kind \in {"text", "feel", "broken"}
         /\ mappings[n].source.value \in Leaf /\ mappings[n].source.path \in Path
         /\ mappings[n].source.kind = "feel" => mappings[n].source.path # << >>
  <2>1. TAKE n \in 1..Len(mappings)
  <2>2. mappings[n] \in Mapping
    BY ElementOfSeq
  <2> QED BY <2>2 DEF Mapping, Source
<1>4. \A n \in 1..Len(mappings) : mappings[n].target \in TargetsIn(mappings)
  BY <1>1 DEF TargetsIn
<1>5. \A target \in TargetsIn(mappings) : target \in Path /\ target # << >>
  BY <1>1, <1>3 DEF TargetsIn
<1>6. IsFiniteSet(TargetsIn(mappings))
  <2> DEFINE targets == [n \in 1..Len(mappings) |-> mappings[n].target]
  <2>1. IsFiniteSet(1..Len(mappings))
    BY <1>1, FS_Interval
  <2>2. IsFiniteSet({targets[n] : n \in 1..Len(mappings)})
    <3> HIDE DEF targets
    <3> QED BY <2>1, FiniteImage
  <2>3. {targets[n] : n \in 1..Len(mappings)} = TargetsIn(mappings)
    BY <1>1 DEF TargetsIn
  <2> QED BY <2>2, <2>3
<1> QED BY <1>1, <1>2, <1>3, <1>4, <1>5, <1>6

\* What a source yields is a value.
LEMMA JsonInputValue ==
  ASSUME NEW mappings \in Seq(Mapping), NEW n \in 1..Len(mappings), NEW scope, IsTree(scope)
  PROVE  IsJson(InputValue(mappings[n].source, scope))
<1>1. mappings[n].source.value \in Leaf /\ mappings[n].source.path \in Path
  BY MappingAt
<1> QED BY <1>1, TreeScalar, TreeLookup DEF InputValue

\* The inputs of a step are values by target.
LEMMA InputValuesAt ==
  ASSUME design \in Designs, NEW s \in Step, NEW scope, IsTree(scope)
  PROVE  IsInputs(InputValues(s, scope)) /\ DOMAIN InputValues(s, scope) = TargetsIn(design[s].inputs)
<1> DEFINE inputs == design[s].inputs
           values == InputValues(s, scope)
           Latest(target, n) == /\ inputs[n].target = target
                                /\ \A m \in DOMAIN inputs : inputs[m].target = target => m <= n
<1>1. inputs \in Seq(Mapping)
  BY DesignAt
<1>2. values = [target \in TargetsIn(inputs) |->
                  InputValue(inputs[CHOOSE n \in DOMAIN inputs : Latest(target, n)].source, scope)]
  BY DEF InputValues
<1> HIDE DEF inputs, values
<1>3. /\ Len(inputs) \in Nat /\ DOMAIN inputs = 1..Len(inputs)
      /\ \A target \in TargetsIn(inputs) : target \in Path /\ target # << >>
      /\ IsFiniteSet(TargetsIn(inputs))
  BY <1>1, MappingAt
<1>4. ASSUME NEW target \in TargetsIn(inputs)
      PROVE  IsJson(values[target])
  <2> DEFINE T == {n \in DOMAIN inputs : inputs[n].target = target}
  <2>1. T \in SUBSET (0..Len(inputs)) /\ T # {}
    BY <1>3 DEF TargetsIn
  <2>2. PICK n \in T : \A m \in T : m <= n
    <3> HIDE DEF T
    <3> QED BY <2>1, <1>3, NatMax
  <2>3. \E m \in DOMAIN inputs : Latest(target, m)
    BY <2>2
  <2> DEFINE k == CHOOSE m \in DOMAIN inputs : Latest(target, m)
  <2>4. k \in DOMAIN inputs
    BY <2>3
  <2>5. values[target] = InputValue(inputs[k].source, scope)
    BY <1>2
  <2> HIDE DEF k
  <2> QED BY <2>4, <2>5, <1>1, <1>3, JsonInputValue
<1>5. DOMAIN values = TargetsIn(inputs)
  BY <1>2
<1>6. IsInputs(values)
  BY <1>3, <1>4, <1>5 DEF IsInputs
<1> QED BY <1>5, <1>6 DEF inputs, values

----------------------------------------------------------------------------
(* The rows of a result. *)

\* A function from 1..k is a sequence.
LEMMA FcnSeq ==
  ASSUME NEW k \in Nat, NEW f, f = [n \in 1..k |-> f[n]]
  PROVE  f \in Seq({f[n] : n \in 1..k}) /\ Len(f) = k
<1> DEFINE S == {f[n] : n \in 1..k}
<1>1. f \in [1..k -> S]
  <2>1. DOMAIN f = 1..k /\ \A n \in 1..k : f[n] \in S
    OBVIOUS
  <2> QED BY <2>1
<1> HIDE DEF S
<1>2. f \in Seq(S)
  BY <1>1, SeqDef
<1>3. Len(f) \in Nat /\ DOMAIN f = 1..Len(f) /\ DOMAIN f = 1..k
  BY <1>1, <1>2, LenProperties
<1>4. Len(f) = k
  BY <1>3
<1> QED BY <1>2, <1>4 DEF S

\* A sequence of rows.
IsRowSeq(rows) == IsRows(rows) /\ \E S : rows \in Seq(S)

\* A function from 1..k to rows is a sequence of rows.
LEMMA RowsOfFcn ==
  ASSUME NEW k \in Nat, NEW f, f = [n \in 1..k |-> f[n]],
         \A n \in 1..k : IsRow(f[n])
  PROVE  IsRowSeq(f) /\ Len(f) = k
BY FcnSeq DEF IsRowSeq, IsRows

\* The rows of a, then those of b.
AreJoined(rows, a, b) ==
  /\ IsRowSeq(rows)
  /\ Len(a) \in Nat /\ Len(b) \in Nat /\ Len(rows) = Len(a) + Len(b)
  /\ \A n \in 1..Len(a) : rows[n] = a[n]
  /\ \A n \in (Len(a) + 1)..(Len(a) + Len(b)) : n - Len(a) \in 1..Len(b) /\ rows[n] = b[n - Len(a)]
  /\ rows = << >> <=> a = << >> /\ b = << >>

\* Two sequences of rows, one behind the other.
LEMMA RowsJoined ==
  ASSUME NEW a, IsRowSeq(a), NEW b, IsRowSeq(b)
  PROVE  AreJoined(a \o b, a, b)
<1>1. PICK A : a \in Seq(A)
  BY DEF IsRowSeq
<1>2. PICK B : b \in Seq(B)
  BY DEF IsRowSeq
<1> DEFINE S == A \cup B
<1>3. a \in Seq(S) /\ b \in Seq(S)
  BY <1>1, <1>2, SeqMonotonic
<1> HIDE DEF S
<1>4. /\ a \o b \in Seq(S) /\ Len(a \o b) = Len(a) + Len(b) /\ Len(a) \in Nat /\ Len(b) \in Nat
      /\ \A i \in 1 .. Len(a) + Len(b) : (a \o b)[i] = IF i <= Len(a) THEN a[i] ELSE b[i - Len(a)]
  BY <1>3, ConcatProperties, LenProperties
<1>5. \A n \in 1..Len(a) : (a \o b)[n] = a[n]
  BY <1>4
<1>6. \A n \in (Len(a) + 1)..(Len(a) + Len(b)) : n - Len(a) \in 1..Len(b) /\ (a \o b)[n] = b[n - Len(a)]
  BY <1>4
<1>7. \A n \in 1..Len(a \o b) : n \in 1..Len(a) \/ n \in (Len(a) + 1)..(Len(a) + Len(b))
  BY <1>4
<1>8. IsRows(a \o b)
  <2>1. ASSUME NEW n \in 1..Len(a \o b) PROVE IsRow((a \o b)[n])
    <3>1. CASE n \in 1..Len(a)
      BY <3>1, <1>5 DEF IsRowSeq, IsRows
    <3>2. CASE n \in (Len(a) + 1)..(Len(a) + Len(b))
      BY <3>2, <1>6 DEF IsRowSeq, IsRows
    <3> QED BY <3>1, <3>2, <1>7
  <2> QED BY <2>1, <1>4 DEF IsRows
<1>9. a \o b = << >> <=> a = << >> /\ b = << >>
  BY <1>3, ConcatEqualIffEmpty
<1> QED BY <1>4, <1>5, <1>6, <1>8, <1>9 DEF IsRowSeq, AreJoined

\* No rows are rows.
LEMMA RowsNone == IsRowSeq(<< >>)
BY EmptySeq DEF IsRowSeq, IsRows

\* The context in which a result is applied.
Applying(s, result) ==
  design \in Designs /\ s \in Step /\ IsScope(variables) /\ IsJson(result) /\ IsInputs(locals[s])

\* What resultVariable and resultExpression produce.
LEMMA ProducedRows ==
  ASSUME NEW s, NEW result, Applying(s, result)
  PROVE  /\ IsRowSeq(Produced(s, result))
         /\ Produced(s, result) = << >> <=> design[s].whole = << >> /\ design[s].shape = << >>
         /\ \A n \in 1..Len(Produced(s, result)) :
              Produced(s, result)[n].target \in ({design[s].whole} \ {<< >>}) \cup TargetsIn(design[s].shape)
<1> DEFINE whole == Whole(s, result)
           shaped == Shaped(s, result)
           shape == design[s].shape
<1>1. design[s].whole \in Path /\ shape \in Seq(Mapping)
  BY DesignAt DEF Applying
<1>2. /\ IsRowSeq(whole)
      /\ whole = << >> <=> design[s].whole = << >>
      /\ \A n \in 1..Len(whole) : whole[n].target \in {design[s].whole} \ {<< >>}
  <2>1. CASE design[s].whole = << >>
    <3>1. whole = << >>
      BY <2>1 DEF Whole
    <3> QED BY <3>1, <2>1, RowsNone, EmptySeq
  <2>2. CASE design[s].whole # << >>
    <3> DEFINE row == Written(design[s].whole, "whole", result)
    <3>1. whole = <<row>> /\ row.target = design[s].whole /\ IsRow(row)
      BY <2>2, <1>1, RowWritten DEF Whole, Applying
    <3> HIDE DEF row, whole
    <3>2. <<row>> \in Seq({row}) /\ Len(<<row>>) = 1 /\ <<row>>[1] = row /\ <<row>> # << >>
      OBVIOUS
    <3>3. \A n \in 1..Len(<<row>>) : n = 1
      BY <3>2
    <3>4. IsRowSeq(whole)
      BY <3>1, <3>2, <3>3 DEF IsRowSeq, IsRows
    <3> QED BY <3>1, <3>2, <3>3, <3>4, <2>2
  <2> QED BY <2>1, <2>2
<1>3. /\ Len(shape) \in Nat /\ DOMAIN shape = 1..Len(shape)
      /\ (shape = << >>) <=> (Len(shape) = 0)
      /\ \A n \in 1..Len(shape) : /\ shape[n].target \in Path /\ shape[n].target # << >>
                                  /\ shape[n].target \in TargetsIn(shape)
  BY <1>1, MappingAt
<1>4. /\ shaped = [n \in 1..Len(shape) |-> shaped[n]]
      /\ \A n \in 1..Len(shape) : /\ shaped[n].target = shape[n].target
                                  /\ IsRow(shaped[n])
  <2> DEFINE scope == SetPath(variables, <<"response">>, result)
  <2>1. IsTree(scope)
    <3>1. <<"response">> \in Path
      BY Inputs DEF Path
    <3> QED BY <3>1, TreeSetPath DEF Applying, IsScope
  <2>2. shaped = [n \in 1..Len(shape) |-> Written(shape[n].target, "expression", InputValue(shape[n].source, scope))]
    BY <1>3 DEF Shaped
  <2> HIDE DEF scope, shaped
  <2>3. \A n \in 1..Len(shape) : IsJson(InputValue(shape[n].source, scope))
    BY <2>1, <1>1, JsonInputValue
  <2> HIDE DEF shape
  <2>4. ASSUME NEW n \in 1..Len(shape) PROVE shaped[n].target = shape[n].target /\ IsRow(shaped[n])
    <3> DEFINE value == InputValue(shape[n].source, scope)
    <3>1. shaped[n] = Written(shape[n].target, "expression", value)
      BY <2>2
    <3>2. IsJson(value)
      BY <2>3
    <3> HIDE DEF value
    <3> QED BY <3>1, <3>2, <1>3, RowWritten
  <2> QED BY <2>2, <2>4
<1> HIDE DEF whole, shaped
<1>5. IsRowSeq(shaped) /\ Len(shaped) = Len(shape)
  <2>1. \A n \in 1..Len(shape) : IsRow(shaped[n])
    BY <1>4
  <2>2. Len(shape) \in Nat /\ shaped = [n \in 1..Len(shape) |-> shaped[n]]
    BY <1>3, <1>4
  <2> HIDE DEF shape
  <2> QED BY <2>1, <2>2, RowsOfFcn
<1>6. shaped = << >> <=> shape = << >>
  <2>1. shaped = << >> => Len(shaped) = 0
    OBVIOUS
  <2>2. Len(shaped) = 0 => shaped = << >>
    BY <1>5, EmptySeq DEF IsRowSeq
  <2> QED BY <2>1, <2>2, <1>3, <1>5
<1>7. AreJoined(whole \o shaped, whole, shaped)
  BY <1>2, <1>5, RowsJoined
<1>8. \A n \in 1..Len(whole \o shaped) :
        (whole \o shaped)[n].target \in ({design[s].whole} \ {<< >>}) \cup TargetsIn(shape)
  <2>1. TAKE n \in 1..Len(whole \o shaped)
  <2>2. CASE n \in 1..Len(whole)
    BY <2>2, <1>2, <1>7 DEF AreJoined
  <2>3. CASE n \in (Len(whole) + 1)..(Len(whole) + Len(shaped))
    <3>1. n - Len(whole) \in 1..Len(shape) /\ (whole \o shaped)[n] = shaped[n - Len(whole)]
      BY <2>3, <1>5, <1>7 DEF AreJoined
    <3> QED BY <3>1, <1>3, <1>4
  <2> QED BY <2>2, <2>3, <1>7 DEF AreJoined
<1> QED BY <1>2, <1>6, <1>7, <1>8 DEF Produced, whole, shaped, AreJoined

\* What the step's outputs find before the first of them is written.
LEMMA ScopeAt ==
  ASSUME NEW s, NEW result, Applying(s, result)
  PROVE  IsScope(Own(s, result)) /\ IsScope(Scope(s, result))
<1>1. IsScope(IF IsObject(result) THEN FieldsOf(result) ELSE None)
  BY ScopeFields, ScopeNone DEF Applying, IsJson
<1>2. IsRows(Produced(s, result))
  BY ProducedRows DEF IsRowSeq
<1>3. IsScope(Own(s, result))
  BY <1>1, <1>2, ScopeWrite DEF Own
<1>4. IsScope(Spread(InputFields(locals[s]), variables))
  BY ScopeInputFields, ScopeSpread DEF Applying
<1> QED BY <1>3, <1>4, ScopeSpread DEF Scope

\* What output n leaves in the scope.
Left(s, result, n, scope) ==
  LET outputs == design[s].outputs
      target == outputs[n].target
  IN  IF Len(target) > 1 /\ Shares(s, result, n, target[1])
      THEN SetPath(scope, target, InputValue(outputs[n].source, scope)) ELSE scope

\* The recursion of Scopes is well defined.
Seen(s, result, n, w) ==
  w = [k \in 0..n |-> IF k = 0 THEN Scope(s, result) ELSE Left(s, result, k, w[k - 1])]

\* Each output is written into the scope the outputs before it have left.
LEMMA ScopesDef ==
  ASSUME NEW s, NEW result, Len(design[s].outputs) \in Nat
  PROVE  /\ Scopes(s, result)[0] = Scope(s, result)
         /\ \A n \in 1..Len(design[s].outputs) :
              Scopes(s, result)[n] = Left(s, result, n, Scopes(s, result)[n - 1])
<1> DEFINE S == {n \in Nat : \E w : Seen(s, result, n, w)}
           N == Len(design[s].outputs)
           z == Scopes(s, result)
<1>1. 0 \in S
  <2> DEFINE w == [k \in 0..0 |-> Scope(s, result)]
  <2>1. \A k \in 0..0 : k = 0
    OBVIOUS
  <2>2. Seen(s, result, 0, w)
    BY <2>1 DEF Seen
  <2> QED BY <2>2
<1>2. \A n \in Nat : n \in S => n + 1 \in S
  <2>1. TAKE n \in Nat
  <2>2. HAVE n \in S
  <2>3. PICK w : Seen(s, result, n, w)
    BY <2>2
  <2> DEFINE x == [k \in 0..(n + 1) |-> IF k <= n THEN w[k] ELSE Left(s, result, k, w[n])]
             y == [k \in 0..(n + 1) |-> IF k = 0 THEN Scope(s, result) ELSE Left(s, result, k, x[k - 1])]
  <2>4. \A k \in 0..n : w[k] = IF k = 0 THEN Scope(s, result) ELSE Left(s, result, k, w[k - 1])
    BY <2>3 DEF Seen
  <2>5. \A k \in 0..(n + 1) : x[k] = y[k]
    <3>1. TAKE k \in 0..(n + 1)
    <3>2. CASE k = 0
      BY <3>2, <2>4
    <3>3. CASE k \in 1..n
      <4>1. k - 1 \in 0..(n + 1) /\ k - 1 <= n /\ k \in 0..n /\ k # 0
        BY <3>3
      <4>2. x[k - 1] = w[k - 1] /\ x[k] = w[k]
        BY <4>1
      <4> QED BY <4>1, <4>2, <2>4
    <3>4. CASE k = n + 1
      <4>1. k - 1 \in 0..(n + 1) /\ k - 1 = n /\ ~(k <= n) /\ k # 0
        BY <3>4
      <4>2. x[k - 1] = w[n]
        BY <4>1
      <4> QED BY <4>1, <4>2
    <3> QED BY <3>2, <3>3, <3>4
  <2>6. x = y
    BY <2>5
  <2>7. Seen(s, result, n + 1, x)
    BY <2>6 DEF Seen
  <2> QED BY <2>7
<1>3. Nat \subseteq S
  <2> HIDE DEF S
  <2> QED BY <1>1, <1>2, NatInd
<1>4. PICK w : Seen(s, result, N, w)
  BY <1>3
<1>5. Seen(s, result, N, z)
  BY <1>4 DEF Seen, Scopes, Left
<1> HIDE DEF z, N
<1>6. \A k \in 0..N : z[k] = IF k = 0 THEN Scope(s, result) ELSE Left(s, result, k, z[k - 1])
  BY <1>5 DEF Seen
<1>7. N \in Nat
  BY DEF N
<1>8. z[0] = Scope(s, result)
  BY <1>6, <1>7
<1>9. \A n \in 1..N : z[n] = Left(s, result, n, z[n - 1])
  BY <1>6, <1>7
<1> QED BY <1>8, <1>9 DEF z, N

\* What the outputs find is a scope throughout.
LEMMA ScopeScopes ==
  ASSUME NEW s, NEW result, Applying(s, result)
  PROVE  \A n \in 0..Len(design[s].outputs) : IsScope(Scopes(s, result)[n])
<1> DEFINE outputs == design[s].outputs
           z == Scopes(s, result)
           S == {n \in 0..Len(outputs) : IsScope(z[n])}
<1>1. outputs \in Seq(Mapping)
  BY DesignAt DEF Applying
<1>2. Len(outputs) \in Nat
  BY <1>1, MappingAt
<1>3. z[0] = Scope(s, result) /\ \A n \in 1..Len(outputs) : z[n] = Left(s, result, n, z[n - 1])
  BY <1>2, ScopesDef
<1> HIDE DEF z
<1>4. 0 \in S
  BY <1>2, <1>3, ScopeAt
<1>5. \A n \in 1..Len(outputs) : n - 1 \in S => n \in S
  <2>1. TAKE n \in 1..Len(outputs)
  <2>2. HAVE n - 1 \in S
  <2>3. outputs[n].target \in Path /\ outputs[n].target # << >>
    BY <1>1, MappingAt
  <2>4. IsTree(z[n - 1])
    BY <2>2 DEF IsScope
  <2>5. IsJson(InputValue(outputs[n].source, z[n - 1]))
    <3> HIDE DEF outputs
    <3> QED BY <2>4, <1>1, JsonInputValue
  <2>6. IsScope(SetPath(z[n - 1], outputs[n].target, InputValue(outputs[n].source, z[n - 1])))
    BY <2>3, <2>4, <2>5, TreeSetPath
  <2>7. IsScope(z[n])
    BY <2>2, <2>6, <1>3 DEF Left
  <2> QED BY <2>7
<1>6. 0..Len(outputs) \subseteq S
  <2> HIDE DEF S
  <2> QED BY <1>2, <1>4, <1>5, UpTo
<1> QED BY <1>6 DEF z

\* The rows of a step with outputs: these, and what stays local.
LEMMA OutputRowsAt ==
  ASSUME NEW s, NEW result, Applying(s, result)
  PROVE  /\ IsRowSeq(OutputRows(s, result))
         /\ Len(design[s].outputs) \in Nat /\ Len(OutputRows(s, result)) \in Nat
         /\ Len(design[s].outputs) <= Len(OutputRows(s, result))
         /\ \A n \in 1..Len(design[s].outputs) :
              /\ OutputRows(s, result)[n].target = design[s].outputs[n].target
              /\ OutputRows(s, result)[n].kind = "mapping"
              /\ OutputRows(s, result)[n].value =
                   InputValue(design[s].outputs[n].source, Scopes(s, result)[n - 1])
         /\ \A n \in (Len(design[s].outputs) + 1)..Len(OutputRows(s, result)) :
              OutputRows(s, result)[n].kind = "local"
<1> DEFINE outputs == design[s].outputs
           produced == Produced(s, result)
           a == Outputs(s, result)
           b == [n \in DOMAIN produced |-> [produced[n] EXCEPT !.kind = "local"]]
           rows == OutputRows(s, result)
<1>1. outputs \in Seq(Mapping)
  BY DesignAt DEF Applying
<1>2. /\ Len(outputs) \in Nat /\ DOMAIN outputs = 1..Len(outputs)
      /\ \A n \in 1..Len(outputs) : outputs[n].target \in Path /\ outputs[n].target # << >>
  BY <1>1, MappingAt
<1>3. \A n \in 1..Len(outputs) : IsJson(InputValue(outputs[n].source, Scopes(s, result)[n - 1]))
  <2>1. TAKE n \in 1..Len(outputs)
  <2>2. n - 1 \in 0..Len(outputs)
    BY <1>2
  <2>3. IsTree(Scopes(s, result)[n - 1])
    BY <2>2, ScopeScopes DEF IsScope
  <2> HIDE DEF outputs
  <2> QED BY <2>3, <1>1, JsonInputValue
<1>4. /\ a = [n \in 1..Len(outputs) |-> a[n]]
      /\ \A n \in 1..Len(outputs) :
           /\ IsRow(a[n]) /\ a[n].target = outputs[n].target /\ a[n].kind = "mapping"
           /\ a[n].value = InputValue(outputs[n].source, Scopes(s, result)[n - 1])
  <2>1. a = [n \in 1..Len(outputs) |->
               Written(outputs[n].target, "mapping", InputValue(outputs[n].source, Scopes(s, result)[n - 1]))]
    BY <1>2 DEF Outputs
  <2> HIDE DEF a, outputs
  <2>2. ASSUME NEW n \in 1..Len(outputs)
        PROVE  /\ IsRow(a[n]) /\ a[n].target = outputs[n].target /\ a[n].kind = "mapping"
               /\ a[n].value = InputValue(outputs[n].source, Scopes(s, result)[n - 1])
    <3> DEFINE value == InputValue(outputs[n].source, Scopes(s, result)[n - 1])
    <3>1. a[n] = Written(outputs[n].target, "mapping", value) /\ IsJson(value)
      BY <2>1, <1>3
    <3> HIDE DEF value
    <3>2. IsRow(a[n]) /\ a[n].target = outputs[n].target /\ a[n].kind = "mapping" /\ a[n].value = value
      BY <3>1, <1>2, RowWritten
    <3> QED BY <3>2 DEF value
  <2> QED BY <2>1, <2>2
<1>5. IsRowSeq(a) /\ Len(a) = Len(outputs)
  <2> HIDE DEF a, outputs
  <2> QED BY <1>2, <1>4, RowsOfFcn
<1>6. IsRowSeq(produced)
  BY ProducedRows
<1>7. Len(produced) \in Nat /\ DOMAIN produced = 1..Len(produced)
  BY <1>6, LenProperties DEF IsRowSeq
<1> HIDE DEF produced
<1>8. b = [n \in 1..Len(produced) |-> b[n]] /\ \A n \in 1..Len(produced) : IsRow(b[n]) /\ b[n].kind = "local"
  <2>1. ASSUME NEW n \in 1..Len(produced) PROVE IsRow(b[n]) /\ b[n].kind = "local"
    <3>1. IsRow(produced[n])
      BY <1>6 DEF IsRowSeq, IsRows
    <3>2. b[n] = [produced[n] EXCEPT !.kind = "local"]
      BY <1>7
    <3>3. b[n] = Written(produced[n].target, "local", produced[n].value)
      <4>1. IsJson(produced[n].value)
        BY <3>1 DEF IsRow
      <4> QED BY <3>1, <3>2, <4>1, RowExcept
    <3> HIDE DEF b
    <3> QED BY <3>1, <3>3, RowWritten DEF IsRow
  <2> QED BY <2>1, <1>7
<1> HIDE DEF b
<1>9. IsRowSeq(b) /\ Len(b) = Len(produced)
  BY <1>7, <1>8, RowsOfFcn
<1>10. rows = a \o b
  BY DEF OutputRows, b, produced
<1> HIDE DEF a, rows, outputs
<1>11. AreJoined(rows, a, b)
  BY <1>5, <1>9, <1>10, RowsJoined
<1>12. IsRowSeq(rows) /\ Len(rows) \in Nat /\ Len(outputs) <= Len(rows)
  BY <1>2, <1>5, <1>7, <1>9, <1>11 DEF AreJoined
<1>13. \A n \in 1..Len(outputs) : rows[n] = a[n]
  BY <1>5, <1>11 DEF AreJoined
<1>14. \A n \in (Len(outputs) + 1)..Len(rows) : rows[n].kind = "local"
  <2>1. TAKE n \in (Len(outputs) + 1)..Len(rows)
  <2>2. n - Len(a) \in 1..Len(b) /\ rows[n] = b[n - Len(a)]
    BY <1>5, <1>11 DEF AreJoined
  <2> QED BY <2>2, <1>8, <1>9
<1> QED BY <1>2, <1>4, <1>12, <1>13, <1>14 DEF rows, outputs

\* The names of the fields of a value.
LEMMA FieldNames ==
  ASSUME NEW v, NEW key
  PROVE  key \in Names(FieldsOf(v)) <=> \E p \in DOMAIN v : p # << >> /\ p[1] = key
BY DEF Names, FieldsOf

\* SetToSeq lists a finite set.
LEMMA Listed ==
  ASSUME NEW S, IsFiniteSet(S)
  PROVE  \E k \in Nat : SetToSeq(S) \in [1..k -> S]
<1> DEFINE k == Cardinality(S)
<1>1. k \in Nat /\ ExistsBijection(1..k, S)
  BY FS_CardinalityType
<1>2. PICK f : f \in Bijection(1..k, S)
  BY <1>1 DEF ExistsBijection
<1>3. f \in [1..k -> S] /\ IsInjective(f)
  BY <1>2 DEF Bijection, Injection, IsInjective
<1>4. SetToSeq(S) \in [1..k -> S]
  BY <1>3 DEF SetToSeq
<1> QED BY <1>1, <1>4

\* A value has finitely many fields, named by keys.
LEMMA FiniteNames ==
  ASSUME NEW v, IsTree(v)
  PROVE  IsFiniteSet(Names(FieldsOf(v))) /\ \A key \in Names(FieldsOf(v)) : key \in Key
<1> DEFINE w == FieldsOf(v)
           f == [p \in DOMAIN w |-> p[1]]
<1>1. IsScope(w)
  BY ScopeFields
<1> HIDE DEF w
<1>2. IsFiniteSet(DOMAIN w) /\ \A key \in Names(w) : key \in Key
  BY <1>1, ScopePaths
<1>3. IsFiniteSet({f[p] : p \in DOMAIN w})
  <2> HIDE DEF f
  <2> QED BY <1>2, FiniteImage
<1>4. Names(w) = {f[p] : p \in DOMAIN w}
  BY DEF Names
<1> QED BY <1>2, <1>3, <1>4 DEF w

\* A result's fields, by name.
LEMMA MergedRows ==
  ASSUME NEW result, IsJson(result)
  PROVE  /\ IsRowSeq(Merged(result))
         /\ \A n \in 1..Len(Merged(result)) :
              IsObject(result) /\ \E key \in Names(FieldsOf(result)) : Merged(result)[n].target = <<key>>
<1> DEFINE keys == SetToSeq(Names(FieldsOf(result)))
           rows == Merged(result)
<1>1. CASE ~IsObject(result)
  <2>1. rows = << >> /\ Len(<< >>) = 0
    BY <1>1 DEF Merged
  <2>2. 1..0 = {}
    OBVIOUS
  <2> QED BY <2>1, <2>2, RowsNone
<1>2. CASE IsObject(result)
  <2>1. IsTree(result)
    BY DEF IsJson
  <2>2. IsFiniteSet(Names(FieldsOf(result))) /\ \A key \in Names(FieldsOf(result)) : key \in Key
    BY <2>1, FiniteNames
  <2>3. PICK k \in Nat : keys \in [1..k -> Names(FieldsOf(result))]
    BY <2>2, Listed
  <2> HIDE DEF keys
  <2>4. DOMAIN keys = 1..k /\ \A n \in 1..k : keys[n] \in Names(FieldsOf(result)) /\ keys[n] \in Key
    BY <2>2, <2>3
  <2>5. rows = [n \in 1..k |-> Written(<<keys[n]>>, "merged", Lookup(result, <<keys[n]>>))]
    BY <1>2, <2>4 DEF Merged, keys
  <2> HIDE DEF rows
  <2>6. rows = [n \in 1..k |-> rows[n]]
    BY <2>5
  <2>7. \A n \in 1..k : rows[n].target = <<keys[n]>> /\ IsRow(rows[n])
    <3>1. TAKE n \in 1..k
    <3>2. <<keys[n]>> \in Path /\ <<keys[n]>> # << >>
      <4>1. << >> \in Path
        BY EmptySeq DEF Path
      <4> QED BY <2>4, <4>1, OneName
    <3>3. IsJson(Lookup(result, <<keys[n]>>))
      BY <2>1, <3>2, TreeLookup
    <3>4. rows[n] = Written(<<keys[n]>>, "merged", Lookup(result, <<keys[n]>>))
      BY <2>5
    <3> QED BY <3>2, <3>3, <3>4, RowWritten
  <2>8. IsRowSeq(rows) /\ Len(rows) = k
    BY <2>6, <2>7, RowsOfFcn
  <2> QED BY <1>2, <2>4, <2>7, <2>8 DEF rows
<1> QED BY <1>1, <1>2

\* What arrives of a result, and the names in it: those of the result and, in a
\* user task's, the id it was routed by.
LEMMA Arrived ==
  ASSUME design \in Designs, NEW s \in Step, NEW result, IsJson(result)
  PROVE  LET payload == Payload(s, Arrives(s, result)) IN
         /\ IsJson(payload)
         /\ design[s].kind # "service" /\ IsObject(payload) =>
              \A key \in Names(FieldsOf(payload)) :
                \/ IsObject(result) /\ key \in Names(FieldsOf(result))
                \/ design[s].kind = "user" /\ key = IdKey
<1> DEFINE plain == IF IsObject(result) THEN result ELSE Scalar(NoFields)
           signal == SetPath(plain, <<IdKey>>, Scalar(RouteId))
           payload == Payload(s, Arrives(s, result))
<1>1. design[s].kind \in {"service", "user", "message", "script"}
  BY DesignAt
<1>2. /\ IsJson(Scalar(NoFields)) /\ IsJson(Scalar(RouteId))
      /\ DOMAIN Scalar(NoFields) = {<< >>} /\ DOMAIN Scalar(RouteId) = {<< >>}
  BY Leaves, TreeScalar
<1>3. IsJson(plain)
  BY <1>2
<1>4. \A p \in DOMAIN plain : p # << >> => p \in DOMAIN result /\ IsObject(result)
  BY <1>2
<1>5. <<IdKey>> \in Path /\ <<IdKey>> # << >> /\ <<IdKey>>[1] = IdKey
  <2>1. << >> \in Path /\ IdKey \in Key
    BY EmptySeq, Inputs DEF Path
  <2> QED BY <2>1, OneName
<1>6. CASE design[s].kind \in {"service", "script"}
  BY <1>6 DEF Payload, Arrives
<1>7. Arrives(s, result) = signal \/ design[s].kind \in {"service", "script"}
  BY <1>1 DEF Arrives
<1> HIDE DEF plain
<1>8. IsTree(plain) /\ DOMAIN plain \subseteq Path
  BY <1>3 DEF IsJson, IsTree
<1>9. IsScope(signal) /\ DOMAIN signal # {}
  BY <1>2, <1>5, <1>8, TreeSetPath
<1>10. IsWritten(signal, plain, <<IdKey>>, Scalar(RouteId))
  <2>1. DOMAIN Scalar(RouteId) \subseteq Path
    BY <1>2 DEF IsJson, IsTree
  <2> QED BY <2>1, <1>5, <1>8, SetPathAt
<1> HIDE DEF signal
<1>11. \A p \in DOMAIN signal : /\ p \in Path /\ p # << >>
                                /\ p[1] = IdKey \/ (p \in DOMAIN plain /\ p # << >>)
  <2>1. TAKE p \in DOMAIN signal
  <2>2. p \in Path /\ p # << >>
    BY <1>9, ScopePaths
  <2>3. CASE IsPrefix(<<IdKey>>, p)
    BY <2>2, <2>3, <1>5, OverlapHeads DEF Overlap
  <2>4. CASE ~IsPrefix(<<IdKey>>, p)
    BY <2>2, <2>4, <1>10 DEF IsWritten
  <2> QED BY <2>2, <2>3, <2>4
<1>12. CASE design[s].kind = "user"
  <2>1. payload = signal
    BY <1>7, <1>12 DEF Payload
  <2>2. IsJson(signal)
    BY <1>9 DEF IsJson, IsScope
  <2>3. ASSUME NEW key \in Names(FieldsOf(signal))
        PROVE  (IsObject(result) /\ key \in Names(FieldsOf(result))) \/ key = IdKey
    <3>1. PICK p \in DOMAIN signal : p # << >> /\ p[1] = key
      BY FieldNames
    <3>2. CASE p \in DOMAIN plain
      BY <3>1, <3>2, <1>4, FieldNames
    <3> QED BY <3>1, <3>2, <1>11
  <2> QED BY <2>1, <2>2, <2>3, <1>12
<1>13. CASE design[s].kind = "message"
  <2> DEFINE data == [p \in {q \in DOMAIN signal : q # << >> /\ q[1] # IdKey} |-> signal[p]]
  <2>1. payload = WithoutId(signal)
    <3>1. IsObject(signal)
      BY <1>9 DEF IsObject, IsScope
    <3> QED BY <3>1, <1>7, <1>13 DEF Payload
  <2>2. \A p \in DOMAIN data : p \in DOMAIN plain /\ p # << >>
    BY <1>11
  <2>3. IsTree(data)
    <3>1. IsTree(signal)
      BY <1>9 DEF IsScope
    <3>2. DOMAIN data \subseteq DOMAIN signal /\ \A p \in DOMAIN data : data[p] = signal[p]
      OBVIOUS
    <3>3. IsFiniteSet(DOMAIN data)
      BY <3>1, <3>2, FS_Subset DEF IsTree
    <3>4. data = [p \in DOMAIN data |-> data[p]]
      OBVIOUS
    <3> HIDE DEF data
    <3>5. \A p \in DOMAIN data : data[p] \in Leaf
      BY <3>1, <3>2 DEF IsTree
    <3>6. data \in [DOMAIN data -> Leaf]
      BY <3>4, <3>5
    <3> QED BY <3>1, <3>2, <3>3, <3>6 DEF IsTree
  <2>4. payload = IF data = None THEN Scalar(NoFields) ELSE data
    BY <2>1 DEF WithoutId
  <2>5. CASE data = None
    <3>1. payload = Scalar(NoFields)
      BY <2>4, <2>5
    <3> HIDE DEF payload
    <3>2. \A key : key \notin Names(FieldsOf(payload))
      BY <3>1, <1>2, FieldNames
    <3> QED BY <3>1, <3>2, <1>2 DEF payload
  <2>6. CASE data # None
    <3>1. payload = data
      BY <2>4, <2>6
    <3>2. DOMAIN data # {}
      <4>1. data = [p \in DOMAIN data |-> data[p]]
        OBVIOUS
      <4> HIDE DEF data
      <4>2. \A p \in {} : data[p] = None[p]
        OBVIOUS
      <4> QED BY <4>1, <2>6, ScopeNone, SameFcn DEF None
    <3> HIDE DEF data, payload
    <3>3. \A key \in Names(FieldsOf(payload)) : IsObject(result) /\ key \in Names(FieldsOf(result))
      <4>1. TAKE key \in Names(FieldsOf(payload))
      <4>2. PICK p \in DOMAIN payload : p # << >> /\ p[1] = key
        BY FieldNames
      <4>3. p \in DOMAIN plain
        BY <4>2, <3>1, <2>2
      <4> QED BY <4>2, <4>3, <1>4, FieldNames
    <3> QED BY <3>1, <3>2, <3>3, <2>3 DEF payload, IsJson
  <2> QED BY <2>5, <2>6
<1> QED BY <1>1, <1>6, <1>12, <1>13

\* The rows a result is applied with, and where those that leave the step go.
LEMMA RowsAt ==
  ASSUME NEW s, NEW result, Applying(s, result)
  PROVE  /\ IsRowSeq(RowsOf(s, result))
         /\ \A n \in 1..Len(RowsOf(s, result)) :
              RowsOf(s, result)[n].kind # "local" =>
                RowsOf(s, result)[n].target \in Targets(s, result) \cup Routing(s)
<1> DEFINE payload == Payload(s, Arrives(s, result))
           rows == RowsOf(s, result)
           outputs == design[s].outputs
<1>1. design \in Designs /\ s \in Step /\ IsJson(result)
  BY DEF Applying
<1>2. /\ IsJson(payload)
      /\ design[s].kind # "service" /\ IsObject(payload) =>
           \A key \in Names(FieldsOf(payload)) :
             \/ IsObject(result) /\ key \in Names(FieldsOf(result))
             \/ design[s].kind = "user" /\ key = IdKey
  BY <1>1, Arrived
<1>3. rows = ApplyResult(s, payload)
  BY DEF RowsOf
<1> HIDE DEF payload, rows
<1>4. Applying(s, payload)
  BY <1>2 DEF Applying
<1>5. /\ outputs \in Seq(Mapping) /\ design[s].shape \in Seq(Mapping) /\ Len(outputs) \in Nat
      /\ \A n \in 1..Len(outputs) : outputs[n].target \in TargetsIn(outputs)
  BY <1>1, DesignAt, MappingAt
<1>6. CASE outputs # << >>
  <2>1. rows = OutputRows(s, payload) /\ Targets(s, result) = TargetsIn(outputs)
    BY <1>3, <1>6 DEF ApplyResult, Targets
  <2>2. IsRowSeq(rows) /\ Len(rows) \in Nat
    BY <2>1, <1>4, OutputRowsAt
  <2>3. ASSUME NEW n \in 1..Len(rows), rows[n].kind # "local" PROVE rows[n].target \in TargetsIn(outputs)
    <3>1. n \notin (Len(outputs) + 1)..Len(rows)
      BY <2>1, <2>3, <1>4, OutputRowsAt
    <3>2. n \in 1..Len(outputs)
      BY <3>1, <2>2, <1>5
    <3>3. rows[n].target = outputs[n].target
      BY <3>2, <2>1, <1>4, OutputRowsAt
    <3> QED BY <3>2, <3>3, <1>5
  <2> QED BY <2>1, <2>2, <2>3 DEF rows
<1>7. CASE outputs = << >> /\ Produced(s, payload) # << >>
  <2>1. rows = Produced(s, payload)
    BY <1>3, <1>7 DEF ApplyResult
  <2>2. Targets(s, result) = ({design[s].whole} \ {<< >>}) \cup TargetsIn(design[s].shape)
    BY <1>4, <1>7, ProducedRows DEF Targets
  <2> QED BY <2>1, <2>2, <1>4, ProducedRows DEF rows
<1>8. CASE outputs = << >> /\ Produced(s, payload) = << >> /\ design[s].kind = "service"
  <2>1. rows = << >> /\ Len(<< >>) = 0 /\ 1..0 = {}
    BY <1>3, <1>8 DEF ApplyResult
  <2> QED BY <2>1, RowsNone DEF rows
<1>9. CASE outputs = << >> /\ Produced(s, payload) = << >> /\ design[s].kind # "service"
  <2>1. rows = Merged(payload)
    BY <1>3, <1>9 DEF ApplyResult
  <2>2. design[s].whole = << >> /\ design[s].shape = << >>
    BY <1>4, <1>9, ProducedRows
  <2>3. IsObject(result) => Targets(s, result) = {<<key>> : key \in Names(FieldsOf(result))}
    BY <2>2, <1>9 DEF Targets
  <2>4. IsRowSeq(rows)
    BY <2>1, <1>2, MergedRows
  <2>5. ASSUME NEW n \in 1..Len(rows) PROVE rows[n].target \in Targets(s, result) \cup Routing(s)
    <3>1. PICK key \in Names(FieldsOf(payload)) : IsObject(payload) /\ rows[n].target = <<key>>
      BY <2>1, <1>2, MergedRows
    <3>2. CASE IsObject(result) /\ key \in Names(FieldsOf(result))
      BY <3>1, <3>2, <2>3
    <3>3. CASE design[s].kind = "user" /\ key = IdKey
      BY <3>1, <3>3, <2>2, <1>9 DEF Routing
    <3> QED BY <3>1, <3>2, <3>3, <1>2, <1>9
  <2> QED BY <2>4, <2>5 DEF rows
<1> QED BY <1>6, <1>7, <1>8, <1>9
----------------------------------------------------------------------------
(* The request that is built of the inputs. *)

\* Entry n, as it is set or left out.
Fills(s, values, n, v) ==
  LET target == design[s].inputs[n].target IN
  IF n \in Filled(s, values) THEN SetPath(v, target, Coerce(target, values[target])) ELSE v

\* The recursion of Building is well defined.
Built(s, values, n, w) ==
  w = [k \in 0..n |-> IF k = 0 THEN None ELSE Fills(s, values, k, w[k - 1])]

\* Each entry is set in what the entries before it have left.
LEMMA BuildingDef ==
  ASSUME NEW s, NEW values, Len(design[s].inputs) \in Nat
  PROVE  /\ Building(s, values)[0] = None
         /\ \A n \in 1..Len(design[s].inputs) :
              Building(s, values)[n] = Fills(s, values, n, Building(s, values)[n - 1])
<1> DEFINE S == {n \in Nat : \E w : Built(s, values, n, w)}
           N == Len(design[s].inputs)
           z == Building(s, values)
<1>1. 0 \in S
  <2> DEFINE w == [k \in 0..0 |-> None]
  <2>1. \A k \in 0..0 : k = 0
    OBVIOUS
  <2>2. Built(s, values, 0, w)
    BY <2>1 DEF Built
  <2> QED BY <2>2
<1>2. \A n \in Nat : n \in S => n + 1 \in S
  <2>1. TAKE n \in Nat
  <2>2. HAVE n \in S
  <2>3. PICK w : Built(s, values, n, w)
    BY <2>2
  <2> DEFINE x == [k \in 0..(n + 1) |-> IF k <= n THEN w[k] ELSE Fills(s, values, k, w[n])]
             y == [k \in 0..(n + 1) |-> IF k = 0 THEN None ELSE Fills(s, values, k, x[k - 1])]
  <2>4. \A k \in 0..n : w[k] = IF k = 0 THEN None ELSE Fills(s, values, k, w[k - 1])
    BY <2>3 DEF Built
  <2>5. \A k \in 0..(n + 1) : x[k] = y[k]
    <3>1. TAKE k \in 0..(n + 1)
    <3>2. CASE k = 0
      BY <3>2, <2>4
    <3>3. CASE k \in 1..n
      <4>1. k - 1 \in 0..(n + 1) /\ k - 1 <= n /\ k \in 0..n /\ k # 0
        BY <3>3
      <4>2. x[k - 1] = w[k - 1] /\ x[k] = w[k]
        BY <4>1
      <4> QED BY <4>1, <4>2, <2>4
    <3>4. CASE k = n + 1
      <4>1. k - 1 \in 0..(n + 1) /\ k - 1 = n /\ ~(k <= n) /\ k # 0
        BY <3>4
      <4>2. x[k - 1] = w[n]
        BY <4>1
      <4> QED BY <4>1, <4>2
    <3> QED BY <3>2, <3>3, <3>4
  <2>6. x = y
    BY <2>5
  <2>7. Built(s, values, n + 1, x)
    BY <2>6 DEF Built
  <2> QED BY <2>7
<1>3. Nat \subseteq S
  <2> HIDE DEF S
  <2> QED BY <1>1, <1>2, NatInd
<1>4. PICK w : Built(s, values, N, w)
  BY <1>3
<1>5. Built(s, values, N, z)
  BY <1>4 DEF Built, Building, Fills
<1> HIDE DEF z, N
<1>6. \A k \in 0..N : z[k] = IF k = 0 THEN None ELSE Fills(s, values, k, z[k - 1])
  BY <1>5 DEF Built
<1>7. N \in Nat
  BY DEF N
<1>8. z[0] = None
  BY <1>6, <1>7
<1>9. \A n \in 1..N : z[n] = Fills(s, values, n, z[n - 1])
  BY <1>6, <1>7
<1> QED BY <1>8, <1>9 DEF z, N

\* What is built holds nothing but what an input that is not blank has filled.
IsFilled(s, values, v) ==
  /\ IsScope(v)
  /\ \A p \in DOMAIN v : \E target \in TargetsIn(design[s].inputs) :
       IsPrefix(target, p) /\ values[target] # Scalar(Blank)

\* A request that is built is one that inputs have filled.
LEMMA RequestFilled ==
  ASSUME design \in Designs, NEW s \in Step, NEW values, IsInputs(values),
         DOMAIN values = TargetsIn(design[s].inputs)
  PROVE  /\ \A n \in 0..Len(design[s].inputs) : IsFilled(s, values, Building(s, values)[n])
         /\ IsFilled(s, values, BuildRequest(s, values))
<1> DEFINE inputs == design[s].inputs
           z == Building(s, values)
           S == {n \in 0..Len(inputs) : IsFilled(s, values, z[n])}
<1>1. /\ Len(inputs) \in Nat /\ DOMAIN inputs = 1..Len(inputs)
      /\ \A n \in 1..Len(inputs) : /\ inputs[n].target \in Path /\ inputs[n].target # << >>
                                   /\ inputs[n].target \in TargetsIn(inputs)
  BY DesignAt, MappingAt
<1>2. z[0] = None /\ \A n \in 1..Len(inputs) : z[n] = Fills(s, values, n, z[n - 1])
  BY <1>1, BuildingDef
<1> HIDE DEF z
<1>3. 0 \in S
  BY <1>1, <1>2, ScopeNone DEF IsFilled
<1>4. \A n \in 1..Len(inputs) : n - 1 \in S => n \in S
  <2>1. TAKE n \in 1..Len(inputs)
  <2>2. HAVE n - 1 \in S
  <2> DEFINE v == z[n - 1]
             target == inputs[n].target
             new == Coerce(target, values[target])
  <2>3. CASE n \notin Filled(s, values)
    BY <2>2, <2>3, <1>2 DEF Fills
  <2>4. CASE n \in Filled(s, values)
    <3>1. z[n] = SetPath(v, target, new)
      BY <2>4, <1>2 DEF Fills
    <3>2. target \in TargetsIn(inputs) /\ target \in Path /\ target # << >> /\ values[target] # Scalar(Blank)
      BY <2>4, <1>1 DEF Filled
    <3>3. IsJson(values[target])
      BY <3>2 DEF IsInputs
    <3>4. IsJson(new)
      BY <3>3, Texts DEF Coerce
    <3>5. IsFilled(s, values, v)
      BY <2>2
    <3> HIDE DEF v, target, new, inputs
    <3>6. IsTree(v) /\ DOMAIN v \subseteq Path /\ DOMAIN new \subseteq Path
      BY <3>4, <3>5 DEF IsFilled, IsScope, IsJson, IsTree
    <3>7. IsScope(SetPath(v, target, new))
      BY <3>2, <3>4, <3>6, TreeSetPath
    <3>8. IsWritten(SetPath(v, target, new), v, target, new)
      BY <3>2, <3>6, SetPathAt
    <3>9. \A p \in DOMAIN SetPath(v, target, new) : IsPrefix(target, p) \/ p \in DOMAIN v
      BY <3>8 DEF IsWritten
    <3>10. \A p \in DOMAIN SetPath(v, target, new) : \E other \in TargetsIn(design[s].inputs) :
              IsPrefix(other, p) /\ values[other] # Scalar(Blank)
      BY <3>2, <3>5, <3>9 DEF IsFilled, inputs
    <3> QED BY <3>1, <3>7, <3>10, <2>1, <1>1 DEF IsFilled, inputs
  <2> QED BY <2>3, <2>4
<1>5. 0..Len(inputs) \subseteq S
  <2> HIDE DEF S
  <2> QED BY <1>1, <1>3, <1>4, UpTo
<1>6. \A n \in 0..Len(inputs) : IsFilled(s, values, z[n])
  BY <1>5
<1>7. Len(inputs) \in 0..Len(inputs)
  BY <1>1
<1> QED BY <1>6, <1>7 DEF BuildRequest, z

\* No input of the call is written inside the input of that name.
IsClear(s, key) ==
  design[s].kind = "service" => \A target \in TargetsIn(design[s].inputs) : Len(target) > 1 => Head(target) # key

\* The inputs that are held are those that were read, but for what was written inside.
AsRead(s, values, held) ==
  /\ DOMAIN held = DOMAIN values
  /\ \A key \in Key : IsClear(s, key) /\ <<key>> \in DOMAIN values => held[<<key>>] = values[<<key>>]

\* What a call holds of its inputs once its request is built.
LEMMA SentAt ==
  ASSUME design \in Designs, NEW s \in Step, design[s].kind = "service", NEW values, IsInputs(values),
         DOMAIN values = TargetsIn(design[s].inputs)
  PROVE  IsInputs(Sent(s, values)) /\ AsRead(s, values, Sent(s, values))
<1> DEFINE inputs == design[s].inputs
           z == Building(s, values)
           filled == Filled(s, values)
           held == Sent(s, values)
           At(target) == CHOOSE n \in filled : inputs[n].target = target
<1>1. /\ Len(inputs) \in Nat /\ DOMAIN inputs = 1..Len(inputs)
      /\ \A n \in 1..Len(inputs) : /\ inputs[n].target \in Path /\ inputs[n].target # << >>
                                   /\ inputs[n].target \in TargetsIn(inputs)
  BY DesignAt, MappingAt
<1>2. \A n \in 1..Len(inputs) : z[n] = Fills(s, values, n, z[n - 1])
  BY <1>1, BuildingDef
<1>3. \A n \in 0..Len(inputs) : IsTree(z[n]) /\ DOMAIN z[n] \subseteq Path
  BY RequestFilled DEF IsFilled, IsScope, IsTree
<1>4. held = [target \in DOMAIN values |->
                IF \E n \in filled : inputs[n].target = target
                THEN AsLeft(z, inputs, filled, At(target), values[target]) ELSE values[target]]
  BY DEF Sent
<1>5. filled \in SUBSET (1..Len(inputs))
  BY <1>1 DEF Filled
<1>6. \A m, n \in filled : inputs[m].target = inputs[n].target => m = n
  <2>1. \A m, n \in filled : m < n => inputs[m].target # inputs[n].target
    <3>1. TAKE m, n \in filled
    <3>2. HAVE m < n
    <3>3. m \in 1..(n - 1)
      BY <3>2, <1>1, <1>5
    <3> QED BY <3>3 DEF Filled
  <2> QED BY <2>1, <1>1, <1>5
<1> HIDE DEF z, filled, held
<1>7. DOMAIN held = DOMAIN values
  BY <1>4
<1>8. ASSUME NEW n \in filled
      PROVE  /\ n \in 1..Len(inputs) /\ At(inputs[n].target) = n
             /\ inputs[n].target \in DOMAIN values
             /\ held[inputs[n].target] = AsLeft(z, inputs, filled, n, values[inputs[n].target])
  <2>1. n \in 1..Len(inputs) /\ inputs[n].target \in DOMAIN values
    BY <1>1, <1>5
  <2>2. At(inputs[n].target) = n
    BY <1>6
  <2> QED BY <2>1, <2>2, <1>4
<1>9. IsInputs(held)
  <2>1. ASSUME NEW target \in DOMAIN held PROVE IsJson(held[target])
    <3>1. CASE \E n \in filled : inputs[n].target = target
      <4>1. PICK n \in filled : inputs[n].target = target
        BY <3>1
      <4>2. n \in 1..Len(inputs) /\ target \in Path /\ held[target] = AsLeft(z, inputs, filled, n, values[target])
        BY <4>1, <1>1, <1>8
      <4>3. CASE IsObject(values[target])
        <5>1. PICK u \in n..Len(inputs) : AsLeft(z, inputs, filled, n, values[target]) = Lookup(z[u], target)
          BY <4>1, <4>2, <4>3, <1>1, <1>5, AsLeftAt
        <5>2. u \in 0..Len(inputs)
          BY <4>2, <1>1
        <5> QED BY <5>1, <5>2, <4>2, <1>3, TreeLookup
      <4>4. CASE ~IsObject(values[target])
        <5>1. held[target] = values[target]
          BY <4>1, <4>2, <4>4, <1>1, <1>5, AsLeftAt
        <5> QED BY <5>1, <2>1, <1>7 DEF IsInputs
      <4> QED BY <4>3, <4>4
    <3>2. CASE ~ \E n \in filled : inputs[n].target = target
      BY <3>2, <2>1, <1>4, <1>7 DEF IsInputs
    <3> QED BY <3>1, <3>2
  <2> QED BY <2>1, <1>7 DEF IsInputs
<1>10. ASSUME NEW key \in Key, IsClear(s, key), <<key>> \in DOMAIN values
       PROVE  held[<<key>>] = values[<<key>>]
  <2> DEFINE t == <<key>>
             x == values[t]
  <2>1. t \in Path /\ Len(t) = 1 /\ t[1] = key /\ t # << >> /\ t = <<t[1]>>
    <3>1. << >> \in Path
      BY EmptySeq DEF Path
    <3>2. t \in Path /\ Len(t) = 1 /\ t[1] = key /\ t # << >>
      BY <3>1, OneName
    <3> HIDE DEF t
    <3> QED BY <3>2, OneName
  <2>2. CASE ~ \E n \in filled : inputs[n].target = t
    <3>1. t \in DOMAIN values
      BY <1>10
    <3> HIDE DEF t
    <3>2. held[t] = values[t]
      BY <3>1, <2>2, <1>4
    <3> QED BY <3>2 DEF t
  <2>3. CASE \E n \in filled : inputs[n].target = t
    <3>1. PICK n \in filled : inputs[n].target = t
      BY <2>3
    <3>2. n \in 1..Len(inputs) /\ held[t] = AsLeft(z, inputs, filled, n, x)
      BY <3>1, <1>8
    <3>3. ASSUME NEW m \in filled, m # n PROVE ~Overlap(inputs[m].target, t)
      <4> DEFINE other == inputs[m].target
      <4>1. other \in Path /\ other # << >> /\ other \in TargetsIn(inputs) /\ other # t
        BY <3>1, <3>3, <1>1, <1>5, <1>6
      <4>2. Head(other) = other[1] /\ Len(other) \in Nat \ {0}
        BY <4>1, Roots
      <4>3. Len(other) > 1 => Head(other) # key
        BY <4>1, <1>10 DEF IsClear
      <4>4. Len(other) = 1 => other = <<other[1]>>
        BY <4>1, OneName
      <4> HIDE DEF other, t, x
      <4>5. other[1] # t[1]
        <5>1. CASE Len(other) > 1
          BY <5>1, <4>2, <4>3, <2>1
        <5>2. CASE Len(other) = 1
          BY <5>2, <4>1, <4>4, <2>1
        <5>3. \A k \in Nat \ {0} : k > 1 \/ k = 1
          OBVIOUS
        <5>4. Len(other) > 1 \/ Len(other) = 1
          BY <4>2, <5>3, Zenon
        <5> QED BY <5>1, <5>2, <5>4
      <4> QED BY <4>1, <4>5, <2>1, OverlapHeads DEF other
    <3>4. CASE ~IsObject(x)
      <4>1. AsLeft(z, inputs, filled, n, x) = x
        BY <3>2, <3>4, <1>1, <1>5, AsLeftAt
      <4> QED BY <4>1, <3>2
    <3>5. CASE IsObject(x)
      <4>1. PICK u \in n..Len(inputs) :
              /\ AsLeft(z, inputs, filled, n, x) = Lookup(z[u], inputs[n].target)
              /\ u = Len(inputs) \/ (u + 1 \in filled /\ IsPrefix(inputs[u + 1].target, inputs[n].target))
        BY <3>2, <3>5, <1>1, <1>5, AsLeftAt
      <4>2. u \in Nat /\ n \in Nat \ {0} /\ n <= u /\ u <= Len(inputs)
        BY <3>2, <1>1
      <4> DEFINE S == {k \in 0..Len(inputs) : k >= n => Lookup(z[k], t) = x}
      <4>3. 0 \in S
        BY <4>2
      <4>4. IsJson(x) /\ Coerce(t, x) = x
        <5>1. IsJson(x)
          BY <1>10 DEF IsInputs
        <5>2. << >> \in DOMAIN x => x[<< >>] \notin DOMAIN Parsed
          BY <3>5, Texts DEF IsObject
        <5> QED BY <5>1, <5>2 DEF Coerce
      <4>5. \A k \in 1..Len(inputs) : k - 1 \in S => k \in S
        <5>1. TAKE k \in 1..Len(inputs)
        <5>2. HAVE k - 1 \in S
        <5>3. IsTree(z[k - 1]) /\ DOMAIN z[k - 1] \subseteq Path
          BY <1>1, <1>3
        <5>4. CASE k = n
          <6>1. z[k] = SetPath(z[k - 1], t, Coerce(t, values[t]))
            BY <5>4, <3>1, <1>2 DEF Fills, filled
          <6> HIDE DEF t, x
          <6>2. Lookup(SetPath(z[k - 1], t, x), t) = x
            BY <5>3, <4>4, <2>1, LookupWritten
          <6> QED BY <6>1, <6>2, <4>4 DEF x
        <5>5. CASE k > n /\ k \in filled
          <6> DEFINE other == inputs[k].target
                     new == Coerce(other, values[other])
          <6>1. z[k] = SetPath(z[k - 1], other, new)
            BY <5>5, <1>2 DEF Fills, filled
          <6>2. ~Overlap(other, t) /\ other \in Path /\ other \in DOMAIN values
            BY <5>5, <3>3, <4>2, <1>1
          <6>3. DOMAIN new \subseteq Path
            <7>1. IsJson(values[other])
              BY <6>2 DEF IsInputs
            <7>2. IsJson(new)
              BY <7>1, Texts DEF Coerce
            <7> QED BY <7>2 DEF IsJson, IsTree
          <6> HIDE DEF other, new, t
          <6>4. Lookup(SetPath(z[k - 1], other, new), t) = Lookup(z[k - 1], t)
            BY <6>2, <6>3, <5>3, <2>1, LookupBeside
          <6> QED BY <6>1, <6>4, <5>2, <5>5, <4>2
        <5>6. CASE k > n /\ k \notin filled
          <6>1. z[k] = z[k - 1]
            BY <5>6, <1>2 DEF Fills, filled
          <6> QED BY <6>1, <5>2, <5>6, <4>2
        <5>7. CASE k < n
          BY <5>7, <4>2
        <5> QED BY <5>4, <5>5, <5>6, <5>7, <4>2
      <4>6. 0..Len(inputs) \subseteq S
        <5> HIDE DEF S
        <5> QED BY <4>3, <4>5, <1>1, UpTo
      <4>7. Lookup(z[u], t) = x
        <5>1. u \in S /\ u >= n
          BY <4>2, <4>6
        <5> QED BY <5>1
      <4> QED BY <4>1, <4>7, <3>1, <3>2
    <3> QED BY <3>4, <3>5
  <2> QED BY <2>2, <2>3
<1>11. AsRead(s, values, held)
  BY <1>7, <1>10 DEF AsRead
<1> QED BY <1>9, <1>11 DEF held
----------------------------------------------------------------------------
(* The rows as they are logged. *)

\* The rows once the last is written: each as it was, but for an object, which is
\* what it has become where it was written until another takes its place.
LEMMA LeftAt ==
  ASSUME IsScope(variables), NEW rows, IsRowSeq(rows)
  PROVE  /\ IsRowSeq(LeftRows(rows)) /\ Len(LeftRows(rows)) = Len(rows) /\ Len(rows) \in Nat
         /\ \A n \in 1..Len(rows) :
              /\ LeftRows(rows)[n].target = rows[n].target /\ LeftRows(rows)[n].kind = rows[n].kind
              /\ \/ LeftRows(rows)[n].value = rows[n].value
                 \/ /\ rows[n].kind # "local"
                    /\ \E u \in n..Len(rows) :
                         /\ LeftRows(rows)[n].value = Lookup(Writing(variables, rows)[u], rows[n].target)
                         /\ \A m \in (n + 1)..u :
                              rows[m].kind # "local" => ~IsPrefix(rows[m].target, rows[n].target)
<1> DEFINE left == LeftRows(rows)
           z == Writing(variables, rows)
           written == {n \in DOMAIN rows : rows[n].kind # "local"}
           Value(n) == IF n \in written THEN AsLeft(z, rows, written, n, rows[n].value) ELSE rows[n].value
<1>1. Len(rows) \in Nat /\ DOMAIN rows = 1..Len(rows) /\ \A n \in 1..Len(rows) : IsRow(rows[n])
  BY LenProperties DEF IsRowSeq, IsRows
<1>2. \A n \in 0..Len(rows) : IsTree(z[n])
  BY ScopeWrite DEF IsRowSeq, IsScope
<1>3. left = [n \in 1..Len(rows) |->
                IF n \notin written THEN rows[n]
                ELSE [rows[n] EXCEPT !.value = AsLeft(z, rows, written, n, rows[n].value)]]
  BY <1>1 DEF LeftRows
<1>4. written \in SUBSET (1..Len(rows)) /\ \A n \in 1..Len(rows) : n \in written <=> rows[n].kind # "local"
  BY <1>1
<1> HIDE DEF left, z, written
<1>5. ASSUME NEW n \in 1..Len(rows)
      PROVE  /\ IsJson(Value(n))
             /\ \/ Value(n) = rows[n].value
                \/ /\ rows[n].kind # "local"
                   /\ \E u \in n..Len(rows) :
                        /\ Value(n) = Lookup(z[u], rows[n].target)
                        /\ \A m \in (n + 1)..u :
                             rows[m].kind # "local" => ~IsPrefix(rows[m].target, rows[n].target)
  <2>1. rows[n].target \in Path /\ IsJson(rows[n].value)
    BY <1>1 DEF IsRow
  <2>2. CASE n \notin written
    BY <2>1, <2>2
  <2>3. CASE n \in written /\ ~IsObject(rows[n].value)
    <3>1. AsLeft(z, rows, written, n, rows[n].value) = rows[n].value
      BY <2>3, <1>1, <1>4, AsLeftAt
    <3> QED BY <3>1, <2>1, <2>3
  <2>4. CASE n \in written /\ IsObject(rows[n].value)
    <3>1. PICK u \in n..Len(rows) :
            /\ AsLeft(z, rows, written, n, rows[n].value) = Lookup(z[u], rows[n].target)
            /\ \A m \in (n + 1)..u : m \in written => ~IsPrefix(rows[m].target, rows[n].target)
      BY <2>4, <1>1, <1>4, AsLeftAt
    <3>2. Value(n) = Lookup(z[u], rows[n].target)
      BY <3>1, <2>4
    <3> HIDE DEF Value
    <3>3. u \in 0..Len(rows) /\ \A m \in (n + 1)..u : m \in 1..Len(rows)
      BY <1>1
    <3>4. IsJson(Value(n))
      BY <3>2, <3>3, <2>1, <1>2, TreeLookup
    <3>5. rows[n].kind # "local"
      BY <2>4, <1>4
    <3>6. \A m \in (n + 1)..u : rows[m].kind # "local" => ~IsPrefix(rows[m].target, rows[n].target)
      BY <3>1, <3>3, <1>4
    <3> QED BY <3>2, <3>4, <3>5, <3>6
  <2> QED BY <2>2, <2>3, <2>4
<1>6. ASSUME NEW n \in 1..Len(rows)
      PROVE  /\ IsRow(left[n]) /\ left[n].target = rows[n].target /\ left[n].kind = rows[n].kind
             /\ left[n].value = Value(n)
  <2>1. rows[n].target \in Path /\ rows[n].target # << >> /\ IsRow(rows[n])
    BY <1>1 DEF IsRow
  <2>2. CASE n \notin written
    BY <2>1, <2>2, <1>3
  <2>3. CASE n \in written
    <3>1. left[n] = [rows[n] EXCEPT !.value = Value(n)]
      BY <2>3, <1>3
    <3> HIDE DEF Value
    <3>2. left[n] = Written(rows[n].target, rows[n].kind, Value(n))
      BY <3>1, <2>1, <1>5, RowExcept
    <3> QED BY <3>2, <2>1, <1>5, RowWritten
  <2> QED BY <2>2, <2>3
<1>7. IsRowSeq(left) /\ Len(left) = Len(rows)
  <2>1. left = [n \in 1..Len(rows) |-> left[n]]
    BY <1>3
  <2> QED BY <2>1, <1>1, <1>6, RowsOfFcn
<1> HIDE DEF Value
<1> QED BY <1>1, <1>5, <1>6, <1>7 DEF left, z

\* What a row that is written leaves at a path it overlaps.
LEMMA RowLeaves ==
  ASSUME NEW v, IsScope(v), NEW rows, IsRows(rows), NEW k \in 1..Len(rows), rows[k].kind # "local",
         NEW p \in Path, Overlap(rows[k].target, p)
  PROVE  LET w == Writing(v, rows)[k]
             q == Rest(rows[k].target, p)
         IN  IF IsPrefix(rows[k].target, p)
             THEN /\ p \in DOMAIN w <=> q \in DOMAIN rows[k].value
                  /\ p \in DOMAIN w => w[p] = rows[k].value[q]
             ELSE p \notin DOMAIN w
<1> DEFINE w == Writing(v, rows)[k]
           before == Writing(v, rows)[k - 1]
           t == rows[k].target
           new == rows[k].value
<1>1. Len(rows) \in Nat /\ k - 1 \in 0..Len(rows)
  BY DEF IsRows
<1>2. t \in Path /\ DOMAIN new \subseteq Path
  BY DEF IsRows, IsRow, IsJson, IsTree
<1>3. DOMAIN before \subseteq Path
  <2>1. IsScope(before)
    BY <1>1, ScopeWrite
  <2> QED BY <2>1 DEF IsScope, IsTree
<1>4. w = SetPath(before, t, new)
  BY <1>1, WritingDef
<1> HIDE DEF w, before, new, t
<1>5. IsWritten(w, before, t, new)
  BY <1>2, <1>3, <1>4, SetPathAt
<1>6. Overlap(t, p)
  BY DEF t
<1>7. CASE IsPrefix(t, p)
  <2>1. Rest(t, p) \in Path /\ p = t \o Rest(t, p)
    BY <1>2, <1>7, Split
  <2>2. Rest(t, p) \in DOMAIN new => p \in DOMAIN w /\ w[p] = new[Rest(t, p)]
    BY <2>1, <1>5 DEF IsWritten
  <2>3. p \in DOMAIN w => Rest(t, p) \in DOMAIN new
    BY <1>5, <1>6 DEF IsWritten
  <2> QED BY <2>2, <2>3, <1>7 DEF w, t, new
<1>8. CASE ~IsPrefix(t, p)
  <2>1. p \notin DOMAIN w
    BY <1>5, <1>6, <1>8 DEF IsWritten
  <2> QED BY <2>1, <1>8 DEF w, t
<1> QED BY <1>7, <1>8

\* Writing the rows as they are left comes to the same as writing them.
LEMMA LeftWriting ==
  ASSUME IsScope(variables), NEW rows, IsRowSeq(rows)
  PROVE  WriteAll(variables, LeftRows(rows)) = WriteAll(variables, rows)
<1> DEFINE left == LeftRows(rows)
           N == Len(rows)
           a == Writing(variables, rows)
           b == Writing(variables, left)
<1>1. /\ IsRows(rows) /\ IsRows(left) /\ Len(left) = N /\ N \in Nat
      /\ \A n \in 1..N :
           /\ left[n].target = rows[n].target /\ left[n].kind = rows[n].kind
           /\ \/ left[n].value = rows[n].value
              \/ /\ rows[n].kind # "local"
                 /\ \E u \in n..N :
                      /\ left[n].value = Lookup(a[u], rows[n].target)
                      /\ \A m \in (n + 1)..u :
                           rows[m].kind # "local" => ~IsPrefix(rows[m].target, rows[n].target)
  BY LeftAt DEF IsRowSeq
<1>2. a[0] = variables /\ b[0] = variables
  BY <1>1, WritingDef
<1>3. IsScope(a[N]) /\ IsScope(b[N]) /\ \A n \in 0..N : IsScope(a[n])
  <2>1. N \in 0..N
    BY <1>1
  <2> QED BY <2>1, <1>1, ScopeWrite
<1> HIDE DEF left
<1>4. ASSUME NEW p \in Path PROVE SameAt(a[N], b[N], p)
  <2> DEFINE T == {n \in 1..N : rows[n].kind # "local" /\ Overlap(rows[n].target, p)}
  <2>1. CASE T = {}
    <3>1. \A n \in (0 + 1)..N : rows[n].kind # "local" => ~Overlap(rows[n].target, p)
      BY <2>1
    <3>2. \A n \in (0 + 1)..N : left[n].kind # "local" => ~Overlap(left[n].target, p)
      BY <3>1, <1>1
    <3>3. 0 \in 0..N /\ N \in 0..N
      BY <1>1
    <3>4. SameAt(a[0], a[N], p) /\ SameAt(b[0], b[N], p)
      BY <3>1, <3>2, <3>3, <1>1, BesideFrom
    <3> QED BY <3>4, <1>2 DEF SameAt
  <2>2. CASE T # {}
    <3>1. PICK k \in T : \A n \in T : n <= k
      <4>1. T \in SUBSET (0..N)
        BY <1>1
      <4> HIDE DEF T
      <4> QED BY <4>1, <2>2, <1>1, NatMax
    <3>2. /\ k \in 1..N /\ k \in 0..N /\ N \in k..N /\ rows[k].kind # "local" /\ Overlap(rows[k].target, p)
          /\ left[k].kind # "local" /\ left[k].target = rows[k].target
      BY <3>1, <1>1
    <3>3. \A n \in (k + 1)..N : rows[n].kind # "local" => ~Overlap(rows[n].target, p)
      <4>1. \A n \in (k + 1)..N : n \in 1..N /\ ~(n <= k)
        BY <3>2, <1>1
      <4> QED BY <4>1, <3>1
    <3>4. \A n \in (k + 1)..N : n \in 1..N
      BY <3>2, <1>1
    <3>5. \A n \in (k + 1)..N : left[n].kind # "local" => ~Overlap(left[n].target, p)
      BY <3>3, <3>4, <1>1
    <3>6. SameAt(a[k], a[N], p) /\ SameAt(b[k], b[N], p)
      BY <3>2, <3>3, <3>5, <1>1, BesideFrom
    <3> DEFINE t == rows[k].target
               q == Rest(t, p)
    <3> HIDE DEF a, b
    <3>7. IF IsPrefix(t, p) THEN /\ p \in DOMAIN a[k] <=> q \in DOMAIN rows[k].value
                                 /\ p \in DOMAIN a[k] => a[k][p] = rows[k].value[q]
          ELSE p \notin DOMAIN a[k]
      BY <3>2, <1>1, RowLeaves DEF a
    <3>8. IF IsPrefix(t, p) THEN /\ p \in DOMAIN b[k] <=> q \in DOMAIN left[k].value
                                 /\ p \in DOMAIN b[k] => b[k][p] = left[k].value[q]
          ELSE p \notin DOMAIN b[k]
      <4>1. Overlap(left[k].target, p) /\ k \in 1..Len(left)
        BY <3>2, <1>1
      <4> QED BY <4>1, <3>2, <1>1, RowLeaves DEF b
    <3>9. SameAt(a[k], b[k], p)
      <4>1. CASE ~IsPrefix(t, p)
        BY <4>1, <3>7, <3>8 DEF SameAt
      <4>2. CASE IsPrefix(t, p) /\ left[k].value = rows[k].value
        BY <4>2, <3>7, <3>8 DEF SameAt
      <4>3. CASE IsPrefix(t, p) /\ left[k].value # rows[k].value
        <5>1. PICK u \in k..N :
                /\ left[k].value = Lookup(a[u], t)
                /\ \A m \in (k + 1)..u : rows[m].kind # "local" => ~IsPrefix(rows[m].target, t)
          BY <4>3, <3>2, <1>1 DEF a
        <5>2. u \in 0..N /\ t \in Path /\ \A m \in (k + 1)..u : m \in (k + 1)..N
          BY <3>2, <1>1 DEF IsRows, IsRow
        <5>3. SameAt(a[k], a[u], p)
          <6>1. \A m \in (k + 1)..u : rows[m].kind # "local" => ~Overlap(rows[m].target, p)
            BY <5>2, <3>3
          <6> HIDE DEF t
          <6> QED BY <6>1, <3>2, <1>1, BesideFrom DEF a
        <5>4. Has(a[u], t)
          BY <5>1, <3>2, <1>1, HasFrom DEF a
        <5>5. DOMAIN a[u] \subseteq Path
          BY <5>2, <1>3 DEF IsScope, IsTree, a
        <5> HIDE DEF t
        <5>6. IsBelow(left[k].value, a[u], t)
          BY <5>1, <5>2, <5>4, <5>5, LookupAt
        <5>7. q \in Path /\ p = t \o q
          BY <4>3, <5>2, Split
        <5> HIDE DEF q
        <5>8. /\ p \in DOMAIN a[u] <=> q \in DOMAIN left[k].value
              /\ p \in DOMAIN a[u] => a[u][p] = left[k].value[q]
          BY <5>6, <5>7 DEF IsBelow
        <5> QED BY <5>3, <5>8, <4>3, <3>8 DEF SameAt
      <4> QED BY <4>1, <4>2, <4>3
    <3> QED BY <3>6, <3>9 DEF SameAt
  <2> QED BY <2>1, <2>2
<1> HIDE DEF a, b
<1>5. /\ DOMAIN a[N] \subseteq Path /\ DOMAIN b[N] \subseteq Path
      /\ a[N] = [p \in DOMAIN a[N] |-> a[N][p]] /\ b[N] = [p \in DOMAIN b[N] |-> b[N][p]]
  BY <1>3 DEF IsScope, IsTree
<1>6. DOMAIN a[N] = DOMAIN b[N] /\ \A p \in DOMAIN a[N] : a[N][p] = b[N][p]
  BY <1>4, <1>5 DEF SameAt
<1>7. a[N] = b[N]
  BY <1>5, <1>6, SameFcn
<1> QED BY <1>1, <1>7 DEF WriteAll, a, b, left

\* What is masked once is masked.
LEMMA CutTwice ==
  ASSUME NEW t \in Path, NEW x, IsJson(x)
  PROVE  IsJson(Cut(t, x)) /\ Cut(t, Cut(t, x)) = Cut(t, x)
<1>1. IsTree(x) /\ DOMAIN x \subseteq Path
  BY DEF IsJson, IsTree
<1>2. IsJson(Redact(x)) /\ Redact(Redact(x)) = Redact(x)
  BY <1>1, TreeRedact, RedactTwice
<1>3. IsJson(Scalar(Redacted))
  BY Leaves, TreeScalar
<1> QED BY <1>2, <1>3 DEF Cut

\* A masked row is a row, with what is shown of its value.
LEMMA MaskAt ==
  ASSUME NEW row, IsRow(row)
  PROVE  /\ IsRow(Mask(row)) /\ Mask(row).target = row.target /\ Mask(row).kind = row.kind
         /\ Mask(row).value = Cut(row.target, row.value)
<1> DEFINE value == Cut(row.target, row.value)
<1>1. row.target \in Path /\ row.target # << >> /\ IsJson(row.value)
  BY DEF IsRow
<1>2. IsJson(value)
  BY <1>1, CutTwice
<1>3. Mask(row) = [row EXCEPT !.value = value]
  BY DEF Mask, IsSensitiveKey, Cut
<1> HIDE DEF value
<1>4. Mask(row) = Written(row.target, row.kind, value)
  BY <1>2, <1>3, RowExcept
<1>5. IsRow(Mask(row)) /\ Mask(row).target = row.target /\ Mask(row).kind = row.kind /\ Mask(row).value = value
  BY <1>1, <1>2, <1>4, RowWritten
<1> QED BY <1>5 DEF value

Logged(rows) == [n \in DOMAIN rows |-> Mask(rows[n])]

\* What is logged of the rows, one by one.
LEMMA LoggedAt ==
  ASSUME NEW rows, IsRowSeq(rows)
  PROVE  /\ IsRowSeq(Logged(rows)) /\ Len(Logged(rows)) = Len(rows) /\ Len(rows) \in Nat
         /\ \A n \in 1..Len(rows) :
              /\ IsRow(rows[n]) /\ Logged(rows)[n].target = rows[n].target /\ Logged(rows)[n].kind = rows[n].kind
              /\ Logged(rows)[n].value = Cut(rows[n].target, rows[n].value)
<1>1. Len(rows) \in Nat /\ DOMAIN rows = 1..Len(rows) /\ \A n \in 1..Len(rows) : IsRow(rows[n])
  BY LenProperties DEF IsRowSeq, IsRows
<1> DEFINE logged == Logged(rows)
<1>2. logged = [n \in 1..Len(rows) |-> Mask(rows[n])]
  BY <1>1 DEF Logged
<1> HIDE DEF logged
<1>3. logged = [n \in 1..Len(rows) |-> logged[n]] /\ \A n \in 1..Len(rows) : logged[n] = Mask(rows[n])
  BY <1>2
<1>4. \A n \in 1..Len(rows) :
        /\ IsRow(logged[n]) /\ logged[n].target = rows[n].target /\ logged[n].kind = rows[n].kind
        /\ logged[n].value = Cut(rows[n].target, rows[n].value)
  BY <1>1, <1>3, MaskAt
<1>5. IsRowSeq(logged) /\ Len(logged) = Len(rows)
  BY <1>1, <1>3, <1>4, RowsOfFcn
<1> QED BY <1>1, <1>4, <1>5 DEF logged

\* Writing what is logged into what is shown shows what was written.
LEMMA LoggedWriting ==
  ASSUME NEW v, IsScope(v), NEW rows, IsRowSeq(rows)
  PROVE  Redact(WriteAll(v, rows)) = Redact(WriteAll(Redact(v), Logged(rows)))
<1> DEFINE logged == Logged(rows)
           a == Writing(v, rows)
           b == Writing(Redact(v), logged)
           S == {n \in 0..Len(rows) : Redact(a[n]) = Redact(b[n])}
<1>1. /\ IsRowSeq(logged) /\ Len(logged) = Len(rows) /\ Len(rows) \in Nat
      /\ \A n \in 1..Len(rows) :
           /\ IsRow(rows[n]) /\ logged[n].target = rows[n].target /\ logged[n].kind = rows[n].kind
           /\ logged[n].value = Cut(rows[n].target, rows[n].value)
  BY LoggedAt
<1> HIDE DEF logged
<1>2. IsTree(v) /\ DOMAIN v \subseteq Path /\ IsScope(Redact(v))
  BY TreeRedact DEF IsScope, IsTree
<1>3. \A n \in 0..Len(rows) : IsScope(a[n]) /\ IsScope(b[n])
  BY <1>1, <1>2, ScopeWrite DEF IsRowSeq
<1>4. /\ a[0] = v /\ b[0] = Redact(v)
      /\ \A n \in 1..Len(rows) : a[n] = IF rows[n].kind = "local" THEN a[n - 1]
                                        ELSE SetPath(a[n - 1], rows[n].target, rows[n].value)
      /\ \A n \in 1..Len(rows) : b[n] = IF logged[n].kind = "local" THEN b[n - 1]
                                        ELSE SetPath(b[n - 1], logged[n].target, logged[n].value)
  BY <1>1, WritingDef
<1> HIDE DEF a, b
<1>5. 0 \in S
  BY <1>1, <1>2, <1>4, RedactTwice
<1>6. \A n \in 1..Len(rows) : n - 1 \in S => n \in S
  <2>1. TAKE n \in 1..Len(rows)
  <2>2. HAVE n - 1 \in S
  <2> DEFINE t == rows[n].target
             x == rows[n].value
  <2>3. CASE rows[n].kind = "local"
    BY <2>2, <2>3, <1>1, <1>4
  <2>4. CASE rows[n].kind # "local"
    <3>1. a[n] = SetPath(a[n - 1], t, x) /\ b[n] = SetPath(b[n - 1], t, Cut(t, x))
      BY <2>4, <1>1, <1>4
    <3>2. t \in Path /\ IsJson(x)
      BY <1>1 DEF IsRow
    <3>3. IsJson(Cut(t, x)) /\ Cut(t, Cut(t, x)) = Cut(t, x)
      BY <3>2, CutTwice
    <3>4. IsScope(a[n - 1]) /\ IsScope(b[n - 1]) /\ Redact(a[n - 1]) = Redact(b[n - 1])
      BY <2>2, <1>1, <1>3
    <3> HIDE DEF t, x
    <3> DEFINE y == Cut(t, x)
    <3>5. /\ DOMAIN a[n - 1] \subseteq Path /\ DOMAIN b[n - 1] \subseteq Path
          /\ DOMAIN x \subseteq Path /\ DOMAIN x # {} /\ DOMAIN y \subseteq Path /\ DOMAIN y # {}
      BY <3>2, <3>3, <3>4 DEF IsScope, IsJson, IsTree
    <3>6. Redact(SetPath(a[n - 1], t, x)) = SetPath(Redact(a[n - 1]), Shown(t), y)
      BY <3>2, <3>5, RedactSetPath
    <3>7. Redact(SetPath(b[n - 1], t, y)) = SetPath(Redact(b[n - 1]), Shown(t), Cut(t, y))
      <4> HIDE DEF y
      <4> QED BY <3>2, <3>5, RedactSetPath
    <3> QED BY <3>1, <3>3, <3>4, <3>6, <3>7
  <2> QED BY <2>3, <2>4
<1>7. 0..Len(rows) \subseteq S
  <2> HIDE DEF S
  <2> QED BY <1>1, <1>5, <1>6, UpTo
<1>8. Len(rows) \in S
  BY <1>1, <1>7
<1> QED BY <1>1, <1>8 DEF WriteAll, a, b, logged

\* A logged value shows no more than the variable that it is written to.
LEMMA LoggedLeaves ==
  ASSUME NEW row, IsRow(row)
  PROVE  LeavesIn(Mask(row).value) \subseteq
           {Redacted} \cup LeavesIn(Redact(SetPath(None, row.target, row.value)))
<1> DEFINE t == row.target
           x == row.value
           y == Cut(t, x)
           w == Redact(SetPath(None, t, x))
<1>1. t \in Path /\ IsJson(x) /\ Mask(row).value = y
  BY MaskAt DEF IsRow
<1>2. CASE IsHidden(t)
  <2>1. y = Scalar(Redacted) /\ DOMAIN y = {<< >>} /\ y[<< >>] = Redacted
    BY <1>2, Leaves, TreeScalar DEF Cut
  <2> QED BY <1>1, <2>1 DEF LeavesIn
<1>3. CASE ~IsHidden(t)
  <2> HIDE DEF t, x
  <2>1. DOMAIN None \subseteq Path /\ DOMAIN x \subseteq Path /\ DOMAIN x # {}
    BY <1>1, ScopeNone DEF IsJson, IsTree
  <2>2. w = SetPath(Redact(None), Shown(t), y)
    BY <1>1, <2>1, RedactSetPath
  <2>3. Shown(t) \in Path /\ DOMAIN Redact(None) \subseteq Path
    BY <1>1, <2>1, ShownAt, RedactAt
  <2>4. DOMAIN y \subseteq Path
    BY <1>1, CutTwice DEF IsJson, IsTree
  <2> HIDE DEF y, w
  <2>5. IsWritten(w, Redact(None), Shown(t), y)
    BY <2>2, <2>3, <2>4, SetPathAt
  <2>6. \A p \in DOMAIN y : Shown(t) \o p \in DOMAIN w /\ w[Shown(t) \o p] = y[p]
    BY <2>5 DEF IsWritten
  <2>7. LeavesIn(y) \subseteq LeavesIn(w)
    BY <2>6 DEF LeavesIn
  <2> QED BY <1>1, <2>7 DEF w, t, x
<1> QED BY <1>2, <1>3
----------------------------------------------------------------------------
(***************************************************************************)
(* The invariant.                                                          *)
(***************************************************************************)

\* Locals, requests and the inputs steps began with belong to the steps, and
\* a step remembers nothing but its own inputs.
Held ==
  /\ locals = [s \in Step |-> locals[s]] /\ request = [s \in Step |-> request[s]]
  /\ given = [s \in Step |-> given[s]]
  /\ \A s \in Step : DOMAIN locals[s] \subseteq TargetsIn(design[s].inputs)

\* A step that is open holds the inputs it began with, but for what a call wrote
\* inside them, unless it was parked.
Kept == \A s \in Step : at[s] = "open" => AsRead(s, given[s], locals[s]) \/ s \in parked

\* The step whose result was applied last has been left.
Ended == last # << >> => last.step \in Step /\ at[last.step] = "left"

\* Nothing runs before a deploy has checked it.
Checked == phase \notin {"draft", "refused"} => \A s \in Step : FeelParses(s) /\ InputsAreFields(s)

StepInv == TypeOK /\ Held /\ Kept /\ Ended /\ Checked /\ DeployCatches

\* The invariant holds of a draft.
LEMMA StepInit == Init => StepInv
<1> SUFFICES ASSUME Init PROVE StepInv
  OBVIOUS
<1>1. IsScope(variables) /\ IsScope(None) /\ DOMAIN None = {}
  BY Inputs, ScopeNone DEF Init
<1>2. \A s \in Step : locals[s] = None /\ request[s] = None /\ at[s] = "idle"
  BY DEF Init
<1>3. TypeOK
  BY <1>1, <1>2 DEF Init, TypeOK
<1>4. Held
  BY <1>1, <1>2 DEF Init, Held
<1>5. DeployCatches
  BY <1>1, <1>2 DEF Init, DeployCatches
<1> QED BY <1>2, <1>3, <1>4, <1>5 DEF Init, Kept, Ended, Checked, StepInv

\* A step opens with inputs, and with a request that they have filled.
LEMMA OpensStep ==
  ASSUME StepInv, NEW s \in Step, at[s] = "idle", NEW values, IsInputs(values),
         DOMAIN values = TargetsIn(design[s].inputs), NEW held, IsInputs(held), AsRead(s, values, held),
         NEW built, IsFilled(s, values, built), \A p \in DOMAIN built : IsField(p),
         Opens(s, values, held), phase' = phase, request' = [request EXCEPT ![s] = built]
  PROVE  StepInv'
<1> USE DEF StepInv
<1>1. /\ at \in [Step -> {"idle", "open", "left"}] /\ locals = [r \in Step |-> locals[r]]
      /\ request = [r \in Step |-> request[r]] /\ given = [r \in Step |-> given[r]]
  BY DEF TypeOK, Held
<1>2. /\ at' = [at EXCEPT ![s] = "open"] /\ locals' = [locals EXCEPT ![s] = held]
      /\ given' = [given EXCEPT ![s] = values]
      /\ design' = design /\ variables' = variables /\ parked' = parked /\ cause' = cause /\ last' = last
  BY DEF Opens
<1>3. \A r \in Step : r # s => /\ at'[r] = at[r] /\ locals'[r] = locals[r]
                               /\ given'[r] = given[r] /\ request'[r] = request[r]
  BY <1>1, <1>2
<1>4. at'[s] = "open" /\ locals'[s] = held /\ given'[s] = values /\ request'[s] = built
  BY <1>1, <1>2
<1>5. TypeOK'
  <2>1. at' \in [Step -> {"idle", "open", "left"}]
    BY <1>1, <1>2
  <2>2. ASSUME NEW r \in Step
        PROVE  /\ IsScope(request'[r])
               /\ \A target \in DOMAIN locals'[r] : IsJson(locals'[r][target])
               /\ at'[r] # "open" => locals'[r] = None /\ request'[r] = None
    <3>1. CASE r = s
      BY <3>1, <1>4 DEF IsInputs, IsFilled
    <3>2. CASE r # s
      BY <3>2, <1>3 DEF TypeOK
    <3> QED BY <3>1, <3>2
  <2> QED BY <2>1, <2>2, <1>2 DEF TypeOK
<1>6. Held'
  <2>1. /\ locals' = [r \in Step |-> locals'[r]] /\ given' = [r \in Step |-> given'[r]]
        /\ request' = [r \in Step |-> request'[r]]
    BY <1>1, <1>2
  <2>2. \A r \in Step : DOMAIN locals'[r] \subseteq TargetsIn(design'[r].inputs)
    <3>1. DOMAIN held = TargetsIn(design[s].inputs)
      BY DEF AsRead
    <3> QED BY <3>1, <1>2, <1>3, <1>4 DEF Held
  <2> QED BY <2>1, <2>2 DEF Held
<1>7. Kept'
  <2>1. \A r \in Step : r # s /\ at[r] = "open" => AsRead(r, given'[r], locals'[r]) \/ r \in parked
    BY <1>3 DEF Kept
  <2>2. \A r \in Step : at'[r] = "open" => AsRead(r, given'[r], locals'[r]) \/ r \in parked
    BY <2>1, <1>3, <1>4
  <2> QED BY <2>2, <1>2 DEF Kept, AsRead, IsClear
<1>8. Ended'
  BY <1>2, <1>3 DEF Ended
<1>9. Checked'
  BY <1>2 DEF Checked, FeelParses, InputsAreFields
<1>10. DeployCatches'
  <2>1. ASSUME NEW r \in Step, NEW p \in DOMAIN request'[r]
        PROVE  /\ IsField(p)
               /\ \E target \in TargetsIn(design'[r].inputs) :
                    IsPrefix(target, p) /\ given'[r][target] # Scalar(Blank)
    <3>1. CASE r = s
      BY <3>1, <2>1, <1>2, <1>4 DEF IsFilled
    <3>2. CASE r # s
      BY <3>2, <2>1, <1>2, <1>3 DEF DeployCatches
    <3> QED BY <3>1, <3>2
  <2> QED BY <2>1, <1>2 DEF DeployCatches
<1> QED BY <1>5, <1>6, <1>7, <1>8, <1>9, <1>10

\* A run fails for a reason that no deploy could have seen.
LEMMA FailStep ==
  ASSUME StepInv, NEW why \in {"missing", "request"}, phase = "running", Fail(why)
  PROVE  StepInv'
<1> USE DEF StepInv, Fail
<1>1. TypeOK'
  BY DEF TypeOK
<1>2. Held' /\ Kept' /\ Ended' /\ DeployCatches'
  BY DEF Held, Kept, AsRead, IsClear, Ended, DeployCatches
<1>3. Checked'
  BY DEF Checked, FeelParses, InputsAreFields
<1> QED BY <1>1, <1>2, <1>3

\* A deploy lets through only what it has checked.
LEMMA DeployStep == ASSUME StepInv, Deploy PROVE StepInv'
<1> USE DEF StepInv, Deploy
<1>1. TypeOK'
  BY DEF TypeOK
<1>2. Held' /\ Kept' /\ Ended' /\ DeployCatches'
  BY DEF Held, Kept, AsRead, IsClear, Ended, DeployCatches
<1>3. Checked'
  BY DEF Checked, FeelParses, InputsAreFields
<1> QED BY <1>1, <1>2, <1>3

\* A run that takes the instance up changes no step.
LEMMA ResumeStep == ASSUME StepInv, Resume PROVE StepInv'
<1> USE DEF StepInv, Resume
<1>1. TypeOK'
  BY DEF TypeOK
<1>2. Held' /\ Kept' /\ Ended' /\ DeployCatches'
  BY DEF Held, Kept, AsRead, IsClear, Ended, DeployCatches
<1>3. Checked'
  BY DEF Checked, FeelParses, InputsAreFields
<1> QED BY <1>1, <1>2, <1>3

\* A step other than a call begins, and no mapping of it fails.
LEMMA BeginStep == ASSUME StepInv, NEW s \in Step, Begin(s) PROVE StepInv'
<1>1. ~Broken(design[s].inputs) /\ at[s] = "idle"
  BY DEF StepInv, Checked, FeelParses, Begin
<1>2. Opens(s, InputValues(s, variables), InputValues(s, variables)) /\ phase' = phase /\ request' = request
  BY <1>1 DEF Begin
<1>3. request = [r \in Step |-> request[r]] /\ request[s] = None
  BY <1>1 DEF StepInv, Held, TypeOK
<1>4. request' = [request EXCEPT ![s] = None]
  BY <1>2, <1>3
<1>5. design \in Designs /\ IsTree(variables)
  BY DEF StepInv, TypeOK, IsScope
<1>6. IsInputs(InputValues(s, variables)) /\ DOMAIN InputValues(s, variables) = TargetsIn(design[s].inputs)
  BY <1>5, InputValuesAt
<1>7. IsFilled(s, InputValues(s, variables), None) /\ \A p \in DOMAIN None : IsField(p)
  BY ScopeNone DEF IsFilled
<1>8. AsRead(s, InputValues(s, variables), InputValues(s, variables))
  BY DEF AsRead
<1> QED BY <1>1, <1>2, <1>4, <1>6, <1>7, <1>8, OpensStep

\* A call goes out, or fails for a value that no deploy could see.
LEMMA CallStep == ASSUME StepInv, NEW s \in Step, Call(s) PROVE StepInv'
<1> DEFINE inputs == design[s].inputs
           values == InputValues(s, variables)
           built == BuildRequest(s, values)
<1>1. /\ phase = "running" /\ at[s] = "idle" /\ design[s].kind = "service"
      /\ ~Broken(inputs) /\ \A target \in TargetsIn(inputs) : IsField(target)
  BY DEF StepInv, Checked, FeelParses, InputsAreFields, Call
<1>2. design \in Designs /\ IsTree(variables)
  BY DEF StepInv, TypeOK, IsScope
<1>3. IsInputs(values) /\ DOMAIN values = TargetsIn(inputs)
  BY <1>2, InputValuesAt
<1>4. IsFilled(s, values, built)
  <2> HIDE DEF values
  <2> QED BY <1>2, <1>3, RequestFilled
<1>5. \A n \in Filled(s, values) : IsField(inputs[n].target)
  BY <1>1 DEF Filled, TargetsIn
<1>6. CASE \E n \in DOMAIN inputs : Misses(inputs[n].source, variables)
  <2>1. Fail("missing")
    BY <1>1, <1>6 DEF Call
  <2> QED BY <2>1, <1>1, FailStep
<1>7. CASE /\ ~ \E n \in DOMAIN inputs : Misses(inputs[n].source, variables)
           /\ IsBlocked(s, values) \/ ~IsMessage(built)
  <2>1. Fail("request")
    BY <1>1, <1>5, <1>7 DEF Call
  <2> QED BY <2>1, <1>1, FailStep
<1>8. CASE /\ ~ \E n \in DOMAIN inputs : Misses(inputs[n].source, variables)
           /\ ~IsBlocked(s, values) /\ IsMessage(built)
  <2>1. Opens(s, values, Sent(s, values)) /\ phase' = phase /\ request' = [request EXCEPT ![s] = built]
    BY <1>1, <1>8 DEF Call
  <2>2. \A p \in DOMAIN built : IsField(p)
    <3> HIDE DEF built
    <3>1. TAKE p \in DOMAIN built
    <3>2. p \in Path /\ p # << >>
      BY <1>4, ScopePaths DEF IsFilled
    <3>3. CASE p \in DOMAIN Fields
      BY <3>2, <3>3, PrefixOrder DEF IsField
    <3>4. CASE p \notin DOMAIN Fields
      BY <3>4, <1>8 DEF IsMessage
    <3> QED BY <3>3, <3>4
  <2> HIDE DEF values, built
  <2>3. IsInputs(Sent(s, values)) /\ AsRead(s, values, Sent(s, values))
    BY <1>1, <1>2, <1>3, SentAt
  <2> QED BY <2>1, <2>2, <2>3, <1>1, <1>3, <1>4, OpensStep
<1> QED BY <1>6, <1>7, <1>8

\* A run that parks forgets what its steps remember.
LEMMA ParkStep == ASSUME StepInv, Park PROVE StepInv'
<1> USE DEF StepInv
<1>1. /\ locals' = [s \in Step |-> None] /\ request' = [s \in Step |-> None]
      /\ parked' = parked \cup {s \in Step : at[s] = "open" /\ design[s].kind # "service"}
      /\ at' = [s \in Step |-> IF design[s].kind = "service" /\ at[s] = "open" THEN "idle" ELSE at[s]]
      /\ design' = design /\ variables' = variables /\ given' = given /\ cause' = cause /\ last' = last
      /\ phase = "running" /\ phase' = "parked"
  BY DEF Park, Forgotten
<1>2. \A s \in Step : locals'[s] = None /\ request'[s] = None
  BY <1>1
<1>3. IsScope(None) /\ DOMAIN None = {}
  BY ScopeNone
<1>4. TypeOK'
  <2>1. at' \in [Step -> {"idle", "open", "left"}]
    BY <1>1 DEF TypeOK
  <2>2. parked' \subseteq Step
    BY <1>1 DEF TypeOK
  <2>3. \A s \in Step : /\ IsScope(request'[s])
                        /\ \A target \in DOMAIN locals'[s] : IsJson(locals'[s][target])
                        /\ at'[s] # "open" => locals'[s] = None /\ request'[s] = None
    BY <1>2, <1>3
  <2> QED BY <2>1, <2>2, <2>3, <1>1 DEF TypeOK
<1>5. Held'
  BY <1>1, <1>2, <1>3 DEF Held
<1>6. Kept'
  <2>1. ASSUME NEW s \in Step, at'[s] = "open" PROVE s \in parked'
    BY <2>1, <1>1
  <2> QED BY <2>1 DEF Kept
<1>7. Ended'
  BY <1>1 DEF Ended
<1>8. Checked'
  BY <1>1 DEF Checked, FeelParses, InputsAreFields
<1>9. DeployCatches'
  BY <1>1, <1>2, <1>3 DEF DeployCatches
<1> QED BY <1>4, <1>5, <1>6, <1>7, <1>8, <1>9

\* A result is applied, and nothing else touches the variables.
Applied(s, result) ==
  /\ variables' = WriteAll(variables, RowsOf(s, result))
  /\ last' = [step |-> s, result |-> result, rows |-> LeftRows(RowsOf(s, result)),
              logged |-> Logged(LeftRows(RowsOf(s, result)))]

\* A step that ends is left, with its result applied or dropped: no mapping of
\* it fails.
LEMMA EndEffect ==
  ASSUME StepInv, NEW s \in Step, NEW result \in Results, End(s, result)
  PROVE  /\ Applying(s, result) /\ at[s] = "open" /\ ~Broken(design[s].outputs)
         /\ at' = [at EXCEPT ![s] = "left"] /\ locals' = [locals EXCEPT ![s] = None]
         /\ request' = [request EXCEPT ![s] = None]
         /\ UNCHANGED <<design, phase, given, parked, cause>>
         /\ \/ variables' = variables /\ last' = << >>
            \/ Applied(s, result)
<1>1. phase = "running" /\ at[s] = "open" /\ FeelParses(s)
  BY DEF StepInv, Checked, End
<1>2. ~Broken(design[s].outputs) /\ ~Broken(design[s].shape)
  BY <1>1 DEF FeelParses
<1>3. /\ at' = [at EXCEPT ![s] = "left"] /\ locals' = [locals EXCEPT ![s] = None]
      /\ request' = [request EXCEPT ![s] = None]
      /\ UNCHANGED <<design, phase, given, parked, cause>>
      /\ IF Arrives(s, result) = Scalar(Null) THEN UNCHANGED variables /\ last' = << >>
         ELSE LET rows == LeftRows(RowsOf(s, result)) IN
              /\ variables' = WriteAll(variables, RowsOf(s, result))
              /\ last' = [step |-> s, result |-> result, rows |-> rows,
                          logged |-> [n \in DOMAIN rows |-> Mask(rows[n])]]
  BY <1>2 DEF End
<1>4. \/ variables' = variables /\ last' = << >>
      \/ Applied(s, result)
  BY <1>3 DEF Applied, Logged
<1>5. Applying(s, result)
  <2>1. design \in Designs /\ IsScope(variables) /\ IsJson(result)
    BY Inputs DEF StepInv, TypeOK
  <2>2. DOMAIN locals[s] \subseteq TargetsIn(design[s].inputs) /\ \A target \in DOMAIN locals[s] : IsJson(locals[s][target])
    BY DEF StepInv, TypeOK, Held
  <2>3. /\ \A target \in TargetsIn(design[s].inputs) : target \in Path /\ target # << >>
        /\ IsFiniteSet(TargetsIn(design[s].inputs))
    BY <2>1, DesignAt, MappingAt
  <2>4. IsInputs(locals[s])
    BY <2>2, <2>3, FS_Subset DEF IsInputs
  <2> QED BY <2>1, <2>4 DEF Applying
<1> QED BY <1>1, <1>2, <1>3, <1>4, <1>5

\* A step that ends is left, and the variables stay a scope.
LEMMA EndStep == ASSUME StepInv, NEW s \in Step, NEW result \in Results, End(s, result) PROVE StepInv'
<1>1. /\ Applying(s, result) /\ at[s] = "open"
      /\ at' = [at EXCEPT ![s] = "left"] /\ locals' = [locals EXCEPT ![s] = None]
      /\ request' = [request EXCEPT ![s] = None]
      /\ UNCHANGED <<design, phase, given, parked, cause>>
      /\ \/ variables' = variables /\ last' = << >>
         \/ Applied(s, result)
  BY EndEffect
<1>2. /\ at \in [Step -> {"idle", "open", "left"}] /\ locals = [r \in Step |-> locals[r]]
      /\ request = [r \in Step |-> request[r]]
  BY DEF StepInv, TypeOK, Held
<1>3. at'[s] = "left" /\ locals'[s] = None /\ request'[s] = None
  BY <1>1, <1>2
<1>4. \A r \in Step : r # s => at'[r] = at[r] /\ locals'[r] = locals[r] /\ request'[r] = request[r]
  BY <1>1, <1>2
<1>5. IsScope(None) /\ DOMAIN None = {}
  BY ScopeNone
<1>6. IsScope(variables')
  <2>1. IsScope(variables)
    BY <1>1 DEF Applying
  <2>2. IsRows(RowsOf(s, result))
    BY <1>1, RowsAt DEF IsRowSeq
  <2>3. IsScope(WriteAll(variables, RowsOf(s, result)))
    BY <2>1, <2>2, ScopeWrite
  <2> QED BY <1>1, <2>1, <2>3 DEF Applied
<1>7. TypeOK'
  <2>1. at' \in [Step -> {"idle", "open", "left"}]
    BY <1>1, <1>2
  <2>2. ASSUME NEW r \in Step
        PROVE  /\ IsScope(request'[r])
               /\ \A target \in DOMAIN locals'[r] : IsJson(locals'[r][target])
               /\ at'[r] # "open" => locals'[r] = None /\ request'[r] = None
    <3>1. CASE r = s
      BY <3>1, <1>3, <1>5
    <3>2. CASE r # s
      BY <3>2, <1>4 DEF StepInv, TypeOK
    <3> QED BY <3>1, <3>2
  <2> QED BY <2>1, <2>2, <1>1, <1>6 DEF StepInv, TypeOK
<1>8. Held'
  <2>1. locals' = [r \in Step |-> locals'[r]] /\ request' = [r \in Step |-> request'[r]]
    BY <1>1, <1>2
  <2>2. \A r \in Step : DOMAIN locals'[r] \subseteq TargetsIn(design'[r].inputs)
    BY <1>1, <1>3, <1>4, <1>5 DEF StepInv, Held
  <2> QED BY <2>1, <2>2, <1>1 DEF StepInv, Held
<1>9. Kept'
  <2>1. \A r \in Step : at'[r] = "open" => AsRead(r, given[r], locals'[r]) \/ r \in parked
    BY <1>3, <1>4 DEF StepInv, Kept
  <2> QED BY <2>1, <1>1 DEF Kept, AsRead, IsClear
<1>10. Ended'
  BY <1>1, <1>3 DEF Applied, Ended
<1>11. Checked'
  BY <1>1 DEF StepInv, Checked, FeelParses, InputsAreFields
<1>12. DeployCatches'
  BY <1>1, <1>3, <1>4, <1>5 DEF StepInv, DeployCatches
<1> QED BY <1>7, <1>8, <1>9, <1>10, <1>11, <1>12 DEF StepInv

\* Every step keeps the invariant.
LEMMA StepStep == StepInv /\ [Next]_vars => StepInv'
<1> SUFFICES ASSUME StepInv, [Next]_vars PROVE StepInv'
  OBVIOUS
<1>1. CASE UNCHANGED vars
  <2> USE <1>1 DEF vars, StepInv
  <2>1. TypeOK'
    BY DEF TypeOK
  <2>2. Held' /\ Kept' /\ Ended' /\ DeployCatches'
    BY DEF Held, Kept, AsRead, IsClear, Ended, DeployCatches
  <2>3. Checked'
    BY DEF Checked, FeelParses, InputsAreFields
  <2> QED BY <2>1, <2>2, <2>3
<1> QED BY <1>1, DeployStep, ParkStep, ResumeStep, BeginStep, CallStep, EndStep DEF Next

\* The invariant holds of every state.
LEMMA StepAlways == Spec => []StepInv
BY StepInit, StepStep, PTL DEF Spec

----------------------------------------------------------------------------
(***************************************************************************)
(* Theorems.                                                               *)
(***************************************************************************)

\* Whatever mappings write, the process variables, the inputs and the requests
\* stay trees of known leaves, and what a step holds goes when it ends.
THEOREM StepDataTypeCorrect == Spec => []TypeOK
<1>1. StepInv => TypeOK
  BY DEF StepInv
<1> QED BY <1>1, StepAlways, PTL

\* What a deploy lets through never fails a run for a reason it could have
\* seen, and a call that is out carries only fields that inputs have filled.
THEOREM DeployCatchesAlways == Spec => []DeployCatches
<1>1. StepInv => DeployCatches
  BY DEF StepInv
<1> QED BY <1>1, StepAlways, PTL

\* The process variables change when a result is applied, and what is applied
\* is known.
LEMMA Applications ==
  ASSUME StepInv, [Next]_vars, variables' # variables \/ Applies
  PROVE  /\ Applies
         /\ \E s \in Step, result \in Results :
              /\ Applying(s, result) /\ at[s] = "open" /\ ~Broken(design[s].outputs)
              /\ Applied(s, result)
<1>1. PICK s \in Step, result \in Results : End(s, result)
  <2>1. variables' # variables \/ last' # last
    BY DEF Applies
  <2>2. ASSUME NEW s \in Step, Begin(s) PROVE variables' = variables /\ last' = last
    BY <2>2 DEF Begin, Fail, Opens
  <2>3. ASSUME NEW s \in Step, Call(s) PROVE variables' = variables /\ last' = last
    BY <2>3 DEF Call, Fail, Opens
  <2>4. ASSUME Deploy \/ Park \/ Resume \/ UNCHANGED vars PROVE variables' = variables /\ last' = last
    BY <2>4 DEF Deploy, Park, Resume, vars
  <2> QED BY <2>1, <2>2, <2>3, <2>4 DEF Next
<1>2. /\ Applying(s, result) /\ at[s] = "open" /\ ~Broken(design[s].outputs)
      /\ \/ variables' = variables /\ last' = << >>
         \/ Applied(s, result)
  BY <1>1, EndEffect
<1>3. Applied(s, result)
  BY <1>2 DEF Applies
<1>4. last'.step = s /\ last' # << >>
  <2> DEFINE row == [step |-> s, result |-> result, rows |-> LeftRows(RowsOf(s, result)),
                     logged |-> Logged(LeftRows(RowsOf(s, result)))]
  <2>1. "step" \in DOMAIN row /\ row.step = s
    OBVIOUS
  <2>2. "step" \notin DOMAIN << >>
    <3>1. DOMAIN << >> = {}
      OBVIOUS
    <3> QED BY <3>1
  <2>3. row # << >>
    <3> HIDE DEF row
    <3> QED BY <2>1, <2>2
  <2> QED BY <2>1, <2>3, <1>3 DEF Applied
<1>5. last' # last
  BY <1>2, <1>4 DEF StepInv, Ended
<1> QED BY <1>2, <1>3, <1>4, <1>5 DEF Applies

\* A result changes the process variables under its targets and nowhere else,
\* whatever rows it is applied with.
THEOREM OnlyTargets == Spec => OnlyTargetsChange
<1> DEFINE Confined ==
      /\ variables' # variables => Applies
      /\ Applies => ChangesUnder(Targets(last'.step, last'.result) \cup Routing(last'.step))
<1>1. StepInv /\ [Next]_vars => Confined
  <2> SUFFICES ASSUME StepInv, [Next]_vars PROVE Confined
    OBVIOUS
  <2>1. variables' # variables => Applies
    BY Applications
  <2>2. ASSUME Applies, NEW p \in DOMAIN variables \cup DOMAIN variables',
               \A q \in Targets(last'.step, last'.result) \cup Routing(last'.step) : ~Overlap(p, q)
        PROVE  p \in DOMAIN variables \cap DOMAIN variables' /\ variables'[p] = variables[p]
    <3>1. PICK s \in Step, result \in Results : Applying(s, result) /\ Applied(s, result)
      BY <2>2, Applications
    <3> DEFINE rows == RowsOf(s, result)
    <3>2. variables' = WriteAll(variables, rows) /\ last'.step = s /\ last'.result = result
      BY <3>1 DEF Applied
    <3>3. /\ IsRows(rows)
          /\ \A n \in 1..Len(rows) : rows[n].kind # "local" => rows[n].target \in Targets(s, result) \cup Routing(s)
      BY <3>1, RowsAt DEF IsRowSeq
    <3> HIDE DEF rows
    <3>4. IsScope(variables) /\ IsScope(variables')
      BY <3>1, <3>2, <3>3, ScopeWrite DEF Applying
    <3>5. p \in Path
      BY <2>2, <3>4, ScopePaths
    <3>6. \A n \in 1..Len(rows) : rows[n].kind # "local" => ~Overlap(rows[n].target, p)
      BY <2>2, <3>2, <3>3 DEF Overlap
    <3>7. /\ p \in DOMAIN WriteAll(variables, rows) <=> p \in DOMAIN variables
          /\ p \in DOMAIN variables => WriteAll(variables, rows)[p] = variables[p]
      BY <3>3, <3>4, <3>5, <3>6, WriteBeside
    <3> QED BY <3>2, <3>7, <2>2
  <2> QED BY <2>1, <2>2 DEF ChangesUnder
<1>2. Confined => [Confined]_vars
  OBVIOUS
<1> QED BY <1>1, <1>2, StepAlways, PTL DEF Spec, OnlyTargetsChange

\* What output n reads is what the step's scope held before the first of them,
\* when none of the earlier ones has the name.
LEMMA ScopesBeside ==
  ASSUME NEW s, NEW result, Applying(s, result), NEW n \in 1..Len(design[s].outputs),
         NEW path \in Path, path # << >>,
         \A m \in 1..(n - 1) : Head(design[s].outputs[m].target) # Head(path)
  PROVE  Lookup(Scopes(s, result)[n - 1], path) = Lookup(Scope(s, result), path)
<1> DEFINE outputs == design[s].outputs
           z == Scopes(s, result)
           S == {k \in 0..(n - 1) : Lookup(z[k], path) = Lookup(Scope(s, result), path)}
<1>1. outputs \in Seq(Mapping)
  BY DesignAt DEF Applying
<1>2. Len(outputs) \in Nat /\ n - 1 \in Nat
  BY <1>1, MappingAt
<1>3. z[0] = Scope(s, result) /\ \A k \in 1..Len(outputs) : z[k] = Left(s, result, k, z[k - 1])
  BY <1>2, ScopesDef
<1>4. \A k \in 0..Len(outputs) : IsScope(z[k])
  BY ScopeScopes
<1> HIDE DEF z
<1>5. 0 \in S
  BY <1>2, <1>3
<1>6. \A k \in 1..(n - 1) : k - 1 \in S => k \in S
  <2>1. TAKE k \in 1..(n - 1)
  <2>2. HAVE k - 1 \in S
  <2> DEFINE target == outputs[k].target
             new == InputValue(outputs[k].source, z[k - 1])
  <2>3. k \in 1..Len(outputs) /\ k - 1 \in 0..Len(outputs)
    BY <1>2
  <2>4. target \in Path /\ target # << >>
    BY <1>1, <2>3, MappingAt
  <2>5. ~Overlap(target, path)
    <3>1. Head(target) # Head(path)
      OBVIOUS
    <3> HIDE DEF target
    <3>2. Head(target) = target[1] /\ Head(path) = path[1]
      BY <2>4, Roots
    <3> QED BY <3>1, <3>2, <2>4, OverlapHeads
  <2>6. IsTree(z[k - 1])
    BY <1>4, <2>3 DEF IsScope
  <2>7. IsJson(new)
    <3> HIDE DEF outputs
    <3> QED BY <1>1, <2>3, <2>6, JsonInputValue
  <2>8. z[k] = z[k - 1] \/ z[k] = SetPath(z[k - 1], target, new)
    BY <1>3, <2>3 DEF Left
  <2> HIDE DEF target, new
  <2>9. DOMAIN z[k - 1] \subseteq Path /\ DOMAIN new \subseteq Path
    BY <2>6, <2>7 DEF IsJson, IsTree
  <2>10. Lookup(SetPath(z[k - 1], target, new), path) = Lookup(z[k - 1], path)
    BY <2>4, <2>5, <2>9, LookupBeside
  <2> QED BY <2>2, <2>8, <2>10
<1>7. 0..(n - 1) \subseteq S
  <2> HIDE DEF S
  <2> QED BY <1>2, <1>5, <1>6, UpTo
<1>8. n - 1 \in S
  BY <1>2, <1>7
<1> QED BY <1>8 DEF z

\* A variable of the scope is the step's own, its input, or the process's.
LEMMA ScopeMeans ==
  ASSUME NEW s, NEW result, Applying(s, result), AsRead(s, given[s], locals[s]), NEW source,
         source.kind = "feel", source.path \in Path, source.path # << >>, IsClear(s, Head(source.path))
  PROVE  Lookup(Scope(s, result), source.path) = Means(s, result, source)
<1> DEFINE path == source.path
           own == Own(s, result)
           fields == InputFields(locals[s])
<1>1. Head(path) = path[1] /\ path[1] \in Key
  BY Roots
<1>2. IsScope(own) /\ IsScope(variables) /\ IsInputs(locals[s])
  BY ScopeAt DEF Applying
<1>3. IsScope(fields) /\ (path[1] \in Names(fields) <=> <<path[1]>> \in DOMAIN locals[s])
  BY <1>1, <1>2, ScopeInputFields
<1>3a. /\ <<path[1]>> \in DOMAIN given[s] <=> <<path[1]>> \in DOMAIN locals[s]
       /\ <<path[1]>> \in DOMAIN given[s] => given[s][<<path[1]>>] = locals[s][<<path[1]>>]
  BY <1>1 DEF AsRead
<1>4. Means(s, result, source) =
        IF path[1] \in Names(own) THEN Lookup(own, path)
        ELSE IF <<path[1]>> \in DOMAIN given[s] THEN Lookup(given[s][<<path[1]>>], Tail(path))
        ELSE Lookup(variables, path)
  BY <1>1 DEF Means
<1> HIDE DEF path, own, fields
<1>5. path \in Path /\ path # << >>
  BY DEF path
<1>6. IsScope(Spread(fields, variables))
  BY <1>2, <1>3, ScopeSpread
<1>7. Lookup(Spread(own, Spread(fields, variables)), path) =
        IF path[1] \in Names(own) THEN Lookup(own, path) ELSE Lookup(Spread(fields, variables), path)
  BY <1>2, <1>5, <1>6, LookupSpread
<1>8. Lookup(Spread(fields, variables), path) =
        IF path[1] \in Names(fields) THEN Lookup(fields, path) ELSE Lookup(variables, path)
  BY <1>2, <1>3, <1>5, LookupSpread
<1>9. <<path[1]>> \in DOMAIN locals[s] => Lookup(fields, path) = Lookup(locals[s][<<path[1]>>], Tail(path))
  BY <1>2, <1>5, LookupInput DEF fields
<1>10. Scope(s, result) = Spread(own, Spread(fields, variables))
  BY DEF Scope, own, fields
<1>11. Lookup(Scope(s, result), path) = Means(s, result, source)
  BY <1>3, <1>4, <1>7, <1>8, <1>9, <1>10, <1>3a
<1> QED BY <1>11 DEF path

\* What a result leaves at the target of an output is what its source means.
LEMMA AppliedReads ==
  ASSUME NEW s, NEW result, Applying(s, result), Applied(s, result),
         AsRead(s, given[s], locals[s]), ~Broken(design[s].outputs),
         NEW n \in DOMAIN design[s].outputs, Apart(s, n)
  PROVE  Reads(s, result, n)
<1> DEFINE outputs == design[s].outputs
           payload == Payload(s, Arrives(s, result))
           rows == RowsOf(s, result)
<1>1. outputs \in Seq(Mapping) /\ IsScope(variables) /\ design \in Designs /\ s \in Step /\ IsJson(result)
  BY DesignAt DEF Applying
<1>2. IsJson(payload)
  BY <1>1, Arrived
<1>3. rows = ApplyResult(s, payload) /\ variables' = WriteAll(variables, rows)
  BY DEF RowsOf, Applied
<1> HIDE DEF payload, rows
<1>4. Applying(s, payload)
  BY <1>2 DEF Applying
<1>5. SUFFICES ASSUME Unmixed(outputs, n),
                      \A m \in (n + 1)..Len(outputs) : ~Overlap(outputs[m].target, outputs[n].target)
               PROVE  Lookup(variables', outputs[n].target) = Means(s, payload, outputs[n].source)
  BY DEF Reads, payload
<1>6. /\ n \in 1..Len(outputs) /\ Len(outputs) \in Nat /\ outputs # << >>
      /\ outputs[n].source.kind \in {"text", "feel", "broken"} /\ outputs[n].source.path \in Path
      /\ outputs[n].source.kind = "feel" => outputs[n].source.path # << >>
  BY <1>1, <1>5, MappingAt
<1>7. rows = OutputRows(s, payload)
  BY <1>3, <1>6 DEF ApplyResult
<1>8. /\ IsRows(rows) /\ Len(rows) \in Nat /\ Len(outputs) <= Len(rows)
      /\ \A m \in 1..Len(outputs) : rows[m].target = outputs[m].target /\ rows[m].kind = "mapping"
      /\ rows[n].value = InputValue(outputs[n].source, Scopes(s, payload)[n - 1])
      /\ \A m \in (Len(outputs) + 1)..Len(rows) : rows[m].kind = "local"
  <2> HIDE DEF outputs
  <2>1. /\ IsRowSeq(rows) /\ Len(rows) \in Nat /\ Len(outputs) <= Len(rows)
        /\ \A m \in 1..Len(outputs) :
             /\ rows[m].target = outputs[m].target /\ rows[m].kind = "mapping"
             /\ rows[m].value = InputValue(outputs[m].source, Scopes(s, payload)[m - 1])
        /\ \A m \in (Len(outputs) + 1)..Len(rows) : rows[m].kind = "local"
    BY <1>4, <1>7, OutputRowsAt DEF outputs
  <2>2. IsRows(rows)
    BY <2>1 DEF IsRowSeq
  <2> QED BY <2>1, <2>2, <1>6
<1>9. n \in 1..Len(rows) /\ rows[n].kind # "local" /\ rows[n].target = outputs[n].target
  BY <1>6, <1>8
<1>10. \A m \in (n + 1)..Len(rows) : rows[m].kind # "local" => ~Overlap(rows[m].target, rows[n].target)
  <2>1. TAKE m \in (n + 1)..Len(rows)
  <2>2. HAVE rows[m].kind # "local"
  <2>3. m \in (n + 1)..Len(outputs) /\ m \in 1..Len(outputs)
    BY <2>2, <1>6, <1>8
  <2> QED BY <2>3, <1>5, <1>8, <1>9
<1>11. Lookup(variables', outputs[n].target) = InputValue(outputs[n].source, Scopes(s, payload)[n - 1])
  <2>1. Lookup(WriteAll(variables, rows), rows[n].target) = rows[n].value
    BY <1>1, <1>8, <1>9, <1>10, WriteLast
  <2> QED BY <2>1, <1>3, <1>8, <1>9
<1>12. CASE outputs[n].source.kind = "text"
  BY <1>11, <1>12 DEF InputValue, Means
<1>13. CASE outputs[n].source.kind = "feel"
  <2> DEFINE source == outputs[n].source
             path == source.path
  <2>1. Lookup(variables', outputs[n].target) = Lookup(Scopes(s, payload)[n - 1], path)
    BY <1>11, <1>13 DEF InputValue
  <2>2. path \in Path /\ path # << >> /\ \A m \in 1..(n - 1) : Head(design[s].outputs[m].target) # Head(path)
    BY <1>5, <1>6, <1>13 DEF Unmixed
  <2>2a. IsClear(s, Head(path))
    BY <1>13 DEF Apart, IsClear
  <2>3. n \in 1..Len(design[s].outputs)
    BY <1>6
  <2> HIDE DEF outputs, path
  <2>4. Lookup(Scopes(s, payload)[n - 1], path) = Lookup(Scope(s, payload), path)
    BY <2>2, <2>3, <1>4, ScopesBeside
  <2> HIDE DEF source
  <2>5. Lookup(Scope(s, payload), path) = Means(s, payload, source)
    BY <2>2, <2>2a, <1>4, <1>13, ScopeMeans DEF path, source
  <2> QED BY <2>1, <2>4, <2>5 DEF source
<1>14. CASE outputs[n].source.kind = "broken"
  BY <1>5, <1>14 DEF Broken
<1> QED BY <1>6, <1>12, <1>13, <1>14

\* What an output leaves in the process is what its source stands for, with the
\* inputs as they were when the step began.
THEOREM OutputsReadAlways == Spec => OutputsRead
<1> DEFINE Read == (Applies /\ last'.step \notin parked) =>
                     \A n \in DOMAIN design[last'.step].outputs :
                       Apart(last'.step, n) => Reads(last'.step, last'.result, n)
<1>1. StepInv /\ [Next]_vars => Read
  <2> SUFFICES ASSUME StepInv, [Next]_vars, Applies, last'.step \notin parked,
                      NEW n \in DOMAIN design[last'.step].outputs, Apart(last'.step, n)
               PROVE  Reads(last'.step, last'.result, n)
    OBVIOUS
  <2>1. PICK s \in Step, result \in Results :
          /\ Applying(s, result) /\ at[s] = "open" /\ ~Broken(design[s].outputs)
          /\ Applied(s, result)
    BY Applications
  <2>2. last'.step = s /\ last'.result = result
    BY <2>1 DEF Applied
  <2>3. AsRead(s, given[s], locals[s])
    BY <2>1, <2>2 DEF StepInv, Kept
  <2>4. Reads(s, result, n)
    BY <2>1, <2>2, <2>3, AppliedReads
  <2> QED BY <2>2, <2>4
<1>2. Read => [Read]_vars
  OBVIOUS
<1> QED BY <1>1, <1>2, StepAlways, PTL DEF Spec, OutputsRead

\* The rows logged of a result show no more than the variables they wrote do,
\* and account for every change that is shown.
THEOREM LogMatches == Spec => LogMatchesShown
<1> DEFINE Match ==
      Applies =>
        /\ \A n \in DOMAIN last'.rows :
             LeavesIn(last'.logged[n].value) \subseteq
               {Redacted} \cup LeavesIn(Redact(SetPath(None, last'.rows[n].target, last'.rows[n].value)))
        /\ Redact(variables') = Redact(WriteAll(Redact(variables), last'.logged))
<1>1. StepInv /\ [Next]_vars => Match
  <2> SUFFICES ASSUME StepInv, [Next]_vars, Applies PROVE Match
    OBVIOUS
  <2>1. PICK s \in Step, result \in Results : Applying(s, result) /\ Applied(s, result)
    BY Applications
  <2> DEFINE rows == LeftRows(RowsOf(s, result))
  <2>2. variables' = WriteAll(variables, RowsOf(s, result)) /\ last'.rows = rows /\ last'.logged = Logged(rows)
    BY <2>1 DEF Applied
  <2>2a. IsRowSeq(RowsOf(s, result)) /\ IsScope(variables)
    BY <2>1, RowsAt DEF Applying
  <2>3. IsRowSeq(rows) /\ IsScope(variables) /\ WriteAll(variables, RowsOf(s, result)) = WriteAll(variables, rows)
    BY <2>2a, LeftAt, LeftWriting
  <2> HIDE DEF rows
  <2>4. ASSUME NEW n \in DOMAIN rows
        PROVE  LeavesIn(Logged(rows)[n].value) \subseteq
                 {Redacted} \cup LeavesIn(Redact(SetPath(None, rows[n].target, rows[n].value)))
    <3>1. IsRow(rows[n])
      <4>1. n \in 1..Len(rows)
        BY <2>3, <2>4, LenProperties DEF IsRowSeq
      <4> QED BY <4>1, <2>3, LoggedAt
    <3>2. Logged(rows)[n] = Mask(rows[n])
      BY <2>4 DEF Logged
    <3> QED BY <3>1, <3>2, LoggedLeaves
  <2>5. Redact(WriteAll(variables, rows)) = Redact(WriteAll(Redact(variables), Logged(rows)))
    BY <2>3, LoggedWriting
  <2> QED BY <2>2, <2>3, <2>4, <2>5
<1>2. Match => [Match]_vars
  OBVIOUS
<1> QED BY <1>1, <1>2, StepAlways, PTL DEF Spec, LogMatchesShown
=============================================================================
