--------------------------- MODULE SchemaDiffProofs ---------------------------
(***************************************************************************)
(* What the comparison of two schemas finds, proved for schemas of every   *)
(* shape: the list comparison of the diff library, the comparison of two   *)
(* trees, the sort, and with them the judgement of a proposal.             *)
(***************************************************************************)
EXTENDS ContentServiceProofs

(* The image of a finite set. *)
LEMMA FiniteImage ==
    ASSUME NEW S, IsFiniteSet(S), NEW f, NEW T, T = {f[x] : x \in S}
    PROVE  /\ IsFiniteSet(T) /\ Cardinality(T) <= Cardinality(S)
           /\ (\A x, y \in S : f[x] = f[y] => x = y) => Cardinality(T) = Cardinality(S)
<1> DEFINE g == [x \in S |-> f[x]]
<1>1. g \in [S -> T] /\ \A x \in S : g[x] = f[x]
  OBVIOUS
<1>2. \A y \in T : \E x \in S : g[x] = y
  OBVIOUS
<1> HIDE DEF g
<1>3. g \in Surjection(S, T)
  BY <1>1, <1>2 DEF Surjection
<1>4. /\ IsFiniteSet(T) /\ Cardinality(T) <= Cardinality(S)
      /\ Cardinality(T) = Cardinality(S) <=> g \in Injection(S, T)
  BY <1>3, FS_Surjection
<1>5. ASSUME \A x, y \in S : f[x] = f[y] => x = y
      PROVE  g \in Injection(S, T)
  <2>1. DOMAIN g = S
    BY <1>1
  <2> QED BY <1>1, <1>5, <2>1 DEF Injection, IsInjective
<1> QED BY <1>4, <1>5

-----------------------------------------------------------------------------
(* Lists.  The places of a list are the first so many positive numbers.      *)
IsList(s) == /\ IsFiniteSet(DOMAIN s) /\ DOMAIN s \subseteq Steps
             /\ \A i \in DOMAIN s : 1 .. i \subseteq DOMAIN s

(* Less: the fields that are left of a list. *)
IsPlaced(s) == IsFiniteSet(DOMAIN s) /\ DOMAIN s \subseteq Steps

Paired(s, t) == LongestAlignment(s, t) \cup Met(s, t)

LEMMA AlignmentBound ==
    ASSUME NEW s, NEW t, IsFiniteSet(DOMAIN s), IsFiniteSet(DOMAIN t)
    PROVE  \E n \in Nat : \A A \in Alignments(s, t) :
              IsFiniteSet(A) /\ Cardinality(A) \in Nat /\ Cardinality(A) <= n
<1> DEFINE all == (DOMAIN s) \X (DOMAIN t)
<1>1. IsFiniteSet(all) /\ Cardinality(all) \in Nat
  BY FS_Product, FS_CardinalityType
<1>2. \A A \in Alignments(s, t) : A \in SUBSET all
  BY DEF Alignments, CommonPairs
<1> HIDE DEF all
<1> QED BY <1>1, <1>2, FS_Subset, FS_CardinalityType

LEMMA Longest ==
    ASSUME NEW s, NEW t, IsFiniteSet(DOMAIN s), IsFiniteSet(DOMAIN t)
    PROVE  /\ LongestAlignment(s, t) \in Alignments(s, t)
           /\ \A B \in Alignments(s, t) :
                 Cardinality(B) <= Cardinality(LongestAlignment(s, t))
<1>1. PICK n \in Nat : \A A \in Alignments(s, t) :
              IsFiniteSet(A) /\ Cardinality(A) \in Nat /\ Cardinality(A) <= n
  BY AlignmentBound
<1> DEFINE T == {n - Cardinality(A) : A \in Alignments(s, t)}
<1>2. T \in SUBSET Nat /\ T # {}
  <2>1. {} \in Alignments(s, t)
    BY DEF Alignments
  <2> QED BY <1>1, <2>1
<1>3. PICK x \in T : \A y \in T : x <= y
  <2> HIDE DEF T
  <2> QED BY <1>2, LeastNatural
<1>4. PICK A \in Alignments(s, t) : x = n - Cardinality(A)
  BY <1>3
<1>5. \A B \in Alignments(s, t) : Cardinality(B) <= Cardinality(A)
  <2>1. ASSUME NEW B \in Alignments(s, t)
        PROVE  Cardinality(B) <= Cardinality(A)
    <3>1. n - Cardinality(A) <= n - Cardinality(B)
      BY <1>3, <1>4, <2>1
    <3>2. Cardinality(A) \in Nat /\ Cardinality(B) \in Nat
      BY <1>1, <2>1
    <3> QED BY <3>1, <3>2
  <2> QED BY <2>1
<1> QED BY <1>5 DEF LongestAlignment

LEMMA Aligned ==
    ASSUME NEW s, NEW t, IsFiniteSet(DOMAIN s), IsFiniteSet(DOMAIN t),
           DOMAIN s \subseteq Steps, DOMAIN t \subseteq Steps,
           NEW p \in LongestAlignment(s, t)
    PROVE  /\ p = <<p[1], p[2]>> /\ p[1] \in DOMAIN s /\ p[2] \in DOMAIN t
           /\ p[1] \in Nat /\ p[2] \in Nat /\ p[1] > 0 /\ p[2] > 0
           /\ s[p[1]] = t[p[2]]
           /\ \A q \in LongestAlignment(s, t) :
                 /\ p[1] < q[1] <=> p[2] < q[2]
                 /\ p[1] = q[1] <=> p[2] = q[2]
<1>1. LongestAlignment(s, t) \in Alignments(s, t)
  BY Longest
<1>2. \A q \in LongestAlignment(s, t) :
         /\ q = <<q[1], q[2]>> /\ q[1] \in DOMAIN s /\ q[2] \in DOMAIN t
         /\ s[q[1]] = t[q[2]]
  BY <1>1 DEF Alignments, CommonPairs
<1>3. \A q, r \in LongestAlignment(s, t) : q[1] < r[1] <=> q[2] < r[2]
  BY <1>1 DEF Alignments
<1>4. \A q \in LongestAlignment(s, t) :
         q[1] \in Nat /\ q[2] \in Nat /\ q[1] > 0 /\ q[2] > 0
  BY <1>2 DEF Steps
<1> QED BY <1>2, <1>3, <1>4

LEMMA MetFacts ==
    ASSUME NEW s, NEW t, IsFiniteSet(DOMAIN s), IsFiniteSet(DOMAIN t),
           DOMAIN s \subseteq Steps, DOMAIN t \subseteq Steps,
           NEW m \in Met(s, t)
    PROVE  /\ m = <<m[1], m[2]>> /\ m[1] \in DOMAIN s /\ m[2] \in DOMAIN t
           /\ m[1] \in Nat /\ m[2] \in Nat /\ m[1] > 0 /\ m[2] > 0
           /\ \A r \in LongestAlignment(s, t) : r[1] # m[1] /\ r[2] # m[2]
           /\ \E p \in LongestAlignment(s, t) \cup {<<0, 0>>} :
                 /\ p[1] \in Nat /\ p[2] \in Nat
                 /\ m[1] > p[1] /\ m[2] > p[2] /\ m[1] - p[1] = m[2] - p[2]
                 /\ \A r \in LongestAlignment(s, t) :
                       /\ ~(p[1] < r[1] /\ r[1] <= m[1])
                       /\ ~(p[2] < r[2] /\ r[2] <= m[2])
<1> DEFINE A == LongestAlignment(s, t)
<1>1. /\ m = <<m[1], m[2]>> /\ m[1] \in DOMAIN s /\ m[2] \in DOMAIN t
      /\ m[1] \in Nat /\ m[2] \in Nat /\ m[1] > 0 /\ m[2] > 0
  BY DEF Met, Steps
<1>2. PICK p \in A \cup {<<0, 0>>} :
          /\ m[1] > p[1] /\ m[1] - p[1] = m[2] - p[2]
          /\ \A r \in A : /\ ~(p[1] < r[1] /\ r[1] <= m[1])
                          /\ ~(p[2] < r[2] /\ r[2] <= m[2])
  BY DEF Met
<1>3. p[1] \in Nat /\ p[2] \in Nat
  BY Aligned
<1>4. \A r \in A : r[1] \in Nat /\ r[2] \in Nat
  BY Aligned
<1> HIDE DEF A
<1>5. m[2] > p[2]
  BY <1>1, <1>2, <1>3
<1>6. \A r \in A : r[1] # m[1] /\ r[2] # m[2]
  BY <1>1, <1>2, <1>3, <1>4, <1>5
<1> QED BY <1>1, <1>2, <1>3, <1>5, <1>6 DEF A

(* Nothing is paired twice. *)
LEMMA PairedOnce ==
    ASSUME NEW s, NEW t, IsPlaced(s), IsPlaced(t),
           NEW m \in Paired(s, t), NEW n \in Paired(s, t)
    PROVE  m[1] = n[1] <=> m[2] = n[2]
<1> DEFINE A == LongestAlignment(s, t)
<1>1. /\ IsFiniteSet(DOMAIN s) /\ IsFiniteSet(DOMAIN t)
      /\ DOMAIN s \subseteq Steps /\ DOMAIN t \subseteq Steps
  BY DEF IsPlaced
<1>2. \A p \in A : /\ p[1] \in Nat /\ p[2] \in Nat /\ p[1] > 0 /\ p[2] > 0
                   /\ \A q \in A : /\ p[1] < q[1] <=> p[2] < q[2]
                                   /\ p[1] = q[1] <=> p[2] = q[2]
  BY <1>1, Aligned
<1>3. CASE m \in A /\ n \in A
  BY <1>2, <1>3
<1>4. CASE m \in A /\ n \in Met(s, t)
  BY <1>4, <1>1, MetFacts
<1>5. CASE m \in Met(s, t) /\ n \in A
  BY <1>5, <1>1, MetFacts
<1>6. CASE m \in Met(s, t) /\ n \in Met(s, t)
  <2>1. PICK p \in A \cup {<<0, 0>>} :
                 /\ p[1] \in Nat /\ p[2] \in Nat
                 /\ m[1] > p[1] /\ m[2] > p[2] /\ m[1] - p[1] = m[2] - p[2]
                 /\ \A r \in A : /\ ~(p[1] < r[1] /\ r[1] <= m[1])
                                 /\ ~(p[2] < r[2] /\ r[2] <= m[2])
    BY <1>6, <1>1, MetFacts
  <2>2. PICK q \in A \cup {<<0, 0>>} :
                 /\ q[1] \in Nat /\ q[2] \in Nat
                 /\ n[1] > q[1] /\ n[2] > q[2] /\ n[1] - q[1] = n[2] - q[2]
                 /\ \A r \in A : /\ ~(q[1] < r[1] /\ r[1] <= n[1])
                                 /\ ~(q[2] < r[2] /\ r[2] <= n[2])
    BY <1>6, <1>1, MetFacts
  <2>3. m[1] \in Nat /\ m[2] \in Nat /\ n[1] \in Nat /\ n[2] \in Nat
    BY <1>6, <1>1, MetFacts
  <2> HIDE DEF A
  <2>4. p \in A \/ (p[1] = 0 /\ p[2] = 0)
    BY <2>1
  <2>5. q \in A \/ (q[1] = 0 /\ q[2] = 0)
    BY <2>2
  <2>6. ASSUME m[1] = n[1] \/ m[2] = n[2]
        PROVE  p[1] = q[1] /\ p[2] = q[2]
    <3>1. CASE p \in A /\ q \in A
      BY <1>2, <2>1, <2>2, <2>3, <2>6, <3>1
    <3>2. CASE p \in A /\ q[1] = 0 /\ q[2] = 0
      BY <1>2, <2>1, <2>2, <2>3, <2>6, <3>2
    <3>3. CASE q \in A /\ p[1] = 0 /\ p[2] = 0
      BY <1>2, <2>1, <2>2, <2>3, <2>6, <3>3
    <3> QED BY <2>4, <2>5, <3>1, <3>2, <3>3
  <2> QED BY <2>1, <2>2, <2>3, <2>6
<1> QED BY <1>3, <1>4, <1>5, <1>6 DEF Paired

(* What the comparison of two lists reports, as a statement about pairs. *)
LEMMA NothingLeft ==
    ASSUME NEW s, NEW t
    PROVE  /\ "remove" \notin ListKinds(s, t) => \A i \in DOMAIN s : \E m \in Paired(s, t) : m[1] = i
           /\ "add" \notin ListKinds(s, t) => \A j \in DOMAIN t : \E m \in Paired(s, t) : m[2] = j
           /\ DOMAIN s \subseteq {m[1] : m \in Paired(s, t)} => "remove" \notin ListKinds(s, t)
           /\ ListKinds(s, t) \subseteq {"add", "remove"}
<1>1. "remove" \notin ListKinds(s, t) => DOMAIN s \subseteq {m[1] : m \in Paired(s, t)}
  BY DEF ListKinds, Paired
<1>2. "add" \notin ListKinds(s, t) => DOMAIN t \subseteq {m[2] : m \in Paired(s, t)}
  BY DEF ListKinds, Paired
<1>3. DOMAIN s \subseteq {m[1] : m \in Paired(s, t)} => "remove" \notin ListKinds(s, t)
  BY DEF ListKinds, Paired
<1>4. ListKinds(s, t) \subseteq {"add", "remove"}
  BY DEF ListKinds
<1> QED BY <1>1, <1>2, <1>3, <1>4

(* Two lists of which nothing is left over are laid side by side. *)
LEMMA SideBySide ==
    ASSUME NEW s, NEW t, IsList(s), IsList(t), ListKinds(s, t) = {}
    PROVE  /\ DOMAIN s = DOMAIN t
           /\ \A i \in DOMAIN s : \E m \in Paired(s, t) : m[1] = i /\ m[2] = i
<1> DEFINE A == LongestAlignment(s, t)
           P == Paired(s, t)
           Beside(i) == \E m \in P : m[1] = i /\ m[2] = i
           bad == {i \in (DOMAIN s) \cup (DOMAIN t) : ~Beside(i)}
<1>1. /\ IsFiniteSet(DOMAIN s) /\ IsFiniteSet(DOMAIN t)
      /\ DOMAIN s \subseteq Steps /\ DOMAIN t \subseteq Steps
  BY DEF IsList
<1>2. \A m \in P : \A n \in P : m[1] = n[1] <=> m[2] = n[2]
  <2>1. IsPlaced(s) /\ IsPlaced(t)
    BY <1>1 DEF IsPlaced
  <2> QED BY <2>1, PairedOnce
<1>3. \A p \in A : /\ p[1] \in Nat /\ p[2] \in Nat
                   /\ p[1] \in DOMAIN s /\ p[2] \in DOMAIN t
                   /\ \A q \in A : p[1] < q[1] <=> p[2] < q[2]
  BY <1>1, Aligned
<1>4. \A m \in P : m[1] \in DOMAIN s /\ m[2] \in DOMAIN t /\ m[1] \in Nat /\ m[2] \in Nat
  BY <1>1, <1>3, MetFacts DEF Paired
<1>5. /\ \A i \in DOMAIN s : \E m \in P : m[1] = i
      /\ \A j \in DOMAIN t : \E m \in P : m[2] = j
  BY NothingLeft
<1>6. bad = {}
  <2> SUFFICES ASSUME bad # {}
               PROVE  FALSE
    OBVIOUS
  <2>1. bad \in SUBSET Nat
    BY <1>1 DEF Steps
  <2>2. PICK n \in bad : \A k \in bad : n <= k
    <3> HIDE DEF bad
    <3> QED BY <2>1, LeastNatural
  <2>3. n \in Nat /\ n > 0 /\ ~Beside(n)
    BY <1>1 DEF Steps
  <2>4. ASSUME NEW k \in (DOMAIN s) \cup (DOMAIN t), k < n
        PROVE  Beside(k)
    <3>1. k \in Nat
      BY <1>1 DEF Steps
    <3>2. k \notin bad
      BY <2>2, <2>3, <2>4, <3>1
    <3> QED BY <3>2
  <2>5. ASSUME NEW m \in P, m[1] < n \/ m[2] < n
        PROVE  m[1] = m[2]
    BY <1>2, <1>4, <2>4, <2>5
  <2>6. ASSUME NEW m \in P, m[1] = n \/ m[2] = n
        PROVE  m \in A
    <3>1. CASE m \in Met(s, t)
      <4>1. PICK p \in A \cup {<<0, 0>>} :
                 /\ p[1] \in Nat /\ p[2] \in Nat
                 /\ m[1] > p[1] /\ m[2] > p[2] /\ m[1] - p[1] = m[2] - p[2]
        BY <1>1, <3>1, MetFacts
      <4>2. p[1] = p[2]
        <5>1. CASE p \in A
          <6>1. p \in P /\ (p[1] < n \/ p[2] < n)
            BY <1>4, <2>3, <2>6, <4>1, <5>1 DEF Paired
          <6> QED BY <2>5, <6>1
        <5>2. CASE p = <<0, 0>>
          BY <5>2
        <5> QED BY <4>1, <5>1, <5>2
      <4>3. m[1] = n /\ m[2] = n
        BY <1>4, <2>3, <2>6, <4>1, <4>2
      <4> QED BY <2>3, <4>3
    <3> QED BY <3>1 DEF Paired
  <2>7. PICK m \in P : m[1] = n \/ m[2] = n
    BY <1>5
  <2>8. m \in A /\ m[1] # m[2]
    BY <2>3, <2>6, <2>7
  <2>9. n <= m[1] /\ n <= m[2]
    BY <1>4, <2>3, <2>5, <2>8
  <2>10. n \in DOMAIN s /\ n \in DOMAIN t
    BY <1>4, <2>3, <2>7, <2>9 DEF IsList
  <2>11. PICK q \in P : q[1] = n
    BY <1>5, <2>10
  <2>12. PICK r \in P : r[2] = n
    BY <1>5, <2>10
  <2>13. q \in A /\ r \in A /\ q[2] # n /\ r[1] # n
    BY <2>3, <2>6, <2>11, <2>12
  <2>14. n <= q[2] /\ n <= r[1]
    BY <1>4, <2>3, <2>5, <2>11, <2>12, <2>13
  <2> QED BY <1>3, <1>4, <2>3, <2>11, <2>12, <2>13, <2>14
<1>7. \A i \in (DOMAIN s) \cup (DOMAIN t) : Beside(i)
  BY <1>6
<1>8. \A i \in (DOMAIN s) \cup (DOMAIN t) : i \in DOMAIN s /\ i \in DOMAIN t
  BY <1>4, <1>7
<1> QED BY <1>7, <1>8

-----------------------------------------------------------------------------
(* Nodes. *)
IsJsonField(a) ==
    /\ a = [key \in DOMAIN a |-> a[key]]
    /\ "allowedValues" \in DOMAIN a => a.allowedValues \in Seq(JsonValues)

LEMMA SequenceIsList ==
    ASSUME NEW S, NEW s \in Seq(S)
    PROVE  IsList(s)
<1>1. DOMAIN s = 1 .. Len(s) /\ Len(s) \in Nat
  OBVIOUS
<1>2. IsFiniteSet(1 .. Len(s))
  BY <1>1, FS_Interval
<1> QED BY <1>1, <1>2 DEF IsList, Steps

(* Members other than the allowed values are the same or replaced; the       *)
(* allowed values keep their places or are laid along common ones.           *)
LEMMA MembersKept ==
    ASSUME NEW a, NEW b, NodeKinds(a, b) \cap {"remove", "replace"} = {}
    PROVE  /\ DOMAIN a \subseteq DOMAIN b
           /\ \A key \in DOMAIN a : key # "allowedValues" => a[key] = b[key]
           /\ "allowedValues" \in DOMAIN a /\ a.allowedValues # b.allowedValues =>
                 /\ Met(a.allowedValues, b.allowedValues) = {}
                 /\ "remove" \notin ListKinds(a.allowedValues, b.allowedValues)
<1>1. DOMAIN a \subseteq DOMAIN b
  BY DEF NodeKinds
<1>2. ASSUME NEW key \in DOMAIN a
      PROVE  MemberKinds(key, a[key], b[key]) \cap {"remove", "replace"} = {}
  BY <1>1 DEF NodeKinds
<1>3. ASSUME NEW key \in DOMAIN a, key # "allowedValues"
      PROVE  a[key] = b[key]
  <2>1. a[key] # b[key] => "replace" \in MemberKinds(key, a[key], b[key])
    BY <1>3 DEF MemberKinds
  <2> QED BY <1>2, <2>1
<1>4. ASSUME "allowedValues" \in DOMAIN a, a.allowedValues # b.allowedValues
      PROVE  /\ Met(a.allowedValues, b.allowedValues) = {}
             /\ "remove" \notin ListKinds(a.allowedValues, b.allowedValues)
  <2> DEFINE x == a.allowedValues
             y == b.allowedValues
  <2>1. MemberKinds("allowedValues", x, y) =
          ListKinds(x, y) \cup (IF Met(x, y) = {} THEN {} ELSE {"replace"})
    BY <1>4 DEF MemberKinds
  <2> QED BY <1>2, <1>4, <2>1
<1> QED BY <1>1, <1>3, <1>4

LEMMA ValuesKept ==
    ASSUME NEW a, NEW b, IsJsonField(a), IsJsonField(b),
           NodeKinds(a, b) \cap {"remove", "replace"} = {},
           "allowedValues" \in DOMAIN a
    PROVE  \A i \in DOMAIN a.allowedValues : \E j \in DOMAIN b.allowedValues :
              a.allowedValues[i] = b.allowedValues[j]
<1> DEFINE x == a.allowedValues
           y == b.allowedValues
<1> SUFFICES \A i \in DOMAIN x : \E j \in DOMAIN y : x[i] = y[j]
  OBVIOUS
<1>1. IsList(x) /\ IsList(y)
  BY MembersKept, SequenceIsList DEF IsJsonField
<1>2. CASE x = y
  BY <1>2
<1>3. CASE x # y
  <2>1. Met(x, y) = {} /\ "remove" \notin ListKinds(x, y)
    BY <1>3, MembersKept
  <2>2. \A m \in LongestAlignment(x, y) : m[2] \in DOMAIN y /\ x[m[1]] = y[m[2]]
    BY <1>1, Aligned DEF IsList
  <2>3. \A i \in DOMAIN x : \E m \in LongestAlignment(x, y) : m[1] = i
    BY <2>1, NothingLeft DEF Paired
  <2> HIDE DEF x, y
  <2> QED BY <2>2, <2>3
<1> QED BY <1>2, <1>3

(* Two nodes that do not differ are the same. *)
LEMMA SameNode ==
    ASSUME NEW a, NEW b, IsJsonField(a), IsJsonField(b), NodeKinds(a, b) = {}
    PROVE  a = b
<1>1. DOMAIN a = DOMAIN b
  BY DEF NodeKinds
<1>2. \A key \in DOMAIN a : key # "allowedValues" => a[key] = b[key]
  BY MembersKept
<1>3. ASSUME "allowedValues" \in DOMAIN a
      PROVE  a.allowedValues = b.allowedValues
  <2> DEFINE x == a.allowedValues
             y == b.allowedValues
  <2> SUFFICES ASSUME x # y PROVE FALSE
    OBVIOUS
  <2>1. x \in Seq(JsonValues) /\ y \in Seq(JsonValues)
    BY <1>1, <1>3 DEF IsJsonField
  <2>2. IsList(x) /\ IsList(y)
    BY <2>1, SequenceIsList
  <2>3. MemberKinds("allowedValues", x, y) \subseteq NodeKinds(a, b)
    BY <1>1, <1>3 DEF NodeKinds
  <2>4. ListKinds(x, y) = {}
    BY <2>3 DEF MemberKinds
  <2>5. Met(x, y) = {}
    BY <1>3, MembersKept
  <2>6. /\ DOMAIN x = DOMAIN y
        /\ \A i \in DOMAIN x : \E m \in Paired(x, y) : m[1] = i /\ m[2] = i
    BY <2>2, <2>4, SideBySide
  <2>7. \A m \in LongestAlignment(x, y) : x[m[1]] = y[m[2]]
    BY <2>2, Aligned DEF IsList
  <2> HIDE DEF x, y
  <2>8. \A i \in DOMAIN x : x[i] = y[i]
    BY <2>5, <2>6, <2>7 DEF Paired
  <2> QED BY <2>1, <2>6, <2>8, SeqEqual
<1>4. \A key \in DOMAIN a : a[key] = b[key]
  BY <1>2, <1>3
<1> QED BY <1>1, <1>4 DEF IsJsonField

-----------------------------------------------------------------------------
(* Trees.  What a tree has at its places, and the fields of a record in it.  *)
IsTree(t) ==
    /\ IsFiniteSet(DOMAIN t)
    /\ t = [p \in DOMAIN t |-> t[p]]
    /\ DOMAIN t \subseteq Seq(Steps) \ {<<>>}
    /\ \A p \in DOMAIN t : \A k \in 1 .. Len(p) : Upto(p, k) \in DOMAIN t

(* The same with the fields of every record at its first places, as objects  *)
(* in JSON.                                                                  *)
IsJsonTree(t) ==
    /\ IsTree(t)
    /\ \A p \in DOMAIN t : \A i \in 1 .. Last(p) :
          Append(Upto(p, Len(p) - 1), i) \in DOMAIN t
    /\ \A p \in DOMAIN t : IsJsonField(t[p])
    /\ \A p \in DOMAIN t : Len(p) > 1 => "fields" \in DOMAIN t[Upto(p, Len(p) - 1)]

Parent(p) == Upto(p, Len(p) - 1)

LEMMA ParentFacts ==
    ASSUME NEW p \in Seq(Steps), p # <<>>
    PROVE  /\ Parent(p) \in Seq(Steps) /\ Len(Parent(p)) = Len(p) - 1
           /\ Len(p) \in Nat \ {0}
           /\ Last(p) \in Steps /\ p = Append(Parent(p), Last(p))
           /\ \A k \in 0 .. Len(p) - 1 : Upto(Parent(p), k) = Upto(p, k)
           /\ \A k \in 1 .. Len(p) - 1 : Parent(p)[k] = p[k]
           /\ Len(p) = 1 => Parent(p) = <<>>
<1>1. Len(p) \in Nat \ {0}
  OBVIOUS
<1>2. Len(p) - 1 \in 0 .. Len(p) /\ Len(p) \in 1 .. Len(p)
  BY <1>1
<1>3. /\ Parent(p) \in Seq(Steps) /\ Len(Parent(p)) = Len(p) - 1
      /\ \A i \in 1 .. Len(p) - 1 : Parent(p)[i] = p[i]
      /\ \A j \in 0 .. Len(p) - 1 : Upto(Parent(p), j) = Upto(p, j)
  BY <1>2, Prefix DEF Parent
<1>4. Last(p) \in Steps
  BY <1>2 DEF Last
<1> HIDE DEF Parent
<1>5. Append(Parent(p), Last(p)) \in Seq(Steps)
        /\ Len(Append(Parent(p), Last(p))) = Len(p)
        /\ \A i \in 1 .. Len(p) : Append(Parent(p), Last(p))[i] = p[i]
  BY <1>1, <1>3, <1>4, AppendPrefix DEF Last
<1>6. p = Append(Parent(p), Last(p))
  BY <1>5, SeqEqual
<1>7. Len(p) = 1 => Parent(p) = <<>>
  BY <1>3
<1> QED BY <1>1, <1>3, <1>4, <1>6, <1>7

(* The children of a place and the items they are. *)
LEMMA ChildrenOf ==
    ASSUME NEW t, IsTree(t), NEW u \in Seq(Steps)
    PROVE  /\ \A q : q \in Children(t, u) <=> q \in DOMAIN t /\ Parent(q) = u
           /\ \A i : i \in DOMAIN Items(t, u) <=> i \in Steps /\ Append(u, i) \in DOMAIN t
           /\ \A i \in DOMAIN Items(t, u) : Items(t, u)[i] = Below(t, Append(u, i))
           /\ IsFiniteSet(DOMAIN Items(t, u))
<1>1. ASSUME NEW q
      PROVE  q \in Children(t, u) <=> q \in DOMAIN t /\ Parent(q) = u
  <2>1. CASE q \in DOMAIN t
    <3>1. q \in Seq(Steps) /\ q # <<>>
      BY <2>1 DEF IsTree
    <3>2. Parent(q) = Upto(q, Len(q) - 1) /\ Len(Parent(q)) = Len(q) - 1
            /\ Len(q) \in Nat /\ Len(u) \in Nat
      BY <3>1, ParentFacts DEF Parent
    <3>3. CASE Len(q) = Len(u) + 1
      BY <2>1, <3>2, <3>3 DEF Children
    <3>4. CASE Len(q) # Len(u) + 1
      BY <2>1, <3>2, <3>4 DEF Children
    <3> QED BY <3>3, <3>4
  <2>2. CASE q \notin DOMAIN t
    BY <2>2 DEF Children
  <2> QED BY <2>1, <2>2
<1>2. DOMAIN Items(t, u) = {Last(q) : q \in Children(t, u)}
  BY DEF Items
<1>3. ASSUME NEW i
      PROVE  i \in DOMAIN Items(t, u) <=> i \in Steps /\ Append(u, i) \in DOMAIN t
  <2>1. ASSUME i \in DOMAIN Items(t, u)
        PROVE  i \in Steps /\ Append(u, i) \in DOMAIN t
    <3>1. PICK q \in Children(t, u) : i = Last(q)
      BY <1>2, <2>1
    <3>2. q \in DOMAIN t /\ Parent(q) = u /\ q \in Seq(Steps) /\ q # <<>>
      BY <1>1, <3>1 DEF IsTree
    <3> QED BY <3>1, <3>2, ParentFacts
  <2>2. ASSUME i \in Steps, Append(u, i) \in DOMAIN t
        PROVE  i \in DOMAIN Items(t, u)
    <3>1. Last(Append(u, i)) = i /\ Len(Append(u, i)) = Len(u) + 1
            /\ Upto(Append(u, i), Len(u)) = u
      BY <2>2, AppendPrefix
    <3>2. Append(u, i) \in Children(t, u)
      BY <2>2, <3>1 DEF Children
    <3> QED BY <1>2, <3>1, <3>2
  <2> QED BY <2>1, <2>2
<1>4. \A i \in DOMAIN Items(t, u) : Items(t, u)[i] = Below(t, Append(u, i))
  BY DEF Items
<1>5. IsFiniteSet(DOMAIN Items(t, u))
  <2> DEFINE last == [q \in Children(t, u) |-> Last(q)]
  <2>1. IsFiniteSet(Children(t, u))
    <3>1. Children(t, u) \in SUBSET DOMAIN t
      BY DEF Children
    <3> QED BY <3>1, FS_Subset DEF IsTree
  <2>2. DOMAIN Items(t, u) = {last[q] : q \in Children(t, u)}
    BY <1>2
  <2> HIDE DEF last
  <2> QED BY <2>1, <2>2, FiniteImage
<1> QED BY <1>1, <1>3, <1>4, <1>5

(* A place is one above it and what leads from there. *)
LEMMA PlaceAt ==
    ASSUME NEW p \in Seq(Steps), NEW k \in 1 .. Len(p)
    PROVE  /\ Upto(p, k) \in Seq(Steps) /\ Upto(p, k) # <<>> /\ Len(Upto(p, k)) = k
           /\ Upto(p, k - 1) \in Seq(Steps) /\ Len(Upto(p, k - 1)) = k - 1
           /\ p[k] \in Steps
           /\ Upto(p, k) = Append(Upto(p, k - 1), p[k])
           /\ Parent(Upto(p, k)) = Upto(p, k - 1) /\ Last(Upto(p, k)) = p[k]
           /\ k = 1 => Upto(p, k - 1) = <<>>
<1>1. k \in 0 .. Len(p) /\ k - 1 \in 0 .. Len(p) /\ p[k] \in Steps
  OBVIOUS
<1>2. /\ Upto(p, k) \in Seq(Steps) /\ Len(Upto(p, k)) = k
      /\ Upto(Upto(p, k), k - 1) = Upto(p, k - 1)
      /\ Upto(p, k)[k] = p[k]
  BY <1>1, Prefix
<1>3. Upto(p, k - 1) \in Seq(Steps) /\ Len(Upto(p, k - 1)) = k - 1
  BY <1>1, Prefix
<1>4. Upto(p, k) # <<>>
  BY <1>2
<1>5. Parent(Upto(p, k)) = Upto(p, k - 1) /\ Last(Upto(p, k)) = p[k]
  BY <1>2 DEF Parent, Last
<1>6. Upto(p, k) = Append(Upto(p, k - 1), p[k])
  BY <1>2, <1>4, <1>5, ParentFacts
<1>7. k = 1 => Upto(p, k - 1) = <<>>
  BY <1>3
<1> QED BY <1>1, <1>2, <1>3, <1>4, <1>5, <1>6, <1>7

LEMMA Joined ==
    ASSUME NEW u \in Seq(Steps), NEW rest \in Seq(Steps)
    PROVE  /\ u \o rest \in Seq(Steps) /\ Len(u \o rest) = Len(u) + Len(rest)
           /\ \A i \in 1 .. Len(u) : (u \o rest)[i] = u[i]
           /\ \A i \in 1 .. Len(rest) : (u \o rest)[Len(u) + i] = rest[i]
           /\ Upto(u \o rest, Len(u)) = u
           /\ SubSeq(u \o rest, Len(u) + 1, Len(u \o rest)) = rest
           /\ \A i \in Steps : Append(u \o rest, i) = u \o Append(rest, i)
<1> DEFINE p == u \o rest
           tail == SubSeq(p, Len(u) + 1, Len(p))
<1>1. /\ p \in Seq(Steps) /\ Len(p) = Len(u) + Len(rest) /\ Len(u) \in Nat /\ Len(rest) \in Nat
      /\ \A i \in 1 .. Len(u) : p[i] = u[i]
      /\ \A i \in 1 .. Len(rest) : p[Len(u) + i] = rest[i]
  OBVIOUS
<1> HIDE DEF p
<1>2. Upto(p, Len(u)) = u
  <2>1. /\ Len(u) \in Nat /\ Len(u) <= Len(p) /\ Len(u) <= Len(u)
        /\ \A i \in 1 .. Len(u) : p[i] = u[i]
    BY <1>1
  <2>2. Upto(p, Len(u)) = Upto(u, Len(u))
    BY <1>1, <2>1, SamePrefix
  <2>3. Upto(u, Len(u)) = u
    BY <1>1, Prefix
  <2> QED BY <2>2, <2>3
<1>3. tail = rest
  <2>1. tail \in Seq(Steps) /\ Len(tail) = Len(rest)
    BY <1>1
  <2>2. \A i \in 1 .. Len(rest) : tail[i] = p[Len(u) + i]
    BY <1>1
  <2> QED BY <1>1, <2>1, <2>2, SeqEqual
<1>4. ASSUME NEW i \in Steps
      PROVE  Append(p, i) = u \o Append(rest, i)
  BY DEF p
<1> QED BY <1>1, <1>2, <1>3, <1>4 DEF p

LEMMA Apart ==
    ASSUME NEW p \in Seq(Steps), NEW k \in 0 .. Len(p),
           NEW rest, rest = SubSeq(p, k + 1, Len(p))
    PROVE  /\ rest \in Seq(Steps) /\ Len(rest) = Len(p) - k
           /\ p = Upto(p, k) \o rest
           /\ \A i \in 1 .. Len(rest) : rest[i] = p[k + i]
<1>1. /\ rest \in Seq(Steps) /\ Len(rest) = Len(p) - k
      /\ \A i \in 1 .. Len(rest) : rest[i] = p[k + i]
  OBVIOUS
<1>2. /\ Upto(p, k) \in Seq(Steps) /\ Len(Upto(p, k)) = k
      /\ \A i \in 1 .. k : Upto(p, k)[i] = p[i]
  BY Prefix
<1> DEFINE u == Upto(p, k)
           q == u \o rest
<1>3. u \in Seq(Steps) /\ Len(u) = k /\ \A i \in 1 .. k : u[i] = p[i]
  BY <1>2
<1> HIDE DEF u
<1>4. /\ q \in Seq(Steps) /\ Len(q) = Len(p)
      /\ \A i \in 1 .. k : q[i] = p[i]
      /\ \A i \in 1 .. Len(rest) : q[k + i] = p[k + i]
  <2>1. /\ q \in Seq(Steps) /\ Len(q) = Len(u) + Len(rest)
        /\ \A i \in 1 .. Len(u) : q[i] = u[i]
        /\ \A i \in 1 .. Len(rest) : q[Len(u) + i] = rest[i]
    BY <1>1, <1>3, Joined
  <2>2. k \in Nat /\ Len(p) \in Nat
    OBVIOUS
  <2> HIDE DEF q
  <2>3. Len(q) = Len(p)
    BY <1>1, <1>3, <2>1, <2>2
  <2>4. \A i \in 1 .. k : q[i] = p[i]
    BY <1>3, <2>1
  <2>5. \A i \in 1 .. Len(rest) : q[k + i] = p[k + i]
    BY <1>1, <1>3, <2>1
  <2> QED BY <2>1, <2>3, <2>4, <2>5
<1> HIDE DEF q
<1>5. ASSUME NEW i \in 1 .. Len(p)
      PROVE  q[i] = p[i]
  <2>1. CASE i \in 1 .. k
    BY <1>4, <2>1
  <2>2. CASE i \notin 1 .. k
    <3>1. i - k \in 1 .. Len(rest) /\ k + (i - k) = i
      BY <1>1, <2>2
    <3> QED BY <1>4, <3>1
  <2> QED BY <2>1, <2>2
<1>6. q = p
  BY <1>4, <1>5, SeqEqual
<1> QED BY <1>1, <1>6 DEF q, u

LEMMA BelowAt ==
    ASSUME NEW t, IsTree(t), NEW u \in Seq(Steps)
    PROVE  /\ DOMAIN Below(t, u) \subseteq Seq(Steps)
           /\ \A rest \in Seq(Steps) :
                 /\ rest \in DOMAIN Below(t, u) <=> u \o rest \in DOMAIN t
                 /\ rest \in DOMAIN Below(t, u) => Below(t, u)[rest] = t[u \o rest]
           /\ Below(t, u) = [rest \in DOMAIN Below(t, u) |-> t[u \o rest]]
<1> DEFINE under == {r \in DOMAIN t : Len(r) >= Len(u) /\ Upto(r, Len(u)) = u}
<1>1. DOMAIN Below(t, u) = {SubSeq(r, Len(u) + 1, Len(r)) : r \in under}
  BY DEF Below
<1>2. /\ \A rest \in DOMAIN Below(t, u) : Below(t, u)[rest] = t[u \o rest]
      /\ Below(t, u) = [rest \in DOMAIN Below(t, u) |-> t[u \o rest]]
  BY DEF Below
<1>3. ASSUME NEW r \in under
      PROVE  /\ SubSeq(r, Len(u) + 1, Len(r)) \in Seq(Steps)
             /\ u \o SubSeq(r, Len(u) + 1, Len(r)) = r
  <2>1. r \in Seq(Steps) /\ Len(u) \in 0 .. Len(r) /\ Upto(r, Len(u)) = u
    BY DEF IsTree
  <2> DEFINE rest == SubSeq(r, Len(u) + 1, Len(r))
  <2>2. rest = SubSeq(r, Len(u) + 1, Len(r))
    OBVIOUS
  <2> HIDE DEF rest, under
  <2>3. rest \in Seq(Steps) /\ r = Upto(r, Len(u)) \o rest
    BY <2>1, <2>2, Apart
  <2> QED BY <2>1, <2>2, <2>3
<1>4. ASSUME NEW rest \in Seq(Steps), u \o rest \in DOMAIN t
      PROVE  rest \in DOMAIN Below(t, u)
  <2>1. u \o rest \in under /\ SubSeq(u \o rest, Len(u) + 1, Len(u \o rest)) = rest
    BY <1>4, Joined
  <2> HIDE DEF under
  <2> QED BY <1>1, <2>1
<1>5. ASSUME NEW rest \in DOMAIN Below(t, u)
      PROVE  rest \in Seq(Steps) /\ u \o rest \in DOMAIN t
  BY <1>1, <1>3
<1> QED BY <1>2, <1>4, <1>5

LEMMA SameBelow ==
    ASSUME NEW s, NEW t, IsTree(s), IsTree(t), NEW u \in Seq(Steps), NEW v \in Seq(Steps),
           Below(s, u) = Below(t, v), NEW rest \in Seq(Steps)
    PROVE  /\ u \o rest \in DOMAIN s <=> v \o rest \in DOMAIN t
           /\ u \o rest \in DOMAIN s => s[u \o rest] = t[v \o rest]
<1>1. /\ rest \in DOMAIN Below(s, u) <=> u \o rest \in DOMAIN s
      /\ rest \in DOMAIN Below(s, u) => Below(s, u)[rest] = s[u \o rest]
  BY BelowAt
<1>2. /\ rest \in DOMAIN Below(t, v) <=> v \o rest \in DOMAIN t
      /\ rest \in DOMAIN Below(t, v) => Below(t, v)[rest] = t[v \o rest]
  BY BelowAt
<1> QED BY <1>1, <1>2

AgreeBelow(s, t, u, v) ==
    \A rest \in Seq(Steps) :
       /\ u \o rest \in DOMAIN s <=> v \o rest \in DOMAIN t
       /\ u \o rest \in DOMAIN s => s[u \o rest] = t[v \o rest]

LEMMA BelowSame ==
    ASSUME NEW s, NEW t, IsTree(s), IsTree(t), NEW u \in Seq(Steps), NEW v \in Seq(Steps),
           AgreeBelow(s, t, u, v)
    PROVE  Below(s, u) = Below(t, v)
<1>1. DOMAIN Below(s, u) = DOMAIN Below(t, v)
  BY BelowAt DEF AgreeBelow
<1>2. \A rest \in DOMAIN Below(s, u) : s[u \o rest] = t[v \o rest]
  BY BelowAt DEF AgreeBelow
<1>3. /\ Below(s, u) = [rest \in DOMAIN Below(s, u) |-> s[u \o rest]]
      /\ Below(t, v) = [rest \in DOMAIN Below(t, v) |-> t[v \o rest]]
  BY BelowAt
<1> QED BY <1>1, <1>2, <1>3

(* The comparison goes down two trees: where two places are compared, their  *)
(* items are paired; where an item was found whole in the other list, so are *)
(* the places in it.  q follows p when it is what p is laid beside.          *)
IsCompared(s, t, u, v) == <<u, v>> \in ComparedPlaces(s, t) \cup {<< <<>>, <<>> >>}

Linked(s, t, u, v, i, j) ==
    IF IsCompared(s, t, u, v) THEN <<i, j>> \in Paired(Items(s, u), Items(t, v)) ELSE i = j

Follows(s, t, p, q) ==
    /\ Len(p) = Len(q)
    /\ \A k \in 1 .. Len(p) : Linked(s, t, Upto(p, k - 1), Upto(q, k - 1), p[k], q[k])

LEMMA ComparedAbove ==
    ASSUME NEW s, NEW t, IsTree(s), IsTree(t), NEW p \in Seq(Steps), NEW q \in Seq(Steps),
           p # <<>>, IsCompared(s, t, p, q)
    PROVE  /\ p \in DOMAIN s /\ q \in DOMAIN t /\ Len(p) = Len(q)
           /\ IsCompared(s, t, Parent(p), Parent(q))
           /\ <<Last(p), Last(q)>> \in Met(Items(s, Parent(p)), Items(t, Parent(q)))
<1>1. <<p, q>> \in ComparedPlaces(s, t)
  BY DEF IsCompared
<1>2. /\ p \in DOMAIN s /\ q \in DOMAIN t /\ Len(p) = Len(q)
      /\ \A k \in 1 .. Len(p) :
            <<p[k], q[k]>> \in Met(Items(s, Upto(p, k - 1)), Items(t, Upto(q, k - 1)))
  BY <1>1 DEF ComparedPlaces
<1>3. Len(p) \in Nat \ {0} /\ q # <<>> /\ Len(p) \in 1 .. Len(p)
  BY <1>2
<1>4. <<Last(p), Last(q)>> \in Met(Items(s, Parent(p)), Items(t, Parent(q)))
  BY <1>2, <1>3 DEF Last, Parent
<1>5. IsCompared(s, t, Parent(p), Parent(q))
  <2> DEFINE u == Parent(p)
             v == Parent(q)
  <2>1. /\ Len(u) = Len(p) - 1 /\ Len(v) = Len(p) - 1
        /\ \A k \in 0 .. Len(p) - 1 : Upto(u, k) = Upto(p, k) /\ Upto(v, k) = Upto(q, k)
        /\ \A k \in 1 .. Len(p) - 1 : u[k] = p[k] /\ v[k] = q[k]
        /\ Len(p) = 1 => u = <<>> /\ v = <<>>
    BY <1>2, <1>3, ParentFacts
  <2> HIDE DEF u, v
  <2>2. CASE Len(p) = 1
    BY <2>1, <2>2 DEF IsCompared, u, v
  <2>3. CASE Len(p) # 1
    <3>1. Len(p) - 1 \in 1 .. Len(p)
      <4>1. Len(p) \in Nat \ {0}
        BY <1>3
      <4>2. \A n \in Nat \ {0} : n # 1 => n - 1 \in 1 .. n
        OBVIOUS
      <4> QED BY <2>3, <4>1, <4>2
    <3>2. u \in DOMAIN s /\ v \in DOMAIN t
      BY <1>2, <3>1 DEF IsTree, Parent, u, v
    <3>3. ASSUME NEW k \in 1 .. Len(u)
          PROVE  <<u[k], v[k]>> \in Met(Items(s, Upto(u, k - 1)), Items(t, Upto(v, k - 1)))
      <4>1. k \in 1 .. Len(p) /\ k \in 1 .. Len(p) - 1 /\ k - 1 \in 0 .. Len(p) - 1
        BY <1>3, <2>1, <3>3
      <4> QED BY <1>2, <2>1, <4>1
    <3>4. <<u, v>> \in ComparedPlaces(s, t)
      BY <2>1, <3>2, <3>3 DEF ComparedPlaces
    <3> QED BY <3>4 DEF IsCompared, u, v
  <2> QED BY <2>2, <2>3
<1> QED BY <1>2, <1>4, <1>5

LEMMA ComparedBelow ==
    ASSUME NEW s, NEW t, IsTree(s), IsTree(t), NEW p \in DOMAIN s, NEW q \in DOMAIN t,
           Len(p) = Len(q), IsCompared(s, t, Parent(p), Parent(q)),
           <<Last(p), Last(q)>> \in Met(Items(s, Parent(p)), Items(t, Parent(q)))
    PROVE  IsCompared(s, t, p, q)
<1>1. p \in Seq(Steps) /\ p # <<>> /\ q \in Seq(Steps) /\ q # <<>>
  BY DEF IsTree
<1>2. Len(p) \in Nat \ {0}
  BY <1>1
<1> DEFINE u == Parent(p)
           v == Parent(q)
<1>3. /\ Len(u) = Len(p) - 1
      /\ \A k \in 0 .. Len(p) - 1 : Upto(u, k) = Upto(p, k) /\ Upto(v, k) = Upto(q, k)
      /\ \A k \in 1 .. Len(p) - 1 : u[k] = p[k] /\ v[k] = q[k]
  BY <1>1, ParentFacts
<1>4. \A k \in 1 .. Len(u) :
         <<u[k], v[k]>> \in Met(Items(s, Upto(u, k - 1)), Items(t, Upto(v, k - 1)))
  <2>1. CASE <<u, v>> \in ComparedPlaces(s, t)
    <3> HIDE DEF u, v
    <3> QED BY <2>1 DEF ComparedPlaces
  <2>2. CASE u = <<>>
    BY <2>2
  <2> QED BY <2>1, <2>2 DEF IsCompared
<1> HIDE DEF u, v
<1>5. ASSUME NEW k \in 1 .. Len(p)
      PROVE  <<p[k], q[k]>> \in Met(Items(s, Upto(p, k - 1)), Items(t, Upto(q, k - 1)))
  <2>1. CASE k = Len(p)
    <3>1. u = Upto(p, k - 1) /\ v = Upto(q, k - 1) /\ Last(p) = p[k] /\ Last(q) = q[k]
      BY <2>1 DEF u, v, Parent, Last
    <3> QED BY <3>1 DEF u, v
  <2>2. CASE k # Len(p)
    <3>1. k \in 1 .. Len(u) /\ k \in 1 .. Len(p) - 1 /\ k - 1 \in 0 .. Len(p) - 1
      BY <1>2, <1>3, <2>2
    <3> QED BY <1>3, <1>4, <3>1
  <2> QED BY <2>1, <2>2
<1>6. <<p, q>> \in ComparedPlaces(s, t)
  BY <1>5 DEF ComparedPlaces
<1> QED BY <1>6 DEF IsCompared

LEMMA FollowsAbove ==
    ASSUME NEW s, NEW t, NEW p \in Seq(Steps), NEW q \in Seq(Steps),
           Follows(s, t, p, q), NEW n \in 0 .. Len(p)
    PROVE  Follows(s, t, Upto(p, n), Upto(q, n))
<1> DEFINE u == Upto(p, n)
           v == Upto(q, n)
<1>1. Len(p) = Len(q) /\ Len(p) \in Nat
  BY DEF Follows
<1>2. /\ Len(u) = n /\ Len(v) = n
      /\ \A i \in 1 .. n : u[i] = p[i] /\ v[i] = q[i]
      /\ \A j \in 0 .. n : Upto(u, j) = Upto(p, j) /\ Upto(v, j) = Upto(q, j)
  BY <1>1, Prefix
<1> HIDE DEF u, v
<1>3. ASSUME NEW k \in 1 .. Len(u)
      PROVE  Linked(s, t, Upto(u, k - 1), Upto(v, k - 1), u[k], v[k])
  <2>1. k \in 1 .. Len(p) /\ k \in 1 .. n /\ k - 1 \in 0 .. n
    BY <1>1, <1>2
  <2> QED BY <1>2, <2>1 DEF Follows
<1>4. Follows(s, t, u, v)
  BY <1>2, <1>3 DEF Follows
<1> QED BY <1>4 DEF u, v

LEMMA FollowsBelow ==
    ASSUME NEW s, NEW t, NEW u \in Seq(Steps), NEW v \in Seq(Steps),
           Follows(s, t, u, v), NEW i \in Steps, NEW j \in Steps, Linked(s, t, u, v, i, j)
    PROVE  Follows(s, t, Append(u, i), Append(v, j))
<1> DEFINE p == Append(u, i)
           q == Append(v, j)
<1>1. Len(u) = Len(v) /\ Len(u) \in Nat
  BY DEF Follows
<1>2. /\ Len(p) = Len(u) + 1 /\ Len(q) = Len(u) + 1
      /\ p[Len(u) + 1] = i /\ q[Len(u) + 1] = j
      /\ \A k \in 0 .. Len(u) : Upto(p, k) = Upto(u, k) /\ Upto(q, k) = Upto(v, k)
      /\ \A k \in 1 .. Len(u) : p[k] = u[k] /\ q[k] = v[k]
      /\ Upto(p, Len(u)) = u /\ Upto(q, Len(u)) = v
  BY <1>1, AppendPrefix
<1> HIDE DEF p, q
<1>3. ASSUME NEW k \in 1 .. Len(p)
      PROVE  Linked(s, t, Upto(p, k - 1), Upto(q, k - 1), p[k], q[k])
  <2>1. CASE k = Len(u) + 1
    <3>1. k - 1 = Len(u)
      BY <1>1, <2>1
    <3> QED BY <1>2, <2>1, <3>1
  <2>2. CASE k # Len(u) + 1
    <3>1. k \in 1 .. Len(u) /\ k - 1 \in 0 .. Len(u)
      BY <1>1, <1>2, <2>2
    <3> QED BY <1>2, <3>1 DEF Follows
  <2> QED BY <2>1, <2>2
<1>4. Follows(s, t, p, q)
  BY <1>2, <1>3 DEF Follows
<1> QED BY <1>4 DEF p, q

(* A place follows one place, and is followed by one. *)
LEMMA FollowsOnce ==
    ASSUME NEW s, NEW t, IsTree(s), IsTree(t),
           NEW p \in Seq(Steps), NEW q \in Seq(Steps), Follows(s, t, p, q),
           NEW x \in Seq(Steps), NEW y \in Seq(Steps), Follows(s, t, x, y)
    PROVE  p = x <=> q = y
<1>1. Len(p) = Len(q) /\ Len(x) = Len(y) /\ Len(p) \in Nat /\ Len(x) \in Nat
  BY DEF Follows
<1>2. SUFFICES ASSUME Len(p) = Len(x), p = x \/ q = y
               PROVE  p = x /\ q = y
  BY <1>1
<1> DEFINE bad == {k \in 1 .. Len(p) : p[k] # x[k] \/ q[k] # y[k]}
<1>3. bad = {}
  <2> SUFFICES ASSUME bad # {} PROVE FALSE
    OBVIOUS
  <2>1. bad \in SUBSET Nat
    OBVIOUS
  <2>2. PICK k \in bad : \A l \in bad : k <= l
    <3> HIDE DEF bad
    <3> QED BY <2>1, LeastNatural
  <2>3. /\ k \in 1 .. Len(p) /\ k - 1 \in Nat /\ k - 1 <= Len(p)
        /\ \A l \in 1 .. k - 1 : p[l] = x[l] /\ q[l] = y[l]
    BY <1>1, <2>2
  <2> DEFINE u == Upto(p, k - 1)
             v == Upto(q, k - 1)
  <2>4. Upto(x, k - 1) = u /\ Upto(y, k - 1) = v
    BY <1>1, <1>2, <2>3, SamePrefix
  <2>5. u \in Seq(Steps) /\ v \in Seq(Steps)
    <3>1. k - 1 \in 0 .. Len(p) /\ k - 1 \in 0 .. Len(q)
      BY <1>1, <2>3
    <3> QED BY <3>1, Prefix
  <2>6. Linked(s, t, u, v, p[k], q[k])
    BY <2>3 DEF Follows
  <2>7. Linked(s, t, Upto(x, k - 1), Upto(y, k - 1), x[k], y[k])
    BY <1>1, <1>2, <2>3 DEF Follows
  <2>8. Linked(s, t, u, v, x[k], y[k])
    BY <2>4, <2>7
  <2> HIDE DEF u, v
  <2>9. /\ IsFiniteSet(DOMAIN Items(s, u)) /\ IsFiniteSet(DOMAIN Items(t, v))
        /\ DOMAIN Items(s, u) \subseteq Steps /\ DOMAIN Items(t, v) \subseteq Steps
    BY <2>5, ChildrenOf
  <2>10. p[k] = x[k] <=> q[k] = y[k]
    <3>1. CASE IsCompared(s, t, u, v)
      <4> DEFINE S == Items(s, u)
                 T == Items(t, v)
                 m == <<p[k], q[k]>>
                 n == <<x[k], y[k]>>
      <4>1. m \in Paired(S, T) /\ n \in Paired(S, T)
        BY <2>6, <2>8, <3>1 DEF Linked
      <4>2. m[1] = n[1] <=> m[2] = n[2]
        <5>1. IsPlaced(S) /\ IsPlaced(T)
          BY <2>9 DEF IsPlaced
        <5> HIDE DEF m, n, S, T
        <5> QED BY <4>1, <5>1, PairedOnce
      <4> QED BY <4>2
    <3>2. CASE ~IsCompared(s, t, u, v)
      BY <2>6, <2>8, <3>2 DEF Linked
    <3> QED BY <3>1, <3>2
  <2>11. p[k] # x[k] \/ q[k] # y[k]
    BY <2>2
  <2> QED BY <1>2, <2>10, <2>11
<1>4. \A k \in 1 .. Len(p) : p[k] = x[k] /\ q[k] = y[k]
  BY <1>3
<1> QED BY <1>1, <1>2, <1>4, SeqEqual

LEMMA ComparedPrefix ==
    ASSUME NEW s, NEW t, IsTree(s), IsTree(t), NEW p \in Seq(Steps), NEW q \in Seq(Steps),
           IsCompared(s, t, p, q), NEW n \in 0 .. Len(p)
    PROVE  IsCompared(s, t, Upto(p, n), Upto(q, n))
<1>1. CASE p = <<>>
  <2>1. q = <<>>
    BY <1>1 DEF IsCompared, ComparedPlaces, IsTree
  <2>2. n = 0 /\ Upto(p, n) = <<>> /\ Upto(q, n) = <<>>
    <3>1. n = 0
      BY <1>1
    <3> QED BY <1>1, <2>1, <3>1 DEF Upto
  <2> QED BY <2>2 DEF IsCompared
<1>2. CASE p # <<>>
  <2>1. /\ p \in DOMAIN s /\ q \in DOMAIN t /\ Len(p) = Len(q)
        /\ \A k \in 1 .. Len(p) :
              <<p[k], q[k]>> \in Met(Items(s, Upto(p, k - 1)), Items(t, Upto(q, k - 1)))
    BY <1>2 DEF IsCompared, ComparedPlaces
  <2> DEFINE u == Upto(p, n)
             v == Upto(q, n)
  <2>2. Len(p) \in Nat \ {0} /\ n \in 0 .. Len(q)
    BY <1>2, <2>1
  <2>3. /\ Len(u) = n /\ Len(v) = n
        /\ \A i \in 1 .. n : u[i] = p[i] /\ v[i] = q[i]
        /\ \A j \in 0 .. n : Upto(u, j) = Upto(p, j) /\ Upto(v, j) = Upto(q, j)
    BY <2>2, Prefix
  <2>4. CASE n = 0
    <3>1. u = <<>> /\ v = <<>>
      BY <2>4 DEF Upto
    <3> QED BY <3>1 DEF IsCompared
  <2>5. CASE n # 0
    <3>1. n \in 1 .. Len(p) /\ n \in 1 .. Len(q)
      BY <2>1, <2>2, <2>5
    <3>2. u \in DOMAIN s /\ v \in DOMAIN t
      BY <2>1, <3>1 DEF IsTree
    <3> HIDE DEF u, v
    <3>3. ASSUME NEW k \in 1 .. Len(u)
          PROVE  <<u[k], v[k]>> \in Met(Items(s, Upto(u, k - 1)), Items(t, Upto(v, k - 1)))
      <4>1. k \in 1 .. Len(p) /\ k \in 1 .. n /\ k - 1 \in 0 .. n
        BY <2>2, <2>3, <3>3
      <4> QED BY <2>1, <2>3, <4>1
    <3>4. <<u, v>> \in ComparedPlaces(s, t)
      BY <2>3, <3>2, <3>3 DEF ComparedPlaces
    <3> QED BY <3>4 DEF IsCompared, u, v
  <2> QED BY <2>4, <2>5
<1> QED BY <1>1, <1>2

(* A pair of places that follow each other either is compared or lies in     *)
(* subtrees that are the same.                                               *)
LEMMA FollowsWhere ==
    ASSUME NEW s, NEW t, IsTree(s), IsTree(t), NEW p \in Seq(Steps), NEW q \in Seq(Steps),
           Follows(s, t, p, q), ~IsCompared(s, t, p, q)
    PROVE  /\ p \in DOMAIN s <=> q \in DOMAIN t
           /\ p \in DOMAIN s => s[p] = t[q]
           /\ \A i \in Steps : Append(p, i) \in DOMAIN s <=> Append(q, i) \in DOMAIN t
<1> DEFINE T == {k \in 1 .. Len(p) : ~IsCompared(s, t, Upto(p, k), Upto(q, k))}
<1>1. Len(p) = Len(q) /\ Len(p) \in Nat
  BY DEF Follows
<1>2. T \in SUBSET Nat /\ T # {}
  <2>1. Len(p) # 0
    <3>1. \A z \in Seq(Steps) : Len(z) = 0 => z = <<>>
      OBVIOUS
    <3>2. Len(p) = 0 => <<p, q>> = << <<>>, <<>> >>
      BY <1>1, <3>1
    <3> QED BY <3>2 DEF IsCompared
  <2>2. Len(p) \in 1 .. Len(p) /\ Len(p) \in 0 .. Len(p) /\ Len(q) \in 0 .. Len(q)
    BY <1>1, <2>1
  <2>3. Upto(p, Len(p)) = p /\ Upto(q, Len(p)) = q
    BY <1>1, <2>2, Prefix
  <2>4. Len(p) \in T
    BY <2>2, <2>3
  <2>5. T \subseteq Nat
    BY <1>1
  <2> HIDE DEF T
  <2> QED BY <2>4, <2>5
<1>3. PICK k \in T : \A l \in T : k <= l
  <2> HIDE DEF T
  <2> QED BY <1>2, LeastNatural
<1>4. k \in 1 .. Len(p) /\ k \in 1 .. Len(q) /\ ~IsCompared(s, t, Upto(p, k), Upto(q, k))
  BY <1>1, <1>3
<1> DEFINE u == Upto(p, k - 1)
           v == Upto(q, k - 1)
           a == Upto(p, k)
           b == Upto(q, k)
<1>5. /\ u \in Seq(Steps) /\ v \in Seq(Steps) /\ a \in Seq(Steps) /\ b \in Seq(Steps)
      /\ Len(a) = k /\ Len(b) = k
      /\ p[k] \in Steps /\ q[k] \in Steps
      /\ a = Append(u, p[k]) /\ b = Append(v, q[k])
      /\ Parent(a) = u /\ Parent(b) = v /\ Last(a) = p[k] /\ Last(b) = q[k]
  BY <1>4, PlaceAt
<1>6. IsCompared(s, t, u, v)
  <2>1. CASE k = 1
    <3>1. u = <<>> /\ v = <<>>
      BY <1>4, <2>1, PlaceAt
    <3> QED BY <3>1 DEF IsCompared
  <2>2. CASE k # 1
    <3>1. k - 1 \in 1 .. Len(p) /\ ~(k <= k - 1)
      BY <1>1, <1>4, <2>2
    <3>2. k - 1 \notin T
      BY <1>3, <3>1
    <3> QED BY <3>1, <3>2
  <2> QED BY <2>1, <2>2
<1>7. Linked(s, t, u, v, p[k], q[k])
  BY <1>4 DEF Follows
<1> HIDE DEF T, u, v, a, b
<1>8. <<p[k], q[k]>> \in Paired(Items(s, u), Items(t, v))
  BY <1>6, <1>7 DEF Linked
<1>9. /\ IsFiniteSet(DOMAIN Items(s, u)) /\ IsFiniteSet(DOMAIN Items(t, v))
      /\ DOMAIN Items(s, u) \subseteq Steps /\ DOMAIN Items(t, v) \subseteq Steps
  BY <1>5, ChildrenOf
<1> DEFINE m == <<p[k], q[k]>>
<1>10. m[1] \in DOMAIN Items(s, u) /\ m[2] \in DOMAIN Items(t, v)
  <2> HIDE DEF m
  <2>1. m \in Paired(Items(s, u), Items(t, v))
    BY <1>8 DEF m
  <2> QED BY <1>9, <2>1, Aligned, MetFacts DEF Paired
<1>11. a \in DOMAIN s /\ b \in DOMAIN t
  BY <1>5, <1>10, ChildrenOf
<1>12. m \notin Met(Items(s, u), Items(t, v))
  BY <1>4, <1>5, <1>6, <1>11, ComparedBelow DEF a, b
<1>13. Below(s, a) = Below(t, b)
  <2>1. Items(s, u)[m[1]] = Items(t, v)[m[2]]
    <3> HIDE DEF m
    <3>1. m \in LongestAlignment(Items(s, u), Items(t, v))
      BY <1>8, <1>12 DEF Paired, m
    <3> QED BY <1>9, <3>1, Aligned
  <2> QED BY <1>5, <1>10, <2>1, ChildrenOf
<1>14. ASSUME NEW n \in k + 1 .. Len(p)
       PROVE  p[n] = q[n]
  <2>1. n \in 1 .. Len(p) /\ n - 1 \in 0 .. Len(p) /\ k \in 0 .. n - 1
          /\ n - 1 \in 0 .. Len(q)
    BY <1>1, <1>4
  <2> DEFINE x == Upto(p, n - 1)
             y == Upto(q, n - 1)
  <2>2. /\ x \in Seq(Steps) /\ y \in Seq(Steps) /\ Len(x) = n - 1 
        /\ Upto(x, k) = a /\ Upto(y, k) = b
    BY <2>1, Prefix DEF a, b
  <2>3. Linked(s, t, x, y, p[n], q[n])
    BY <2>1 DEF Follows
  <2> HIDE DEF x, y
  <2>4. ~IsCompared(s, t, x, y)
    <3>1. k \in 0 .. Len(x)
      BY <2>1, <2>2
    <3>2. ~IsCompared(s, t, a, b)
      BY <1>4 DEF a, b
    <3> QED BY <2>2, <3>1, <3>2, ComparedPrefix
  <2> QED BY <2>3, <2>4 DEF Linked
<1> DEFINE rest == SubSeq(p, k + 1, Len(p))
           tail == SubSeq(q, k + 1, Len(q))
<1>15. /\ rest \in Seq(Steps) /\ Len(rest) = Len(p) - k /\ p = a \o rest
       /\ \A i \in 1 .. Len(rest) : rest[i] = p[k + i]
       /\ tail \in Seq(Steps) /\ Len(tail) = Len(q) - k /\ q = b \o tail
       /\ \A i \in 1 .. Len(tail) : tail[i] = q[k + i]
  <2>1. k \in 0 .. Len(p) /\ k \in 0 .. Len(q)
    BY <1>4
  <2>2. rest = SubSeq(p, k + 1, Len(p)) /\ tail = SubSeq(q, k + 1, Len(q))
    OBVIOUS
  <2> HIDE DEF rest, tail
  <2>3. /\ rest \in Seq(Steps) /\ Len(rest) = Len(p) - k /\ p = a \o rest
        /\ \A i \in 1 .. Len(rest) : rest[i] = p[k + i]
    BY <2>1, <2>2, Apart DEF a
  <2>4. /\ tail \in Seq(Steps) /\ Len(tail) = Len(q) - k /\ q = b \o tail
        /\ \A i \in 1 .. Len(tail) : tail[i] = q[k + i]
    BY <2>1, <2>2, Apart DEF b
  <2> QED BY <2>3, <2>4
<1> HIDE DEF rest, tail
<1>16. rest = tail
  <2>1. ASSUME NEW i \in 1 .. Len(rest)
        PROVE  rest[i] = tail[i]
    <3>1. k + i \in k + 1 .. Len(p) /\ i \in 1 .. Len(tail)
      BY <1>1, <1>4, <1>15
    <3> QED BY <1>14, <1>15, <3>1
  <2> QED BY <1>1, <1>15, <2>1, SeqEqual
<1>17. \A r \in Seq(Steps) :
          /\ a \o r \in DOMAIN s <=> b \o r \in DOMAIN t
          /\ a \o r \in DOMAIN s => s[a \o r] = t[b \o r]
  <2>1. a \in Seq(Steps) /\ b \in Seq(Steps)
    BY <1>5
  <2> QED BY <1>13, <2>1, SameBelow
<1>18. ASSUME NEW i \in Steps
       PROVE  Append(p, i) \in DOMAIN s <=> Append(q, i) \in DOMAIN t
  <2>1. Append(p, i) = a \o Append(rest, i) /\ Append(q, i) = b \o Append(rest, i)
    <3>1. q = b \o rest
      BY <1>15, <1>16
    <3>2. \A x, y \in Seq(Steps) : Append(x \o y, i) = x \o Append(y, i)
      BY Joined
    <3>3. a \in Seq(Steps) /\ b \in Seq(Steps) /\ rest \in Seq(Steps)
      BY <1>5, <1>15
    <3> QED BY <1>15, <3>1, <3>2, <3>3
  <2>2. Append(rest, i) \in Seq(Steps)
    BY <1>15
  <2> QED BY <1>17, <2>1, <2>2
<1> QED BY <1>15, <1>16, <1>17, <1>18

LEMMA DiffParts ==
    ASSUME NEW s, NEW t, IsTree(s), IsTree(t), s # t, NEW p, NEW q, IsCompared(s, t, p, q)
    PROVE  /\ p # <<>> => NodeKinds(s[p], t[q]) \subseteq Diff(s, t)
           /\ (p # <<>> => "fields" \in (DOMAIN s[p]) \cap (DOMAIN t[q])) =>
                 ListKinds(Items(s, p), Items(t, q)) \subseteq Diff(s, t)
<1> DEFINE compared == ComparedPlaces(s, t)
           records == {m \in compared : "fields" \in (DOMAIN s[m[1]]) \cap (DOMAIN t[m[2]])}
           lists == records \cup {<< <<>>, <<>> >>}
           nodeKinds == {NodeKinds(s[m[1]], t[m[2]]) : m \in compared}
           listKinds == {ListKinds(Items(s, m[1]), Items(t, m[2])) : m \in lists}
           x == <<p, q>>
<1>1. Diff(s, t) = (UNION nodeKinds) \cup (UNION listKinds)
  BY DEF Diff
<1>2. x[1] = p /\ x[2] = q
  OBVIOUS
<1>3. x \in compared \/ (x = << <<>>, <<>> >> /\ p = <<>>)
  BY DEF IsCompared
<1>4. x \in compared => p # <<>>
  BY DEF ComparedPlaces, IsTree
<1> HIDE DEF compared, x
<1>5. ASSUME p # <<>>
      PROVE  NodeKinds(s[p], t[q]) \subseteq Diff(s, t)
  <2>1. NodeKinds(s[x[1]], t[x[2]]) \in nodeKinds
    BY <1>3, <1>5
  <2> HIDE DEF nodeKinds, listKinds
  <2>2. NodeKinds(s[x[1]], t[x[2]]) \subseteq UNION nodeKinds
    BY <2>1
  <2> QED BY <1>1, <1>2, <2>2
<1>6. ASSUME p # <<>> => "fields" \in (DOMAIN s[p]) \cap (DOMAIN t[q])
      PROVE  ListKinds(Items(s, p), Items(t, q)) \subseteq Diff(s, t)
  <2>1. x \in lists
    <3>1. CASE x \in compared
      BY <1>2, <1>4, <1>6, <3>1
    <3>2. CASE x = << <<>>, <<>> >>
      BY <3>2
    <3> QED BY <1>3, <3>1, <3>2
  <2> HIDE DEF records, lists
  <2>2. ListKinds(Items(s, x[1]), Items(t, x[2])) \in listKinds
    BY <2>1
  <2> HIDE DEF nodeKinds, listKinds
  <2>3. ListKinds(Items(s, x[1]), Items(t, x[2])) \subseteq UNION listKinds
    BY <2>2
  <2> QED BY <1>1, <1>2, <2>3
<1> QED BY <1>5, <1>6

LEMMA ItemsAreList ==
    ASSUME NEW t, IsJsonTree(t), NEW u \in Seq(Steps)
    PROVE  IsList(Items(t, u))
<1>1. IsTree(t)
  BY DEF IsJsonTree
<1>2. IsFiniteSet(DOMAIN Items(t, u)) /\ DOMAIN Items(t, u) \subseteq Steps
  BY <1>1, ChildrenOf
<1>3. ASSUME NEW i \in DOMAIN Items(t, u), NEW k \in 1 .. i
      PROVE  k \in DOMAIN Items(t, u)
  <2>1. i \in Steps /\ Append(u, i) \in DOMAIN t
    BY <1>1, ChildrenOf
  <2>2. Last(Append(u, i)) = i /\ Upto(Append(u, i), Len(Append(u, i)) - 1) = u
    <3>1. Last(Append(u, i)) = i /\ Len(Append(u, i)) = Len(u) + 1
            /\ Upto(Append(u, i), Len(u)) = u /\ Len(u) \in Nat
      BY <2>1, AppendPrefix
    <3>2. Len(Append(u, i)) - 1 = Len(u)
      BY <3>1
    <3> QED BY <3>1, <3>2
  <2> DEFINE p == Append(u, i)
  <2>3. p \in DOMAIN t /\ k \in 1 .. Last(p) /\ Upto(p, Len(p) - 1) = u
    BY <1>3, <2>1, <2>2
  <2> HIDE DEF p
  <2>4. Append(u, k) \in DOMAIN t
    BY <2>3 DEF IsJsonTree
  <2>5. k \in Steps
    BY <1>3, <2>1 DEF Steps
  <2> QED BY <1>1, <2>4, <2>5, ChildrenOf
<1> QED BY <1>2, <1>3 DEF IsList

(* A record that follows a record has its fields. *)
LEMMA RecordAbove ==
    ASSUME NEW t, IsJsonTree(t), NEW p \in DOMAIN t, Parent(p) # <<>>
    PROVE  Parent(p) \in DOMAIN t /\ "fields" \in DOMAIN t[Parent(p)]
<1>1. p \in Seq(Steps) /\ p # <<>> /\ IsTree(t)
  BY DEF IsJsonTree, IsTree
<1>2. Len(p) \in Nat \ {0} /\ Len(p) # 1
  BY <1>1, ParentFacts
<1>3. \A n \in Nat \ {0} : n # 1 => n - 1 \in 1 .. n /\ n > 1
  OBVIOUS
<1> QED BY <1>1, <1>2, <1>3 DEF IsJsonTree, IsTree, Parent

(* Two trees between which nothing differs are the same. *)
LEMMA NoDifference ==
    ASSUME NEW s, NEW t, IsJsonTree(s), IsJsonTree(t), Diff(s, t) = {}
    PROVE  s = t
<1> SUFFICES ASSUME s # t PROVE FALSE
  OBVIOUS
<1>1. IsTree(s) /\ IsTree(t)
  BY DEF IsJsonTree
<1> DEFINE both == (DOMAIN s) \cup (DOMAIN t)
           Good(p) == p \in DOMAIN s /\ p \in DOMAIN t /\ Follows(s, t, p, p)
           bad == {p \in both : ~Good(p)}
           T == {Len(p) : p \in bad}
<1>2. \A p \in both : p \in Seq(Steps) /\ p # <<>> /\ Len(p) \in Nat \ {0}
  BY <1>1 DEF IsTree
<1>3. Follows(s, t, <<>>, <<>>)
  <2>1. Len(<<>>) = 0
    OBVIOUS
  <2> QED BY <2>1 DEF Follows
<1>4. ASSUME NEW p, Good(p)
      PROVE  s[p] = t[p]
  <2>1. p \in Seq(Steps) /\ p # <<>>
    BY <1>2, <1>4
  <2>2. CASE IsCompared(s, t, p, p)
    <3>1. NodeKinds(s[p], t[p]) = {}
      BY <1>1, <2>1, <2>2, DiffParts
    <3> QED BY <1>4, <3>1, SameNode DEF IsJsonTree
  <2>3. CASE ~IsCompared(s, t, p, p)
    BY <1>1, <1>4, <2>1, <2>3, FollowsWhere
  <2> QED BY <2>2, <2>3
<1>5. bad = {}
  <2> SUFFICES ASSUME bad # {} PROVE FALSE
    OBVIOUS
  <2>1. T \in SUBSET Nat /\ T # {}
    BY <1>2
  <2>2. PICK n \in T : \A l \in T : n <= l
    <3> HIDE DEF T
    <3> QED BY <2>1, LeastNatural
  <2>3. PICK p \in bad : n = Len(p)
    BY <2>2
  <2>4. p \in both /\ ~Good(p) /\ p \in Seq(Steps) /\ p # <<>>
    BY <1>2, <2>3
  <2> DEFINE u == Parent(p)
             i == Last(p)
  <2>5. /\ u \in Seq(Steps) /\ Len(u) = Len(p) - 1 /\ Len(p) \in Nat
        /\ i \in Steps /\ p = Append(u, i)
    BY <2>4, ParentFacts
  <2>6. u # <<>> => Good(u)
    <3> SUFFICES ASSUME u # <<>>, ~Good(u) PROVE FALSE
      OBVIOUS
    <3>1. u \in both
      BY <2>4, RecordAbove
    <3>2. u \in bad
      BY <3>1
    <3>3. Len(u) \in T
      BY <3>2
    <3>4. n <= Len(u)
      BY <2>2, <3>3
    <3> QED BY <2>3, <2>5, <3>4
  <2>7. Follows(s, t, u, u)
    BY <1>3, <2>6
  <2>8. p \in DOMAIN s /\ p \in DOMAIN t /\ Linked(s, t, u, u, i, i)
    <3>1. CASE IsCompared(s, t, u, u)
      <4>1. u # <<>> => "fields" \in (DOMAIN s[u]) \cap (DOMAIN t[u])
        <5> SUFFICES ASSUME u # <<>> PROVE "fields" \in (DOMAIN s[u]) \cap (DOMAIN t[u])
          OBVIOUS
        <5>1. s[u] = t[u]
          BY <1>4, <2>6
        <5>2. "fields" \in DOMAIN s[u] \/ "fields" \in DOMAIN t[u]
          BY <2>4, RecordAbove
        <5> QED BY <5>1, <5>2
      <4>2. ListKinds(Items(s, u), Items(t, u)) = {}
        BY <1>1, <3>1, <4>1, DiffParts
      <4> HIDE DEF u, i
      <4>3. /\ DOMAIN Items(s, u) = DOMAIN Items(t, u)
            /\ \A k \in DOMAIN Items(s, u) :
                  \E m \in Paired(Items(s, u), Items(t, u)) : m[1] = k /\ m[2] = k
        BY <2>5, <4>2, ItemsAreList, SideBySide
      <4>4. i \in DOMAIN Items(s, u)
        BY <1>1, <2>4, <2>5, <4>3, ChildrenOf
      <4>5. p \in DOMAIN s /\ p \in DOMAIN t
        BY <1>1, <2>5, <4>3, <4>4, ChildrenOf
      <4>6. <<i, i>> \in Paired(Items(s, u), Items(t, u))
        <5>1. PICK m \in Paired(Items(s, u), Items(t, u)) : m[1] = i /\ m[2] = i
          BY <4>3, <4>4
        <5>2. m = <<m[1], m[2]>>
          <6>1. IsList(Items(s, u)) /\ IsList(Items(t, u))
            BY <2>5, ItemsAreList
          <6> QED BY <6>1, Aligned, MetFacts DEF Paired, IsList
        <5> QED BY <5>1, <5>2
      <4> QED BY <3>1, <4>5, <4>6 DEF Linked
    <3>2. CASE ~IsCompared(s, t, u, u)
      <4> HIDE DEF u, i
      <4>1. Append(u, i) \in DOMAIN s <=> Append(u, i) \in DOMAIN t
        BY <1>1, <2>5, <2>7, <3>2, FollowsWhere
      <4> QED BY <2>4, <2>5, <3>2, <4>1 DEF Linked
    <3> QED BY <3>1, <3>2
  <2> HIDE DEF u, i
  <2>9. Follows(s, t, p, p)
    <3>1. Follows(s, t, Append(u, i), Append(u, i))
      BY <2>5, <2>7, <2>8, FollowsBelow
    <3> QED BY <2>5, <3>1
  <2> QED BY <2>4, <2>8, <2>9
<1>6. DOMAIN s = DOMAIN t /\ \A p \in DOMAIN s : s[p] = t[p]
  BY <1>4, <1>5
<1>7. s = [p \in DOMAIN s |-> s[p]] /\ t = [p \in DOMAIN t |-> t[p]]
  BY <1>1 DEF IsTree
<1> QED BY <1>6, <1>7

-----------------------------------------------------------------------------
(* The sort.  Every sibling has keys that are numbers and a place of its     *)
(* own, so siblings are ordered and their ranks are the first so many        *)
(* positive numbers, each taken once.                                        *)
IsKeyed(tree) ==
    /\ IsTree(tree)
    /\ \A p \in DOMAIN tree : \A i \in {1, 2} : SortKey(tree[p])[i] \in Int

LEMMA SchemaKeyed ==
    ASSUME NEW fields, IsSchema(fields)
    PROVE  IsKeyed(fields)
<1>1. IsTree(fields)
  BY DEF IsTree, IsSchema
<1>2. ASSUME NEW p \in DOMAIN fields
      PROVE  SortKey(fields[p])[1] \in Int /\ SortKey(fields[p])[2] \in Int
  <2> DEFINE f == fields[p]
  <2>1. f.name \in Range(Alphabet) /\ f.type \in Range(FieldTypes)
    BY ReadFieldType DEF IsSchema
  <2> HIDE DEF f
  <2>2. DOMAIN Alphabet \subseteq Int /\ DOMAIN FieldTypes \subseteq Int
    <3>1. DOMAIN Alphabet = 1 .. Len(Alphabet)
      BY AlphabetAssumption
    <3>2. DOMAIN FieldTypes = 1 .. 11
      BY DEF FieldTypes
    <3> QED BY <3>1, <3>2
  <2>3. \E i \in DOMAIN Alphabet : Alphabet[i] = f.name
    BY <2>1 DEF Range
  <2>4. \E i \in DOMAIN FieldTypes : FieldTypes[i] = f.type
    BY <2>1 DEF Range
  <2>5. RankIn(Alphabet, f.name) \in DOMAIN Alphabet
    BY <2>3 DEF RankIn
  <2>6. RankIn(FieldTypes, f.type) \in DOMAIN FieldTypes
    BY <2>4 DEF RankIn
  <2>7. SortKey(f)[1] = RankIn(Alphabet, f.name) /\ SortKey(f)[2] = RankIn(FieldTypes, f.type)
    BY DEF SortKey
  <2>8. SortKey(f)[1] \in Int /\ SortKey(f)[2] \in Int
    BY <2>2, <2>5, <2>6, <2>7
  <2> QED BY <2>8 DEF f
<1> QED BY <1>1, <1>2 DEF IsKeyed

LEMMA SiblingsOf ==
    ASSUME NEW tree, IsTree(tree), NEW p \in DOMAIN tree
    PROVE  /\ \A q : q \in Siblings(tree, p) <=> q \in DOMAIN tree /\ Parent(q) = Parent(p)
           /\ IsFiniteSet(Siblings(tree, p)) /\ p \in Siblings(tree, p)
           /\ \A q \in Siblings(tree, p) : Last(q) = Last(p) => q = p
<1>1. p \in Seq(Steps) /\ p # <<>> /\ Parent(p) \in Seq(Steps)
  BY ParentFacts DEF IsTree
<1>2. Siblings(tree, p) = Children(tree, Parent(p))
  BY DEF Siblings, Parent
<1>3. \A q : q \in Siblings(tree, p) <=> q \in DOMAIN tree /\ Parent(q) = Parent(p)
  BY <1>1, <1>2, ChildrenOf
<1>4. IsFiniteSet(Siblings(tree, p))
  <2>1. Siblings(tree, p) \in SUBSET DOMAIN tree
    BY <1>3
  <2> QED BY <2>1, FS_Subset DEF IsTree
<1>5. ASSUME NEW q \in Siblings(tree, p), Last(q) = Last(p)
      PROVE  q = p
  <2>1. q \in Seq(Steps) /\ q # <<>> /\ Parent(q) = Parent(p)
    BY <1>3 DEF IsTree
  <2> QED BY <1>1, <1>5, <2>1, ParentFacts
<1> QED BY <1>3, <1>4, <1>5

(* Siblings are ordered, strictly and totally. *)
LEMMA SiblingsOrdered ==
    ASSUME NEW tree, IsKeyed(tree), NEW p \in DOMAIN tree,
           NEW q \in Siblings(tree, p), NEW r \in Siblings(tree, p)
    PROVE  /\ ~Precedes(tree, q, q)
           /\ Precedes(tree, q, r) \/ Precedes(tree, r, q) \/ q = r
           /\ ~(Precedes(tree, q, r) /\ Precedes(tree, r, q))
           /\ Precedes(tree, q, r) /\ Precedes(tree, r, p) => Precedes(tree, q, p)
<1>1. IsTree(tree) /\ q \in DOMAIN tree /\ r \in DOMAIN tree
  BY SiblingsOf DEF IsKeyed
<1>2. /\ SortKey(tree[p])[1] \in Int /\ SortKey(tree[p])[2] \in Int
      /\ SortKey(tree[q])[1] \in Int /\ SortKey(tree[q])[2] \in Int
      /\ SortKey(tree[r])[1] \in Int /\ SortKey(tree[r])[2] \in Int
  BY <1>1 DEF IsKeyed
<1>3. \A f : SortKey(f) = <<SortKey(f)[1], SortKey(f)[2]>>
  BY DEF SortKey
<1>4. Last(p) \in Int /\ Last(q) \in Int /\ Last(r) \in Int
  BY <1>1, ParentFacts DEF IsTree, Steps
<1>5. Last(q) = Last(r) => q = r
  <2>1. q \in Siblings(tree, r)
    BY <1>1, SiblingsOf
  <2> QED BY <1>1, <2>1, SiblingsOf
<1> DEFINE a == SortKey(tree[p])
           b == SortKey(tree[q])
           c == SortKey(tree[r])
<1>6. \A x, y : Precedes(tree, x, y) <=>
         \/ SortKey(tree[x])[1] < SortKey(tree[y])[1]
         \/ SortKey(tree[x])[1] = SortKey(tree[y])[1] /\ SortKey(tree[x])[2] < SortKey(tree[y])[2]
         \/ /\ SortKey(tree[x])[1] = SortKey(tree[y])[1]
            /\ SortKey(tree[x])[2] = SortKey(tree[y])[2]
            /\ Last(x) < Last(y)
  BY <1>3 DEF Precedes
<1>7. /\ a[1] \in Int /\ a[2] \in Int /\ b[1] \in Int /\ b[2] \in Int
      /\ c[1] \in Int /\ c[2] \in Int
  BY <1>2
<1>8. /\ Precedes(tree, q, r) <=> \/ b[1] < c[1]
                                  \/ b[1] = c[1] /\ b[2] < c[2]
                                  \/ b[1] = c[1] /\ b[2] = c[2] /\ Last(q) < Last(r)
      /\ Precedes(tree, r, q) <=> \/ c[1] < b[1]
                                  \/ c[1] = b[1] /\ c[2] < b[2]
                                  \/ c[1] = b[1] /\ c[2] = b[2] /\ Last(r) < Last(q)
      /\ Precedes(tree, q, q) <=> \/ b[1] < b[1]
                                  \/ b[1] = b[1] /\ b[2] < b[2]
                                  \/ b[1] = b[1] /\ b[2] = b[2] /\ Last(q) < Last(q)
      /\ Precedes(tree, r, p) <=> \/ c[1] < a[1]
                                  \/ c[1] = a[1] /\ c[2] < a[2]
                                  \/ c[1] = a[1] /\ c[2] = a[2] /\ Last(r) < Last(p)
      /\ Precedes(tree, q, p) <=> \/ b[1] < a[1]
                                  \/ b[1] = a[1] /\ b[2] < a[2]
                                  \/ b[1] = a[1] /\ b[2] = a[2] /\ Last(q) < Last(p)
  BY <1>6
<1> HIDE DEF a, b, c
<1> QED BY <1>4, <1>5, <1>7, <1>8

LEMMA RankOrdered ==
    ASSUME NEW tree, IsKeyed(tree), NEW p \in DOMAIN tree
    PROVE  /\ Rank(tree, p) \in Steps /\ Rank(tree, p) <= Cardinality(Siblings(tree, p))
           /\ \A q \in Siblings(tree, p) :
                 /\ Precedes(tree, q, p) <=> Rank(tree, q) < Rank(tree, p)
                 /\ Rank(tree, q) = Rank(tree, p) => q = p
<1> DEFINE Before(x) == {q \in Siblings(tree, x) : Precedes(tree, q, x)}
<1>1. IsTree(tree)
  BY DEF IsKeyed
<1>2. ASSUME NEW x \in DOMAIN tree
      PROVE  /\ IsFiniteSet(Before(x)) /\ Cardinality(Before(x)) \in Nat
             /\ Rank(tree, x) = 1 + Cardinality(Before(x))
             /\ Cardinality(Before(x)) < Cardinality(Siblings(tree, x))
  <2>1. IsFiniteSet(Siblings(tree, x)) /\ x \in Siblings(tree, x) /\ ~Precedes(tree, x, x)
    BY <1>1, SiblingsOf, SiblingsOrdered
  <2>2. Before(x) \in SUBSET Siblings(tree, x) /\ Before(x) # Siblings(tree, x)
    BY <2>1
  <2>3. Rank(tree, x) = 1 + Cardinality(Before(x))
    BY DEF Rank
  <2> HIDE DEF Before
  <2> QED BY <2>1, <2>2, <2>3, FS_Subset, FS_CardinalityType
<1>3. ASSUME NEW x \in DOMAIN tree, NEW y \in Siblings(tree, x), Precedes(tree, y, x)
      PROVE  Rank(tree, y) < Rank(tree, x)
  <2>1. y \in DOMAIN tree /\ Siblings(tree, y) = Siblings(tree, x)
    <3>1. y \in DOMAIN tree /\ Parent(y) = Parent(x)
      BY <1>1, SiblingsOf
    <3> QED BY <3>1 DEF Siblings, Parent
  <2>2. Before(y) \in SUBSET Before(x)
    BY <1>3, <2>1, SiblingsOrdered
  <2>3. y \in Before(x) /\ y \notin Before(y)
    BY <1>3, <2>1, SiblingsOrdered
  <2>4. /\ IsFiniteSet(Before(x)) /\ Cardinality(Before(x)) \in Nat
        /\ Cardinality(Before(y)) \in Nat
    BY <1>2, <2>1
  <2> HIDE DEF Before
  <2>5. /\ Cardinality(Before(y)) <= Cardinality(Before(x))
        /\ Cardinality(Before(y)) = Cardinality(Before(x)) => Before(y) = Before(x)
    BY <2>2, <2>4, FS_Subset
  <2>6. Cardinality(Before(y)) < Cardinality(Before(x))
    BY <2>3, <2>4, <2>5
  <2>7. /\ Rank(tree, y) = 1 + Cardinality(Before(y))
        /\ Rank(tree, x) = 1 + Cardinality(Before(x))
    BY <1>2, <2>1
  <2> QED BY <2>4, <2>6, <2>7
<1>4. ASSUME NEW q \in Siblings(tree, p)
      PROVE  /\ Precedes(tree, q, p) <=> Rank(tree, q) < Rank(tree, p)
             /\ Rank(tree, q) = Rank(tree, p) => q = p
  <2>1. q \in DOMAIN tree /\ p \in Siblings(tree, q) /\ p \in Siblings(tree, p)
    BY <1>1, SiblingsOf
  <2>2. Precedes(tree, q, p) \/ Precedes(tree, p, q) \/ q = p
    BY <2>1, SiblingsOrdered
  <2>3. Precedes(tree, q, p) => Rank(tree, q) < Rank(tree, p)
    BY <1>3
  <2>4. Precedes(tree, p, q) => Rank(tree, p) < Rank(tree, q)
    BY <1>3, <2>1
  <2>5. Rank(tree, p) \in Int /\ Rank(tree, q) \in Int
    <3> HIDE DEF Before
    <3>1. \A x \in DOMAIN tree : Rank(tree, x) \in Int
      BY <1>2
    <3> QED BY <2>1, <3>1
  <2> QED BY <2>2, <2>3, <2>4, <2>5
<1>5. Rank(tree, p) \in Steps /\ Rank(tree, p) <= Cardinality(Siblings(tree, p))
  <2>1. Cardinality(Siblings(tree, p)) \in Nat
    BY <1>1, SiblingsOf, FS_CardinalityType
  <2> HIDE DEF Before
  <2> QED BY <1>2, <2>1 DEF Steps
<1> QED BY <1>4, <1>5

LEMMA RanksFill ==
    ASSUME NEW tree, IsKeyed(tree), NEW p \in DOMAIN tree, NEW i \in 1 .. Rank(tree, p)
    PROVE  \E q \in Siblings(tree, p) : Rank(tree, q) = i
<1> DEFINE S == Siblings(tree, p)
           n == Cardinality(S)
           rank == [q \in S |-> Rank(tree, q)]
           taken == {rank[q] : q \in S}
<1>1. IsTree(tree)
  BY DEF IsKeyed
<1>2. IsFiniteSet(S) /\ n \in Nat /\ IsFiniteSet(1 .. n) /\ Cardinality(1 .. n) = n
  <2>1. IsFiniteSet(S)
    BY <1>1, SiblingsOf
  <2>2. n \in Nat
    BY <2>1, FS_CardinalityType
  <2> HIDE DEF n
  <2>3. IsFiniteSet(1 .. n) /\ Cardinality(1 .. n) = IF 1 > n THEN 0 ELSE n - 1 + 1
    BY <2>2, FS_Interval
  <2>4. (IF 1 > n THEN 0 ELSE n - 1 + 1) = n
    BY <2>2
  <2> QED BY <2>1, <2>2, <2>3, <2>4
<1>3. ASSUME NEW q \in S
      PROVE  /\ Rank(tree, q) \in Steps /\ Rank(tree, q) <= n
             /\ \A r \in S : Rank(tree, r) = Rank(tree, q) => r = q
  <2>1. q \in DOMAIN tree /\ Siblings(tree, q) = S
    <3>1. q \in DOMAIN tree /\ Parent(q) = Parent(p)
      BY <1>1, SiblingsOf
    <3> QED BY <3>1 DEF Siblings, Parent
  <2> QED BY <2>1, RankOrdered
<1>4. \A q \in S : rank[q] = Rank(tree, q)
  OBVIOUS
<1>5. p \in S
  BY <1>1, SiblingsOf
<1> HIDE DEF S, n, rank
<1>6. taken \in SUBSET (1 .. n)
  <2>1. \A q \in S : rank[q] \in 1 .. n
    BY <1>2, <1>3, <1>4 DEF Steps
  <2> QED BY <2>1
<1>7. \A q, r \in S : rank[q] = rank[r] => q = r
  BY <1>3, <1>4
<1>8. Cardinality(taken) = n
  BY <1>2, <1>7, FiniteImage DEF n
<1>9. taken = 1 .. n
  <2> HIDE DEF taken
  <2> QED BY <1>2, <1>6, <1>8, FS_Subset
<1>10. i \in 1 .. n
  BY <1>2, <1>3, <1>5 DEF Steps
<1>11. PICK q \in S : rank[q] = i
  BY <1>9, <1>10
<1> QED BY <1>4, <1>11 DEF S

-----------------------------------------------------------------------------
(* Moving the nodes of a tree among their siblings. *)
LEMMA MovedTo ==
    ASSUME NEW tree, IsTree(tree), NEW move, \A p \in DOMAIN tree : move[p] \in Steps,
           NEW p \in DOMAIN tree
    PROVE  /\ Moved(move, p) \in Seq(Steps) /\ Len(Moved(move, p)) = Len(p)
           /\ Moved(move, p) # <<>> /\ p \in Seq(Steps) /\ Len(p) \in Nat \ {0}
           /\ \A k \in 1 .. Len(p) : Moved(move, p)[k] = move[Upto(p, k)]
           /\ \A k \in 0 .. Len(p) : Upto(Moved(move, p), k) = Moved(move, Upto(p, k))
           /\ Last(Moved(move, p)) = move[p]
<1>1. p \in Seq(Steps) /\ Len(p) \in Nat \ {0}
        /\ \A k \in 1 .. Len(p) : Upto(p, k) \in DOMAIN tree
  BY DEF IsTree
<1> DEFINE q == Moved(move, p)
<1>2. \A k \in 1 .. Len(p) : q[k] = move[Upto(p, k)] /\ q[k] \in Steps
  BY <1>1 DEF Moved
<1>3. q \in Seq(Steps) /\ Len(q) = Len(p)
  <2>1. q \in [1 .. Len(p) -> Steps]
    BY <1>1, <1>2 DEF Moved
  <2> HIDE DEF q
  <2> QED BY <1>1, <2>1
<1>4. ASSUME NEW k \in 0 .. Len(p)
      PROVE  Upto(q, k) = Moved(move, Upto(p, k))
  <2> DEFINE u == Upto(p, k)
             x == Upto(q, k)
             y == Moved(move, u)
  <2>1. k \in 0 .. Len(q) /\ k \in Nat
    BY <1>1, <1>3
  <2>2. /\ u \in Seq(Steps) /\ Len(u) = k
        /\ \A j \in 0 .. k : Upto(u, j) = Upto(p, j)
    BY <1>1, Prefix
  <2>3. x \in Seq(Steps) /\ Len(x) = k /\ \A i \in 1 .. k : x[i] = q[i]
    BY <1>3, <2>1, Prefix
  <2> HIDE DEF u, x
  <2>4. DOMAIN y = 1 .. k /\ \A i \in 1 .. k : y[i] = move[Upto(u, i)]
    BY <2>2 DEF Moved
  <2>5. \A i \in 1 .. k : i \in 1 .. Len(p) /\ i \in 0 .. k
    BY <1>1
  <2>6. \A i \in 1 .. k : y[i] = q[i] /\ y[i] \in Steps
    BY <1>2, <2>2, <2>4, <2>5
  <2>7. y \in Seq(Steps) /\ Len(y) = k
    <3>1. y = [i \in 1 .. k |-> y[i]]
      BY <2>2 DEF Moved
    <3> HIDE DEF y
    <3>2. y \in [1 .. k -> Steps]
      BY <2>6, <3>1
    <3> QED BY <2>1, <3>2
  <2> HIDE DEF y, q
  <2>8. x = y
    BY <2>3, <2>6, <2>7, SeqEqual
  <2> QED BY <2>8 DEF x, y, u
<1>5. Last(q) = move[p]
  <2>1. Len(p) \in 1 .. Len(p) /\ Len(p) \in 0 .. Len(p)
    BY <1>1
  <2>2. Upto(p, Len(p)) = p
    BY <1>1, <2>1, Prefix
  <2> HIDE DEF q
  <2> QED BY <1>2, <1>3, <2>1, <2>2 DEF Last
<1>6. q # <<>>
  <2> HIDE DEF q
  <2> QED BY <1>1, <1>3
<1> HIDE DEF q
<1> QED BY <1>1, <1>2, <1>3, <1>4, <1>5, <1>6 DEF q

(* Siblings go to different places, and so does everything. *)
IsApart(tree, move) ==
    \A p, q \in DOMAIN tree : Parent(p) = Parent(q) /\ move[p] = move[q] => p = q

IsSort(tree, rank) ==
    /\ IsTree(tree) /\ IsApart(tree, rank)
    /\ \A p \in DOMAIN tree : rank[p] \in Steps

LEMMA MovedOnce ==
    ASSUME NEW tree, IsTree(tree), NEW move, \A p \in DOMAIN tree : move[p] \in Steps,
           IsApart(tree, move),
           NEW p \in DOMAIN tree, NEW q \in DOMAIN tree, Moved(move, p) = Moved(move, q)
    PROVE  p = q
<1>1. /\ p \in Seq(Steps) /\ q \in Seq(Steps) /\ Len(p) = Len(q) /\ Len(p) \in Nat
      /\ \A k \in 1 .. Len(p) : move[Upto(p, k)] = move[Upto(q, k)]
  <2>1. /\ p \in Seq(Steps) /\ Len(Moved(move, p)) = Len(p) /\ Len(p) \in Nat
        /\ \A k \in 1 .. Len(p) : Moved(move, p)[k] = move[Upto(p, k)]
    BY MovedTo
  <2>2. /\ q \in Seq(Steps) /\ Len(Moved(move, q)) = Len(q)
        /\ \A k \in 1 .. Len(q) : Moved(move, q)[k] = move[Upto(q, k)]
    BY MovedTo
  <2>3. Len(p) = Len(q)
    BY <2>1, <2>2
  <2>4. ASSUME NEW k \in 1 .. Len(p)
        PROVE  move[Upto(p, k)] = move[Upto(q, k)]
    BY <2>1, <2>2, <2>3
  <2> QED BY <2>1, <2>2, <2>3, <2>4
<1> DEFINE bad == {k \in 1 .. Len(p) : Upto(p, k) # Upto(q, k)}
<1>2. bad = {}
  <2> SUFFICES ASSUME bad # {} PROVE FALSE
    OBVIOUS
  <2>1. bad \in SUBSET Nat
    OBVIOUS
  <2>2. PICK k \in bad : \A l \in bad : k <= l
    <3> HIDE DEF bad
    <3> QED BY <2>1, LeastNatural
  <2>3. k \in 1 .. Len(p) /\ k \in 1 .. Len(q) /\ Upto(p, k) # Upto(q, k)
    BY <1>1, <2>2
  <2>4. Upto(p, k - 1) = Upto(q, k - 1)
    <3>1. CASE k = 1
      <4>1. Upto(p, k - 1) = <<>> /\ Upto(q, k - 1) = <<>>
        BY <1>1, <2>3, <3>1, PlaceAt
      <4> QED BY <4>1
    <3>2. CASE k # 1
      <4>1. k - 1 \in 1 .. Len(p) /\ ~(k <= k - 1)
        BY <1>1, <2>3, <3>2
      <4> QED BY <2>2, <4>1
    <3> QED BY <3>1, <3>2
  <2>5. Parent(Upto(p, k)) = Parent(Upto(q, k))
    <3>1. Parent(Upto(p, k)) = Upto(p, k - 1)
      BY <1>1, <2>3, PlaceAt
    <3>2. Parent(Upto(q, k)) = Upto(q, k - 1)
      BY <1>1, <2>3, PlaceAt
    <3> QED BY <2>4, <3>1, <3>2
  <2>6. Upto(p, k) \in DOMAIN tree /\ Upto(q, k) \in DOMAIN tree
    BY <2>3 DEF IsTree
  <2> QED BY <1>1, <2>3, <2>5, <2>6 DEF IsApart
<1>3. Upto(p, Len(p)) = Upto(q, Len(p))
  <2>1. Len(p) \in 1 .. Len(p)
    <3>1. Len(p) \in Nat \ {0}
      BY MovedTo
    <3> QED BY <3>1
  <2> QED BY <1>2, <2>1
<1>4. Len(p) \in 0 .. Len(p) /\ Len(q) \in 0 .. Len(q)
  BY <1>1
<1>5. Upto(p, Len(p)) = p /\ Upto(q, Len(q)) = q
  BY <1>1, <1>4, Prefix
<1> QED BY <1>1, <1>3, <1>5

(* A map of places that keeps what lies above them is a move. *)
KeepsAbove(g, tree, other) ==
    \A p \in DOMAIN tree :
       /\ g[p] \in DOMAIN other /\ Len(g[p]) = Len(p)
       /\ \A k \in 1 .. Len(p) : g[Upto(p, k)] = Upto(g[p], k)

LEMMA MoveOf ==
    ASSUME NEW tree, NEW other, IsTree(tree), IsTree(other), NEW g,
           KeepsAbove(g, tree, other)
    PROVE  \E move \in Moves(tree, other) : \A p \in DOMAIN tree : Moved(move, p) = g[p]
<1> DEFINE move == [p \in DOMAIN tree |-> Last(g[p])]
<1>1. move \in Moves(tree, other)
  BY DEF Moves, KeepsAbove
<1>2. \A p \in DOMAIN tree : move[p] = Last(g[p]) /\ move[p] \in Steps
  <2>1. \A q \in DOMAIN other : Last(q) \in Steps
    BY ParentFacts DEF IsTree
  <2> QED BY <2>1 DEF KeepsAbove
<1> HIDE DEF move
<1>3. ASSUME NEW p \in DOMAIN tree
      PROVE  Moved(move, p) = g[p]
  <2> DEFINE x == Moved(move, p)
             y == g[p]
  <2>1. /\ x \in Seq(Steps) /\ Len(x) = Len(p) /\ Len(p) \in Nat \ {0} /\ p \in Seq(Steps)
        /\ \A k \in 1 .. Len(p) : x[k] = move[Upto(p, k)]
    BY <1>2, MovedTo
  <2>2. /\ y \in Seq(Steps) /\ Len(y) = Len(p)
        /\ \A k \in 1 .. Len(p) : g[Upto(p, k)] = Upto(y, k)
    BY DEF IsTree, KeepsAbove
  <2>3. \A k \in 1 .. Len(p) : Upto(p, k) \in DOMAIN tree
    BY DEF IsTree
  <2> HIDE DEF x, y
  <2>4. ASSUME NEW k \in 1 .. Len(p)
        PROVE  x[k] = y[k]
    <3>1. x[k] = Last(Upto(y, k))
      BY <1>2, <2>1, <2>2, <2>3
    <3>2. Last(Upto(y, k)) = y[k]
      BY <2>2, PlaceAt
    <3> QED BY <3>1, <3>2
  <2>5. x = y
    BY <2>1, <2>2, <2>4, SeqEqual
  <2> QED BY <2>5 DEF x, y
<1> QED BY <1>1, <1>3

(* Sorting moves every node to its rank. *)
LEMMA RanksApart ==
    ASSUME NEW tree, IsKeyed(tree)
    PROVE  /\ \A p \in DOMAIN tree : Ranks(tree)[p] = Rank(tree, p) /\ Ranks(tree)[p] \in Steps
           /\ IsApart(tree, Ranks(tree))
<1>1. \A p \in DOMAIN tree : Ranks(tree)[p] = Rank(tree, p)
  BY DEF Ranks
<1>2. \A p \in DOMAIN tree : Rank(tree, p) \in Steps
  BY RankOrdered
<1>3. ASSUME NEW p \in DOMAIN tree, NEW q \in DOMAIN tree, Parent(p) = Parent(q),
             Rank(tree, p) = Rank(tree, q)
      PROVE  p = q
  <2>1. q \in Siblings(tree, p)
    BY <1>3, SiblingsOf DEF IsKeyed
  <2> QED BY <1>3, <2>1, RankOrdered
<1>4. IsApart(tree, Ranks(tree))
  BY <1>1, <1>3 DEF IsApart
<1> QED BY <1>1, <1>2, <1>4

LEMMA Sorted ==
    ASSUME NEW tree, IsKeyed(tree), NEW rank, rank = Ranks(tree),
           NEW sorted, sorted = SortFields(tree)
    PROVE  /\ DOMAIN sorted = {Moved(rank, p) : p \in DOMAIN tree}
           /\ \A p \in DOMAIN tree : sorted[Moved(rank, p)] = tree[p]
           /\ IsTree(sorted)
           /\ \A q \in DOMAIN sorted : \A i \in 1 .. Last(q) :
                 Append(Parent(q), i) \in DOMAIN sorted
<1>1. /\ IsTree(tree) /\ IsApart(tree, rank)
      /\ \A p \in DOMAIN tree : rank[p] = Rank(tree, p) /\ rank[p] \in Steps
  BY RanksApart DEF IsKeyed
<1> DEFINE Origin(q) == CHOOSE p \in DOMAIN tree : Moved(rank, p) = q
           places == {Moved(rank, p) : p \in DOMAIN tree}
<1>2. sorted = [q \in places |-> tree[Origin(q)]]
  BY DEF SortFields
<1>3. \A p \in DOMAIN tree : Origin(Moved(rank, p)) = p
  <2>1. ASSUME NEW p \in DOMAIN tree
        PROVE  Origin(Moved(rank, p)) = p
    <3>1. Origin(Moved(rank, p)) \in DOMAIN tree
            /\ Moved(rank, Origin(Moved(rank, p))) = Moved(rank, p)
      OBVIOUS
    <3> HIDE DEF Origin
    <3> QED BY <1>1, <3>1, MovedOnce
  <2> QED BY <2>1
<1>4. DOMAIN sorted = places
  BY <1>2
<1>5. \A p \in DOMAIN tree : sorted[Moved(rank, p)] = tree[p]
  <2> HIDE DEF Origin
  <2> QED BY <1>2, <1>3
<1>6. IsTree(sorted)
  <2>1. IsFiniteSet(places)
    <3> DEFINE to == [p \in DOMAIN tree |-> Moved(rank, p)]
    <3>1. places = {to[p] : p \in DOMAIN tree}
      OBVIOUS
    <3>2. IsFiniteSet(DOMAIN tree)
      BY <1>1 DEF IsTree
    <3> HIDE DEF to, places
    <3> QED BY <3>1, <3>2, FiniteImage
  <2>2. sorted = [q \in DOMAIN sorted |-> sorted[q]]
    BY <1>2
  <2>3. ASSUME NEW p \in DOMAIN tree
        PROVE  /\ Moved(rank, p) \in Seq(Steps) /\ Moved(rank, p) # <<>>
               /\ \A k \in 1 .. Len(Moved(rank, p)) : Upto(Moved(rank, p), k) \in places
    <3>1. /\ Moved(rank, p) \in Seq(Steps) /\ Moved(rank, p) # <<>>
          /\ Len(Moved(rank, p)) = Len(p) /\ Len(p) \in Nat \ {0}
          /\ \A k \in 0 .. Len(p) : Upto(Moved(rank, p), k) = Moved(rank, Upto(p, k))
      BY <1>1, MovedTo
    <3>2. \A k \in 1 .. Len(p) : Upto(p, k) \in DOMAIN tree /\ k \in 0 .. Len(p)
      BY <1>1 DEF IsTree
    <3> QED BY <3>1, <3>2
  <2>4. \A q \in places : /\ q \in Seq(Steps) \ {<<>>}
                          /\ \A k \in 1 .. Len(q) : Upto(q, k) \in places
    BY <2>3
  <2> HIDE DEF places
  <2> QED BY <1>4, <2>1, <2>2, <2>4 DEF IsTree
<1>7. ASSUME NEW q \in DOMAIN sorted, NEW i \in 1 .. Last(q)
      PROVE  Append(Parent(q), i) \in DOMAIN sorted
  <2>1. PICK p \in DOMAIN tree : q = Moved(rank, p)
    BY <1>4
  <2>2. /\ Last(q) = rank[p] /\ Len(q) = Len(p) /\ Len(p) \in Nat \ {0}
        /\ \A k \in 0 .. Len(p) : Upto(q, k) = Moved(rank, Upto(p, k))
    BY <1>1, <2>1, MovedTo
  <2>3. PICK r \in Siblings(tree, p) : Rank(tree, r) = i
    BY <1>1, <2>2, RanksFill
  <2>4. r \in DOMAIN tree /\ Parent(r) = Parent(p)
    BY <1>1, SiblingsOf
  <2>5. /\ Last(Moved(rank, r)) = i /\ Moved(rank, r) \in Seq(Steps) /\ Moved(rank, r) # <<>>
        /\ Len(Moved(rank, r)) = Len(r) /\ Len(r) \in Nat \ {0}
        /\ \A k \in 0 .. Len(r) : Upto(Moved(rank, r), k) = Moved(rank, Upto(r, k))
    BY <1>1, <2>3, <2>4, MovedTo
  <2>6. Parent(Moved(rank, r)) = Parent(q)
    <3>1. \A n \in Nat \ {0} : n - 1 \in 0 .. n
      OBVIOUS
    <3>2. Parent(Moved(rank, r)) = Moved(rank, Parent(r))
      BY <2>5, <3>1 DEF Parent
    <3>3. Parent(q) = Moved(rank, Parent(p))
      BY <2>2, <3>1 DEF Parent
    <3> QED BY <2>4, <3>2, <3>3
  <2>7. Moved(rank, r) = Append(Parent(q), i)
    BY <2>5, <2>6, ParentFacts
  <2>8. Moved(rank, r) \in DOMAIN sorted
    BY <1>4, <2>4
  <2> QED BY <2>7, <2>8
<1> QED BY <1>4, <1>5, <1>6, <1>7

(* A field that was read is written as JSON, and as no other field is.       *)
LEMMA WrittenNode ==
    ASSUME NEW f, IsReadField(f), IsWritable(f)
    PROVE  /\ IsJsonField(FieldWritten(f)) /\ FieldRead(FieldWritten(f)) = f
           /\ f.type = "record" => "fields" \in DOMAIN FieldWritten(f)
<1> DEFINE json == FieldWritten(f)
<1>1. FieldRead(json) = f
  BY WriterRoundTrip
<1>2. f.type = "record" => "fields" \in DOMAIN json
  <2>1. /\ json.type = f.type
        /\ json.type = "record" => "fields" \in DOMAIN json
    <3>1. json = FieldWritten(f)
      OBVIOUS
    <3> HIDE DEF json
    <3> QED BY <3>1, WriterRoundTrip
  <2> QED BY <2>1
<1>3. IsJsonField(json)
  <2>1. CASE f.type = "enum"
    <3>1. f.valueType \in EnumTypes /\ f.allowedValues \in Seq(Readings(f.valueType))
      BY <2>1, ReadFieldType
    <3> DEFINE values == [i \in DOMAIN f.allowedValues |->
                            ValueWritten(f.valueType, f.allowedValues[i])]
    <3>2. json = EnumField(f.name, f.isIdentity, f.valueType, values)
      BY <2>1 DEF FieldWritten
    <3>3. ASSUME NEW i \in DOMAIN f.allowedValues
          PROVE  ValueWritten(f.valueType, f.allowedValues[i]) \in JsonValues
      <4>1. f.allowedValues[i] \in Readings(f.valueType)
        BY <3>1
      <4>2. IsFinite(f.valueType, f.allowedValues[i])
        BY <2>1 DEF IsWritable, IsFinite, Range
      <4> QED BY <3>1, <4>1, <4>2, WrittenReading
    <3>4. DOMAIN f.allowedValues = 1 .. Len(f.allowedValues) /\ Len(f.allowedValues) \in Nat
      BY <3>1
    <3>5. values \in Seq(JsonValues)
      <4>1. values \in [1 .. Len(f.allowedValues) -> JsonValues]
        BY <3>3, <3>4
      <4> HIDE DEF values
      <4> QED BY <3>4, <4>1
    <3> HIDE DEF values
    <3>6. json = [key \in DOMAIN json |-> json[key]] /\ json.allowedValues = values
      BY <3>2 DEF EnumField
    <3> HIDE DEF json
    <3> QED BY <3>5, <3>6 DEF IsJsonField
  <2>2. CASE f.type # "enum"
    <3>1. json = f
      BY <2>2 DEF FieldWritten
    <3>2. \/ f = SimpleField(f.name, f.type, f.isIdentity)
          \/ f = ArrayField(f.name, f.isIdentity, f.items)
          \/ f = RecordField(f.name, f.isIdentity)
      BY <2>2, ReadFieldType, KnownTypes
    <3>3. f = [key \in DOMAIN f |-> f[key]]
      BY <3>2 DEF SimpleField, ArrayField, RecordField
    <3>4. "allowedValues" \notin DOMAIN f
      BY <3>2 DEF SimpleField, ArrayField, RecordField
    <3> QED BY <3>1, <3>3, <3>4 DEF IsJsonField
  <2> QED BY <2>1, <2>2
<1> QED BY <1>1, <1>2, <1>3

(* What two sorted schemas are compared as. *)
SortedJson(fields) == FieldsWritten(SortFields(fields))

IsSortedAs(fields, rank, json) ==
    /\ IsSort(fields, rank)
    /\ \A p \in DOMAIN fields : rank[p] = Rank(fields, p)
    /\ DOMAIN json = {Moved(rank, p) : p \in DOMAIN fields}
    /\ \A p \in DOMAIN fields : json[Moved(rank, p)] = FieldWritten(fields[p])
    /\ IsJsonTree(json)

LEMMA SortedTree ==
    ASSUME NEW fields, IsSchema(fields), CanWrite(fields)
    PROVE  IsSortedAs(fields, Ranks(fields), SortedJson(fields))
<1> DEFINE sorted == SortFields(fields)
           rank == Ranks(fields)
           json == SortedJson(fields)
<1>1. IsKeyed(fields) /\ IsTree(fields) /\ IsApart(fields, rank)
        /\ \A p \in DOMAIN fields : rank[p] = Rank(fields, p) /\ rank[p] \in Steps
  BY SchemaKeyed, RanksApart DEF IsKeyed
<1>2. /\ DOMAIN sorted = {Moved(rank, p) : p \in DOMAIN fields}
      /\ \A p \in DOMAIN fields : sorted[Moved(rank, p)] = fields[p]
      /\ IsTree(sorted)
      /\ \A q \in DOMAIN sorted : \A i \in 1 .. Last(q) :
            Append(Parent(q), i) \in DOMAIN sorted
  BY <1>1, Sorted
<1>3. json = [q \in DOMAIN sorted |-> FieldWritten(sorted[q])]
  BY DEF SortedJson, FieldsWritten
<1> HIDE DEF sorted, rank, json
<1>4. DOMAIN json = DOMAIN sorted /\ json = [q \in DOMAIN json |-> json[q]]
        /\ \A p \in DOMAIN fields : json[Moved(rank, p)] = FieldWritten(fields[p])
  BY <1>2, <1>3
<1>5. IsTree(json)
  BY <1>2, <1>4 DEF IsTree
<1>6. ASSUME NEW p \in DOMAIN fields
      PROVE  /\ IsJsonField(FieldWritten(fields[p]))
             /\ fields[p].type = "record" => "fields" \in DOMAIN FieldWritten(fields[p])
  BY WrittenNode DEF IsSchema, CanWrite
<1>7. \A q \in DOMAIN json : IsJsonField(json[q])
  BY <1>2, <1>4, <1>6
<1>8. ASSUME NEW q \in DOMAIN json, Len(q) > 1
      PROVE  "fields" \in DOMAIN json[Upto(q, Len(q) - 1)]
  <2>1. PICK p \in DOMAIN fields : q = Moved(rank, p)
    BY <1>2, <1>4
  <2>2. /\ Len(q) = Len(p) /\ Len(p) \in Nat \ {0}
        /\ \A k \in 0 .. Len(p) : Upto(q, k) = Moved(rank, Upto(p, k))
    BY <1>1, <2>1, MovedTo
  <2>3. Len(p) - 1 \in 0 .. Len(p) /\ Len(p) - 1 \in 1 .. Len(p) - 1 /\ Len(p) - 1 \in 1 .. Len(p)
    BY <1>8, <2>2
  <2>4. Upto(p, Len(p) - 1) \in DOMAIN fields
          /\ fields[Upto(p, Len(p) - 1)].type = "record"
    BY <2>3 DEF IsSchema
  <2> QED BY <1>4, <1>6, <2>2, <2>3, <2>4
<1>9. IsJsonTree(json)
  BY <1>2, <1>4, <1>5, <1>7, <1>8 DEF IsJsonTree, Parent
<1>10. IsSortedAs(fields, rank, json)
  BY <1>1, <1>2, <1>4, <1>9 DEF IsSortedAs, IsSort
<1> QED BY <1>10 DEF rank, json

-----------------------------------------------------------------------------
(* What is found in the sorted trees, said of the trees that were sorted.    *)
Carries(F, X, rx, Y, ry) ==
    /\ \A p \in DOMAIN X :
          /\ \E q \in DOMAIN Y : Moved(ry, q) = F[Moved(rx, p)]
          /\ Len(F[Moved(rx, p)]) = Len(Moved(rx, p))
          /\ \A k \in 1 .. Len(Moved(rx, p)) :
                F[Upto(Moved(rx, p), k)] = Upto(F[Moved(rx, p)], k)
    /\ \A p, q \in DOMAIN X :
          F[Moved(rx, p)] = F[Moved(rx, q)] => Moved(rx, p) = Moved(rx, q)

LEMMA Unsorted ==
    ASSUME NEW X, NEW Y, NEW rx, NEW ry, NEW F,
           IsSort(X, rx), IsSort(Y, ry), Carries(F, X, rx, Y, ry)
    PROVE  \E move \in Moves(X, Y) :
              /\ IsPlacing(move, X, Y)
              /\ \A p \in DOMAIN X : /\ Moved(move, p) \in DOMAIN Y
                                     /\ Moved(ry, Moved(move, p)) = F[Moved(rx, p)]
<1> DEFINE g == [p \in DOMAIN X |-> CHOOSE q \in DOMAIN Y : Moved(ry, q) = F[Moved(rx, p)]]
<1>1. /\ IsTree(X) /\ IsApart(X, rx) /\ \A p \in DOMAIN X : rx[p] \in Steps
      /\ IsTree(Y) /\ IsApart(Y, ry) /\ \A p \in DOMAIN Y : ry[p] \in Steps
  BY DEF IsSort
<1>2. \A p \in DOMAIN X : g[p] \in DOMAIN Y /\ Moved(ry, g[p]) = F[Moved(rx, p)]
  BY DEF Carries
<1> HIDE DEF g
<1>3. ASSUME NEW p \in DOMAIN X
      PROVE  /\ Len(g[p]) = Len(p)
             /\ \A k \in 1 .. Len(p) : g[Upto(p, k)] = Upto(g[p], k)
  <2>1. /\ Len(Moved(rx, p)) = Len(p) /\ p \in Seq(Steps) /\ Len(p) \in Nat
        /\ \A k \in 0 .. Len(p) : Upto(Moved(rx, p), k) = Moved(rx, Upto(p, k))
    BY <1>1, MovedTo
  <2>2. /\ Len(Moved(ry, g[p])) = Len(g[p]) /\ g[p] \in Seq(Steps)
        /\ \A k \in 0 .. Len(g[p]) : Upto(Moved(ry, g[p]), k) = Moved(ry, Upto(g[p], k))
    BY <1>1, <1>2, MovedTo
  <2>3. Len(g[p]) = Len(p)
    BY <1>2, <2>1, <2>2 DEF Carries
  <2>4. ASSUME NEW k \in 1 .. Len(p)
        PROVE  g[Upto(p, k)] = Upto(g[p], k)
    <3>1. k \in 0 .. Len(p) /\ k \in 0 .. Len(g[p]) /\ k \in 1 .. Len(g[p])
            /\ k \in 1 .. Len(Moved(rx, p))
      BY <2>1, <2>3
    <3>2. Upto(p, k) \in DOMAIN X
      BY <1>1 DEF IsTree
    <3>3. g[p] \in DOMAIN Y /\ Upto(g[p], k) \in DOMAIN Y
      BY <1>1, <1>2, <3>1 DEF IsTree
    <3>4. Moved(ry, g[Upto(p, k)]) = F[Moved(rx, Upto(p, k))]
      BY <1>2, <3>2
    <3>5. Moved(ry, Upto(g[p], k)) = Upto(F[Moved(rx, p)], k)
      BY <1>2, <2>2, <3>1
    <3>6. F[Moved(rx, Upto(p, k))] = Upto(F[Moved(rx, p)], k)
      BY <2>1, <3>1 DEF Carries
    <3>7. g[Upto(p, k)] \in DOMAIN Y
      BY <1>2, <3>2
    <3> QED BY <3>3, <3>4, <3>5, <3>6, <3>7, <1>1, MovedOnce
  <2> QED BY <2>3, <2>4
<1>4. PICK move \in Moves(X, Y) : \A p \in DOMAIN X : Moved(move, p) = g[p]
  <2>1. KeepsAbove(g, X, Y)
    BY <1>2, <1>3 DEF KeepsAbove
  <2> QED BY <1>1, <2>1, MoveOf
<1>5. ASSUME NEW p \in DOMAIN X, NEW q \in DOMAIN X, Moved(move, p) = Moved(move, q)
      PROVE  p = q
  <2>1. Moved(rx, p) = Moved(rx, q)
    BY <1>2, <1>4, <1>5 DEF Carries
  <2> QED BY <1>1, <2>1, MovedOnce
<1>6. IsPlacing(move, X, Y)
  <2>1. Places(move, X) \subseteq DOMAIN Y
    BY <1>2, <1>4 DEF Places
  <2> QED BY <1>5, <2>1 DEF IsPlacing
<1> QED BY <1>2, <1>4, <1>6

(* Schemas that are sorted into the same are equivalent. *)
LEMMA SameSorted ==
    ASSUME NEW a, NEW b, IsSchema(a), IsSchema(b), CanWrite(a), CanWrite(b),
           SortedJson(a) = SortedJson(b)
    PROVE  Equivalent(b, a)
<1> DEFINE ra == Ranks(a)
           rb == Ranks(b)
           json == SortedJson(a)
           F == [x \in DOMAIN json |-> x]
<1>1. IsSortedAs(a, ra, json) /\ IsSortedAs(b, rb, json)
  BY SortedTree
<1> HIDE DEF ra, rb, json
<1>2. /\ IsSort(a, ra) /\ IsTree(a) /\ IsApart(a, ra) /\ \A p \in DOMAIN a : ra[p] \in Steps
      /\ DOMAIN json = {Moved(ra, p) : p \in DOMAIN a}
      /\ \A p \in DOMAIN a : json[Moved(ra, p)] = FieldWritten(a[p])
      /\ IsJsonTree(json)
  BY <1>1 DEF IsSortedAs, IsSort
<1>3. /\ IsSort(b, rb)
      /\ DOMAIN json = {Moved(rb, p) : p \in DOMAIN b}
      /\ \A p \in DOMAIN b : json[Moved(rb, p)] = FieldWritten(b[p])
  BY <1>1 DEF IsSortedAs
<1>4. \A x \in DOMAIN json : F[x] = x
  OBVIOUS
<1> HIDE DEF F
<1>5. ASSUME NEW p \in DOMAIN b
      PROVE  /\ \E q \in DOMAIN a : Moved(ra, q) = F[Moved(rb, p)]
             /\ Len(F[Moved(rb, p)]) = Len(Moved(rb, p))
             /\ \A k \in 1 .. Len(Moved(rb, p)) :
                   F[Upto(Moved(rb, p), k)] = Upto(F[Moved(rb, p)], k)
             /\ F[Moved(rb, p)] = Moved(rb, p)
  <2>1. Moved(rb, p) \in DOMAIN json
    BY <1>3
  <2>2. \A k \in 1 .. Len(Moved(rb, p)) : Upto(Moved(rb, p), k) \in DOMAIN json
    BY <1>2, <2>1 DEF IsJsonTree, IsTree
  <2> QED BY <1>2, <1>4, <2>1, <2>2
<1>6. IsSort(b, rb) /\ IsSort(a, ra) /\ Carries(F, b, rb, a, ra)
  BY <1>2, <1>3, <1>5 DEF Carries
<1>7. PICK move \in Moves(b, a) :
              /\ IsPlacing(move, b, a)
              /\ \A p \in DOMAIN b : /\ Moved(move, p) \in DOMAIN a
                                     /\ Moved(ra, Moved(move, p)) = F[Moved(rb, p)]
  BY <1>6, Unsorted
<1>8. Keeps(move, b, a)
  <2>1. ASSUME NEW p \in DOMAIN b
        PROVE  a[Moved(move, p)] = b[p]
    <3>1. Moved(move, p) \in DOMAIN a
      BY <1>7
    <3>2. FieldWritten(a[Moved(move, p)]) = FieldWritten(b[p])
      BY <1>2, <1>3, <1>5, <1>7
    <3>3. FieldRead(FieldWritten(a[Moved(move, p)])) = a[Moved(move, p)]
      BY <3>1, WrittenNode DEF IsSchema, CanWrite
    <3>4. FieldRead(FieldWritten(b[p])) = b[p]
      BY WrittenNode DEF IsSchema, CanWrite
    <3> QED BY <3>2, <3>3, <3>4
  <2> QED BY <2>1 DEF Keeps
<1>9. ASSUME NEW q \in DOMAIN a
      PROVE  q \in Places(move, b)
  <2>1. PICK p \in DOMAIN b : Moved(rb, p) = Moved(ra, q)
    BY <1>2, <1>3
  <2>2. Moved(ra, Moved(move, p)) = Moved(ra, q) /\ Moved(move, p) \in DOMAIN a
    BY <1>5, <1>7, <2>1
  <2>3. Moved(move, p) = q
    BY <1>2, <2>2, MovedOnce
  <2> QED BY <2>3 DEF Places
<1> QED BY <1>7, <1>8, <1>9 DEF Equivalent

-----------------------------------------------------------------------------
(* A move to other places keeps siblings together and apart; where it keeps  *)
(* the nodes and no two siblings have the same keys, it keeps their order,   *)
(* and where all the siblings come from it, their ranks.                     *)
LEMMA SiblingsKept ==
    ASSUME NEW tree, NEW other, IsTree(tree), IsTree(other),
           NEW move \in Moves(tree, other), IsPlacing(move, tree, other)
    PROVE  /\ \A p \in DOMAIN tree : move[p] \in Steps /\ Moved(move, p) \in DOMAIN other
           /\ \A p, q \in DOMAIN tree :
                 q \in Siblings(tree, p) <=> Moved(move, q) \in Siblings(other, Moved(move, p))
<1>1. \A p \in DOMAIN tree : move[p] \in Steps
  <2>1. \A q \in DOMAIN other : Last(q) \in Steps
    BY ParentFacts DEF IsTree
  <2> QED BY <2>1 DEF Moves
<1>2. \A p \in DOMAIN tree : Moved(move, p) \in DOMAIN other
  BY DEF IsPlacing, Places
<1>3. ASSUME NEW p \in DOMAIN tree
      PROVE  /\ p \in Seq(Steps) /\ Len(p) \in Nat \ {0} /\ Len(Moved(move, p)) = Len(p)
             /\ Parent(Moved(move, p)) = Moved(move, Parent(p))
             /\ Len(Parent(Moved(move, p))) = Len(p) - 1
             /\ Len(p) = 1 => Parent(p) = <<>>
             /\ Len(p) # 1 => Parent(p) \in DOMAIN tree
  <2>1. /\ p \in Seq(Steps) /\ Len(p) \in Nat \ {0} /\ Len(Moved(move, p)) = Len(p)
        /\ Moved(move, p) \in Seq(Steps) /\ Moved(move, p) # <<>>
        /\ \A k \in 0 .. Len(p) : Upto(Moved(move, p), k) = Moved(move, Upto(p, k))
    BY <1>1, MovedTo
  <2>2. \A n \in Nat \ {0} : n - 1 \in 0 .. n /\ (n # 1 => n - 1 \in 1 .. n)
    OBVIOUS
  <2>3. Parent(Moved(move, p)) = Moved(move, Parent(p))
    BY <2>1, <2>2 DEF Parent
  <2>4. Len(Parent(Moved(move, p))) = Len(p) - 1
    BY <2>1, ParentFacts
  <2>5. Len(p) # 1 => Parent(p) \in DOMAIN tree
    BY <2>1, <2>2 DEF IsTree, Parent
  <2>6. Len(p) = 1 => Parent(p) = <<>>
    <3>1. p # <<>>
      BY DEF IsTree
    <3> QED BY <2>1, <3>1, ParentFacts
  <2> QED BY <2>1, <2>3, <2>4, <2>5, <2>6
<1>4. ASSUME NEW p \in DOMAIN tree, NEW q \in DOMAIN tree
      PROVE  q \in Siblings(tree, p) <=> Moved(move, q) \in Siblings(other, Moved(move, p))
  <2>1. q \in Siblings(tree, p) <=> Parent(q) = Parent(p)
    BY SiblingsOf
  <2>2. Moved(move, q) \in Siblings(other, Moved(move, p)) <=>
          Parent(Moved(move, q)) = Parent(Moved(move, p))
    BY <1>2, SiblingsOf
  <2>3. ASSUME Parent(Moved(move, q)) = Parent(Moved(move, p))
        PROVE  Parent(q) = Parent(p)
    <3>1. Len(q) = Len(p)
      BY <1>3, <2>3
    <3>2. Moved(move, Parent(q)) = Moved(move, Parent(p))
      BY <1>3, <2>3
    <3>3. CASE Len(p) = 1
      BY <1>3, <3>1, <3>3
    <3>4. CASE Len(p) # 1
      <4>1. Parent(p) \in DOMAIN tree /\ Parent(q) \in DOMAIN tree
        BY <1>3, <3>1, <3>4
      <4> QED BY <3>2, <4>1 DEF IsPlacing
    <3> QED BY <3>3, <3>4
  <2>4. Parent(q) = Parent(p) => Parent(Moved(move, q)) = Parent(Moved(move, p))
    BY <1>3
  <2> QED BY <2>1, <2>2, <2>3, <2>4
<1> QED BY <1>1, <1>2, <1>4

LEMMA OrderKept ==
    ASSUME NEW tree, NEW other, IsKeyed(tree), IsKeyed(other), NoTwins(tree),
           NEW move \in Moves(tree, other), IsPlacing(move, tree, other),
           Keeps(move, tree, other),
           NEW p \in DOMAIN tree, NEW q \in Siblings(tree, p)
    PROVE  Precedes(tree, q, p) <=> Precedes(other, Moved(move, q), Moved(move, p))
<1>1. IsTree(tree) /\ IsTree(other) /\ q \in DOMAIN tree
  BY SiblingsOf DEF IsKeyed
<1>2. /\ other[Moved(move, p)] = tree[p] /\ other[Moved(move, q)] = tree[q]
      /\ Moved(move, p) \in DOMAIN other /\ Moved(move, q) \in Siblings(other, Moved(move, p))
  BY <1>1, SiblingsKept DEF Keeps
<1>3. CASE q = p
  <2>1. ~Precedes(tree, p, p)
    BY <1>1, SiblingsOf, SiblingsOrdered
  <2>2. ~Precedes(other, Moved(move, p), Moved(move, p))
    BY <1>1, <1>2, SiblingsOf, SiblingsOrdered
  <2> QED BY <1>3, <2>1, <2>2
<1>4. CASE q # p
  <2>1. SortKey(tree[p]) # SortKey(tree[q])
    BY <1>4 DEF NoTwins
  <2> QED BY <1>2, <2>1 DEF Precedes
<1> QED BY <1>3, <1>4

LEMMA RankKept ==
    ASSUME NEW tree, NEW other, IsKeyed(tree), IsKeyed(other), NoTwins(tree),
           NEW move \in Moves(tree, other), IsPlacing(move, tree, other),
           Keeps(move, tree, other), NEW p \in DOMAIN tree,
           Siblings(other, Moved(move, p)) \subseteq Places(move, tree)
    PROVE  Rank(other, Moved(move, p)) = Rank(tree, p)
<1>1. IsTree(tree) /\ IsTree(other)
  BY DEF IsKeyed
<1> DEFINE S == {q \in Siblings(tree, p) : Precedes(tree, q, p)}
           T == {q \in Siblings(other, Moved(move, p)) : Precedes(other, q, Moved(move, p))}
           h == [q \in S |-> Moved(move, q)]
<1>2. S \subseteq DOMAIN tree
  BY <1>1, SiblingsOf
<1>3. \A q \in DOMAIN tree : /\ q \in Siblings(tree, p) <=> Moved(move, q) \in Siblings(other, Moved(move, p))
                             /\ q \in Siblings(tree, p) =>
                                  (Precedes(tree, q, p) <=> Precedes(other, Moved(move, q), Moved(move, p)))
  BY <1>1, SiblingsKept, OrderKept
<1>4. \A r \in T : \E q \in DOMAIN tree : r = Moved(move, q)
  BY DEF Places
<1>5. T = {h[q] : q \in S}
  <2>1. \A q \in S : h[q] \in T
    BY <1>2, <1>3
  <2>2. \A r \in T : \E q \in S : r = h[q]
    BY <1>3, <1>4
  <2> HIDE DEF S, T, h
  <2> QED BY <2>1, <2>2
<1>6. \A x, y \in S : h[x] = h[y] => x = y
  BY <1>2 DEF IsPlacing
<1>7. IsFiniteSet(S)
  <2>1. S \in SUBSET DOMAIN tree
    BY <1>2
  <2> HIDE DEF S
  <2> QED BY <1>1, <2>1, FS_Subset DEF IsTree
<1>8. Rank(tree, p) = 1 + Cardinality(S) /\ Rank(other, Moved(move, p)) = 1 + Cardinality(T)
  BY DEF Rank
<1> HIDE DEF S, T, h
<1>9. Cardinality(T) = Cardinality(S)
  BY <1>5, <1>6, <1>7, FiniteImage
<1> QED BY <1>8, <1>9

(* Equivalent schemas without twins are sorted into the same. *)
LEMMA SortedSame ==
    ASSUME NEW a, NEW b, IsSchema(a), IsSchema(b), CanWrite(a), CanWrite(b),
           NoTwins(b), Equivalent(b, a)
    PROVE  SortedJson(a) = SortedJson(b)
<1> DEFINE ra == Ranks(a)
           rb == Ranks(b)
           x == SortedJson(a)
           y == SortedJson(b)
<1>1. IsSortedAs(a, ra, x) /\ IsSortedAs(b, rb, y)
  BY SortedTree
<1> HIDE DEF ra, rb, x, y
<1>2. /\ IsTree(a) /\ \A p \in DOMAIN a : ra[p] = Rank(a, p) /\ ra[p] \in Steps
      /\ DOMAIN x = {Moved(ra, p) : p \in DOMAIN a}
      /\ \A p \in DOMAIN a : x[Moved(ra, p)] = FieldWritten(a[p])
      /\ IsJsonTree(x)
  BY <1>1 DEF IsSortedAs, IsSort
<1>3. /\ IsTree(b) /\ \A p \in DOMAIN b : rb[p] = Rank(b, p) /\ rb[p] \in Steps
      /\ DOMAIN y = {Moved(rb, p) : p \in DOMAIN b}
      /\ \A p \in DOMAIN b : y[Moved(rb, p)] = FieldWritten(b[p])
      /\ IsJsonTree(y)
  BY <1>1 DEF IsSortedAs, IsSort
<1>4. IsKeyed(a) /\ IsKeyed(b)
  BY SchemaKeyed
<1>5. PICK move \in Moves(b, a) : /\ IsPlacing(move, b, a) /\ Keeps(move, b, a)
                                  /\ DOMAIN a \subseteq Places(move, b)
  BY DEF Equivalent
<1>6. \A p \in DOMAIN b : /\ move[p] \in Steps /\ Moved(move, p) \in DOMAIN a
                          /\ a[Moved(move, p)] = b[p]
  BY <1>2, <1>3, <1>5, SiblingsKept DEF Keeps
<1>7. ASSUME NEW p \in DOMAIN b
      PROVE  ra[Moved(move, p)] = rb[p]
  <2>1. Siblings(a, Moved(move, p)) \subseteq Places(move, b)
    BY <1>2, <1>5, <1>6, SiblingsOf
  <2>2. Rank(a, Moved(move, p)) = Rank(b, p)
    BY <1>4, <1>5, <2>1, RankKept
  <2> QED BY <1>2, <1>3, <1>6, <2>2
<1>8. ASSUME NEW p \in DOMAIN b
      PROVE  Moved(ra, Moved(move, p)) = Moved(rb, p)
  <2> DEFINE q == Moved(move, p)
  <2>1. /\ q \in Seq(Steps) /\ Len(q) = Len(p) /\ Len(p) \in Nat
        /\ \A k \in 0 .. Len(p) : Upto(q, k) = Moved(move, Upto(p, k))
    BY <1>3, <1>6, MovedTo
  <2>2. \A k \in 1 .. Len(p) : Upto(p, k) \in DOMAIN b /\ k \in 0 .. Len(p)
    BY <1>3 DEF IsTree
  <2>3. \A k \in 1 .. Len(p) : ra[Upto(q, k)] = rb[Upto(p, k)]
    BY <1>7, <2>1, <2>2
  <2> HIDE DEF q
  <2>4. Moved(ra, q) = [k \in 1 .. Len(p) |-> ra[Upto(q, k)]]
          /\ Moved(rb, p) = [k \in 1 .. Len(p) |-> rb[Upto(p, k)]]
    BY <2>1 DEF Moved
  <2>5. Moved(ra, q) = Moved(rb, p)
    BY <2>3, <2>4
  <2> QED BY <2>5 DEF q
<1>9. DOMAIN x = DOMAIN y
  <2>1. \A q \in DOMAIN a : \E p \in DOMAIN b : q = Moved(move, p)
    BY <1>5 DEF Places
  <2> QED BY <1>2, <1>3, <1>6, <1>8, <2>1
<1>10. \A z \in DOMAIN y : x[z] = y[z]
  <2>1. \A p \in DOMAIN b : x[Moved(rb, p)] = FieldWritten(b[p])
    BY <1>2, <1>6, <1>8
  <2> QED BY <1>3, <2>1
<1>11. x = [z \in DOMAIN x |-> x[z]] /\ y = [z \in DOMAIN y |-> y[z]]
  BY <1>2, <1>3 DEF IsJsonTree, IsTree
<1>12. x = y
  BY <1>9, <1>10, <1>11
<1> QED BY <1>12 DEF x, y

-----------------------------------------------------------------------------
(* The judgement.  What a proposal was judged over are two schemas, both of  *)
(* which can be written, and the result is that of their comparison.         *)
LEMMA JudgedSchemas ==
    ASSUME ContentInv, Judged
    PROVE  /\ IsSchema(Proposed) /\ CanWrite(Proposed)
           /\ IsSchema(Stored) /\ CanWrite(Stored)
           /\ \E major, minor \in BOOLEAN :
                 response.result = Process(Patch(Stored, Proposed), major, minor)
<1> DEFINE body == asked.body
           request == RequestRead(body)
           docs == Baseline(request).docs
           d == CHOOSE e \in docs : TRUE
<1>1. body \in Proposals /\ IsRequest(body) /\ response = Compared(request)
  BY DEF ContentInv, Answered, Judged, Judgement, BadRequest
<1>2. Proposed = request.fields /\ Stored = SchemaOf(d).fields
  BY DEF Proposed, Stored
<1>3. request.fields = FieldsRead(body.tree)
  BY DEF RequestRead
<1>4. IsSchema(Proposed)
  BY <1>1, <1>2, <1>3, BodyFacts, RequestSchema
<1>5. docs \in SUBSET documents
  BY MatchingKept DEF Baseline, ContentInv
<1>6. Baseline(request).major \in BOOLEAN /\ Baseline(request).minor \in BOOLEAN
  BY DEF Baseline
<1> HIDE DEF request
<1>7. /\ docs # {} /\ CanWrite(Stored) /\ CanWrite(Proposed)
      /\ response.result = Process(Patch(Stored, Proposed), Baseline(request).major,
                                   Baseline(request).minor)
  <2>1. Compared(request).status = 200
    BY <1>1 DEF Judged
  <2>2. Compared(request) =
          IF docs = {} THEN NotFound
          ELSE IF \E e \in docs : ~CanDecode(e) THEN InternalServerError
          ELSE IF ~CanWrite(Stored) \/ ~CanWrite(Proposed) THEN ServiceUnavailable
          ELSE [status |-> 200,
                result |-> Process(Patch(Stored, Proposed), Baseline(request).major,
                                   Baseline(request).minor)]
    BY <1>2 DEF Compared
  <2>3. /\ NotFound.status # 200 /\ InternalServerError.status # 200
        /\ ServiceUnavailable.status # 200
    BY DEF NotFound, InternalServerError, ServiceUnavailable
  <2> DEFINE result == Process(Patch(Stored, Proposed), Baseline(request).major,
                               Baseline(request).minor)
  <2>4. Compared(request) =
          IF docs = {} THEN NotFound
          ELSE IF \E e \in docs : ~CanDecode(e) THEN InternalServerError
          ELSE IF ~CanWrite(Stored) \/ ~CanWrite(Proposed) THEN ServiceUnavailable
          ELSE [status |-> 200, result |-> result]
    BY <2>2
  <2> HIDE DEF result, docs
  <2>5. docs # {} /\ CanWrite(Stored) /\ CanWrite(Proposed)
          /\ Compared(request) = [status |-> 200, result |-> result]
    BY <2>1, <2>3, <2>4
  <2>6. Compared(request).result = result
    BY <2>5
  <2> QED BY <1>1, <2>5, <2>6 DEF result
<1>8. IsSchema(Stored)
  <2>1. d \in documents
    BY <1>5, <1>7
  <2>2. PICK b \in Storable : d = Document(b)
    <3> HIDE DEF d
    <3> QED BY <2>1 DEF ContentInv, Kept
  <2>3. SchemaOf(d).fields = FieldsRead(b.tree) /\ IsBody(b) /\ IsRequest(b)
    <3> HIDE DEF d
    <3> QED BY <2>2, StorableFacts
  <2> QED BY <1>2, <2>3, RequestSchema
<1> QED BY <1>4, <1>6, <1>7, <1>8

(* A proposal counts as the same schema only if it is, up to the order of    *)
(* siblings at every depth; and, unless two siblings share name and type,    *)
(* always if it is - for schemas of every size and depth, whatever the diff  *)
(* library aligns.  DiffProcessingService.scala:41-47, UtilsService.scala.   *)
THEOREM SameEquivalent == Spec => []SameIffEquivalent
<1>1. ASSUME ContentInv, Judged
      PROVE  /\ response.result.isSameSchema => Equivalent(Proposed, Stored)
             /\ NoTwins(Proposed) /\ Equivalent(Proposed, Stored) =>
                   response.result.isSameSchema
  <2> DEFINE patch == Patch(Stored, Proposed)
  <2>1. /\ IsSchema(Proposed) /\ CanWrite(Proposed)
        /\ IsSchema(Stored) /\ CanWrite(Stored)
        /\ \E major, minor \in BOOLEAN : response.result = Process(patch, major, minor)
    BY <1>1, JudgedSchemas
  <2>2. patch = Diff(SortedJson(Stored), SortedJson(Proposed))
    BY DEF Patch, SortedJson
  <2>3. \A major, minor : Process(patch, major, minor).isSameSchema <=> patch = {}
    BY DEF Process
  <2> HIDE DEF patch
  <2>4. response.result.isSameSchema <=> patch = {}
    BY <2>1, <2>3
  <2>5. ASSUME patch = {}
        PROVE  Equivalent(Proposed, Stored)
    <3>1. IsJsonTree(SortedJson(Stored)) /\ IsJsonTree(SortedJson(Proposed))
      BY <2>1, SortedTree DEF IsSortedAs
    <3>2. SortedJson(Stored) = SortedJson(Proposed)
      BY <2>2, <2>5, <3>1, NoDifference
    <3> QED BY <2>1, <3>2, SameSorted
  <2>6. ASSUME NoTwins(Proposed), Equivalent(Proposed, Stored)
        PROVE  patch = {}
    <3>1. SortedJson(Stored) = SortedJson(Proposed)
      BY <2>1, <2>6, SortedSame
    <3> QED BY <2>2, <3>1 DEF Diff
  <2> QED BY <2>4, <2>5, <2>6
<1>2. ContentInv => SameIffEquivalent
  BY <1>1 DEF SameIffEquivalent
<1> QED BY <1>2, ContentInvariant, PTL

-----------------------------------------------------------------------------
(* A patch that removes and replaces nothing: everything in the one tree is  *)
(* followed by something in the other that has all it has.                   *)
NothingLost(kinds) == kinds \cap {"remove", "replace"} = {}

LEMMA FollowingNode ==
    ASSUME NEW s, NEW t, IsTree(s), IsTree(t), s # t, NothingLost(Diff(s, t)),
           NEW p \in DOMAIN s, NEW q \in DOMAIN t, Follows(s, t, p, q)
    PROVE  NothingLost(NodeKinds(s[p], t[q]))
<1>1. p \in Seq(Steps) /\ p # <<>> /\ q \in Seq(Steps)
  BY DEF IsTree
<1>2. CASE IsCompared(s, t, p, q)
  <2>1. NodeKinds(s[p], t[q]) \subseteq Diff(s, t)
    BY <1>1, <1>2, DiffParts
  <2> QED BY <2>1 DEF NothingLost
<1>3. CASE ~IsCompared(s, t, p, q)
  <2>1. s[p] = t[q]
    BY <1>1, <1>3, FollowsWhere
  <2>2. NodeKinds(s[p], s[p]) = {}
    BY DEF NodeKinds, MemberKinds
  <2> QED BY <2>1, <2>2 DEF NothingLost
<1> QED BY <1>2, <1>3

LEMMA FollowedItem ==
    ASSUME NEW s, NEW t, IsJsonTree(s), IsJsonTree(t), s # t, NothingLost(Diff(s, t)),
           NEW u \in Seq(Steps), NEW v \in Seq(Steps), Follows(s, t, u, v),
           u = <<>> \/ (u \in DOMAIN s /\ v \in DOMAIN t /\ "fields" \in DOMAIN s[u]),
           NEW i \in Steps, Append(u, i) \in DOMAIN s
    PROVE  \E j \in Steps : Append(v, j) \in DOMAIN t /\ Linked(s, t, u, v, i, j)
<1>1. IsTree(s) /\ IsTree(t)
  BY DEF IsJsonTree
<1>2. CASE IsCompared(s, t, u, v)
  <2>1. u # <<>> => "fields" \in (DOMAIN s[u]) \cap (DOMAIN t[v])
    <3> SUFFICES ASSUME u # <<>> PROVE "fields" \in (DOMAIN s[u]) \cap (DOMAIN t[v])
      OBVIOUS
    <3>1. NothingLost(NodeKinds(s[u], t[v]))
      BY <1>1, FollowingNode
    <3>2. DOMAIN s[u] \subseteq DOMAIN t[v]
      BY <3>1, MembersKept DEF NothingLost
    <3> QED BY <3>2
  <2>2. ListKinds(Items(s, u), Items(t, v)) \subseteq Diff(s, t)
    BY <1>1, <1>2, <2>1, DiffParts
  <2>3. i \in DOMAIN Items(s, u)
    BY <1>1, ChildrenOf
  <2>4. "remove" \notin ListKinds(Items(s, u), Items(t, v))
    BY <2>2 DEF NothingLost
  <2>5. PICK m \in Paired(Items(s, u), Items(t, v)) : m[1] = i
    BY <2>3, <2>4, NothingLeft
  <2>6. IsList(Items(s, u)) /\ IsList(Items(t, v))
    BY ItemsAreList
  <2>7. m = <<m[1], m[2]>> /\ m[2] \in DOMAIN Items(t, v)
    BY <2>6, Aligned, MetFacts DEF Paired, IsList
  <2>8. m[2] \in Steps /\ Append(v, m[2]) \in DOMAIN t
    BY <1>1, <2>7, ChildrenOf
  <2>9. Linked(s, t, u, v, i, m[2])
    BY <1>2, <2>5, <2>7 DEF Linked
  <2> QED BY <2>8, <2>9
<1>3. CASE ~IsCompared(s, t, u, v)
  <2>1. Append(v, i) \in DOMAIN t
    BY <1>1, <1>3, FollowsWhere
  <2> QED BY <1>3, <2>1 DEF Linked
<1> QED BY <1>2, <1>3

LEMMA AllFollowed ==
    ASSUME NEW s, NEW t, IsJsonTree(s), IsJsonTree(t), s # t, NothingLost(Diff(s, t)),
           NEW z \in DOMAIN s
    PROVE  \E q \in DOMAIN t : Follows(s, t, z, q)
<1>1. IsTree(s) /\ IsTree(t)
  BY DEF IsJsonTree
<1> DEFINE Good(p) == \E q \in DOMAIN t : Follows(s, t, p, q)
           bad == {p \in DOMAIN s : ~Good(p)}
           T == {Len(p) : p \in bad}
<1>2. \A p \in DOMAIN s : p \in Seq(Steps) /\ p # <<>> /\ Len(p) \in Nat \ {0}
  BY <1>1 DEF IsTree
<1>3. Follows(s, t, <<>>, <<>>)
  <2>1. Len(<<>>) = 0
    OBVIOUS
  <2> QED BY <2>1 DEF Follows
<1>4. bad = {}
  <2> SUFFICES ASSUME bad # {} PROVE FALSE
    OBVIOUS
  <2>1. T \in SUBSET Nat /\ T # {}
    BY <1>2
  <2>2. PICK n \in T : \A l \in T : n <= l
    <3> HIDE DEF T
    <3> QED BY <2>1, LeastNatural
  <2>3. PICK p \in bad : n = Len(p)
    BY <2>2
  <2>4. p \in DOMAIN s /\ ~Good(p) /\ p \in Seq(Steps) /\ p # <<>>
    BY <1>2, <2>3
  <2> DEFINE u == Parent(p)
             i == Last(p)
  <2>5. /\ u \in Seq(Steps) /\ Len(u) = Len(p) - 1 /\ Len(p) \in Nat
        /\ i \in Steps /\ p = Append(u, i)
    BY <2>4, ParentFacts
  <2>6. u # <<>> => u \in DOMAIN s /\ "fields" \in DOMAIN s[u]
    BY <2>4, RecordAbove
  <2> HIDE DEF u, i
  <2>7. u # <<>> => Good(u)
    <3> SUFFICES ASSUME u # <<>>, ~Good(u) PROVE FALSE
      OBVIOUS
    <3>1. u \in bad
      BY <2>6
    <3>2. Len(u) \in T
      BY <3>1
    <3>3. n <= Len(u)
      BY <2>2, <3>2
    <3> QED BY <2>3, <2>5, <3>3
  <2>8. \E v \in Seq(Steps) : Follows(s, t, u, v) /\ (u # <<>> => v \in DOMAIN t)
    <3>1. CASE u = <<>>
      <4>1. <<>> \in Seq(Steps)
        OBVIOUS
      <4> QED BY <1>3, <3>1, <4>1
    <3>2. CASE u # <<>>
      <4>1. PICK v \in DOMAIN t : Follows(s, t, u, v)
        BY <2>7, <3>2
      <4>2. v \in Seq(Steps)
        BY <1>1 DEF IsTree
      <4> QED BY <4>1, <4>2
    <3> QED BY <3>1, <3>2
  <2>9. PICK v \in Seq(Steps) : Follows(s, t, u, v) /\ (u # <<>> => v \in DOMAIN t)
    BY <2>8
  <2>10. PICK j \in Steps : Append(v, j) \in DOMAIN t /\ Linked(s, t, u, v, i, j)
    BY <2>4, <2>5, <2>6, <2>9, FollowedItem
  <2>11. Follows(s, t, Append(u, i), Append(v, j))
    BY <2>5, <2>9, <2>10, FollowsBelow
  <2> QED BY <2>4, <2>5, <2>10, <2>11
<1> QED BY <1>4

(* What a field is written as says what extends it. *)
LEMMA WrittenMembers ==
    ASSUME NEW f, IsReadField(f), NEW json, json = FieldWritten(f)
    PROVE  /\ {"name", "type", "isIdentity"} \subseteq DOMAIN json
           /\ json.name = f.name /\ json.type = f.type /\ json.isIdentity = f.isIdentity
           /\ f.type = "array" => "items" \in DOMAIN json /\ json.items = f.items
           /\ f.type = "enum" =>
                 /\ {"valueType", "allowedValues"} \subseteq DOMAIN json
                 /\ json.valueType = f.valueType
                 /\ DOMAIN json.allowedValues = DOMAIN f.allowedValues
                 /\ \A i \in DOMAIN f.allowedValues :
                       json.allowedValues[i] = ValueWritten(f.valueType, f.allowedValues[i])
<1>1. CASE f.type = "enum"
  <2> DEFINE values == [i \in DOMAIN f.allowedValues |->
                          ValueWritten(f.valueType, f.allowedValues[i])]
  <2>1. json = EnumField(f.name, f.isIdentity, f.valueType, values)
    BY <1>1 DEF FieldWritten
  <2>2. f = EnumField(f.name, f.isIdentity, f.valueType, f.allowedValues)
    BY <1>1, ReadFieldType
  <2>3. /\ DOMAIN values = DOMAIN f.allowedValues
        /\ \A i \in DOMAIN f.allowedValues :
              values[i] = ValueWritten(f.valueType, f.allowedValues[i])
    OBVIOUS
  <2> HIDE DEF values
  <2>4. /\ DOMAIN json = {"name", "type", "isIdentity", "valueType", "allowedValues"}
        /\ json.name = f.name /\ json.type = "enum" /\ json.isIdentity = f.isIdentity
        /\ json.valueType = f.valueType /\ json.allowedValues = values
    BY <2>1 DEF EnumField
  <2> QED BY <1>1, <2>3, <2>4
<1>2. CASE f.type # "enum"
  <2>1. json = f
    BY <1>2 DEF FieldWritten
  <2>2. \/ f = SimpleField(f.name, f.type, f.isIdentity) /\ f.type # "array"
        \/ f = ArrayField(f.name, f.isIdentity, f.items)
        \/ f = RecordField(f.name, f.isIdentity) /\ f.type # "array"
    BY <1>2, ReadFieldType, KnownTypes
  <2>3. {"name", "type", "isIdentity"} \subseteq DOMAIN f
    BY <2>2 DEF SimpleField, ArrayField, RecordField
  <2>4. f.type = "array" => "items" \in DOMAIN f
    BY <2>2 DEF SimpleField, ArrayField, RecordField
  <2> QED BY <1>2, <2>1, <2>3, <2>4
<1> QED BY <1>1, <1>2

LEMMA ExtendsWritten ==
    ASSUME NEW f, NEW g, IsReadField(f), IsReadField(g), IsWritable(f), IsWritable(g),
           NothingLost(NodeKinds(FieldWritten(f), FieldWritten(g)))
    PROVE  ExtendsField(g, f)
<1> DEFINE a == FieldWritten(f)
           b == FieldWritten(g)
<1>1. /\ {"name", "type", "isIdentity"} \subseteq DOMAIN a
      /\ a.name = f.name /\ a.type = f.type /\ a.isIdentity = f.isIdentity
      /\ f.type = "array" => "items" \in DOMAIN a /\ a.items = f.items
      /\ f.type = "enum" =>
            /\ {"valueType", "allowedValues"} \subseteq DOMAIN a
            /\ a.valueType = f.valueType
            /\ DOMAIN a.allowedValues = DOMAIN f.allowedValues
            /\ \A i \in DOMAIN f.allowedValues :
                  a.allowedValues[i] = ValueWritten(f.valueType, f.allowedValues[i])
  BY WrittenMembers
<1>2. /\ b.name = g.name /\ b.type = g.type /\ b.isIdentity = g.isIdentity
      /\ g.type = "array" => b.items = g.items
      /\ g.type = "enum" =>
            /\ b.valueType = g.valueType
            /\ DOMAIN b.allowedValues = DOMAIN g.allowedValues
            /\ \A i \in DOMAIN g.allowedValues :
                  b.allowedValues[i] = ValueWritten(g.valueType, g.allowedValues[i])
  BY WrittenMembers
<1>3. IsJsonField(a) /\ IsJsonField(b)
  BY WrittenNode
<1>4. NodeKinds(a, b) \cap {"remove", "replace"} = {}
  BY DEF NothingLost
<1> HIDE DEF a, b
<1>5. \A key \in DOMAIN a : key # "allowedValues" => a[key] = b[key]
  BY <1>4, MembersKept
<1>6. g.name = f.name /\ g.type = f.type /\ g.isIdentity = f.isIdentity
  BY <1>1, <1>2, <1>5
<1>7. f.type = "array" => g.items = f.items
  BY <1>1, <1>2, <1>5, <1>6
<1>8. ASSUME f.type = "enum"
      PROVE  /\ g.valueType = f.valueType
             /\ Range(f.allowedValues) \subseteq Range(g.allowedValues)
  <2>1. g.valueType = f.valueType
    BY <1>1, <1>2, <1>5, <1>6, <1>8
  <2>2. ASSUME NEW x, IsReadField(x), IsWritable(x), x.type = "enum", NEW i \in DOMAIN x.allowedValues
        PROVE  ValueRead(x.valueType, Given(ValueWritten(x.valueType, x.allowedValues[i])))
                  = x.allowedValues[i]
    <3>1. x.valueType \in EnumTypes /\ x.allowedValues \in Seq(Readings(x.valueType))
      BY <2>2, ReadFieldType
    <3>2. x.allowedValues[i] \in Readings(x.valueType)
      BY <3>1
    <3>3. IsFinite(x.valueType, x.allowedValues[i])
      BY <2>2 DEF IsWritable, IsFinite, Range
    <3> QED BY <3>1, <3>2, <3>3, WrittenReading
  <2>3. ASSUME NEW i \in DOMAIN f.allowedValues
        PROVE  \E j \in DOMAIN g.allowedValues : g.allowedValues[j] = f.allowedValues[i]
    <3>1. PICK j \in DOMAIN b.allowedValues : a.allowedValues[i] = b.allowedValues[j]
      BY <1>1, <1>3, <1>4, <1>8, ValuesKept
    <3>2. j \in DOMAIN g.allowedValues
      BY <1>2, <1>6, <1>8, <3>1
    <3>3. ValueWritten(f.valueType, f.allowedValues[i]) = ValueWritten(g.valueType, g.allowedValues[j])
      BY <1>1, <1>2, <1>6, <1>8, <3>1, <3>2
    <3>4. ValueRead(f.valueType, Given(ValueWritten(f.valueType, f.allowedValues[i])))
            = f.allowedValues[i]
      BY <1>8, <2>2
    <3>5. ValueRead(g.valueType, Given(ValueWritten(g.valueType, g.allowedValues[j])))
            = g.allowedValues[j]
      BY <1>6, <1>8, <2>2, <3>2
    <3> QED BY <2>1, <3>2, <3>3, <3>4, <3>5
  <2> QED BY <2>1, <2>3 DEF Range
<1> QED BY <1>6, <1>7, <1>8 DEF ExtendsField

(* A schema from whose sorted tree nothing is lost is extended. *)
LEMMA SortedExtends ==
    ASSUME NEW a, NEW b, IsSchema(a), IsSchema(b), CanWrite(a), CanWrite(b),
           SortedJson(a) # SortedJson(b),
           NothingLost(Diff(SortedJson(a), SortedJson(b)))
    PROVE  Extends(b, a)
<1> DEFINE ra == Ranks(a)
           rb == Ranks(b)
           s == SortedJson(a)
           t == SortedJson(b)
           F == [x \in DOMAIN s |-> CHOOSE y \in DOMAIN t : Follows(s, t, x, y)]
<1>1. IsSortedAs(a, ra, s) /\ IsSortedAs(b, rb, t)
  BY SortedTree
<1>2. s # t /\ NothingLost(Diff(s, t))
  OBVIOUS
<1> HIDE DEF ra, rb, s, t
<1>3. /\ IsSort(a, ra) /\ IsTree(a) /\ IsJsonTree(s) /\ IsTree(s)
      /\ DOMAIN s = {Moved(ra, p) : p \in DOMAIN a}
      /\ \A p \in DOMAIN a : s[Moved(ra, p)] = FieldWritten(a[p])
  BY <1>1 DEF IsSortedAs, IsSort, IsJsonTree
<1>4. /\ IsSort(b, rb) /\ IsJsonTree(t) /\ IsTree(t)
      /\ DOMAIN t = {Moved(rb, p) : p \in DOMAIN b}
      /\ \A p \in DOMAIN b : t[Moved(rb, p)] = FieldWritten(b[p])
  BY <1>1 DEF IsSortedAs, IsJsonTree
<1>5. \A x \in DOMAIN s : F[x] \in DOMAIN t /\ Follows(s, t, x, F[x])
  BY <1>2, <1>3, <1>4, AllFollowed
<1> HIDE DEF F
<1>6. ASSUME NEW x \in DOMAIN s
      PROVE  /\ x \in Seq(Steps) /\ F[x] \in Seq(Steps)
             /\ Len(F[x]) = Len(x)
             /\ \A k \in 1 .. Len(x) : F[Upto(x, k)] = Upto(F[x], k)
  <2>1. x \in Seq(Steps) /\ F[x] \in Seq(Steps)
    BY <1>3, <1>4, <1>5 DEF IsTree
  <2>2. Len(F[x]) = Len(x)
    BY <1>5 DEF Follows
  <2>3. ASSUME NEW k \in 1 .. Len(x)
        PROVE  F[Upto(x, k)] = Upto(F[x], k)
    <3>1. k \in 0 .. Len(x) /\ k \in 0 .. Len(F[x])
      BY <2>2
    <3>2. Follows(s, t, Upto(x, k), Upto(F[x], k))
      BY <1>5, <2>1, <3>1, FollowsAbove
    <3>3. Upto(x, k) \in DOMAIN s
      BY <1>3 DEF IsTree
    <3>4. Follows(s, t, Upto(x, k), F[Upto(x, k)]) /\ F[Upto(x, k)] \in DOMAIN t
      BY <1>5, <3>3
    <3>5. /\ Upto(x, k) \in Seq(Steps) /\ Upto(F[x], k) \in Seq(Steps)
          /\ F[Upto(x, k)] \in Seq(Steps)
      BY <1>4, <2>1, <3>1, <3>4, Prefix DEF IsTree
    <3> QED BY <1>3, <1>4, <3>2, <3>4, <3>5, FollowsOnce
  <2> QED BY <2>1, <2>2, <2>3
<1>7. ASSUME NEW x \in DOMAIN s, NEW y \in DOMAIN s, F[x] = F[y]
      PROVE  x = y
  BY <1>3, <1>4, <1>5, <1>6, <1>7, FollowsOnce
<1>8. Carries(F, a, ra, b, rb)
  <2>1. \A p \in DOMAIN a : Moved(ra, p) \in DOMAIN s
    BY <1>3
  <2>2. \A y \in DOMAIN t : \E q \in DOMAIN b : Moved(rb, q) = y
    BY <1>4
  <2> QED BY <1>5, <1>6, <1>7, <2>1, <2>2 DEF Carries
<1>9. PICK move \in Moves(a, b) :
              /\ IsPlacing(move, a, b)
              /\ \A p \in DOMAIN a : /\ Moved(move, p) \in DOMAIN b
                                     /\ Moved(rb, Moved(move, p)) = F[Moved(ra, p)]
  BY <1>3, <1>4, <1>8, Unsorted
<1>10. ASSUME NEW p \in DOMAIN a
       PROVE  ExtendsField(b[Moved(move, p)], a[p])
  <2> DEFINE x == Moved(ra, p)
             q == Moved(move, p)
  <2>1. x \in DOMAIN s /\ q \in DOMAIN b /\ Moved(rb, q) = F[x] /\ s[x] = FieldWritten(a[p])
    BY <1>3, <1>9
  <2>2. t[F[x]] = FieldWritten(b[q])
    BY <1>4, <2>1
  <2> HIDE DEF x, q
  <2>3. NothingLost(NodeKinds(s[x], t[F[x]]))
    BY <1>2, <1>3, <1>4, <1>5, <2>1, FollowingNode
  <2>4. /\ IsReadField(a[p]) /\ IsWritable(a[p])
        /\ IsReadField(b[q]) /\ IsWritable(b[q])
    BY <2>1 DEF IsSchema, CanWrite
  <2>5. ExtendsField(b[q], a[p])
    BY <2>1, <2>2, <2>3, <2>4, ExtendsWritten
  <2> QED BY <2>5 DEF q
<1> QED BY <1>9, <1>10 DEF Extends

(* What may follow as a minor version loses nothing: every stored field is   *)
(* still there with its type, identity and allowed values, records field by  *)
(* field - for schemas of every size and depth.                              *)
(* DiffProcessingService.scala:98-129.                                       *)
THEOREM MinorExtended == Spec => []MinorExtends
<1>1. ASSUME ContentInv, Judged, response.result.isMinorUpgradable,
             ~response.result.isMajorUpgrade
      PROVE  Extends(Proposed, Stored)
  <2> DEFINE s == SortedJson(Stored)
             t == SortedJson(Proposed)
             patch == Patch(Stored, Proposed)
  <2>1. /\ IsSchema(Proposed) /\ CanWrite(Proposed)
        /\ IsSchema(Stored) /\ CanWrite(Stored)
        /\ \E major, minor \in BOOLEAN : response.result = Process(patch, major, minor)
    BY <1>1, JudgedSchemas
  <2>2. patch = Diff(s, t)
    BY DEF Patch, SortedJson
  <2>3. \A major, minor :
           /\ Process(patch, major, minor).isMajorUpgrade = major
           /\ Process(patch, major, minor).isMinorUpgradable =
                (patch # {} /\ ~(MajorChanges(patch) /\ ~major))
    BY DEF Process
  <2> HIDE DEF patch
  <2>4. patch # {} /\ ~MajorChanges(patch)
    BY <1>1, <2>1, <2>3
  <2>5. s # t
    BY <2>2, <2>4 DEF Diff
  <2>6. NothingLost(Diff(s, t))
    BY <2>2, <2>4 DEF NothingLost, MajorChanges
  <2> QED BY <2>1, <2>5, <2>6, SortedExtends
<1>2. ContentInv => MinorExtends
  BY <1>1 DEF MinorExtends
<1> QED BY <1>2, ContentInvariant, PTL

-----------------------------------------------------------------------------
(* Additions.  Where every element of a list can be found in another one, in *)
(* order, the diff library finds them all and compares nothing.              *)
LEMMA AllAligned ==
    ASSUME NEW S, NEW T, IsList(S), IsList(T), NEW B \in Alignments(S, T),
           Cardinality(B) = Cardinality(DOMAIN S)
    PROVE  ListKinds(S, T) \subseteq {"add"} /\ Met(S, T) = {}
<1> DEFINE L == LongestAlignment(S, T)
           first == [m \in L |-> m[1]]
           firsts == {first[m] : m \in L}
<1>1. /\ IsFiniteSet(DOMAIN S) /\ IsFiniteSet(DOMAIN T)
      /\ DOMAIN S \subseteq Steps /\ DOMAIN T \subseteq Steps
  BY DEF IsList
<1>2. L \in Alignments(S, T) /\ Cardinality(B) <= Cardinality(L)
  BY <1>1, Longest
<1>3. IsFiniteSet(L) /\ Cardinality(L) \in Nat /\ Cardinality(DOMAIN S) \in Nat
  BY <1>1, <1>2, AlignmentBound, FS_CardinalityType
<1>4. \A m \in L : /\ first[m] = m[1] /\ m[1] \in DOMAIN S /\ m = <<m[1], m[2]>>
                   /\ \A n \in L : m[1] = n[1] => m[2] = n[2]
  BY <1>1, Aligned
<1> HIDE DEF L, first
<1>5. \A m, n \in L : first[m] = first[n] => m = n
  BY <1>4
<1>6. Cardinality(firsts) = Cardinality(L)
  BY <1>3, <1>5, FiniteImage
<1>7. firsts \in SUBSET DOMAIN S
  BY <1>4
<1>8. firsts = DOMAIN S
  <2> HIDE DEF firsts
  <2>1. /\ Cardinality(firsts) <= Cardinality(DOMAIN S)
        /\ Cardinality(firsts) = Cardinality(DOMAIN S) => firsts = DOMAIN S
    BY <1>1, <1>7, FS_Subset
  <2> QED BY <1>2, <1>3, <1>6, <2>1
<1>9. \A i \in DOMAIN S : \E m \in L : m[1] = i
  BY <1>4, <1>8
<1>10. DOMAIN S \subseteq {m[1] : m \in Paired(S, T)}
  BY <1>9 DEF Paired, L
<1>11. ListKinds(S, T) \subseteq {"add"}
  BY <1>10, NothingLeft
<1>12. Met(S, T) = {}
  <2> SUFFICES ASSUME NEW m \in Met(S, T) PROVE FALSE
    OBVIOUS
  <2>1. m[1] \in DOMAIN S /\ \A r \in L : r[1] # m[1]
    BY <1>1, MetFacts DEF L
  <2> QED BY <1>9, <2>1
<1> QED BY <1>11, <1>12

LEMMA NothingCompared ==
    ASSUME NEW s, NEW t, IsTree(s), IsTree(t), Met(Items(s, <<>>), Items(t, <<>>)) = {},
           ListKinds(Items(s, <<>>), Items(t, <<>>)) \subseteq {"add"}
    PROVE  Diff(s, t) \subseteq {"add"}
<1>1. ComparedPlaces(s, t) = {}
  <2> SUFFICES ASSUME NEW m \in ComparedPlaces(s, t) PROVE FALSE
    OBVIOUS
  <2>1. /\ m[1] \in Seq(Steps) /\ m[1] # <<>> /\ Len(m[1]) = Len(m[2]) /\ m[2] \in Seq(Steps)
        /\ \A k \in 1 .. Len(m[1]) :
              <<m[1][k], m[2][k]>> \in Met(Items(s, Upto(m[1], k - 1)),
                                           Items(t, Upto(m[2], k - 1)))
    BY DEF ComparedPlaces, IsTree
  <2>2. 1 \in 1 .. Len(m[1]) /\ 1 \in 1 .. Len(m[2])
    BY <2>1
  <2>3. Upto(m[1], 1 - 1) = <<>> /\ Upto(m[2], 1 - 1) = <<>>
    BY <2>1, <2>2, PlaceAt
  <2> QED BY <2>1, <2>2, <2>3
<1> DEFINE compared == ComparedPlaces(s, t)
           records == {m \in compared : "fields" \in (DOMAIN s[m[1]]) \cap (DOMAIN t[m[2]])}
           lists == records \cup {<< <<>>, <<>> >>}
           nodeKinds == {NodeKinds(s[m[1]], t[m[2]]) : m \in compared}
           listKinds == {ListKinds(Items(s, m[1]), Items(t, m[2])) : m \in lists}
<1>2. Diff(s, t) \subseteq (UNION nodeKinds) \cup (UNION listKinds)
  BY DEF Diff
<1>3. nodeKinds = {} /\ lists = {<< <<>>, <<>> >>}
  BY <1>1
<1>4. \A kinds \in listKinds : kinds \subseteq {"add"}
  <2> HIDE DEF lists
  <2> QED BY <1>3
<1> HIDE DEF nodeKinds, listKinds
<1> QED BY <1>2, <1>3, <1>4

LEMMA HeadOf ==
    ASSUME NEW i \in Steps, NEW rest \in Seq(Steps)
    PROVE  /\ <<i>> \o rest \in Seq(Steps) /\ Len(<<i>> \o rest) = 1 + Len(rest)
           /\ Upto(<<i>> \o rest, 1) = <<i>> /\ (<<i>> \o rest)[1] = i
           /\ \A k \in 2 .. 1 + Len(rest) : (<<i>> \o rest)[k] = rest[k - 1]
<1> DEFINE u == <<i>>
<1>1. u \in Seq(Steps) /\ Len(u) = 1 /\ u[1] = i /\ Len(rest) \in Nat
  OBVIOUS
<1> HIDE DEF u
<1>2. /\ u \o rest \in Seq(Steps) /\ Len(u \o rest) = 1 + Len(rest)
      /\ Upto(u \o rest, Len(u)) = u
      /\ \A k \in 1 .. Len(u) : (u \o rest)[k] = u[k]
      /\ \A k \in 1 .. Len(rest) : (u \o rest)[1 + k] = rest[k]
  <2>1. /\ u \o rest \in Seq(Steps) /\ Len(u \o rest) = Len(u) + Len(rest)
        /\ Upto(u \o rest, Len(u)) = u
        /\ \A k \in 1 .. Len(u) : (u \o rest)[k] = u[k]
        /\ \A k \in 1 .. Len(rest) : (u \o rest)[Len(u) + k] = rest[k]
    BY <1>1, Joined
  <2> QED BY <1>1, <2>1
<1>3. Upto(u \o rest, 1) = u /\ (u \o rest)[1] = i
  BY <1>1, <1>2
<1>4. ASSUME NEW k \in 2 .. 1 + Len(rest)
      PROVE  (u \o rest)[k] = rest[k - 1]
  <2>1. k - 1 \in 1 .. Len(rest) /\ 1 + (k - 1) = k
    BY <1>1
  <2> QED BY <1>2, <2>1
<1>5. /\ u \o rest \in Seq(Steps) /\ Len(u \o rest) = 1 + Len(rest)
      /\ Upto(u \o rest, 1) = u /\ (u \o rest)[1] = i
      /\ \A k \in 2 .. 1 + Len(rest) : (u \o rest)[k] = rest[k - 1]
  BY <1>2, <1>3, <1>4
<1> QED BY <1>5 DEF u

LEMMA Headed ==
    ASSUME NEW j \in Steps, NEW rest \in Seq(Steps), NEW y \in Seq(Steps),
           Len(y) = 1 + Len(rest), y[1] = j,
           \A k \in 2 .. 1 + Len(rest) : y[k] = rest[k - 1]
    PROVE  y = <<j>> \o rest
<1> DEFINE z == <<j>> \o rest
<1>1. /\ z \in Seq(Steps) /\ Len(z) = 1 + Len(rest) /\ z[1] = j
      /\ \A k \in 2 .. 1 + Len(rest) : z[k] = rest[k - 1]
  BY HeadOf
<1> HIDE DEF z
<1>2. ASSUME NEW k \in 1 .. Len(y)
      PROVE  y[k] = z[k]
  <2>1. CASE k = 1
    BY <1>1, <2>1
  <2>2. CASE k # 1
    <3>1. k \in 2 .. 1 + Len(rest)
      BY <2>2
    <3> QED BY <1>1, <3>1
  <2> QED BY <2>1, <2>2
<1>3. y = z
  BY <1>1, <1>2, SeqEqual
<1> QED BY <1>3 DEF z

LEMMA TwinsKept ==
    ASSUME NEW tree, NEW other, IsTree(tree), IsTree(other), NoTwins(other),
           NEW move \in Moves(tree, other), IsPlacing(move, tree, other),
           Keeps(move, tree, other)
    PROVE  NoTwins(tree)
<1>1. ASSUME NEW p \in DOMAIN tree, NEW q \in Siblings(tree, p),
             SortKey(tree[p]) = SortKey(tree[q])
      PROVE  p = q
  <2>1. q \in DOMAIN tree
    BY SiblingsOf
  <2>2. /\ Moved(move, p) \in DOMAIN other
        /\ Moved(move, q) \in Siblings(other, Moved(move, p))
    BY <2>1, SiblingsKept
  <2>3. other[Moved(move, p)] = tree[p] /\ other[Moved(move, q)] = tree[q]
    BY <2>1 DEF Keeps
  <2>4. Moved(move, p) = Moved(move, q)
    BY <1>1, <2>2, <2>3 DEF NoTwins
  <2> QED BY <2>1, <2>4 DEF IsPlacing
<1> QED BY <1>1 DEF NoTwins

(* A schema in a larger one: its fields are there unchanged, with nothing    *)
(* more inside them.                                                         *)
IsInclusion(move, tree, more) ==
    /\ move \in Moves(tree, more)
    /\ IsPlacing(move, tree, more) /\ Keeps(move, tree, more)
    /\ \A q \in DOMAIN more :
          Upto(q, 1) \in Places(move, tree) => q \in Places(move, tree)

LEMMA FirstStep ==
    ASSUME NEW tree, IsTree(tree), NEW p \in DOMAIN tree
    PROVE  /\ p \in Seq(Steps) /\ Len(p) \in Nat \ {0}
           /\ 1 \in 0 .. Len(p) /\ 1 \in 1 .. Len(p)
           /\ Upto(p, 1) \in DOMAIN tree /\ Len(Upto(p, 1)) = 1
           /\ Len(p) = 1 => Upto(p, 1) = p
           /\ Len(p) # 1 => Upto(p, 1) = Upto(Parent(p), 1)
<1>1. p \in Seq(Steps) /\ p # <<>> /\ Len(p) \in Nat \ {0}
  BY DEF IsTree
<1>2. 1 \in 0 .. Len(p) /\ 1 \in 1 .. Len(p)
  BY <1>1
<1>3. Upto(p, 1) \in DOMAIN tree
  BY <1>2 DEF IsTree
<1>4. Len(Upto(p, 1)) = 1 /\ (Len(p) = 1 => Upto(p, 1) = p)
  <2>1. \A k \in 0 .. Len(p) : Len(Upto(p, k)) = k /\ (k = Len(p) => Upto(p, k) = p)
    BY <1>1, Prefix
  <2> QED BY <1>2, <2>1
<1>5. ASSUME Len(p) # 1
      PROVE  Upto(p, 1) = Upto(Parent(p), 1)
  <2>1. 1 \in 0 .. Len(p) - 1
    <3>1. \A n \in Nat \ {0} : n # 1 => 1 \in 0 .. n - 1
      OBVIOUS
    <3> QED BY <1>1, <1>5, <3>1
  <2> QED BY <1>1, <2>1, ParentFacts
<1> QED BY <1>1, <1>2, <1>3, <1>4, <1>5

LEMMA RankInside ==
    ASSUME NEW a, NEW b, IsKeyed(a), IsKeyed(b), NoTwins(a),
           NEW move, IsInclusion(move, a, b), NEW p \in DOMAIN a, Len(p) # 1
    PROVE  Rank(b, Moved(move, p)) = Rank(a, p)
<1>1. IsTree(a) /\ IsTree(b)
  BY DEF IsKeyed
<1>2. /\ move \in Moves(a, b) /\ IsPlacing(move, a, b) /\ Keeps(move, a, b)
      /\ \A q \in DOMAIN b : Upto(q, 1) \in Places(move, a) => q \in Places(move, a)
  BY DEF IsInclusion
<1>3. \A q \in DOMAIN a : move[q] \in Steps /\ Moved(move, q) \in DOMAIN b
  BY <1>1, <1>2, SiblingsKept
<1>4. /\ Len(Moved(move, p)) = Len(p)
      /\ \A k \in 0 .. Len(p) : Upto(Moved(move, p), k) = Moved(move, Upto(p, k))
  BY <1>1, <1>3, MovedTo
<1>5. ASSUME NEW r \in Siblings(b, Moved(move, p))
      PROVE  r \in Places(move, a)
  <2>1. r \in DOMAIN b /\ Parent(r) = Parent(Moved(move, p))
    BY <1>1, <1>3, SiblingsOf
  <2>2. Len(r) = Len(p)
    <3>1. Moved(move, p) \in Seq(Steps) /\ Moved(move, p) # <<>> /\ r \in Seq(Steps) /\ r # <<>>
      BY <1>1, <1>3, <2>1 DEF IsTree
    <3>2. Len(Parent(r)) = Len(r) - 1 /\ Len(Parent(Moved(move, p))) = Len(p) - 1
            /\ Len(r) \in Nat /\ Len(p) \in Nat
      BY <1>4, <3>1, ParentFacts
    <3> QED BY <2>1, <3>2
  <2>3. Upto(r, 1) = Upto(Parent(r), 1)
    BY <1>1, <2>1, <2>2, FirstStep
  <2>4. Upto(Moved(move, p), 1) = Upto(Parent(Moved(move, p)), 1)
    BY <1>1, <1>3, <1>4, FirstStep
  <2>5. Upto(Moved(move, p), 1) = Moved(move, Upto(p, 1)) /\ Upto(p, 1) \in DOMAIN a
    BY <1>1, <1>4, FirstStep
  <2>6. Upto(r, 1) \in Places(move, a)
    BY <2>1, <2>3, <2>4, <2>5 DEF Places
  <2> QED BY <1>2, <2>1, <2>6
<1>6. Siblings(b, Moved(move, p)) \subseteq Places(move, a)
  BY <1>5
<1> QED BY <1>2, <1>6, RankKept

(* Behind the first step, the sorted trees agree on where a place lies. *)
LEMMA SortedInside ==
    ASSUME NEW a, NEW b, IsKeyed(a), IsKeyed(b), NoTwins(a),
           NEW move, IsInclusion(move, a, b), NEW z \in DOMAIN a,
           NEW x, x = Moved(Ranks(a), z), NEW y, y = Moved(Ranks(b), Moved(move, z))
    PROVE  /\ x \in Seq(Steps) /\ y \in Seq(Steps) /\ Len(x) = Len(y)
           /\ Len(x) = Len(z) /\ Len(z) \in Nat \ {0}
           /\ \A k \in 2 .. Len(x) : x[k] = y[k]
           /\ x[1] = Rank(a, Upto(z, 1)) /\ y[1] = Rank(b, Moved(move, Upto(z, 1)))
<1> DEFINE q == Moved(move, z)
<1>1. IsTree(a) /\ IsTree(b)
  BY DEF IsKeyed
<1>2. /\ \A p \in DOMAIN a : Ranks(a)[p] = Rank(a, p) /\ Ranks(a)[p] \in Steps
      /\ \A p \in DOMAIN b : Ranks(b)[p] = Rank(b, p) /\ Ranks(b)[p] \in Steps
  BY RanksApart
<1>3. \A p \in DOMAIN a : move[p] \in Steps /\ Moved(move, p) \in DOMAIN b
  BY <1>1, SiblingsKept DEF IsInclusion
<1>4. /\ Len(q) = Len(z) /\ Len(z) \in Nat \ {0} /\ z \in Seq(Steps)
      /\ \A k \in 0 .. Len(z) : Upto(q, k) = Moved(move, Upto(z, k))
  BY <1>1, <1>3, MovedTo
<1>5. /\ x \in Seq(Steps) /\ Len(x) = Len(z)
      /\ \A k \in 1 .. Len(z) : x[k] = Ranks(a)[Upto(z, k)]
  BY <1>1, <1>2, MovedTo
<1>6. /\ y \in Seq(Steps) /\ Len(y) = Len(z)
      /\ \A k \in 1 .. Len(z) : y[k] = Ranks(b)[Upto(q, k)]
  <2>1. q \in DOMAIN b
    BY <1>3
  <2>2. y = Moved(Ranks(b), q)
    OBVIOUS
  <2> HIDE DEF q
  <2> QED BY <1>1, <1>2, <1>4, <2>1, <2>2, MovedTo
<1> HIDE DEF q
<1>7. ASSUME NEW k \in 1 .. Len(z)
      PROVE  /\ k \in 0 .. Len(z) /\ Upto(z, k) \in DOMAIN a /\ Len(Upto(z, k)) = k
             /\ x[k] = Rank(a, Upto(z, k)) /\ y[k] = Rank(b, Moved(move, Upto(z, k)))
  <2>1. k \in 0 .. Len(z)
    OBVIOUS
  <2>2. Upto(z, k) \in DOMAIN a /\ Len(Upto(z, k)) = k
    BY <1>1, <1>4, <2>1, Prefix DEF IsTree
  <2>3. Upto(q, k) = Moved(move, Upto(z, k)) /\ Upto(q, k) \in DOMAIN b
    BY <1>3, <1>4, <2>1, <2>2
  <2> QED BY <1>2, <1>5, <1>6, <2>1, <2>2, <2>3
<1>8. ASSUME NEW k \in 2 .. Len(x)
      PROVE  x[k] = y[k]
  <2>1. k \in 1 .. Len(z) /\ k # 1
    BY <1>4, <1>5
  <2>2. /\ Upto(z, k) \in DOMAIN a /\ Len(Upto(z, k)) # 1
        /\ x[k] = Rank(a, Upto(z, k)) /\ y[k] = Rank(b, Moved(move, Upto(z, k)))
    BY <1>7, <2>1
  <2>3. Rank(b, Moved(move, Upto(z, k))) = Rank(a, Upto(z, k))
    BY <2>2, RankInside
  <2> QED BY <2>2, <2>3
<1>9. 1 \in 1 .. Len(z)
  BY <1>4
<1> QED BY <1>4, <1>5, <1>6, <1>7, <1>8, <1>9

(* So a field found in the larger schema is sorted, with all that is inside  *)
(* it, as it was.                                                            *)
LEMMA SubtreeKept ==
    ASSUME NEW a, NEW b, IsKeyed(a), IsKeyed(b), NoTwins(a),
           NEW s, IsSortedAs(a, Ranks(a), s), NEW t, IsSortedAs(b, Ranks(b), t),
           NEW move, IsInclusion(move, a, b), NEW p \in DOMAIN a, Len(p) = 1,
           NEW i, i = Rank(a, p), NEW j, j = Rank(b, Moved(move, p))
    PROVE  /\ i \in Steps /\ j \in Steps
           /\ <<i>> \in DOMAIN s /\ <<j>> \in DOMAIN t
           /\ Below(s, <<i>>) = Below(t, <<j>>)
<1> DEFINE ra == Ranks(a)
           rb == Ranks(b)
<1>1. /\ IsTree(a) /\ IsTree(s) /\ IsApart(a, ra)
      /\ \A z \in DOMAIN a : ra[z] \in Steps /\ ra[z] = Rank(a, z)
      /\ DOMAIN s = {Moved(ra, z) : z \in DOMAIN a}
      /\ \A z \in DOMAIN a : s[Moved(ra, z)] = FieldWritten(a[z])
  BY DEF IsSortedAs, IsSort, IsJsonTree
<1>2. /\ IsTree(b) /\ IsTree(t) /\ IsApart(b, rb)
      /\ \A z \in DOMAIN b : rb[z] \in Steps /\ rb[z] = Rank(b, z)
      /\ DOMAIN t = {Moved(rb, z) : z \in DOMAIN b}
      /\ \A z \in DOMAIN b : t[Moved(rb, z)] = FieldWritten(b[z])
  BY DEF IsSortedAs, IsSort, IsJsonTree
<1>3. /\ move \in Moves(a, b) /\ IsPlacing(move, a, b) /\ Keeps(move, a, b)
      /\ \A q \in DOMAIN b : Upto(q, 1) \in Places(move, a) => q \in Places(move, a)
  BY DEF IsInclusion
<1>4. \A z \in DOMAIN a : move[z] \in Steps /\ Moved(move, z) \in DOMAIN b
  BY <1>1, <1>2, <1>3, SiblingsKept
<1>5. ASSUME NEW z \in DOMAIN a
      PROVE  /\ Moved(ra, z) \in Seq(Steps) /\ Moved(rb, Moved(move, z)) \in Seq(Steps)
             /\ Len(Moved(ra, z)) = Len(Moved(rb, Moved(move, z)))
             /\ Len(Moved(ra, z)) = Len(z) /\ Len(z) \in Nat \ {0}
             /\ \A k \in 2 .. Len(Moved(ra, z)) :
                   Moved(ra, z)[k] = Moved(rb, Moved(move, z))[k]
             /\ Moved(ra, z)[1] = Rank(a, Upto(z, 1))
             /\ Moved(rb, Moved(move, z))[1] = Rank(b, Moved(move, Upto(z, 1)))
  BY SortedInside
<1> HIDE DEF ra, rb
<1>6. i \in Steps /\ j \in Steps
  BY <1>1, <1>2, <1>4
<1>7. Moved(ra, p) = <<i>> /\ Moved(rb, Moved(move, p)) = <<j>>
  <2>1. Upto(p, 1) = p
    BY <1>1, FirstStep
  <2>2. \A x \in Seq(Steps) : Len(x) = 1 => x = <<x[1]>>
    OBVIOUS
  <2> QED BY <1>5, <2>1, <2>2
<1>8. <<i>> \in DOMAIN s /\ <<j>> \in DOMAIN t
  BY <1>1, <1>2, <1>4, <1>7
<1>9. <<i>> \in Seq(Steps) /\ <<j>> \in Seq(Steps) /\ Len(<<i>>) = 1 /\ Len(<<j>>) = 1
        /\ <<i>>[1] = i /\ <<j>>[1] = j
  BY <1>6
<1>10. ASSUME NEW rest \in Seq(Steps)
       PROVE  /\ Upto(<<i>> \o rest, 1) = <<i>> /\ (<<i>> \o rest)[1] = i
              /\ Upto(<<j>> \o rest, 1) = <<j>> /\ (<<j>> \o rest)[1] = j
  BY <1>6, HeadOf
(* From the smaller schema to the larger one, and back. *)
<1>11. ASSUME NEW rest \in Seq(Steps), NEW z \in DOMAIN a, Moved(ra, z) = <<i>> \o rest
       PROVE  Moved(rb, Moved(move, z)) = <<j>> \o rest
  <2>1. Upto(z, 1) = p
    <3>1. Upto(Moved(ra, z), 1) = Moved(ra, Upto(z, 1))
      <4>1. \A k \in 0 .. Len(z) : Upto(Moved(ra, z), k) = Moved(ra, Upto(z, k))
        BY <1>1, MovedTo
      <4> QED BY <1>1, <4>1, FirstStep
    <3>2. Upto(z, 1) \in DOMAIN a
      BY <1>1, FirstStep
    <3>3. Moved(ra, Upto(z, 1)) = Moved(ra, p)
      BY <1>7, <1>10, <1>11, <3>1
    <3> QED BY <1>1, <3>2, <3>3, MovedOnce
  <2>2. Moved(rb, Moved(move, z))[1] = j
    BY <1>5, <2>1
  <2>3. /\ Len(Moved(ra, z)) = 1 + Len(rest)
        /\ \A k \in 2 .. 1 + Len(rest) : Moved(ra, z)[k] = rest[k - 1]
    BY <1>6, <1>11, HeadOf
  <2>4. /\ Len(Moved(rb, Moved(move, z))) = 1 + Len(rest)
        /\ \A k \in 2 .. 1 + Len(rest) : Moved(rb, Moved(move, z))[k] = rest[k - 1]
    BY <1>5, <2>3
  <2> QED BY <1>5, <1>6, <2>2, <2>4, Headed
<1>12. ASSUME NEW rest \in Seq(Steps), NEW w \in DOMAIN b, Moved(rb, w) = <<j>> \o rest
       PROVE  \E z \in DOMAIN a : w = Moved(move, z) /\ Moved(ra, z) = <<i>> \o rest
  <2>1. Upto(w, 1) = Moved(move, p)
    <3>1. Upto(Moved(rb, w), 1) = Moved(rb, Upto(w, 1))
      <4>1. \A k \in 0 .. Len(w) : Upto(Moved(rb, w), k) = Moved(rb, Upto(w, k))
        BY <1>2, MovedTo
      <4> QED BY <1>2, <4>1, FirstStep
    <3>2. Upto(w, 1) \in DOMAIN b /\ Moved(move, p) \in DOMAIN b
      BY <1>2, <1>4, FirstStep
    <3>3. Moved(rb, Upto(w, 1)) = Moved(rb, Moved(move, p))
      BY <1>7, <1>10, <1>12, <3>1
    <3> QED BY <1>2, <3>2, <3>3, MovedOnce
  <2>2. PICK z \in DOMAIN a : w = Moved(move, z)
    BY <1>3, <2>1 DEF Places
  <2>3. Upto(z, 1) = p
    <3>1. Upto(w, 1) = Moved(move, Upto(z, 1))
      <4>1. \A k \in 0 .. Len(z) : Upto(Moved(move, z), k) = Moved(move, Upto(z, k))
        BY <1>1, <1>4, MovedTo
      <4> QED BY <1>1, <2>2, <4>1, FirstStep
    <3>2. Upto(z, 1) \in DOMAIN a
      BY <1>1, FirstStep
    <3> QED BY <1>3, <2>1, <3>1, <3>2 DEF IsPlacing
  <2>4. Moved(ra, z)[1] = i
    BY <1>5, <2>3
  <2>5. /\ Len(Moved(rb, w)) = 1 + Len(rest)
        /\ \A k \in 2 .. 1 + Len(rest) : Moved(rb, w)[k] = rest[k - 1]
    BY <1>6, <1>12, HeadOf
  <2>6. /\ Len(Moved(ra, z)) = 1 + Len(rest)
        /\ \A k \in 2 .. 1 + Len(rest) : Moved(ra, z)[k] = rest[k - 1]
    BY <1>5, <2>2, <2>5
  <2>7. Moved(ra, z) = <<i>> \o rest
    BY <1>5, <1>6, <2>4, <2>6, Headed
  <2> QED BY <2>2, <2>7
<1>13. ASSUME NEW rest \in Seq(Steps)
       PROVE  /\ <<i>> \o rest \in DOMAIN s <=> <<j>> \o rest \in DOMAIN t
              /\ <<i>> \o rest \in DOMAIN s => s[<<i>> \o rest] = t[<<j>> \o rest]
  <2>1. ASSUME <<i>> \o rest \in DOMAIN s
        PROVE  <<j>> \o rest \in DOMAIN t /\ s[<<i>> \o rest] = t[<<j>> \o rest]
    <3>1. PICK z \in DOMAIN a : Moved(ra, z) = <<i>> \o rest
      BY <1>1, <2>1
    <3>2. Moved(rb, Moved(move, z)) = <<j>> \o rest /\ Moved(move, z) \in DOMAIN b
      BY <1>4, <1>11, <3>1
    <3>3. b[Moved(move, z)] = a[z]
      BY <1>3 DEF Keeps
    <3>4. /\ s[<<i>> \o rest] = FieldWritten(a[z])
          /\ t[<<j>> \o rest] = FieldWritten(b[Moved(move, z)])
      BY <1>1, <1>2, <3>1, <3>2
    <3> QED BY <1>2, <3>2, <3>3, <3>4
  <2>2. ASSUME <<j>> \o rest \in DOMAIN t
        PROVE  <<i>> \o rest \in DOMAIN s
    <3>1. PICK w \in DOMAIN b : Moved(rb, w) = <<j>> \o rest
      BY <1>2, <2>2
    <3>2. PICK z \in DOMAIN a : Moved(ra, z) = <<i>> \o rest
      BY <1>12, <3>1
    <3> QED BY <1>1, <3>2
  <2> QED BY <2>1, <2>2
<1>14. Below(s, <<i>>) = Below(t, <<j>>)
  <2> DEFINE u == <<i>>
             v == <<j>>
  <2>1. u \in Seq(Steps) /\ v \in Seq(Steps) /\ AgreeBelow(s, t, u, v)
    BY <1>9, <1>13 DEF AgreeBelow
  <2> HIDE DEF u, v
  <2>2. Below(s, u) = Below(t, v)
    BY <1>1, <1>2, <2>1, BelowSame
  <2> QED BY <2>2 DEF u, v
<1> QED BY <1>6, <1>8, <1>14

(* The fields of the schema itself are its items. *)
LEMMA RootItems ==
    ASSUME NEW t, IsTree(t), NEW S, S = Items(t, <<>>)
    PROVE  /\ \A i \in Steps : i \in DOMAIN S <=> <<i>> \in DOMAIN t
           /\ DOMAIN S \subseteq Steps
           /\ \A i \in DOMAIN S : S[i] = Below(t, <<i>>)
<1>1. PICK u \in Seq(Steps) : u = <<>>
  <2>1. <<>> \in Seq(Steps)
    OBVIOUS
  <2> QED BY <2>1, Zenon
<1>2. \A i \in Steps : Append(u, i) = <<i>>
  BY <1>1
<1>3. S = Items(t, u)
  BY <1>1
<1>4. \A i : i \in DOMAIN S <=> i \in Steps /\ Append(u, i) \in DOMAIN t
  BY <1>3, ChildrenOf
<1>5. \A i \in DOMAIN S : S[i] = Below(t, Append(u, i))
  BY <1>3, ChildrenOf
<1> QED BY <1>2, <1>4, <1>5

(* The fields of the smaller schema are found in the larger one in order.    *)
LEMMA RootAligned ==
    ASSUME NEW a, NEW b, IsKeyed(a), IsKeyed(b), NoTwins(a),
           NEW s, IsSortedAs(a, Ranks(a), s), NEW t, IsSortedAs(b, Ranks(b), t),
           NEW move, IsInclusion(move, a, b),
           NEW S, S = Items(s, <<>>), NEW T, T = Items(t, <<>>)
    PROVE  \E B \in Alignments(S, T) : Cardinality(B) = Cardinality(DOMAIN S)
<1> DEFINE C == {p \in DOMAIN a : Len(p) = 1}
           left == [p \in C |-> Rank(a, p)]
           right == [p \in C |-> Rank(b, Moved(move, p))]
           pair == [p \in C |-> <<left[p], right[p]>>]
           B == {pair[p] : p \in C}
<1>1. IsTree(a) /\ IsTree(b) /\ IsTree(s) /\ IsTree(t)
  BY DEF IsKeyed, IsSortedAs, IsJsonTree
<1>2. \A p \in C : /\ left[p] = Rank(a, p) /\ right[p] = Rank(b, Moved(move, p))
                   /\ pair[p][1] = left[p] /\ pair[p][2] = right[p]
                   /\ pair[p] = <<left[p], right[p]>> /\ p \in DOMAIN a /\ Len(p) = 1
  OBVIOUS
<1>3. IsFiniteSet(C)
  <2>1. C \in SUBSET DOMAIN a
    OBVIOUS
  <2> HIDE DEF C
  <2> QED BY <1>1, <2>1, FS_Subset DEF IsTree
<1>4. ASSUME NEW p \in C, NEW q \in C
      PROVE  q \in Siblings(a, p)
  <2>1. p \in DOMAIN a /\ q \in DOMAIN a /\ Len(p) = 1 /\ Len(q) = 1
    OBVIOUS
  <2>2. Parent(p) = <<>> /\ Parent(q) = <<>>
    BY <1>1, <2>1, ParentFacts DEF IsTree
  <2> QED BY <1>1, <2>1, <2>2, SiblingsOf
<1> HIDE DEF C, left, right, pair
<1>5. ASSUME NEW p \in C, NEW q \in C
      PROVE  /\ left[p] < left[q] <=> right[p] < right[q]
             /\ left[p] = left[q] => p = q
  <2>1. p \in DOMAIN a /\ q \in DOMAIN a /\ p \in Siblings(a, q) /\ q \in Siblings(a, p)
    BY <1>2, <1>4
  <2>2. move \in Moves(a, b) /\ IsPlacing(move, a, b) /\ Keeps(move, a, b)
    BY DEF IsInclusion
  <2>3. Precedes(a, p, q) <=> Precedes(b, Moved(move, p), Moved(move, q))
    BY <2>1, <2>2, OrderKept
  <2>4. /\ Moved(move, q) \in DOMAIN b
        /\ Moved(move, p) \in Siblings(b, Moved(move, q))
    BY <1>1, <2>1, <2>2, SiblingsKept
  <2>5. Precedes(a, p, q) <=> Rank(a, p) < Rank(a, q)
    BY <2>1, RankOrdered
  <2>6. Precedes(b, Moved(move, p), Moved(move, q)) <=>
          Rank(b, Moved(move, p)) < Rank(b, Moved(move, q))
    BY <2>4, RankOrdered
  <2>7. Rank(a, p) = Rank(a, q) => p = q
    BY <2>1, RankOrdered
  <2> QED BY <1>2, <2>3, <2>5, <2>6, <2>7
<1>6. ASSUME NEW p \in C
      PROVE  /\ left[p] \in DOMAIN S /\ right[p] \in DOMAIN T
             /\ S[left[p]] = T[right[p]]
  <2> DEFINE i == Rank(a, p)
             j == Rank(b, Moved(move, p))
  <2>1. /\ i \in Steps /\ j \in Steps /\ <<i>> \in DOMAIN s /\ <<j>> \in DOMAIN t
        /\ Below(s, <<i>>) = Below(t, <<j>>)
    BY <1>2, SubtreeKept
  <2> HIDE DEF i, j
  <2>2. i \in DOMAIN S /\ S[i] = Below(s, <<i>>)
    BY <1>1, <2>1, RootItems
  <2>3. j \in DOMAIN T /\ T[j] = Below(t, <<j>>)
    BY <1>1, <2>1, RootItems
  <2>4. left[p] = i /\ right[p] = j
    BY <1>2 DEF i, j
  <2> QED BY <2>1, <2>2, <2>3, <2>4
<1>7. DOMAIN S = {left[p] : p \in C}
  <2>1. ASSUME NEW i \in DOMAIN S
        PROVE  \E p \in C : i = left[p]
    <3>1. <<i>> \in DOMAIN s /\ i \in Steps
      BY <1>1, RootItems
    <3>2. PICK p \in DOMAIN a : <<i>> = Moved(Ranks(a), p)
      BY <3>1 DEF IsSortedAs
    <3>3. \A z \in DOMAIN a : Ranks(a)[z] = Rank(a, z) /\ Ranks(a)[z] \in Steps
      BY RanksApart
    <3>4. Len(p) = Len(<<i>>) /\ Last(<<i>>) = Ranks(a)[p]
      BY <1>1, <3>2, <3>3, MovedTo
    <3>5. Len(<<i>>) = 1 /\ Last(<<i>>) = i
      BY DEF Last
    <3>6. p \in C /\ i = Rank(a, p)
      BY <3>3, <3>4, <3>5 DEF C
    <3> QED BY <1>2, <3>6
  <2> QED BY <1>6, <2>1
<1>8. B \in Alignments(S, T)
  <2>1. ASSUME NEW p \in C
        PROVE  pair[p] \in CommonPairs(S, T)
    <3>1. \A x \in DOMAIN S, y \in DOMAIN T : S[x] = T[y] => <<x, y>> \in CommonPairs(S, T)
      BY DEF CommonPairs
    <3>2. <<left[p], right[p]>> \in CommonPairs(S, T)
      BY <1>6, <3>1
    <3> QED BY <1>2, <3>2
  <2>2. B \in SUBSET CommonPairs(S, T)
    BY <2>1
  <2>3. \A p, q \in C : pair[p][1] < pair[q][1] <=> pair[p][2] < pair[q][2]
    BY <1>2, <1>5
  <2>4. \A x, y \in B : x[1] < y[1] <=> x[2] < y[2]
    BY <2>3
  <2>5. \A A \in SUBSET CommonPairs(S, T) :
           (\A x, y \in A : x[1] < y[1] <=> x[2] < y[2]) => A \in Alignments(S, T)
    BY Zenon DEF Alignments
  <2> HIDE DEF B
  <2> QED BY <2>2, <2>4, <2>5
<1>9. Cardinality(DOMAIN S) = Cardinality(C)
  <2>1. \A p, q \in C : left[p] = left[q] => p = q
    BY <1>5
  <2> QED BY <1>3, <1>7, <2>1, FiniteImage
<1>10. Cardinality(B) = Cardinality(C)
  <2>1. \A p, q \in C : pair[p] = pair[q] => p = q
    BY <1>2, <1>5
  <2>2. B = {pair[p] : p \in C}
    OBVIOUS
  <2> HIDE DEF B
  <2> QED BY <1>3, <2>1, <2>2, FiniteImage
<1> QED BY <1>8, <1>9, <1>10

(* New fields beside unchanged ones are a minor change, wherever the sorting *)
(* puts them - for schemas of every size and depth.                          *)
(* DiffProcessingService.scala:38-47, 98-129.                                *)
THEOREM AdditionMinor == Spec => []AdditionIsMinor
<1>1. ASSUME ContentInv, Judged, NoTwins(Proposed), Includes(Proposed, Stored)
      PROVE  response.result.isMinorUpgradable \/ response.result.isSameSchema
  <2> DEFINE a == Stored
             b == Proposed
             s == SortedJson(Stored)
             t == SortedJson(Proposed)
             patch == Patch(Stored, Proposed)
  <2>1. /\ IsSchema(b) /\ CanWrite(b) /\ IsSchema(a) /\ CanWrite(a)
        /\ \E major, minor \in BOOLEAN : response.result = Process(patch, major, minor)
    BY <1>1, JudgedSchemas
  <2>2. patch = Diff(s, t)
    BY DEF Patch, SortedJson
  <2>3. \A major, minor :
           /\ Process(patch, major, minor).isSameSchema <=> patch = {}
           /\ Process(patch, major, minor).isMinorUpgradable <=>
                patch # {} /\ ~(MajorChanges(patch) /\ ~major)
    BY DEF Process
  <2>4. IsSortedAs(a, Ranks(a), s) /\ IsSortedAs(b, Ranks(b), t)
    BY <2>1, SortedTree
  <2>5. NoTwins(b) /\ Includes(b, a)
    BY <1>1
  <2> HIDE DEF a, b, s, t, patch
  <2>6. PICK move : IsInclusion(move, a, b)
    BY <2>5 DEF Includes, IsInclusion
  <2>7. IsKeyed(a) /\ IsKeyed(b) /\ IsTree(a) /\ IsTree(b) /\ IsJsonTree(s) /\ IsJsonTree(t)
          /\ IsTree(s) /\ IsTree(t)
    BY <2>1, <2>4, SchemaKeyed DEF IsSortedAs, IsKeyed, IsJsonTree
  <2>8. NoTwins(a)
    BY <2>5, <2>6, <2>7, TwinsKept DEF IsInclusion
  <2> DEFINE S == Items(s, <<>>)
             T == Items(t, <<>>)
  <2>9. \E B \in Alignments(S, T) : Cardinality(B) = Cardinality(DOMAIN S)
    BY <2>4, <2>6, <2>7, <2>8, RootAligned
  <2>10. IsList(S) /\ IsList(T)
    <3>1. <<>> \in Seq(Steps)
      OBVIOUS
    <3> QED BY <2>7, <3>1, ItemsAreList
  <2>11. ListKinds(S, T) \subseteq {"add"} /\ Met(S, T) = {}
    <3> HIDE DEF S, T
    <3> QED BY <2>9, <2>10, AllAligned
  <2>12. patch \subseteq {"add"}
    BY <2>2, <2>7, <2>11, NothingCompared
  <2>13. ~MajorChanges(patch)
    BY <2>12 DEF MajorChanges
  <2>14. PICK major, minor \in BOOLEAN : response.result = Process(patch, major, minor)
    BY <2>1
  <2>15. Process(patch, major, minor).isMinorUpgradable
           \/ Process(patch, major, minor).isSameSchema
    BY <2>3, <2>13
  <2> QED BY <2>14, <2>15
<1>2. ContentInv => AdditionIsMinor
  BY <1>1 DEF AdditionIsMinor
<1> QED BY <1>2, ContentInvariant, PTL
==============================================================================
