------------------------------ MODULE SchemaDiff ------------------------------
(***************************************************************************)
(* UtilsService.sortFields and DiffProcessingService: a stored and a       *)
(* proposed schema are sorted, written as JSON, compared by the diff       *)
(* library, and the operations of the patch are judged.                    *)
(*                                                                         *)
(* A patch is the set of the kinds of its operations; their paths and      *)
(* values are only reported.  The library's own algorithm is external.     *)
(***************************************************************************)
EXTENDS SchemaFormats, FiniteSets

CONSTANT Alphabet  \* the names, in the order String.compareTo puts them

ASSUME AlphabetAssumption ==
    Alphabet \in Seq(Range(Alphabet)) /\ IsInjective(Alphabet)

RankIn(s, x) == CHOOSE i \in DOMAIN s : s[i] = x

-----------------------------------------------------------------------------
(* sortFields: fields.sortBy(f => (f.name, f.`type`)), which is stable, with *)
(* the fields of a record sorted first.                                      *)
SortKey(f) == <<RankIn(Alphabet, f.name), RankIn(FieldTypes, f.type)>>

Last(p) == p[Len(p)]

Children(tree, p) ==
    {q \in DOMAIN tree : Len(q) = Len(p) + 1 /\ Upto(q, Len(p)) = p}

Siblings(tree, p) == Children(tree, Upto(p, Len(p) - 1))

MutantPrecedes(tree, p, q) ==
    LET a == SortKey(tree[p]) b == SortKey(tree[q])
    IN  a[1] < b[1] \/ (a[1] = b[1] /\ Last(p) < Last(q))
Precedes(tree, p, q) ==
    LET a == SortKey(tree[p]) b == SortKey(tree[q])
    IN  \/ a[1] < b[1]
        \/ a[1] = b[1] /\ a[2] < b[2]
        \/ a = b /\ Last(p) < Last(q)

Rank(tree, p) == 1 + Cardinality({q \in Siblings(tree, p) : Precedes(tree, q, p)})

(* Where p comes to lie when every node becomes the move[its place]-th of *)
(* its siblings.                                                          *)
Moved(move, p) == [k \in 1 .. Len(p) |-> move[Upto(p, k)]]

Ranks(tree) == [p \in DOMAIN tree |-> Rank(tree, p)]

SortFields(tree) ==
    LET rank == Ranks(tree)
        Origin(q) == CHOOSE p \in DOMAIN tree : Moved(rank, p) = q
    IN  [q \in {Moved(rank, p) : p \in DOMAIN tree} |-> tree[Origin(q)]]

-----------------------------------------------------------------------------
(* JsonDiff.diff of gnieh diffson.  Arrays are laid along a longest common   *)
(* subsequence; between its elements values are compared pairwise as far as  *)
(* both sides have some, what is left over is added or removed.  Objects are *)
(* compared key by key.                                                      *)
CommonPairs(s, t) == {p \in (DOMAIN s) \X (DOMAIN t) : s[p[1]] = t[p[2]]}

Alignments(s, t) ==
    {A \in SUBSET CommonPairs(s, t) : \A p, q \in A : p[1] < q[1] <=> p[2] < q[2]}

LongestAlignment(s, t) ==
    CHOOSE A \in Alignments(s, t) :
       \A B \in Alignments(s, t) : Cardinality(B) <= Cardinality(A)

(* Two elements meet that lie equally far behind the same common element, or *)
(* behind the start, with no other common element on the way.                *)
Met(s, t) ==
    LET aligned == LongestAlignment(s, t) IN
    {m \in (DOMAIN s) \X (DOMAIN t) :
       \E p \in aligned \cup {<<0, 0>>} :
          /\ m[1] > p[1] /\ m[1] - p[1] = m[2] - p[2]
          /\ \A r \in aligned : /\ ~(p[1] < r[1] /\ r[1] <= m[1])
                                /\ ~(p[2] < r[2] /\ r[2] <= m[2])}

ListKinds(s, t) ==
    LET paired == LongestAlignment(s, t) \cup Met(s, t) IN
    (IF DOMAIN s \subseteq {m[1] : m \in paired} THEN {} ELSE {"remove"})
    \cup (IF DOMAIN t \subseteq {m[2] : m \in paired} THEN {} ELSE {"add"})

MemberKinds(key, a, b) ==
    IF a = b THEN {}
    ELSE IF key = "allowedValues"
    THEN ListKinds(a, b) \cup (IF Met(a, b) = {} THEN {} ELSE {"replace"})
    ELSE {"replace"}

NodeKinds(a, b) ==
    (IF DOMAIN a \subseteq DOMAIN b THEN {} ELSE {"remove"})
    \cup (IF DOMAIN b \subseteq DOMAIN a THEN {} ELSE {"add"})
    \cup UNION {MemberKinds(key, a[key], b[key]) : key \in (DOMAIN a) \cap (DOMAIN b)}

(* The fields of the record at p, each with all that is inside it. *)
Below(tree, p) ==
    [q \in {SubSeq(r, Len(p) + 1, Len(r)) :
              r \in {r \in DOMAIN tree : Len(r) >= Len(p) /\ Upto(r, Len(p)) = p}}
       |-> tree[p \o q]]

Items(tree, p) ==
    [i \in {Last(q) : q \in Children(tree, p)} |-> Below(tree, Append(p, i))]

(* The places of two trees whose nodes are compared: they meet, as do the *)
(* records they are in.                                                   *)
ComparedPlaces(s, t) ==
    {m \in (DOMAIN s) \X (DOMAIN t) :
       /\ Len(m[1]) = Len(m[2])
       /\ \A k \in 1 .. Len(m[1]) :
             <<m[1][k], m[2][k]>> \in Met(Items(s, Upto(m[1], k - 1)),
                                          Items(t, Upto(m[2], k - 1)))}

Diff(s, t) ==
    LET compared == ComparedPlaces(s, t)
        records == {m \in compared : "fields" \in (DOMAIN s[m[1]]) \cap (DOMAIN t[m[2]])}
    IN  IF s = t THEN {}
        ELSE (UNION {NodeKinds(s[m[1]], t[m[2]]) : m \in compared})
             \cup (UNION {ListKinds(Items(s, m[1]), Items(t, m[2])) :
                            m \in records \cup {<< <<>>, <<>> >>}})

-----------------------------------------------------------------------------
(* DiffProcessingService.diff and process.  serialize throws for a field     *)
(* that cannot be written.                                                   *)
MutantPatch(stored, proposed) ==
    Diff(FieldsWritten(SortFields(stored)), FieldsWritten(proposed))
Patch(stored, proposed) ==
    Diff(FieldsWritten(SortFields(stored)), FieldsWritten(SortFields(proposed)))

MutantMajorChanges(patch) == "replace" \in patch
MajorChanges(patch) == patch \cap {"remove", "replace"} # {}

Process(patch, isMajorUpgrade, isMinorUpgrade) ==
    [isSameSchema |-> patch = {},
     isMajorUpgradable |-> patch # {},
     isMinorUpgradable |-> patch # {} /\ ~(MajorChanges(patch) /\ ~isMajorUpgrade),
     isMajorUpgrade |-> isMajorUpgrade,
     isMinorUpgrade |-> isMinorUpgrade]
==============================================================================
