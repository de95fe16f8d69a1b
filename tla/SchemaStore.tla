----------------------------- MODULE SchemaStore -----------------------------
(***************************************************************************)
(* What the registry asks of its MongoDB collections: the queries of       *)
(* SchemaRepository as operators on a set of documents, and the database's *)
(* own part of a write, a unique index.                                    *)
(*                                                                         *)
(* A stored schema is a record with the fields SchemaCodec writes: the     *)
(* ObjectId `id', the name and the two version numbers.  Application and   *)
(* fields never influence a query, so the id stands for them.              *)
(***************************************************************************)
EXTENDS Integers

Named(docs, name) == {d \in docs : d.name = name}

OfMajor(docs, name, major) == {d \in Named(docs, name) : d.majorVersion = major}

Matching(docs, name, major, minor) ==
    {d \in OfMajor(docs, name, major) : d.minorVersion = minor}

(* sort(descending).limit(1).first(): the highest one, 0 when none matches. *)
Highest(numbers) ==
    LET tops == {n \in numbers : \A k \in numbers : k <= n}
    IN  IF tops = {} THEN 0 ELSE CHOOSE n \in tops : TRUE

LastMajorVersion(docs, name) ==
    Highest({d.majorVersion : d \in Named(docs, name)})

LastMinorVersion(docs, name, major) ==
    Highest({d.minorVersion : d \in OfMajor(docs, name, major)})

(***************************************************************************)
(* A unique index compares the indexed fields of two documents; a field a  *)
(* document does not have counts as null, and null equals null.            *)
(***************************************************************************)
MutantSameKey(index, d, e) ==
    \A f \in index : f \in DOMAIN d /\ f \in DOMAIN e /\ d[f] = e[f]
SameKey(index, d, e) ==
    \A f \in index : /\ f \in DOMAIN d <=> f \in DOMAIN e
                     /\ f \in DOMAIN d => d[f] = e[f]

Refused(indexes, docs, d) ==
    \E index \in indexes, e \in docs : SameKey(index, d, e)
==============================================================================
