------------------------ MODULE SchemaVisibilityProofs ------------------------
(***************************************************************************)
(* Theorems about what requests see of the collection and what a unique    *)
(* index keeps out of it, for every instance of SchemaService.             *)
(***************************************************************************)
EXTENDS SchemaServiceProofs

(* A document that was inserted and is not there any more was taken out by a *)
(* delete of its version, which had been issued.                             *)
LEMMA MissingWasDeleted ==
    ASSUME WriteInv, Ledger, NEW d \in Inserted, d \notin schemas
    PROVE DeleteIssued(d)
<1>1. d \in Removed
  BY DEF Ledger
<1>2. PICK q \in By("delete") : d \in effect[q]
  BY <1>1 DEF Removed
<1>3. q \in Requests /\ message[q].op = "delete"
  BY DEF By
<1>4. write[q] # "none"
  BY <1>2, <1>3 DEF WriteInv, OneWrite
<1>5. OfVersionAsked(q, d)
  BY <1>2, <1>3 DEF WriteInv, OwnEffect
<1> QED BY <1>4, <1>5 DEF DeleteIssued, OfVersionAsked

(* A write once issued stays issued or executed. *)
LEMMA WritesStay ==
    ASSUME TypeOK, [Next]_vars, NEW r \in Requests, write[r] # "none"
    PROVE write'[r] # "none"
<1> USE DEF TypeOK, requestVars, storeVars
<1>1. ASSUME NEW q \in Requests, RequestStep(q) PROVE write'[r] # "none"
  BY <1>1 DEF RequestStep, Send, Take, RejectInvalid, FindExact, ReadLastMajor,
     ReadLastMinor, Issue, AnswerInsert, GetByName, GetVersion, FindDoomed,
     AnswerDelete, CallFails
<1>2. ASSUME NEW q \in Requests, ApplyInsert(q) \/ ApplyDelete(q)
      PROVE write'[r] # "none"
  BY <1>2 DEF ApplyInsert, ApplyDelete
<1>3. CASE Crash \/ UNCHANGED vars
  BY <1>3 DEF Crash, vars
<1> QED BY <1>1, <1>2, <1>3, NextCases DEF RequestStep

LEMMA MessagesStay ==
    ASSUME [Next]_vars
    PROVE message' = message
BY StoreCases DEF ApplyInsert, ApplyDelete, requestVars

LEMMA DeleteIssuedStays ==
    ASSUME TypeOK, [Next]_vars, NEW d, DeleteIssued(d)
    PROVE DeleteIssued(d)'
BY WritesStay, MessagesStay DEF DeleteIssued, By

-----------------------------------------------------------------------------
(***************************************************************************)
(* What was acknowledged before a request was sent had been inserted, and  *)
(* each of the request's reads either finds it or comes after a delete of  *)
(* its version was issued.  A create remembers by its phase and its write  *)
(* that its existence check found nothing.                                 *)
(***************************************************************************)
PastExactCheck(r) == \/ Committed(r)
                     \/ message[r].op = "create" /\ write[r] = "done"

MissesSome(r, d) ==
    \/ PastExactCheck(r) /\ OfVersionAsked(r, d)
    \/ /\ answer[r] = "notFound"
       /\ message[r].op = "get"
       /\ d.name = message[r].name
    \/ /\ answer[r] = "notFound"
       /\ message[r].op = "getVersion"
       /\ OfVersionAsked(r, d)

SeenInv ==
    \A r \in Requests : \A d \in known[r] :
       /\ d \in Inserted
       /\ MissesSome(r, d) => DeleteIssued(d)

LEMMA AcknowledgedWasInserted ==
    ASSUME HonestAnswers
    PROVE Acknowledged \subseteq Inserted
BY DEF Acknowledged, HonestAnswers, Inserted, By

LEMMA InsertedGrows ==
    ASSUME TypeOK, WriteInv, [Next]_vars
    PROVE Inserted \subseteq Inserted'
<1>1. CASE UNCHANGED <<schemas, effect, message>>
  BY <1>1 DEF Inserted, By
<1>2. ASSUME NEW r \in Requests, ApplyInsert(r) \/ ApplyDelete(r)
      PROVE Inserted \subseteq Inserted'
  BY <1>2, InsertEffect, DeleteEffect
<1> QED BY <1>1, <1>2, StoreCases

LEMMA KnownCases ==
    ASSUME TypeOK, [Next]_vars, NEW r \in Requests, NEW d \in known'[r]
    PROVE d \in known[r] \/ (Send(r) /\ d \in Acknowledged)
<1> USE DEF TypeOK, requestVars, storeVars
<1>1. ASSUME NEW q \in Requests, Send(q)
      PROVE d \in known[r] \/ (Send(r) /\ d \in Acknowledged)
  BY <1>1 DEF Send
<1>2. ASSUME NEW q \in Requests, RequestStep(q), ~Send(q) PROVE d \in known[r]
  BY <1>2 DEF RequestStep, Take, RejectInvalid, FindExact, ReadLastMajor,
     ReadLastMinor, AnswerInsert, GetByName, GetVersion, FindDoomed,
     AnswerDelete, CallFails
<1>3. ASSUME NEW q \in Requests, ApplyInsert(q) \/ ApplyDelete(q)
      PROVE d \in known[r]
  BY <1>3 DEF ApplyInsert, ApplyDelete
<1>4. CASE Crash \/ UNCHANGED vars
  BY <1>4 DEF Crash, vars
<1> QED BY <1>1, <1>2, <1>3, <1>4, NextCases DEF RequestStep

(* A request begins to miss a version only by a read that does not find it. *)
LEMMA PastExactCheckNext ==
    ASSUME TypeOK, WriteInv, [Next]_vars, NEW r \in Requests, PastExactCheck(r)'
    PROVE PastExactCheck(r) \/ (FindExact(r) /\ ~Exists(r))
<1>1. CASE Committed(r)'
  BY <1>1, CommittedNext DEF PastExactCheck
<1>2. CASE message'[r].op = "create" /\ write'[r] = "done"
  <2> USE <1>2 DEF TypeOK, requestVars, storeVars
  <2>1. message[r].op = "create"
    BY MessagesStay
  <2>2. write[r] # "none"
    <3>1. ASSUME NEW q \in Requests, RequestStep(q) PROVE write[r] # "none"
      BY <3>1 DEF RequestStep, Send, Take, RejectInvalid, FindExact,
         ReadLastMajor, ReadLastMinor, Issue, AnswerInsert, GetByName,
         GetVersion, FindDoomed, AnswerDelete, CallFails
    <3>2. ASSUME NEW q \in Requests, ApplyInsert(q) \/ ApplyDelete(q)
          PROVE write[r] # "none"
      BY <3>2 DEF ApplyInsert, ApplyDelete
    <3>3. CASE Crash \/ UNCHANGED vars
      BY <3>3 DEF Crash, vars
    <3> QED BY <3>1, <3>2, <3>3, NextCases DEF RequestStep
  <2> QED BY <2>1, <2>2 DEF PastExactCheck, Committed
<1> QED BY <1>1, <1>2 DEF PastExactCheck

LEMMA NotFoundNext ==
    ASSUME TypeOK, WriteInv, [Next]_vars, NEW r \in Requests,
           answer'[r] = "notFound", message[r].op \in {"get", "getVersion"}
    PROVE \/ answer[r] = "notFound"
          \/ message[r].op = "get" /\ Named(schemas, message[r].name) = {}
          \/ message[r].op = "getVersion" /\ MatchingRequest(r) = {}
<1> USE DEF TypeOK, requestVars, storeVars
<1>1. ASSUME NEW q \in Requests, GetByName(q)
      PROVE answer[r] = "notFound" \/ (/\ message[r].op = "get"
                                       /\ Named(schemas, message[r].name) = {})
  BY <1>1 DEF GetByName, Finish, WriteInv, PhaseFitsOperation
<1>2. ASSUME NEW q \in Requests, GetVersion(q)
      PROVE answer[r] = "notFound" \/ (/\ message[r].op = "getVersion"
                                       /\ MatchingRequest(r) = {})
  BY <1>2 DEF GetVersion, FindFirst, Finish, WriteInv, PhaseFitsOperation
<1>3. ASSUME NEW q \in Requests, FindDoomed(q) PROVE answer[r] = "notFound"
  BY <1>3 DEF FindDoomed, Finish, Goto, WriteInv, PhaseFitsOperation
<1>4. ASSUME NEW q \in Requests,
             \/ Send(q) \/ Take(q) \/ RejectInvalid(q) \/ FindExact(q)
             \/ ReadLastMajor(q) \/ ReadLastMinor(q) \/ AnswerInsert(q)
             \/ AnswerDelete(q) \/ CallFails(q)
      PROVE answer[r] = "notFound"
  BY <1>4 DEF Send, Take, RejectInvalid, FindExact, ReadLastMajor, ReadLastMinor,
     AnswerInsert, AnswerDelete, CallFails, Finish, Goto
<1>5. ASSUME NEW q \in Requests, ApplyInsert(q) \/ ApplyDelete(q)
      PROVE answer[r] = "notFound"
  BY <1>5 DEF ApplyInsert, ApplyDelete
<1>6. CASE Crash \/ UNCHANGED vars
  BY <1>6 DEF Crash, vars
<1> QED BY <1>1, <1>2, <1>3, <1>4, <1>5, <1>6, NextCases

LEMMA SeenNext ==
    TypeOK /\ WriteInv /\ HonestAnswers /\ Ledger /\ SeenInv /\ [Next]_vars
       => SeenInv'
<1> SUFFICES ASSUME TypeOK, WriteInv, HonestAnswers, Ledger, SeenInv, [Next]_vars,
                    NEW r \in Requests, NEW d \in known'[r]
             PROVE d \in Inserted' /\ (MissesSome(r, d)' => DeleteIssued(d)')
  BY DEF SeenInv
<1>0. message' = message
  BY MessagesStay
<1>1. CASE Send(r) /\ d \in Acknowledged
  <2>1. d \in Inserted'
    BY <1>1, AcknowledgedWasInserted, InsertedGrows
  <2>2. phase'[r] = "queued" /\ write'[r] = "none" /\ answer'[r] = "none"
    BY <1>1 DEF Send, Goto, storeVars, TypeOK, WriteInv, OneWrite, BeforeWrite
  <2> QED BY <2>1, <2>2 DEF MissesSome, PastExactCheck, Committed
<1>2. CASE d \in known[r]
  <2>1. d \in Inserted /\ (MissesSome(r, d) => DeleteIssued(d))
    BY <1>2 DEF SeenInv
  <2>2. d \in Inserted'
    BY <2>1, InsertedGrows
  <2>3. ASSUME d \notin schemas PROVE DeleteIssued(d)'
    BY <2>1, <2>3, MissingWasDeleted, DeleteIssuedStays
  <2>4. ASSUME MissesSome(r, d) PROVE DeleteIssued(d)'
    BY <2>1, <2>4, DeleteIssuedStays
  <2>5. OfVersionAsked(r, d)' <=> OfVersionAsked(r, d)
    BY <1>0 DEF OfVersionAsked
  <2>6. MatchingRequest(r) = {} /\ OfVersionAsked(r, d) => d \notin schemas
    BY DEF MatchingRequest, Matching, OfMajor, Named, OfVersionAsked
  <2>7. CASE PastExactCheck(r)' /\ OfVersionAsked(r, d)'
    BY <2>2, <2>3, <2>4, <2>5, <2>6, <2>7, PastExactCheckNext DEF MissesSome, Exists
  <2>8. CASE /\ answer'[r] = "notFound"
             /\ message'[r].op = "get"
             /\ d.name = message'[r].name
    <3>1. Named(schemas, message[r].name) = {} => d \notin schemas
      BY <1>0, <2>8 DEF Named
    <3> QED BY <1>0, <2>2, <2>3, <2>4, <2>8, <3>1, NotFoundNext DEF MissesSome
  <2>9. CASE /\ answer'[r] = "notFound"
             /\ message'[r].op = "getVersion"
             /\ OfVersionAsked(r, d)'
    BY <1>0, <2>2, <2>3, <2>4, <2>5, <2>6, <2>9,
       NotFoundNext DEF MissesSome
  <2> QED BY <2>2, <2>7, <2>8, <2>9 DEF MissesSome
<1> QED BY <1>1, <1>2, KnownCases

(* Read your writes, across clients: a schema answered 201 before a request  *)
(* was sent is missed by that request only after a DELETE of its version has *)
(* been issued, whichever actors serve the two, and whatever fails, times    *)
(* out or crashes in between.                                                *)
THEOREM AcknowledgedIsAlwaysSeen == Spec => []AcknowledgedIsSeen
<1>1. Init => SeenInv
  BY DEF Init, SeenInv
<1>2. TypeOK /\ WriteInv /\ HonestAnswers /\ Ledger /\ SeenInv /\ [Next]_vars
         => SeenInv'
  BY SeenNext
<1>3. WriteInv /\ HonestAnswers /\ SeenInv => AcknowledgedIsSeen
  <2> SUFFICES ASSUME WriteInv, HonestAnswers, SeenInv, NEW r \in Requests,
                      NEW d \in known[r], Misses(r, d)
               PROVE DeleteIssued(d)
    BY DEF AcknowledgedIsSeen
  <2>1. CASE answer[r] = "created"
    <3>1. message[r].op = "create" /\ write[r] = "done"
      BY <2>1 DEF HonestAnswers, WriteInv, OneWrite
    <3> QED BY <2>1, <3>1 DEF SeenInv, Misses, MissesSome, PastExactCheck,
                              OfVersionAsked
  <2>2. CASE answer[r] = "notFound"
    BY <2>2 DEF SeenInv, Misses, MissesSome, OfVersionAsked
  <2> QED BY <2>1, <2>2 DEF Misses
<1> QED BY <1>1, <1>2, <1>3, TypeCorrect, WriteCorrect, AnswersAreHonest,
           LedgerBalances, PTL DEF Spec

-----------------------------------------------------------------------------
(***************************************************************************)
(* What a unique index forbids depends on the fields the documents have: a *)
(* field of the index that no document has tells no two documents apart.   *)
(***************************************************************************)
KeysUnique(index) == \A d, e \in schemas : SameKey(index, d, e) => d = e

LEMMA SameKeySymmetric ==
    ASSUME NEW index, NEW d, NEW e, SameKey(index, d, e)
    PROVE SameKey(index, e, d)
BY DEF SameKey

LEMMA IndexKeepsKeysUnique ==
    ASSUME NEW index \in UniqueIndexes,
           \A d, e \in Seed : SameKey(index, d, e) => d = e
    PROVE Spec => []KeysUnique(index)
<1>1. Init => KeysUnique(index)
  BY DEF Init, KeysUnique
<1>2. TypeOK /\ WriteInv /\ KeysUnique(index) /\ [Next]_vars => KeysUnique(index)'
  <2> SUFFICES ASSUME TypeOK, WriteInv, KeysUnique(index), [Next]_vars
               PROVE KeysUnique(index)'
    OBVIOUS
  <2>1. CASE schemas' \subseteq schemas
    BY <2>1 DEF KeysUnique
  <2>2. ASSUME NEW r \in Requests, ApplyInsert(r) PROVE KeysUnique(index)'
    <3>1. CASE UNCHANGED schemas
      BY <3>1 DEF KeysUnique
    <3>2. CASE /\ ~Refused(UniqueIndexes, schemas, DocumentOf(r))
               /\ schemas' = schemas \cup {DocumentOf(r)}
      <4>1. \A e \in schemas : ~SameKey(index, DocumentOf(r), e)
        BY <3>2 DEF Refused
      <4> QED BY <3>2, <4>1, SameKeySymmetric DEF KeysUnique
    <3> QED BY <2>2, <3>1, <3>2 DEF ApplyInsert
  <2>3. ASSUME NEW r \in Requests, ApplyDelete(r) PROVE schemas' \subseteq schemas
    BY <2>3, DeleteEffect
  <2> QED BY <2>1, <2>2, <2>3, StoreCases
<1> QED BY <1>1, <1>2, TypeCorrect, WriteCorrect, PTL DEF Spec

(* The fields SchemaCodec gives a document, as far as queries go. *)
DocumentFields == {"id", "name", "majorVersion", "minorVersion"}

LEMMA StoredHasFields ==
    ASSUME \A d \in Seed : DOMAIN d = DocumentFields,
           WriteInv, Ledger, NEW d \in schemas
    PROVE DOMAIN d = DocumentFields
<1>1. CASE d \in Seed
  BY <1>1
<1>2. CASE d \in Inserted
  <2>1. PICK r \in Requests : d = DocumentOf(r)
    BY <1>2 DEF Inserted, By, WriteInv, OwnEffect
  <2> QED BY <2>1 DEF DocumentOf, DocumentFields
<1> QED BY <1>1, <1>2 DEF Ledger

(* One document per name: no room for "all its versions" that the API        *)
(* promises a name (SchemaHttpRoute.scala:87).                               *)
OneVersionPerName ==
    \A d, e \in schemas : d.name = e.name => d = e

(* The deployment's index (MongoJob.yaml:17), on name and two fields no      *)
(* document has, keeps the collection to one document per name, whatever its *)
(* version: so does any index whose only field in a document is the name.    *)
(* Whatever the checks of createSchema let through as a new version, such a  *)
(* database refuses. A correction of the index's fields refutes this.        *)
THEOREM IndexAllowsOneVersionPerName ==
    ASSUME NEW index \in UniqueIndexes,
           index \cap DocumentFields = {"name"},
           \A d \in Seed : DOMAIN d = DocumentFields,
           \A d, e \in Seed : d.name = e.name => d = e
    PROVE Spec => []OneVersionPerName
<1>1. ASSUME NEW d, NEW e, DOMAIN d = DocumentFields, DOMAIN e = DocumentFields
      PROVE SameKey(index, d, e) <=> d.name = e.name
  BY <1>1 DEF SameKey, DocumentFields
<1>2. \A d, e \in Seed : SameKey(index, d, e) => d = e
  BY <1>1
<1>3. Spec => []KeysUnique(index)
  BY <1>2, IndexKeepsKeysUnique
<1>4. WriteInv /\ Ledger /\ KeysUnique(index) => OneVersionPerName
  BY <1>1, StoredHasFields DEF KeysUnique, OneVersionPerName
<1> QED BY <1>3, <1>4, WriteCorrect, LedgerBalances, PTL

(* An index on the three fields the documents do have would keep every       *)
(* version unique, for any number of actors and under every fault: what the  *)
(* existence check alone cannot do.                                          *)
THEOREM IndexOnVersionKeepsItUnique ==
    ASSUME NEW index \in UniqueIndexes,
           index \cap DocumentFields = {"name", "majorVersion", "minorVersion"},
           \A d \in Seed : DOMAIN d = DocumentFields,
           \A d, e \in Seed :
              <<d.name, d.majorVersion, d.minorVersion>>
                 = <<e.name, e.majorVersion, e.minorVersion>> => d = e
    PROVE Spec => []NoDuplicates
<1>1. ASSUME NEW d, NEW e, DOMAIN d = DocumentFields, DOMAIN e = DocumentFields
      PROVE SameKey(index, d, e) <=>
               <<d.name, d.majorVersion, d.minorVersion>>
                  = <<e.name, e.majorVersion, e.minorVersion>>
  BY <1>1 DEF SameKey, DocumentFields
<1>2. \A d, e \in Seed : SameKey(index, d, e) => d = e
  BY <1>1
<1>3. Spec => []KeysUnique(index)
  BY <1>2, IndexKeepsKeysUnique
<1>4. WriteInv /\ Ledger /\ KeysUnique(index) => NoDuplicates
  BY <1>1, StoredHasFields DEF KeysUnique, NoDuplicates
<1> QED BY <1>3, <1>4, WriteCorrect, LedgerBalances, PTL
==============================================================================
