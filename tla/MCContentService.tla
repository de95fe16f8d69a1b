--------------------------- MODULE MCContentService ---------------------------
(* ContentService on small sets of bodies. *)
EXTENDS ContentService, TLC

Names == <<"a", "b", "c", "d">>

(* Binary numbers of three digits, from multiples of `step' up to the eight- *)
(* fold of its 2^doublings-fold, which is where infinity is.  The floats are *)
(* dense below 240 and the doubles below 24.                                 *)
Binary(step, doublings) ==
    {sign * m * step * 2^e : sign \in {-1, 1}, m \in 0 .. 8, e \in 0 .. doublings}

SmallFloats == Binary(30, 3)
SmallDoubles == Binary(3, 6)

(* The decimal of the fewest places that reads as the double x. *)
Shortest ==
    [x \in SmallDoubles |->
       LET Decimals(unit) ==
             {n \in {unit * (x \div unit + k) : k \in -1 .. 2} : Nearest(SmallDoubles, n) = x}
           unit == CHOOSE u \in {One, FloatUnit, DoubleUnit, 1} :
                     /\ Decimals(u) # {}
                     /\ \A w \in {One, FloatUnit, DoubleUnit} : w > u => Decimals(w) = {}
       IN  CHOOSE n \in Decimals(unit) : TRUE]

SomeNumerals == {100, 410, 1150}

(* A field is a tree with the field itself at the place <<>>. *)
Node(node) == <<>> :> node
Listed(fields) ==
    [p \in UNION {{<<i>> \o q : q \in DOMAIN fields[i]} : i \in DOMAIN fields} |->
       fields[p[1]][Tail(p)]]
With(f, members) == Node(f[<<>>] @@ members) @@ f

Field(name, type) == Node([name |-> name, type |-> type])
Identity(f, flag) == With(f, [isIdentity |-> flag])
Array(name, items) == With(Field(name, "array"), [items |-> items])
Record(name, fields) == With(Field(name, "record"), [fields |-> List]) @@ Listed(fields)
WrongRecord(name) == With(Field(name, "record"), [fields |-> NotValid])
Numbers(s) == [i \in DOMAIN s |-> [number |-> s[i]]]
Strings(s) == [i \in DOMAIN s |-> [string |-> s[i]]]
Enum(name, type, values) ==
    With(Field(name, "enum"), [valueType |-> type, allowedValues |-> values])

AnInt == Field("a", "int")
ABool == Identity(Field("a", "boolean"), TRUE)
BString == Identity(Field("b", "string"), FALSE)

(* Fields the reader accepts.  100 lies between two decimals of a float's     *)
(* places, 150 nearer to one, 6 between two of a double's; 410 and 1150 lie   *)
(* where floats, and 1150 where doubles are sparse, and 1200 is the float     *)
(* next to 1150; 3600 does not fit an Int.  The first two fields share a name *)
(* and a type.                                                                *)
Plain == {AnInt, Identity(AnInt, TRUE), ABool, BString}
Composite ==
    {Array("b", "int"), Array("b", "null"),
     Record("c", <<AnInt>>), Record("c", <<BString, AnInt>>),
     Record("c", <<AnInt, BString>>), Record("d", <<Record("c", <<BString, ABool>>)>>),
     Record("d", <<Record("c", <<ABool, BString>>)>>)}
Enums ==
    {Enum("a", "float", Numbers(<<100, 150>>)), Enum("a", "float", Numbers(<<100>>)),
     Enum("a", "float", Strings(<<1150>>)), Enum("a", "float", Numbers(<<410, 1200>>)),
     Enum("b", "double", Numbers(<<6, 1150>>)), Enum("b", "double", Strings(<<410>>)),
     Enum("b", "int", Numbers(<<400, 3600>>)),
     Enum("b", "long", Numbers(<<3600, 600>>)), Enum("c", "string", Strings(<<2, 1>>)),
     Enum("c", "string", Strings(<<2>>))}
Good == Plain \cup Composite \cup Enums

(* Fields it refuses. *)
Bad ==
    {Field("", "int"), Field("a", "null"), Field("a", "number"), Node([name |-> "a"]),
     Identity(AnInt, NotValid), Field("b", "array"), Record("c", <<>>),
     WrongRecord("c"), Record("c", <<Field("a", "null")>>),
     Enum("a", "boolean", Numbers(<<400>>)), Enum("a", "int", <<>>),
     Enum("a", "int", Strings(<<100>>)), Enum("a", "string", Numbers(<<100>>)),
     Enum("a", "float", Strings(<<1>>)), Enum("a", "double", Strings(<<100, 1>>))}

(* The cases of CompatibilityHttpRouteSpec.scala:239, 622, 681, 760, 929 and  *)
(* 1072 and of UtilsServiceSpec.scala:20-46: what the tests expect of the     *)
(* sort and of the diff library holds of the operators here.                  *)
AnArray == Array("b", "int")
Nested(fields) == Record("d", <<Record("d", <<BString, Record("c", fields)>>)>>)

ASSUME DiffAgreesWithTests ==
    LET Kinds(stored, proposed) == Patch(FieldsRead(Listed(stored)), FieldsRead(Listed(proposed)))
    IN  /\ Kinds(<<AnInt>>, <<AnInt, AnInt>>) = {"add"}
        /\ Kinds(<<AnArray>>, <<BString>>) = {"remove", "replace"}
        /\ Kinds(<<AnArray>>, <<Record("b", <<AnInt>>)>>) = {"add", "remove", "replace"}
        /\ Kinds(<<AnArray>>, <<Array("b", "string")>>) = {"replace"}
        /\ Kinds(<<Record("c", <<BString>>)>>, <<Record("c", <<BString, AnInt>>)>>) = {"add"}
        /\ Kinds(<<Nested(<<AnArray>>)>>, <<Nested(<<AnArray, Field("c", "int")>>)>>) = {"add"}

ASSUME SortAgreesWithTests ==
    LET mixed == <<BString, Record("c", <<BString, AnInt>>), AnInt, Field("d", "string")>>
        sorted == <<AnInt, BString, Record("c", <<AnInt, BString>>), Field("d", "string")>>
    IN  SortFields(FieldsRead(Listed(mixed))) = FieldsRead(Listed(sorted))

Body(name, major, minor, fields) ==
    [name |-> name, applicationId |-> "app", majorVersion |-> major,
     minorVersion |-> minor, fields |-> List, tree |-> Listed(fields)]

BodyA(fields) == Body("a", One, One, fields)

Few == Plain \cup
    {Array("b", "int"),
     Record("c", <<BString, AnInt>>), Record("c", <<AnInt>>),
     Record("d", <<Record("c", <<BString, ABool>>)>>),
     Enum("c", "string", Strings(<<2, 1>>)), Enum("a", "float", Numbers(<<100>>))}

FieldLists ==
    {<<f>> : f \in Good} \cup {<<f, g>> : f \in Few, g \in Few}

Triples == {<<f, g, h>> : f \in {AnInt, BString}, g \in {ABool, BString, AnInt},
                          h \in {Record("c", <<AnInt, BString>>), AnInt}}

ContentSubmissions ==
    {BodyA(fields) : fields \in FieldLists \cup {<<f>> : f \in Bad} \cup {<<>>}}
    \cup {Body("a", major, minor, <<AnInt>>) :
             major \in {-One, 0, One, One + 200, 17 * One, NotValid}, minor \in {One, 2 * One}}
    \cup {Body("", One, One, <<AnInt>>), [BodyA(<<>>) EXCEPT !.fields = NotValid]}
    \cup {Body("b", One, One, <<Enum("b", "float", Numbers(<<100>>))>>)}

ContentProposals ==
    {Body("a", v[1] * One, v[2] * One, fields) :
        v \in {<<1, 1>>, <<1, 2>>, <<2, 1>>}, fields \in FieldLists \cup Triples}
    \cup {Body("b", One, One, <<AnInt>>), BodyA(<<Field("a", "null")>>)}

(* A float too large to be one. *)
LargeSubmissions ==
    {BodyA(<<Enum("a", "float", Numbers(<<n>>))>>) : n \in {100, 4000}}
    \cup {Body("b", One, One, <<f>>) : f \in Plain}
LargeProposals == {BodyA(<<AnInt>>)}
==============================================================================
