---------------------------- MODULE SchemaFormats ----------------------------
(***************************************************************************)
(* A schema as JSON, as the Field objects the service works on, and as the *)
(* BSON document it stores, with the conversions between the three.        *)
(*                                                                         *)
(* The fields of a schema, some of them inside records, are a tree: a      *)
(* function from places to nodes.  The place <<2, 1>> is that of the first *)
(* field of the second field, which is a record; its node says no more     *)
(* than that it has a List of fields.  A node is                           *)
(*   JSON  a record with the keys that are present; NotValid stands for a  *)
(*         value of another JSON type than the reader expects, "" for a    *)
(*         blank string; the elements of allowedValues are [number |-> n]  *)
(*         or [string |-> n], since either may be given: strings are told  *)
(*         by numbers, and those that are Numerals spell theirs;           *)
(*   Field a record with the members its class has;                        *)
(*   BSON  a sequence of elements, each a record with one key: what        *)
(*         SchemaCodec writes is read back by position.                    *)
(*                                                                         *)
(* A number is the count of 1/One it makes.  A float or a double is one of *)
(* a set of numbers, its type's, of which the least and the greatest stand *)
(* for the infinities: that is where what is too large goes.  With One     *)
(* fine enough the numbers of the code, 4 and 8 decimal places, 32 and 64  *)
(* bits and the binary floats and doubles, are an instance.                *)
(***************************************************************************)
EXTENDS Integers, Sequences, Functions

CONSTANTS
    NotValid,             \* a JSON value of an unexpected type
    One,                  \* the number 1
    FloatUnit, DoubleUnit,\* the last decimal place kept: 10^-4 and 10^-8
    Floats, Doubles,      \* the numbers of the two types
    DoubleToString,       \* Double.toString: what a double is written as
    Numerals,             \* the strings that spell a number
    IntRange, LongRange   \* what the high bit of an Int and a Long stands for

(* FieldType.values, in the order of their ids. *)
FieldTypes == <<"null", "boolean", "int", "long", "float", "double",
                "bytes", "string", "array", "record", "enum">>

List == "list"  \* a JSON or BSON array of fields, told by the tree

JsonValues == [number : Int] \cup [string : Int]

ASSUME NotValidAssumption ==
    NotValid \notin BOOLEAN \cup Int \cup Range(FieldTypes) \cup {List} \cup Seq(JsonValues)

EnumTypes == {"double", "long", "int", "string", "float"}

-----------------------------------------------------------------------------
(* Numbers. *)
(* toFloat and toDouble: the nearest number there is. *)
Distance(m, n) == IF m < n THEN n - m ELSE m - n

Nearest(numbers, n) ==
    CHOOSE x \in numbers : \A y \in numbers : Distance(x, n) <= Distance(y, n)

IsInfinite(numbers, x) ==
    (\A y \in numbers : y <= x) \/ (\A y \in numbers : x <= y)

(* BigDecimal.setScale(places, HALF_EVEN). *)
Rounded(n, unit) ==
    LET below == n \div unit
        twice == 2 * (n % unit)
        up == twice > unit \/ (twice = unit /\ below % 2 = 1)
    IN  unit * (IF up THEN below + 1 ELSE below)

(* The numbers lie less than a unit apart about x, or more. *)
IsDense(numbers, unit, x) ==
    \E y, z \in numbers : x - unit < y /\ y < x /\ x < z /\ z < x + unit

IsSparse(numbers, unit, x) ==
    \A y \in numbers \ {x} : unit < Distance(x, y)

(* A binary type is dense below some power of two, which is a whole number,  *)
(* and sparse above: 2^10 for the places of a float, 2^26 for a double's.    *)
IsNumberType(numbers, unit) ==
    /\ numbers \subseteq Int /\ numbers # {}
    /\ \A x \in numbers :
          \/ IsInfinite(numbers, x)
          \/ IsDense(numbers, unit, x) \/ IsSparse(numbers, unit, x) \/ x % unit = 0

ASSUME NumberAssumption ==
    /\ {One, FloatUnit, DoubleUnit, IntRange, LongRange} \subseteq Nat \ {0}
    /\ IsNumberType(Floats, FloatUnit) /\ IsNumberType(Doubles, DoubleUnit)
    /\ Numerals \subseteq Int

(* What is written for a double reads as it, and has no more places than     *)
(* another decimal that does.                                                *)
ASSUME DoubleToStringAssumption ==
    \A x \in Doubles : ~IsInfinite(Doubles, x) =>
       /\ DoubleToString[x] \in Int /\ Nearest(Doubles, DoubleToString[x]) = x
       /\ Nearest(Doubles, Rounded(x, DoubleUnit)) = x => DoubleToString[x] % DoubleUnit = 0

(* BigDecimal.intValue and longValue drop the fraction, then the high bits. *)
Truncated(n, range) ==
    LET whole == IF n < 0 THEN -((-n) \div One) ELSE n \div One
    IN  One * (((whole + range) % (2 * range)) - range)

(* FloatJsonFormat and DoubleJsonFormat: to so many places, then to binary. *)
MutantRead(numbers, unit, n) == Nearest(numbers, unit * (n \div unit))
Read(numbers, unit, n) == Nearest(numbers, Rounded(n, unit))

ValueRead(type, n) ==
    CASE type = "int"    -> Truncated(n, IntRange)
      [] type = "long"   -> Truncated(n, LongRange)
      [] type = "float"  -> Read(Floats, FloatUnit, n)
      [] type = "double" -> Read(Doubles, DoubleUnit, n)
      [] type = "string" -> n

(* They write the binary number as a decimal of so many places; that of a    *)
(* float, which is exact, or that of a double, which is the shortest.        *)
MutantValueWritten(type, n) == [number |-> n]
ValueWritten(type, n) ==
    CASE type = "float"  -> [number |-> Rounded(n, FloatUnit)]
      [] type = "double" -> [number |-> Rounded(DoubleToString[n], DoubleUnit)]
      [] type = "string" -> [string |-> n]
      [] OTHER           -> [number |-> n]

-----------------------------------------------------------------------------
(* The Field classes. *)
SimpleField(name, type, isIdentity) ==
    [name |-> name, type |-> type, isIdentity |-> isIdentity]

ArrayField(name, isIdentity, items) ==
    [name |-> name, type |-> "array", isIdentity |-> isIdentity, items |-> items]

RecordField(name, isIdentity) ==
    [name |-> name, type |-> "record", isIdentity |-> isIdentity, fields |-> List]

EnumField(name, isIdentity, valueType, allowedValues) ==
    [name |-> name, type |-> "enum", isIdentity |-> isIdentity,
     valueType |-> valueType, allowedValues |-> allowedValues]

-----------------------------------------------------------------------------
(* FieldFormat.read: what it accepts, and the Field it makes of it. *)
HasText(json, key) == key \in DOMAIN json /\ json[key] \notin {NotValid, ""}

HasList(json, key) == key \in DOMAIN json /\ json[key] \notin {NotValid, <<>>}

HasFieldType(json, key) == HasText(json, key) /\ json[key] \in Range(FieldTypes)

Given(v) == v[CHOOSE key \in DOMAIN v : TRUE]

(* The values the format of a type reads; a decimal may come as a string. *)
Readable(valueType) ==
    CASE valueType = "string"              -> [string : Int]
      [] valueType \in {"int", "long"}     -> [number : Int]
      [] valueType \in {"float", "double"} -> [number : Int] \cup [string : Numerals]

MutantHasEnumValues(json) ==
    HasText(json, "valueType") /\ json.valueType \in EnumTypes
        /\ "allowedValues" \in DOMAIN json /\ json.allowedValues # NotValid
HasEnumValues(json) ==
    /\ HasText(json, "valueType") /\ json.valueType \in EnumTypes
    /\ HasList(json, "allowedValues")
    /\ Range(json.allowedValues) \subseteq Readable(json.valueType)

(* What has the key `fields' and stands at place p has a first field. *)
HasFields(json, tree, p) ==
    "fields" \in DOMAIN json /\ json.fields # NotValid /\ Append(p, 1) \in DOMAIN tree

(* The type "null" is known, but no case of the match covers it. *)
IsField(tree, p) ==
    LET json == tree[p] IN
    /\ HasText(json, "name")
    /\ HasFieldType(json, "type") /\ json.type # "null"
    /\ "isIdentity" \in DOMAIN json => json.isIdentity # NotValid
    /\ json.type = "enum" => HasEnumValues(json)
    /\ json.type = "array" => HasFieldType(json, "items")
    /\ json.type = "record" => HasFields(json, tree, p)

(* The reader goes into records and nothing else. *)
Upto(p, k) == SubSeq(p, 1, k)

IsRecord(node) == "type" \in DOMAIN node /\ node.type = "record"

Reached(tree) ==
    {p \in DOMAIN tree : \A k \in 1 .. Len(p) - 1 : IsRecord(tree[Upto(p, k)])}

FieldRead(json) ==
    LET isIdentity == "isIdentity" \in DOMAIN json /\ json.isIdentity IN
    CASE json.type = "array"  -> ArrayField(json.name, isIdentity, json.items)
      [] json.type = "record" -> RecordField(json.name, isIdentity)
      [] json.type = "enum"   ->
           EnumField(json.name, isIdentity, json.valueType,
                     [i \in DOMAIN json.allowedValues |->
                        ValueRead(json.valueType, Given(json.allowedValues[i]))])
      [] OTHER -> SimpleField(json.name, json.type, isIdentity)

-----------------------------------------------------------------------------
(* FieldFormat.write.  BigDecimal(x) throws when x is infinite. *)
IsWritable(f) ==
    f.type = "enum" =>
       \A x \in Range(f.allowedValues) :
          /\ f.valueType = "float"  => ~IsInfinite(Floats, x)
          /\ f.valueType = "double" => ~IsInfinite(Doubles, x)

FieldWritten(f) ==
    IF f.type = "enum"
    THEN EnumField(f.name, f.isIdentity, f.valueType,
                   [i \in DOMAIN f.allowedValues |->
                      ValueWritten(f.valueType, f.allowedValues[i])])
    ELSE f

-----------------------------------------------------------------------------
(* SchemaCodec.encode: the BSON type of an enum's value is that of its class. *)
BsonType(valueType) == CASE valueType \in {"float", "double"} -> "decimal128"
                         [] valueType \in {"int", "long"}     -> "int64"
                         [] valueType = "string"              -> "string"

MutantBsonValue(valueType, n) ==
    [type \in {IF valueType = "int" THEN "int32" ELSE BsonType(valueType)} |-> n]
BsonValue(valueType, n) == [type \in {BsonType(valueType)} |-> n]

Encode(f) ==
    LET name == [name |-> f.name]
        type == [type |-> f.type]
        isIdentity == [isIdentity |-> f.isIdentity]
    IN  CASE f.type = "array"  -> <<name, type, isIdentity, [items |-> f.items]>>
          [] f.type = "record" -> <<name, type, isIdentity, [fields |-> List]>>
          [] f.type = "enum"   ->
               <<name, type, isIdentity, [valueType |-> f.valueType],
                 [allowedValues |-> [i \in DOMAIN f.allowedValues |->
                                      BsonValue(f.valueType, f.allowedValues[i])]]>>
          [] OTHER -> <<name, type, isIdentity>>

(* decode: readString("name") and its like throw unless the next element has *)
(* that name and type, readEndDocument unless there is no next element.      *)
ReadsAs(bson, keys) ==
    /\ Len(bson) = Len(keys)
    /\ \A i \in 1 .. Len(keys) : DOMAIN bson[i] = {keys[i]}

KeysOf(type) ==
    CASE type = "array"  -> <<"name", "type", "isIdentity", "items">>
      [] type = "record" -> <<"name", "type", "isIdentity", "fields">>
      [] type = "enum"   -> <<"name", "type", "isIdentity", "valueType", "allowedValues">>
      [] OTHER           -> <<"name", "type", "isIdentity">>

IsDecodable(bson) ==
    /\ Len(bson) >= 2 /\ DOMAIN bson[2] = {"type"}
    /\ ReadsAs(bson, KeysOf(bson[2].type))
    /\ bson[2].type = "enum" =>
          \A i \in DOMAIN bson[5].allowedValues :
             DOMAIN bson[5].allowedValues[i] = {BsonType(bson[4].valueType)}

Decode(bson) ==
    LET name == bson[1].name
        isIdentity == bson[3].isIdentity
    IN  CASE bson[2].type = "array"  -> ArrayField(name, isIdentity, bson[4].items)
          [] bson[2].type = "record" -> RecordField(name, isIdentity)
          [] bson[2].type = "enum"   ->
               EnumField(name, isIdentity, bson[4].valueType,
                         [i \in DOMAIN bson[5].allowedValues |->
                            bson[5].allowedValues[i][BsonType(bson[4].valueType)]])
          [] OTHER -> SimpleField(name, bson[2].type, isIdentity)

-----------------------------------------------------------------------------
(* SchemaRequestFormat.read: the body of a create or of a check. *)
VersionRead(n) == Truncated(n, IntRange) \div One

HasPositiveInt(json, key) ==
    key \in DOMAIN json /\ json[key] # NotValid /\ VersionRead(json[key]) >= 1

IsRequest(json) ==
    /\ HasText(json, "name") /\ HasText(json, "applicationId")
    /\ HasPositiveInt(json, "majorVersion") /\ HasPositiveInt(json, "minorVersion")
    /\ HasFields(json, json.tree, <<>>)
    /\ \A p \in Reached(json.tree) : IsField(json.tree, p)

FieldsRead(tree) == [p \in Reached(tree) |-> FieldRead(tree[p])]
FieldsWritten(fields) == [p \in DOMAIN fields |-> FieldWritten(fields[p])]

RequestRead(json) ==
    [name |-> json.name, applicationId |-> json.applicationId,
     majorVersion |-> VersionRead(json.majorVersion),
     minorVersion |-> VersionRead(json.minorVersion),
     fields |-> FieldsRead(json.tree)]
==============================================================================
