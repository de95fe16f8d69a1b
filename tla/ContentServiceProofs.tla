------------------------- MODULE ContentServiceProofs -------------------------
(***************************************************************************)
(* What becomes of the content of a schema, proved for every set of bodies *)
(* and every choice of the numeric constants.                              *)
(***************************************************************************)
EXTENDS ContentService, FiniteSetTheorems, SequenceTheorems,
        WellFoundedInduction, TLAPS

LEMMA LeastNatural ==
    ASSUME NEW T \in SUBSET Nat, T # {}
    PROVE  \E x \in T : \A y \in T : x <= y
<1>1. PICK x \in T : \A y \in T : ~ (<<y, x>> \in OpToRel(<, Nat))
  BY NatLessThanWellFounded, WFMin, Zenon
<1>2. \A y \in T : ~(y < x)
  BY <1>1 DEF OpToRel
<1> QED BY <1>2

-----------------------------------------------------------------------------
(* Numbers: rounding settles after one round and moves a number by at most   *)
(* half a unit, as does dropping the high bits, which settles too.           *)
LEMMA Constants ==
    /\ One \in Nat \ {0} /\ FloatUnit \in Nat \ {0} /\ DoubleUnit \in Nat \ {0}
    /\ IntRange \in Nat \ {0} /\ LongRange \in Nat \ {0}
BY NumberAssumption

LEMMA NumberTypes ==
    /\ IsNumberType(Floats, FloatUnit) /\ IsNumberType(Doubles, DoubleUnit)
    /\ Numerals \subseteq Int
BY NumberAssumption

LEMMA DivMod ==
    ASSUME NEW n \in Int, NEW d \in Nat \ {0}
    PROVE  /\ n \div d \in Int /\ (n % d) \in 0 .. d - 1
           /\ n = d * (n \div d) + (n % d)
OBVIOUS

LEMMA DivUnique ==
    ASSUME NEW q \in Int, NEW d \in Nat \ {0}
    PROVE  (d * q) \div d = q /\ (d * q) % d = 0
OBVIOUS

LEMMA ModUnique ==
    ASSUME NEW n \in Int, NEW d \in Nat \ {0}, 0 <= n, n < d
    PROVE  n % d = n
OBVIOUS

LEMMA RoundedNear ==
    ASSUME NEW n \in Int, NEW unit \in Nat \ {0}
    PROVE  /\ Rounded(n, unit) \in Int
           /\ 2 * (Rounded(n, unit) - n) <= unit
           /\ 2 * (n - Rounded(n, unit)) <= unit
BY DivMod DEF Rounded

LEMMA RoundedMultiple ==
    ASSUME NEW q \in Int, NEW unit \in Nat \ {0}
    PROVE  Rounded(unit * q, unit) = unit * q
BY DivUnique DEF Rounded

LEMMA RoundedAgain ==
    ASSUME NEW n \in Int, NEW unit \in Nat \ {0}
    PROVE  Rounded(Rounded(n, unit), unit) = Rounded(n, unit)
<1> DEFINE below == n \div unit
           q == IF 2 * (n % unit) > unit \/ (2 * (n % unit) = unit /\ below % 2 = 1)
                THEN below + 1 ELSE below
<1>1. q \in Int
  BY DivMod
<1>2. Rounded(n, unit) = unit * q
  BY DEF Rounded
<1> QED BY <1>1, <1>2, RoundedMultiple

LEMMA MultipleUnique ==
    ASSUME NEW unit \in Nat \ {0}, NEW m \in Int, NEW n \in Int,
           m % unit = 0, n % unit = 0, n - m < unit, m - n < unit
    PROVE  m = n
<1> DEFINE i == m \div unit
           j == n \div unit
<1>1. i \in Int /\ j \in Int /\ m = unit * i /\ n = unit * j
  BY DivMod
<1> HIDE DEF i, j
<1>2. CASE j >= i + 1
  <2>1. unit * j >= unit * (i + 1) /\ unit * (i + 1) = unit * i + unit
    BY <1>1, <1>2
  <2> QED BY <1>1, <2>1
<1>3. CASE i >= j + 1
  <2>1. unit * i >= unit * (j + 1) /\ unit * (j + 1) = unit * j + unit
    BY <1>1, <1>3
  <2> QED BY <1>1, <2>1
<1> QED BY <1>1, <1>2, <1>3

LEMMA RoundedIs ==
    ASSUME NEW n \in Int, NEW unit \in Nat \ {0}
    PROVE  /\ Rounded(n, unit) % unit = 0
           /\ \A m \in Int : m % unit = 0 /\ 2 * (m - n) < unit /\ 2 * (n - m) < unit =>
                 Rounded(n, unit) = m
           /\ n % unit = 0 => Rounded(n, unit) = n
<1> DEFINE below == n \div unit
           q == IF 2 * (n % unit) > unit \/ (2 * (n % unit) = unit /\ below % 2 = 1)
                THEN below + 1 ELSE below
<1>1. q \in Int
  BY DivMod
<1>2. Rounded(n, unit) = unit * q
  BY DEF Rounded
<1>3. Rounded(n, unit) % unit = 0
  BY <1>1, <1>2, DivUnique
<1>4. ASSUME NEW m \in Int, m % unit = 0, 2 * (m - n) < unit, 2 * (n - m) < unit
      PROVE  Rounded(n, unit) = m
  <2> DEFINE r == Rounded(n, unit)
  <2>1. r \in Int /\ 2 * (r - n) <= unit /\ 2 * (n - r) <= unit /\ r % unit = 0
    BY <1>3, RoundedNear
  <2> HIDE DEF r
  <2>2. r - m < unit /\ m - r < unit
    BY <1>4, <2>1
  <2>3. r = m
    BY <1>4, <2>1, <2>2, MultipleUnique
  <2> QED BY <2>3 DEF r
<1>5. n % unit = 0 => Rounded(n, unit) = n
  BY <1>4
<1> QED BY <1>3, <1>4, <1>5

(* Numbers of a type: the nearest one there is, and what lies between two    *)
(* decimals of the same number has that number.                              *)
LEMMA DistanceIsNat ==
    \A m, n \in Int : Distance(m, n) \in Nat
BY DEF Distance

LEMMA NearestIs ==
    ASSUME NEW numbers, numbers \subseteq Int, numbers # {}, NEW n \in Int
    PROVE  /\ Nearest(numbers, n) \in numbers
           /\ \A y \in numbers : Distance(Nearest(numbers, n), n) <= Distance(y, n)
<1> DEFINE T == {Distance(x, n) : x \in numbers}
<1>1. T \subseteq Nat /\ T # {}
  BY DistanceIsNat
<1>2. PICK d \in T : \A e \in T : d <= e
  BY <1>1, LeastNatural
<1>3. \E x \in numbers : \A y \in numbers : Distance(x, n) <= Distance(y, n)
  <2>1. PICK x \in numbers : d = Distance(x, n)
    BY <1>2
  <2>2. \A y \in numbers : Distance(y, n) \in T
    OBVIOUS
  <2> QED BY <1>2, <2>1, <2>2
<1> QED BY <1>3 DEF Nearest

LEMMA NearestUnique ==
    ASSUME NEW numbers, numbers \subseteq Int, NEW n \in Int, NEW x \in numbers,
           \A y \in numbers \ {x} : Distance(x, n) < Distance(y, n)
    PROVE  Nearest(numbers, n) = x
<1>1. /\ Nearest(numbers, n) \in numbers
      /\ Distance(Nearest(numbers, n), n) <= Distance(x, n)
  BY NearestIs
<1>2. Nearest(numbers, n) # x => Distance(x, n) < Distance(Nearest(numbers, n), n)
  BY <1>1
<1>3. Distance(x, n) \in Nat /\ Distance(Nearest(numbers, n), n) \in Nat
  BY <1>1, DistanceIsNat
<1> QED BY <1>1, <1>2, <1>3

LEMMA NearestItself ==
    ASSUME NEW numbers, numbers \subseteq Int, NEW x \in numbers
    PROVE  Nearest(numbers, x) = x
<1>1. \A y \in numbers \ {x} : Distance(x, x) < Distance(y, x)
  BY DEF Distance
<1> QED BY <1>1, NearestUnique

LEMMA NearestBetween ==
    ASSUME NEW numbers, numbers \subseteq Int, numbers # {},
           NEW m \in Int, NEW n \in Int, NEW k \in Int,
           (m < k /\ k < n) \/ (n < k /\ k < m),
           Nearest(numbers, m) = Nearest(numbers, n)
    PROVE  Nearest(numbers, k) = Nearest(numbers, m)
<1> DEFINE x == Nearest(numbers, m)
<1>1. /\ x \in numbers /\ x \in Int
      /\ \A y \in numbers : Distance(x, m) <= Distance(y, m)
      /\ \A y \in numbers : Distance(x, n) <= Distance(y, n)
  <2>1. /\ x \in numbers
        /\ \A y \in numbers : Distance(x, m) <= Distance(y, m)
    BY NearestIs
  <2>2. \A y \in numbers : Distance(x, n) <= Distance(y, n)
    BY NearestIs
  <2> QED BY <2>1, <2>2
<1> HIDE DEF x
<1>2. ASSUME NEW y \in numbers \ {x}
      PROVE  Distance(x, k) < Distance(y, k)
  <2>1. y \in Int /\ y # x /\ Distance(x, m) <= Distance(y, m) /\ Distance(x, n) <= Distance(y, n)
    BY <1>1
  <2>2. CASE m < k /\ k < n
    BY <1>1, <2>1, <2>2 DEF Distance
  <2>3. CASE n < k /\ k < m
    BY <1>1, <2>1, <2>3 DEF Distance
  <2> QED BY <2>2, <2>3
<1>3. Nearest(numbers, k) = x
  BY <1>1, <1>2, NearestUnique
<1> QED BY <1>3 DEF x

(* A finite number that was read from a decimal of so many places is read    *)
(* from it once it has been rounded to as many: where the type is dense that *)
(* is the same decimal, where it is sparse no other number comes as near.    *)
LEMMA ReadSettles ==
    ASSUME NEW numbers, NEW unit \in Nat \ {0}, IsNumberType(numbers, unit),
           NEW r \in Int, r % unit = 0, NEW x, x = Nearest(numbers, r),
           ~IsInfinite(numbers, x)
    PROVE  x \in Int /\ Nearest(numbers, Rounded(x, unit)) = x
<1>1. numbers \subseteq Int /\ numbers # {}
  BY DEF IsNumberType
<1>2. x \in numbers /\ x \in Int /\ \A y \in numbers : Distance(x, r) <= Distance(y, r)
  BY <1>1, NearestIs
<1>3. CASE IsDense(numbers, unit, x)
  <2>1. PICK y \in numbers, z \in numbers : x - unit < y /\ y < x /\ x < z /\ z < x + unit
    BY <1>3 DEF IsDense
  <2>2. /\ y \in Int /\ z \in Int
        /\ Distance(x, r) <= Distance(y, r) /\ Distance(x, r) <= Distance(z, r)
    BY <1>1, <1>2
  <2>3. 2 * (r - x) < unit /\ 2 * (x - r) < unit
    BY <1>2, <2>1, <2>2 DEF Distance
  <2>4. Rounded(x, unit) = r
    BY <1>2, <2>3, RoundedIs
  <2> QED BY <1>2, <2>4
<1>4. CASE IsSparse(numbers, unit, x)
  <2> DEFINE w == Rounded(x, unit)
  <2>1. w \in Int /\ 2 * (w - x) <= unit /\ 2 * (x - w) <= unit
    BY <1>2, RoundedNear
  <2> HIDE DEF w
  <2>2. ASSUME NEW y \in numbers \ {x}
        PROVE  Distance(x, w) < Distance(y, w)
    <3>1. y \in Int /\ unit < Distance(x, y)
      BY <1>1, <1>4 DEF IsSparse
    <3> QED BY <1>2, <2>1, <3>1 DEF Distance
  <2>3. Nearest(numbers, w) = x
    BY <1>1, <1>2, <2>1, <2>2, NearestUnique
  <2> QED BY <1>2, <2>3 DEF w
<1>5. CASE x % unit = 0
  <2>1. Rounded(x, unit) = x
    BY <1>2, <1>5, RoundedIs
  <2> QED BY <1>1, <1>2, <2>1, NearestItself
<1> QED BY <1>2, <1>3, <1>4, <1>5 DEF IsNumberType

(* A decimal of so many places that is read as the number a given one was    *)
(* read as may be served for it.                                             *)
LEMMA SameNumberServed ==
    ASSUME NEW numbers, NEW unit \in Nat \ {0}, IsNumberType(numbers, unit),
           NEW given \in Int, NEW served \in Int, served % unit = 0,
           Nearest(numbers, served) = Nearest(numbers, Rounded(given, unit))
    PROVE  IsNumberServed(numbers, unit, served, given)
<1> DEFINE r == Rounded(given, unit)
           x == Nearest(numbers, r)
<1>1. numbers \subseteq Int /\ numbers # {}
  BY DEF IsNumberType
<1>2. /\ r \in Int /\ r % unit = 0
      /\ 2 * (r - given) <= unit /\ 2 * (given - r) <= unit
  BY RoundedNear, RoundedIs
<1> HIDE DEF r
<1>3. x \in Int /\ \A y \in numbers : y \in Int /\ Distance(x, r) <= Distance(y, r)
  BY <1>1, <1>2, NearestIs
<1>4. Nearest(numbers, served) = x
  BY DEF r
<1>5. ASSUME TellsApart(numbers, unit, served)
      PROVE  2 * Distance(served, given) <= unit
  <2>1. \A next \in {served - unit, served + unit} : Nearest(numbers, next) # Nearest(numbers, served)
    BY <1>5 DEF TellsApart
  <2>2. ~(served + unit <= r)
    <3>1. served + unit = r => Nearest(numbers, served + unit) = Nearest(numbers, served)
      BY <1>4
    <3>2. ASSUME served + unit < r
          PROVE  Nearest(numbers, served + unit) = Nearest(numbers, served)
      <4>1. served + unit \in Int /\ served < served + unit
        OBVIOUS
      <4> QED BY <1>1, <1>2, <1>4, <3>2, <4>1, NearestBetween
    <3> QED BY <1>2, <2>1, <3>1, <3>2
  <2>3. ~(r <= served - unit)
    <3>1. r = served - unit => Nearest(numbers, served - unit) = Nearest(numbers, served)
      BY <1>4
    <3>2. ASSUME r < served - unit
          PROVE  Nearest(numbers, served - unit) = Nearest(numbers, served)
      <4>1. served - unit \in Int /\ served - unit < served
        OBVIOUS
      <4> QED BY <1>1, <1>2, <1>4, <3>2, <4>1, NearestBetween
    <3> QED BY <1>2, <2>1, <3>1, <3>2
  <2>4. r - served < unit /\ served - r < unit
    BY <1>2, <2>2, <2>3
  <2>5. served = r
    BY <1>2, <2>4, MultipleUnique
  <2> QED BY <1>2, <2>5 DEF Distance
<1>6. ASSUME NEW y \in numbers
      PROVE  Distance(Nearest(numbers, served), given) <= Distance(y, given) + unit
  <2>1. y \in Int /\ Distance(x, r) <= Distance(y, r)
    BY <1>3
  <2> HIDE DEF x
  <2>2. Distance(x, given) <= Distance(y, given) + unit
    BY <1>2, <1>3, <2>1 DEF Distance
  <2> QED BY <1>4, <2>2
<1> QED BY <1>5, <1>6 DEF IsNumberServed

LEMMA TruncatedForm ==
    ASSUME NEW n \in Int, NEW range \in Nat \ {0}
    PROVE  \E k \in Int : -range <= k /\ k < range /\ Truncated(n, range) = One * k
<1> DEFINE whole == IF n < 0 THEN -((-n) \div One) ELSE n \div One
           k == ((whole + range) % (2 * range)) - range
<1>1. whole \in Int
  BY Constants, DivMod
<1>2. 2 * range \in Nat \ {0} /\ whole + range \in Int
  BY <1>1
<1> HIDE DEF whole
<1>3. ((whole + range) % (2 * range)) \in 0 .. 2 * range - 1
  BY <1>2, DivMod
<1>4. k \in Int /\ -range <= k /\ k < range
  BY <1>3
<1>5. Truncated(n, range) = One * k
  BY DEF Truncated, whole
<1> QED BY <1>4, <1>5

LEMMA TruncatedWhole ==
    ASSUME NEW k \in Int, NEW range \in Nat \ {0}, -range <= k, k < range
    PROVE  Truncated(One * k, range) = One * k
<1>1. (One * k) \div One = k /\ One * k \in Int
  BY Constants, DivUnique
<1>2. CASE One * k < 0
  <2>1. -(One * k) = One * (-k)
    BY Constants
  <2>2. (-(One * k)) \div One = -k
    BY <2>1, Constants, DivUnique
  <2>3. (k + range) % (2 * range) = k + range
    BY ModUnique
  <2> QED BY <1>2, <2>2, <2>3 DEF Truncated
<1>3. CASE ~(One * k < 0)
  <2>1. (k + range) % (2 * range) = k + range
    BY ModUnique
  <2> QED BY <1>1, <1>3, <2>1 DEF Truncated
<1> QED BY <1>2, <1>3

LEMMA TruncatedAgain ==
    ASSUME NEW n \in Int, NEW range \in Nat \ {0}
    PROVE  /\ Truncated(n, range) \in Int
           /\ Truncated(Truncated(n, range), range) = Truncated(n, range)
<1>1. PICK k \in Int : -range <= k /\ k < range /\ Truncated(n, range) = One * k
  BY TruncatedForm
<1>2. Truncated(One * k, range) = One * k
  BY <1>1, TruncatedWhole
<1>3. One * k \in Int
  BY Constants
<1> QED BY <1>1, <1>2, <1>3

(* A version that was accepted is read as itself again. *)
LEMMA VersionReadAgain ==
    ASSUME NEW n \in Int
    PROVE  /\ VersionRead(n) \in Int
           /\ One * VersionRead(n) \in Int
           /\ VersionRead(One * VersionRead(n)) = VersionRead(n)
<1>1. PICK k \in Int : -IntRange <= k /\ k < IntRange /\ Truncated(n, IntRange) = One * k
  BY TruncatedForm, Constants
<1>2. VersionRead(n) = k
  BY <1>1, DivUnique, Constants DEF VersionRead
<1>3. Truncated(One * k, IntRange) = One * k
  BY <1>1, TruncatedWhole, Constants
<1>4. (One * k) \div One = k
  BY DivUnique, Constants
<1>5. VersionRead(One * k) = k
  BY <1>3, <1>4 DEF VersionRead
<1>6. One * k \in Int
  BY Constants
<1> QED BY <1>2, <1>5, <1>6

-----------------------------------------------------------------------------
(* Nodes.  What the reader makes of a node it accepts: a field of one of the *)
(* classes, its allowed values as they settle.                               *)
SimpleTypes == {"boolean", "int", "long", "float", "double", "bytes", "string"}

Readings(valueType) == {ValueRead(valueType, n) : n \in Int}

IsReadField(f) ==
    \E name \in Range(Alphabet) : \E isIdentity \in BOOLEAN :
       /\ name \notin {NotValid, ""}
       /\ \/ \E type \in SimpleTypes : f = SimpleField(name, type, isIdentity)
          \/ \E items \in Range(FieldTypes) : f = ArrayField(name, isIdentity, items)
                                              /\ items \notin {NotValid, ""}
          \/ f = RecordField(name, isIdentity)
          \/ \E valueType \in EnumTypes : \E values \in Seq(Readings(valueType)) :
                values # <<>> /\ f = EnumField(name, isIdentity, valueType, values)

LEMMA KnownTypes ==
    Range(FieldTypes) = SimpleTypes \cup {"null", "array", "record", "enum"}
<1>1. DOMAIN FieldTypes = 1 .. 11
  BY DEF FieldTypes
<1>2. \A i \in 1 .. 11 : FieldTypes[i] \in SimpleTypes \cup {"null", "array", "record", "enum"}
  BY DEF FieldTypes, SimpleTypes
<1>3. \A x \in SimpleTypes \cup {"null", "array", "record", "enum"} :
        \E i \in 1 .. 11 : FieldTypes[i] = x
  BY DEF FieldTypes, SimpleTypes
<1> QED BY <1>1, <1>2, <1>3 DEF Range

LEMMA ReadingIsInt ==
    ASSUME NEW valueType \in EnumTypes, NEW n \in Int
    PROVE  ValueRead(valueType, n) \in Int
<1>1. ASSUME NEW numbers, NEW unit \in Nat \ {0}, IsNumberType(numbers, unit)
      PROVE  Read(numbers, unit, n) \in Int
  BY <1>1, RoundedNear, NearestIs DEF Read, IsNumberType
<1>2. Read(Floats, FloatUnit, n) \in Int /\ Read(Doubles, DoubleUnit, n) \in Int
  BY <1>1, NumberTypes, Constants
<1> QED BY <1>2, Constants, TruncatedAgain DEF ValueRead, EnumTypes

(* A reading that can be written is written as a value its type reads, and   *)
(* reads as itself again.                                                    *)
IsFinite(valueType, x) ==
    /\ valueType = "float"  => ~IsInfinite(Floats, x)
    /\ valueType = "double" => ~IsInfinite(Doubles, x)

LEMMA FloatWritten ==
    ASSUME NEW n \in Int, NEW x, x = Read(Floats, FloatUnit, n), ~IsInfinite(Floats, x),
           NEW w, w = Rounded(x, FloatUnit)
    PROVE  /\ w \in Int /\ w % FloatUnit = 0
           /\ Nearest(Floats, w) = x /\ Read(Floats, FloatUnit, w) = x
<1> DEFINE r == Rounded(n, FloatUnit)
<1>1. r \in Int /\ r % FloatUnit = 0 /\ x = Nearest(Floats, r)
  BY Constants, RoundedNear, RoundedIs DEF Read
<1> HIDE DEF r
<1>2. x \in Int /\ Nearest(Floats, w) = x
  BY <1>1, Constants, NumberTypes, ReadSettles
<1>3. w \in Int /\ w % FloatUnit = 0
  BY <1>2, Constants, RoundedNear, RoundedIs
<1>4. Rounded(w, FloatUnit) = w
  BY <1>3, Constants, RoundedIs
<1> QED BY <1>2, <1>3, <1>4 DEF Read

LEMMA DoubleWritten ==
    ASSUME NEW n \in Int, NEW x, x = Read(Doubles, DoubleUnit, n), ~IsInfinite(Doubles, x),
           NEW w, w = Rounded(DoubleToString[x], DoubleUnit)
    PROVE  /\ w \in Int /\ w % DoubleUnit = 0
           /\ Nearest(Doubles, w) = x /\ Read(Doubles, DoubleUnit, w) = x
<1> DEFINE r == Rounded(n, DoubleUnit)
<1>1. r \in Int /\ r % DoubleUnit = 0 /\ x = Nearest(Doubles, r)
  BY Constants, RoundedNear, RoundedIs DEF Read
<1> HIDE DEF r
<1>2. x \in Int /\ Nearest(Doubles, Rounded(x, DoubleUnit)) = x
  BY <1>1, Constants, NumberTypes, ReadSettles
<1>3. x \in Doubles
  BY <1>1, NumberTypes, NearestIs DEF IsNumberType
<1>4. /\ DoubleToString[x] \in Int /\ Nearest(Doubles, DoubleToString[x]) = x
      /\ DoubleToString[x] % DoubleUnit = 0
  BY <1>2, <1>3, DoubleToStringAssumption
<1>5. w = DoubleToString[x]
  BY <1>4, Constants, RoundedIs
<1> QED BY <1>4, <1>5 DEF Read

LEMMA WrittenReading ==
    ASSUME NEW valueType \in EnumTypes, NEW v \in Readings(valueType),
           IsFinite(valueType, v)
    PROVE  /\ v \in Int
           /\ ValueWritten(valueType, v) \in JsonValues
           /\ ValueWritten(valueType, v) \in Readable(valueType)
           /\ Given(ValueWritten(valueType, v)) \in Int
           /\ ValueRead(valueType, Given(ValueWritten(valueType, v))) = v
<1>1. PICK n \in Int : v = ValueRead(valueType, n)
  BY DEF Readings
<1>2. v \in Int
  BY <1>1, ReadingIsInt
<1>3. ASSUME NEW w \in Int
      PROVE  /\ [number |-> w] \in JsonValues /\ Given([number |-> w]) = w
             /\ [string |-> w] \in JsonValues /\ Given([string |-> w]) = w
  BY DEF JsonValues, Given
<1>4. CASE valueType = "float"
  <2> DEFINE w == Rounded(v, FloatUnit)
  <2>1. v = Read(Floats, FloatUnit, n) /\ ~IsInfinite(Floats, v)
    BY <1>1, <1>4 DEF ValueRead, IsFinite
  <2>2. w \in Int /\ Read(Floats, FloatUnit, w) = v
    BY <2>1, FloatWritten
  <2>3. ValueWritten(valueType, v) = [number |-> w]
    BY <1>4 DEF ValueWritten
  <2> HIDE DEF w
  <2>4. ValueWritten(valueType, v) \in Readable(valueType)
    BY <1>4, <2>2, <2>3 DEF Readable
  <2>5. ValueRead(valueType, w) = v
    BY <1>4, <2>2 DEF ValueRead
  <2> QED BY <1>2, <1>3, <2>2, <2>3, <2>4, <2>5
<1>5. CASE valueType = "double"
  <2> DEFINE w == Rounded(DoubleToString[v], DoubleUnit)
  <2>1. v = Read(Doubles, DoubleUnit, n) /\ ~IsInfinite(Doubles, v)
    BY <1>1, <1>5 DEF ValueRead, IsFinite
  <2>2. w \in Int /\ Read(Doubles, DoubleUnit, w) = v
    BY <2>1, DoubleWritten
  <2>3. ValueWritten(valueType, v) = [number |-> w]
    BY <1>5 DEF ValueWritten
  <2> HIDE DEF w
  <2>4. ValueWritten(valueType, v) \in Readable(valueType)
    BY <1>5, <2>2, <2>3 DEF Readable
  <2>5. ValueRead(valueType, w) = v
    BY <1>5, <2>2 DEF ValueRead
  <2> QED BY <1>2, <1>3, <2>2, <2>3, <2>4, <2>5
<1>6. CASE valueType \in {"int", "long"}
  <2>1. ValueWritten(valueType, v) = [number |-> v]
    BY <1>6 DEF ValueWritten
  <2>2. ValueRead(valueType, v) = v
    BY <1>1, <1>6, TruncatedAgain, Constants DEF ValueRead
  <2>3. Readable(valueType) = [number : Int]
    BY <1>6 DEF Readable
  <2>4. ValueWritten(valueType, v) \in Readable(valueType)
    BY <1>2, <2>1, <2>3
  <2> QED BY <1>2, <1>3, <2>1, <2>2, <2>4
<1>7. CASE valueType = "string"
  <2>1. ValueWritten(valueType, v) = [string |-> v]
    BY <1>7 DEF ValueWritten
  <2>2. ValueRead(valueType, v) = v
    BY <1>7 DEF ValueRead
  <2>3. Readable(valueType) = [string : Int]
    BY <1>7 DEF Readable
  <2>4. ValueWritten(valueType, v) \in Readable(valueType)
    BY <1>2, <2>1, <2>3
  <2> QED BY <1>2, <1>3, <2>1, <2>2, <2>4
<1> QED BY <1>4, <1>5, <1>6, <1>7 DEF EnumTypes

(* The number or string of an allowed value the reader accepts.              *)
LEMMA GivenValue ==
    ASSUME NEW valueType \in EnumTypes, NEW v \in Readable(valueType)
    PROVE  /\ Given(v) \in Int
           /\ valueType \in {"int", "long"} => v = [number |-> Given(v)] /\ v.number = Given(v)
           /\ valueType = "string" => v = [string |-> Given(v)]
<1>1. CASE v \in [number : Int]
  <2>1. DOMAIN v = {"number"} /\ v.number \in Int /\ v = [number |-> v.number]
    BY <1>1
  <2>2. valueType # "string"
    BY <2>1 DEF Readable
  <2> QED BY <2>1, <2>2 DEF Given
<1>2. CASE v \in [string : Int]
  <2>1. DOMAIN v = {"string"} /\ v.string \in Int /\ v = [string |-> v.string]
    BY <1>2
  <2>2. valueType \notin {"int", "long"}
    BY <2>1 DEF Readable
  <2> QED BY <2>1, <2>2 DEF Given
<1>3. v \in [number : Int] \/ v \in [string : Int]
  BY NumberTypes DEF Readable, EnumTypes
<1> QED BY <1>1, <1>2, <1>3

LEMMA FieldReadIsRead ==
    ASSUME NEW tree, NEW p, IsField(tree, p), IsNode(tree[p])
    PROVE  IsReadField(FieldRead(tree[p]))
<1> DEFINE json == tree[p]
           isIdentity == "isIdentity" \in DOMAIN json /\ json.isIdentity
           valueType == json.valueType
           values == [i \in DOMAIN json.allowedValues |->
                        ValueRead(valueType, Given(json.allowedValues[i]))]
<1>1. json.name \in Range(Alphabet) \ {NotValid, ""}
  BY DEF IsField, HasText, IsNode
<1>2. json.type \in Range(FieldTypes) /\ json.type # "null"
  BY DEF IsField, HasFieldType
<1>3. isIdentity \in BOOLEAN
  BY DEF IsNode
<1>4. CASE json.type = "array"
  <2>1. json.items \in Range(FieldTypes) /\ json.items \notin {NotValid, ""}
    BY <1>4 DEF IsField, HasFieldType, HasText
  <2>2. FieldRead(json) = ArrayField(json.name, isIdentity, json.items)
    BY <1>4 DEF FieldRead
  <2> QED BY <1>1, <1>3, <2>1, <2>2 DEF IsReadField
<1>5. CASE json.type = "record"
  <2>1. FieldRead(json) = RecordField(json.name, isIdentity)
    BY <1>5 DEF FieldRead
  <2> QED BY <1>1, <1>3, <2>1 DEF IsReadField
<1>6. CASE json.type = "enum"
  <2>1. FieldRead(json) = EnumField(json.name, isIdentity, valueType, values)
    BY <1>6 DEF FieldRead
  <2>2. /\ valueType \in EnumTypes
        /\ json.allowedValues \in Seq(JsonValues) /\ json.allowedValues # <<>>
        /\ \A i \in DOMAIN json.allowedValues :
              json.allowedValues[i] \in Readable(valueType)
    BY <1>6 DEF IsField, HasEnumValues, HasList, IsNode, Range
  <2>3. ASSUME NEW i \in DOMAIN json.allowedValues
        PROVE  values[i] \in Readings(valueType)
    <3>1. Given(json.allowedValues[i]) \in Int
      BY <2>2, GivenValue
    <3> QED BY <3>1 DEF Readings
  <2>4. values \in Seq(Readings(valueType)) /\ values # <<>>
    <3>1. DOMAIN json.allowedValues = 1 .. Len(json.allowedValues)
            /\ Len(json.allowedValues) \in Nat \ {0}
      BY <2>2
    <3>2. values \in [1 .. Len(json.allowedValues) -> Readings(valueType)]
      BY <2>3, <3>1
    <3>3. values \in Seq(Readings(valueType)) /\ Len(values) = Len(json.allowedValues)
      BY <3>1, <3>2
    <3> QED BY <3>1, <3>3
  <2> HIDE DEF values, isIdentity, valueType
  <2> QED BY <1>1, <1>3, <2>1, <2>2, <2>4 DEF IsReadField
<1>7. CASE json.type \notin {"array", "record", "enum"}
  <2>1. FieldRead(json) = SimpleField(json.name, json.type, isIdentity)
    BY <1>7 DEF FieldRead
  <2>2. json.type \in SimpleTypes
    BY <1>2, <1>7, KnownTypes
  <2> QED BY <1>1, <1>3, <2>1, <2>2 DEF IsReadField
<1> QED BY <1>4, <1>5, <1>6, <1>7

(* The members of a field that was read, by its class. *)
LEMMA ReadFieldType ==
    ASSUME NEW f, IsReadField(f)
    PROVE  /\ f.type \in Range(FieldTypes) \ {"null"}
           /\ f.isIdentity \in BOOLEAN
           /\ f.name \in Range(Alphabet) \ {NotValid, ""}
           /\ f.type \in SimpleTypes => f = SimpleField(f.name, f.type, f.isIdentity)
           /\ f.type = "array" => f = ArrayField(f.name, f.isIdentity, f.items)
                                  /\ f.items \in Range(FieldTypes)
                                  /\ f.items \notin {NotValid, ""}
           /\ f.type = "record" => f = RecordField(f.name, f.isIdentity)
           /\ f.type = "enum" =>
                 /\ f = EnumField(f.name, f.isIdentity, f.valueType, f.allowedValues)
                 /\ f.valueType \in EnumTypes /\ f.allowedValues # <<>>
                 /\ f.allowedValues \in Seq(Readings(f.valueType))
<1>1. PICK name \in Range(Alphabet) : \E isIdentity \in BOOLEAN :
        /\ name \notin {NotValid, ""}
        /\ \/ \E type \in SimpleTypes : f = SimpleField(name, type, isIdentity)
           \/ \E items \in Range(FieldTypes) : f = ArrayField(name, isIdentity, items)
                                               /\ items \notin {NotValid, ""}
           \/ f = RecordField(name, isIdentity)
           \/ \E valueType \in EnumTypes : \E values \in Seq(Readings(valueType)) :
                 values # <<>> /\ f = EnumField(name, isIdentity, valueType, values)
  BY DEF IsReadField
<1>2. PICK isIdentity \in BOOLEAN :
        /\ name \notin {NotValid, ""}
        /\ \/ \E type \in SimpleTypes : f = SimpleField(name, type, isIdentity)
           \/ \E items \in Range(FieldTypes) : f = ArrayField(name, isIdentity, items)
                                               /\ items \notin {NotValid, ""}
           \/ f = RecordField(name, isIdentity)
           \/ \E valueType \in EnumTypes : \E values \in Seq(Readings(valueType)) :
                 values # <<>> /\ f = EnumField(name, isIdentity, valueType, values)
  BY <1>1
<1>3. CASE \E type \in SimpleTypes : f = SimpleField(name, type, isIdentity)
  <2>1. PICK type \in SimpleTypes : f = SimpleField(name, type, isIdentity)
    BY <1>3
  <2>2. f.type = type /\ f.name = name /\ f.isIdentity = isIdentity
    BY <2>1 DEF SimpleField
  <2>3. type \in Range(FieldTypes) \ {"null"} /\ type \notin {"array", "record", "enum"}
    BY <2>1, KnownTypes DEF SimpleTypes
  <2> QED BY <1>2, <2>1, <2>2, <2>3
<1>4. CASE \E items \in Range(FieldTypes) : f = ArrayField(name, isIdentity, items)
                                            /\ items \notin {NotValid, ""}
  <2>1. PICK items \in Range(FieldTypes) : f = ArrayField(name, isIdentity, items)
                                            /\ items \notin {NotValid, ""}
    BY <1>4
  <2>2. /\ f.type = "array" /\ f.name = name /\ f.isIdentity = isIdentity
        /\ f.items = items
    BY <2>1 DEF ArrayField
  <2>3. "array" \in Range(FieldTypes) \ {"null"} /\ "array" \notin SimpleTypes
    BY KnownTypes DEF SimpleTypes
  <2> QED BY <1>2, <2>1, <2>2, <2>3
<1>5. CASE f = RecordField(name, isIdentity)
  BY <1>2, <1>5, KnownTypes DEF RecordField, SimpleTypes
<1>6. CASE \E valueType \in EnumTypes : \E values \in Seq(Readings(valueType)) :
              values # <<>> /\ f = EnumField(name, isIdentity, valueType, values)
  <2>1. PICK valueType \in EnumTypes : \E values \in Seq(Readings(valueType)) :
           values # <<>> /\ f = EnumField(name, isIdentity, valueType, values)
    BY <1>6
  <2>2. PICK values \in Seq(Readings(valueType)) :
           values # <<>> /\ f = EnumField(name, isIdentity, valueType, values)
    BY <2>1
  <2>3. /\ f.type = "enum" /\ f.name = name /\ f.isIdentity = isIdentity
        /\ f.valueType = valueType /\ f.allowedValues = values
    BY <2>2 DEF EnumField
  <2>4. f.type \notin SimpleTypes /\ f.type # "array" /\ f.type # "record"
          /\ f.type \in Range(FieldTypes) \ {"null"}
    BY <2>3, KnownTypes DEF SimpleTypes
  <2>5. f = EnumField(f.name, f.isIdentity, f.valueType, f.allowedValues)
    BY <2>2, <2>3
  <2>6. f.valueType \in EnumTypes /\ f.allowedValues # <<>>
          /\ f.allowedValues \in Seq(Readings(f.valueType))
    BY <2>1, <2>2, <2>3
  <2>7. f.isIdentity \in BOOLEAN /\ f.name \in Range(Alphabet) \ {NotValid, ""}
    BY <1>2, <2>3
  <2> QED BY <2>4, <2>5, <2>6, <2>7
<1> QED BY <1>2, <1>3, <1>4, <1>5, <1>6, Zenon

(* The codec: what was read is encoded, and decoded as itself.               *)
LEMMA CodecRoundTrip ==
    ASSUME NEW f, IsReadField(f)
    PROVE  IsDecodable(Encode(f)) /\ Decode(Encode(f)) = f
<1> DEFINE bson == Encode(f)
           name == [name |-> f.name]
           type == [type |-> f.type]
           isIdentity == [isIdentity |-> f.isIdentity]
<1>1. CASE f.type = "array"
  <2>1. bson = <<name, type, isIdentity, [items |-> f.items]>>
    BY <1>1 DEF Encode
  <2>2. bson[2].type = "array" /\ ReadsAs(bson, KeysOf("array"))
    BY <1>1, <2>1 DEF ReadsAs, KeysOf
  <2>3. IsDecodable(bson)
    BY <2>1, <2>2 DEF IsDecodable
  <2>4. Decode(bson) = ArrayField(f.name, f.isIdentity, f.items)
    BY <2>1, <2>2 DEF Decode
  <2> QED BY <1>1, <2>3, <2>4, ReadFieldType
<1>2. CASE f.type = "record"
  <2>1. bson = <<name, type, isIdentity, [fields |-> List]>>
    BY <1>2 DEF Encode
  <2>2. bson[2].type = "record" /\ ReadsAs(bson, KeysOf("record"))
    BY <1>2, <2>1 DEF ReadsAs, KeysOf
  <2>3. IsDecodable(bson)
    BY <2>1, <2>2 DEF IsDecodable
  <2>4. Decode(bson) = RecordField(f.name, f.isIdentity)
    BY <2>1, <2>2 DEF Decode
  <2> QED BY <1>2, <2>3, <2>4, ReadFieldType
<1>3. CASE f.type = "enum"
  <2> DEFINE values == [i \in DOMAIN f.allowedValues |->
                          BsonValue(f.valueType, f.allowedValues[i])]
             back == [i \in DOMAIN values |-> values[i][BsonType(f.valueType)]]
  <2>1. bson = <<name, type, isIdentity, [valueType |-> f.valueType],
                 [allowedValues |-> values]>>
    BY <1>3 DEF Encode
  <2>2. \A i \in DOMAIN values : /\ DOMAIN values[i] = {BsonType(f.valueType)}
                                 /\ values[i][BsonType(f.valueType)] = f.allowedValues[i]
    BY DEF BsonValue
  <2>3. back = f.allowedValues
    <3>1. DOMAIN values = DOMAIN f.allowedValues
      OBVIOUS
    <3>2. f.allowedValues \in Seq(Readings(f.valueType))
      BY <1>3, ReadFieldType
    <3>3. f.allowedValues = [i \in DOMAIN f.allowedValues |-> f.allowedValues[i]]
      BY <3>2
    <3> QED BY <2>2, <3>1, <3>3
  <2> HIDE DEF values
  <2>4. bson[2].type = "enum" /\ ReadsAs(bson, KeysOf("enum"))
    BY <1>3, <2>1 DEF ReadsAs, KeysOf
  <2>5. bson[4].valueType = f.valueType /\ bson[5].allowedValues = values
          /\ Len(bson) = 5 /\ DOMAIN bson[2] = {"type"}
    BY <2>1
  <2>6. IsDecodable(bson)
    BY <2>2, <2>4, <2>5 DEF IsDecodable
  <2>7. Decode(bson) = EnumField(f.name, f.isIdentity, f.valueType, back)
    BY <2>1, <2>4, <2>5 DEF Decode
  <2> QED BY <1>3, <2>3, <2>6, <2>7, ReadFieldType
<1>4. CASE f.type \notin {"array", "record", "enum"}
  <2>1. bson = <<name, type, isIdentity>>
    BY <1>4 DEF Encode
  <2>2. bson[2].type = f.type /\ ReadsAs(bson, KeysOf(f.type))
    BY <1>4, <2>1 DEF ReadsAs, KeysOf
  <2>3. IsDecodable(bson)
    BY <1>4, <2>1, <2>2 DEF IsDecodable
  <2>4. Decode(bson) = SimpleField(f.name, f.type, f.isIdentity)
    BY <1>4, <2>1, <2>2 DEF Decode
  <2> QED BY <1>4, <2>3, <2>4, ReadFieldType, KnownTypes DEF SimpleTypes
<1> QED BY <1>1, <1>2, <1>3, <1>4

(* The writer and the reader: a field that can be written is written as JSON *)
(* the reader accepts, and reads as itself.                                  *)
LEMMA NotValidApart ==
    /\ NotValid \notin BOOLEAN /\ NotValid # List
    /\ NotValid \notin Range(FieldTypes) /\ NotValid \notin EnumTypes
    /\ NotValid \notin Seq(JsonValues)
<1>1. /\ NotValid \notin BOOLEAN /\ NotValid # List
      /\ NotValid \notin Range(FieldTypes) /\ NotValid \notin Seq(JsonValues)
  BY NotValidAssumption
<1>2. EnumTypes \subseteq SimpleTypes
  BY DEF EnumTypes, SimpleTypes
<1> QED BY <1>1, <1>2, KnownTypes

LEMMA WriterRoundTrip ==
    ASSUME NEW f, IsReadField(f), IsWritable(f), NEW json, json = FieldWritten(f)
    PROVE  /\ IsNode(json)
           /\ HasText(json, "name") /\ HasFieldType(json, "type") /\ json.type # "null"
           /\ json.type = f.type /\ json.isIdentity # NotValid
           /\ json.type = "enum" => HasEnumValues(json)
           /\ json.type = "array" => HasFieldType(json, "items")
           /\ json.type = "record" => "fields" \in DOMAIN json /\ json.fields # NotValid
           /\ FieldRead(json) = f
           /\ "type" \in DOMAIN json
<1>1. /\ f.name \in Range(Alphabet) \ {NotValid, ""} /\ f.isIdentity \in BOOLEAN
      /\ f.type \in Range(FieldTypes) \ {"null"} /\ f.type \notin {NotValid, ""}
  BY ReadFieldType, NotValidApart, KnownTypes DEF SimpleTypes
<1>2. CASE f.type \in SimpleTypes
  <2>1. f = SimpleField(f.name, f.type, f.isIdentity) /\ json = f
    BY <1>2, ReadFieldType DEF FieldWritten, SimpleTypes
  <2>2. DOMAIN f = {"name", "type", "isIdentity"}
    BY <2>1 DEF SimpleField
  <2>3. FieldRead(f) = SimpleField(f.name, f.type, f.isIdentity)
    BY <1>1, <1>2, <2>2 DEF FieldRead, SimpleTypes
  <2>4. HasText(json, "name") /\ HasFieldType(json, "type")
    BY <1>1, <2>1, <2>2 DEF HasText, HasFieldType
  <2>5. IsNode(json)
    <3>1. /\ DOMAIN json = DOMAIN f /\ json.isIdentity \in BOOLEAN
          /\ json.name \in Range(Alphabet)
      BY <1>1, <2>1
    <3>2. "fields" \notin DOMAIN json
      BY <2>2, <3>1
    <3>3. "allowedValues" \notin DOMAIN json
      BY <2>2, <3>1
    <3> QED BY <3>1, <3>2, <3>3 DEF IsNode
  <2>6. json.isIdentity # NotValid
    BY <1>1, <2>1, <2>2, NotValidApart
  <2>7. f.type \notin {"array", "record", "enum", "null"}
    BY <1>2 DEF SimpleTypes
  <2> QED BY <1>1, <2>1, <2>2, <2>3, <2>4, <2>5, <2>7, <2>6
<1>3. CASE f.type = "array"
  <2>1. f = ArrayField(f.name, f.isIdentity, f.items) /\ json = f
          /\ f.items \in Range(FieldTypes) /\ f.items \notin {NotValid, ""}
    BY <1>3, ReadFieldType DEF FieldWritten
  <2>2. DOMAIN f = {"name", "type", "isIdentity", "items"}
    BY <2>1 DEF ArrayField
  <2>3. FieldRead(f) = ArrayField(f.name, f.isIdentity, f.items)
    BY <1>1, <1>3, <2>2 DEF FieldRead
  <2>4. HasText(json, "name") /\ HasFieldType(json, "type") /\ HasFieldType(json, "items")
    BY <1>1, <2>1, <2>2 DEF HasText, HasFieldType
  <2>5. IsNode(json)
    <3>1. /\ DOMAIN json = DOMAIN f /\ json.isIdentity \in BOOLEAN
          /\ json.name \in Range(Alphabet)
      BY <1>1, <2>1
    <3>2. "fields" \notin DOMAIN json
      BY <2>2, <3>1
    <3>3. "allowedValues" \notin DOMAIN json
      BY <2>2, <3>1
    <3> QED BY <3>1, <3>2, <3>3 DEF IsNode
  <2>6. json.isIdentity # NotValid
    BY <1>1, <2>1, <2>2, NotValidApart
  <2> QED BY <1>1, <1>3, <2>1, <2>2, <2>3, <2>4, <2>5, <2>6
<1>4. CASE f.type = "record"
  <2>1. f = RecordField(f.name, f.isIdentity) /\ json = f
    BY <1>4, ReadFieldType DEF FieldWritten
  <2>2. DOMAIN f = {"name", "type", "isIdentity", "fields"} /\ f.fields = List
    BY <2>1 DEF RecordField
  <2>3. FieldRead(f) = RecordField(f.name, f.isIdentity)
    BY <1>1, <1>4, <2>2 DEF FieldRead
  <2>4. HasText(json, "name") /\ HasFieldType(json, "type")
    BY <1>1, <2>1, <2>2 DEF HasText, HasFieldType
  <2>5. IsNode(json)
    <3>1. /\ DOMAIN json = DOMAIN f /\ json.isIdentity \in BOOLEAN
          /\ json.name \in Range(Alphabet)
      BY <1>1, <2>1
    <3>2. "fields" \in DOMAIN json => json.fields = List
      BY <2>1, <2>2, <3>1
    <3>3. "allowedValues" \notin DOMAIN json
      BY <2>2, <3>1
    <3> QED BY <3>1, <3>2, <3>3 DEF IsNode
  <2>6. json.isIdentity # NotValid /\ json.fields # NotValid
    BY <1>1, <2>1, <2>2, NotValidApart
  <2> QED BY <1>1, <1>4, <2>1, <2>2, <2>3, <2>4, <2>5, <2>6
<1>5. CASE f.type = "enum"
  <2> DEFINE values == f.allowedValues
             written == [i \in DOMAIN values |-> ValueWritten(f.valueType, values[i])]
             back == [i \in DOMAIN written |-> ValueRead(f.valueType, Given(written[i]))]
  <2>1. /\ f = EnumField(f.name, f.isIdentity, f.valueType, values)
        /\ f.valueType \in EnumTypes /\ values \in Seq(Readings(f.valueType))
        /\ values # <<>>
    BY <1>5, ReadFieldType
  <2>2. json = EnumField(f.name, f.isIdentity, f.valueType, written)
    BY <1>5 DEF FieldWritten
  <2>3. \A x \in Range(values) : IsFinite(f.valueType, x)
    BY <1>5 DEF IsWritable, IsFinite
  <2>4. DOMAIN values = 1 .. Len(values) /\ Len(values) \in Nat \ {0}
    BY <2>1
  <2>5. ASSUME NEW i \in DOMAIN values
        PROVE  /\ written[i] \in JsonValues
               /\ written[i] \in Readable(f.valueType)
               /\ ValueRead(f.valueType, Given(written[i])) = values[i]
    <3>1. values[i] \in Readings(f.valueType)
      BY <2>1
    <3>2. IsFinite(f.valueType, values[i])
      BY <2>3 DEF Range
    <3>3. written[i] = ValueWritten(f.valueType, values[i])
      OBVIOUS
    <3>4. f.valueType \in EnumTypes
      BY <2>1
    <3> DEFINE v == values[i]
    <3>5. written[i] = ValueWritten(f.valueType, v) /\ v \in Readings(f.valueType)
            /\ IsFinite(f.valueType, v)
      BY <3>1, <3>2, <3>3
    <3> HIDE DEF written, v
    <3>6. /\ ValueWritten(f.valueType, v) \in JsonValues
          /\ ValueWritten(f.valueType, v) \in Readable(f.valueType)
          /\ ValueRead(f.valueType, Given(ValueWritten(f.valueType, v))) = v
      BY <3>4, <3>5, WrittenReading
    <3> QED BY <3>5, <3>6 DEF v
  <2>6. DOMAIN written = DOMAIN values
    OBVIOUS
  <2>7. back = values
    <3>1. values = [i \in DOMAIN values |-> values[i]]
      BY <2>1
    <3> QED BY <2>5, <2>6, <3>1
  <2>8. written \in Seq(JsonValues) /\ written # <<>>
    <3>1. written \in [1 .. Len(values) -> JsonValues]
      BY <2>4, <2>5
    <3>2. written \in Seq(JsonValues) /\ Len(written) = Len(values)
      BY <2>4, <3>1
    <3> QED BY <2>4, <3>2
  <2>9. Range(written) \subseteq Readable(f.valueType)
    BY <2>5, <2>6 DEF Range
  <2> HIDE DEF written, values
  <2>10. /\ DOMAIN json = {"name", "type", "isIdentity", "valueType", "allowedValues"}
         /\ json.name = f.name /\ json.type = "enum" /\ json.isIdentity = f.isIdentity
         /\ json.valueType = f.valueType /\ json.allowedValues = written
    BY <2>2 DEF EnumField
  <2>11. FieldRead(json) = EnumField(f.name, f.isIdentity, f.valueType, back)
    BY <1>1, <2>10 DEF FieldRead
  <2>12. f.valueType \notin {NotValid, ""} /\ written # NotValid
    BY <2>1, <2>8, NotValidApart DEF EnumTypes
  <2>13. HasEnumValues(json)
    BY <2>1, <2>8, <2>9, <2>10, <2>12 DEF HasEnumValues, HasText, HasList
  <2>14. IsNode(json)
    BY <1>1, <2>8, <2>10 DEF IsNode
  <2>15. HasText(json, "name") /\ HasFieldType(json, "type")
    BY <1>1, <1>5, <2>10 DEF HasText, HasFieldType
  <2>16. FieldRead(json) = f
    BY <2>1, <2>7, <2>11
  <2>17. json.isIdentity # NotValid
    BY <1>1, <2>10, NotValidApart
  <2> QED BY <1>5, <2>10, <2>13, <2>14, <2>15, <2>16, <2>17
<1> QED BY <1>1, <1>2, <1>3, <1>4, <1>5, KnownTypes

(* What is served for a node is what was submitted.                          *)
LEMMA ServedValue ==
    ASSUME NEW valueType \in EnumTypes, NEW given \in Readable(valueType),
           NEW v, v = ValueRead(valueType, Given(given)), IsFinite(valueType, v)
    PROVE  IsServedFor(valueType, ValueWritten(valueType, v), given)
<1> DEFINE n == Given(given)
<1>1. /\ n \in Int /\ v = ValueRead(valueType, n)
      /\ valueType \in {"int", "long"} => given = [number |-> n] /\ given.number = n
      /\ valueType = "string" => given = [string |-> n]
  BY GivenValue
<1>2. CASE valueType = "float"
  <2> DEFINE w == Rounded(v, FloatUnit)
  <2>1. v = Read(Floats, FloatUnit, n) /\ ~IsInfinite(Floats, v)
    BY <1>2 DEF ValueRead, IsFinite
  <2>2. /\ w \in Int /\ w % FloatUnit = 0
        /\ Nearest(Floats, w) = Nearest(Floats, Rounded(n, FloatUnit))
    BY <1>1, <2>1, FloatWritten DEF Read
  <2>3. ValueWritten(valueType, v) = [number |-> w]
    BY <1>2 DEF ValueWritten
  <2> HIDE DEF w, n
  <2>4. IsNumberServed(Floats, FloatUnit, w, n)
    BY <1>1, <2>2, Constants, NumberTypes, SameNumberServed
  <2> QED BY <1>2, <2>3, <2>4 DEF IsServedFor, n
<1>3. CASE valueType = "double"
  <2> DEFINE w == Rounded(DoubleToString[v], DoubleUnit)
  <2>1. v = Read(Doubles, DoubleUnit, n) /\ ~IsInfinite(Doubles, v)
    BY <1>3 DEF ValueRead, IsFinite
  <2>2. /\ w \in Int /\ w % DoubleUnit = 0
        /\ Nearest(Doubles, w) = Nearest(Doubles, Rounded(n, DoubleUnit))
    BY <1>1, <2>1, DoubleWritten DEF Read
  <2>3. ValueWritten(valueType, v) = [number |-> w]
    BY <1>3 DEF ValueWritten
  <2> HIDE DEF w, n
  <2>4. IsNumberServed(Doubles, DoubleUnit, w, n)
    BY <1>1, <2>2, Constants, NumberTypes, SameNumberServed
  <2> QED BY <1>3, <2>3, <2>4 DEF IsServedFor, n
<1> HIDE DEF n
<1>4. CASE valueType = "int"
  <2>1. ValueWritten(valueType, v) = [number |-> v] /\ v = Truncated(n, IntRange)
    BY <1>1, <1>4 DEF ValueWritten, ValueRead
  <2> QED BY <1>1, <1>4, <2>1 DEF IsServedFor, Fits
<1>5. CASE valueType = "long"
  <2>1. ValueWritten(valueType, v) = [number |-> v] /\ v = Truncated(n, LongRange)
    BY <1>1, <1>5 DEF ValueWritten, ValueRead
  <2> QED BY <1>1, <1>5, <2>1 DEF IsServedFor, Fits
<1>6. CASE valueType = "string"
  <2>1. ValueWritten(valueType, v) = [string |-> v] /\ v = n
    BY <1>1, <1>6 DEF ValueWritten, ValueRead
  <2> QED BY <1>1, <1>6, <2>1 DEF IsServedFor
<1> QED BY <1>2, <1>3, <1>4, <1>5, <1>6 DEF EnumTypes

LEMMA ServedNode ==
    ASSUME NEW tree, NEW p, IsField(tree, p), IsNode(tree[p]),
           NEW json, json = tree[p], IsWritable(FieldRead(json))
    PROVE  ShowsField(FieldWritten(FieldRead(json)), json)
<1> DEFINE isIdentity == "isIdentity" \in DOMAIN json /\ json.isIdentity
           valueType == json.valueType
           values == [i \in DOMAIN json.allowedValues |->
                        ValueRead(valueType, Given(json.allowedValues[i]))]
           f == FieldRead(json)
<1>1. CASE json.type = "array"
  <2>1. f = ArrayField(json.name, isIdentity, json.items)
    BY <1>1 DEF FieldRead
  <2>2. FieldWritten(f) = f
    BY <2>1 DEF FieldWritten, ArrayField
  <2> HIDE DEF isIdentity
  <2>3. /\ f.name = json.name /\ f.type = json.type /\ f.isIdentity = isIdentity
        /\ f.items = json.items
    BY <1>1, <2>1 DEF ArrayField
  <2> HIDE DEF f
  <2>4. ShowsField(f, json)
    BY <1>1, <2>3 DEF ShowsField, isIdentity
  <2> QED BY <2>2, <2>4 DEF f
<1>2. CASE json.type = "record"
  <2>1. f = RecordField(json.name, isIdentity)
    BY <1>2 DEF FieldRead
  <2>2. FieldWritten(f) = f
    BY <2>1 DEF FieldWritten, RecordField
  <2>3. json.fields = List
    BY <1>2 DEF IsField, HasFields, IsNode
  <2> HIDE DEF isIdentity
  <2>4. /\ f.name = json.name /\ f.type = json.type /\ f.isIdentity = isIdentity
        /\ f.fields = json.fields
    BY <1>2, <2>1, <2>3 DEF RecordField
  <2> HIDE DEF f
  <2>5. ShowsField(f, json)
    BY <1>2, <2>4 DEF ShowsField, isIdentity
  <2> QED BY <2>2, <2>5 DEF f
<1>3. CASE json.type = "enum"
  <2> DEFINE written == [i \in DOMAIN values |-> ValueWritten(valueType, values[i])]
             served == FieldWritten(f)
  <2>1. f = EnumField(json.name, isIdentity, valueType, values)
    BY <1>3 DEF FieldRead
  <2>2. /\ valueType \in EnumTypes
        /\ json.allowedValues \in Seq(JsonValues)
        /\ \A i \in DOMAIN json.allowedValues :
              json.allowedValues[i] \in Readable(valueType)
    BY <1>3 DEF IsField, HasEnumValues, HasList, IsNode, Range
  <2>3. DOMAIN json.allowedValues = 1 .. Len(json.allowedValues)
          /\ Len(json.allowedValues) \in Nat
    BY <2>2
  <2>4. /\ \A i \in DOMAIN json.allowedValues :
             values[i] = ValueRead(valueType, Given(json.allowedValues[i]))
        /\ DOMAIN values = DOMAIN json.allowedValues
    OBVIOUS
  <2> HIDE DEF isIdentity, values, valueType
  <2>5. /\ f.type = "enum" /\ f.name = json.name /\ f.isIdentity = isIdentity
        /\ f.valueType = valueType /\ f.allowedValues = values
    BY <2>1 DEF EnumField
  <2>6. served = EnumField(json.name, isIdentity, valueType, written)
    BY <2>5 DEF FieldWritten
  <2>7. /\ \A i \in DOMAIN json.allowedValues :
             written[i] = ValueWritten(valueType, values[i])
        /\ DOMAIN written = DOMAIN json.allowedValues
    BY <2>4
  <2>8. ASSUME NEW i \in DOMAIN json.allowedValues
        PROVE  IsServedFor(valueType, written[i], json.allowedValues[i])
    <3> DEFINE given == json.allowedValues[i]
               v == values[i]
    <3>1. given \in Readable(valueType)
            /\ v = ValueRead(valueType, Given(given))
            /\ written[i] = ValueWritten(valueType, v)
      BY <2>2, <2>3, <2>4, <2>7
    <3>2. IsFinite(valueType, v)
      BY <2>4, <2>5 DEF IsWritable, IsFinite, Range
    <3> HIDE DEF given, v, written
    <3>3. IsServedFor(valueType, ValueWritten(valueType, v), given)
      BY <2>2, <3>1, <3>2, ServedValue
    <3> QED BY <3>1, <3>3 DEF given
  <2>9. Len(written) = Len(json.allowedValues)
    <3>1. DOMAIN written = 1 .. Len(json.allowedValues)
      BY <2>3, <2>7
    <3> QED BY <2>3, <3>1
  <2> HIDE DEF written, f
  <2>10. /\ served.type = "enum" /\ served.name = json.name
         /\ served.isIdentity = isIdentity
         /\ served.valueType = valueType /\ served.allowedValues = written
    BY <2>6 DEF EnumField
  <2> HIDE DEF served
  <2>11. ShowsField(served, json)
    BY <1>3, <2>8, <2>9, <2>10 DEF ShowsField, isIdentity, valueType
  <2> QED BY <2>11 DEF served, f
<1>4. CASE json.type \notin {"array", "record", "enum"}
  <2>1. f = SimpleField(json.name, json.type, isIdentity)
    BY <1>4 DEF FieldRead
  <2> HIDE DEF isIdentity
  <2>2. f.name = json.name /\ f.type = json.type /\ f.isIdentity = isIdentity
    BY <2>1 DEF SimpleField
  <2>3. FieldWritten(f) = f
    BY <1>4, <2>2 DEF FieldWritten
  <2> HIDE DEF f
  <2>4. ShowsField(f, json)
    BY <1>4, <2>2 DEF ShowsField, isIdentity
  <2> QED BY <2>3, <2>4 DEF f
<1> QED BY <1>1, <1>2, <1>3, <1>4

-----------------------------------------------------------------------------
(* Trees.  The fields of a request are a tree all of whose places can be     *)
(* reached, with a field the reader made at every place, and stay one when   *)
(* written.                                                                  *)
Steps == Nat \ {0}

LEMMA Prefix ==
    ASSUME NEW S, NEW p \in Seq(S), NEW k \in 0 .. Len(p)
    PROVE  /\ Upto(p, k) \in Seq(S) /\ Len(Upto(p, k)) = k
           /\ \A i \in 1 .. k : Upto(p, k)[i] = p[i]
           /\ \A j \in 0 .. k : Upto(Upto(p, k), j) = Upto(p, j)
           /\ k = Len(p) => Upto(p, k) = p
<1>1. Len(p) \in Nat /\ \A i \in 1 .. Len(p) : p[i] \in S
  OBVIOUS
<1>2. ASSUME NEW n \in 0 .. Len(p)
      PROVE  /\ Upto(p, n) \in Seq(S) /\ Len(Upto(p, n)) = n
             /\ \A i \in 1 .. n : Upto(p, n)[i] = p[i]
  <2>1. 1 \in Int /\ n \in Int /\ \A i \in 1 .. n : p[i] \in S
    BY <1>1
  <2>2. /\ SubSeq(p, 1, n) \in Seq(S)
        /\ Len(SubSeq(p, 1, n)) = IF 1 <= n THEN n - 1 + 1 ELSE 0
        /\ \A i \in 1 .. n - 1 + 1 : SubSeq(p, 1, n)[i] = p[1 + i - 1]
    BY <2>1, SubSeqProperties
  <2> QED BY <1>1, <2>1, <2>2 DEF Upto
<1>3. ASSUME NEW j \in 0 .. k
      PROVE  Upto(Upto(p, k), j) = Upto(p, j)
  <2> DEFINE q == Upto(p, k)
  <2>1. q \in Seq(S) /\ Len(q) = k /\ \A i \in 1 .. k : q[i] = p[i]
    BY <1>2
  <2> HIDE DEF q
  <2>2. \A i \in 1 .. j : q[i] \in S
    BY <2>1
  <2>3. /\ SubSeq(q, 1, j) \in Seq(S)
        /\ Len(SubSeq(q, 1, j)) = IF 1 <= j THEN j - 1 + 1 ELSE 0
        /\ \A i \in 1 .. j - 1 + 1 : SubSeq(q, 1, j)[i] = q[1 + i - 1]
    BY <2>2, SubSeqProperties
  <2>4. /\ Upto(q, j) \in Seq(S) /\ Len(Upto(q, j)) = j
        /\ \A i \in 1 .. j : Upto(q, j)[i] = q[i]
    BY <2>3 DEF Upto
  <2>5. /\ Upto(p, j) \in Seq(S) /\ Len(Upto(p, j)) = j
        /\ \A i \in 1 .. j : Upto(p, j)[i] = p[i]
    BY <1>1, <1>2
  <2>6. \A i \in 1 .. j : Upto(q, j)[i] = Upto(p, j)[i]
    BY <2>1, <2>4, <2>5
  <2> HIDE DEF q
  <2>7. Upto(q, j) = Upto(p, j)
    BY <2>4, <2>5, <2>6, SeqEqual
  <2> QED BY <2>7 DEF q
<1>4. ASSUME k = Len(p)
      PROVE  Upto(p, k) = p
  BY <1>4, SubSeqFull DEF Upto
<1> QED BY <1>2, <1>3, <1>4

IsSchema(fields) ==
    /\ IsFiniteSet(DOMAIN fields)
    /\ fields = [p \in DOMAIN fields |-> fields[p]]
    /\ DOMAIN fields \subseteq Seq(Steps) \ {<<>>}
    /\ <<1>> \in DOMAIN fields
    /\ \A p \in DOMAIN fields :
          /\ IsReadField(fields[p])
          /\ fields[p].type = "record" => Append(p, 1) \in DOMAIN fields
          /\ \A k \in 1 .. Len(p) : Upto(p, k) \in DOMAIN fields
          /\ \A k \in 1 .. Len(p) - 1 : fields[Upto(p, k)].type = "record"
          /\ Last(p) > 1 => [p EXCEPT ![Len(p)] = @ - 1] \in DOMAIN fields

IsBody(b) ==
    /\ {"name", "applicationId", "majorVersion", "minorVersion", "fields", "tree"}
          \subseteq DOMAIN b
    /\ {b.majorVersion, b.minorVersion} \subseteq Int \cup {NotValid}
    /\ IsFiniteSet(DOMAIN b.tree)
    /\ \A p \in DOMAIN b.tree : IsPlace(b.tree, p) /\ IsNode(b.tree[p])

LEMMA TreePrefix ==
    ASSUME NEW tree, \A p \in DOMAIN tree : IsPlace(tree, p),
           NEW p \in DOMAIN tree, NEW k \in 1 .. Len(p)
    PROVE  Upto(p, k) \in DOMAIN tree
<1> DEFINE In(i) == Upto(p, i) \in DOMAIN tree
           out == {i \in 1 .. Len(p) : ~In(Len(p) - i + 1)}
<1>1. p \in Seq(Steps) /\ p # <<>>
  BY DEF IsPlace, Steps
<1>2. p \in Seq(Steps) /\ p # <<>> /\ Len(p) \in Nat \ {0}
  BY <1>1, EmptySeq
<1>3. In(Len(p))
  BY <1>2, Prefix
<1>4. ASSUME NEW i \in 2 .. Len(p), In(i)
      PROVE  In(i - 1)
  <2>1. Len(Upto(p, i)) = i /\ Upto(Upto(p, i), i - 1) = Upto(p, i - 1)
    BY <1>2, Prefix
  <2>2. IsPlace(tree, Upto(p, i))
    BY <1>4
  <2> QED BY <2>1, <2>2 DEF IsPlace
<1> HIDE DEF In
<1>5. ASSUME out # {}
      PROVE  FALSE
  <2>1. out \in SUBSET Nat
    BY <1>2
  <2>2. PICK i \in out : \A j \in out : i <= j
    BY <1>5, <2>1, LeastNatural
  <2>3. i \in 1 .. Len(p) /\ ~In(Len(p) - i + 1)
    OBVIOUS
  <2>4. i # 1
    BY <1>2, <1>3, <2>3
  <2>5. i - 1 \in 1 .. Len(p) /\ i - 1 \notin out
    BY <1>2, <2>2, <2>3, <2>4
  <2>6. In(Len(p) - (i - 1) + 1)
    BY <2>5
  <2>7. Len(p) - (i - 1) + 1 \in 2 .. Len(p)
          /\ (Len(p) - (i - 1) + 1) - 1 = Len(p) - i + 1
    BY <1>2, <2>3, <2>4
  <2> QED BY <1>4, <2>3, <2>6, <2>7
<1>6. Len(p) - k + 1 \in 1 .. Len(p) /\ Len(p) - (Len(p) - k + 1) + 1 = k
  BY <1>2
<1>7. In(k)
  BY <1>5, <1>6
<1> QED BY <1>7 DEF In

LEMMA SamePrefix ==
    ASSUME NEW S, NEW p \in Seq(S), NEW q \in Seq(S), NEW k \in Nat,
           k <= Len(p), k <= Len(q), \A i \in 1 .. k : p[i] = q[i]
    PROVE  Upto(p, k) = Upto(q, k)
<1>1. k \in 0 .. Len(p) /\ k \in 0 .. Len(q)
  OBVIOUS
<1>2. /\ Upto(p, k) \in Seq(S) /\ Len(Upto(p, k)) = k
      /\ \A i \in 1 .. k : Upto(p, k)[i] = p[i]
      /\ Upto(q, k) \in Seq(S) /\ Len(Upto(q, k)) = k
      /\ \A i \in 1 .. k : Upto(q, k)[i] = q[i]
  BY <1>1, Prefix
<1> QED BY <1>2, SeqEqual

LEMMA AppendPrefix ==
    ASSUME NEW S, NEW p \in Seq(S), NEW i \in S
    PROVE  /\ Append(p, i) \in Seq(S) /\ Len(Append(p, i)) = Len(p) + 1
           /\ Append(p, i) # <<>>
           /\ Append(p, i)[Len(p) + 1] = i /\ Last(Append(p, i)) = i
           /\ \A k \in 0 .. Len(p) : Upto(Append(p, i), k) = Upto(p, k)
           /\ Upto(Append(p, i), Len(p)) = p
           /\ \A k \in 1 .. Len(p) : Append(p, i)[k] = p[k]
<1>1. /\ Append(p, i) \in Seq(S) /\ Len(Append(p, i)) = Len(p) + 1
      /\ Append(p, i) # <<>> /\ Len(p) \in Nat
      /\ Append(p, i)[Len(p) + 1] = i
      /\ \A k \in 1 .. Len(p) : Append(p, i)[k] = p[k]
  OBVIOUS
<1>2. ASSUME NEW k \in 0 .. Len(p)
      PROVE  Upto(Append(p, i), k) = Upto(p, k)
  <2> DEFINE q == Append(p, i)
  <2>1. q \in Seq(S) /\ k \in Nat /\ k <= Len(p) /\ k <= Len(q)
          /\ \A j \in 1 .. k : q[j] = p[j]
    BY <1>1
  <2> HIDE DEF q
  <2>2. Upto(q, k) = Upto(p, k)
    BY <2>1, SamePrefix
  <2> QED BY <2>2 DEF q
<1>3. Upto(p, Len(p)) = p
  BY <1>1, Prefix
<1> QED BY <1>1, <1>2, <1>3 DEF Last

LEMMA FieldReadType ==
    ASSUME NEW tree, NEW p, IsField(tree, p)
    PROVE  FieldRead(tree[p]).type = tree[p].type
BY DEF FieldRead, ArrayField, RecordField, EnumField, SimpleField

LEMMA RequestSchema ==
    ASSUME NEW b, IsBody(b), IsRequest(b), NEW fields, fields = FieldsRead(b.tree)
    PROVE  /\ IsSchema(fields)
           /\ DOMAIN fields = Reached(b.tree)
           /\ \A p \in DOMAIN fields : IsComplete(fields, p)
<1> DEFINE tree == b.tree
<1>1. /\ fields = [p \in Reached(tree) |-> FieldRead(tree[p])]
      /\ DOMAIN fields = Reached(tree)
      /\ \A p \in Reached(tree) : fields[p] = FieldRead(tree[p])
  BY DEF FieldsRead
<1>2. /\ \A p \in DOMAIN tree : IsPlace(tree, p) /\ IsNode(tree[p])
      /\ IsFiniteSet(DOMAIN tree)
      /\ \A p \in Reached(tree) : IsField(tree, p)
      /\ Append(<<>>, 1) \in DOMAIN tree
  BY DEF IsBody, IsRequest, HasFields
<1>3. Reached(tree) \subseteq DOMAIN tree
  BY DEF Reached
<1>4. \A p \in DOMAIN tree : p \in Seq(Steps) /\ p # <<>> /\ Len(p) \in Nat \ {0}
  <2>1. \A p \in DOMAIN tree : p \in Seq(Steps) /\ p # <<>>
    BY <1>2 DEF IsPlace, Steps
  <2> QED BY <2>1, EmptySeq
<1> HIDE DEF tree
<1>5. ASSUME NEW p \in Reached(tree)
      PROVE  /\ IsReadField(fields[p]) /\ fields[p].type = tree[p].type
             /\ "type" \in DOMAIN tree[p]
  <2>1. IsField(tree, p) /\ IsNode(tree[p]) /\ fields[p] = FieldRead(tree[p])
    BY <1>1, <1>2, <1>3
  <2> QED BY <2>1, FieldReadIsRead, FieldReadType DEF IsField, HasFieldType, HasText
<1>6. ASSUME NEW p \in Reached(tree), NEW k \in 1 .. Len(p)
      PROVE  /\ Upto(p, k) \in Reached(tree)
             /\ k < Len(p) => fields[Upto(p, k)].type = "record"
  <2>1. p \in DOMAIN tree /\ \A j \in 1 .. Len(p) - 1 : IsRecord(tree[Upto(p, j)])
    BY DEF Reached
  <2>2. p \in Seq(Steps) /\ Len(p) \in Nat
    BY <1>4, <2>1
  <2>3. Upto(p, k) \in DOMAIN tree
    BY <1>2, <2>1, TreePrefix
  <2>4. Len(Upto(p, k)) = k /\ \A j \in 0 .. k : Upto(Upto(p, k), j) = Upto(p, j)
    BY <2>2, Prefix
  <2>5. \A j \in 1 .. k - 1 : IsRecord(tree[Upto(Upto(p, k), j)])
    BY <2>1, <2>2, <2>4
  <2>6. Upto(p, k) \in Reached(tree)
    BY <2>3, <2>4, <2>5 DEF Reached
  <2>7. ASSUME k < Len(p)
        PROVE  fields[Upto(p, k)].type = "record"
    <3>1. IsRecord(tree[Upto(p, k)])
      BY <2>1, <2>2, <2>7
    <3> QED BY <1>5, <2>6, <3>1 DEF IsRecord
  <2> QED BY <2>6, <2>7
<1>7. ASSUME NEW p \in Reached(tree), NEW q \in DOMAIN tree, Len(q) = Len(p),
             \A i \in 1 .. Len(p) - 1 : q[i] = p[i]
      PROVE  q \in Reached(tree)
  <2>1. p \in DOMAIN tree /\ \A j \in 1 .. Len(p) - 1 : IsRecord(tree[Upto(p, j)])
    BY DEF Reached
  <2>2. p \in Seq(Steps) /\ q \in Seq(Steps) /\ Len(p) \in Nat
    BY <1>4, <2>1
  <2>3. ASSUME NEW j \in 1 .. Len(p) - 1
        PROVE  Upto(q, j) = Upto(p, j)
    <3>1. j \in Nat /\ j <= Len(p) /\ j <= Len(q) /\ \A i \in 1 .. j : q[i] = p[i]
      BY <1>7, <2>2
    <3> QED BY <2>2, <3>1, SamePrefix
  <2> QED BY <1>7, <2>1, <2>3 DEF Reached
<1>8. ASSUME NEW p \in Reached(tree), fields[p].type = "record"
      PROVE  Append(p, 1) \in Reached(tree)
  <2> DEFINE q == Append(p, 1)
  <2>1. p \in DOMAIN tree /\ \A j \in 1 .. Len(p) - 1 : IsRecord(tree[Upto(p, j)])
    BY DEF Reached
  <2>2. p \in Seq(Steps) /\ Len(p) \in Nat /\ 1 \in Steps
    BY <1>4, <2>1 DEF Steps
  <2>3. tree[p].type = "record" /\ "type" \in DOMAIN tree[p]
    BY <1>5, <1>8
  <2>4. q \in DOMAIN tree
    BY <1>2, <2>3 DEF IsField, HasFields
  <2>5. Len(q) = Len(p) + 1 /\ \A k \in 0 .. Len(p) : Upto(q, k) = Upto(p, k)
    BY <2>2, AppendPrefix
  <2>6. Upto(p, Len(p)) = p
    BY <2>2, Prefix
  <2> HIDE DEF q
  <2>7. \A j \in 1 .. Len(q) - 1 : IsRecord(tree[Upto(q, j)])
    BY <2>1, <2>2, <2>3, <2>5, <2>6 DEF IsRecord
  <2>8. q \in Reached(tree)
    BY <2>4, <2>7 DEF Reached
  <2> QED BY <2>8 DEF q
<1>9. <<1>> \in Reached(tree)
  <2>1. Append(<<>>, 1) = <<1>> /\ Len(<<1>>) = 1
    OBVIOUS
  <2> QED BY <1>2, <2>1 DEF Reached, tree
<1>10. ASSUME NEW p \in Reached(tree), Last(p) > 1
       PROVE  [p EXCEPT ![Len(p)] = @ - 1] \in Reached(tree)
  <2> DEFINE q == [p EXCEPT ![Len(p)] = @ - 1]
  <2>1. p \in DOMAIN tree /\ p \in Seq(Steps) /\ Len(p) \in Nat \ {0}
    BY <1>3, <1>4
  <2>2. q \in DOMAIN tree
    BY <1>2, <1>10, <2>1 DEF IsPlace
  <2>3. Len(q) = Len(p) /\ \A i \in 1 .. Len(p) - 1 : q[i] = p[i]
    BY <2>1
  <2> HIDE DEF q
  <2>4. q \in Reached(tree)
    BY <1>7, <2>2, <2>3
  <2> QED BY <2>4 DEF q
<1>11. IsFiniteSet(Reached(tree))
  BY <1>2, <1>3, FS_Subset
<1>12. IsSchema(fields)
  <2>1. DOMAIN fields \subseteq Seq(Steps) \ {<<>>}
    BY <1>1, <1>3, <1>4
  <2>2. ASSUME NEW p \in DOMAIN fields
        PROVE  \A k \in 1 .. Len(p) - 1 : k \in 1 .. Len(p) /\ k < Len(p)
    BY <1>1, <1>3, <1>4
  <2>3. fields = [p \in DOMAIN fields |-> fields[p]]
    BY <1>1
  <2> QED BY <1>1, <1>5, <1>6, <1>8, <1>9, <1>10, <1>11, <2>1, <2>2, <2>3 DEF IsSchema
<1>13. ASSUME NEW p \in DOMAIN fields
       PROVE  IsComplete(fields, p)
  <2>1. IsReadField(fields[p])
    BY <1>1, <1>5
  <2>2. fields[p].type = "record" => Append(p, 1) \in DOMAIN fields
    BY <1>1, <1>8
  <2> QED BY <2>1, <2>2, ReadFieldType DEF IsComplete
<1> QED BY <1>1, <1>12, <1>13 DEF tree

(* A tree of fields that can be written is read as itself. *)
LEMMA SchemaAgain ==
    ASSUME NEW fields, IsSchema(fields), CanWrite(fields),
           NEW tree, tree = FieldsWritten(fields)
    PROVE  /\ DOMAIN tree = DOMAIN fields /\ Reached(tree) = DOMAIN fields
           /\ \A p \in DOMAIN fields : IsField(tree, p)
           /\ FieldsRead(tree) = fields
           /\ Append(<<>>, 1) \in DOMAIN tree
<1>1. DOMAIN tree = DOMAIN fields
        /\ \A p \in DOMAIN fields : tree[p] = FieldWritten(fields[p])
  BY DEF FieldsWritten
<1>2. ASSUME NEW p \in DOMAIN fields
      PROVE  /\ IsField(tree, p) /\ FieldRead(tree[p]) = fields[p]
             /\ "type" \in DOMAIN tree[p] /\ tree[p].type = fields[p].type
  <2> DEFINE json == tree[p]
  <2>1. json = FieldWritten(fields[p]) /\ IsReadField(fields[p]) /\ IsWritable(fields[p])
    BY <1>1 DEF IsSchema, CanWrite
  <2>2. fields[p].type = "record" => Append(p, 1) \in DOMAIN tree
    BY <1>1 DEF IsSchema
  <2> HIDE DEF json
  <2>3. /\ HasText(json, "name") /\ HasFieldType(json, "type") /\ json.type # "null"
        /\ json.type = fields[p].type /\ json.isIdentity # NotValid
        /\ json.type = "enum" => HasEnumValues(json)
        /\ json.type = "array" => HasFieldType(json, "items")
        /\ json.type = "record" => "fields" \in DOMAIN json /\ json.fields # NotValid
        /\ FieldRead(json) = fields[p]
        /\ "type" \in DOMAIN json
    BY <2>1, WriterRoundTrip
  <2>4. json.type = "record" => HasFields(json, tree, p)
    BY <2>2, <2>3 DEF HasFields
  <2>5. IsField(tree, p)
    BY <2>3, <2>4 DEF IsField, json
  <2> QED BY <2>3, <2>5 DEF json
<1>3. Reached(tree) = DOMAIN fields
  <2>1. ASSUME NEW p \in DOMAIN fields, NEW k \in 1 .. Len(p) - 1
        PROVE  IsRecord(tree[Upto(p, k)])
    <3>1. p \in Seq(Steps) /\ fields[Upto(p, k)].type = "record"
            /\ \A j \in 1 .. Len(p) : Upto(p, j) \in DOMAIN fields
      BY DEF IsSchema
    <3>2. k \in 1 .. Len(p)
      BY <3>1
    <3> QED BY <1>2, <3>1, <3>2 DEF IsRecord
  <2> QED BY <1>1, <2>1 DEF Reached
<1>4. FieldsRead(tree) = fields
  <2>1. FieldsRead(tree) = [p \in DOMAIN fields |-> FieldRead(tree[p])]
    BY <1>3 DEF FieldsRead
  <2>2. fields = [p \in DOMAIN fields |-> fields[p]]
    BY DEF IsSchema
  <2> QED BY <1>2, <2>1, <2>2
<1>5. Append(<<>>, 1) = <<1>> /\ <<1>> \in DOMAIN fields
  BY DEF IsSchema
<1> QED BY <1>1, <1>2, <1>3, <1>4, <1>5

-----------------------------------------------------------------------------
(* Documents.  A request is stored as a document that decodes to its fields. *)
Document(b) == DocumentOf(RequestRead(b))

LEMMA BodyFacts ==
    \A b \in Submissions \cup Proposals : IsBody(b)
BY BodiesAssumption DEF IsBody

LEMMA DocumentFacts ==
    ASSUME NEW b, IsBody(b), IsRequest(b), NEW d, d = Document(b)
    PROVE  /\ d.name = b.name /\ d.applicationId = b.applicationId
           /\ d.majorVersion = VersionRead(b.majorVersion)
           /\ d.minorVersion = VersionRead(b.minorVersion)
           /\ VersionRead(b.majorVersion) \in Nat \ {0}
           /\ VersionRead(b.minorVersion) \in Nat \ {0}
           /\ CanDecode(d)
           /\ SchemaOf(d).fields = FieldsRead(b.tree)
           /\ d = [name |-> d.name, applicationId |-> d.applicationId,
                   majorVersion |-> d.majorVersion, minorVersion |-> d.minorVersion,
                   fields |-> d.fields]
<1> DEFINE fields == FieldsRead(b.tree)
           encoded == [p \in DOMAIN fields |-> Encode(fields[p])]
<1>1. IsSchema(fields)
  BY RequestSchema
<1>2. fields = [p \in DOMAIN fields |-> fields[p]] /\ \A p \in DOMAIN fields : IsReadField(fields[p])
  BY <1>1 DEF IsSchema
<1> HIDE DEF fields
<1>3. RequestRead(b) = [name |-> b.name, applicationId |-> b.applicationId,
                        majorVersion |-> VersionRead(b.majorVersion),
                        minorVersion |-> VersionRead(b.minorVersion), fields |-> fields]
  BY DEF RequestRead, fields
<1>4. d = [name |-> b.name, applicationId |-> b.applicationId,
           majorVersion |-> VersionRead(b.majorVersion),
           minorVersion |-> VersionRead(b.minorVersion), fields |-> encoded]
  BY <1>3 DEF Document, DocumentOf
<1>5. d.fields = encoded /\ DOMAIN encoded = DOMAIN fields
        /\ \A p \in DOMAIN fields : encoded[p] = Encode(fields[p])
  BY <1>4
<1>6. CanDecode(d)
  BY <1>2, <1>5, CodecRoundTrip DEF CanDecode
<1>7. SchemaOf(d).fields = [p \in DOMAIN encoded |-> Decode(encoded[p])]
  BY <1>4 DEF SchemaOf
<1>8. SchemaOf(d).fields = fields
  BY <1>2, <1>5, <1>7, CodecRoundTrip
<1>9. VersionRead(b.majorVersion) \in Nat \ {0} /\ VersionRead(b.minorVersion) \in Nat \ {0}
  <2>1. b.majorVersion \in Int /\ b.minorVersion \in Int
          /\ VersionRead(b.majorVersion) >= 1 /\ VersionRead(b.minorVersion) >= 1
    BY DEF IsRequest, HasPositiveInt, IsBody
  <2> QED BY <2>1, VersionReadAgain
<1> HIDE DEF encoded
<1> QED BY <1>4, <1>6, <1>8, <1>9 DEF fields

(* What is served for a document. *)
ServedFor(d) == [d EXCEPT !.fields = FieldsWritten(SchemaOf(d).fields)]

LEMMA ServedSchema ==
    ASSUME NEW b, IsBody(b), IsRequest(b), NEW s, s = ServedFor(Document(b)),
           CanWrite(FieldsRead(b.tree))
    PROVE  /\ s.name = b.name /\ s.applicationId = b.applicationId
           /\ s.fields = FieldsWritten(FieldsRead(b.tree))
           /\ Shows(s.fields, b.tree)
           /\ IsRequest(AsBody(s))
           /\ RequestRead(AsBody(s)) = RequestRead(b)
<1> DEFINE d == Document(b)
           fields == FieldsRead(b.tree)
           tree == FieldsWritten(fields)
           body == AsBody(s)
<1>1. /\ d.name = b.name /\ d.applicationId = b.applicationId
      /\ d.majorVersion = VersionRead(b.majorVersion)
      /\ d.minorVersion = VersionRead(b.minorVersion)
      /\ VersionRead(b.majorVersion) \in Nat \ {0}
      /\ VersionRead(b.minorVersion) \in Nat \ {0}
      /\ SchemaOf(d).fields = fields
      /\ d = [name |-> d.name, applicationId |-> d.applicationId,
              majorVersion |-> d.majorVersion, minorVersion |-> d.minorVersion,
              fields |-> d.fields]
  BY DocumentFacts
<1>2. /\ IsSchema(fields) /\ DOMAIN fields = Reached(b.tree)
  BY RequestSchema
<1> HIDE DEF d, fields
<1>3. s = [name |-> d.name, applicationId |-> d.applicationId,
           majorVersion |-> d.majorVersion, minorVersion |-> d.minorVersion,
           fields |-> tree]
  BY <1>1 DEF ServedFor, d
<1>4. CanWrite(fields)
  BY DEF fields
<1>5. /\ DOMAIN tree = DOMAIN fields /\ Reached(tree) = DOMAIN fields
      /\ \A p \in DOMAIN fields : IsField(tree, p)
      /\ FieldsRead(tree) = fields
      /\ Append(<<>>, 1) \in DOMAIN tree
  BY <1>2, <1>4, SchemaAgain
<1>6. Shows(tree, b.tree)
  <2>1. ASSUME NEW p \in DOMAIN tree
        PROVE  ShowsField(tree[p], b.tree[p])
    <3>1. p \in Reached(b.tree) /\ p \in DOMAIN b.tree /\ p \in DOMAIN fields
      BY <1>2, <1>5 DEF Reached
    <3>2. IsField(b.tree, p) /\ IsNode(b.tree[p])
      BY <3>1 DEF IsRequest, IsBody
    <3>3. fields[p] = FieldRead(b.tree[p]) /\ tree[p] = FieldWritten(fields[p])
            /\ IsWritable(fields[p])
      BY <1>4, <3>1 DEF FieldsRead, FieldsWritten, CanWrite, fields
    <3> QED BY <3>2, <3>3, ServedNode
  <2> QED BY <1>2, <1>5, <2>1 DEF Shows
<1> HIDE DEF tree
<1>7. /\ body = [name |-> b.name, applicationId |-> b.applicationId,
                 majorVersion |-> One * VersionRead(b.majorVersion),
                 minorVersion |-> One * VersionRead(b.minorVersion),
                 fields |-> List, tree |-> tree]
      /\ DOMAIN body = {"name", "applicationId", "majorVersion", "minorVersion",
                        "fields", "tree"}
  BY <1>1, <1>3 DEF AsBody
<1> HIDE DEF body
<1>8. b.majorVersion \in Int /\ b.minorVersion \in Int
  BY DEF IsRequest, HasPositiveInt, IsBody
<1>9. /\ body.majorVersion \in Int /\ body.minorVersion \in Int
      /\ VersionRead(body.majorVersion) = VersionRead(b.majorVersion)
      /\ VersionRead(body.minorVersion) = VersionRead(b.minorVersion)
  BY <1>7, <1>8, VersionReadAgain
<1>10. body.majorVersion # NotValid /\ body.minorVersion # NotValid
  BY <1>9, NotValidAssumption
<1>11. IsRequest(body)
  <2>1. HasText(body, "name") /\ HasText(body, "applicationId")
    BY <1>7 DEF IsRequest, HasText
  <2>2. HasPositiveInt(body, "majorVersion") /\ HasPositiveInt(body, "minorVersion")
    BY <1>1, <1>7, <1>9, <1>10 DEF HasPositiveInt
  <2>3. body.tree = tree /\ HasFields(body, body.tree, <<>>)
    BY <1>5, <1>7, NotValidApart DEF HasFields
  <2> QED BY <1>5, <2>1, <2>2, <2>3 DEF IsRequest
<1>12. RequestRead(body) = RequestRead(b)
  BY <1>5, <1>7, <1>9 DEF RequestRead, fields
<1>13. s.name = b.name /\ s.applicationId = b.applicationId /\ s.fields = tree
  BY <1>1, <1>3
<1> QED BY <1>6, <1>11, <1>12, <1>13 DEF body, tree, fields

-----------------------------------------------------------------------------
(* The state.  With one request after the other only version 1.1 of a name   *)
(* is ever stored, so there is one document of a name, that of the accepted  *)
(* body; and a response is about the documents that are still there, since   *)
(* nothing changes them before the client has taken it.                      *)
Storable == {b \in Submissions : IsRequest(b) /\ VersionRead(b.majorVersion) = 1
                                              /\ VersionRead(b.minorVersion) = 1}

Kept == /\ accepted \subseteq Storable
        /\ \A b, c \in accepted : b.name = c.name => b = c
        /\ documents = {Document(b) : b \in accepted}

Judgement == IF IsRequest(asked.body)
             THEN Compared(RequestRead(asked.body)) ELSE BadRequest

Answered ==
    /\ response.status \in {0, 200, 201, 400, 404, 500, 503}
    /\ response.status # 0 =>
          asked.op \in {"create", "getVersion", "getAll", "delete", "check"}
    /\ response.status = 0 => asked.op = "none"
    /\ asked.op \in {"getVersion", "getAll"} =>
          response.status = 404 \/ \E docs \in SUBSET documents : response = Served(docs)
    /\ asked.op = "delete" =>
          response.status = 404
          \/ \E bodies \in SUBSET Storable : response = Served({Document(b) : b \in bodies})
    /\ asked.op = "check" =>
          /\ asked.body \in Proposals
          /\ response = Judgement

ContentInv == Kept /\ Answered

LEMMA StorableFacts ==
    ASSUME NEW b \in Storable
    PROVE  /\ IsBody(b) /\ IsRequest(b) /\ b \in Submissions
           /\ Document(b).name = b.name
           /\ Document(b).majorVersion = 1 /\ Document(b).minorVersion = 1
           /\ CanDecode(Document(b))
           /\ SchemaOf(Document(b)).fields = FieldsRead(b.tree)
<1>1. /\ IsBody(b) /\ IsRequest(b) /\ b \in Submissions
      /\ VersionRead(b.majorVersion) = 1 /\ VersionRead(b.minorVersion) = 1
  BY BodyFacts DEF Storable
<1> QED BY <1>1, DocumentFacts

(* The documents of a name and version, when each name has one, 1.1. *)
LEMMA MatchingKept ==
    ASSUME Kept, NEW name, NEW major, NEW minor
    PROVE  /\ Matching(documents, name, major, minor) =
                IF major = 1 /\ minor = 1 THEN {Document(b) : b \in {c \in accepted : c.name = name}}
                ELSE {}
           /\ Matching(documents, name, major, minor) \in SUBSET documents
<1>1. \A b \in accepted : /\ Document(b).name = b.name
                          /\ Document(b).majorVersion = 1 /\ Document(b).minorVersion = 1
  BY StorableFacts DEF Kept
<1>2. documents = {Document(b) : b \in accepted}
  BY DEF Kept
<1>3. Matching(documents, name, major, minor) =
        {d \in documents : d.name = name /\ d.majorVersion = major /\ d.minorVersion = minor}
  BY DEF Matching, OfMajor, Named
<1> HIDE DEF Document
<1>4. ASSUME NEW d \in documents
      PROVE  d.majorVersion = 1 /\ d.minorVersion = 1
             /\ \E b \in accepted : d = Document(b) /\ d.name = b.name
  BY <1>1, <1>2
<1>5. CASE major = 1 /\ minor = 1
  <2>1. ASSUME NEW d
        PROVE  d \in Matching(documents, name, major, minor) <=>
                  \E b \in accepted : b.name = name /\ d = Document(b)
    BY <1>1, <1>2, <1>3, <1>4, <1>5
  <2> QED BY <1>3, <1>5, <2>1
<1>6. CASE ~(major = 1 /\ minor = 1)
  BY <1>3, <1>4, <1>6
<1> QED BY <1>3, <1>5, <1>6

(* What is not refused is the first version of a new name. *)
LEMMA NotRefused ==
    ASSUME Kept, NEW request, request.majorVersion \in Nat \ {0},
           request.minorVersion \in Nat \ {0}, ~Refuses(request)
    PROVE  /\ request.majorVersion = 1 /\ request.minorVersion = 1
           /\ \A b \in accepted : b.name # request.name
<1> DEFINE name == request.name
           major == request.majorVersion
           minor == request.minorVersion
<1>1. /\ Matching(documents, name, major, minor) = {}
      /\ LastMajorVersion(documents, name) + 1 = major
      /\ LastMinorVersion(documents, name, minor) + 1 = minor
  BY DEF Refuses
<1>2. \A b \in accepted : /\ Document(b).name = b.name /\ Document(b) \in documents
                          /\ Document(b).majorVersion = 1 /\ Document(b).minorVersion = 1
  BY StorableFacts DEF Kept
<1>3. \A d \in documents : d.majorVersion = 1 /\ d.minorVersion = 1
  BY StorableFacts DEF Kept
<1>4. Highest({}) = 0 /\ Highest({1}) = 1
  <2>1. \A k \in {1} : k <= 1
    OBVIOUS
  <2>2. {n \in {1} : \A k \in {1} : k <= n} = {1}
    BY <2>1
  <2> QED BY <2>2 DEF Highest
<1> HIDE DEF Document, name, major, minor
<1>5. minor = 1
  <2>1. CASE minor # 1
    <3>1. OfMajor(documents, name, minor) = {}
      BY <1>3, <2>1 DEF OfMajor, Named
    <3>2. {d.minorVersion : d \in OfMajor(documents, name, minor)} = {}
      BY <3>1
    <3>3. LastMinorVersion(documents, name, minor) = 0
      BY <1>4, <3>2 DEF LastMinorVersion
    <3> QED BY <1>1, <3>3
  <2> QED BY <2>1
<1>6. Named(documents, name) = {}
  <2>1. ASSUME NEW d \in Named(documents, name)
        PROVE  FALSE
    <3>1. d \in OfMajor(documents, name, minor) /\ d.minorVersion = 1
      BY <1>3, <1>5, <2>1 DEF OfMajor, Named
    <3>2. \A e \in OfMajor(documents, name, minor) : e.minorVersion = 1
      BY <1>3 DEF OfMajor, Named
    <3>3. {e.minorVersion : e \in OfMajor(documents, name, minor)} = {1}
      BY <3>1, <3>2
    <3>4. LastMinorVersion(documents, name, minor) = 1
      BY <1>4, <3>3 DEF LastMinorVersion
    <3> QED BY <1>1, <1>5, <3>4
  <2> QED BY <2>1
<1>7. major = 1
  <2>1. {d.majorVersion : d \in Named(documents, name)} = {}
    BY <1>6
  <2>2. LastMajorVersion(documents, name) = 0
    BY <1>4, <2>1 DEF LastMajorVersion
  <2> QED BY <1>1, <2>2
<1>8. \A b \in accepted : b.name # name
  BY <1>2, <1>6 DEF Named
<1> QED BY <1>5, <1>7, <1>8 DEF name, major, minor

LEMMA ContentInit == Init => ContentInv
BY DEF Init, ContentInv, Kept, Answered, None

LEMMA ServedStatus ==
    \A docs : Served(docs).status \in {200, 500, 503}
BY DEF Served, InternalServerError, ServiceUnavailable

LEMMA ComparedStatus ==
    \A request : Compared(request).status \in {200, 404, 500, 503}
BY DEF Compared, InternalServerError, ServiceUnavailable, NotFound

LEMMA CreateKeeps ==
    ASSUME ContentInv, NEW body \in Submissions, Create(body)
    PROVE  ContentInv'
<1> DEFINE request == RequestRead(body)
           refused == ~IsRequest(body) \/ Refuses(request)
<1>1. /\ asked' = [op |-> "create", body |-> body]
      /\ response' = IF refused THEN BadRequest ELSE [status |-> 201]
  BY DEF Create, Respond
<1>2. Answered'
  BY <1>1 DEF Answered, BadRequest
<1>3. CASE refused
  <2>1. UNCHANGED <<documents, accepted>>
    BY <1>3 DEF Create
  <2>2. Kept
    BY DEF ContentInv
  <2> QED BY <1>2, <2>1, <2>2 DEF ContentInv, Kept
<1>4. CASE ~refused
  <2>1. /\ documents' = documents \cup {Document(body)}
        /\ accepted' = accepted \cup {body}
        /\ IsRequest(body) /\ ~Refuses(request)
    BY <1>4 DEF Create, Document
  <2>2. Kept /\ IsBody(body)
    BY BodyFacts DEF ContentInv
  <2>3. /\ request.name = body.name
        /\ request.majorVersion = VersionRead(body.majorVersion)
        /\ request.minorVersion = VersionRead(body.minorVersion)
    BY DEF RequestRead
  <2>4. /\ VersionRead(body.majorVersion) \in Nat \ {0}
        /\ VersionRead(body.minorVersion) \in Nat \ {0}
    BY <2>1, <2>2, DocumentFacts
  <2> HIDE DEF request
  <2>5. /\ VersionRead(body.majorVersion) = 1 /\ VersionRead(body.minorVersion) = 1
        /\ \A b \in accepted : b.name # body.name
    BY <2>1, <2>2, <2>3, <2>4, NotRefused
  <2>6. body \in Storable
    BY <2>1, <2>5 DEF Storable
  <2> HIDE DEF Document, Storable
  <2>7. accepted' \subseteq Storable
    BY <2>1, <2>2, <2>6 DEF Kept
  <2>8. \A b, c \in accepted' : b.name = c.name => b = c
    BY <2>1, <2>2, <2>5 DEF Kept
  <2>9. documents' = {Document(b) : b \in accepted'}
    BY <2>1, <2>2 DEF Kept
  <2>10. Kept'
    BY <2>7, <2>8, <2>9 DEF Kept
  <2> QED BY <1>2, <2>10 DEF ContentInv
<1> QED BY <1>3, <1>4

LEMMA ReadsKeep ==
    ASSUME ContentInv, NEW name, NEW major, NEW minor,
           GetVersion(name, major, minor) \/ GetAll
    PROVE  ContentInv'
<1>1. Kept /\ UNCHANGED <<documents, accepted>>
  BY DEF ContentInv, GetVersion, GetAll
<1>2. Kept'
  BY <1>1 DEF Kept
<1>3. CASE GetVersion(name, major, minor)
  <2> DEFINE docs == Matching(documents, name, major, minor)
  <2>1. /\ asked' = [op |-> "getVersion", name |-> name]
        /\ response' = IF docs = {} THEN NotFound ELSE Served(docs)
    BY <1>3 DEF GetVersion, Respond
  <2>2. docs \in SUBSET documents'
    BY <1>1, MatchingKept
  <2>3. response'.status = 404 \/ response' = Served(docs)
    BY <2>1 DEF NotFound
  <2>4. response'.status \in {404, 200, 500, 503}
    BY <2>3, ServedStatus
  <2> HIDE DEF docs
  <2>5. Answered'
    BY <2>1, <2>2, <2>3, <2>4 DEF Answered
  <2> QED BY <1>2, <2>5 DEF ContentInv
<1>4. CASE GetAll
  <2>1. asked' = [op |-> "getAll"] /\ response' = Served(documents)
    BY <1>4 DEF GetAll, Respond
  <2>2. response'.status \in {200, 500, 503}
    BY <2>1, ServedStatus
  <2>3. documents \in SUBSET documents'
    BY <1>1
  <2>4. Answered'
    BY <2>1, <2>2, <2>3 DEF Answered
  <2> QED BY <1>2, <2>4 DEF ContentInv
<1> QED BY <1>3, <1>4

LEMMA DeleteKeeps ==
    ASSUME ContentInv, NEW name, NEW major, NEW minor, Delete(name, major, minor)
    PROVE  ContentInv'
<1> DEFINE docs == Matching(documents, name, major, minor)
           bodies == IF major = 1 /\ minor = 1 THEN {c \in accepted : c.name = name} ELSE {}
           removed == IF \A d \in docs : CanDecode(d) THEN docs ELSE {}
<1>1. Kept /\ accepted \subseteq Storable
  BY DEF ContentInv, Kept
<1>2. /\ asked' = [op |-> "delete", name |-> name]
      /\ response' = IF docs = {} THEN NotFound ELSE Served(docs)
      /\ documents' = documents \ removed
      /\ accepted' = {b \in accepted : b.name = name => removed = {}}
  BY DEF Delete, Respond
<1>3. docs = {Document(b) : b \in bodies} /\ docs \subseteq documents
  BY <1>1, MatchingKept
<1>4. \A b \in accepted : Document(b).name = b.name /\ CanDecode(Document(b))
  BY <1>1, StorableFacts
<1>5. documents = {Document(b) : b \in accepted}
  BY <1>1 DEF Kept
<1> HIDE DEF docs, Document
<1>6. bodies \subseteq accepted /\ \A b \in bodies : b.name = name
  OBVIOUS
<1>7. removed = docs
  BY <1>3, <1>4, <1>6
<1> HIDE DEF removed
<1>8. accepted' = accepted \ bodies
  <2>1. CASE bodies = {}
    BY <1>2, <1>3, <1>7, <2>1
  <2>2. CASE bodies # {}
    <3>1. removed # {} /\ bodies = {c \in accepted : c.name = name}
      BY <1>3, <1>7, <2>2
    <3> QED BY <1>2, <3>1
  <2> QED BY <2>1, <2>2
<1>9. \A b, c \in accepted : Document(b) = Document(c) => b = c
  BY <1>1, <1>4 DEF Kept
<1> HIDE DEF bodies
<1>10. documents' = {Document(b) : b \in accepted'}
  BY <1>2, <1>3, <1>5, <1>6, <1>7, <1>8, <1>9
<1>11. Kept'
  BY <1>1, <1>8, <1>10 DEF Kept
<1>12. response'.status = 404 \/ response' = Served({Document(b) : b \in bodies})
  BY <1>2, <1>3 DEF NotFound
<1>13. response'.status \in {404, 200, 500, 503}
  BY <1>12, ServedStatus
<1>14. bodies \in SUBSET Storable
  BY <1>1, <1>6
<1>15. Answered'
  <2>1. asked'.op = "delete"
    BY <1>2
  <2>2. response'.status # 0
    BY <1>13
  <2>3. (response.status = 404
         \/ \E b \in SUBSET Storable : response = Served({Document(c) : c \in b}))'
    BY <1>12, <1>14
  <2>4. /\ response'.status \in {0, 200, 201, 400, 404, 500, 503}
        /\ asked'.op \notin {"none", "getVersion", "getAll", "check"}
    BY <1>13, <2>1
  <2> QED BY <2>1, <2>2, <2>3, <2>4 DEF Answered
<1> QED BY <1>11, <1>15 DEF ContentInv

(* What a check compares with does not change before its result is taken. *)
LEMMA CheckKeeps ==
    ASSUME ContentInv, NEW body \in Proposals, Check(body)
    PROVE  ContentInv'
<1>1. /\ asked' = [op |-> "check", body |-> body]
      /\ response' = IF IsRequest(body) THEN Compared(RequestRead(body)) ELSE BadRequest
      /\ UNCHANGED <<documents, accepted>>
  BY DEF Check, Respond
<1>2. Kept'
  BY <1>1 DEF ContentInv, Kept
<1>3. Compared(RequestRead(body))' = Compared(RequestRead(body))
  BY <1>1 DEF Compared, Baseline, LastMinorVersion, Matching, OfMajor, Named
<1>4. response'.status \in {200, 400, 404, 500, 503}
  BY <1>1, ComparedStatus DEF BadRequest
<1>5. response' = Judgement'
  <2>1. asked'.body = body
    BY <1>1
  <2>2. Compared(RequestRead(asked.body))' = Compared(RequestRead(body))
    BY <1>1, <2>1 DEF Compared, Baseline, LastMinorVersion, Matching, OfMajor, Named
  <2> QED BY <1>1, <2>1, <2>2 DEF Judgement
<1>6. asked'.body \in Proposals /\ asked'.op = "check"
  BY <1>1
<1>7. response'.status # 0 /\ asked'.op = "check"
  BY <1>4, <1>6
<1>8. Answered'
  BY <1>4, <1>5, <1>6, <1>7 DEF Answered
<1> QED BY <1>2, <1>8 DEF ContentInv

LEMMA TakeKeeps ==
    ASSUME ContentInv, TakeResponse
    PROVE  ContentInv'
BY DEF ContentInv, TakeResponse, Kept, Answered, None

LEMMA StutterKeeps ==
    ASSUME ContentInv, UNCHANGED vars
    PROVE  ContentInv'
<1>1. /\ documents' = documents /\ asked' = asked /\ response' = response
      /\ accepted' = accepted
  BY DEF vars
<1>2. Kept'
  BY <1>1 DEF ContentInv, Kept
<1>3. Judgement' = Judgement
  BY <1>1 DEF Judgement, Compared, Baseline, LastMinorVersion, Matching, OfMajor, Named
<1>4. Answered'
  <2>1. /\ response'.status \in {0, 200, 201, 400, 404, 500, 503}
        /\ response'.status # 0 =>
              asked'.op \in {"create", "getVersion", "getAll", "delete", "check"}
        /\ response'.status = 0 => asked'.op = "none"
    BY <1>1 DEF ContentInv, Answered
  <2>2. asked'.op \in {"getVersion", "getAll"} =>
          response'.status = 404 \/ \E docs \in SUBSET documents' : response' = Served(docs)
    BY <1>1 DEF ContentInv, Answered
  <2>3. ASSUME asked'.op = "delete"
        PROVE  response'.status = 404
               \/ \E bodies \in SUBSET Storable : response' = Served({Document(b) : b \in bodies})
    <3>1. response.status = 404
          \/ \E bodies \in SUBSET Storable : response = Served({Document(b) : b \in bodies})
      BY <1>1, <2>3 DEF ContentInv, Answered
    <3> QED BY <1>1, <3>1, Zenon
  <2>4. asked'.op = "check" => asked'.body \in Proposals /\ response' = Judgement'
    BY <1>1, <1>3 DEF ContentInv, Answered
  <2> QED BY <2>1, <2>2, <2>3, <2>4 DEF Answered
<1> QED BY <1>2, <1>4 DEF ContentInv

(* The stored documents are those of the accepted bodies, one of a name,     *)
(* every one of version 1.1, and the response is the right one about them:   *)
(* createSchema, SchemaCreationService.scala:21-45, with its minor version   *)
(* read as a major one, and the routes that answer before the next request.  *)
THEOREM ContentInvariant == Spec => []ContentInv
<1>1. Init => ContentInv
  BY ContentInit
<1>2. ContentInv /\ [Next]_vars => ContentInv'
  <2> SUFFICES ASSUME ContentInv, [Next]_vars
               PROVE  ContentInv'
    OBVIOUS
  <2>1. CASE \E body \in Submissions : Create(body)
    BY <2>1, CreateKeeps
  <2>2. CASE \E body \in Proposals : Check(body)
    BY <2>2, CheckKeeps
  <2>3. CASE \E name \in Range(Alphabet), v \in Versions :
                GetVersion(name, v[1], v[2]) \/ Delete(name, v[1], v[2])
    <3>1. PICK name \in Range(Alphabet), v \in Versions :
                GetVersion(name, v[1], v[2]) \/ Delete(name, v[1], v[2])
      BY <2>3
    <3> QED BY <3>1, ReadsKeep, DeleteKeeps
  <2>4. CASE GetAll
    BY <2>4, ReadsKeep
  <2>5. CASE TakeResponse
    BY <2>5, TakeKeeps
  <2>6. CASE UNCHANGED vars
    BY <2>6, StutterKeeps
  <2> QED BY <2>1, <2>2, <2>3, <2>4, <2>5, <2>6 DEF Next
<1> QED BY <1>1, <1>2, PTL DEF Spec

(* What is stored came through the formats: one document per accepted body,  *)
(* of a positive version, with a complete field at every place, and the      *)
(* status is one the routes answer with.  SchemaHttpRoute.scala:38-152,      *)
(* SchemaRegistryJsonProtocol.scala:80-184, SchemaCodec.scala:30-238.        *)
THEOREM ContentTypes == Spec => []ContentTypeOK
<1>1. ASSUME ContentInv
      PROVE  ContentTypeOK
  <2>1. accepted \subseteq Storable /\ documents = {Document(b) : b \in accepted}
    BY <1>1 DEF ContentInv, Kept
  <2>2. accepted \subseteq Submissions
    BY <2>1 DEF Storable
  <2>3. {d.name : d \in documents} = {b.name : b \in accepted}
    <3>1. \A b \in accepted : Document(b).name = b.name
      BY <2>1, StorableFacts
    <3> HIDE DEF Document
    <3> QED BY <2>1, <3>1
  <2>4. ASSUME NEW d \in documents
        PROVE  /\ d.majorVersion \in Nat \ {0} /\ d.minorVersion \in Nat \ {0}
               /\ CanDecode(d)
               /\ \A p \in DOMAIN d.fields : IsComplete(SchemaOf(d).fields, p)
    <3>1. PICK b \in Storable : d = Document(b)
      BY <2>1
    <3>2. IsBody(b) /\ IsRequest(b)
      BY StorableFacts
    <3>3. /\ d.majorVersion = 1 /\ d.minorVersion = 1 /\ CanDecode(d)
          /\ SchemaOf(d).fields = FieldsRead(b.tree)
      BY <3>1, StorableFacts
    <3>4. d = [name |-> d.name, applicationId |-> d.applicationId,
               majorVersion |-> d.majorVersion, minorVersion |-> d.minorVersion,
               fields |-> d.fields]
      BY <3>1, <3>2, DocumentFacts
    <3>5. SchemaOf(d).fields = [p \in DOMAIN d.fields |-> Decode(d.fields[p])]
      BY <3>4 DEF SchemaOf
    <3>6. \A p \in DOMAIN FieldsRead(b.tree) : IsComplete(FieldsRead(b.tree), p)
      BY <3>2, RequestSchema
    <3> QED BY <3>3, <3>5, <3>6
  <2>5. response.status \in {0, 200, 201, 400, 404, 500, 503}
    BY <1>1 DEF ContentInv, Answered
  <2> QED BY <2>2, <2>3, <2>4, <2>5 DEF ContentTypeOK
<1> QED BY <1>1, ContentInvariant, PTL

LEMMA ServedWhole ==
    ASSUME NEW bodies \in SUBSET Storable,
           \A b \in bodies : CanWrite(FieldsRead(b.tree))
    PROVE  Served({Document(b) : b \in bodies}).status = 200
<1>1. \A b \in bodies : /\ CanDecode(Document(b))
                        /\ CanWrite(SchemaOf(Document(b)).fields)
  BY StorableFacts
<1> HIDE DEF Document
<1>2. \A d \in {Document(b) : b \in bodies} : CanDecode(d) /\ CanWrite(SchemaOf(d).fields)
  BY <1>1
<1> QED BY <1>2 DEF Served

(* Whatever was accepted can be read and listed, and is there to be deleted, *)
(* provided that no body has a float or double too large to be one: the      *)
(* reader lets such a value through as infinity and the writer then throws.  *)
(* SchemasActor.scala:21-40, SchemaCodec.scala:116-238,                      *)
(* SchemaRegistryJsonProtocol.scala:186-226, 279-290.                        *)
THEOREM StoredServed ==
    ASSUME \A b \in Submissions : IsRequest(b) => CanWrite(FieldsRead(b.tree))
    PROVE  Spec => []StoredIsServed
<1>1. ContentInv => StoredIsServed
  <2> SUFFICES ASSUME ContentInv, asked.op \in {"getVersion", "getAll", "delete"}
               PROVE  response.status \notin {500, 503}
    BY DEF StoredIsServed
  <2>1. response.status = 404
        \/ \E bodies \in SUBSET Storable : response = Served({Document(b) : b \in bodies})
    <3>1. CASE asked.op \in {"getVersion", "getAll"}
      <4>1. response.status = 404 \/ \E docs \in SUBSET documents : response = Served(docs)
        BY <3>1 DEF ContentInv, Answered
      <4>2. SUFFICES ASSUME NEW docs \in SUBSET documents, response = Served(docs)
                     PROVE  \E bodies \in SUBSET Storable :
                               response = Served({Document(b) : b \in bodies})
        BY <4>1
      <4>3. accepted \subseteq Storable /\ documents = {Document(b) : b \in accepted}
        BY DEF ContentInv, Kept
      <4> HIDE DEF Document
      <4> DEFINE bodies == {b \in accepted : Document(b) \in docs}
      <4>4. docs = {Document(b) : b \in bodies}
        BY <4>3
      <4>5. bodies \in SUBSET Storable
        BY <4>3
      <4> HIDE DEF bodies
      <4> QED BY <4>2, <4>4, <4>5
    <3>2. CASE asked.op = "delete"
      BY <3>2 DEF ContentInv, Answered
    <3> QED BY <3>1, <3>2
  <2>2. ASSUME NEW bodies \in SUBSET Storable
        PROVE  Served({Document(b) : b \in bodies}).status = 200
    BY ServedWhole DEF Storable
  <2> HIDE DEF Document, Storable
  <2>3. CASE \E bodies \in SUBSET Storable : response = Served({Document(b) : b \in bodies})
    <3>1. PICK bodies \in SUBSET Storable : response = Served({Document(b) : b \in bodies})
      BY <2>3
    <3>2. Served({Document(b) : b \in bodies}).status = 200
      BY <2>2
    <3> QED BY <3>1, <3>2
  <2>4. CASE response.status = 404
    BY <2>4
  <2> QED BY <2>1, <2>3, <2>4, Zenon
<1> QED BY <1>1, ContentInvariant, PTL

(* What is served, one schema per document. *)
LEMMA ServedSchemas ==
    ASSUME ContentInv, asked.op \in {"getVersion", "getAll"}, response.status = 200,
           NEW s \in response.schemas
    PROVE  \E b \in accepted :
              /\ b \in Storable /\ s = ServedFor(Document(b))
              /\ CanWrite(FieldsRead(b.tree))
<1>1. PICK docs \in SUBSET documents : response = Served(docs)
  BY DEF ContentInv, Answered
<1>2. accepted \subseteq Storable /\ documents = {Document(b) : b \in accepted}
  BY DEF ContentInv, Kept
<1>3. /\ \A d \in docs : CanWrite(SchemaOf(d).fields)
      /\ response.schemas = {ServedFor(d) : d \in docs}
  BY <1>1 DEF Served, ServedFor, InternalServerError, ServiceUnavailable
<1>4. PICK d \in docs : s = ServedFor(d)
  BY <1>3
<1>5. PICK b \in accepted : d = Document(b)
  BY <1>2
<1>6. b \in Storable /\ SchemaOf(d).fields = FieldsRead(b.tree)
  BY <1>2, <1>5, StorableFacts
<1> QED BY <1>3, <1>4, <1>5, <1>6

(* A GET shows the schema that was submitted, through the reader, both       *)
(* directions of the codec and the writer: the same tree in the same order,  *)
(* the same values but for the places that are not kept, for every schema of *)
(* any depth.  SchemaRegistryJsonProtocol.scala:80-226,                      *)
(* SchemaCodec.scala:30-238.                                                 *)
THEOREM SubmittedServed == Spec => []ServedIsSubmitted
<1>1. ContentInv => ServedIsSubmitted
  <2> SUFFICES ASSUME ContentInv, asked.op \in {"getVersion", "getAll"},
                      response.status = 200, NEW s \in response.schemas
               PROVE  \E b \in accepted :
                         /\ b.name = s.name /\ b.applicationId = s.applicationId
                         /\ Shows(s.fields, b.tree)
    BY DEF ServedIsSubmitted
  <2>1. PICK b \in accepted : /\ b \in Storable /\ s = ServedFor(Document(b))
                              /\ CanWrite(FieldsRead(b.tree))
    BY ServedSchemas
  <2>2. IsBody(b) /\ IsRequest(b)
    BY <2>1, StorableFacts
  <2> QED BY <2>1, <2>2, ServedSchema
<1> QED BY <1>1, ContentInvariant, PTL

(* A client may send back what it was served: it is accepted, and a check    *)
(* finds it to be the stored schema, for every schema of any depth.          *)
(* SchemaRegistryJsonProtocol.scala:80-226, CompatibilityActor.scala:26-83,  *)
(* DiffProcessingService.scala:26-47.                                        *)
THEOREM ServedSame == Spec => []ServedIsTheSame
<1>1. ContentInv => ServedIsTheSame
  <2> SUFFICES ASSUME ContentInv, asked.op \in {"getVersion", "getAll"},
                      response.status = 200, NEW s \in response.schemas
               PROVE  /\ IsRequest(AsBody(s))
                      /\ Compared(RequestRead(AsBody(s))).status = 200
                      /\ Compared(RequestRead(AsBody(s))).result.isSameSchema
    BY DEF ServedIsTheSame
  <2>1. PICK b \in accepted : /\ b \in Storable /\ s = ServedFor(Document(b))
                              /\ CanWrite(FieldsRead(b.tree))
    BY ServedSchemas
  <2>2. /\ IsBody(b) /\ IsRequest(b) /\ CanDecode(Document(b))
        /\ SchemaOf(Document(b)).fields = FieldsRead(b.tree)
        /\ Kept
    BY <2>1, StorableFacts DEF ContentInv
  <2>3. IsRequest(AsBody(s)) /\ RequestRead(AsBody(s)) = RequestRead(b)
    BY <2>1, <2>2, ServedSchema
  <2> DEFINE request == RequestRead(b)
             fields == FieldsRead(b.tree)
             docs == Matching(documents, request.name, request.majorVersion,
                              request.minorVersion)
  <2>4. /\ request.name = b.name /\ request.fields = fields
        /\ request.majorVersion = 1 /\ request.minorVersion = 1
    BY <2>1 DEF RequestRead, Storable
  <2>5. docs = {Document(b)}
    <3>1. docs = {Document(c) : c \in {c \in accepted : c.name = b.name}}
      BY <2>2, <2>4, MatchingKept
    <3>2. {c \in accepted : c.name = b.name} = {b}
      BY <2>1, <2>2 DEF Kept
    <3> HIDE DEF docs, Document
    <3> QED BY <3>1, <3>2
  <2>6. Patch(fields, fields) = {}
    BY DEF Patch, Diff
  <2> HIDE DEF request, fields, Document
  <2>7. Baseline(request) = [docs |-> docs, major |-> FALSE, minor |-> FALSE]
    BY <2>5 DEF Baseline
  <2>8. (CHOOSE d \in docs : TRUE) = Document(b)
    BY <2>5
  <2> HIDE DEF docs
  <2>9. Compared(request) = [status |-> 200, result |-> Process(Patch(fields, fields), FALSE, FALSE)]
    <3> DEFINE patch == Patch(SchemaOf(CHOOSE d \in docs : TRUE).fields, request.fields)
    <3>1. SchemaOf(CHOOSE d \in docs : TRUE).fields = fields /\ request.fields = fields
            /\ patch = Patch(fields, fields)
      BY <2>2, <2>4, <2>8 DEF fields
    <3>2. CanWrite(fields) /\ docs # {} /\ \A d \in docs : CanDecode(d)
      BY <2>1, <2>2, <2>5 DEF fields
    <3>3. /\ Baseline(request).docs = docs
          /\ Baseline(request).major = FALSE /\ Baseline(request).minor = FALSE
      BY <2>7
    <3>4. Compared(request) =
            [status |-> 200, result |-> Process(patch, Baseline(request).major,
                                                Baseline(request).minor)]
      BY <3>1, <3>2, <3>3 DEF Compared
    <3> HIDE DEF patch
    <3> QED BY <3>1, <3>3, <3>4
  <2> DEFINE result == Process(Patch(fields, fields), FALSE, FALSE)
  <2>10. result.isSameSchema
    BY <2>6 DEF Process
  <2> HIDE DEF result
  <2>11. Compared(request).status = 200 /\ Compared(request).result = result
    BY <2>9 DEF result
  <2> QED BY <2>3, <2>10, <2>11 DEF request
<1> QED BY <1>1, ContentInvariant, PTL
==============================================================================
