------------------------- MODULE MarshallingProofs -------------------------
(***************************************************************************)
(* Proofs about Marshalling, for any requests of the types of the API, any *)
(* widths and any error codes: what does not fit is refused and nothing    *)
(* else, and neither commands nor results say anything but what was said.  *)
(***************************************************************************)
EXTENDS Marshalling, SequenceTheorems, WellFoundedInduction, TLAPS

-----------------------------------------------------------------------------
(* Terms and their conversion. *)

LEMMA OneValue == ASSUME NEW v PROVE TheValue({v}) = v
BY DEF TheValue

LEMMA Kinds ==
  ASSUME NEW x
  PROVE  /\ Is("atom", Atom(x)) /\ Atom(x).atom = x
         /\ Is("int", Num(x)) /\ ~Is("bin", Num(x)) /\ ~Is("list", Num(x)) /\ Num(x).int = x
         /\ Is("bin", Bin(x)) /\ Bin(x).bin = x
         /\ Is("tuple", Tuple(x)) /\ ~Is("bin", Tuple(x)) /\ Tuple(x).tuple = x
         /\ Is("list", List(x)) /\ ~Is("bin", List(x)) /\ List(x).list = x
BY DEF Is, Atom, Num, Bin, Tuple, List

LEMMA SameTerm ==
  ASSUME NEW x, NEW y
  PROVE  /\ Atom(x) = Atom(y) <=> x = y
         /\ Num(x) = Num(y) <=> x = y
         /\ Bin(x) = Bin(y) <=> x = y
         /\ Tuple(x) = Tuple(y) <=> x = y
         /\ List(x) = List(y) <=> x = y
         /\ Atom(x) # Tuple(y) /\ Atom(x) # Num(y)
<1> USE DEF Is, Atom, Num, Bin, Tuple, List
<1>1. Atom(x) # Tuple(y) /\ Atom(x) # Num(y)
  <2>1. DOMAIN Atom(x) # DOMAIN Tuple(y) /\ DOMAIN Atom(x) # DOMAIN Num(y)
    OBVIOUS
  <2> QED BY <2>1
<1> QED BY <1>1

LEMMA Powers ==
  /\ 2^(IntBits - 1) \in Int /\ 2^IntBits \in Int
  /\ 2^(LongBits - 1) \in Int /\ 2^LongBits \in Int /\ 2^ShortBits \in Int
BY WidthsAssumption

(* The values of the ranges of the integer types. *)
LEMMA GetNumber ==
  ASSUME NEW n \in Int
  PROVE  /\ Get("int", Num(n)) =
              IF n \in -(2^(IntBits - 1))..(2^(IntBits - 1) - 1) THEN {n} ELSE {}
         /\ Get("long", Num(n)) =
              IF n \in -(2^(LongBits - 1))..(2^(LongBits - 1) - 1) THEN {n} ELSE {}
         /\ Get("uint", Num(n)) = IF n \in 0..(2^IntBits - 1) THEN {n} ELSE {}
         /\ Get("ulong", Num(n)) = IF n \in 0..(2^LongBits - 1) THEN {n} ELSE {}
BY Kinds DEF Get, GetSigned, GetUnsigned

LEMMA GetNatural ==
  ASSUME NEW n \in Nat
  PROVE  /\ Get("int", Num(n)) = IF n < 2^(IntBits - 1) THEN {n} ELSE {}
         /\ Get("long", Num(n)) = IF n < 2^(LongBits - 1) THEN {n} ELSE {}
         /\ Get("uint", Num(n)) = IF n < 2^IntBits THEN {n} ELSE {}
         /\ Get("ulong", Num(n)) = IF n < 2^LongBits THEN {n} ELSE {}
<1> DEFINE HalfInt == 2^(IntBits - 1)
           HalfLong == 2^(LongBits - 1)
           AllInt == 2^IntBits
           AllLong == 2^LongBits
<1>1. HalfInt \in Int /\ HalfLong \in Int /\ AllInt \in Int /\ AllLong \in Int
  BY Powers
<1>2. /\ Get("int", Num(n)) = IF n \in -HalfInt..(HalfInt - 1) THEN {n} ELSE {}
      /\ Get("long", Num(n)) = IF n \in -HalfLong..(HalfLong - 1) THEN {n} ELSE {}
      /\ Get("uint", Num(n)) = IF n \in 0..(AllInt - 1) THEN {n} ELSE {}
      /\ Get("ulong", Num(n)) = IF n \in 0..(AllLong - 1) THEN {n} ELSE {}
  BY GetNumber
<1> HIDE DEF HalfInt, HalfLong, AllInt, AllLong
<1>3. /\ Get("int", Num(n)) = IF n < HalfInt THEN {n} ELSE {}
      /\ Get("long", Num(n)) = IF n < HalfLong THEN {n} ELSE {}
      /\ Get("uint", Num(n)) = IF n < AllInt THEN {n} ELSE {}
      /\ Get("ulong", Num(n)) = IF n < AllLong THEN {n} ELSE {}
  BY <1>1, <1>2
<1> QED BY <1>3 DEF HalfInt, HalfLong, AllInt, AllLong

LEMMA GetOther ==
  ASSUME NEW x, NEW b \in BOOLEAN
  PROVE  /\ Get("string", Bin(x)) = {x}
         /\ Get("atom", Atom(x)) = {x}
         /\ Get("bool", Bool(b)) = {b}
<1>1. Get("string", Bin(x)) = {x} /\ Get("atom", Atom(x)) = {x}
  BY Kinds DEF Get, GetString, GetAtom
<1>2. \A c \in BOOLEAN : Bool(b) = Bool(c) => b = c
  BY SameTerm DEF Bool
<1> QED BY <1>1, <1>2 DEF Get, GetBool

LEMMA Each ==
  ASSUME NEW gotten
  PROVE  /\ GetEach(gotten) # {} <=> \A i \in DOMAIN gotten : gotten[i] # {}
         /\ \A v \in GetEach(gotten) :
              DOMAIN v = DOMAIN gotten /\ \A i \in DOMAIN gotten : v[i] = TheValue(gotten[i])
BY DEF GetEach

LEMMA TupleForm ==
  ASSUME NEW types, NEW s, Len(s) = Len(types)
  PROVE  /\ GetTuple(types, Tuple(s)) # {} <=> \A i \in DOMAIN types : Get(types[i], s[i]) # {}
         /\ \A v \in GetTuple(types, Tuple(s)) :
              \A i \in DOMAIN types : v[i] = TheValue(Get(types[i], s[i]))
<1> DEFINE gotten == [i \in DOMAIN types |-> Get(types[i], s[i])]
<1>1. GetTuple(types, Tuple(s)) = GetEach(gotten)
  BY Kinds DEF GetTuple
<1>2. DOMAIN gotten = DOMAIN types /\ \A i \in DOMAIN types : gotten[i] = Get(types[i], s[i])
  OBVIOUS
<1> HIDE DEF gotten
<1>3. GetEach(gotten) # {} <=> \A i \in DOMAIN types : Get(types[i], s[i]) # {}
  BY <1>2, Each
<1>4. ASSUME NEW v \in GetEach(gotten), NEW i \in DOMAIN types
      PROVE  v[i] = TheValue(Get(types[i], s[i]))
  BY <1>2, Each
<1> QED BY <1>1, <1>3, <1>4

LEMMA VectorForm ==
  ASSUME NEW types, NEW s
  PROVE  /\ GetVector(types, List(s)) # {} <=> \A i \in DOMAIN s : GetTuple(types, s[i]) # {}
         /\ \A v \in GetVector(types, List(s)) :
              DOMAIN v = DOMAIN s /\ \A i \in DOMAIN s : v[i] \in GetTuple(types, s[i])
<1> DEFINE gotten == [i \in DOMAIN s |-> GetTuple(types, s[i])]
<1>1. GetVector(types, List(s)) = GetEach(gotten)
  BY Kinds DEF GetVector
<1>2. DOMAIN gotten = DOMAIN s /\ \A i \in DOMAIN s : gotten[i] = GetTuple(types, s[i])
  OBVIOUS
<1> HIDE DEF gotten
<1>3. \A v \in GetEach(gotten) : \A i \in DOMAIN s : TheValue(gotten[i]) \in gotten[i]
  BY <1>2, Each DEF TheValue
<1> QED BY <1>1, <1>2, <1>3, Each

LEMMA Pair ==
  ASSUME NEW t1, NEW t2,
         NEW x1, NEW x2
  PROVE  /\ GetTuple(<<t1, t2>>, Tuple(<<x1, x2>>)) # {} <=>
              /\ Get(t1, x1) # {} /\ Get(t2, x2) # {}
         /\ \A v \in GetTuple(<<t1, t2>>, Tuple(<<x1, x2>>)) :
              /\ v[1] = TheValue(Get(t1, x1)) /\ v[2] = TheValue(Get(t2, x2))
<1> DEFINE types == <<t1, t2>>
           terms == <<x1, x2>>
<1>1. /\ Len(terms) = Len(types) /\ DOMAIN types = 1..2
      /\ types[1] = t1 /\ terms[1] = x1
      /\ types[2] = t2 /\ terms[2] = x2
  OBVIOUS
<1> HIDE DEF types, terms
<1>2. \A i \in 1..2 : i = 1 \/ i = 2
  OBVIOUS
<1>3. GetTuple(types, Tuple(terms)) # {} <=> \A i \in 1..2 : Get(types[i], terms[i]) # {}
  BY <1>1, TupleForm
<1>4. ASSUME NEW v \in GetTuple(types, Tuple(terms)), NEW i \in 1..2
      PROVE  v[i] = TheValue(Get(types[i], terms[i]))
  BY <1>1, TupleForm
<1>5. (\A i \in 1..2 : Get(types[i], terms[i]) # {}) <=>
        /\ Get(t1, x1) # {} /\ Get(t2, x2) # {}
  <2>1. 1 \in 1..2 /\ 2 \in 1..2
    OBVIOUS
  <2>2. ASSUME \A i \in 1..2 : Get(types[i], terms[i]) # {}
        PROVE
          /\ Get(t1, x1) # {} /\ Get(t2, x2) # {}
    BY <1>1, <2>1, <2>2
  <2>3. ASSUME
          /\ Get(t1, x1) # {} /\ Get(t2, x2) # {},
               NEW i \in 1..2
        PROVE  Get(types[i], terms[i]) # {}
    BY <1>1, <1>2, <2>3
  <2> QED BY <2>2, <2>3
<1>6. ASSUME NEW v \in GetTuple(types, Tuple(terms))
      PROVE  /\ v[1] = TheValue(Get(t1, x1)) /\ v[2] = TheValue(Get(t2, x2))
  BY <1>1, <1>4
<1> QED BY <1>3, <1>5, <1>6 DEF types, terms

LEMMA Triple ==
  ASSUME NEW t1, NEW t2, NEW t3,
         NEW x1, NEW x2, NEW x3
  PROVE  /\ GetTuple(<<t1, t2, t3>>, Tuple(<<x1, x2, x3>>)) # {} <=>
              /\ Get(t1, x1) # {} /\ Get(t2, x2) # {} /\ Get(t3, x3) # {}
         /\ \A v \in GetTuple(<<t1, t2, t3>>, Tuple(<<x1, x2, x3>>)) :
              /\ v[1] = TheValue(Get(t1, x1)) /\ v[2] = TheValue(Get(t2, x2))
              /\ v[3] = TheValue(Get(t3, x3))
<1> DEFINE types == <<t1, t2, t3>>
           terms == <<x1, x2, x3>>
<1>1. /\ Len(terms) = Len(types) /\ DOMAIN types = 1..3
      /\ types[1] = t1 /\ terms[1] = x1
      /\ types[2] = t2 /\ terms[2] = x2
      /\ types[3] = t3 /\ terms[3] = x3
  OBVIOUS
<1> HIDE DEF types, terms
<1>2. \A i \in 1..3 : i = 1 \/ i = 2 \/ i = 3
  OBVIOUS
<1>3. GetTuple(types, Tuple(terms)) # {} <=> \A i \in 1..3 : Get(types[i], terms[i]) # {}
  BY <1>1, TupleForm
<1>4. ASSUME NEW v \in GetTuple(types, Tuple(terms)), NEW i \in 1..3
      PROVE  v[i] = TheValue(Get(types[i], terms[i]))
  BY <1>1, TupleForm
<1>5. (\A i \in 1..3 : Get(types[i], terms[i]) # {}) <=>
        /\ Get(t1, x1) # {} /\ Get(t2, x2) # {} /\ Get(t3, x3) # {}
  <2>1. 1 \in 1..3 /\ 2 \in 1..3 /\ 3 \in 1..3
    OBVIOUS
  <2>2. ASSUME \A i \in 1..3 : Get(types[i], terms[i]) # {}
        PROVE
          /\ Get(t1, x1) # {} /\ Get(t2, x2) # {} /\ Get(t3, x3) # {}
    BY <1>1, <2>1, <2>2
  <2>3. ASSUME
          /\ Get(t1, x1) # {} /\ Get(t2, x2) # {} /\ Get(t3, x3) # {},
               NEW i \in 1..3
        PROVE  Get(types[i], terms[i]) # {}
    BY <1>1, <1>2, <2>3
  <2> QED BY <2>2, <2>3
<1>6. ASSUME NEW v \in GetTuple(types, Tuple(terms))
      PROVE  /\ v[1] = TheValue(Get(t1, x1)) /\ v[2] = TheValue(Get(t2, x2))
             /\ v[3] = TheValue(Get(t3, x3))
  BY <1>1, <1>4
<1> QED BY <1>3, <1>5, <1>6 DEF types, terms

LEMMA Quintuple ==
  ASSUME NEW t1, NEW t2, NEW t3, NEW t4, NEW t5,
         NEW x1, NEW x2, NEW x3, NEW x4, NEW x5
  PROVE  /\ GetTuple(<<t1, t2, t3, t4, t5>>, Tuple(<<x1, x2, x3, x4, x5>>)) # {} <=>
              /\ Get(t1, x1) # {} /\ Get(t2, x2) # {} /\ Get(t3, x3) # {}
              /\ Get(t4, x4) # {} /\ Get(t5, x5) # {}
         /\ \A v \in GetTuple(<<t1, t2, t3, t4, t5>>, Tuple(<<x1, x2, x3, x4, x5>>)) :
              /\ v[1] = TheValue(Get(t1, x1)) /\ v[2] = TheValue(Get(t2, x2))
              /\ v[3] = TheValue(Get(t3, x3)) /\ v[4] = TheValue(Get(t4, x4))
              /\ v[5] = TheValue(Get(t5, x5))
<1> DEFINE types == <<t1, t2, t3, t4, t5>>
           terms == <<x1, x2, x3, x4, x5>>
<1>1. /\ Len(terms) = Len(types) /\ DOMAIN types = 1..5
      /\ types[1] = t1 /\ terms[1] = x1
      /\ types[2] = t2 /\ terms[2] = x2
      /\ types[3] = t3 /\ terms[3] = x3
      /\ types[4] = t4 /\ terms[4] = x4
      /\ types[5] = t5 /\ terms[5] = x5
  OBVIOUS
<1> HIDE DEF types, terms
<1>2. \A i \in 1..5 : i = 1 \/ i = 2 \/ i = 3 \/ i = 4 \/ i = 5
  OBVIOUS
<1>3. GetTuple(types, Tuple(terms)) # {} <=> \A i \in 1..5 : Get(types[i], terms[i]) # {}
  BY <1>1, TupleForm
<1>4. ASSUME NEW v \in GetTuple(types, Tuple(terms)), NEW i \in 1..5
      PROVE  v[i] = TheValue(Get(types[i], terms[i]))
  BY <1>1, TupleForm
<1>5. (\A i \in 1..5 : Get(types[i], terms[i]) # {}) <=>
        /\ Get(t1, x1) # {} /\ Get(t2, x2) # {} /\ Get(t3, x3) # {}
        /\ Get(t4, x4) # {} /\ Get(t5, x5) # {}
  <2>1. 1 \in 1..5 /\ 2 \in 1..5 /\ 3 \in 1..5 /\ 4 \in 1..5 /\ 5 \in 1..5
    OBVIOUS
  <2>2. ASSUME \A i \in 1..5 : Get(types[i], terms[i]) # {}
        PROVE
          /\ Get(t1, x1) # {} /\ Get(t2, x2) # {} /\ Get(t3, x3) # {}
          /\ Get(t4, x4) # {} /\ Get(t5, x5) # {}
    BY <1>1, <2>1, <2>2
  <2>3. ASSUME
          /\ Get(t1, x1) # {} /\ Get(t2, x2) # {} /\ Get(t3, x3) # {}
          /\ Get(t4, x4) # {} /\ Get(t5, x5) # {},
               NEW i \in 1..5
        PROVE  Get(types[i], terms[i]) # {}
    BY <1>1, <1>2, <2>3
  <2> QED BY <2>2, <2>3
<1>6. ASSUME NEW v \in GetTuple(types, Tuple(terms))
      PROVE  /\ v[1] = TheValue(Get(t1, x1)) /\ v[2] = TheValue(Get(t2, x2))
             /\ v[3] = TheValue(Get(t3, x3)) /\ v[4] = TheValue(Get(t4, x4))
             /\ v[5] = TheValue(Get(t5, x5))
  BY <1>1, <1>4
<1> QED BY <1>3, <1>5, <1>6 DEF types, terms

LEMMA Sextuple ==
  ASSUME NEW t1, NEW t2, NEW t3, NEW t4, NEW t5, NEW t6,
         NEW x1, NEW x2, NEW x3, NEW x4, NEW x5, NEW x6
  PROVE  /\ GetTuple(<<t1, t2, t3, t4, t5, t6>>, Tuple(<<x1, x2, x3, x4, x5, x6>>)) # {} <=>
              /\ Get(t1, x1) # {} /\ Get(t2, x2) # {} /\ Get(t3, x3) # {}
              /\ Get(t4, x4) # {} /\ Get(t5, x5) # {} /\ Get(t6, x6) # {}
         /\ \A v \in GetTuple(<<t1, t2, t3, t4, t5, t6>>, Tuple(<<x1, x2, x3, x4, x5, x6>>)) :
              /\ v[1] = TheValue(Get(t1, x1)) /\ v[2] = TheValue(Get(t2, x2))
              /\ v[3] = TheValue(Get(t3, x3)) /\ v[4] = TheValue(Get(t4, x4))
              /\ v[5] = TheValue(Get(t5, x5)) /\ v[6] = TheValue(Get(t6, x6))
<1> DEFINE types == <<t1, t2, t3, t4, t5, t6>>
           terms == <<x1, x2, x3, x4, x5, x6>>
<1>1. /\ Len(terms) = Len(types) /\ DOMAIN types = 1..6
      /\ types[1] = t1 /\ terms[1] = x1
      /\ types[2] = t2 /\ terms[2] = x2
      /\ types[3] = t3 /\ terms[3] = x3
      /\ types[4] = t4 /\ terms[4] = x4
      /\ types[5] = t5 /\ terms[5] = x5
      /\ types[6] = t6 /\ terms[6] = x6
  OBVIOUS
<1> HIDE DEF types, terms
<1>2. \A i \in 1..6 : i = 1 \/ i = 2 \/ i = 3 \/ i = 4 \/ i = 5 \/ i = 6
  OBVIOUS
<1>3. GetTuple(types, Tuple(terms)) # {} <=> \A i \in 1..6 : Get(types[i], terms[i]) # {}
  BY <1>1, TupleForm
<1>4. ASSUME NEW v \in GetTuple(types, Tuple(terms)), NEW i \in 1..6
      PROVE  v[i] = TheValue(Get(types[i], terms[i]))
  BY <1>1, TupleForm
<1>5. (\A i \in 1..6 : Get(types[i], terms[i]) # {}) <=>
        /\ Get(t1, x1) # {} /\ Get(t2, x2) # {} /\ Get(t3, x3) # {}
        /\ Get(t4, x4) # {} /\ Get(t5, x5) # {} /\ Get(t6, x6) # {}
  <2>1. 1 \in 1..6 /\ 2 \in 1..6 /\ 3 \in 1..6 /\ 4 \in 1..6 /\ 5 \in 1..6 /\ 6 \in 1..6
    OBVIOUS
  <2>2. ASSUME \A i \in 1..6 : Get(types[i], terms[i]) # {}
        PROVE
          /\ Get(t1, x1) # {} /\ Get(t2, x2) # {} /\ Get(t3, x3) # {}
          /\ Get(t4, x4) # {} /\ Get(t5, x5) # {} /\ Get(t6, x6) # {}
    BY <1>1, <2>1, <2>2
  <2>3. ASSUME
          /\ Get(t1, x1) # {} /\ Get(t2, x2) # {} /\ Get(t3, x3) # {}
          /\ Get(t4, x4) # {} /\ Get(t5, x5) # {} /\ Get(t6, x6) # {},
               NEW i \in 1..6
        PROVE  Get(types[i], terms[i]) # {}
    BY <1>1, <1>2, <2>3
  <2> QED BY <2>2, <2>3
<1>6. ASSUME NEW v \in GetTuple(types, Tuple(terms))
      PROVE  /\ v[1] = TheValue(Get(t1, x1)) /\ v[2] = TheValue(Get(t2, x2))
             /\ v[3] = TheValue(Get(t3, x3)) /\ v[4] = TheValue(Get(t4, x4))
             /\ v[5] = TheValue(Get(t5, x5)) /\ v[6] = TheValue(Get(t6, x6))
  BY <1>1, <1>4
<1> QED BY <1>3, <1>5, <1>6 DEF types, terms

LEMMA GetBinary == ASSUME NEW t, IsBinary(t) PROVE Get("string", t) = {t.bin}
<1>1. t = Bin(t.bin)
  BY DEF IsBinary
<1>2. \A x : Get("string", Bin(x)) = {x}
  BY GetOther
<1> QED BY <1>1, <1>2

-----------------------------------------------------------------------------
(* The conversion of one item of each operation: it succeeds if the item    *)
(* fits, and what comes out is what went in.                                *)

(* The part of Representable that is about one item. *)
ItemFits(op, item) ==
  /\ \A f \in Numeric[op] : Fits(item, f)
  /\ op = "store" /\ item.encoder = "none" =>
       \/ Is("bin", item.value)
       \/ /\ Is("list", item.value)
          /\ \A j \in DOMAIN item.value.list :
               Is("int", item.value.list[j]) /\ item.value.list[j].int \in 0..255
  /\ op = "arithmetic" =>
       item.default = Atom("undefined") \/ item.default.int < 2^LongBits

LEMMA GetItem ==
  ASSUME NEW item, Typed("get", item)
  PROVE  /\ GetTuple(Raw["get"], ItemTerm("get", item)) # {} <=> ItemFits("get", item)
         /\ \A v \in GetTuple(Raw["get"], ItemTerm("get", item)) :
              v[1] = item.key.bin /\ v[2] = item.expiry /\ v[3] = item.lock
<1>1. /\ Raw["get"] = <<"string", "long", "bool">>
      /\ ItemTerm("get", item) = Tuple(<<item.key, Num(item.expiry), Bool(item.lock)>>)
  BY DEF Raw, GetRaw, ItemTerm, GetTerm
<1>2. IsBinary(item.key) /\ item.expiry \in Nat /\ item.lock \in BOOLEAN
  BY DEF Typed
<1>3. ItemFits("get", item) <=> item.expiry < 2^(LongBits - 1)
  BY DEF ItemFits, Numeric, Fits
<1>4. /\ Get("string", item.key) = {item.key.bin}
      /\ Get("long", Num(item.expiry)) =
           IF ItemFits("get", item) THEN {item.expiry} ELSE {}
      /\ Get("bool", Bool(item.lock)) = {item.lock}
  <2>1. Get("string", item.key) = {item.key.bin}
    BY <1>2, GetBinary
  <2>2. Get("bool", Bool(item.lock)) = {item.lock}
    BY <1>2, GetOther
  <2>3. Get("long", Num(item.expiry)) = IF item.expiry < 2^(LongBits - 1) THEN {item.expiry} ELSE {}
    BY <1>2, GetNatural
  <2> QED BY <1>3, <2>1, <2>2, <2>3
<1>5. GetTuple(Raw["get"], ItemTerm("get", item)) # {} <=>
        /\ Get("string", item.key) # {} /\ Get("long", Num(item.expiry)) # {}
        /\ Get("bool", Bool(item.lock)) # {}
  BY <1>1, Triple
<1>6. ASSUME NEW v \in GetTuple(Raw["get"], ItemTerm("get", item))
      PROVE  /\ v[1] = TheValue(Get("string", item.key))
             /\ v[2] = TheValue(Get("long", Num(item.expiry)))
             /\ v[3] = TheValue(Get("bool", Bool(item.lock)))
  BY <1>1, Triple
<1> QED BY <1>4, <1>5, <1>6, OneValue

LEMMA KeyCasItem ==
  ASSUME NEW op \in {"remove", "durability"}, NEW item, Typed(op, item)
  PROVE  /\ GetTuple(Raw[op], ItemTerm(op, item)) # {} <=> ItemFits(op, item)
         /\ \A v \in GetTuple(Raw[op], ItemTerm(op, item)) :
              v[1] = item.key.bin /\ v[2] = item.cas
<1>1. /\ Raw[op] = <<"string", "ulong">>
      /\ ItemTerm(op, item) = Tuple(<<item.key, Num(item.cas)>>)
  BY DEF Raw, RemoveRaw, DurabilityRaw, ItemTerm, KeyCasTerm
<1>2. IsBinary(item.key) /\ item.cas \in Nat
  BY DEF Typed
<1>3. ItemFits(op, item) <=> item.cas < 2^LongBits
  <2>1. Numeric[op] = {"cas"} /\ op \notin {"store", "arithmetic"}
    BY DEF Numeric
  <2> QED BY <2>1 DEF ItemFits, Fits
<1>4. /\ Get("string", item.key) = {item.key.bin}
      /\ Get("ulong", Num(item.cas)) = IF ItemFits(op, item) THEN {item.cas} ELSE {}
  <2>1. Get("string", item.key) = {item.key.bin}
    BY <1>2, GetBinary
  <2>2. Get("ulong", Num(item.cas)) = IF item.cas < 2^LongBits THEN {item.cas} ELSE {}
    BY <1>2, GetNatural
  <2> QED BY <1>3, <2>1, <2>2
<1>5. GetTuple(Raw[op], ItemTerm(op, item)) # {} <=>
        /\ Get("string", item.key) # {} /\ Get("ulong", Num(item.cas)) # {}
  BY <1>1, Pair
<1>6. ASSUME NEW v \in GetTuple(Raw[op], ItemTerm(op, item))
      PROVE  /\ v[1] = TheValue(Get("string", item.key))
             /\ v[2] = TheValue(Get("ulong", Num(item.cas)))
  BY <1>1, Pair
<1> QED BY <1>4, <1>5, <1>6, OneValue

LEMMA ConnectItem ==
  ASSUME NEW item, Typed("connect", item)
  PROVE  /\ GetTuple(Raw["connect"], ItemTerm("connect", item)) # {} <=>
              ItemFits("connect", item)
         /\ \A v \in GetTuple(Raw["connect"], ItemTerm("connect", item)) :
              v[1] = item.name /\ v[2] = item.value /\ item.value < 2^(IntBits - 1)
<1>1. /\ Raw["connect"] = <<"atom", "int">>
      /\ ItemTerm("connect", item) = Tuple(<<Atom(item.name), Num(item.value)>>)
  BY DEF Raw, ConnectRaw, ItemTerm, OptionTerm
<1>2. item.value \in Nat
  BY DEF Typed
<1>3. ItemFits("connect", item) <=> item.value < 2^(IntBits - 1)
  BY DEF ItemFits, Numeric, Fits
<1>4. /\ Get("atom", Atom(item.name)) = {item.name}
      /\ Get("int", Num(item.value)) =
           IF ItemFits("connect", item) THEN {item.value} ELSE {}
  <2>1. Get("atom", Atom(item.name)) = {item.name}
    BY GetOther
  <2>2. Get("int", Num(item.value)) = IF item.value < 2^(IntBits - 1) THEN {item.value} ELSE {}
    BY <1>2, GetNatural
  <2> QED BY <1>3, <2>1, <2>2
<1>5. GetTuple(Raw["connect"], ItemTerm("connect", item)) # {} <=>
        /\ Get("atom", Atom(item.name)) # {} /\ Get("int", Num(item.value)) # {}
  BY <1>1, Pair
<1>6. ASSUME NEW v \in GetTuple(Raw["connect"], ItemTerm("connect", item))
      PROVE  /\ v[1] = TheValue(Get("atom", Atom(item.name)))
             /\ v[2] = TheValue(Get("int", Num(item.value)))
  BY <1>1, Pair
<1> QED BY <1>3, <1>4, <1>5, <1>6, OneValue

LEMMA HttpItem ==
  ASSUME NEW item, Typed("http", item)
  PROVE  /\ GetTuple(Raw["http"], ItemTerm("http", item)) # {} /\ ItemFits("http", item)
         /\ \A v \in GetTuple(Raw["http"], ItemTerm("http", item)) :
              /\ v[1] = HttpTypeId[item.type] /\ v[2] = HttpMethodId[item.method]
              /\ v[3] = item.path.bin /\ v[4] = item.contentType.bin /\ v[5] = item.body.bin
<1>1. /\ Raw["http"] = <<"int", "int", "string", "string", "string">>
      /\ ItemTerm("http", item) =
           Tuple(<<Num(HttpTypeId[item.type]), Num(HttpMethodId[item.method]),
                   item.path, item.contentType, item.body>>)
  BY DEF Raw, HttpRaw, ItemTerm, HttpTerm
<1>2. /\ item.type \in DOMAIN HttpTypeId /\ item.method \in DOMAIN HttpMethodId
      /\ IsBinary(item.path) /\ IsBinary(item.contentType) /\ IsBinary(item.body)
  BY DEF Typed
<1>3. HttpTypeId[item.type] \in 0..3 /\ HttpMethodId[item.method] \in 0..3
  BY <1>2 DEF HttpTypeId, HttpMethodId
<1>4. ItemFits("http", item)
  BY DEF ItemFits, Numeric
<1>5. \A n \in 0..3 : Get("int", Num(n)) = {n}
  <2>1. \A n \in 0..3 : n \in Nat /\ n < 2^(IntBits - 1)
    BY Powers, PowersAssumption
  <2> QED BY <2>1, GetNatural
<1>6. /\ Get("int", Num(HttpTypeId[item.type])) = {HttpTypeId[item.type]}
      /\ Get("int", Num(HttpMethodId[item.method])) = {HttpMethodId[item.method]}
      /\ Get("string", item.path) = {item.path.bin}
      /\ Get("string", item.contentType) = {item.contentType.bin}
      /\ Get("string", item.body) = {item.body.bin}
  <2>1. /\ Get("int", Num(HttpTypeId[item.type])) = {HttpTypeId[item.type]}
        /\ Get("int", Num(HttpMethodId[item.method])) = {HttpMethodId[item.method]}
    BY <1>3, <1>5
  <2>2. /\ Get("string", item.path) = {item.path.bin}
        /\ Get("string", item.contentType) = {item.contentType.bin}
        /\ Get("string", item.body) = {item.body.bin}
    BY <1>2, GetBinary
  <2> QED BY <2>1, <2>2
<1>7. GetTuple(Raw["http"], ItemTerm("http", item)) # {} <=>
        /\ Get("int", Num(HttpTypeId[item.type])) # {}
        /\ Get("int", Num(HttpMethodId[item.method])) # {}
        /\ Get("string", item.path) # {} /\ Get("string", item.contentType) # {}
        /\ Get("string", item.body) # {}
  <2>1. GetTuple(<<"int", "int", "string", "string", "string">>,
                 Tuple(<<Num(HttpTypeId[item.type]), Num(HttpMethodId[item.method]),
                         item.path, item.contentType, item.body>>)) # {} <=>
          /\ Get("int", Num(HttpTypeId[item.type])) # {}
          /\ Get("int", Num(HttpMethodId[item.method])) # {}
          /\ Get("string", item.path) # {} /\ Get("string", item.contentType) # {}
          /\ Get("string", item.body) # {}
    BY Quintuple, SMTT(60)
  <2> QED BY <1>1, <2>1
<1>8. ASSUME NEW v \in GetTuple(Raw["http"], ItemTerm("http", item))
      PROVE  /\ v[1] = TheValue(Get("int", Num(HttpTypeId[item.type])))
             /\ v[2] = TheValue(Get("int", Num(HttpMethodId[item.method])))
             /\ v[3] = TheValue(Get("string", item.path))
             /\ v[4] = TheValue(Get("string", item.contentType))
             /\ v[5] = TheValue(Get("string", item.body))
  BY <1>1, Quintuple
<1> QED BY <1>4, <1>6, <1>7, <1>8, OneValue

LEMMA ArithmeticItem ==
  ASSUME NEW item, Typed("arithmetic", item)
  PROVE  /\ GetTuple(Raw["arithmetic"], ItemTerm("arithmetic", item)) # {} <=>
              ItemFits("arithmetic", item)
         /\ \A v \in GetTuple(Raw["arithmetic"], ItemTerm("arithmetic", item)) :
              /\ v[1] = item.key.bin /\ v[2] = item.delta /\ v[5] = item.expiry
              /\ v[3] = (item.default # Atom("undefined"))
              /\ v[3] => Num(v[4]) = item.default
<1> DEFINE given == item.default # Atom("undefined")
           initial == IF given THEN item.default.int ELSE 0
<1>1. IsBinary(item.key) /\ item.delta \in Int /\ item.expiry \in Nat
  BY DEF Typed
<1>2. given \in BOOLEAN /\ initial \in Nat /\ (given => item.default = Num(initial))
  <2>1. given => IsNumber(item.default) /\ item.default.int \in Nat
    BY DEF Typed
  <2> QED BY <2>1 DEF IsNumber
<1>3. ItemFits("arithmetic", item) <=>
        /\ item.delta \in -(2^(LongBits - 1))..(2^(LongBits - 1) - 1)
        /\ item.expiry < 2^(LongBits - 1) /\ initial < 2^LongBits
  <2>1. Numeric["arithmetic"] = {"delta", "expiry"}
    BY DEF Numeric
  <2>2. (\A f \in Numeric["arithmetic"] : Fits(item, f)) <=>
          /\ item.delta \in -(2^(LongBits - 1))..(2^(LongBits - 1) - 1)
          /\ item.expiry < 2^(LongBits - 1)
    BY <2>1 DEF Fits
  <2>3. 0 < 2^LongBits
    BY Powers, PowersAssumption
  <2>4. initial < 2^LongBits <=>
          item.default = Atom("undefined") \/ item.default.int < 2^LongBits
    BY <2>3
  <2> QED BY <2>2, <2>4 DEF ItemFits
<1> HIDE DEF initial, given
<1>4. /\ Raw["arithmetic"] = <<"string", "long", "bool", "ulong", "long">>
      /\ ItemTerm("arithmetic", item) =
           Tuple(<<item.key, Num(item.delta), Bool(given), Num(initial), Num(item.expiry)>>)
  <2>1. ItemTerm("arithmetic", item) = ArithmeticTerm(item)
    BY DEF ItemTerm
  <2>2. Num(initial) = IF ~given THEN Num(0) ELSE item.default
    BY <1>2 DEF initial
  <2> QED BY <1>2, <2>1, <2>2 DEF Raw, ArithmeticRaw, ArithmeticTerm, given
<1>5. /\ Get("string", item.key) = {item.key.bin}
      /\ Get("long", Num(item.delta)) =
           IF item.delta \in -(2^(LongBits - 1))..(2^(LongBits - 1) - 1)
             THEN {item.delta} ELSE {}
      /\ Get("bool", Bool(given)) = {given}
      /\ Get("ulong", Num(initial)) = IF initial < 2^LongBits THEN {initial} ELSE {}
      /\ Get("long", Num(item.expiry)) =
           IF item.expiry < 2^(LongBits - 1) THEN {item.expiry} ELSE {}
  <2>1. Get("string", item.key) = {item.key.bin}
    BY <1>1, GetBinary
  <2>2. Get("long", Num(item.delta)) =
           IF item.delta \in -(2^(LongBits - 1))..(2^(LongBits - 1) - 1)
             THEN {item.delta} ELSE {}
    BY <1>1, GetNumber
  <2>3. Get("bool", Bool(given)) = {given}
    BY <1>2, GetOther
  <2>4. Get("ulong", Num(initial)) = IF initial < 2^LongBits THEN {initial} ELSE {}
    BY <1>2, GetNatural
  <2>5. Get("long", Num(item.expiry)) =
           IF item.expiry < 2^(LongBits - 1) THEN {item.expiry} ELSE {}
    BY <1>1, GetNatural
  <2> QED BY <2>1, <2>2, <2>3, <2>4, <2>5
<1>6. GetTuple(Raw["arithmetic"], ItemTerm("arithmetic", item)) # {} <=>
        /\ Get("string", item.key) # {} /\ Get("long", Num(item.delta)) # {}
        /\ Get("bool", Bool(given)) # {} /\ Get("ulong", Num(initial)) # {}
        /\ Get("long", Num(item.expiry)) # {}
  <2>1. GetTuple(<<"string", "long", "bool", "ulong", "long">>,
                 Tuple(<<item.key, Num(item.delta), Bool(given), Num(initial),
                         Num(item.expiry)>>)) # {} <=>
          /\ Get("string", item.key) # {} /\ Get("long", Num(item.delta)) # {}
          /\ Get("bool", Bool(given)) # {} /\ Get("ulong", Num(initial)) # {}
          /\ Get("long", Num(item.expiry)) # {}
    BY Quintuple, SMTT(60)
  <2> QED BY <1>4, <2>1
<1>7. ASSUME NEW v \in GetTuple(Raw["arithmetic"], ItemTerm("arithmetic", item))
      PROVE  /\ v[1] = TheValue(Get("string", item.key))
             /\ v[2] = TheValue(Get("long", Num(item.delta)))
             /\ v[3] = TheValue(Get("bool", Bool(given)))
             /\ v[4] = TheValue(Get("ulong", Num(initial)))
             /\ v[5] = TheValue(Get("long", Num(item.expiry)))
  BY <1>4, Quintuple
<1>8. GetTuple(Raw["arithmetic"], ItemTerm("arithmetic", item)) # {} <=>
        ItemFits("arithmetic", item)
  BY <1>3, <1>5, <1>6
<1>9. ASSUME NEW v \in GetTuple(Raw["arithmetic"], ItemTerm("arithmetic", item))
      PROVE  /\ v[1] = item.key.bin /\ v[2] = item.delta /\ v[3] = given
             /\ v[4] = initial /\ v[5] = item.expiry
  BY <1>5, <1>6, <1>7, OneValue
<1> QED BY <1>2, <1>8, <1>9 DEF given

LEMMA StoreItem ==
  ASSUME NEW item, Typed("store", item)
  PROVE  /\ GetTuple(Raw["store"], ItemTerm("store", item)) # {} <=> ItemFits("store", item)
         /\ \A v \in GetTuple(Raw["store"], ItemTerm("store", item)) :
              /\ v[1] = StoreOperationId[item.operation] /\ v[2] = item.key.bin
              /\ GetString(Encode(item.encoder, item.value)) = {v[3]}
              /\ v[4] = EncoderId[item.encoder] /\ v[5] = item.cas /\ v[6] = item.expiry
<1> DEFINE id == StoreOperationId[item.operation]
           flags == EncoderId[item.encoder]
           value == Encode(item.encoder, item.value)
<1>1. /\ IsBinary(item.key) /\ item.cas \in Nat /\ item.expiry \in Nat
      /\ item.operation \in DOMAIN StoreOperationId /\ item.encoder \in DOMAIN EncoderId
  BY DEF Typed
<1>2. id \in 1..5 /\ flags \in 0..2
  BY <1>1 DEF StoreOperationId, EncoderId
<1>3. /\ Raw["store"] = <<"int", "string", "string", "uint", "ulong", "long">>
      /\ ItemTerm("store", item) =
           Tuple(<<Num(id), item.key, value, Num(flags), Num(item.cas), Num(item.expiry)>>)
  BY DEF Raw, StoreRaw, ItemTerm, StoreTerm
<1>4. /\ Get("string", value) = GetString(value)
      /\ \A v \in GetString(value) : GetString(value) = {v}
      /\ GetString(value) # {} <=>
           (item.encoder = "none" =>
              \/ Is("bin", item.value)
              \/ /\ Is("list", item.value)
                 /\ \A j \in DOMAIN item.value.list :
                      Is("int", item.value.list[j]) /\ item.value.list[j].int \in 0..255)
  <2>1. Get("string", value) = GetString(value)
    BY DEF Get
  <2>2. \A v \in GetString(value) : GetString(value) = {v}
    BY DEF GetString
  <2>3. CASE item.encoder = "none"
    <3>1. value = item.value
      BY <2>3 DEF Encode
    <3> QED BY <2>1, <2>2, <2>3, <3>1 DEF GetString
  <2>4. CASE item.encoder # "none"
    <3>1. value = Bin(<<item.encoder, item.value>>)
      BY <2>4 DEF Encode
    <3>2. GetString(value) # {}
      BY <3>1, Kinds DEF GetString
    <3> QED BY <2>1, <2>2, <2>4, <3>2
  <2> QED BY <2>3, <2>4
<1>5. ItemFits("store", item) <=>
        item.cas < 2^LongBits /\ item.expiry < 2^(LongBits - 1) /\ GetString(value) # {}
  <2>1. Numeric["store"] = {"cas", "expiry"}
    BY DEF Numeric
  <2>2. (\A f \in Numeric["store"] : Fits(item, f)) <=>
          item.cas < 2^LongBits /\ item.expiry < 2^(LongBits - 1)
    BY <2>1 DEF Fits
  <2> QED BY <1>4, <2>2 DEF ItemFits
<1>6. Get("int", Num(id)) = {id} /\ Get("uint", Num(flags)) = {flags}
  <2>1. id \in Nat /\ id < 2^(IntBits - 1) /\ flags \in Nat /\ flags < 2^IntBits
    BY <1>2, Powers, PowersAssumption
  <2> HIDE DEF id, flags
  <2> QED BY <2>1, GetNatural
<1> HIDE DEF id, flags, value
<1>7. Get("string", item.key) = {item.key.bin}
  BY <1>1, GetBinary
<1>8. Get("ulong", Num(item.cas)) = IF item.cas < 2^LongBits THEN {item.cas} ELSE {}
  BY <1>1, GetNatural
<1>9. Get("long", Num(item.expiry)) =
         IF item.expiry < 2^(LongBits - 1) THEN {item.expiry} ELSE {}
  BY <1>1, GetNatural
<1>10. GetTuple(Raw["store"], ItemTerm("store", item)) # {} <=>
         /\ Get("int", Num(id)) # {} /\ Get("string", item.key) # {}
         /\ Get("string", value) # {} /\ Get("uint", Num(flags)) # {}
         /\ Get("ulong", Num(item.cas)) # {} /\ Get("long", Num(item.expiry)) # {}
  <2>1. GetTuple(<<"int", "string", "string", "uint", "ulong", "long">>,
                 Tuple(<<Num(id), item.key, value, Num(flags), Num(item.cas),
                         Num(item.expiry)>>)) # {} <=>
          /\ Get("int", Num(id)) # {} /\ Get("string", item.key) # {}
          /\ Get("string", value) # {} /\ Get("uint", Num(flags)) # {}
          /\ Get("ulong", Num(item.cas)) # {} /\ Get("long", Num(item.expiry)) # {}
    BY Sextuple, SMTT(60)
  <2> QED BY <1>3, <2>1
<1>11. ASSUME NEW v \in GetTuple(Raw["store"], ItemTerm("store", item))
       PROVE  /\ v[1] = TheValue(Get("int", Num(id)))
              /\ v[2] = TheValue(Get("string", item.key))
              /\ v[3] = TheValue(Get("string", value))
              /\ v[4] = TheValue(Get("uint", Num(flags)))
              /\ v[5] = TheValue(Get("ulong", Num(item.cas)))
              /\ v[6] = TheValue(Get("long", Num(item.expiry)))
  BY <1>3, Sextuple
<1>12. GetTuple(Raw["store"], ItemTerm("store", item)) # {} <=> ItemFits("store", item)
  BY <1>4, <1>5, <1>6, <1>7, <1>8, <1>9, <1>10
<1>13. ASSUME NEW v \in GetTuple(Raw["store"], ItemTerm("store", item))
       PROVE  /\ v[1] = id /\ v[2] = item.key.bin /\ GetString(value) = {v[3]}
              /\ v[4] = flags /\ v[5] = item.cas /\ v[6] = item.expiry
  <2>1. PICK x \in GetString(value) : TRUE
    BY <1>4, <1>10
  <2>2. GetString(value) = {x}
    BY <1>4
  <2>3. GetString(value) = {v[3]}
    BY <1>4, <1>11, <2>2, OneValue
  <2>4. Get("ulong", Num(item.cas)) = {item.cas} /\ Get("long", Num(item.expiry)) = {item.expiry}
    BY <1>8, <1>9, <1>10
  <2> QED BY <1>6, <1>7, <1>11, <2>3, <2>4, OneValue
<1> QED BY <1>12, <1>13 DEF id, flags, value

-----------------------------------------------------------------------------
(* The conversion of a request. *)

Operations == {"get", "store", "remove", "arithmetic", "http", "durability", "connect"}

LEMMA RequestForm ==
  ASSUME NEW a \in Workload
  PROVE  /\ a.op \in Operations /\ a.from \in {"local", "remote"} /\ a.bulk \in BOOLEAN
         /\ Len(a.items) \in Nat /\ DOMAIN a.items = 1..Len(a.items)
         /\ \A i \in DOMAIN a.items : Typed(a.op, a.items[i])
         /\ ~a.bulk \/ a.op = "http" => Len(a.items) = 1
         /\ a.op = "http" => ~a.bulk
         /\ a.persistTo \in Nat \cup {-1} /\ a.replicateTo \in Nat \cup {-1}
BY WorkloadAssumption, LenProperties DEF Operations

LEMMA ItemConverts ==
  ASSUME NEW op \in Operations, NEW item, Typed(op, item)
  PROVE  GetTuple(Raw[op], ItemTerm(op, item)) # {} <=> ItemFits(op, item)
<1>1. CASE op = "get"
  BY <1>1, GetItem
<1>2. CASE op = "store"
  BY <1>2, StoreItem
<1>3. CASE op \in {"remove", "durability"}
  BY <1>3, KeyCasItem
<1>4. CASE op = "arithmetic"
  BY <1>4, ArithmeticItem
<1>5. CASE op = "http"
  BY <1>5, HttpItem
<1>6. CASE op = "connect"
  BY <1>6, ConnectItem
<1> QED BY <1>1, <1>2, <1>3, <1>4, <1>5, <1>6 DEF Operations

LEMMA GetNodes ==
  ASSUME NEW n \in Nat \cup {-1}
  PROVE  Get("int", Num(n)) = IF n \in -1..(2^(IntBits - 1) - 1) THEN {n} ELSE {}
<1> DEFINE half == 2^(IntBits - 1)
<1>1. half \in Int /\ 5 < half
  BY Powers, PowersAssumption
<1>2. n \in Int /\ Get("int", Num(n)) = IF n \in -half..(half - 1) THEN {n} ELSE {}
  BY GetNumber
<1> HIDE DEF half
<1>3. n \in -half..(half - 1) <=> n \in -1..(half - 1)
  BY <1>1
<1> QED BY <1>2, <1>3 DEF half

LEMMA OptionsConvert ==
  ASSUME NEW p \in Nat \cup {-1}, NEW r \in Nat \cup {-1}
  PROVE  /\ GetTuple(DurabilityOptionsRaw, Tuple(<<Num(p), Num(r)>>)) # {} <=>
              {p, r} \subseteq -1..(2^(IntBits - 1) - 1)
         /\ \A o \in GetTuple(DurabilityOptionsRaw, Tuple(<<Num(p), Num(r)>>)) :
              o[1] = p /\ o[2] = r
<1>1. DurabilityOptionsRaw = <<"int", "int">>
  BY DEF DurabilityOptionsRaw
<1>2. GetTuple(DurabilityOptionsRaw, Tuple(<<Num(p), Num(r)>>)) # {} <=>
        Get("int", Num(p)) # {} /\ Get("int", Num(r)) # {}
  BY <1>1, Pair
<1>3. ASSUME NEW o \in GetTuple(DurabilityOptionsRaw, Tuple(<<Num(p), Num(r)>>))
      PROVE  o[1] = TheValue(Get("int", Num(p))) /\ o[2] = TheValue(Get("int", Num(r)))
  BY <1>1, Pair
<1>4. /\ Get("int", Num(p)) = IF p \in -1..(2^(IntBits - 1) - 1) THEN {p} ELSE {}
      /\ Get("int", Num(r)) = IF r \in -1..(2^(IntBits - 1) - 1) THEN {r} ELSE {}
  BY GetNodes
<1> QED BY <1>2, <1>3, <1>4, OneValue

(* What the request functions of the NIF make of a request.                 *)
LEMMA Conversion ==
  ASSUME NEW a \in Workload
  PROVE  /\ Converted(a) # {} <=> Representable(a)
         /\ \A r \in Converted(a) :
              /\ DOMAIN r.items = DOMAIN a.items
              /\ \A i \in DOMAIN a.items :
                   r.items[i] \in GetTuple(Raw[a.op], ItemTerm(a.op, a.items[i]))
              /\ a.op = "durability" =>
                   r.options[1] = a.persistTo /\ r.options[2] = a.replicateTo
<1> DEFINE terms == [i \in DOMAIN a.items |-> ItemTerm(a.op, a.items[i])]
           items == GetVector(Raw[a.op], List(terms))
           options == GetTuple(DurabilityOptionsRaw,
                               Tuple(<<Num(a.persistTo), Num(a.replicateTo)>>))
           fitting == \A i \in DOMAIN a.items : ItemFits(a.op, a.items[i])
<1>1. Converted(a) = IF a.from = "remote" THEN {}
                     ELSE IF a.op # "durability" THEN {[items |-> i, options |-> <<>>] : i \in items}
                     ELSE {[items |-> i, options |-> o] : i \in items, o \in options}
  BY DEF Converted
<1>2. items # {} <=> fitting
  <2>1. items # {} <=> \A i \in DOMAIN a.items :
                         GetTuple(Raw[a.op], ItemTerm(a.op, a.items[i])) # {}
    BY VectorForm
  <2> QED BY <2>1, ItemConverts, RequestForm
<1>3. ASSUME NEW v \in items
      PROVE  /\ DOMAIN v = DOMAIN a.items
             /\ \A i \in DOMAIN a.items :
                  v[i] \in GetTuple(Raw[a.op], ItemTerm(a.op, a.items[i]))
  BY VectorForm
<1>4. /\ options # {} <=> {a.persistTo, a.replicateTo} \subseteq -1..(2^(IntBits - 1) - 1)
      /\ \A o \in options : o[1] = a.persistTo /\ o[2] = a.replicateTo
  BY RequestForm, OptionsConvert
<1>5. Representable(a) <=>
        /\ a.from = "local" /\ fitting
        /\ a.op = "durability" => {a.persistTo, a.replicateTo} \subseteq -1..(2^(IntBits - 1) - 1)
  BY DEF Representable, ItemFits
<1> HIDE DEF terms, items, options, fitting
<1>6. Converted(a) # {} <=> /\ a.from = "local" /\ items # {}
                            /\ a.op = "durability" => options # {}
  <2>1. a.from = "local" <=> a.from # "remote"
    BY RequestForm
  <2>2. ASSUME a.from = "local", NEW v \in items, a.op = "durability" => options # {}
        PROVE  Converted(a) # {}
    <3>1. CASE a.op # "durability"
      <4>1. [items |-> v, options |-> <<>>] \in Converted(a)
        BY <1>1, <2>1, <2>2, <3>1
      <4> QED BY <4>1
    <3>2. CASE a.op = "durability"
      <4>1. PICK o \in options : TRUE
        BY <2>2, <3>2
      <4>2. [items |-> v, options |-> o] \in Converted(a)
        BY <1>1, <2>1, <2>2, <3>2
      <4> QED BY <4>2
    <3> QED BY <3>1, <3>2
  <2>3. ASSUME NEW r \in Converted(a)
        PROVE  a.from = "local" /\ items # {} /\ (a.op = "durability" => options # {})
    <3>1. CASE a.op # "durability"
      <4>1. \E i \in items : r = [items |-> i, options |-> <<>>]
        BY <1>1, <2>1, <2>3, <3>1
      <4> QED BY <1>1, <2>1, <2>3, <3>1, <4>1
    <3>2. CASE a.op = "durability"
      <4>1. \E i \in items, o \in options : r = [items |-> i, options |-> o]
        BY <1>1, <2>1, <2>3, <3>2
      <4> QED BY <1>1, <2>1, <2>3, <4>1
    <3> QED BY <3>1, <3>2
  <2> QED BY <2>2, <2>3
<1>7. ASSUME NEW r \in Converted(a)
      PROVE  r.items \in items /\ (a.op = "durability" => r.options \in options)
  <2>1. CASE a.op # "durability"
    <3>1. PICK i \in items : r = [items |-> i, options |-> <<>>]
      BY <1>1, <1>6, <2>1
    <3> QED BY <2>1, <3>1
  <2>2. CASE a.op = "durability"
    <3>1. PICK i \in items, o \in options : r = [items |-> i, options |-> o]
      BY <1>1, <1>6, <2>2
    <3> QED BY <3>1
  <2> QED BY <2>1, <2>2
<1> QED BY <1>2, <1>3, <1>4, <1>5, <1>6, <1>7

-----------------------------------------------------------------------------
(* The inductive invariant: what each stage of a request has left is what   *)
(* its conversion makes of the stage before.                                *)

IsAnswer(op, cmds, a) ==
  /\ a.err \in Codes \cup {"LCB_SUCCESS"}
  /\ a.items \in [DOMAIN cmds -> Codes \cup {"LCB_SUCCESS"}]
  /\ op = "connect" => \A i \in DOMAIN cmds : a.items[i] = "LCB_SUCCESS"

Done == phase = "idle" /\ calls > 0

IInv ==
  /\ calls \in Nat
  /\ phase \in {"idle", "cast", "posted", "performed", "answered", "refused"}
  /\ phase # "idle" \/ Done => ask \in Workload
  /\ phase = "refused" => Converted(ask) = {}
  /\ phase \in {"posted", "performed", "answered"} \/ Done => request \in Converted(ask)
  /\ phase \in {"performed", "answered"} \/ Done => commands = CommandsOf(ask.op, request)
  /\ phase = "answered" \/ Done =>
       IsAnswer(ask.op, commands, answer) /\ reply = ReplyTerm(ask.op, commands, answer)
  /\ Done => result = Result(ask, reply)

LEMMA InvInit == Init => IInv
BY DEF Init, IInv, Done

LEMMA InvStep == IInv /\ [Next]_vars => IInv'
<1> SUFFICES ASSUME IInv, [Next]_vars PROVE IInv'
  OBVIOUS
<1>1. ASSUME NEW a \in Workload, Cast(a) PROVE IInv'
  BY <1>1 DEF Cast, IInv, Done
<1>2. CASE Convert
  BY <1>2 DEF Convert, IInv, Done
<1>3. CASE Refuse
  BY <1>3 DEF Refuse, IInv, Done
<1>4. CASE Perform
  BY <1>4 DEF Perform, IInv, Done
<1>5. CASE Answer
  <2>1. PICK err \in Codes \cup {"LCB_SUCCESS"},
             codes \in [DOMAIN commands -> Codes \cup {"LCB_SUCCESS"}] :
          /\ ask.op = "connect" => \A i \in DOMAIN codes : codes[i] = "LCB_SUCCESS"
          /\ answer' = [err |-> err, items |-> codes]
    BY <1>5 DEF Answer
  <2>2. IsAnswer(ask.op, commands, answer')
    BY <2>1 DEF IsAnswer
  <2>3. IsAnswer(ask.op, commands, answer)' /\ reply' = ReplyTerm(ask.op, commands, answer)'
    BY <1>5, <2>2 DEF Answer
  <2> QED BY <1>5, <2>3 DEF Answer, IInv, Done
<1>6. CASE Return
  BY <1>6 DEF Return, IInv, Done
<1>7. CASE UNCHANGED vars
  BY <1>7 DEF vars, IInv, Done
<1> QED BY <1>1, <1>2, <1>3, <1>4, <1>5, <1>6, <1>7 DEF Next

LEMMA Invariant == Spec => []IInv
BY InvInit, InvStep, PTL DEF Spec

(* A request is refused, and the server lost, only if some part of it does  *)
(* not fit, and what does not fit is not carried out in part.               *)
THEOREM UnfitIsRefused == Spec => []RefusedIfUnfit
<1>1. IInv => RefusedIfUnfit
  <2> SUFFICES ASSUME IInv PROVE RefusedIfUnfit
    OBVIOUS
  <2>1. CASE phase = "refused"
    BY <2>1, Conversion DEF IInv, RefusedIfUnfit
  <2>2. CASE phase \in {"posted", "performed", "answered"}
    BY <2>2, Conversion DEF IInv, RefusedIfUnfit
  <2> QED BY <2>1, <2>2 DEF RefusedIfUnfit
<1> QED BY <1>1, Invariant, PTL

-----------------------------------------------------------------------------
(* Commands. *)

LEMMA IdsAgree ==
  /\ \A o \in DOMAIN StoreOperationId : Storage[StoreOperationId[o]] = o
  /\ \A t \in DOMAIN HttpTypeId : HttpType[HttpTypeId[t] + 1] = t
  /\ \A m \in DOMAIN HttpMethodId : HttpMethod[HttpMethodId[m] + 1] = m
<1>1. \A o \in DOMAIN StoreOperationId : Storage[StoreOperationId[o]] = o
  BY DEF StoreOperationId, Storage
<1>2. \A t \in DOMAIN HttpTypeId : HttpType[HttpTypeId[t] + 1] = t
  BY DEF HttpTypeId, HttpType
<1>3. \A m \in DOMAIN HttpMethodId : HttpMethod[HttpMethodId[m] + 1] = m
  BY DEF HttpMethodId, HttpMethod
<1> QED BY <1>1, <1>2, <1>3

LEMMA ShortKeeps ==
  ASSUME NEW n \in Int, n \in 0..(2^ShortBits - 1)
  PROVE  Short(n) = n
<1> DEFINE all == 2^ShortBits
<1>1. all \in Int /\ n >= 0 /\ n < all
  BY Powers
<1> HIDE DEF all
<1>2. n % all = n
  BY <1>1
<1> QED BY <1>2 DEF Short, all

(* The command of one item says what the item says.                         *)
LEMMA CommandsSay ==
  ASSUME NEW a \in Workload, a.op # "connect", NEW i \in DOMAIN a.items, NEW o,
         a.op = "durability" => o[1] = a.persistTo /\ o[2] = a.replicateTo,
         NEW v \in GetTuple(Raw[a.op], ItemTerm(a.op, a.items[i])),
         commands[i] = CommandOf(a.op, v, o)
  PROVE  SameCommand(a, i)
<1> DEFINE item == a.items[i]
<1>1. a.op \in Operations /\ Typed(a.op, item)
  BY RequestForm
<1>2. CASE a.op = "get"
  <2>1. v[1] = item.key.bin /\ v[2] = item.expiry /\ v[3] = item.lock
    BY <1>1, <1>2, GetItem
  <2>2. commands[i] = GetCommand(v)
    BY <1>2 DEF CommandOf
  <2> QED BY <1>2, <2>1, <2>2 DEF GetCommand, SameCommand
<1>3. CASE a.op = "store"
  <2>1. /\ v[1] = StoreOperationId[item.operation] /\ v[2] = item.key.bin
        /\ GetString(Encode(item.encoder, item.value)) = {v[3]}
        /\ v[4] = EncoderId[item.encoder] /\ v[5] = item.cas /\ v[6] = item.expiry
    BY <1>1, <1>3, StoreItem
  <2>2. commands[i] = StoreCommand(v)
    BY <1>3 DEF CommandOf
  <2>3. Storage[v[1]] = item.operation
    BY <1>1, <1>3, <2>1, IdsAgree DEF Typed
  <2>4. /\ commands[i].operation = item.operation /\ commands[i].key = item.key.bin
        /\ commands[i].cas = item.cas /\ commands[i].exptime = item.expiry
        /\ commands[i].bytes = v[3] /\ commands[i].flags = EncoderId[item.encoder]
    BY <2>1, <2>2, <2>3 DEF StoreCommand
  <2> QED BY <1>3, <2>1, <2>4 DEF SameCommand
<1>4. CASE a.op = "remove"
  <2>1. v[1] = item.key.bin /\ v[2] = item.cas
    BY <1>1, <1>4, KeyCasItem
  <2>2. commands[i] = RemoveCommand(v)
    BY <1>4 DEF CommandOf
  <2> QED BY <1>4, <2>1, <2>2 DEF RemoveCommand, SameCommand
<1>5. CASE a.op = "arithmetic"
  <2>1. /\ v[1] = item.key.bin /\ v[2] = item.delta /\ v[5] = item.expiry
        /\ v[3] = (item.default # Atom("undefined"))
        /\ v[3] => Num(v[4]) = item.default
    BY <1>1, <1>5, ArithmeticItem
  <2>2. commands[i] = ArithmeticCommand(v)
    BY <1>5 DEF CommandOf
  <2>3. /\ commands[i].key = v[1] /\ commands[i].delta = v[2] /\ commands[i].create = v[3]
        /\ commands[i].initial = v[4] /\ commands[i].exptime = v[5]
    BY <2>2 DEF ArithmeticCommand
  <2> QED BY <1>5, <2>1, <2>3 DEF SameCommand
<1>6. CASE a.op = "http"
  <2>1. /\ v[1] = HttpTypeId[item.type] /\ v[2] = HttpMethodId[item.method]
        /\ v[3] = item.path.bin /\ v[4] = item.contentType.bin /\ v[5] = item.body.bin
    BY <1>1, <1>6, HttpItem
  <2>2. commands[i] = HttpCommand(v)
    BY <1>6 DEF CommandOf
  <2>3. HttpType[v[1] + 1] = item.type /\ HttpMethod[v[2] + 1] = item.method
    BY <1>1, <1>6, <2>1, IdsAgree DEF Typed
  <2> QED BY <1>6, <2>1, <2>2, <2>3 DEF HttpCommand, SameCommand
<1>7. CASE a.op = "durability"
  <2>1. v[1] = item.key.bin /\ v[2] = item.cas
    BY <1>1, <1>7, KeyCasItem
  <2>2. commands[i] = DurabilityCommand(v, o)
    BY <1>7 DEF CommandOf
  <2>3. /\ commands[i].key = item.key.bin /\ commands[i].cas = item.cas
        /\ commands[i].persist_to = Short(a.persistTo)
        /\ commands[i].replicate_to = Short(a.replicateTo)
    BY <1>7, <2>1, <2>2 DEF DurabilityCommand
  <2>4. /\ a.persistTo \in 0..(2^ShortBits - 1) => Short(a.persistTo) = a.persistTo
        /\ a.replicateTo \in 0..(2^ShortBits - 1) => Short(a.replicateTo) = a.replicateTo
    BY RequestForm, ShortKeeps
  <2> QED BY <1>7, <2>3, <2>4 DEF SameCommand
<1> QED BY <1>1, <1>2, <1>3, <1>4, <1>5, <1>6, <1>7 DEF Operations

-----------------------------------------------------------------------------
(* The options of connect: the loop of the constructor leaves the last      *)
(* value given for each name.                                               *)

LEMMA Smallest ==
  ASSUME NEW S, S \subseteq Nat, S # {}
  PROVE  \E m \in S : \A y \in S : m <= y
<1> DEFINE less == {p \in Nat \X Nat : p[1] < p[2]}
<1>1. IsWellFoundedOn(less, Nat)
  BY NatLessThanWellFounded DEF OpToRel
<1>2. PICK m \in S : \A y \in S : ~ (<<y, m>> \in less)
  <2> HIDE DEF less
  <2> QED BY <1>1, WFMin
<1>3. ASSUME NEW y \in S PROVE m <= y
  <2>1. y \in Nat /\ m \in Nat /\ ~ (<<y, m>> \in less)
    BY <1>2
  <2>2. y < m => <<y, m>> \in less
    BY <2>1
  <2> QED BY <2>1, <2>2
<1> QED BY <1>3

LEMMA Largest ==
  ASSUME NEW n \in Nat, NEW S, S \subseteq 1..n, S # {}
  PROVE  Max(S) \in S /\ \A y \in S : y <= Max(S)
<1> DEFINE gaps == {n - s : s \in S}
<1>1. ASSUME NEW s \in S PROVE n - s \in gaps /\ n - s \in Nat
  <2>1. s \in 1..n
    OBVIOUS
  <2> QED BY <2>1
<1>2. gaps \subseteq Nat /\ gaps # {} /\ \A g \in gaps : \E s \in S : g = n - s
  BY <1>1
<1> HIDE DEF gaps
<1>3. PICK g \in gaps : \A y \in gaps : g <= y
  BY <1>2, Smallest
<1>4. PICK m \in S : g = n - m
  BY <1>2
<1>5. \A y \in S : m >= y
  <2> TAKE y \in S
  <2>1. n - m <= n - y /\ m \in 1..n /\ y \in 1..n
    BY <1>1, <1>3, <1>4
  <2> QED BY <2>1
<1>6. Max(S) \in S /\ \A y \in S : Max(S) >= y
  BY <1>5 DEF Max
<1>7. \A y \in S : y \in Int
  OBVIOUS
<1> QED BY <1>6, <1>7

(* The option of that name after those of the list with indices in s.       *)
Setting(list, s, name) ==
  LET given == {i \in s : list[i][1] = name}
  IN  IF given = {} THEN 0 ELSE list[Max(given)][2] % 2^IntBits

Settings(list, s) == [name \in KnownOptions |-> Setting(list, s, name)]

LEMMA OneMoreOption ==
  ASSUME NEW n \in Nat, NEW list, NEW s, s \subseteq 1..n, s # {}
  PROVE  Settings(list, s) = Set(Settings(list, s \ {Max(s)}), list[Max(s)])
<1>1. Max(s) \in s /\ \A y \in s : y <= Max(s)
  BY Largest
<1>2. PICK m \in s : m = Max(s)
  BY <1>1
<1>3. ASSUME NEW name, list[m][1] # name
      PROVE  Setting(list, s, name) = Setting(list, s \ {m}, name)
  <2>1. {i \in s : list[i][1] = name} = {i \in s \ {m} : list[i][1] = name}
    BY <1>3
  <2> QED BY <2>1 DEF Setting
<1>4. ASSUME NEW name, list[m][1] = name
      PROVE  Setting(list, s, name) = list[m][2] % 2^IntBits
  <2> DEFINE given == {i \in s : list[i][1] = name}
  <2>1. given \subseteq 1..n /\ m \in given
    BY <1>4
  <2>2. Max(given) \in given /\ m <= Max(given)
    <3> HIDE DEF given
    <3> QED BY <2>1, Largest
  <2>3. Max(given) = m
    <3>1. Max(given) \in s /\ Max(given) \in 1..n /\ m \in 1..n
      BY <2>2
    <3> QED BY <1>1, <1>2, <2>2, <3>1
  <2> QED BY <2>1, <2>3 DEF Setting
<1>5. \A name \in KnownOptions :
        Settings(list, s)[name] = Set(Settings(list, s \ {m}), list[m])[name]
  BY <1>3, <1>4 DEF Settings, Set
<1>6. DOMAIN Set(Settings(list, s \ {m}), list[m]) = KnownOptions
  BY DEF Settings, Set
<1>7. Set(Settings(list, s \ {m}), list[m]) =
        [name \in KnownOptions |-> Set(Settings(list, s \ {m}), list[m])[name]]
  BY <1>6 DEF Settings, Set
<1> QED BY <1>2, <1>5, <1>7 DEF Settings

LEMMA AllOptions ==
  ASSUME NEW n \in Nat, NEW list, DOMAIN list = 1..n
  PROVE  FoldLeft(Set, Defaults, list) = Settings(list, 1..n)
<1> DEFINE Round(f, s) == IF s = {} THEN Defaults ELSE Set(f[s \ {Max(s)}], list[Max(s)])
           iter == CHOOSE f : f = [s \in SUBSET (1..n) |-> Round(f, s)]
           closed == [s \in SUBSET (1..n) |-> Settings(list, s)]
<1>1. FoldLeft(Set, Defaults, list) = iter[1..n]
  BY DEF FoldLeft, MapThenFoldSet
<1>2. Settings(list, {}) = Defaults
  BY DEF Settings, Setting, Defaults
<1>3. iter = [s \in SUBSET (1..n) |-> Round(iter, s)]
  <2>1. ASSUME NEW s \in SUBSET (1..n) PROVE closed[s] = Round(closed, s)
    <3>1. CASE s = {}
      BY <1>2, <3>1
    <3>2. CASE s # {}
      <4>1. closed[s] = Set(Settings(list, s \ {Max(s)}), list[Max(s)])
        BY <3>2, OneMoreOption
      <4>2. closed[s \ {Max(s)}] = Settings(list, s \ {Max(s)})
        OBVIOUS
      <4> QED BY <3>2, <4>1, <4>2
    <3> QED BY <3>1, <3>2
  <2>2. closed = [s \in SUBSET (1..n) |-> Round(closed, s)]
    BY <2>1
  <2> HIDE DEF closed, Round
  <2> QED BY <2>2
<1> HIDE DEF iter
<1>4. \A k \in 0..n : iter[1..k] = Settings(list, 1..k)
  <2> DEFINE bad == {k \in 0..n : iter[1..k] # Settings(list, 1..k)}
  <2> SUFFICES ASSUME bad # {} PROVE FALSE
    OBVIOUS
  <2>1. PICK k \in bad : \A j \in bad : k <= j
    <3>1. bad \subseteq Nat
      OBVIOUS
    <3> HIDE DEF bad
    <3> QED BY <3>1, Smallest
  <2>2. k \in 0..n /\ iter[1..k] # Settings(list, 1..k) /\ 1..k \in SUBSET (1..n)
    BY <2>1
  <2>3. iter[1..k] = Round(iter, 1..k)
    BY <1>3, <2>2
  <2>4. CASE k = 0
    <3>1. 1..k = {}
      BY <2>4
    <3> QED BY <1>2, <2>2, <2>3, <3>1
  <2>5. CASE k # 0
    <3>1. 1..k \subseteq 1..n /\ 1..k # {} /\ k \in 1..k /\ k - 1 \in 0..n
      BY <2>2, <2>5
    <3>2. Max(1..k) = k
      <4>1. Max(1..k) \in 1..k /\ k <= Max(1..k)
        BY <3>1, Largest
      <4> QED BY <2>2, <4>1
    <3>3. (1..k) \ {k} = 1..(k - 1)
      BY <2>2, <2>5
    <3>4. iter[1..(k - 1)] = Settings(list, 1..(k - 1))
      <4>1. k - 1 \notin bad
        BY <2>1, <2>2
      <4> QED BY <3>1, <4>1
    <3>5. Settings(list, 1..k) = Set(Settings(list, 1..(k - 1)), list[k])
      BY <3>1, <3>2, <3>3, OneMoreOption
    <3> QED BY <2>2, <2>3, <3>1, <3>2, <3>3, <3>4, <3>5
  <2> QED BY <2>2, <2>4, <2>5
<1> QED BY <1>1, <1>4

LEMMA OptionsSay ==
  ASSUME NEW a \in Workload, a.op = "connect", NEW r \in Converted(a),
         commands = CommandsOf(a.op, r)
  PROVE  OptionsAsGiven(a)
<1> DEFINE n == Len(a.items)
           list == r.items
<1>1. n \in Nat /\ DOMAIN a.items = 1..n /\ \A i \in 1..n : Typed("connect", a.items[i])
  BY RequestForm
<1>2. DOMAIN list = 1..n
  BY <1>1, Conversion
<1>3. ASSUME NEW i \in 1..n
      PROVE  /\ list[i][1] = a.items[i].name
             /\ list[i][2] % 2^IntBits = a.items[i].value
  <2>1. list[i] \in GetTuple(Raw["connect"], ItemTerm("connect", a.items[i]))
    BY <1>1, Conversion
  <2>2. /\ list[i][1] = a.items[i].name /\ list[i][2] = a.items[i].value
        /\ a.items[i].value < 2^(IntBits - 1)
    BY <1>1, <2>1, ConnectItem
  <2>3. PICK v \in Nat : v = a.items[i].value
    BY <1>1 DEF Typed
  <2> DEFINE all == 2^IntBits
  <2>4. v < all /\ all \in Int
    BY <2>2, <2>3, Powers, PowersAssumption
  <2> HIDE DEF all
  <2>5. v % all = v
    BY <2>3, <2>4
  <2> QED BY <2>2, <2>3, <2>5 DEF all
<1>4. commands[1] = Settings(list, 1..n)
  <2>1. commands = <<FoldLeft(Set, Defaults, list)>>
    BY DEF CommandsOf
  <2> HIDE DEF list, n
  <2> QED BY <1>1, <1>2, <2>1, AllOptions
<1> HIDE DEF list, n
<1> DEFINE Given(name) == {i \in DOMAIN a.items : a.items[i].name = name}
           LastGiven(name) == CHOOSE i \in Given(name) : \A j \in Given(name) : j <= i
<1> SUFFICES ASSUME NEW name \in KnownOptions
             PROVE  commands[1][name] =
                      IF Given(name) = {} THEN 0 ELSE a.items[LastGiven(name)].value
  BY DEF OptionsAsGiven
<1> DEFINE given == Given(name)
           last == LastGiven(name)
<1>5. given \subseteq 1..n /\ given = {i \in 1..n : list[i][1] = name}
  BY <1>1, <1>3
<1>6. commands[1][name] = IF given = {} THEN 0 ELSE list[Max(given)][2] % 2^IntBits
  BY <1>4, <1>5 DEF Settings, Setting
<1>7. ASSUME given # {}
      PROVE  Max(given) = last /\ Max(given) \in 1..n
  <2> HIDE DEF given
  <2>2. Max(given) \in given /\ \A j \in given : j <= Max(given)
    BY <1>1, <1>5, <1>7, Largest
  <2>3. last \in given /\ \A j \in given : j <= last
    BY <2>2 DEF given
  <2> HIDE DEF last
  <2>4. Max(given) <= last /\ last <= Max(given)
    BY <2>2, <2>3
  <2>5. Max(given) \in Int /\ last \in Int
    BY <1>5, <2>2, <2>3
  <2> QED BY <1>5, <2>2, <2>4, <2>5
<1> HIDE DEF given, last
<1>8. commands[1][name] = IF given = {} THEN 0 ELSE a.items[last].value
  BY <1>3, <1>6, <1>7
<1> QED BY <1>8 DEF given, last

LEMMA SameCommands ==
  ASSUME ask \in Workload, request \in Converted(ask), commands = CommandsOf(ask.op, request),
         ask.op # "connect"
  PROVE  /\ DOMAIN commands = DOMAIN ask.items
         /\ \A i \in DOMAIN ask.items : SameCommand(ask, i)
<1>1. /\ DOMAIN request.items = DOMAIN ask.items
      /\ \A i \in DOMAIN ask.items :
           request.items[i] \in GetTuple(Raw[ask.op], ItemTerm(ask.op, ask.items[i]))
      /\ ask.op = "durability" =>
           request.options[1] = ask.persistTo /\ request.options[2] = ask.replicateTo
  BY Conversion
<1>2. /\ DOMAIN commands = DOMAIN ask.items
      /\ \A i \in DOMAIN ask.items :
           commands[i] = CommandOf(ask.op, request.items[i], request.options)
  BY <1>1 DEF CommandsOf
<1>3. \A i \in DOMAIN ask.items : SameCommand(ask, i)
  BY <1>1, <1>2, CommandsSay
<1> QED BY <1>2, <1>3

(* A command says to libcouchbase what the caller said to the API function, *)
(* and the options of connect are those that were given last.               *)
THEOREM CommandsAreAsAsked == Spec => []CommandIsAsAsked
<1>1. IInv => CommandIsAsAsked
  <2> SUFFICES ASSUME IInv, phase \in {"performed", "answered"} PROVE CommandIsAsAsked
    BY DEF CommandIsAsAsked
  <2>1. ask \in Workload /\ request \in Converted(ask) /\ commands = CommandsOf(ask.op, request)
    BY DEF IInv
  <2>2. CASE ask.op = "connect"
    BY <2>1, <2>2, OptionsSay DEF CommandIsAsAsked
  <2>3. CASE ask.op # "connect"
    BY <2>1, <2>3, SameCommands DEF CommandIsAsAsked
  <2> QED BY <2>2, <2>3
<1> QED BY <1>1, Invariant, PTL

-----------------------------------------------------------------------------
(* Results. *)

LEMMA ErrorTuples ==
  ASSUME NEW x, NEW y
  PROVE  /\ Is("tuple", ErrorTuple(x)) /\ ErrorTuple(x).tuple[1] = Atom("error")
         /\ ErrorTuple(x) = ErrorTuple(y) => x = y
<1>1. /\ Is("tuple", ErrorTuple(x)) /\ ErrorTuple(x).tuple = <<Atom("error"), Atom(x)>>
      /\ ErrorTuple(y).tuple = <<Atom("error"), Atom(y)>>
  BY Kinds DEF ErrorTuple
<1>2. ErrorTuple(x) = ErrorTuple(y) => Atom(x) = Atom(y)
  BY <1>1
<1> QED BY <1>1, <1>2, SameTerm

LEMMA NamesDiffer ==
  /\ \A c \in DOMAIN ErrorNames : ErrorNames[c] \notin {"unknown_error", "timeout", "ok"}
  /\ \A c, d \in DOMAIN ErrorNames : ErrorNames[c] = ErrorNames[d] => c = d
<1>1. \A c \in DOMAIN ErrorNames : ErrorNames[c] \notin {"unknown_error", "timeout", "ok"}
  BY DEF ErrorNames
<1>2. \A c, d \in DOMAIN ErrorNames : ErrorNames[c] = ErrorNames[d] => c = d
  BY DEF ErrorNames
<1> QED BY <1>1, <1>2

(* {error, Name} tells of this error and of no other that has a name.       *)
LEMMA ErrorsAreTold ==
  ASSUME NEW op, NEW code, code # "LCB_SUCCESS"
  PROVE  Told(op, code, ErrorTuple(ErrorMessage(code)))
<1> DEFINE t == ErrorTuple(ErrorMessage(code))
<1>1. Is("tuple", t) /\ t.tuple[1] = Atom("error")
  BY ErrorTuples
<1>2. ErrorMessage(code) \notin {"timeout", "ok"}
  BY NamesDiffer DEF ErrorMessage
<1>3. t # ErrorTuple("timeout") /\ t # ErrorTuple("ok")
  BY <1>2, ErrorTuples
<1>4. ASSUME NEW c, c # code, t = ErrorTuple(ErrorMessage(c))
      PROVE  c \notin DOMAIN ErrorNames /\ code \notin DOMAIN ErrorNames
  <2>1. ErrorMessage(code) = ErrorMessage(c)
    BY <1>4, ErrorTuples
  <2> QED BY <1>4, <2>1, NamesDiffer DEF ErrorMessage
<1> HIDE DEF t
<1>5. Told(op, code, t)
  BY <1>1, <1>3, <1>4 DEF Told
<1> QED BY <1>5 DEF t

(* A sequence put behind one element. *)
LEMMA OneInFront ==
  ASSUME NEW S, NEW a \in S, NEW s \in Seq(S), NEW t \in Seq(S),
         Len(t) = Len(s) + 1, t[1] = a, \A i \in 1..Len(s) : t[i + 1] = s[i]
  PROVE  <<a>> \o s = t
<1>1. <<a>> \in Seq(S) /\ Len(<<a>>) = 1 /\ <<a>>[1] = a
  OBVIOUS
<1>2. PICK b : b = <<a>>
  OBVIOUS
<1>3. /\ b \o s \in Seq(S) /\ Len(b \o s) = 1 + Len(s)
      /\ \A i \in 1..(1 + Len(s)) : (b \o s)[i] = IF i <= 1 THEN a ELSE s[i - 1]
  <2>1. b \in Seq(S) /\ Len(b) = 1 /\ b[1] = a
    BY <1>1, <1>2
  <2>2. /\ b \o s \in Seq(S) /\ Len(b \o s) = Len(b) + Len(s)
        /\ \A i \in 1..(Len(b) + Len(s)) : (b \o s)[i] = IF i <= Len(b) THEN b[i] ELSE s[i - Len(b)]
    BY <2>1, ConcatProperties
  <2>3. Len(s) \in Nat
    OBVIOUS
  <2>4. PICK w : w = b \o s
    OBVIOUS
  <2>5. \A i \in 1..(1 + Len(s)) : w[i] = IF i <= 1 THEN a ELSE s[i - 1]
    BY <2>1, <2>2, <2>3, <2>4
  <2> QED BY <2>1, <2>2, <2>4, <2>5
<1>4. PICK w : w = b \o s
  OBVIOUS
<1>5. \A i \in 1..Len(w) : w[i] = t[i]
  <2> SUFFICES ASSUME NEW i \in 1..Len(w) PROVE w[i] = t[i]
    OBVIOUS
  <2>1. CASE i = 1
    BY <1>3, <1>4, <2>1
  <2>2. CASE i # 1
    <3>1. i - 1 \in 1..Len(s) /\ i = (i - 1) + 1
      BY <1>3, <1>4, <2>2
    <3>2. t[(i - 1) + 1] = s[i - 1]
      BY <3>1
    <3>3. i \in 1..(1 + Len(s)) /\ ~(i <= 1)
      BY <1>3, <1>4, <2>2
    <3>4. w[i] = s[i - 1]
      BY <1>3, <1>4, <3>3
    <3> QED BY <3>1, <3>2, <3>4
  <2> QED BY <2>1, <2>2
<1>6. w = t
  BY <1>3, <1>4, <1>5, SeqEqual
<1> QED BY <1>2, <1>4, <1>6

LEMMA BehindOne ==
  ASSUME NEW a, NEW x, NEW y
  PROVE  /\ <<a>> \o <<x>> = <<a, x>>
         /\ <<a>> \o <<x, y>> = <<a, x, y>>
<1> DEFINE S == {a, x, y}
<1> HIDE DEF S
<1>1. <<a>> \o <<x>> = <<a, x>>
  <2>1. PICK s : s = <<x>>
    OBVIOUS
  <2>2. PICK t : t = <<a, x>>
    OBVIOUS
  <2>3. s \in Seq(S) /\ t \in Seq(S) /\ a \in S
    BY <2>1, <2>2 DEF S
  <2>4. Len(t) = Len(s) + 1 /\ t[1] = a /\ \A i \in 1..Len(s) : t[i + 1] = s[i]
    BY <2>1, <2>2
  <2>5. <<a>> \o s = t
    BY <2>3, <2>4, OneInFront
  <2> QED BY <2>1, <2>2, <2>5
<1>2. <<a>> \o <<x, y>> = <<a, x, y>>
  <2>1. PICK s : s = <<x, y>>
    OBVIOUS
  <2>2. PICK t : t = <<a, x, y>>
    OBVIOUS
  <2>3. s \in Seq(S) /\ t \in Seq(S) /\ a \in S
    BY <2>1, <2>2 DEF S
  <2>4. Len(t) = Len(s) + 1 /\ t[1] = a /\ \A i \in 1..Len(s) : t[i + 1] = s[i]
    BY <2>1, <2>2
  <2>5. <<a>> \o s = t
    BY <2>3, <2>4, OneInFront
  <2> QED BY <2>1, <2>2, <2>5
<1> QED BY <1>1, <1>2

LEMMA ThreeBehindOne ==
  ASSUME NEW a, NEW x, NEW y, NEW z
  PROVE  <<a>> \o <<x, y, z>> = <<a, x, y, z>>
<1> DEFINE S == {a, x, y, z}
<1> HIDE DEF S
<1>1. <<a>> \o <<x, y, z>> = <<a, x, y, z>>
  <2>1. PICK s : s = <<x, y, z>>
    OBVIOUS
  <2>2. PICK t : t = <<a, x, y, z>>
    OBVIOUS
  <2>3. s \in Seq(S) /\ t \in Seq(S) /\ a \in S
    BY <2>1, <2>2 DEF S
  <2>4. Len(t) = Len(s) + 1 /\ t[1] = a /\ \A i \in 1..Len(s) : t[i + 1] = s[i]
    BY <2>1, <2>2
  <2>5. <<a>> \o s = t
    BY <2>3, <2>4, OneInFront
  <2> QED BY <2>1, <2>2, <2>5
<1> QED BY <1>1

LEMMA OkTuples ==
  ASSUME NEW x, NEW y, NEW z
  PROVE  /\ OkTuple(<<x>>) = Tuple(<<Atom("ok"), x>>)
         /\ OkTuple(<<x, y>>) = Tuple(<<Atom("ok"), x, y>>)
         /\ OkTuple(<<x, y, z>>) = Tuple(<<Atom("ok"), x, y, z>>)
<1>1. PICK ok : ok = Atom("ok")
  OBVIOUS
<1>2. <<ok>> \o <<x>> = <<ok, x>>
  BY BehindOne
<1>3. <<ok>> \o <<x, y>> = <<ok, x, y>>
  BY BehindOne
<1>4. <<ok>> \o <<x, y, z>> = <<ok, x, y, z>>
  BY ThreeBehindOne
<1> QED BY <1>1, <1>2, <1>3, <1>4 DEF OkTuple

LEMMA OkIsNoError == Atom("ok") # Atom("error")
BY SameTerm

DocumentOps == {"get", "store", "remove", "arithmetic", "durability"}

(* An error is handed on as it is.                                          *)
LEMMA ErrorIsKept ==
  ASSUME NEW op, NEW t, Is("tuple", t), t.tuple[1] = Atom("error"), Len(t.tuple) = 2, t # Atom("ok")
  PROVE  ItemResult(op, t) = t
<1>1. CASE op = "get"
  <2>1. Len(t.tuple) # Arity.get
    BY DEF Arity
  <2> QED BY <1>1, <2>1 DEF ItemResult
<1>2. CASE op = "remove"
  BY <1>2 DEF ItemResult
<1>3. CASE op # "get" /\ op # "remove"
  BY <1>3 DEF ItemResult
<1> QED BY <1>1, <1>2, <1>3

(* What the clauses of the API make of the answer for one document.         *)
LEMMA AnswersAreTold ==
  ASSUME NEW op \in DocumentOps, NEW code
  PROVE  Told(op, code, ItemResult(op, IF code = "LCB_SUCCESS" THEN OkTerm[op]
                                       ELSE ErrorTuple(ErrorMessage(code))))
<1>1. CASE code # "LCB_SUCCESS"
  <2>1. PICK t : t = ErrorTuple(ErrorMessage(code))
    OBVIOUS
  <2>2. Is("tuple", t) /\ t.tuple = <<Atom("error"), Atom(ErrorMessage(code))>>
    BY <2>1, Kinds DEF ErrorTuple
  <2>3. t # Atom("ok")
    BY <2>1, SameTerm DEF ErrorTuple
  <2>4. t.tuple[1] = Atom("error") /\ Len(t.tuple) = 2
    BY <2>2
  <2>5. ItemResult(op, t) = t
    BY <2>2, <2>3, <2>4, ErrorIsKept
  <2> QED BY <1>1, <2>1, <2>5, ErrorsAreTold
<1>2. CASE code = "LCB_SUCCESS" /\ op = "get"
  <2>1. OkTerm[op] = Tuple(<<Atom("ok"), Num(Data.cas), Num(Data.flags), Bin(Data.value)>>)
    BY <1>2, OkTuples DEF OkTerm, GetOk
  <2>2. ItemResult(op, OkTerm[op]) = OkTuple(<<Num(Data.cas), Bin(Data.value)>>)
    BY <1>2, <2>1, Kinds, OkIsNoError DEF ItemResult, Arity
  <2> QED BY <1>2, <2>2 DEF Told
<1>3. CASE code = "LCB_SUCCESS" /\ op = "remove"
  <2>1. OkTerm[op] = Atom("ok") /\ ~Is("tuple", Atom("ok"))
    BY <1>3 DEF OkTerm, RemoveOk, Is, Atom
  <2>2. ItemResult(op, OkTerm[op]) = Atom("ok")
    BY <1>3, <2>1 DEF ItemResult
  <2> QED BY <1>3, <2>2 DEF Told
<1>4. CASE code = "LCB_SUCCESS" /\ op = "store"
  <2>1. /\ OkTerm[op] = OkTuple(<<Num(Data.cas)>>)
        /\ OkTerm[op] = Tuple(<<Atom("ok"), Num(Data.cas)>>)
    BY <1>4, OkTuples DEF OkTerm, StoreOk
  <2>2. ItemResult(op, OkTerm[op]) = OkTerm[op]
    BY <1>4, <2>1, Kinds, OkIsNoError DEF ItemResult, Arity
  <2> QED BY <1>4, <2>1, <2>2 DEF Told
<1>5. CASE code = "LCB_SUCCESS" /\ op = "durability"
  <2>1. /\ OkTerm[op] = OkTuple(<<Num(Data.cas)>>)
        /\ OkTerm[op] = Tuple(<<Atom("ok"), Num(Data.cas)>>)
    BY <1>5, OkTuples DEF OkTerm, DurabilityOk
  <2>2. ItemResult(op, OkTerm[op]) = OkTerm[op]
    BY <1>5, <2>1, Kinds, OkIsNoError DEF ItemResult, Arity
  <2> QED BY <1>5, <2>1, <2>2 DEF Told
<1>6. CASE code = "LCB_SUCCESS" /\ op = "arithmetic"
  <2>1. /\ OkTerm[op] = OkTuple(<<Num(Data.cas), Num(Data.number)>>)
        /\ OkTerm[op] = Tuple(<<Atom("ok"), Num(Data.cas), Num(Data.number)>>)
    BY <1>6, OkTuples DEF OkTerm, ArithmeticOk
  <2>2. ItemResult(op, OkTerm[op]) = OkTerm[op]
    BY <1>6, <2>1, Kinds, OkIsNoError DEF ItemResult, Arity
  <2> QED BY <1>6, <2>1, <2>2 DEF Told
<1> QED BY <1>1, <1>2, <1>3, <1>4, <1>5, <1>6 DEF DocumentOps

LEMMA KeyIsKept ==
  ASSUME NEW a \in Workload, a.op \in DocumentOps, NEW i \in DOMAIN a.items, SameCommand(a, i)
  PROVE  Bin(commands[i].key) = a.items[i].key
<1>1. IsBinary(a.items[i].key)
  BY RequestForm DEF Typed, DocumentOps
<1>2. commands[i].key = a.items[i].key.bin
  <2>1. CASE a.op = "get"
    BY <2>1 DEF SameCommand
  <2>2. CASE a.op = "store"
    BY <2>2 DEF SameCommand
  <2>3. CASE a.op = "remove"
    BY <2>3 DEF SameCommand
  <2>4. CASE a.op = "arithmetic"
    BY <2>4 DEF SameCommand
  <2>5. CASE a.op = "durability"
    BY <2>5 DEF SameCommand
  <2> QED BY <2>1, <2>2, <2>3, <2>4, <2>5 DEF DocumentOps
<1> QED BY <1>1, <1>2 DEF IsBinary

(* The response to a request on documents: one term for each command.       *)
LEMMA DocumentReply ==
  ASSUME NEW op \in DocumentOps, NEW cmds, NEW a, a.err = "LCB_SUCCESS"
  PROVE  /\ ReplyTerm(op, cmds, a).tuple[1] # Atom("error")
         /\ ReplyTerm(op, cmds, a).tuple[2].list =
              [i \in DOMAIN cmds |-> ResponseTerm(op, cmds[i].key, a.items[i])]
<1> DEFINE list == [i \in DOMAIN cmds |-> ResponseTerm(op, cmds[i].key, a.items[i])]
<1>1. op # "connect" /\ op # "http"
  BY DEF DocumentOps
<1>2. ReplyTerm(op, cmds, a) = OkTuple(<<List(list)>>)
  BY <1>1 DEF ReplyTerm
<1> HIDE DEF list
<1>3. ReplyTerm(op, cmds, a) = Tuple(<<Atom("ok"), List(list)>>)
  BY <1>2, OkTuples
<1>4. ReplyTerm(op, cmds, a).tuple = <<Atom("ok"), List(list)>>
  BY <1>3, Kinds
<1> QED BY <1>4, Kinds, OkIsNoError DEF list

LEMMA ResponseForm ==
  ASSUME NEW op, NEW key, NEW code
  PROVE  /\ ResponseTerm(op, key, code).tuple[1] = Bin(key)
         /\ ResponseTerm(op, key, code).tuple[2] =
              IF code = "LCB_SUCCESS" THEN OkTerm[op] ELSE ErrorTuple(ErrorMessage(code))
<1>1. PICK t : t = IF code = "LCB_SUCCESS" THEN OkTerm[op] ELSE ErrorTuple(ErrorMessage(code))
  OBVIOUS
<1>2. ResponseTerm(op, key, code) = Tuple(<<Bin(key), t>>)
  BY <1>1 DEF ResponseTerm
<1>3. ResponseTerm(op, key, code).tuple = <<Bin(key), t>>
  BY <1>2, Kinds
<1> QED BY <1>1, <1>3

(* What an API function on documents makes of the response.                 *)
LEMMA DocumentsAreTold ==
  ASSUME IInv, Done, ask.op \in DocumentOps, answer.err = "LCB_SUCCESS"
  PROVE  IF ask.bulk
           THEN \A i \in DOMAIN ask.items :
                  /\ result.tuple[2].list[i].tuple[1] = ask.items[i].key
                  /\ Told(ask.op, answer.items[i], result.tuple[2].list[i].tuple[2])
           ELSE Told(ask.op, answer.items[1], result)
<1> DEFINE list == reply.tuple[2].list
           item(i) == ItemResult(ask.op, list[i].tuple[2])
<1>1. /\ ask \in Workload /\ request \in Converted(ask) /\ commands = CommandsOf(ask.op, request)
      /\ reply = ReplyTerm(ask.op, commands, answer) /\ result = Result(ask, reply)
  BY DEF IInv
<1>2. ask.op \notin {"connect", "http"}
  BY DEF DocumentOps
<1>3. DOMAIN commands = DOMAIN ask.items /\ \A i \in DOMAIN ask.items : SameCommand(ask, i)
  BY <1>1, <1>2, SameCommands
<1>4. /\ reply.tuple[1] # Atom("error")
      /\ list = [i \in DOMAIN commands |->
                   ResponseTerm(ask.op, commands[i].key, answer.items[i])]
  BY <1>1, DocumentReply
<1>5. /\ DOMAIN list = DOMAIN ask.items
      /\ \A i \in DOMAIN ask.items :
           list[i] = ResponseTerm(ask.op, commands[i].key, answer.items[i])
  BY <1>3, <1>4
<1> HIDE DEF list
<1>6. ASSUME NEW i \in DOMAIN ask.items
      PROVE  list[i].tuple[1] = ask.items[i].key /\ Told(ask.op, answer.items[i], item(i))
  <2>1. list[i].tuple[1] = Bin(commands[i].key)
    BY <1>5, ResponseForm
  <2>2. list[i].tuple[2] = IF answer.items[i] = "LCB_SUCCESS" THEN OkTerm[ask.op]
                           ELSE ErrorTuple(ErrorMessage(answer.items[i]))
    BY <1>5, ResponseForm
  <2>3. Told(ask.op, answer.items[i], item(i))
    BY <2>2, AnswersAreTold
  <2>4. Bin(commands[i].key) = ask.items[i].key
    BY <1>1, <1>3, KeyIsKept
  <2> QED BY <2>1, <2>3, <2>4
<1>7. CASE ask.bulk
  <2> DEFINE told == [i \in DOMAIN list |-> Tuple(<<list[i].tuple[1], item(i)>>)]
  <2>1. result = OkTuple(<<List(told)>>)
    BY <1>1, <1>2, <1>4, <1>7 DEF Result, list
  <2>2. \A i \in DOMAIN ask.items : told[i] = Tuple(<<list[i].tuple[1], item(i)>>)
    BY <1>5
  <2> HIDE DEF told, item
  <2>3. result = Tuple(<<Atom("ok"), List(told)>>)
    BY <2>1, OkTuples
  <2>4. result.tuple = <<Atom("ok"), List(told)>>
    BY <2>3, Kinds
  <2>5. result.tuple[2].list = told
    BY <2>4, Kinds
  <2>6. ASSUME NEW i \in DOMAIN ask.items
        PROVE  /\ result.tuple[2].list[i].tuple[1] = ask.items[i].key
               /\ Told(ask.op, answer.items[i], result.tuple[2].list[i].tuple[2])
    <3>1. result.tuple[2].list[i].tuple = <<list[i].tuple[1], item(i)>>
      BY <2>2, <2>5, Kinds
    <3> QED BY <1>6, <3>1
  <2> QED BY <1>7, <2>6
<1>8. CASE ~ask.bulk
  <2>1. Len(ask.items) = 1 /\ DOMAIN ask.items = 1..Len(ask.items)
    BY <1>1, <1>8, RequestForm
  <2>2. DOMAIN list = 1..1 /\ 1 \in DOMAIN ask.items
    BY <1>5, <2>1
  <2>3. Len(list) = 1
    BY <1>4, <2>2
  <2>4. list[1].tuple[1] = ask.items[1].key /\ Told(ask.op, answer.items[1], item(1))
    BY <1>6, <2>2
  <2>5. result = item(1)
    BY <1>1, <1>2, <1>4, <1>8, <2>3, <2>4 DEF Result, list
  <2> QED BY <1>8, <2>4, <2>5
<1>9. ask.bulk \in BOOLEAN
  BY <1>1, RequestForm
<1> QED BY <1>7, <1>8, <1>9

(* The caller learns what libcouchbase answered, for the document he asked  *)
(* for: no success for an error, no error for a success or for another      *)
(* error, and no timeout.                                                   *)
THEOREM ResultsAreTold == Spec => []ResultIsTold
<1>1. IInv => ResultIsTold
  <2> SUFFICES ASSUME IInv, Done PROVE ResultIsTold
    BY DEF ResultIsTold, Done
  <2>1. /\ ask \in Workload /\ commands = CommandsOf(ask.op, request)
        /\ IsAnswer(ask.op, commands, answer)
        /\ reply = ReplyTerm(ask.op, commands, answer) /\ result = Result(ask, reply)
    BY DEF IInv
  <2>2. CASE answer.err # "LCB_SUCCESS"
    <3>1. reply = ErrorTuple(ErrorMessage(answer.err))
      BY <2>1, <2>2 DEF ReplyTerm
    <3>2. result = reply
      BY <2>1, <3>1, ErrorTuples DEF Result
    <3>3. Told(ask.op, answer.err, result)
      BY <2>2, <3>1, <3>2, ErrorsAreTold
    <3> QED BY <2>2, <3>3 DEF ResultIsTold
  <2>3. CASE answer.err = "LCB_SUCCESS" /\ ask.op = "http"
    <3>1. reply = IF answer.items[1] = "LCB_SUCCESS" THEN HttpOk
                  ELSE ErrorTuple(ErrorMessage(answer.items[1]))
      BY <2>1, <2>3 DEF ReplyTerm
    <3>2. result = reply
      BY <2>1, <2>3 DEF Result
    <3>3. Told(ask.op, answer.items[1], result)
      BY <2>3, <3>1, <3>2, ErrorsAreTold DEF Told, HttpOk
    <3>4. ~ask.bulk
      BY <2>1, <2>3, RequestForm
    <3> QED BY <2>3, <3>3, <3>4 DEF ResultIsTold
  <2>4. CASE answer.err = "LCB_SUCCESS" /\ ask.op = "connect"
    <3>1. reply = ConnectOk
      BY <2>1, <2>4 DEF ReplyTerm
    <3>2. result = reply
      BY <2>1, <2>4 DEF Result
    <3>3. answer.items[1] = "LCB_SUCCESS"
      BY <2>1, <2>4 DEF CommandsOf, IsAnswer
    <3>4. Told(ask.op, answer.items[1], result)
      BY <2>4, <3>1, <3>2, <3>3 DEF Told, ConnectOk
    <3> QED BY <2>4, <3>4 DEF ResultIsTold
  <2>5. CASE answer.err = "LCB_SUCCESS" /\ ask.op \notin {"http", "connect"}
    <3>1. ask.op \in DocumentOps
      BY <2>1, <2>5, RequestForm DEF DocumentOps, Operations
    <3> QED BY <2>5, <3>1, DocumentsAreTold DEF ResultIsTold
  <2> QED BY <2>2, <2>3, <2>4, <2>5
<1> QED BY <1>1, Invariant, PTL
=============================================================================
