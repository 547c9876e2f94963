--------------------------- MODULE MCMarshalling ---------------------------
(* Marshalling with requests at the bounds of every type.  With IntBits = 4 *)
(* and LongBits = 5 an int is at most 7, a long 15 and an unsigned long 31. *)
EXTENDS Marshalling

One(op, item) == [op |-> op, from |-> "local", bulk |-> FALSE, items |-> <<item>>,
                  persistTo |-> 0, replicateTo |-> 0]

Two(op, a, b) == [One(op, a) EXCEPT !.items = <<a, b>>, !.bulk = TRUE]

k1 == Bin("k1")
k2 == Bin("k2")

GetItems(k, expiries) == [key : {k}, expiry : expiries, lock : BOOLEAN]

(* A binary, a string, a list that is none, and another term. *)
ValueTerms == {Bin(<<"raw", "v">>), List(<<Num(104), Num(105)>>),
               List(<<Atom("a")>>), Num(1)}

StoreItems ==
  [operation : DOMAIN StoreOperationId, key : {k1}, value : ValueTerms,
   encoder : DOMAIN EncoderId, cas : {0, 31}, expiry : {0, 15}]
    \cup
  [operation : {"set"}, key : {k1}, value : {Bin(<<"raw", "v">>)},
   encoder : {"none"}, cas : {0, 31, 32}, expiry : {0, 15, 16}]

RemoveItems(k) == [key : {k}, cas : {0, 31, 32}]

ArithmeticItems ==
  [key : {k1}, delta : {-17, -16, 0, 15, 16}, expiry : {0, 15, 16},
   default : {Atom("undefined"), Num(0), Num(31), Num(32)}]

HttpItems ==
  [type : DOMAIN HttpTypeId, method : DOMAIN HttpMethodId, path : {Bin("path")},
   contentType : {Bin("type")}, body : {Bin("body")}]

Options == [name : {"view_timeout", "http_timeout", "unknown_option"}, value : {1, 7, 8}]

Durabilities ==
  {[One("durability", [key |-> k1, cas |-> c]) EXCEPT !.persistTo = p, !.replicateTo = r] :
     c \in {0, 31}, p \in {-1, 0, 2, 3, 8}, r \in {-1, 1, 3}}

Singles ==
  {One("get", i) : i \in GetItems(k1, {0, 15, 16})} \cup {One("store", i) : i \in StoreItems}
    \cup {One("remove", i) : i \in RemoveItems(k1)}
    \cup {One("arithmetic", i) : i \in ArithmeticItems}
    \cup {One("http", i) : i \in HttpItems}

Bulks ==
  {Two("get", a, b) : a \in GetItems(k1, {0, 16}), b \in GetItems(k2, {1, 16})}
    \cup {Two("remove", a, b) : a \in RemoveItems(k1), b \in RemoveItems(k2)}
    \cup {Two("connect", a, b) : a \in Options, b \in Options}

Remote == {[One("remove", [key |-> k1, cas |-> 0]) EXCEPT !.from = "remote"]}

(* All errors with a name, and two that have none. *)
AllCodes == DOMAIN ErrorNames \cup {"LCB_DURABILITY_ETOOMANY", "LCB_EBADHANDLE"}

AllRequests == Singles \cup Bulks \cup Durabilities \cup Remote
=============================================================================
