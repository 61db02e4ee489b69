----------------------------- MODULE AnyValues -----------------------------
(***************************************************************************)
(* Values in protobuf Any (sdk/src/protobuf-any.ts), used the way the      *)
(* replicated data use them (replicated-data/counter-map.ts): a replica    *)
(* finds its keys by a comparable of theirs, sends them serialized, and    *)
(* another replica deserializes them and finds them by comparables of its  *)
(* own.  The entities and the actions serialize with other options, some   *)
(* of them without primitives.                                             *)
(*                                                                         *)
(* Abstraction.  A value is [is, type, content]: a primitive, a protobuf   *)
(* message with its type's name, or another object with its type property  *)
(* ("none" without one); the content "zero" is the default of a primitive  *)
(* and a message whose fields all are.  An Any is [host, type, fields],    *)
(* fields being what is encoded in its bytes.  A buffer or a long that is  *)
(* written as JSON comes back as another object, of the type "buffer" or   *)
(* "long" here.                                                            *)
(***************************************************************************)
EXTENDS Naturals, Sequences, FiniteSets

CONSTANTS
    Contents,       \* contents of values, "zero" among them
    MessageTypes,   \* names of protobuf types
    ObjectTypes,    \* type properties of objects, and "none"
    MaxKeys         \* bound: keys of a replica

ASSUME AnyValuesAssumption ==
    /\ MaxKeys \in Nat /\ "zero" \in Contents
    /\ ObjectTypes \cap {"buffer", "long"} = {}

VARIABLES
    options,    \* what serialize is called with
    index,      \* comparable -> the key it stands for
    keys,       \* ghost: the keys that were put
    wire,       \* {} or the keys on their way: those that can be serialized
    peer        \* {} or the index the other replica makes of them

valuesVars == <<options, index, keys, wire, peer>>

TypeName == [string |-> "string", number |-> "double", buffer |-> "bytes", boolean |-> "bool", long |-> "int64"]
Primitives == DOMAIN TypeName

Value(is, type, content) == [is |-> is, type |-> type, content |-> content]
AnyValuesSet ==
    {Value(p, "none", c) : p \in Primitives, c \in Contents}
        \cup {Value("message", t, c) : t \in MessageTypes, c \in Contents}
        \cup {Value("object", t, c) : t \in ObjectTypes, c \in Contents}

(***************************************************************************)
(* Serializing.                                                            *)
(***************************************************************************)

\* A default value is left out, as in protobuf.
SerializePrimitiveValue(content) ==
    IF content = "zero" THEN <<>> ELSE <<[number |-> 1, content |-> content]>>

\* typeof
IsObject(value) == value.is \in {"object", "buffer", "long"}

\* The text of an object is never the default of a string.
JsonText(value) == <<IF value.is = "object" THEN value.type ELSE value.is, value.content>>

SerializePrimitive(value) ==
    [host |-> "type.kalix.io", type |-> TypeName[value.is],
     fields |-> SerializePrimitiveValue(value.content)]

\* Only the encoded fields say what is in a message.
Encode(value) == IF value.content = "zero" THEN <<>> ELSE <<[number |-> 1, content |-> value.content]>>

SerializeMessage(value) == [host |-> "type.googleapis.com", type |-> value.type, fields |-> Encode(value)]

SerializeJson(value) ==
    [host |-> "json.kalix.io", type |-> IF value.type = "none" THEN "object" ELSE value.type,
     fields |-> <<[number |-> 1, content |-> JsonText(value)]>>]

\* {} when it throws.
Serialize(value, opts) ==
    CASE value.is \in Primitives /\ opts.allowPrimitives -> {SerializePrimitive(value)}
      [] value.is = "message" -> {SerializeMessage(value)}
      [] /\ IsObject(value) /\ (value.is # "object" => ~opts.allowPrimitives) /\ opts.fallbackToJson
         /\ value.type = "none" => ~opts.requireJsonType -> {SerializeJson(value)}
      [] OTHER -> {}

(***************************************************************************)
(* Deserializing.                                                          *)
(***************************************************************************)
PrimitiveOf(type) == CHOOSE p \in Primitives : TypeName[p] = type

DeserializeFirst(fields) == IF fields = <<>> THEN "zero" ELSE Head(fields).content

\* Other fields are skipped, and without its own there is the default.
DeserializePrimitive(fields) ==
    LET own == {i \in DOMAIN fields : fields[i].number = 1}
    IN  IF own = {} THEN "zero" ELSE fields[CHOOSE i \in own : \A j \in own : i <= j].content

Deserialize(any) ==
    CASE any.host = "type.kalix.io" ->
             Value(PrimitiveOf(any.type), "none", DeserializePrimitive(any.fields))
      [] any.host = "json.kalix.io" ->
             LET text == DeserializePrimitive(any.fields) IN Value("object", text[1], text[2])
      [] any.host = "type.googleapis.com" ->
             Value("message", any.type, DeserializePrimitive(any.fields))

(***************************************************************************)
(* Comparing.  A number and a boolean are their own comparables.           *)
(***************************************************************************)
ComparableByText(value) == [prefix |-> "", of |-> <<value.content>>]
ToComparable(value) ==
    CASE value.is = "message" -> [prefix |-> "p", of |-> [i \in DOMAIN Encode(value) |-> Encode(value)[i].content]]
      [] value.is = "object" -> [prefix |-> "j", of |-> JsonText(value)]
      [] OTHER -> [prefix |-> value.is, of |-> <<value.content>>]

Indexed(values) ==
    [c \in {ToComparable(v) : v \in values} |-> CHOOSE v \in values : ToComparable(v) = c]

(***************************************************************************)
(* Replicas.                                                               *)
(***************************************************************************)
ValuesInit ==
    /\ options \in [allowPrimitives : BOOLEAN, fallbackToJson : BOOLEAN, requireJsonType : BOOLEAN]
    /\ index = Indexed({}) /\ keys = {} /\ wire = {} /\ peer = {}

\* A key whose comparable is there already stays the first one.
PutKey(value) ==
    /\ wire = {} /\ Cardinality(keys) < MaxKeys
    /\ LET c == ToComparable(value)
       IN  index' = IF c \in DOMAIN index THEN index ELSE [d \in DOMAIN index \cup {c} |-> IF d = c THEN value ELSE index[d]]
    /\ keys' = keys \cup {value}
    /\ UNCHANGED <<options, wire, peer>>

\* Another version of the SDK, or another SDK, may write fields of its own.
WithFields(any, extra) == [host |-> any.host, type |-> any.type, fields |-> extra \o any.fields]

SendKeys(extra) ==
    /\ keys # {} /\ wire = {}
    /\ wire' = {{WithFields(any, extra) : any \in UNION {Serialize(index[c], options) : c \in DOMAIN index}}}
    /\ UNCHANGED <<options, index, keys, peer>>

Arrived == {Deserialize(any) : any \in UNION wire}

ReceiveKeys ==
    /\ wire # {} /\ peer = {}
    /\ peer' = {Indexed(Arrived)}
    /\ UNCHANGED <<options, index, keys, wire>>

OtherField == [number |-> 2, content |-> "other"]

ValuesNext ==
    \/ \E value \in AnyValuesSet : PutKey(value)
    \/ \E extra \in {<<>>, <<OtherField>>} : SendKeys(extra)
    \/ ReceiveKeys

(***************************************************************************)
(* Properties.                                                             *)
(***************************************************************************)
ValuesTypeOK ==
    /\ options \in [allowPrimitives : BOOLEAN, fallbackToJson : BOOLEAN, requireJsonType : BOOLEAN]
    /\ keys \subseteq AnyValuesSet /\ \A c \in DOMAIN index : index[c] \in keys
    /\ \A p \in peer : \A c \in DOMAIN p : p[c].content \in Contents

\* toComparable "guarantees === equality (both positive and negative)" for
\* strings, numbers, booleans, Buffers, Longs, any protobufjs types and
\* objects (protobuf-any.ts:132-142): no key that was put is taken for another.
KeysAreApart == {index[c] : c \in DOMAIN index} = keys

\* No key but a message is taken for another, and a message only for one of
\* another type (see KeysAreApart).  The replica that gets the keys finds each
\* that can be serialized by the comparable it has here, whatever types are
\* mixed, defaults and fields of other writers included.  Without primitives
\* a buffer or a long comes back as an object.
Comes(value) == Serialize(value, options) # {} /\ (value.is \in {"buffer", "long"} => options.allowPrimitives)
TakenFor(key, other) == key.is = "message" /\ other.is = "message" /\ key.type # other.type
RoundTrip ==
    /\ \A key \in keys : \E c \in DOMAIN index : index[c] = key \/ TakenFor(key, index[c])
    /\ \A p \in peer : \A c \in DOMAIN index :
           Comes(index[c]) => c \in DOMAIN p /\ p[c] = index[c]
=============================================================================
