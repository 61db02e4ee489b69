--------------------------- MODULE MessageMetadata ---------------------------
(***************************************************************************)
(* The metadata of a message (sdk/src/metadata.ts) and the views on it:    *)
(* the map (MetadataMapProxyHandler), the cloud event (cloudevent.ts), the *)
(* principals and the JWT claims (jwt-claims.ts).  One list of entries     *)
(* backs them all, and all but the last two change it.                     *)
(*                                                                         *)
(* Abstraction.  A key is [name, spelling]: keys of one name differ in     *)
(* case only.  A value is a text or a buffer, of which an empty one says   *)
(* Nothing; what set is given that is neither is a text by its toString.   *)
(* An entry that came from elsewhere may have none.                        *)
(***************************************************************************)
EXTENDS Naturals, Sequences, SequencesExt

CONSTANTS
    KeyNames,           \* the names of keys, in lower case
    Spellings,          \* how a key may be written
    TextValues,         \* what a text says; Nothing is none of them
    BufferValues,       \* what a buffer holds; Nothing is none of them
    Attributes,         \* cloud event attribute -> its key
    SourceKey,          \* the key of the principals' source, and
    ServiceKey,         \* of their service
    HttpKey,            \* the key of the HTTP status code
    HttpCodes,          \* what setHttpStatusCode is called with
    ClaimTexts,         \* texts of claims, see below
    MaxEntries,         \* bound: entries
    SetsDataschema,     \* is the cloud event's dataschema set?
    HasEmptyEntries     \* may an entry be an empty text, or have no value?

MetadataKeys == [name : KeyNames, spelling : Spellings]
Nothing == "empty"

ASSUME MessageMetadataAssumption ==
    /\ MaxEntries \in Nat /\ HttpCodes \subseteq Nat /\ Nothing \notin TextValues
    /\ {SetsDataschema, HasEmptyEntries} \subseteq BOOLEAN
    /\ {Attributes[a] : a \in DOMAIN Attributes} \cup {SourceKey, ServiceKey, HttpKey} \subseteq MetadataKeys
    /\ "subject" \in DOMAIN Attributes

VARIABLES
    entries,    \* the list
    written     \* ghost: name -> the values given to it and not taken from it since, in order

metadataVars == <<entries, written>>

Text(t) == [form |-> "text", is |-> t]
Buffer(b) == [form |-> "buffer", is |-> b]
Unset == [form |-> "unset", is |-> Nothing]
Empties == IF HasEmptyEntries THEN {Text(Nothing)} ELSE {}
MetadataValues == {Text(t) : t \in TextValues} \cup {Buffer(b) : b \in BufferValues \cup {Nothing}} \cup Empties

\* A text of no characters is falsy, a buffer of no bytes is not.
Truthy(value) == value \notin {Text(Nothing), Unset}

(***************************************************************************)
(* Reading.  {} is undefined.                                              *)
(***************************************************************************)
Matches(key, entry) == key.name = entry.key.name

\* The entries of a list whose keys have one of the names, in order.
Selected(list, names) ==
    LET selected[n \in 0 .. Len(list)] ==
            IF n = 0 THEN <<>>
            ELSE IF list[n].key.name \in names THEN Append(selected[n - 1], list[n])
            ELSE selected[n - 1]
    IN  selected[Len(list)]

ValuesIn(list, key) ==
    LET found == Selected(list, {key.name}) IN [i \in DOMAIN found |-> found[i].value]
ValuesAt(key) == ValuesIn(entries, key)

\* The handler of get pushes what is not falsy.
Pushed(value) == IF Truthy(value) THEN <<value>> ELSE <<>>
Get(key) == LET values == ValuesAt(key) IN FlattenSeq([i \in DOMAIN values |-> Pushed(values[i])])
HasKey(key) == \E i \in DOMAIN entries : Matches(key, entries[i])

First(values) == IF values = <<>> THEN {} ELSE {Head(values)}

\* The map goes through the entries itself: the first that has a text that is
\* not falsy, or a buffer.
MapGet(key) ==
    LET found == {i \in DOMAIN entries : Matches(key, entries[i]) /\ Truthy(entries[i].value)}
    IN  {entries[i].value : i \in {j \in found : \A other \in found : j <= other}}
\* A cloud event's attribute and a claim have to be a text.
GetString(key) == {value \in MapGet(key) : value.form = "text"}

\* Only the texts of three sources are principals.
Principals ==
    {[is |-> v.is, service |-> {}] :
         v \in First(Get(SourceKey)) \cap {Text("internet"), Text("self"), Text("backoffice")}}
    \cup {[is |-> "service", service |-> {v}] : v \in First(Get(ServiceKey))}

(***************************************************************************)
(* Writing.                                                                *)
(***************************************************************************)
With(list, key, value) == Append(list, [key |-> key, value |-> value])
Without(list, key) == Selected(list, KeyNames \ {key.name})

FromProtocol(received) == received

MetadataInit ==
    \E received \in {<<>>} \cup {With(<<>>, key, v) :
                       key \in MetadataKeys, v \in MetadataValues \cup (IF HasEmptyEntries THEN {Unset} ELSE {})} :
        /\ entries = FromProtocol(received)
        /\ written = [n \in KeyNames |->
                          IF received # <<>> /\ received[1].key.name = n /\ received[1].value # Unset
                          THEN <<received[1].value>> ELSE <<>>]

Adds(key, value) == written' = [written EXCEPT ![key.name] = Append(@, value)]
Replaces(key, values) == written' = [written EXCEPT ![key.name] = values]

\* set appends, whatever there is.
SetEntry(key, value) ==
    /\ Len(entries) < MaxEntries
    /\ entries' = With(entries, key, value)
    /\ Adds(key, value)

SetHttpStatusCode(code) == 100 <= code /\ code < 600 /\ SetEntry(HttpKey, Text("code"))

DeleteEntries(key) ==
    /\ entries' = Without(entries, key)
    /\ Replaces(key, <<>>)

ClearEntries ==
    /\ entries' = <<>>
    /\ written' = [n \in KeyNames |-> <<>>]

MapSetAppends(list, key, value) == With(list, key, value)
\* The map replaces all values of the key, however it was spelled.
MapSet(list, key, value) == With(Without(list, key), key, value)

MapAssign(key, value) ==
    /\ Len(Without(entries, key)) < MaxEntries
    /\ entries' = MapSet(entries, key, value)
    /\ Replaces(key, <<value>>)

\* undefined and null have no toString: the assignment throws when the old
\* values are gone.
MapAssignThrows(key) == DeleteEntries(key)

MapDelete(key) == HasKey(key) /\ DeleteEntries(key)

\* The key an attribute's setter assigns to.
SetterKey(a) == IF a = "dataschema" THEN Attributes["subject"] ELSE Attributes[a]

SetAttribute(a, t) ==
    /\ a \in DOMAIN Attributes \ {"specversion"} /\ (a = "dataschema" => SetsDataschema)
    /\ Len(Without(entries, SetterKey(a))) < MaxEntries
    /\ entries' = MapSet(entries, SetterKey(a), Text(t))
    /\ Replaces(Attributes[a], <<Text(t)>>)

UnsetAttribute(a) == a \in DOMAIN Attributes \ {"specversion"} /\ DeleteEntries(Attributes[a])

MetadataNext ==
    \/ \E key \in MetadataKeys :
           \/ \E value \in MetadataValues : SetEntry(key, value) \/ MapAssign(key, value)
           \/ DeleteEntries(key) \/ MapDelete(key) \/ MapAssignThrows(key)
    \/ \E code \in HttpCodes : SetHttpStatusCode(code)
    \/ \E a \in DOMAIN Attributes : UnsetAttribute(a) \/ \E t \in TextValues : SetAttribute(a, t)
    \/ ClearEntries

(***************************************************************************)
(* Claims.  A text of a claim is [says, number, json, claims]: what        *)
(* parseFloat makes of it, {} being NaN; what JSON.parse makes of it, {}   *)
(* being an error, as [type, items] with the types of an array's items;    *)
(* and the types of the claims it is the text of.                          *)
(***************************************************************************)
\* typeof
TypeOf(type) == IF type \in {"array", "null"} THEN "object" ELSE type

GetNumber(text) == text.number
GetBoolean(text) == {b \in BOOLEAN : text.says = (IF b THEN "true" ELSE "false")}
GetObject(text) == {json \in text.json : TypeOf(json.type) = "object"}
GetArray(text, type) ==
    {json \in text.json : json.type = "array" /\ \A item \in json.items : TypeOf(item) = type}

\* A claim is read by the getter of its type, and an array only by that of
\* the one type of its items.
ClaimsFit ==
    \A text \in ClaimTexts :
        /\ "number" \in text.claims => GetNumber(text) # {}
        /\ "boolean" \in text.claims => GetBoolean(text) # {}
        /\ "object" \in text.claims => GetObject(text) # {}
        /\ \A type \in {"string", "number", "boolean", "object"} : \A json \in GetArray(text, type) :
               "array" \in text.claims /\ \A item \in json.items : TypeOf(item) = type

(***************************************************************************)
(* Properties.                                                             *)
(***************************************************************************)
MetadataTypeOK ==
    /\ Len(entries) <= MaxEntries + 1
    /\ \A i \in DOMAIN entries :
           entries[i].key \in MetadataKeys /\ entries[i].value.form \in {"text", "buffer", "unset"}

\* get returns "all the values" of a key, has says whether there are any
\* (metadata.ts:357, 416), the map returns the first (line 238), and a change
\* by the map or the cloud event is a change of the metadata and the other way
\* round: whatever was done through whichever view and spelling, each of them
\* reads what all of them wrote; the cloud event and the claims if it is a
\* text, the principals if it is one they know.
WrittenIsRead ==
    /\ \A key \in MetadataKeys :
           LET values == written[key.name]
           IN  /\ Get(key) = values
               /\ HasKey(key) = (values # <<>>)
               /\ MapGet(key) = First(values)
    /\ \A a \in DOMAIN Attributes :
           GetString(Attributes[a]) = {v \in First(written[Attributes[a].name]) : v.form = "text"}
    /\ (Text("self") \in First(written[SourceKey.name]))
           = ([is |-> "self", service |-> {}] \in Principals)
=============================================================================
