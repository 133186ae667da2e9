----------------------------- MODULE MCJsonUtils -----------------------------
(***************************************************************************)
(* JsonUtils for TLC: documents of two levels, which the helpers get as    *)
(* text and the properties as trees.                                       *)
(***************************************************************************)
EXTENDS JsonUtils, SequencesExt

Key == {"a", "b"}

\* A value: a string with the atoms of its text, a bare word, or an object with
\* its members, which are pairs of a key and a value.
String(atoms)   == [kind |-> "string", atoms |-> atoms, members |-> <<>>]
Bare(word)      == [kind |-> "bare", atoms |-> <<word>>, members |-> <<>>]
Object(members) == [kind |-> "object", atoms |-> <<>>, members |-> members]

\* Braces in a string, a quote that is escaped, a comma, and nothing at all.
Scalars ==
  {String(<<"v">>), String(<<"{">>), String(<<",">>), String(<<"\\", Quote, "a">>),
   String(<<>>), Bare("7"), Bare("true")}

Objects(values) ==
  {Object(<<>>)} \cup {Object(<<<<k, v>>>>) : k \in Key, v \in values} \cup
  {Object(<<<<k, v>>, <<l, w>>>>) : k \in Key, v \in values, l \in Key, w \in values}

\* No object has a key twice.
Proper(o) == \A i, j \in DOMAIN o.members : i # j => o.members[i][1] # o.members[j][1]

Inner == {o \in Objects({String(<<"v">>), String(<<"{">>), Bare("7")}) : Proper(o)}

RECURSIVE Printed(_)
Printed(v) ==
  CASE v.kind = "bare"   -> v.atoms
    [] v.kind = "string" -> <<Quote>> \o v.atoms \o <<Quote>>
    [] v.kind = "object" ->
         LET one(m)   == Member(m[1]) \o Printed(m[2])
             later(m) == <<",">> \o one(m)
             ms       == v.members
         IN  <<"{">> \o (IF ms = <<>> THEN <<>>
                         ELSE one(Head(ms)) \o FlattenSeq([i \in 1..(Len(ms) - 1) |-> later(ms[i + 1])]))
             \o <<"}">>

MCDocuments ==
  {[tree |-> t, text |-> Printed(t)] : t \in {o \in Objects(Scalars \cup Inner) : Proper(o)}}

MCCalls ==
  [helper : {"value", "number"}, path : {<<"a">>, <<"b">>, <<"a", "b">>}] \cup
  [helper : {"boolean"}, path : {<<"a">>}]

-----------------------------------------------------------------------------
(* What the helpers are to find. *)

\* The values of the members with a key, at any depth.
RECURSIVE Under(_, _)
Under(v, key) ==
  UNION {(IF v.members[i][1] = key THEN {v.members[i][2]} ELSE {})
           \cup Under(v.members[i][2], key) : i \in DOMAIN v.members}

\* How often a key occurs.
Occurrences(s, key) == Cardinality(Found(s, Member(key)))

\* The value at a path from the top, if there is one.
RECURSIVE Lookup(_, _)
Lookup(v, keys) ==
  IF keys = <<>> THEN {v}
  ELSE UNION {Lookup(v.members[i][2], Tail(keys)) :
                i \in {j \in DOMAIN v.members : v.members[j][1] = Head(keys)}}

\* The helpers that count braces take those of the strings with them.
BracesInStrings == Depth(doc.text, 1, Len(doc.text)) # 0
Reliable == Len(call.path) = 1 \/ ~BracesInStrings

Escaped(v) == \E i \in DOMAIN v.atoms : v.atoms[i] = Quote

\* What is behind the colon of a member, for a string without its first quote.
Behind(v) == {Printed(v)} \cup (IF v.kind = "string" THEN {Tail(Printed(v))} ELSE {})

-----------------------------------------------------------------------------
\* The searches find what a parser would: the value of a path, if it is a
\* number, a word or a string that is not empty and without escapes, and the
\* document has each key of the path once (extractJsonValue(),
\* extractJsonNestedValue(), extractJsonNumber(), extractJsonBoolean()).
UniqueKeyFound ==
  pc = "done" /\ Reliable /\ (\A i \in DOMAIN call.path : Occurrences(doc.text, call.path[i]) = 1)
    => \A v \in Lookup(doc.tree, call.path) :
         v.atoms # <<>> /\ ~Escaped(v) =>
           result = CASE call.helper = "value"   -> v.atoms
                      [] call.helper = "number"  -> IF v.atoms[1] \in Digits THEN v.atoms ELSE <<"0">>
                      [] call.helper = "boolean" -> IF v.atoms = <<"true">> THEN v.atoms ELSE <<"false">>

\* Nothing is made up: what a search returns is the beginning of a value that
\* has the last key of the path, in an object that has the one before.
FoundIsThere ==
  pc = "done" /\ Reliable /\ call.helper = "value" /\ result # <<>> =>
    LET n == Len(call.path)
        around == IF n = 1 THEN {doc.tree} ELSE Under(doc.tree, call.path[n - 1])
    IN  \E o \in around : \E v \in Under(o, call.path[n]) : \E s \in Behind(v) : IsPrefix(result, s)
=============================================================================
