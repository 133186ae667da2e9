------------------------------ MODULE JsonUtils ------------------------------
(***************************************************************************)
(* The JSON helpers, which search the text of a document with regular      *)
(* expressions and never parse it.  A text is a sequence of atoms: quotes, *)
(* braces, commas, colons, and the words between them; white space, which  *)
(* the expressions skip, is left out.                                      *)
(***************************************************************************)
EXTENDS Integers, Sequences, FiniteSetsExt

CONSTANTS
  Documents,  \* records with their "text" and what else the reference needs
  Calls,      \* [helper |-> "value", "number" or "boolean", path |-> keys]
  Digits      \* the words that are numbers

VARIABLES
  doc,        \* the document
  call,       \* the helper and the path it is called with
  text,       \* the part of the document that is still searched
  path,       \* the keys that are still to be found
  result,     \* the atoms of the value; <<>> is the empty string
  pc          \* "search", "convert", "done"

vars == <<doc, call, text, path, result, pc>>

Quote == "quote"

-----------------------------------------------------------------------------
\* The expression of a member, "key":, and of one that is an object.
Member(key) == <<Quote, key, Quote, ":">>

MatchesAt(s, k, atoms) ==
  k + Len(atoms) <= Len(s) + 1 /\ SubSeq(s, k, k + Len(atoms) - 1) = atoms
Found(s, atoms) == {k \in DOMAIN s : MatchesAt(s, k, atoms)}

\* Where a run of other atoms that begins at k ends: before one of "stop".
RunEnd(s, k, stop) == Min({e \in k..(Len(s) + 1) : e > Len(s) \/ s[e] \in stop})

\* "key":"([^"]+)"
Quoted(s, key) ==
  {k \in Found(s, Member(key) \o <<Quote>>) :
     LET e == RunEnd(s, k + 5, {Quote}) IN k + 5 < e /\ e <= Len(s)}

\* "key":([^,}]+)
Unquoted(s, key) ==
  {k \in Found(s, Member(key)) : k + 4 < RunEnd(s, k + 4, {",", "}"})}

\* mutant: the expression without quotes is tried first
ExtractJsonValueBareFirst(s, key) ==
  IF Unquoted(s, key) # {}
  THEN LET k == Min(Unquoted(s, key)) IN SubSeq(s, k + 4, RunEnd(s, k + 4, {",", "}"}) - 1)
  ELSE <<>>

\* The first quoted value anywhere, or else the first other one.
ExtractJsonValue(s, key) ==
  IF Quoted(s, key) # {}
  THEN LET k == Min(Quoted(s, key)) IN SubSeq(s, k + 5, RunEnd(s, k + 5, {Quote}) - 1)
  ELSE IF Unquoted(s, key) # {}
  THEN LET k == Min(Unquoted(s, key)) IN SubSeq(s, k + 4, RunEnd(s, k + 4, {",", "}"}) - 1)
  ELSE <<>>

\* How deep the braces are after e, when k is an opening one; those in strings
\* count too.
Depth(s, k, e) ==
  Cardinality({j \in k..e : s[j] = "{"}) - Cardinality({j \in k..e : s[j] = "}"})

\* mutant: the object goes to the last brace
ClosingLast(s, k) == {e \in k..Len(s) : s[e] = "}" /\ \A f \in (e + 1)..Len(s) : s[f] # "}"}

\* The brace that closes the one at k, if there is one.
Closing(s, k) ==
  {e \in k..Len(s) : Depth(s, k, e) = 0 /\ \A f \in k..(e - 1) : Depth(s, k, f) > 0}

\* The first object with the key, if there is one and its braces match.
ObjectUnder(s, key) ==
  LET first == {k \in Found(s, Member(key) \o <<"{">>) :
                  \A l \in Found(s, Member(key) \o <<"{">>) : k <= l}
  IN  UNION {{SubSeq(s, k + 4, e) : e \in Closing(s, k + 4)} : k \in first}

-----------------------------------------------------------------------------
Init ==
  /\ doc \in Documents
  /\ call \in Calls
  /\ text = doc.text
  /\ path = call.path
  /\ result = <<>>
  /\ pc = "search"

\* extractJsonNestedValue(): on with the object of the first key.
Descend ==
  /\ pc = "search" /\ Len(path) > 1
  /\ text' \in ObjectUnder(text, path[1])
  /\ path' = Tail(path)
  /\ UNCHANGED <<doc, call, result, pc>>

NoObject ==
  /\ pc = "search" /\ Len(path) > 1
  /\ ObjectUnder(text, path[1]) = {}
  /\ pc' = "convert"
  /\ UNCHANGED <<doc, call, text, path, result>>

Leaf ==
  /\ pc = "search" /\ Len(path) = 1
  /\ result' = ExtractJsonValue(text, path[1])
  /\ pc' = "convert"
  /\ UNCHANGED <<doc, call, text, path>>

\* extractJsonNumber(): when nothing was found, the last key is looked for
\* everywhere; what is no number is 0.
AsNumber(value) ==
  LET leaf  == call.path[Len(call.path)]
      other == {k \in Found(doc.text, Member(leaf)) :
                  k + 4 <= Len(doc.text) /\ doc.text[k + 4] \in Digits}
      read  == IF value = <<>> /\ other # {} THEN <<doc.text[Min(other) + 4]>> ELSE value
  IN  IF read # <<>> /\ read[1] \in Digits THEN <<read[1]>> ELSE <<"0">>

\* extractJsonBoolean(); its second search finds nothing that the first did not.
AsBoolean(value) == IF value \in {<<"true">>, <<"1">>} THEN <<"true">> ELSE <<"false">>

Convert ==
  /\ pc = "convert"
  /\ result' = CASE call.helper = "value"   -> result
                 [] call.helper = "number"  -> AsNumber(result)
                 [] call.helper = "boolean" -> AsBoolean(result)
  /\ pc' = "done"
  /\ UNCHANGED <<doc, call, text, path>>

Returned == pc = "done" /\ UNCHANGED vars

Next == Descend \/ NoObject \/ Leaf \/ Convert \/ Returned

Spec == Init /\ [][Next]_vars
=============================================================================
