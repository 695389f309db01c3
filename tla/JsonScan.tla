------------------------------- MODULE JsonScan -------------------------------
(***************************************************************************)
(* The JSON reader of util/json.c and util/json_scan.c: no parser, but     *)
(* searches for a quoted word, a colon and a value from a place in the     *)
(* text to its end.                                                        *)
(*                                                                         *)
(* A text is a sequence of tokens <<kind, value>>: "s" a quoted string,    *)
(* "n" a number, "b" true or false, "p" a punctuation mark and "x" any     *)
(* other word.  A place in a text is the text from there on.  What a       *)
(* reader returns is {} when the code returns false, else {the value}.     *)
(***************************************************************************)
EXTENDS Integers, Sequences, SequencesExt, FiniteSetsExt

S(text) == <<"s", text>>
N(value) == <<"n", value>>
B(value) == <<"b", value>>
Mark(text) == <<"p", text>>

Token == ({"s", "p", "x"} \X STRING) \cup ({"n"} \X Int) \cup ({"b"} \X BOOLEAN)

Positions(text, token) == {i \in DOMAIN text : text[i] = token}

\* json_find_key: the first quoted word that reads like the key, be it a key
\* or a value, whatever object it stands in.
Present(text, key) == Positions(text, S(key)) # {}

From(text, key) == SubSeq(text, Min(Positions(text, S(key))), Len(text))

AfterColon(text) ==
    LET colons == Positions(text, Mark(":"))
    IN  IF colons = {} THEN <<>> ELSE SubSeq(text, Min(colons) + 1, Len(text))

\* json_value_ended, behind the first token.
Ended(text) == Len(text) = 1 \/ text[2] \in {Mark(","), Mark("}"), Mark("]")}

ValueOf(text, key) == IF Present(text, key) THEN AfterColon(From(text, key)) ELSE <<>>

KeyOfKind(text, key, kind) ==
    LET rest == ValueOf(text, key)
    IN  IF rest # <<>> /\ rest[1][1] = kind /\ Ended(rest) THEN {rest[1][2]} ELSE {}

\* json_int_key_checked, json_bool_key_checked, json_string_key_checked
IntKey(text, key) == KeyOfKind(text, key, "n")
BoolKey(text, key) == KeyOfKind(text, key, "b")
StringKey(text, key) == KeyOfKind(text, key, "s")

\* How deep the first n tokens lead into brackets.
Depth(text, open, close, n) ==
    Cardinality({i \in 1..n : text[i] = Mark(open)}) -
    Cardinality({i \in 1..n : text[i] = Mark(close)})

\* The tokens up to where the depth returns to zero.
Closed(text, open, close) ==
    {n \in DOMAIN text : text[n] = Mark(close) /\ Depth(text, open, close, n) = 0}

\* json_find_array: what stands between the brackets.
ArrayKey(text, key) ==
    LET rest == ValueOf(text, key)
        ends == Closed(rest, "[", "]")
    IN  IF rest # <<>> /\ rest[1] = Mark("[") /\ ends # {}
        THEN {SubSeq(rest, 2, Min(ends) - 1)} ELSE {}

\* json_next_object and json_copy_slice, over and over: the outermost objects.
Objects(text) ==
    LET ends == Closed(text, "{", "}")
        starts == {i \in DOMAIN text : text[i] = Mark("{") /\ Depth(text, "{", "}", i) = 1}
        whole == {i \in starts : \E n \in ends : n > i}
    IN  [k \in 1..Cardinality(whole) |->
            LET i == CHOOSE i \in whole : Cardinality({j \in whole : j <= i}) = k
            IN  SubSeq(text, i, Min({n \in ends : n > i}))]

-----------------------------------------------------------------------------
\* What JSON means: the value of a key that an object holds itself.

\* The object that is the value of a section's key.
SectionOf(text, section) ==
    LET rest == ValueOf(text, section)
        ends == Closed(rest, "{", "}")
    IN  IF rest # <<>> /\ rest[1] = Mark("{") /\ ends # {} THEN SubSeq(rest, 1, Min(ends)) ELSE <<>>

\* Where an object holds the key itself.
OwnPlaces(object, key) ==
    {j \in DOMAIN object :
        /\ object[j] = S(key) /\ j + 2 \in DOMAIN object /\ object[j + 1] = Mark(":")
        /\ Depth(object, "{", "}", j) = 1 /\ Depth(object, "[", "]", j) = 0}

Own(object, key) == {object[j + 2][2] : j \in OwnPlaces(object, key)}

\* A reader that starts at a section reads on behind its end.
ReadsElsewhere(text, section, key) ==
    /\ Own(SectionOf(text, section), key) = {}
    /\ Present(text, section) /\ Present(From(text, section), key)

\* Behind the section's name its own key is the first word that reads like it.
OwnComesFirst(text, section, key) ==
    LET places == OwnPlaces(SectionOf(text, section), key)
        rest == From(text, section)
    IN  places # {} =>
            Min(Positions(rest, S(key))) - Min(Positions(rest, Mark(":"))) \in places
=============================================================================
