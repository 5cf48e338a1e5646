-------------------------------- MODULE Parse --------------------------------
(***************************************************************************)
(* Parse, the strict reading of a contract body.  A body is its Text, the  *)
(* characters of its string literals; its Tokens, what the JSON decoder's  *)
(* token stream yields; and its Rest, what follows them that is no token:  *)
(* nothing, a closing bracket that nothing opened, or other bytes.  Four   *)
(* hexadecimal digits are one character of a text: "H" a high surrogate,   *)
(* "L" a low one, "B" any other; "n" is a character JSON lets a backslash  *)
(* escape, as is the backslash; "bytes" is bytes that are no UTF-8.        *)
(***************************************************************************)
EXTENDS Integers, FiniteSets, SequencesExt

CONSTANTS
  Schema,        \* the field names of an object at each depth of a contract
  FieldOf(_)     \* the field name that encoding/json matches a key with

Backslash == "\\"
Hex4 == {"H", "L", "B"}

CharAt(text, i) == IF i \in DOMAIN text THEN text[i] ELSE "end"

(* The first position from i on that is no backslash. *)
RunEnd(text, i) ==
  CHOOSE j \in i..(Len(text) + 1) : CharAt(text, j) # Backslash /\ \A k \in i..(j - 1) : text[k] = Backslash

(* Mutant: every backslash introduces an escape, escaped or not. *)
IntroducesAlways(i, j) == j > i

(* A run of backslashes from i up to j introduces an escape if its length is odd. *)
Introduces(i, j) == (j - i) % 2 = 1

(* rejectUnpairedSurrogateEscapes: whether the scan gets from i to the end, if
   Scan says so of the positions after i.                                  *)
LowEscapeAt(text, i) ==
  CharAt(text, i) = Backslash /\ CharAt(text, i + 1) = "u" /\ CharAt(text, i + 2) = "L"

ScanFrom(text, Scan, i) ==
  LET j == RunEnd(text, i)
      unit == CharAt(text, j + 1)
  IN  IF i > Len(text) THEN TRUE
      ELSE IF text[i] # Backslash THEN Scan[i + 1]
      ELSE IF ~Introduces(i, j) \/ CharAt(text, j) # "u" THEN Scan[j]
      ELSE IF unit \notin Hex4 THEN Scan[j + 1]
      ELSE IF unit = "H" /\ LowEscapeAt(text, j + 2) THEN Scan[j + 5]
      ELSE IF unit \in {"H", "L"} THEN FALSE
      ELSE Scan[j + 2]

ScanAccepts(text) ==
  LET Scan[i \in 1..(Len(text) + 1)] == ScanFrom(text, Scan, i)
  IN  Scan[1]

(***************************************************************************)
(* The token walk: one set of keys seen per open object, innermost last.   *)
(***************************************************************************)
Opening == {"{", "["}
Closing == {"}", "]"}

Walking == [Open |-> <<>>, Read |-> FALSE, Error |-> ""]
Leave(walk) == [walk EXCEPT !.Open = Front(@), !.Read = TRUE]

(* Mutant: keys are only compared with those of the whole body's object. *)
OutermostSeen(walk) == walk.Open[1]

InnerSeen(walk) == walk.Open[Len(walk.Open)]

WalkToken(walk, token) ==
  CASE walk.Error # "" -> walk
    [] walk.Error = "" /\ walk.Open = <<>> /\ walk.Read -> [walk EXCEPT !.Error = "INVALID_CONTRACT"]
    [] OTHER ->
         CASE token = "null" -> [walk EXCEPT !.Error = "SEMANTIC_NULL"]
           [] token \in Opening -> [walk EXCEPT !.Open = Append(@, {})]
           [] token \in Closing -> Leave(walk)
           [] token = "value" -> [walk EXCEPT !.Read = TRUE]
           [] OTHER ->
                IF token \in InnerSeen(walk) THEN [walk EXCEPT !.Error = "DUPLICATE"]
                ELSE [walk EXCEPT !.Open[Len(walk.Open)] = @ \cup {token}]

CheckStrictJSON(tokens) ==
  LET Walk[n \in 0..Len(tokens)] ==
        IF n = 0 THEN Walking ELSE WalkToken(Walk[n - 1], tokens[n])
  IN  Walk[Len(tokens)].Error

(***************************************************************************)
(* encoding/json.  A string is decoded into units, its escapes resolved; a *)
(* backslash before any other character is malformed.  A key is matched    *)
(* with a field of its object.                                             *)
(***************************************************************************)
UnitsFrom(text, Unit, i) ==
  IF i > Len(text) THEN <<>>
  ELSE IF text[i] # Backslash THEN <<"char">> \o Unit[i + 1]
  ELSE IF CharAt(text, i + 1) \in {"n", Backslash} THEN <<"char">> \o Unit[i + 2]
  ELSE IF CharAt(text, i + 1) = "u" /\ CharAt(text, i + 2) \in Hex4
    THEN <<text[i + 2]>> \o Unit[i + 3]
  ELSE <<"malformed">>

Units(text) ==
  LET Unit[i \in 1..(Len(text) + 1)] == UnitsFrom(text, Unit, i)
  IN  Unit[1]

WellEscaped(text) == "malformed" \notin ToSet(Units(text))

IsKey(token) == token \notin Opening \cup Closing \cup {"null", "value"}
Depth(tokens, i) ==
  Cardinality({j \in 1..i : tokens[j] \in Opening}) - Cardinality({j \in 1..i : tokens[j] \in Closing})
KeysAt(tokens) == {i \in DOMAIN tokens : IsKey(tokens[i])}
Known(tokens, i) == FieldOf(tokens[i]) \in Schema[Depth(tokens, i)]

(* What the decoder's token stream is of JSON values: what closes was opened
   and closed in the end, and a key is in an object.                       *)
TokenStream(tokens) ==
  /\ tokens # <<>> /\ Depth(tokens, Len(tokens)) = 0
  /\ \A i \in DOMAIN tokens :
       Depth(tokens, i) >= 0 /\ (IsKey(tokens[i]) => Depth(tokens, i) > 0)

(* Decoder.More: it says of a closing bracket that nothing comes before it. *)
More(body) == body.Rest = "other"

DecodeError(body) ==
  IF ~WellEscaped(body.Text) THEN "INVALID_CONTRACT"
  ELSE IF \E i \in KeysAt(body.Tokens) : ~Known(body.Tokens, i) THEN "UNKNOWN_KEY"
  ELSE IF More(body) THEN "INVALID_CONTRACT" ELSE ""

ParseError(body) ==
  IF "bytes" \in ToSet(body.Text) \/ ~ScanAccepts(body.Text) THEN "INVALID_CONTRACT"
  ELSE LET strict == CheckStrictJSON(body.Tokens) IN
       IF strict # "" THEN strict ELSE DecodeError(body)

(***************************************************************************)
(* What an accepted body is, said of the body as a whole.                  *)
(***************************************************************************)
Paired(units) ==
  \A i \in DOMAIN units :
    /\ units[i] = "H" => i < Len(units) /\ units[i + 1] = "L"
    /\ units[i] = "L" => i > 1 /\ units[i - 1] = "H"

(* The object a key belongs to, by the position of its opening. *)
ObjectOf(tokens, i) ==
  CHOOSE j \in 1..i :
    /\ tokens[j] \in Opening /\ Depth(tokens, j) = Depth(tokens, i)
    /\ \A k \in (j + 1)..i : tokens[k] \in Opening => Depth(tokens, k) # Depth(tokens, i)

OneValue(tokens) ==
  \A i \in DOMAIN tokens : i < Len(tokens) => Depth(tokens, i) > 0

Strict(tokens) ==
  /\ "null" \notin ToSet(tokens) /\ OneValue(tokens)
  /\ \A i, k \in KeysAt(tokens) :
       i < k /\ tokens[i] = tokens[k] => ObjectOf(tokens, i) # ObjectOf(tokens, k)
  /\ \A i \in KeysAt(tokens) : Known(tokens, i)

(* Two keys of one object that the decoder reads into one field, the later
   one over the earlier.                                                   *)
OverwritesField(tokens) ==
  \E i, k \in KeysAt(tokens) :
    i < k /\ FieldOf(tokens[i]) = FieldOf(tokens[k]) /\ ObjectOf(tokens, i) = ObjectOf(tokens, k)
=============================================================================
