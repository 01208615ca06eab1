-------------------------------- MODULE Readers --------------------------------
(***************************************************************************)
(* All readers: those of ReaderInputs, and with them the parser for the    *)
(* answers of GitHub.                                                      *)
(***************************************************************************)
EXTENDS ReaderInputs, JsonParser

-----------------------------------------------------------------------------
(* JSON, as GitHub may write it: the characters that have an escape of one  *)
(* letter use it, others may be written as \u and their code (esc), and     *)
(* there may be whitespace between any two tokens.  A text has bytes, its   *)
(* strings have characters; the two characters here that are not ASCII      *)
(* stand for those up to U+00FF, which ISO 8859-1 has, and those after it.  *)

EscapeOf == [c \in Range(Escapes) |-> CHOOSE e \in DOMAIN Escapes : Escapes[e] = c]
CodeOf == "u" :> <<"0", "0", "7", "5">> @@ "U+00E9" :> <<"0", "0", "e", "9">>
            @@ "U+0100" :> <<"0", "1", "0", "0">>
Utf8(c) ==
  CASE c = "U+00E9" -> <<ByteOf(195), ByteOf(169)>>
    [] c = "U+0100" -> <<ByteOf(196), ByteOf(128)>>
    [] OTHER -> <<c>>
PrintChar(c, esc) ==
  IF c \in DOMAIN EscapeOf THEN <<Backslash, EscapeOf[c]>>
  ELSE IF esc /\ c \in DOMAIN CodeOf THEN <<Backslash, "u">> \o CodeOf[c] ELSE Utf8(c)

RECURSIVE Decimal(_)
Decimal(n) ==
  IF n < 10 THEN <<Digits[n + 1]>> ELSE Decimal(n \div 10) \o <<Digits[(n % 10) + 1]>>

RECURSIVE PrintValue(_, _, _)
PrintValue(v, ws, esc) ==
  LET string(s) == <<Quote>> \o FlattenSeq([i \in DOMAIN s |-> PrintChar(s[i], esc)]) \o <<Quote>>
      list(parts) == FlattenSeq([i \in DOMAIN parts |->
                       (IF i = 1 THEN <<>> ELSE <<",">> \o ws) \o parts[i] \o ws])
      member(m) == string(m[1]) \o ws \o <<":">> \o ws \o PrintValue(m[2], ws, esc)
      members == SetToSeq(v[2])
  IN CASE v[1] = "true" -> <<"t", "r", "u", "e">>
       [] v[1] = "false" -> <<"f", "a", "l", "s", "e">>
       [] v[1] = "null" -> <<"n", "u", "l", "l">>
       [] v[1] = "number" -> Decimal(v[2])
       [] v[1] = "string" -> string(v[2])
       [] v[1] = "array" ->
            <<"[">> \o ws \o list([i \in DOMAIN v[2] |-> PrintValue(v[2][i], ws, esc)]) \o <<"]">>
       [] v[1] = "object" ->
            <<"{">> \o ws \o list([i \in DOMAIN members |-> member(members[i])]) \o <<"}">>

\* The value with its strings made of bytes: UTF-8, or of an escaped
\* character that has one byte in ISO 8859-1 that byte.
RECURSIVE InBytes(_, _)
InBytes(v, esc) ==
  LET byte(c) == IF esc /\ c = "U+00E9" THEN <<ByteOf(233)>> ELSE Utf8(c)
      string(s) == FlattenSeq([i \in DOMAIN s |-> byte(s[i])])
  IN CASE v[1] = "string" -> <<"string", string(v[2])>>
       [] v[1] = "array" -> <<"array", [i \in DOMAIN v[2] |-> InBytes(v[2][i], esc)]>>
       [] v[1] = "object" -> <<"object", {<<string(m[1]), InBytes(m[2], esc)>> : m \in v[2]}>>
       [] OTHER -> v

\* Is there a character in it that no byte has?
RECURSIVE IsWide(_)
IsWide(v) ==
  CASE v[1] = "string" -> "U+0100" \in Range(v[2])
    [] v[1] = "array" -> \E i \in DOMAIN v[2] : IsWide(v[2][i])
    [] v[1] = "object" -> \E m \in v[2] : IsWide(m[2])
    [] OTHER -> FALSE

Whitespace == {<<>>, <<" ">>, <<"\n", "\t">>}

Leaves ==
  {<<"true">>, <<"false">>, <<"null">>} \cup {<<"number", n>> : n \in {0, 7, 2 ^ FloatBits, 2 ^ FloatBits + 2}}
    \cup {<<"string", s>> : s \in {<<>>, <<"a", Quote>>, <<Backslash, "\n">>,
                                     <<"U+00E9", "u", "/">>, <<"U+0100">>, <<"]", "}", ",">>}}
Lists(vs) == {<<"array", s>> : s \in BoundedSeq(vs, 2)}
Objects(vs) ==
  {<<"object", {}>>} \cup {<<"object", {<< <<"k">>, v>>}>> : v \in vs}
    \cup {<<"object", {<< <<"k">>, v>>, << <<"l", Quote>>, w>>}>> : v \in vs, w \in vs}
Nested == Lists(Leaves) \cup Objects(Leaves)
Values ==
  Leaves \cup Nested \cup {<<"array", <<v, <<"true">>>>>> : v \in Nested}
    \cup {<<"object", {<< <<"k">>, v>>}>> : v \in Nested}

\* An answer for a tree.
Entry(path, mode, type, size) == [path |-> path, mode |-> mode, type |-> type, size |-> size]
Entries ==
  {Entry(<<"a">>, "100644", "blob", n) : n \in {0, 2 ^ FloatBits - 1}}
    \cup {Entry(<<"d", "/", "l">>, "120000", "blob", 7), Entry(<<"d">>, "040000", "tree", 0),
          Entry(<<"m">>, "160000", "commit", 0)}
ObjectOf(f) == <<"object", {<< <<k>>, f[k]>> : k \in DOMAIN f}>>
EntryValue(e) ==
  LET all == "path" :> <<"string", e.path>> @@ "mode" :> Text(e.mode) @@ "type" :> Text(e.type)
               @@ "sha" :> Text("sha") @@ "url" :> Text("url")
  IN ObjectOf(IF e.type = "blob" THEN "size" :> <<"number", e.size>> @@ all ELSE all)
TreeAnswer(entries, truncated) ==
  ObjectOf("tree" :> <<"array", [i \in DOMAIN entries |-> EntryValue(entries[i])]>>
             @@ "truncated" :> <<IF truncated THEN "true" ELSE "false">>)

\* An answer for a blob: base64 with a newline after every width digits.
DigitsOf(bytes) ==
  LET padded == bytes \o <<0, 0>>
      byte(i) == padded[i + 1]
      bit(k) == (byte(k \div 8) \div 2 ^ (7 - (k % 8))) % 2
      digit(j) == FoldLeft(LAMBDA m, k : 2 * m + bit(6 * j + k), 0, [k \in 1 .. 6 |-> k - 1])
  IN [j \in 1 .. (8 * Len(bytes) + 5) \div 6 |-> kAlphabet[digit(j - 1) + 1]]
Base64Of(bytes, width) ==
  LET digits == DigitsOf(bytes) \o [i \in 1 .. ((3 - (Len(bytes) % 3)) % 3) |-> "="]
  IN FlattenSeq([i \in DOMAIN digits |->
                   IF i % width = 0 \/ i = Len(digits) THEN <<digits[i], "\n">> ELSE <<digits[i]>>])
BlobAnswer(bytes, width) ==
  ObjectOf("encoding" :> Text("base64") @@ "content" :> <<"string", Base64Of(bytes, width)>>)

-----------------------------------------------------------------------------
(* The other inputs.                                                        *)

TakeJson == Take({"json"} \X Values \X Whitespace \X BOOLEAN)
TakeTree == Take({"tree"} \X BoundedSeq(Entries, 2) \X BOOLEAN \X Whitespace)
TakeCutTree == Take({"cut tree"} \X BoundedSeq(Entries, 2))
TakeBlob == Take({"blob"} \X BoundedSeq({0, 97, 255}, 4) \X {1, 2, 3, 5})

ReadNext ==
  \/ WrittenNext \/ TakeJson \/ TakeTree \/ TakeCutTree \/ TakeBlob

ReadSpec == ReadInit /\ [][ReadNext]_input

-----------------------------------------------------------------------------

\* jjson reads back every value it was written: no bracket, quote or comma
\* inside a string, no escape of one letter, no nesting, no empty container
\* and no whitespace puts it out of step.  A character may be written as \u
\* and its code: one of ASCII is read as itself, the others up to U+00FF as a
\* byte that is not their UTF-8, and a text with one after U+00FF is not
\* taken, or the daemon ends.  Numbers are those a float has.
JsonRoundTrip ==
  input[1] = "json" =>
    LET v == input[2]
        ws == input[3]
        esc == input[4]
        read == Parse(ws \o PrintValue(v, ws, esc) \o ws)
    IN IF esc /\ IsWide(v) THEN read \in {nullptr, crash} ELSE read = InBytes(v, esc)

\* A tree from GitHub is taken whole or the daemon ends: every entry but a
\* submodule is served in its order with its mode and size, a truncated
\* answer is recognised, and an answer that is cut anywhere is never taken
\* for a smaller tree.
TreeWholeOrNothing ==
  /\ input[1] = "tree" =>
       LET kept == SelectSeq(input[2], LAMBDA e : e.type # "commit")
           modes == "100644" :> "100644" @@ "120000" :> "120644" @@ "040000" :> "040755"
       IN ServedTree(PrintValue(TreeAnswer(input[2], input[3]), input[4], FALSE)) =
            IF input[3] THEN Tree("truncated", <<>>)
            ELSE Tree("parsed", [i \in DOMAIN kept |->
                        <<kept[i].path, <<modes[kept[i].mode]>>, kept[i].size>>])
  /\ input[1] = "cut tree" =>
       LET text == PrintValue(TreeAnswer(input[2], FALSE), <<>>, FALSE)
       IN \A n \in 0 .. Len(text) - 1 : ServedTree(SubSeq(text, 1, n)).outcome = "crash"

\* A blob from GitHub comes out as the bytes it was made of, through the
\* escapes of JSON and the newlines and padding of base64, wherever the lines
\* end: ParseBlob.
BlobDecoded ==
  input[1] = "blob" => ParseBlob(PrintValue(BlobAnswer(input[2], input[3]), <<>>, FALSE)) = input[2]
=============================================================================
