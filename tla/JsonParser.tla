------------------------------ MODULE JsonParser ------------------------------
(***************************************************************************)
(* jjson, the parser for the answers of GitHub, and what git-githubfs      *)
(* takes from them.  A text is a sequence of characters; a run of letters  *)
(* that nothing looks into counts as one.  Every Obtain function takes the *)
(* text and the position, and returns what it obtained and the position    *)
(* after it.                                                               *)
(*                                                                         *)
(* A value is a pair of its class and its contents; nullptr is what the    *)
(* parser returns for text it does not take, and "crash" stands for the    *)
(* end of the process: an assertion, or a null pointer that is used.       *)
(***************************************************************************)
EXTENDS Base64, FiniteSetsExt

CONSTANT FloatBits        \* the bits of a float's mantissa

nullptr == <<"nullptr">>
crash == <<"crash">>
Obtained(v, p) == [v |-> v, at |-> p]

\* Characters.
Eof == "eof"
Quote == "\""
Backslash == "\\"
\* Mutant: a tab is no whitespace.
valid_whitespace_no_tab == {" ", "\n", "\r"}

valid_whitespace == {" ", "\t", "\n", "\r"}
Digits == <<"0", "1", "2", "3", "4", "5", "6", "7", "8", "9">>
valid_number == Range(Digits) \cup {"-", "+", ".", "E"}
HexDigits == Digits \o <<"a", "b", "c", "d", "e", "f">> \o <<"A", "B", "C", "D", "E", "F">>
DigitOf ==
  [c \in Range(HexDigits) |->
     LET i == CHOOSE i \in DOMAIN HexDigits : HexDigits[i] = c
     IN IF i <= 16 THEN i - 1 ELSE i - 7]

\* What the letter after a backslash stands for.
Escapes ==
  Quote :> Quote @@ Backslash :> Backslash @@ "/" :> "/" @@
  "b" :> "bs" @@ "f" :> "ff" @@ "n" :> "\n" @@ "r" :> "\r" @@ "t" :> "\t"

Peek(s, p) == IF p > Len(s) THEN Eof ELSE s[p]
Skip(s, p) == IF p > Len(s) THEN p ELSE p + 1

\* Consume and SkipValid: the first position that has no character of the set.
Past(s, p, valid) ==
  CHOOSE q \in p .. Len(s) + 1 :
    Peek(s, q) \notin valid /\ \A r \in p .. q - 1 : s[r] \in valid
SkipWhitespace(s, p) == Past(s, p, valid_whitespace)

\* strtof on a number of digits: the nearest float, ties to even.
ToFloat(n) ==
  LET unit == CHOOSE u \in {2 ^ k : k \in 0 .. 20} :
                n < u * 2 ^ FloatBits /\ (u = 1 \/ n >= (u \div 2) * 2 ^ FloatBits)
      low == n \div unit
      up == IF 2 * (n % unit) > unit \/ (2 * (n % unit) = unit /\ low % 2 = 1) THEN 1 ELSE 0
  IN (low + up) * unit

\* The digits are read as strtof reads them; a sign, a fraction or an
\* exponent is not looked at here.
ObtainNumber(s, p) ==
  LET q == Past(s, p, valid_number)
      n == FoldLeft(LAMBDA m, c : 10 * m + DigitOf[c], 0,
                    SelectSeq(SubSeq(s, p, q - 1), LAMBDA c : c \in Range(Digits)))
  IN Obtained(<<"number", ToFloat(n)>>, q)

\* The four characters of \u, up to the first that is no digit.
CharCode(four) ==
  LET hex == SubSeq(four, 1, Past(four, 1, Range(HexDigits)) - 1)
  IN FoldLeft(LAMBDA m, c : 16 * m + DigitOf[c], 0, hex)

\* The characters of ASCII from the space on, and the control characters that
\* have an escape; a byte that is neither has a name of its own.
Printable ==
  <<" ", "!", Quote, "#", "$", "%", "&", "'", "(", ")", "*", "+", ",", "-", ".", "/">>
    \o Digits \o <<":", ";", "<", "=", ">", "?", "@">> \o SubSeq(kAlphabet, 1, 26)
    \o <<"[", Backslash, "]", "^", "_", "grave">> \o SubSeq(kAlphabet, 27, 52)
    \o <<"{", "|", "}", "~">>
Controls == 8 :> "bs" @@ 9 :> "\t" @@ 10 :> "\n" @@ 12 :> "ff" @@ 13 :> "\r"
ByteOf(code) ==
  IF code \in 32 .. 126 THEN Printable[code - 31]
  ELSE IF code \in DOMAIN Controls THEN Controls[code] ELSE "byte " \o ToString(code)

\* The loop of ObtainString.  The code of \u becomes one byte, which from 128
\* on is not the UTF-8 of the character, and from 256 on there is no string.
RECURSIVE Characters(_, _, _)
Characters(s, p, string) ==
  LET c == Peek(s, p + 1)
  IN CASE Peek(s, p) = Eof -> Obtained(nullptr, p)
       [] Peek(s, p) = Quote -> Obtained(<<"string", string>>, p + 1)
       [] Peek(s, p) = Backslash /\ c \in DOMAIN Escapes ->
            Characters(s, p + 2, Append(string, Escapes[c]))
       [] Peek(s, p) = Backslash /\ c = "u" ->
            LET code == CharCode(SubSeq(s, p + 2, Min({p + 5, Len(s)})))
                after == Min({p + 6, Len(s) + 1})
            IN IF code < 256
               THEN Characters(s, after, Append(string, ByteOf(code)))
               ELSE Obtained(nullptr, after)
       [] Peek(s, p) = Backslash /\ c # "u" /\ c \notin DOMAIN Escapes ->
            Characters(s, Skip(s, p + 1), string)
       [] OTHER -> Characters(s, p + 1, Append(string, s[p]))

ObtainString(s, p) ==
  IF Peek(s, p) = Quote THEN Characters(s, p + 1, <<>>)
  ELSE Obtained(nullptr, Skip(s, p))

\* AssertConsume: the word is there, or nullptr at the first difference.
AssertConsume(s, p, word, value) ==
  LET same(n) == \A i \in 1 .. n : Peek(s, p + i - 1) = word[i]
      n == CHOOSE n \in 0 .. Len(word) : same(n) /\ (n = Len(word) \/ ~same(n + 1))
  IN Obtained(IF n = Len(word) THEN value ELSE nullptr, p + n)

\* Mutant: an object that ends with the text is taken as it is.
EndOfObjectLenient(object) == <<"object", object>>

\* The end of the text inside an object.
EndOfObject(object) == nullptr

\* std::map::emplace: the first value of a key stays.
Emplace(object, key, value) ==
  IF \E m \in object : m[1] = key THEN object ELSE object \cup {<<key, value>>}

RECURSIVE ObtainValue(_, _), Elements(_, _, _), Members(_, _, _)

\* The loop of ObtainArray.
Elements(s, p, array) ==
  IF Peek(s, p) = Eof THEN Obtained(nullptr, p)
  ELSE IF Peek(s, p) = "]" THEN Obtained(<<"array", array>>, p + 1)
  ELSE LET value == ObtainValue(s, p)
           after == SkipWhitespace(s, value.at)
       IN CASE value.v \in {nullptr, crash} -> value
            [] value.v \notin {nullptr, crash} /\ Peek(s, after) = "]" ->
                 Elements(s, after, Append(array, value.v))
            [] value.v \notin {nullptr, crash} /\ Peek(s, after) = "," ->
                 Elements(s, SkipWhitespace(s, after + 1), Append(array, value.v))
            [] OTHER -> Obtained(nullptr, after)

\* The loop of ObtainObject.  A missing comma is reported and forgiven, and
\* a value that is null is stored; a key that is null is used.
Members(s, p, object) ==
  IF Peek(s, p) = Eof THEN Obtained(EndOfObject(object), p)
  ELSE IF Peek(s, p) = "}" THEN Obtained(<<"object", object>>, p + 1)
  ELSE LET key == ObtainString(s, p)
           colon == SkipWhitespace(s, key.at)
           value == ObtainValue(s, SkipWhitespace(s, colon + 1))
           after == SkipWhitespace(s, value.at)
       IN IF Peek(s, colon) # ":" THEN Obtained(nullptr, Skip(s, colon))
          ELSE IF value.v = crash \/ key.v = nullptr THEN Obtained(crash, after)
          ELSE Members(s, IF Peek(s, after) = "," THEN SkipWhitespace(s, after + 1) ELSE after,
                       Emplace(object, key.v[2], value.v))

ObtainValue(s, p) ==
  CASE Peek(s, p) = "t" -> AssertConsume(s, p, <<"t", "r", "u", "e">>, <<"true">>)
    [] Peek(s, p) = "f" -> AssertConsume(s, p, <<"f", "a", "l", "s", "e">>, <<"false">>)
    [] Peek(s, p) = "n" -> AssertConsume(s, p, <<"n", "u", "l", "l">>, <<"null">>)
    [] Peek(s, p) \in valid_number \ {".", "E"} -> ObtainNumber(s, p)
    [] Peek(s, p) = "[" -> Elements(s, SkipWhitespace(s, p + 1), <<>>)
    [] Peek(s, p) = "{" -> Members(s, SkipWhitespace(s, p + 1), {})
    [] Peek(s, p) = Quote -> ObtainString(s, p)
    [] OTHER -> Obtained(nullptr, p)

\* Parse: what follows the value is not looked at.
Parse(s) == ObtainValue(s, SkipWhitespace(s, 1)).v

-----------------------------------------------------------------------------
(* What git-githubfs takes from an answer.                                  *)

\* Value::get; the assertions fail unless it is an object with the key.
GetMember(v, key) ==
  IF v[1] = "object" /\ \E m \in v[2] : m[1] = <<key>> /\ m[2] # nullptr
  THEN (CHOOSE m \in v[2] : m[1] = <<key>>)[2]
  ELSE crash

Text(word) == <<"string", <<word>>>>

\* The kinds of entries file_type_map has.
FileTypeStringToFileType(type) ==
  IF type \in {Text("blob"), Text("tree"), Text("commit")} THEN type[2][1] ELSE "unknown"

\* What the handler is called with for an element of "tree": the path, the
\* mode, the kind and the size, which only a blob has.
TreeEntry(file) ==
  LET fstype == FileTypeStringToFileType(GetMember(file, "type"))
      strings == [k \in {"path", "mode", "sha", "url"} |-> GetMember(file, k)]
      size == IF fstype = "blob" THEN GetMember(file, "size") ELSE <<"number", 0>>
  IN IF fstype # "unknown" /\ size[1] = "number" /\ \A k \in DOMAIN strings : strings[k][1] = "string"
     THEN <<strings["path"][2], strings["mode"][2], fstype, size[2]>>
     ELSE crash

\* ParseTrees: how it ends, and the entries in their order.
Tree(outcome, entries) == [outcome |-> outcome, entries |-> entries]
TreeOfEntries(entries) ==
  IF crash \in Range(entries) THEN Tree("crash", <<>>) ELSE Tree("parsed", entries)
TreeOfFiles(tree) ==
  IF tree[1] # "array" THEN Tree("crash", <<>>)
  ELSE TreeOfEntries([i \in DOMAIN tree[2] |-> TreeEntry(tree[2][i])])
TreeOfAnswer(v) ==
  CASE GetMember(v, "truncated") = crash -> Tree("crash", <<>>)
    [] GetMember(v, "truncated") = <<"true">> -> Tree("truncated", <<>>)
    [] OTHER -> TreeOfFiles(GetMember(v, "tree"))
ParseTreesOf(text) == TreeOfAnswer(Parse(text))

\* FileElement::Getattr: the mode of a directory or a symbolic link, or what
\* GitHub says, with S_IFREG set.
StMode(attribute) ==
  CASE attribute = <<"040000">> -> <<"040755">>
    [] attribute = <<"120000">> -> <<"120644">>
    [] OTHER -> attribute

\* What the handler of LoadDirectoryInternal adds for an entry, and getattr
\* tells of it: nothing for a commit, which is a submodule.
ServedEntry(e) ==
  CASE e[3] = "blob" -> << <<e[1], StMode(e[2]), e[4]>> >>
    [] e[3] = "tree" -> << <<e[1], <<"040755">>, 0>> >>
    [] e[3] = "commit" -> <<>>
ServedTree(text) ==
  LET tree == ParseTreesOf(text)
      served == FlattenSeq([i \in DOMAIN tree.entries |-> ServedEntry(tree.entries[i])])
  IN [tree EXCEPT !.entries = served]

\* ParseBlob, with base64decode.
ParseBlob(text) ==
  LET blob == Parse(text)
      content == GetMember(blob, "content")
  IN IF GetMember(blob, "encoding") = Text("base64") /\ content[1] = "string"
     THEN base64decode(content[2])
     ELSE crash

\* ParseCommit, and ParseCommits of the first commit: the tree to mount.
TreeOfCommit(commit) == GetMember(GetMember(GetMember(commit, "commit"), "tree"), "sha")
ParseCommit(text) == TreeOfCommit(Parse(text))
ParseCommits(text) ==
  LET commits == Parse(text)
  IN IF commits[1] # "array" THEN crash
     ELSE IF commits[2] = <<>> THEN Text("")
     ELSE TreeOfCommit(commits[2][1])
=============================================================================
