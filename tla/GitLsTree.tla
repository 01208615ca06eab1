------------------------------- MODULE GitLsTree -------------------------------
(***************************************************************************)
(* gitlstree at its start: GitTree::LoadDirectory makes the tree out of    *)
(* the text of git ls-tree.  A text is a sequence of characters; a word    *)
(* that nothing looks into counts as one, and the path is a sequence of    *)
(* them, for a name may have a space in it.                                *)
(***************************************************************************)
EXTENDS Integers, SequencesExt

\* Mutant: no token is skipped.
TokenLoose(result, x, c, token_compress) ==
  IF x = c THEN Append(result, <<>>) ELSE Append(Front(result), Append(Last(result), x))

\* What a character does to the tokens so far, of which the last is not yet
\* ended: a separator ends it, and with token_compress an empty one is not kept.
Token(result, x, c, token_compress) ==
  IF x # c THEN Append(Front(result), Append(Last(result), x))
  ELSE IF token_compress /\ Last(result) = <<>> THEN result ELSE Append(result, <<>>)

Tokens(s, c, token_compress) ==
  LET result[n \in 0 .. Len(s)] ==
        IF n = 0 THEN << <<>> >> ELSE Token(result[n - 1], s[n], c, token_compress)
  IN result[Len(s)]

\* SplitStringUsing.  The token that follows a separator at the end is empty
\* and stays (find returns npos there).
SplitStringUsing(s, c, token_compress) ==
  IF s = <<>> THEN <<>> ELSE Tokens(s, c, token_compress)

ElementsIn(line) == SplitStringUsing(line, " ", TRUE)
Elements3(line) == SplitStringUsing(ElementsIn(line)[4], "\t", FALSE)

\* What is asserted of a line with four elements: there is one tab, and no
\* slash after it.
Asserted(line) ==
  Len(ElementsIn(line)) = 4 =>
    /\ Len(Elements3(line)) = 2
    /\ Elements3(line)[2] # <<>> => Elements3(line)[2][1] # "/"

\* What the loop of LoadDirectory adds for a line: nothing, unless the line
\* has four elements.
ElementsOf(line) ==
  IF Len(ElementsIn(line)) # 4 THEN <<>>
  ELSE << [path |-> Elements3(line)[2], attribute |-> ElementsIn(line)[1],
           sha1 |-> ElementsIn(line)[3],
           size |-> IF Elements3(line)[1] = <<"-">> THEN <<"0">> ELSE Elements3(line)[1]] >>

Added(name) == [path |-> name, attribute |-> "handler", sha1 |-> "handler", size |-> "handler"]

\* LoadDirectory: the elements added, in their order.  The newline of the
\* hash is taken off before the exit codes are looked at.
LoadDirectory(rev_parse, ls_tree) ==
  IF rev_parse.out = <<>> THEN "length_error"
  ELSE IF rev_parse.exit_code # 0 \/ ls_tree.exit_code # 0 THEN "failed"
  ELSE LET lines == SplitStringUsing(ls_tree.out, "\n", TRUE)
       IN IF \E i \in DOMAIN lines : ~Asserted(lines[i]) THEN "crash"
          ELSE FlattenSeq([i \in DOMAIN lines |-> ElementsOf(lines[i])])
                 \o << Added(<<".status">>), Added(<<".git/HEAD">>) >>

\* FileElement::Getattr: a symbolic link is given its mode, and S_IFREG is
\* set in what git says of anything else (as it is in 0160000).
Getattr(f) ==
  [st_mode |-> IF f.attribute = <<"120000">> THEN <<"120644">> ELSE f.attribute,
   st_size |-> f.size]

\* GitHeadHandler, for the hash: the line it keeps, and Read, which gives
\* all of it and a NUL or nothing.
HeadLine(hash) == Append(hash, "\n")
HeadRead(hash, size, offset) ==
  IF offset # 0 \/ size <= Len(HeadLine(hash)) THEN <<"EIO">> ELSE Append(HeadLine(hash), "NUL")

-----------------------------------------------------------------------------
(* What git writes, and what is promised of it.                             *)

\* An entry of a tree, which has no size for a submodule.  git writes a path in
\* quotes, with escapes nobody undoes, if it has a tab, a newline or another
\* control, a quote, a backslash or a byte from 128 on in it: such a path, for
\* which a character of STRING does not stand, is no GitPath.
Word == STRING \ {" ", "\t", "\n"}
GitPath == {p \in Seq(STRING \ {"\t", "\n"}) : p # <<>> /\ p[1] # "/"}
GitEntry ==
  {e \in [mode : Word, type : Word, sha : Word, size : Word, path : GitPath] :
     e.type = "commit" <=> e.size = "-"}

\* A line of git ls-tree -l -r: a short size is padded on its left.
LineOf(e) ==
  <<e.mode, " ", e.type, " ", e.sha, " ">> \o (IF e.size = "1234567" THEN <<>> ELSE <<" ">>)
    \o <<e.size, "\t">> \o e.path \o <<"\n">>
ListingOf(entries) == FlattenSeq([i \in DOMAIN entries |-> LineOf(entries[i])])

\* An entry with a space in its path is dropped without a word.
Kept(entries) ==
  FlattenSeq([i \in DOMAIN entries |->
                IF " " \in Range(entries[i].path) THEN <<>> ELSE <<entries[i]>>])

ServedAs(f, e) ==
  /\ f.path = e.path /\ f.sha1 = <<e.sha>>
  /\ Getattr(f) = [st_mode |-> <<IF e.mode = "120000" THEN "120644" ELSE e.mode>>,
                   st_size |-> <<IF e.type = "commit" THEN "0" ELSE e.size>>]

\* What the kernel reads of .git/HEAD, a page cut to st_size, is what git
\* rev-parse wrote.
HeadServed(out) ==
  SubSeq(HeadRead(Front(out), 4096, 0), 1, Len(HeadLine(Front(out)))) = out

\* Every entry of the tree but those with a space in the path is mounted once,
\* in its order, as git has it: the padding of the sizes and the newline at the
\* end lose nothing more.  So is the hash of the tree.
EntriesServed(entries) ==
  LET hash == <<"hash", "\n">>
      served == LoadDirectory([out |-> hash, exit_code |-> 0],
                              [out |-> ListingOf(entries), exit_code |-> 0])
      kept == Kept(entries)
  IN /\ Len(served) = Len(kept) + 2
     /\ \A i \in DOMAIN kept : ServedAs(served[i], kept[i])
     /\ HeadServed(hash)
=============================================================================
