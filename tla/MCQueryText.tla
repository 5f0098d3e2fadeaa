---------------------------- MODULE MCQueryText ----------------------------
(***************************************************************************)
(* Instances of QueryText for TLC: words of one and two letters, n-grams   *)
(* of up to three words, a filter of two bytes.                            *)
(***************************************************************************)
EXTENDS QueryText

MCChars == {"a", "b", " ", "newline", "|", "nul", "-", "1"}

A == <<"a">>
B == <<"b">>
AB == <<"a", "b">>

\* Any letters and spaces, with or without an end of line; and the text lines
\* made of up to four words.
Scribbles == {chars \o end : chars \in SeqOf({"a", "b", " "}, 4),
                             end \in {<<>>, <<"newline">>}}
WordLines == {FlattenSeq([x \in DOMAIN ws |-> ws[x] \o <<" ">>]) :
                ws \in SeqOf({A, B, AB}, 4)}
MCLines == Scribbles \union WordLines

\* Two branches and a word of two letters; any of the nodes is an n-gram.
Nodes == {<<A>>, <<A, B>>, <<A, B, A>>, <<B>>, <<AB>>}
MCTries == [Nodes -> BOOLEAN]

\* Two hash values each: "a" sets the sign bit of byte 0, and "a" and "b"
\* together cover "a b" ; "ab" sets bits in both bytes.
MCHash == [n \in Nodes |->
  CASE n = <<A>> -> <<7, 18>> [] n = <<B>> -> <<1, 8>> [] n = <<A, B>> -> <<2, 17>>
    [] n = <<A, B, A>> -> <<15, 7>> [] n = <<AB>> -> <<3, 12>>]
=============================================================================
