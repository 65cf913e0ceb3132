------------------------------- MODULE Tokens -------------------------------
(* The text of a Soppo file as the lexer reads it, and the syntax tree.     *)
(* A text is a sequence of words: a token, a comment or "NL", the end of a  *)
(* line; two of these leave a blank line.  Spaces, the letters of names and *)
(* the indentation are left out.                                            *)
EXTENDS Naturals, Sequences, SequencesExt

(* Line comments, and block comments of one line and of two, with what each *)
(* of their lines is behind a `//`.                                         *)
AsLines == [c \in {"/*1", "/*2"} |-> IF c = "/*1" THEN <<"///*1">> ELSE <<"///*2", "//2*/">>]
BlockComments == DOMAIN AsLines
LineComments  == {"//1", "//2", "//3"} \union UNION {ToSet(AsLines[c]) : c \in BlockComments}
Comments      == LineComments \union BlockComments
Height(c)     == IF c \in BlockComments THEN Len(AsLines[c]) ELSE 1
Ints     == {"1", "2"}
Idents   == {"a", "b", "c", "f", "i", "v", "x", "T", "G", "int", "error",
             "map", "make", "new", "chan", "default", "main", "ok", "iota"}
Lower    == Idents \ {"T", "G"}       \* names that begin with a small letter

(* A string literal: plain text, one hole with a name in it, or text in     *)
(* which a brace is written twice.                                          *)
Plain == "'s'"
Hole  == "'{a}'"
Brace == "'{{a}'"
Raw   == "'r'"          \* a raw string: a value, or the tag of a field
Strings == {Plain, Hole, Brace}
Paths   == {"'p'", "'q'"}

BuiltinNames == {"int", "error"}

(* Lexer::next_token, called until it answers None.  `line` holds the line  *)
(* of each token; a comment has the lines it starts and ends on.  A newline *)
(* token stands for a run of newlines.  An unknown character ("@") is an    *)
(* error, which next_token turns into None: the caller takes it for the end *)
(* of the file and nothing after it is read.                                *)
LexWord(s, w) ==
  IF s.ended \/ w = "@" THEN [s EXCEPT !.ended = TRUE]
  ELSE IF w \in Comments
       THEN [s EXCEPT !.comments = Append(@, [text |-> w, line |-> s.at, last |-> s.at + Height(w) - 1]),
                      !.at = @ + Height(w) - 1, !.run = FALSE]
  ELSE IF w = "NL"
       THEN [s EXCEPT !.tok  = IF s.run THEN @ ELSE Append(@, "NL"),
                      !.line = IF s.run THEN @ ELSE Append(@, s.at),
                      !.at   = @ + 1, !.run = TRUE]
  ELSE [s EXCEPT !.tok = Append(@, w), !.line = Append(@, s.at), !.run = FALSE]

Lex(text) ==
  LET read[i \in 0..Len(text)] ==
        IF i = 0 THEN [tok |-> <<>>, line |-> <<>>, comments |-> <<>>, at |-> 1, run |-> FALSE, ended |-> FALSE]
        ELSE LexWord(read[i - 1], text[i])
  IN  read[Len(text)]

-----------------------------------------------------------------------------
(* A node of the tree: its kind, the words that belong to it, its children  *)
(* and the lines of its first and last token.                               *)
Node(k, v, c) == [kind |-> k, words |-> v, kids |-> c, first |-> 0, last |-> 0]
NoNode        == Node("none", <<>>, <<>>)
List(nodes)   == Node("list", <<>>, nodes)

RECURSIVE Bare(_)
(* The tree without its lines. *)
Bare(n) == Node(n.kind, n.words, [i \in DOMAIN n.kids |-> Bare(n.kids[i])])

(* A parser's answer: the position after what it read, and the node.  Only  *)
(* position 0 is an error, and every parser that starts at 0 answers 0.     *)
Fail       == [at |-> 0, node |-> NoNode]
Got(at, n) == IF at = 0 THEN Fail ELSE [at |-> at, node |-> n]

(* Parser::peek, check, expect and skip_terminators. *)
At(ts, p)      == IF p \in DOMAIN ts.tok THEN ts.tok[p] ELSE "eof"
Line(ts, p)    == IF p \in DOMAIN ts.line THEN ts.line[p] ELSE 0
Eat(ts, p, w)  == IF p # 0 /\ At(ts, p) = w THEN p + 1 ELSE 0
EatIf(ts, p, w) == IF p # 0 /\ At(ts, p) = w THEN p + 1 ELSE p
Ends           == {"NL", ";"}
Seek(ts, p, Stop(_)) ==
  LET q == SelectInSubSeq(ts.tok, p, Len(ts.tok), Stop)
  IN  IF p = 0 THEN 0 ELSE IF q = 0 THEN Len(ts.tok) + 1 ELSE q
RECURSIVE Skip(_, _)
Skip(ts, p)    == IF p # 0 /\ At(ts, p) \in Ends THEN Skip(ts, p + 1) ELSE p
Made(ts, from, to, k, v, c) ==
  Got(to, [Node(k, v, c) EXCEPT !.first = Line(ts, from), !.last = Line(ts, to - 1)])
=============================================================================
