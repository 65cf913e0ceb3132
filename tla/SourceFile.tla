----------------------------- MODULE SourceFile -----------------------------
(* A source file that somebody types, and what the parser and `sop fmt -w`  *)
(* (format_files of src/src/main.rs) make of it.  What it may hold is one   *)
(* of Topics: a frame, `pre` and `post`, around at most `max` of the        *)
(* fragments of the topic, in any order.  What the two make of a text is a  *)
(* function of the text, so the properties are about every text that is     *)
(* typed, and about the texts that formatting it once and twice returns.    *)
EXTENDS Formatter

CONSTANT Topics

VARIABLES topic, body
vars == <<topic, body>>

NoTopic == "none"
Typed == Topics[topic].pre \o FlattenSeq(body) \o Topics[topic].post

Init == topic = NoTopic /\ body = <<>>

Open(t) == topic = NoTopic /\ topic' = t /\ UNCHANGED body

Write(fragment) ==
  /\ Len(body) < Topics[topic].max
  /\ body' = Append(body, fragment)
  /\ UNCHANGED topic

Next == \/ \E t \in DOMAIN Topics : Open(t)
        \/ topic # NoTopic /\ \E fragment \in Topics[topic].fragments : Write(fragment)
Spec == Init /\ [][Next]_vars

(* A file that does not parse, or that stops the program, is left alone. *)
Rewritten(text) ==
  LET tree == Parsed(text)
  IN  IF tree.at = 0 \/ Panics(tree.node) THEN text ELSE FormatFile(tree.node, Lex(text).comments)
Formats(text) == LET tree == Parsed(text) IN tree.at # 0 /\ ~Panics(tree.node)

-----------------------------------------------------------------------------
(* The tree without lines and comments. *)
RECURSIVE Meaning(_)
Meaning(n) == IF n.kind = "doc" THEN NoNode
              ELSE Node(n.kind, n.words, [i \in DOMAIN n.kids |-> Meaning(n.kids[i])])

(* The nodes of a tree, each before its children. *)
RECURSIVE Nodes(_)
Nodes(n) == <<n>> \o FlattenSeq([i \in DOMAIN n.kids |-> Nodes(n.kids[i])])
Somewhere(n, Holds(_)) == LET all == Nodes(n) IN \E i \in DOMAIN all : Holds(all[i])

(* What the formatter is known not to print back. *)
LosesElement(t) ==                  \* []?T, []Option[int]
  /\ t.kind \in {"type", "?type"} /\ t.words # <<>> /\ Compound(t.words)
  /\ \E i \in DOMAIN t.kids : \/ t.kids[i].kind = "?type"
                              \/ t.kids[i].kids # <<>> /\ ~Compound(t.kids[i].words)
Unprintable(s) == s.kind \notin {"none", "decl", "multidecl", "assign", "multiassign", "incdec", "expr"}
LosesInline(s) ==                   \* var a = f() ?, for ...; i += 2 {
  \/ s.kind = "try"  /\ Unprintable(s.kids[1])
  \/ s.kind = "forc" /\ (Unprintable(s.kids[1]) \/ Unprintable(s.kids[3]))
LosesLiteral(e) ==                  \* T{a,}, [3]T{...}, []G[int]{...}
  \/ e.kind = "structlit" /\ e.kids[1].kind # "none" /\ Len(e.kids[2].kids) = 1 /\ e.kids[2].kids[1].words = <<>>
  \/ e.kind = "array" /\ ~IsPrefix(<<"[", "]">>, e.kids[1].words)
  \/ e.kind = "array" /\ e.kids[1].kids # <<>> /\ ~Compound(SubSeq(e.kids[1].words, 3, Len(e.kids[1].words)))
LosesPattern(p) ==                  \* case _, x:   T[int]   T[G[int]].A
  \/ p.kind = "arm" /\ Len(p.kids[1].kids) > 1 /\ \E i \in DOMAIN p.kids[1].kids : p.kids[1].kids[i].kind = "default"
  \/ /\ p.kind \in {"variantpattern", "destructor", "structpattern"} /\ p.kids[1].kids # <<>>
     /\ ~Contains(p.words, ".") \/ \E i \in DOMAIN p.kids[1].kids : p.kids[1].kids[i].kids # <<>> \/ p.kids[1].kids[i].kind = "?type"
RECURSIVE LastOperand(_)
LastOperand(e) == IF e.kind \in {"binary", "unary"} THEN LastOperand(Last(e.kids)) ELSE e
LosesHead(n, noted) ==              \* func(a T, b T), match a { case _:
  \/ n.kind = "func" /\ FormatParamsGrouped(n.kids[1].kids) # Commas(Each(n.kids[1].kids, FormatField))
  \/ /\ n.kind = "match" /\ n.kids[2].kids # <<>> /\ n.kids[2].kids[1].kids[1].kids[1].kind = "default"
     /\ CanNameType(LastOperand(n.kids[1]))
     /\ noted \intersect n.first..(n.kids[2].kids[1].first - 1) = {}
LosesMark(e) ==                     \* struct { [x] const a int `t` }{a: 1}
  /\ e.kind = "anonstruct"
  /\ \E i \in DOMAIN e.kids[1].kids :
       LET f == e.kids[1].kids[i]
       IN  f.kind = "constfield" \/ f.kids[2].kids # <<>> \/ f.kids[3].kind = "tag"
Glued(e) == e.kind = "unary" /\ e.kids[1].kind = "unary" /\ e.words = e.kids[1].words /\ e.words[1] \in {"-", "&"}
Lossy(n, noted) ==
  \/ LosesElement(n) \/ LosesInline(n) \/ LosesLiteral(n) \/ LosesPattern(n) \/ LosesHead(n, noted) \/ LosesMark(n) \/ Glued(n)
  \/ n.kind = "string" /\ n.words = <<Hole>>                       \* {{ has become {
  \/ n.kind = "expr" /\ n.kids[1].kind = "block"                   \* { ... }
  \/ n.kind = "typedecl" /\ Len(n.words) = 2 /\ n.kids[4].kind # "struct"

TreeIsKept(text) ==
  LET typed == Parsed(text)
      once  == Rewritten(text)
      notes == Lex(text).comments
      noted == {notes[i].line : i \in DOMAIN notes}
      Same(printed) == LET again == Parsed(printed)
                    IN  again.at # 0 /\ Meaning(again.node) = Meaning(typed.node)
      lossy == Somewhere(typed.node, LAMBDA n : Lossy(n, noted))
  IN  Formats(text) => /\ Same(once) <=> ~lossy
                       /\ Same(Rewritten(once)) <=> ~lossy
(* Formatted once or twice, a file still parses and its tree is the tree of *)
(* the typed one, but for the cases of Lossy, and each of these does change *)
(* it. *)
FormatKeepsTheTree == [][\A text \in {Typed'} : TreeIsKept(text)]_vars

TextIsStable(text) ==
  LET once == Rewritten(text)
  IN  Formats(text) => Formats(once) /\ Rewritten(once) = once
(* Formatting a formatted file changes nothing: "Formatting should be       *)
(* idempotent" (fmt.rs:2225). *)
FormattingIsIdempotent == [][\A text \in {Typed'} : TextIsStable(text)]_vars

CommentsOf(words) == SelectSeq(words, LAMBDA w : w \in Comments)
Documented(file) == SelectSeq(file.kids[2].kids, HasDoc)
Documenting(file, ts) == UNION ToSet(Each(Documented(file), LAMBDA d : ToSet(DocComments(ts.comments, d.first))))
ToBePrinted(file, ts) ==
  FlattenSeq([i \in DOMAIN ts.comments |->
    LET c == ts.comments[i] IN IF c \in Documenting(file, ts) THEN DocLines(c.text) ELSE <<c.text>>])

PrintedTwice(file, ts) ==           \* const a = 1 //1  func f() {}    func f() { //1  type T int }
  LET decls == file.kids[2].kids
      is    == file.kids[1].kids
      before(j) == {file.first - 1} \union {IF Len(is) = 1 THEN is[i].first - 1 ELSE is[i].last : i \in DOMAIN is}
                   \union {decls[i].last : i \in 1..(j - 1)}
      nested(n) == n.kind = "typedecl" /\ n.kids[2].kind = "doc"
  IN  \E j \in DOMAIN decls :
        \/ HasDoc(decls[j]) /\ \E c \in ToSet(DocComments(ts.comments, decls[j].first)) : \E l \in before(j) : c.line <= l
        \/ decls[j].kind = "funcdecl" /\ Somewhere(decls[j], nested)
PassedOver(file, ts) ==             \* /*1*/ /*2*/  func f() {}
  \E i \in 2..Len(ts.comments) :
    LET c == ts.comments[i]
    IN  /\ c.line = ts.comments[i - 1].last
        /\ Documenting(file, ts) \intersect {c, ts.comments[i - 1]} # {}
CommentsAreKept(text) ==
  Formats(text) =>
    LET ts == Lex(text)
        file == Parsed(text).node
    IN  \/ CommentsOf(Rewritten(text)) = ToBePrinted(file, ts)
        \/ PrintedTwice(file, ts)
        \/ PassedOver(file, ts)
(* Every comment the lexer has read is there after the file was formatted,  *)
(* once, and in its old order: as it was typed, or line by line behind `//` *)
(* where it is a block comment that documents a declaration.  Excepted are  *)
(* a documentation that is printed twice, by the declaration below and by   *)
(* the block it is in or something else it stands in, behind or above, and  *)
(* one of two comments that share a line, when the parser takes the first   *)
(* for a documentation and the formatter passes over the other.             *)
FormatKeepsComments == [][\A text \in {Typed'} : CommentsAreKept(text)]_vars

NamesOf(words) == ToSet(words) \intersect (Idents \union Ints \union {Plain, Raw} \union Paths)
Marks(text) ==                      \* []struct { [x] a G[int] `t` }
  LET opens == {j \in 2..Len(text) : text[j] = "struct" /\ text[j - 1] \in {"]", "*"}}
      inside(j, i) == j < i /\ "}" \notin {text[k] : k \in j..i}
      bracketed(j, i) == \E k \in (j + 2)..i : /\ text[k] = "[" /\ text[k + 1] \in Idents /\ text[k - 1] # "map"
                                              /\ "]" \notin {text[l] : l \in k..i}
  IN  {i \in DOMAIN text : \E j \in opens : inside(j, i) /\ (text[i] = Raw \/ bracketed(j, i))}
Unread(text) ==
  LET word(i) == IF i \in DOMAIN text THEN text[i] ELSE "eof"
      results == {j \in DOMAIN text : word(j) = ")" /\ word(j + 1) = "("}
      passed == {i \in DOMAIN text :
        \/ \E j \in 1..i : text[j] = "@"
        \/ word(i - 1) = "[" /\ word(i + 1) = "]" /\ word(i + 2) \in Idents \union {"*", "[", "{"}
        \/ word(i + 1) = "," /\ \E j \in results : j < i
        \/ i \in Marks(text)}
  IN  {text[i] : i \in passed}
NamesAreRead(text) ==
  LET tree == Parsed(text)
  IN  tree.at # 0 => NamesOf(text) \subseteq
        UNION ToSet(Each(Nodes(tree.node), LAMBDA n : ToSet(n.words))) \union Unread(text) \union {"default"}
(* Every name and literal that is typed is in the tree, but for those the   *)
(* parser is known to pass over: what follows an unknown character, the     *)
(* size of an array type, a name that waits in a list of results, all type  *)
(* arguments of a literal but the last, `b[T][int]{...}`, and in a struct   *)
(* type without a name the attributes and tags of its fields and the        *)
(* arguments of their types.                                                *)
ParserReadsEveryName == [][\A text \in {Typed'} : NamesAreRead(text)]_vars

GoPrecedence == [op \in {"*", "/", "%", "<<", ">>", "&", "+", "-", "|", "^", "==", "!=", "<", "<=", ">", ">=", "&&", "||"} |->
  IF op = "||" THEN 1 ELSE IF op = "&&" THEN 2
  ELSE IF op \in {"==", "!=", "<", "<=", ">", ">="} THEN 3
  ELSE IF op \in {"+", "-", "|", "^"} THEN 4 ELSE 5]
GoOrder(text) ==
  LET tree == Parsed(text)
      Binds(n, i, atLeast) == n.kids[i].kind = "binary" => GoPrecedence[n.kids[i].words[1]] >= atLeast
  IN  tree.at # 0 => ~Somewhere(tree.node, LAMBDA n :
        n.kind = "binary" /\ LET mine == GoPrecedence[n.words[1]]
                             IN  ~Binds(n, 1, mine) \/ ~Binds(n, 2, mine + 1))
(* Operators bind as in Go: of two in a row the stronger one, or else the   *)
(* left one, is applied first. *)
OperatorsBindAsInGo == [][\A text \in {Typed'} : GoOrder(text)]_vars
=============================================================================
