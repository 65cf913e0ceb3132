------------------------------ MODULE Formatter ------------------------------
(* The formatter of src/src/fmt.rs: a tree and the comments of its file     *)
(* printed as words again.  A printer is a state `st`: the words so far and *)
(* the comments it has yet to print.  Indentation and alignment are left    *)
(* out; the ends of lines and blank lines, by which comments are placed,    *)
(* are kept.                                                                *)
EXTENDS FileParser

Say(st, words) == [st EXCEPT !.out = @ \o words]

Join(texts, sep) ==
  FoldLeft(LAMBDA acc, i : IF i = 1 THEN texts[1] ELSE acc \o sep \o texts[i], <<>>,
           [i \in DOMAIN texts |-> i])
Commas(texts) == Join(texts, <<",">>)
Each(nodes, Text(_)) == [i \in DOMAIN nodes |-> Text(nodes[i])]
CommaNames(names)     == Commas([i \in DOMAIN names |-> <<names[i]>>])

-----------------------------------------------------------------------------
(* Comments.  Each is printed once its line has been passed, or at the end  *)
(* of its own line if it is a line comment; those that document a           *)
(* declaration are printed with it.                                         *)
EachOnItsLine(comments) ==
  FlattenSeq([i \in DOMAIN comments |-> <<comments[i].text, "NL">>])

EmitCommentsBefore(st, line) ==
  LET due == SelectSeq(st.comments, LAMBDA c : c.line < line)
  IN  [Say(st, EachOnItsLine(due)) EXCEPT !.comments = SubSeq(@, Len(due) + 1, Len(@))]

(* The line on which a documentation starts as emit_comments_before_decl    *)
(* counts back; of several comments that end on one line it takes the last. *)
RECURSIVE DocStart(_, _)
DocStart(comments, line) ==
  LET i == SelectLastInSeq(comments, LAMBDA c : c.last = line - 1)
  IN  IF i = 0 THEN line ELSE DocStart(comments, comments[i].line)

EmitCommentsBeforeDecl_own(st, line, documented) ==
  LET from == IF documented THEN DocStart(st.noted, line) ELSE line
      above == EmitCommentsBefore(st, from)
  IN  [above EXCEPT !.comments = SelectSeq(@, LAMBDA c : c.line > line)]
EmitCommentsBeforeDecl(st, line, documented) ==
  LET from == IF documented THEN DocStart(st.noted, line) ELSE line
      above == EmitCommentsBefore(st, from)
  IN  [above EXCEPT !.comments = SelectSeq(@, LAMBDA c : c.line >= line)]

EmitTrailingComment(st, line) ==
  IF st.comments # <<>> /\ st.comments[1].line = line /\ st.comments[1].text \in LineComments
  THEN [Say(st, <<st.comments[1].text>>) EXCEPT !.comments = Tail(@)]
  ELSE st
EndLine(st, line) == Say(EmitTrailingComment(st, line), <<"NL">>)

EmitRemainingComments(st) == [Say(st, EachOnItsLine(st.comments)) EXCEPT !.comments = <<>>]

-----------------------------------------------------------------------------
(* Types.  A compound type is printed from its name alone. *)
Compound(words) == words[1] \in {"[", "*", "map", "chan", "...", "func", "struct"}

(* `struct { a T; b U }` on several lines when it has two fields or more;   *)
(* only when nothing or `[]` stands before it.                              *)
FormatAnonStruct(words) ==
  LET from == IF words[1] = "struct" THEN 1 ELSE IF IsPrefix(<<"[", "]", "struct">>, words) THEN 3 ELSE 0
      body == SubSeq(words, from + 2, Len(words) - 1)
      rows == FlattenSeq([i \in DOMAIN body |-> IF body[i] = ";" THEN <<"NL">> ELSE <<body[i]>>])
  IN  IF from = 0 \/ ~Contains(body, ";") THEN words
      ELSE SubSeq(words, 1, from + 1) \o <<"NL">> \o rows \o <<"NL", "}">>

RECURSIVE FormatType(_)
FormatType(t) ==
  (IF t.kind = "?type" THEN <<"?">> ELSE <<>>) \o FormatAnonStruct(t.words)
  \o (IF t.kids = <<>> \/ Compound(t.words) THEN <<>>
      ELSE <<"[">> \o Commas(Each(t.kids, FormatType)) \o <<"]">>)
OptType(t) == IF t.kind = "none" THEN <<>> ELSE FormatType(t)

FormatGenerics(gs) ==
  IF gs.kids = <<>> THEN <<>>
  ELSE <<"[">> \o Commas(Each(gs.kids, LAMBDA g : g.words)) \o <<"]">>

(* `a, b T` for neighbours whose types are printed alike. *)
FormatParamsGrouped(params) ==
  LET type(i)   == FormatType(params[i].kids[1])
      joined(i) == /\ i > 1 /\ type(i) = type(i - 1)
                   /\ params[i].words # <<>> /\ params[i - 1].words # <<>>
      piece(i)  == (IF i = 1 THEN <<>> ELSE <<",">>) \o params[i].words
                   \o (IF i < Len(params) /\ joined(i + 1) THEN <<>> ELSE type(i))
  IN  FlattenSeq([i \in DOMAIN params |-> piece(i)])

(* The results of a function; `Text` prints a list of them. *)
FormatReturns(rs, Text(_)) ==
  IF rs = <<>> THEN <<>>
  ELSE IF Len(rs) = 1 /\ rs[1].words = <<>> THEN FormatType(rs[1].kids[1])
  ELSE <<"(">> \o Text(rs) \o <<")">>
(* A name and its type. *)
FormatField(f) == f.words \o FormatType(f.kids[1])

-----------------------------------------------------------------------------
(* Expressions. *)
RECURSIVE FormatExpr(_), FormatBlockContents(_, _)

(* Two operators with nothing between them are read as one. *)
Glue(op, text) ==
  IF op \in {"-", "&"} /\ text[1] = op THEN <<IF op = "-" THEN "--" ELSE "&&">> \o Tail(text)
  ELSE <<op>> \o text

FormatItem(item) ==
  (IF item.words # <<>> /\ item.words[1] # "..." THEN SubSeq(item.words, 1, 2) ELSE <<>>)
  \o FormatExpr(item.kids[1]) \o (IF Contains(item.words, "...") THEN <<"...">> ELSE <<>>)
CommaItems(items) == Commas(Each(items, FormatItem))
ItemRows(items)   == <<"NL">> \o FlattenSeq(Each(items, LAMBDA i : FormatItem(i) \o <<",", "NL">>))

(* The arguments of a call keep their lines. *)
FormatArgs(args) ==
  LET before(i) == IF i = 1 THEN <<>>
                   ELSE IF args[i].first = args[i - 1].first THEN <<",">> ELSE <<",", "NL">>
  IN  FlattenSeq([i \in DOMAIN args |-> before(i) \o FormatItem(args[i])])

FormatCall(f, types, args) ==
  LET text  == Commas(Each(types, FormatType))
      maker == f.kind = "ident" /\ f.words[1] \in {"make", "new"}
  IN  FormatExpr(f)
      \o (IF types = <<>> \/ maker THEN <<>> ELSE <<"[">> \o text \o <<"]">>)
      \o <<"(">> \o (IF maker THEN text \o (IF args = <<>> \/ text = <<>> THEN <<>> ELSE <<",">>) ELSE <<>>)
      \o FormatArgs(args) \o <<")">>

IsMultilineArray(e) ==
  /\ e.kind = "array"
  /\ Len(e.kids[2].kids) > 1
  /\ \E i \in DOMAIN e.kids[2].kids : e.kids[2].kids[i].kids[1].kind = "structlit"

(* A literal with values on several lines keeps one on each. *)
FormatStructLit(ty, fields) ==
  LET several == Len(fields) > 1 /\ fields[1].first # fields[Len(fields)].first
  IN  OptType(ty) \o <<"{">> \o (IF several THEN ItemRows(fields) ELSE CommaItems(fields)) \o <<"}">>

(* The body of a function literal is printed by a printer of its own, which *)
(* has no comments. *)
FormatFuncLit(params, returns, body) ==
  LET inner == FormatBlockContents([out |-> <<>>, comments |-> <<>>, noted |-> <<>>], body)
      rs    == FormatReturns(returns, LAMBDA r : Commas(Each(r, FormatField)))
  IN  <<"func", "(">> \o FormatParamsGrouped(params) \o <<")">> \o rs \o <<"{", "NL">> \o inner.out \o <<"}">>

FormatEntries(kvs) ==
  Commas([i \in 1..(Len(kvs) \div 2) |-> FormatExpr(kvs[2 * i - 1]) \o <<":">> \o FormatExpr(kvs[2 * i])])

FormatExpr(e) ==
  LET k(i)   == e.kids[i]
      opt(n) == IF n.kind = "none" THEN <<>> ELSE FormatExpr(n)
  IN  CASE e.kind \in {"lit", "string", "ident"} -> e.words
        [] e.kind = "interp"     -> <<Hole>>
        [] e.kind = "binary"     -> FormatExpr(k(1)) \o e.words \o FormatExpr(k(2))
        [] e.kind = "unary"      -> Glue(e.words[1], FormatExpr(k(1)))
        [] e.kind = "paren"      -> <<"(">> \o FormatExpr(k(1)) \o <<")">>
        [] e.kind = "call"       -> FormatCall(k(1), k(2).kids, k(3).kids)
        [] e.kind = "typeinst"   -> FormatExpr(k(1)) \o <<"[">> \o Commas(Each(k(2).kids, FormatType)) \o <<"]">>
        [] e.kind = "field"      -> FormatExpr(k(1)) \o <<".">> \o e.words
        [] e.kind = "index"      -> FormatExpr(k(1)) \o <<"[">> \o FormatExpr(k(2)) \o <<"]">>
        [] e.kind = "slice"      -> FormatExpr(k(1)) \o <<"[">> \o opt(k(2)) \o <<":">> \o opt(k(3))
                                    \o (IF k(4).kind = "none" THEN <<>> ELSE <<":">> \o FormatExpr(k(4))) \o <<"]">>
        [] e.kind = "typeassert" -> FormatExpr(k(1)) \o <<".", "(">> \o FormatType(k(2)) \o <<")">>
        [] e.kind = "nilassert"  -> FormatExpr(k(1)) \o <<".", "(", "!", "nil", ")">>
        [] e.kind = "array"      -> FormatType(k(1)) \o <<"{">>
                                    \o (IF IsMultilineArray(e) THEN ItemRows(k(2).kids) ELSE CommaItems(k(2).kids))
                                    \o <<"}">>
        [] e.kind = "structlit"  -> FormatStructLit(k(1), k(2).kids)
        [] e.kind = "anonstruct" -> <<"struct", "{">> \o FlattenSeq(Each(k(1).kids, LAMBDA f : FormatField(f) \o <<";">>))
                                    \o <<"}", "{">> \o CommaItems(k(2).kids) \o <<"}">>
        [] e.kind = "map"        -> FormatType(k(1)) \o <<"{">> \o FormatEntries(k(2).kids) \o <<"}">>
        [] e.kind = "func"       -> FormatFuncLit(k(1).kids, k(2).kids, k(3))
        [] e.kind = "block"      -> <<"{", "...", "}">>

-----------------------------------------------------------------------------
(* Patterns. *)
FormatPatternName(words, args) ==
  IF args = <<>> \/ ~Contains(words, ".") THEN words
  ELSE <<words[1], "[">> \o Names(args) \o <<"]">> \o Tail(words)

FormatFieldPattern(f) ==
  IF f.kind = "rest" THEN <<"...">>
  ELSE IF f.words[1] = f.words[2] THEN <<f.words[1]>>
  ELSE <<f.words[1], ":", f.words[2]>>

FormatPattern(p) ==
  CASE p.kind = "default"       -> <<"default">>
    [] p.kind = "literal"       -> p.words
    [] p.kind = "variantpattern" -> FormatPatternName(p.words, p.kids[1].kids)
    [] p.kind = "destructor"    -> FormatPatternName(Front(p.words), p.kids[1].kids)
                                   \o <<"(", Last(p.words), ")">>
    [] p.kind = "structpattern" -> FormatPatternName(p.words, p.kids[1].kids)
                                   \o <<"{">> \o Commas(Each(p.kids[2].kids, FormatFieldPattern)) \o <<"}">>
    [] p.kind = "guard"         -> FormatExpr(p.kids[1])

-----------------------------------------------------------------------------
(* Declarations of types.  A blank line is kept between members a line or   *)
(* more apart; the comments of enums and interfaces wait for what follows.  *)
FormatAttribute(a) ==
  LET args == Each(a.kids, LAMBDA k : k.words \o <<":">> \o FormatExpr(k.kids[1]))
  IN  <<"[">> \o a.words \o (IF args = <<>> THEN <<>> ELSE <<"{">> \o Commas(args) \o <<"}">>) \o <<"]", "NL">>
EmitAttributes(st, as) == Say(st, FlattenSeq(Each(as.kids, FormatAttribute)))

(* A documentation is printed behind `//`, whatever it was. *)
DocLines(text) == IF text \in BlockComments THEN AsLines[text] ELSE <<text>>
EmitDoc(st, doc) ==
  LET lines == FlattenSeq([i \in DOMAIN doc.words |-> DocLines(doc.words[i])])
  IN  Say(st, FlattenSeq([i \in DOMAIN lines |-> <<lines[i], "NL">>]))

StartsGroup(members, i, attributed) ==
  i > 1 /\ (attributed \/ members[i].first > members[i - 1].first + 1)

FormatFields(st, fields, grouped) ==
  FoldLeft(LAMBDA s, i :
             LET f == fields[i]
                 g == IF grouped /\ StartsGroup(fields, i, f.kids[2].kids # <<>>) THEN Say(s, <<"NL">>) ELSE s
                 above == EmitAttributes(EmitCommentsBefore(g, f.first), f.kids[2])
                 const == IF f.kind = "constfield" THEN <<"const">> ELSE <<>>
             IN  EndLine(Say(above, const \o FormatField(f) \o f.kids[3].words), f.first),
           st, [i \in DOMAIN fields |-> i])

FormatVariants(st, vs) ==
  FoldLeft(LAMBDA s, i :
             LET v == vs[i]
                 g == IF StartsGroup(vs, i, v.kids[1].kids # <<>>) THEN Say(s, <<"NL">>) ELSE s
                 n == Say(EmitAttributes(g, v.kids[1]), v.words)
             IN  IF Len(v.kids) = 1 THEN Say(n, <<"NL">>)
                 ELSE IF v.kids[2].kind # "list" THEN Say(n, FormatType(v.kids[2]) \o <<"NL">>)
                 ELSE Say(FormatFields(Say(n, <<"struct", "{", "NL">>), v.kids[2].kids, FALSE), <<"}", "NL">>),
           st, [i \in DOMAIN vs |-> i])

FormatMethod(m) ==
  LET rs == m.kids[2].kids
      returns == IF Len(rs) = 1 THEN FormatType(rs[1])
                 ELSE IF rs = <<>> THEN <<>> ELSE <<"(">> \o Commas(Each(rs, FormatType)) \o <<")">>
  IN  m.words \o <<"(">> \o FormatParamsGrouped(m.kids[1].kids) \o <<")">> \o returns \o <<"NL">>

FormatTypeDecl(st, t) ==
  LET head  == Say(EmitDoc(EmitAttributes(st, t.kids[1]), t.kids[2]),
                   <<"type", t.words[1]>> \o FormatGenerics(t.kids[3]))
      kind  == t.kids[4].kind
      ms    == t.kids[4].kids
      const == IF Len(t.words) = 2 THEN <<"const">> ELSE <<>>
      open  == Say(head, const \o <<"struct", "{", "NL">>)
  IN  CASE kind = "alias"      -> Say(head, <<"=">> \o FormatType(ms[1]) \o <<"NL">>)
        [] kind = "definition" -> Say(head, FormatType(ms[1]) \o <<"NL">>)
        [] kind = "enum"       -> Say(FormatVariants(Say(head, <<"enum", "{", "NL">>), ms), <<"}", "NL">>)
        [] kind = "struct"     -> IF ms = <<>> THEN Say(head, const \o <<"struct", "{", "}", "NL">>)
                                  ELSE Say(FormatFields(open, ms, TRUE), <<"}", "NL">>)
        [] kind = "interface"  -> Say(head, <<"interface", "{", "NL">>
                                            \o FlattenSeq(Each(ms, FormatMethod)) \o <<"}", "NL">>)

-----------------------------------------------------------------------------
(* Statements.  `Lead` is what stands before the values of a statement. *)
Lead(s) ==
  LET equals == IF s.kids[2].kids = <<>> THEN <<>> ELSE <<"=">>
  IN  CASE s.kind \in {"decl", "multidecl"} -> CommaNames(s.words) \o <<":=">>
        [] s.kind \in {"var", "const"}      -> <<s.kind>> \o CommaNames(s.words) \o OptType(s.kids[1]) \o equals
        [] s.kind = "assign"                -> FormatExpr(s.kids[1]) \o <<"=">>
        [] s.kind = "multiassign"           -> Commas(Each(s.kids[1].kids, FormatExpr)) \o <<"=">>
        [] s.kind = "compound"              -> FormatExpr(s.kids[1]) \o s.words
        [] s.kind = "send"                  -> FormatExpr(s.kids[1]) \o <<"<-">>
        [] s.kind \in {"return", "go", "defer"} -> <<s.kind>>
        [] s.kind \in {"incdec", "expr"}    -> <<>>

ValuesOf(s) ==
  CASE s.kind \in {"decl", "multidecl", "return", "go", "defer", "incdec", "expr"} -> s.kids
    [] s.kind \in {"var", "const", "multiassign"} -> s.kids[2].kids
    [] s.kind \in {"assign", "compound", "send"}  -> <<s.kids[2]>>

FormatLine(s) == Lead(s) \o Commas(Each(ValuesOf(s), FormatExpr))
                 \o (IF s.kind = "incdec" THEN s.words ELSE <<>>)

(* format_stmt_inline prints six kinds of statements and nothing for others. *)
FormatStmtInline(s) ==
  IF s.kind \in {"decl", "multidecl", "assign", "multiassign", "incdec", "expr"}
  THEN FormatLine(s) ELSE <<>>

(* A statement that fills a line, with a literal of structs on several. *)
FormatLineStmt(st, s) ==
  LET vs == ValuesOf(s)
      rows == FoldLeft(LAMBDA a, item : EndLine(Say(a, FormatItem(item) \o <<",">>), item.first),
                       Say(st, Lead(s) \o FormatType(vs[1].kids[1]) \o <<"{", "NL">>), vs[1].kids[2].kids)
  IN  IF /\ s.kind \in {"decl", "var", "assign"}
         /\ Len(vs) = 1 /\ IsMultilineArray(vs[1])
      THEN EndLine(Say(rows, <<"}">>), s.first)
      ELSE EndLine(Say(st, FormatLine(s)), s.first)

Braces(st, head, block) ==
  Say(FormatBlockContents(Say(st, head \o <<"{", "NL">>), block), <<"}", "NL">>)

RECURSIVE FormatIfChain(_, _)
FormatIfChain(st, s) ==
  LET init == IF s.kids[1].kind = "none" THEN <<>> ELSE FormatStmtInline(s.kids[1]) \o <<";">>
      else == s.kids[4]
      body == IF else.kind = "block" THEN else ELSE [Node("block", <<>>, <<else>>) EXCEPT !.last = else.last]
      then == FormatBlockContents(Say(st, <<"if">> \o init \o FormatExpr(s.kids[2]) \o <<"{", "NL">>), s.kids[3])
  IN  IF else.kind = "none" THEN Say(then, <<"}", "NL">>)
      ELSE IF else.kind = "if" THEN FormatIfChain(Say(then, <<"}", "else">>), else)
      ELSE Braces(then, <<"}", "else">>, body)

FormatForC_post(st, s) ==
  LET k(i) == s.kids[i]
      cond == IF k(2).kind = "none" THEN <<>> ELSE FormatExpr(k(2))
      parts == FormatStmtInline(k(1)) \o <<";">> \o cond \o <<";">> \o FormatStmtInline(k(3))
  IN  IF k(3).kind = "none" THEN Braces(st, <<"for">>, k(4))
      ELSE Braces(st, <<"for">> \o parts, k(4))
FormatForC(st, s) ==
  LET k(i) == s.kids[i]
      cond == IF k(2).kind = "none" THEN <<>> ELSE FormatExpr(k(2))
      parts == FormatStmtInline(k(1)) \o <<";">> \o cond \o <<";">> \o FormatStmtInline(k(3))
  IN  IF \A i \in 1..3 : k(i).kind = "none" THEN Braces(st, <<"for">>, k(4))
      ELSE Braces(st, <<"for">> \o parts, k(4))

FormatArm(st, arm) ==
  LET ps == arm.kids[1].kids
      head == IF Len(ps) = 1 /\ ps[1].kind = "default" THEN <<"default">>
              ELSE <<"case">> \o Commas(Each(ps, FormatPattern))
  IN  FormatBlockContents(Say(EmitCommentsBefore(st, arm.first), head \o <<":", "NL">>), arm.kids[2])

FormatSelectCase(st, c) ==
  LET h == c.kids[1]
      head == CASE h.kind = "default"  -> <<"default">>
                [] h.kind = "recv"     -> <<"case">> \o CommaNames(h.words)
                                          \o (IF h.words = <<>> THEN <<>> ELSE <<":=">>) \o <<"<-">> \o FormatExpr(h.kids[1])
                [] h.kind = "sendcase" -> <<"case">> \o FormatExpr(h.kids[1]) \o <<"<-">> \o FormatExpr(h.kids[2])
  IN  FormatBlockContents(Say(EmitCommentsBefore(st, c.first), head \o <<":", "NL">>), c.kids[2])

FormatTry(st, s) ==
  LET head == FormatStmtInline(s.kids[1]) \o <<"?">> \o s.words
  IN  IF s.kids[2].kind = "none" THEN EndLine(Say(st, head), s.first) ELSE Braces(st, head, s.kids[2])

FormatStmt(st, s) ==
  LET k(i) == s.kids[i]
  IN  CASE s.kind \in {"break", "continue"} -> Say(st, <<s.kind, "NL">>)
        [] s.kind = "for"      -> Braces(st, <<"for">> \o FormatExpr(k(1)), k(2))
        [] s.kind = "forc"     -> FormatForC(st, s)
        [] s.kind = "forrange" -> Braces(st, <<"for">> \o CommaNames(s.words) \o <<":=", "range">> \o FormatExpr(k(1)), k(2))
        [] s.kind = "if"       -> FormatIfChain(st, s)
        [] s.kind = "match"    ->
             Say(FoldLeft(FormatArm, Say(st, <<"match">> \o (IF k(1).kind = "none" THEN <<>> ELSE FormatExpr(k(1))) \o <<"{", "NL">>),
                          k(2).kids), <<"}", "NL">>)
        [] s.kind = "select"   -> Say(FoldLeft(FormatSelectCase, Say(st, <<"select", "{", "NL">>), k(1).kids), <<"}", "NL">>)
        [] s.kind = "try"      -> FormatTry(st, s)
        [] s.kind = "typedecl" -> FormatTypeDecl(st, s)
        [] OTHER               -> FormatLineStmt(st, s)

(* Blank lines stay where there were some; comments go before the statement *)
(* they are above. *)
FormatBlockContents(st, block) ==
  LET Blank(s, from, to) == IF from > 0 /\ to > from + 1 THEN Say(s, <<"NL">>) ELSE s
      One(s, i) ==
        LET stmt  == block.kids[i]
            due   == SelectSeq(s.comments, LAMBDA c : c.line < stmt.first)
            above == Blank(s, IF i = 1 THEN 0 ELSE block.kids[i - 1].last,
                           IF due = <<>> THEN stmt.first ELSE due[1].line)
            below == Blank(EmitCommentsBefore(above, stmt.first),
                           IF due = <<>> THEN 0 ELSE Last(due).last, stmt.first)
        IN  FormatStmt(below, stmt)
  IN  EmitCommentsBefore(FoldLeft(One, st, [i \in DOMAIN block.kids |-> i]), block.last)

-----------------------------------------------------------------------------
(* Functions, constants, variables and imports. *)
FormatFuncDecl(st, f) ==
  LET k(i) == f.kids[i]
      head == Say(EmitDoc(EmitAttributes(st, k(1)), k(2)), <<"func">>)
      recv == IF k(3).kids = <<>> THEN <<>> ELSE <<"(">> \o FormatField(k(3).kids[1]) \o <<")">>
  IN  Braces(head, recv \o f.words \o FormatGenerics(k(4)) \o <<"(">> \o FormatParamsGrouped(k(5).kids) \o <<")">>
                   \o FormatReturns(k(6).kids, FormatParamsGrouped), k(7))

(* A constant or a variable, alone or one line of a group. *)
FormatValue(st, d, keyword) ==
  LET value == IF d.kids[3].kind = "none" THEN <<>> ELSE <<"=">> \o FormatExpr(d.kids[3])
  IN  EndLine(Say(EmitDoc(st, d.kids[1]), keyword \o d.words \o OptType(d.kids[2]) \o value), d.first)

FormatGroup(st, keyword, ds) ==
  Say(FoldLeft(LAMBDA s, d : FormatValue(EmitCommentsBefore(s, d.first), d, <<>>),
               Say(st, <<keyword, "(", "NL">>), ds), <<")", "NL">>)

FormatDecl(st, d) ==
  CASE d.kind = "constdecl"  -> FormatValue(st, d, <<"const">>)
    [] d.kind = "vardecl"    -> FormatValue(st, d, <<"var">>)
    [] d.kind = "constgroup" -> FormatGroup(st, "const", d.kids)
    [] d.kind = "vargroup"   -> FormatGroup(st, "var", d.kids)
    [] d.kind = "typedecl"   -> FormatTypeDecl(st, d)
    [] d.kind = "funcdecl"   -> FormatFuncDecl(st, d)

(* Decl::span, whose line a group takes from its first member: there is     *)
(* none in an empty one, and the program stops there. *)
EmptyGroup(d) == d.kind \in {"constgroup", "vargroup"} /\ d.kids = <<>>
Panics(file)  == \E i \in DOMAIN file.kids[2].kids : EmptyGroup(file.kids[2].kids[i])
DeclLine(d)   == IF d.kind \in {"constgroup", "vargroup"} THEN d.kids[1].first ELSE d.first
HasDoc(d)     == d.kind \in {"constdecl", "typedecl", "funcdecl"}
                 /\ d.kids[IF d.kind = "constdecl" THEN 1 ELSE 2].kind = "doc"

FormatImports(st, is) ==
  LET Row(s, i) ==
        LET gap == IF i > 1 /\ is[i].first > is[i - 1].first + 1 THEN Say(s, <<"NL">>) ELSE s
        IN  EndLine(Say(EmitCommentsBefore(gap, is[i].first), is[i].words), is[i].first)
  IN  IF is = <<>> THEN st
      ELSE IF Len(is) = 1
      THEN Say(EmitCommentsBefore(st, is[1].first), <<"import">> \o is[1].words \o <<"NL", "NL">>)
      ELSE Say(FoldLeft(Row, Say(st, <<"import", "(", "NL">>), [i \in DOMAIN is |-> i]), <<")", "NL", "NL">>)

RECURSIVE TrimBlankLines(_)
TrimBlankLines(out) ==
  IF SubSeq(out, Len(out) - 1, Len(out)) = <<"NL", "NL">> THEN TrimBlankLines(Front(out)) ELSE out

(* format_file: what a file with this tree and these comments becomes, when *)
(* Panics does not hold of it. *)
FormatFile(file, comments) ==
  LET mine  == SelectSeq(comments, LAMBDA c : c.line < file.first)
      rest  == SelectSeq(comments, LAMBDA c : c.line >= file.first)
      start == [out |-> EachOnItsLine(mine) \o <<"package">> \o file.words \o <<"NL", "NL">>,
                comments |-> rest, noted |-> rest]
      Decl(s, d) == Say(FormatDecl(EmitCommentsBeforeDecl(s, DeclLine(d), HasDoc(d)), d), <<"NL">>)
  IN  TrimBlankLines(EmitRemainingComments(
        FoldLeft(Decl, FormatImports(start, file.kids[1].kids), file.kids[2].kids)).out)

Parsed(text) == ParseFile(Lex(text))
=============================================================================
