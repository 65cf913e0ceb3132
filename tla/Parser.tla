------------------------------- MODULE Parser -------------------------------
(* The recursive descent parser of src/src/syntax/parser (ty.rs, item.rs,   *)
(* expr.rs, pat.rs and stmt.rs) on the words of Tokens: types and type      *)
(* declarations, then expressions, patterns and statements.  The arguments  *)
(* of an attribute are expressions, so each part is within the other.  A    *)
(* type keeps in its own name only the NAMES of the types it is made of,    *)
(* and the types themselves beside it, as TypeAnnotation does.              *)
EXTENDS Tokens

RECURSIVE ParseExpr(_, _), ParseBinary(_, _, _), ParsePrimary(_, _), ParsePostfix(_, _),
          ParseBlock(_, _)

-----------------------------------------------------------------------------
(* Types. *)
RECURSIVE ParseType(_, _), ParseTypes(_, _, _)

TypeNode(nullable, name, args) == Node(IF nullable THEN "?type" ELSE "type", name, args)

(* `T, T, ...`, no trailing comma. *)
ParseTypes(ts, p, done) ==
  LET t == ParseType(ts, p)
      all == Append(done, t.node)
  IN  IF t.at # 0 /\ At(ts, t.at) = "," THEN ParseTypes(ts, t.at + 1, all)
      ELSE Got(t.at, List(all))

TypesUpTo(ts, p, close) ==
  IF At(ts, p) = close THEN Got(p + 1, List(<<>>))
  ELSE LET t == ParseTypes(ts, p, <<>>) IN Got(Eat(ts, t.at, close), t.node)

(* A type whose name is `prefix` and the name of its element. *)
ParseElement(ts, p, prefix, nullable) ==
  LET e == ParseType(ts, p)
  IN  Got(e.at, TypeNode(nullable, prefix \o e.node.words, <<e.node>>))

(* The names of types, with commas between them. *)
Names(types) == FoldLeft(LAMBDA acc, t : IF acc = <<>> THEN t.words ELSE acc \o <<",">> \o t.words,
                         <<>>, types)

ParseFuncType(ts, p, nullable) ==
  LET ps == TypesUpTo(ts, Eat(ts, p, "("), ")")
      rs == IF ps.at = 0 THEN Fail
            ELSE IF At(ts, ps.at) = "(" THEN TypesUpTo(ts, ps.at + 1, ")")
            ELSE IF At(ts, ps.at) \in {",", ")", "}", ";", "eof"} THEN Got(ps.at, List(<<>>))
            ELSE LET r == ParseType(ts, ps.at) IN Got(r.at, List(<<r.node>>))
      returns == IF Len(rs.node.kids) < 2 THEN Names(rs.node.kids)
                 ELSE <<"(">> \o Names(rs.node.kids) \o <<")">>
  IN  Got(rs.at, TypeNode(nullable, <<"func", "(">> \o Names(ps.node.kids) \o <<")">> \o returns,
                          ps.node.kids \o rs.node.kids))

(* `a, b T`: a node for each name, its type below it. *)
RECURSIVE FieldNames(_, _, _)
FieldNames(ts, p, names) ==
  IF At(ts, p) \notin Idents THEN <<0, names>>
  ELSE IF At(ts, p + 1) = "," THEN FieldNames(ts, p + 2, Append(names, At(ts, p)))
  ELSE <<p + 1, Append(names, At(ts, p))>>

NamesAndType(ts, p) ==
  LET ns == FieldNames(ts, p, <<>>)
      ty == ParseType(ts, ns[1])
      field(name) == Made(ts, p, ty.at, "field", <<name>>, <<ty.node>>).node
  IN  Got(ty.at, List([i \in DOMAIN ns[2] |-> field(ns[2][i])]))

(* parse_attribute, `[x]`, `[x.y]` or `[x{key: value, ...}]`, and           *)
(* parse_attributes: each perhaps on a line of its own.                     *)
RECURSIVE AttributeArgs(_, _, _), Attributes(_, _, _)
AttributeArgs(ts, p, done) ==
  LET v   == ParseExpr(ts, p + 2)
      q   == Skip(ts, v.at)
      all == Append(done, Node("argument", <<At(ts, p)>>, <<v.node>>))
  IN  IF At(ts, p) \in {"}", "eof"} THEN Got(Eat(ts, p, "}"), List(done))
      ELSE IF At(ts, p) \notin Idents \/ At(ts, p + 1) # ":" \/ q = 0 THEN Fail
      ELSE IF At(ts, q) = "," THEN AttributeArgs(ts, Skip(ts, q + 1), all)
      ELSE Got(Eat(ts, q, "}"), List(all))

ParseAttribute(ts, p) ==
  LET dotted == At(ts, p + 2) = "."
      name   == IF dotted THEN SubSeq(ts.tok, p + 1, p + 3) ELSE <<At(ts, p + 1)>>
      q      == p + 1 + Len(name)
      args   == IF At(ts, q) = "{" THEN AttributeArgs(ts, Skip(ts, q + 1), <<>>) ELSE Got(q, List(<<>>))
  IN  IF dotted /\ At(ts, p + 3) \notin Idents THEN Fail
      ELSE Got(Eat(ts, args.at, "]"), Node("attribute", name, args.node.kids))

Attributes(ts, p, done) ==
  LET q == Skip(ts, p)
      a == ParseAttribute(ts, q)
  IN  IF q = 0 \/ At(ts, q) # "[" \/ At(ts, q + 1) \notin Idents THEN Got(q, List(done))
      ELSE Attributes(ts, a.at, Append(done, a.node))

(* parse_fields: `[x] const a, b T tag`; all but the names is common to the *)
(* fields, and the line of a field is that of its name.                     *)
ParseFields(ts, p) ==
  LET as    == Attributes(ts, p, <<>>)
      const == At(ts, as.at) = "const"
      g     == NamesAndType(ts, IF const THEN as.at + 1 ELSE as.at)
      tag   == IF At(ts, g.at) = Raw THEN Node("tag", <<Raw>>, <<>>) ELSE NoNode
      field(f) == [f EXCEPT !.kind = IF const THEN "constfield" ELSE "field",
                            !.kids = @ \o <<as.node, tag>>]
  IN  IF as.at = 0 THEN Fail
      ELSE Got(EatIf(ts, g.at, Raw), List([i \in DOMAIN g.node.kids |-> field(g.node.kids[i])]))

(* `struct { a, b T; ... }`: only a text remains, of the names and types of *)
(* the fields.  A field's type is its name there, with the `?` but without  *)
(* its arguments; attributes, `const` and tag have been read and are gone.  *)
RECURSIVE StructTypeFields(_, _, _)
StructTypeFields(ts, p, done) ==
  IF p = 0 \/ At(ts, p) \in {"}", "eof"}
  THEN Got(Eat(ts, p, "}"), TypeNode(FALSE, <<"struct", "{">> \o done \o <<"}">>, <<>>))
  ELSE LET fs   == ParseFields(ts, p)
           ty   == fs.node.kids[1].kids[1]
           text == Names(fs.node.kids) \o (IF ty.kind = "?type" THEN <<"?">> ELSE <<>>)
                     \o ty.words
       IN  IF fs.at = 0 THEN Fail
           ELSE StructTypeFields(ts, Skip(ts, fs.at),
                                 IF done = <<>> THEN text ELSE done \o <<";">> \o text)

(* A name, `pkg.Name`, `map[K]V`, `chan T` or `Name[T, ...]`. *)
RECURSIVE Qualified(_, _, _)
Qualified(ts, p, name) ==
  IF At(ts, p) # "." THEN <<p, name>>
  ELSE IF At(ts, p + 1) \in Idents THEN Qualified(ts, p + 2, name \o <<".", At(ts, p + 1)>>)
  ELSE <<0, name>>

ParseMapType(ts, p, nullable) ==
  LET k == ParseType(ts, Eat(ts, p, "["))
      t == ParseType(ts, Eat(ts, k.at, "]"))
  IN  Got(t.at, TypeNode(nullable, <<"map", "[">> \o k.node.words \o <<"]">> \o t.node.words,
                         <<k.node, t.node>>))

ParseNamedType(ts, p, nullable) ==
  LET q    == Qualified(ts, p + 1, <<At(ts, p)>>)
      args == TypesUpTo(ts, Eat(ts, q[1], "["), "]")
  IN  IF At(ts, p) \notin Idents \/ q[1] = 0 THEN Fail
      ELSE IF q[2] = <<"map">> THEN ParseMapType(ts, q[1], nullable)
      ELSE IF q[2] = <<"chan">> THEN ParseElement(ts, q[1], <<"chan">>, nullable)
      ELSE IF At(ts, q[1]) # "[" THEN Got(q[1], TypeNode(nullable, q[2], <<>>))
      ELSE Got(args.at, TypeNode(nullable, q[2], args.node.kids))

ParseType(ts, p) ==
  LET nullable == At(ts, p) = "?"
      q == IF nullable THEN p + 1 ELSE p
      w == At(ts, q)
  IN  IF p = 0 \/ (nullable /\ (w \in {"...", "struct"} \/ (w = "[" /\ At(ts, q + 1) # "]")))
      THEN Fail
      ELSE IF w = "..." THEN ParseElement(ts, q + 1, <<"...">>, FALSE)
      ELSE IF w = "["   THEN ParseElement(ts, Eat(ts, Seek(ts, q + 1, LAMBDA x : x = "]"), "]"),
                                          <<"[", "]">>, nullable)
      ELSE IF w = "*"   THEN ParseElement(ts, q + 1, <<"*">>, nullable)
      ELSE IF w = "struct" THEN StructTypeFields(ts, Skip(ts, Eat(ts, q + 1, "{")), <<>>)
      ELSE IF w = "func" THEN ParseFuncType(ts, q + 1, nullable)
      ELSE ParseNamedType(ts, q, nullable)

(* parse_return_list and parse_return_params: no result, one type, or a     *)
(* list in brackets.  A name with a comma after it may be a type or the     *)
(* first of several names, so it waits in `pending`; at the end of a list   *)
(* that ends with anything but a plain name, what still waits is forgotten. *)
Result(name, ty) == Node("field", name, <<ty>>)
Untyped(names)   == [i \in DOMAIN names |-> Result(<<>>, TypeNode(FALSE, <<names[i]>>, <<>>))]

RECURSIVE ReturnParams(_, _, _, _, _)
ReturnParams(ts, p, named, pending, done) ==
  LET w  == At(ts, p)
      ty == ParseType(ts, IF w \in Idents \ {"map", "chan"} THEN p + 1 ELSE p)
      More(at, nm, pend, all) ==
        IF At(ts, at) = "," THEN ReturnParams(ts, at + 1, nm, pend, all) ELSE Got(at, List(all))
  IN  CASE w \in {"map", "chan", "*", "[", "func", "?", "struct", "interface"} ->
             IF named = "yes" \/ ty.at = 0 THEN Fail
             ELSE More(ty.at, "no", pending, Append(done, Result(<<>>, ty.node)))
        [] w \in Idents \ {"map", "chan"} /\ At(ts, p + 1) = "," ->
             ReturnParams(ts, p + 2, named, Append(pending, w), done)
        [] w \in Idents \ {"map", "chan"} /\ At(ts, p + 1) = ")" ->
             IF named = "yes" THEN Fail ELSE Got(p + 1, List(done \o Untyped(Append(pending, w))))
        [] w \in Idents \ {"map", "chan"} /\ At(ts, p + 1) = "." ->
             IF named = "yes" \/ At(ts, p + 2) \notin Idents THEN Fail
             ELSE More(p + 3, "no", <<>>, done \o Untyped(pending) \o
                    <<Result(<<>>, TypeNode(FALSE, <<w, ".", At(ts, p + 2)>>, <<>>))>>)
        [] w \in Idents \ {"map", "chan"} /\ At(ts, p + 1) \notin {",", ")", "."} ->
             IF named = "no" \/ ty.at = 0 THEN Fail
             ELSE More(ty.at, "yes", <<>>, done \o [i \in 1..(Len(pending) + 1) |->
                    Result(<<Append(pending, w)[i]>>, ty.node)])
        [] OTHER -> Fail

ParseReturns(ts, p) ==
  LET l == ReturnParams(ts, p + 1, "unknown", <<>>, <<>>)
      t == ParseType(ts, p)
  IN  IF p = 0 THEN Fail
      ELSE IF At(ts, p) = "{" THEN Got(p, List(<<>>))
      ELSE IF At(ts, p) = "(" /\ At(ts, p + 1) = ")" THEN Got(p + 2, List(<<>>))
      ELSE IF At(ts, p) = "(" THEN Got(Eat(ts, l.at, ")"), l.node)
      ELSE Got(t.at, List(<<Result(<<>>, t.node)>>))

(* get_doc_comment: the comment that ends on the line right above a         *)
(* declaration, the one that ends right above that, and so on; of several   *)
(* that end on one line the first.                                          *)
RECURSIVE DocComments(_, _)
DocComments(comments, line) ==
  LET i == SelectInSeq(comments, LAMBDA c : c.last = line - 1)
  IN  IF i = 0 THEN <<>> ELSE Append(DocComments(comments, comments[i].line), comments[i])
Doc(ts, line) ==
  LET cs == DocComments(ts.comments, line)
  IN  IF cs = <<>> THEN NoNode ELSE Node("doc", [i \in DOMAIN cs |-> cs[i].text], <<>>)

RECURSIVE Params(_, _, _)
Params(ts, p, done) ==
  LET g == NamesAndType(ts, p)
      all == done \o g.node.kids
  IN  IF g.at # 0 /\ At(ts, g.at) = "," THEN Params(ts, g.at + 1, all) ELSE Got(g.at, List(all))
ParamList(ts, p) ==
  LET l == IF At(ts, p + 1) = ")" THEN Got(p + 1, List(<<>>)) ELSE Params(ts, Eat(ts, p, "("), <<>>)
  IN  IF At(ts, p) # "(" THEN Fail ELSE Got(Eat(ts, l.at, ")"), l.node)

(* parse_generics: [T any, U any] *)
RECURSIVE Generics(_, _, _)
Generics(ts, p, done) ==
  LET all == Append(done, Node("generic", <<At(ts, p), At(ts, p + 1)>>, <<>>))
  IN  IF At(ts, p) \notin Idents \/ At(ts, p + 1) \notin Idents THEN Fail
      ELSE IF At(ts, p + 2) = "," THEN Generics(ts, p + 3, all) ELSE Got(Eat(ts, p + 2, "]"), List(all))
GenericList(ts, p) == IF At(ts, p) # "[" THEN Got(p, List(<<>>))
                      ELSE IF At(ts, p + 1) = "]" THEN Got(p + 2, List(<<>>))
                      ELSE Generics(ts, p + 1, <<>>)

-----------------------------------------------------------------------------
(* The three kinds of members. *)
RECURSIVE Members(_, _, _, _)
Members(ts, p, Parse(_, _), done) ==
  LET m == Parse(ts, p)
  IN  IF p = 0 \/ At(ts, p) \in {"}", "eof"} THEN Got(Eat(ts, p, "}"), List(done))
      ELSE IF m.at = 0 THEN Fail
      ELSE Members(ts, Skip(ts, m.at), Parse, done \o m.node.kids)
Braced(ts, p, Parse(_, _)) == Members(ts, Skip(ts, Eat(ts, p, "{")), Parse, <<>>)

EnumVariant(ts, p) ==
  LET as   == Attributes(ts, p, <<>>)
      q    == as.at
      next == At(ts, q + 1)
      data == Braced(ts, IF next = "struct" THEN q + 2 ELSE q + 1, ParseFields)
      ty   == ParseType(ts, q + 1)
      Variant(at, kids) == Got(at, List(<<Made(ts, q, at, "variant", <<At(ts, q)>>, <<as.node>> \o kids).node>>))
  IN  IF q = 0 \/ At(ts, q) \notin Idents THEN Fail
      ELSE IF next \in {"struct", "{"} THEN Variant(data.at, <<data.node>>)
      ELSE IF next \in Idents \union {"[", "*"} THEN Variant(ty.at, <<ty.node>>)
      ELSE Variant(q + 1, <<>>)

InterfaceMethod(ts, p) ==
  LET ps == ParamList(ts, p + 1)
      ty == ParseType(ts, ps.at)
      rs == IF ps.at = 0 THEN Fail
            ELSE IF At(ts, ps.at) \in {"NL", "}", "eof"} THEN Got(ps.at, List(<<>>))
            ELSE IF At(ts, ps.at) = "(" THEN TypesUpTo(ts, ps.at + 1, ")")
            ELSE Got(ty.at, List(<<ty.node>>))
  IN  IF At(ts, p) \notin Idents THEN Fail
      ELSE Got(rs.at, List(<<Node("method", <<At(ts, p)>>, <<ps.node, rs.node>>)>>))

(* parse_type_kind, and a type declaration around it. *)
ParseTypeKind(ts, p) ==
  LET w  == At(ts, p)
      ms == Braced(ts, p + 1, LAMBDA t, q : IF w = "enum" THEN EnumVariant(t, q)
                                            ELSE IF w = "struct" THEN ParseFields(t, q)
                                            ELSE InterfaceMethod(t, q))
      ty == ParseType(ts, IF w = "=" THEN p + 1 ELSE p)
  IN  IF w \in {"enum", "struct", "interface"} THEN Got(ms.at, Node(w, <<>>, ms.node.kids))
      ELSE Got(ty.at, Node(IF w = "=" THEN "alias" ELSE "definition", <<>>, <<ty.node>>))

ParseTypeDecl(ts, p, attributes) ==
  LET gs    == GenericList(ts, p + 2)
      const == At(ts, gs.at) = "const"
      kind  == ParseTypeKind(ts, IF const THEN gs.at + 1 ELSE gs.at)
  IN  IF At(ts, p + 1) \notin Idents \/ gs.at = 0 THEN Fail
      ELSE Made(ts, p, kind.at, "typedecl", IF const THEN <<At(ts, p + 1), "const">> ELSE <<At(ts, p + 1)>>,
                <<attributes, Doc(ts, Line(ts, p)), gs.node, kind.node>>)

-----------------------------------------------------------------------------
(* Expressions. *)
Precedence(w) ==
  CASE w \in {"*", "/", "%", "<<", ">>", "&"}        -> 6
    [] w \in {"+", "-", "|", "^"}                    -> 5
    [] w \in {"==", "!=", "<", "<=", ">", ">="}      -> 4
    [] w = "&&" -> 3
    [] w = "||" -> 2
    [] OTHER    -> 0

RECURSIVE BinaryTail(_, _, _, _)
BinaryTail_right(ts, p, left, min) ==
  LET op    == At(ts, left.at)
      right == ParseBinary(ts, left.at + 1, Precedence(op))
  IN  IF left.at = 0 \/ Precedence(op) = 0 \/ Precedence(op) < min THEN left
      ELSE BinaryTail(ts, p, Made(ts, p, right.at, "binary", <<op>>,
                                  <<left.node, right.node>>), min)
BinaryTail(ts, p, left, min) ==
  LET op    == At(ts, left.at)
      right == ParseBinary(ts, left.at + 1, Precedence(op) + 1)
  IN  IF left.at = 0 \/ Precedence(op) = 0 \/ Precedence(op) < min THEN left
      ELSE BinaryTail(ts, p, Made(ts, p, right.at, "binary", <<op>>,
                                  <<left.node, right.node>>), min)

ParseBinary(ts, p, min) == BinaryTail(ts, p, ParsePostfix(ts, p), min)
ParseExpr(ts, p)        == ParseBinary(ts, p, 0)

(* What stands between brackets, after the opening one: values with commas, *)
(* each `name: value`, `value` or `value...`.  A line may end after a comma *)
(* and a comma may stand before the closing bracket; every caller refuses   *)
(* a value that ends its line without one.  `names` says whether a name may *)
(* stand before a value.  (parse_argument_list and the literals.)           *)
RECURSIVE Items(_, _, _, _, _)
Items(ts, p, close, names, done) ==
  LET named  == names /\ At(ts, p) \in Idents /\ At(ts, p + 1) = ":"
      value  == ParseExpr(ts, IF named THEN p + 2 ELSE p)
      spread == close = ")" /\ At(ts, value.at) = "..."
      after  == IF spread THEN value.at + 1 ELSE value.at
      words  == (IF named THEN <<At(ts, p), ":">> ELSE <<>>)
                \o (IF spread THEN <<"...">> ELSE <<>>)
      all    == Append(done, [Node("item", words, <<value.node>>) EXCEPT
                                !.first = value.node.first, !.last = value.node.last])
      next   == Skip(ts, after + 1)
  IN  IF At(ts, p) = close THEN Got(p + 1, List(done))
      ELSE IF value.at = 0 THEN Fail
      ELSE IF At(ts, after) # "," THEN Got(Eat(ts, after, close), List(all))
      ELSE Items(ts, next, close, names, all)

ItemsFrom(ts, p, close, names) == IF p = 0 THEN Fail ELSE Items(ts, Skip(ts, p), close, names, <<>>)

-----------------------------------------------------------------------------
(* What may follow an operand: an index, a slice or type arguments, a call, *)
(* a field, an assertion, the braces of a literal.                          *)

(* One type argument that could as well be a variable. *)
LooksLikeIndex(types) ==
  /\ Len(types) = 1
  /\ types[1].kids = <<>>
  /\ types[1].kind = "type"
  /\ types[1].words[1] \in Lower \union {"func", "struct"}
  /\ ~(Len(types[1].words) = 1 /\ types[1].words[1] \in BuiltinNames)

ParseIndex(ts, start, p, e) ==
  LET low  == IF At(ts, p + 1) = ":" THEN Got(p + 1, NoNode) ELSE ParseExpr(ts, p + 1)
      high == IF At(ts, low.at + 1) \in {"]", ":"} THEN Got(low.at + 1, NoNode)
              ELSE ParseExpr(ts, low.at + 1)
      cap  == IF At(ts, high.at) = ":" THEN ParseExpr(ts, high.at + 1) ELSE Got(high.at, NoNode)
  IN  IF low.at = 0 THEN Fail
      ELSE IF At(ts, low.at) = ":" /\ high.at = 0 THEN Fail
      ELSE IF At(ts, low.at) = ":"
           THEN Made(ts, start, Eat(ts, cap.at, "]"), "slice", <<>>,
                     <<e, low.node, high.node, cap.node>>)
      ELSE Made(ts, start, Eat(ts, low.at, "]"), "index", <<>>, <<e, low.node>>)

ParseBracket(ts, start, p, e) ==
  LET types == IF At(ts, p + 1) = "]" THEN Got(p + 1, List(<<>>)) ELSE ParseTypes(ts, p + 1, <<>>)
      close == Eat(ts, types.at, "]")
      args  == ItemsFrom(ts, close + 1, ")", TRUE)
  IN  IF close # 0 /\ At(ts, close) = "("
      THEN Made(ts, start, args.at, "call", <<>>, <<e, types.node, args.node>>)
      ELSE IF close # 0 /\ types.node.kids # <<>> /\ ~LooksLikeIndex(types.node.kids)
      THEN Made(ts, start, close, "typeinst", <<>>, <<e, types.node>>)
      ELSE ParseIndex(ts, start, p, e)

ParseDot(ts, start, p, e) ==
  LET ty == ParseType(ts, p + 2)
  IN  IF At(ts, p + 1) = "(" /\ At(ts, p + 2) = "!"
      THEN Made(ts, start, Eat(ts, Eat(ts, p + 3, "nil"), ")"), "nilassert", <<>>, <<e>>)
      ELSE IF At(ts, p + 1) = "("
      THEN Made(ts, start, Eat(ts, ty.at, ")"), "typeassert", <<>>, <<e, ty.node>>)
      ELSE IF At(ts, p + 1) \in Idents
      THEN Made(ts, start, p + 2, "field", <<At(ts, p + 1)>>, <<e>>)
      ELSE Fail

(* The type an operand names, if the braces after it can be a literal of it. *)
RECURSIVE NamedBy(_)
NamedBy(e) ==
  CASE e.kind = "ident"    -> TypeNode(FALSE, e.words, <<>>)
    [] e.kind = "field"    -> LET b == NamedBy(e.kids[1])
                              IN  [b EXCEPT !.words = @ \o <<".">> \o e.words]
    [] e.kind = "typeinst" -> LET b == NamedBy(e.kids[1])
                              IN  IF b.kind = "none" THEN b ELSE [b EXCEPT !.kids = e.kids[2].kids]
    [] OTHER               -> NoNode
CanNameType(e) == NamedBy(e).kind # "none"

(* The braces hold nothing, a named value, or a value and a comma with no   *)
(* assignment before the first `}`.                                         *)
IsStructLit(ts, p) ==
  LET q == IF At(ts, p + 1) = "NL" THEN p + 2 ELSE p + 1
      r == Skip(ts, p + 1)
      e == ParseExpr(ts, r)
  IN  \/ At(ts, q) = "}"
      \/ At(ts, q) \in Idents /\ At(ts, q + 1) = ":"
      \/ At(ts, r) = "}"
      \/ /\ e.at # 0
         /\ At(ts, e.at) = ","
         /\ At(ts, Seek(ts, e.at, LAMBDA w : w \in {"}", ":=", "="})) \notin {":=", "="}

RECURSIVE PostfixTail(_, _, _)
PostfixTail(ts, start, e) ==
  LET p     == e.at
      args  == ItemsFrom(ts, p + 1, ")", TRUE)
      items == ItemsFrom(ts, p + 1, "}", TRUE)
  IN  IF p = 0 THEN Fail
      ELSE IF At(ts, p) = "[" THEN PostfixTail(ts, start, ParseBracket(ts, start, p, e.node))
      ELSE IF At(ts, p) = "." THEN PostfixTail(ts, start, ParseDot(ts, start, p, e.node))
      ELSE IF At(ts, p) = "("
      THEN PostfixTail(ts, start, Made(ts, start, args.at, "call", <<>>,
                                       <<e.node, List(<<>>), args.node>>))
      ELSE IF At(ts, p) = "{" /\ CanNameType(e.node) /\ IsStructLit(ts, p)
      THEN PostfixTail(ts, start, Made(ts, start, items.at, "structlit", <<>>,
                                       <<NamedBy(e.node), items.node>>))
      ELSE e

(* parse_primary and what it reads after each first token. *)
UnaryOps == {"&", "*", "-", "!"}

ParseString(ts, p) ==
  CASE At(ts, p) = Plain -> Made(ts, p, p + 1, "string", <<Plain>>, <<>>)
    [] At(ts, p) = Brace -> Made(ts, p, p + 1, "string", <<Hole>>, <<>>)   \* `{{` has become `{`
    [] At(ts, p) = Hole  -> Made(ts, p, p + 1, "interp", <<>>, <<Node("ident", <<"a">>, <<>>)>>)

ParseMapLit(ts, p) ==
  LET ty == ParseNamedType(ts, p, FALSE)
      RECURSIVE Entries(_, _)
      Entries(q, done) ==
        LET k == ParseExpr(ts, q)
            v == ParseExpr(ts, Eat(ts, k.at, ":"))
            all == done \o <<k.node, v.node>>
        IN  IF At(ts, q) = "}" THEN Got(q + 1, List(done))
            ELSE IF v.at # 0 /\ At(ts, v.at) = "," THEN Entries(v.at + 1, all)
            ELSE Got(Eat(ts, v.at, "}"), List(all))
      open == Eat(ts, ty.at, "{")
      es == IF open = 0 THEN Fail ELSE Entries(open, <<>>)
  IN  Made(ts, p, es.at, "map", <<>>, <<ty.node, es.node>>)

(* make(T, n, ...) and new(T): a call with a type argument. *)
ParseMake(ts, p) ==
  LET ty == ParseType(ts, Eat(ts, p + 1, "("))
      RECURSIVE Sizes(_, _)
      Sizes(q, done) ==
        LET n == ParseExpr(ts, q + 1)
        IN  IF q # 0 /\ At(ts, q) = "," THEN Sizes(n.at, Append(done, Node("item", <<>>, <<n.node>>)))
            ELSE Got(Eat(ts, q, ")"), List(done))
      ns == IF At(ts, p) = "make" THEN Sizes(ty.at, <<>>) ELSE Got(Eat(ts, ty.at, ")"), List(<<>>))
  IN  Made(ts, p, ns.at, "call", <<>>,
           <<Node("ident", <<At(ts, p)>>, <<>>), List(<<ty.node>>), ns.node>>)

(* []T{...}, []T(...) and [n]T{...}: the size is read and dropped, and the  *)
(* literal then has the type of its element. *)
ParseArrayLit(ts, p) ==
  LET slice == At(ts, p + 1) = "]"
      elem  == ParseType(ts, Eat(ts, Seek(ts, p + 1, LAMBDA w : w = "]"), "]"))
      ty    == IF slice THEN TypeNode(FALSE, <<"[", "]">> \o elem.node.words, elem.node.kids)
               ELSE elem.node
      q     == Skip(ts, elem.at)
      items == ItemsFrom(ts, Eat(ts, q, "{"), "}", FALSE)
      args  == ItemsFrom(ts, q + 1, ")", TRUE)
  IN  IF elem.at = 0 THEN Fail
      ELSE IF slice /\ At(ts, q) = "("
      THEN Made(ts, p, args.at, "call", <<>>, <<Node("ident", ty.words, <<>>), List(<<>>), args.node>>)
      ELSE Made(ts, p, items.at, "array", <<>>, <<ty, items.node>>)

RECURSIVE StructFields(_, _, _)
StructFields(ts, p, done) ==
  LET fs == ParseFields(ts, p)
  IN  IF p = 0 \/ At(ts, p) \in {"}", "eof"} THEN Got(Eat(ts, p, "}"), List(done))
      ELSE IF fs.at = 0 THEN Fail
      ELSE StructFields(ts, IF At(ts, fs.at) = ";" THEN fs.at + 1 ELSE Skip(ts, fs.at), done \o fs.node.kids)

ParseAnonStruct(ts, p) ==
  LET defs == StructFields(ts, Skip(ts, Eat(ts, p + 1, "{")), <<>>)
      vals == ItemsFrom(ts, Eat(ts, Skip(ts, defs.at), "{"), "}", TRUE)
  IN  IF defs.at = 0 \/ \E i \in DOMAIN vals.node.kids : vals.node.kids[i].words = <<>> THEN Fail
      ELSE Made(ts, p, vals.at, "anonstruct", <<>>, <<defs.node, vals.node>>)

ParseFuncLit(ts, p) ==
  LET RECURSIVE LitParams(_, _)
      LitParams(q, done) ==
        LET ty == ParseType(ts, q + 1)
            all == Append(done, Node("field", <<At(ts, q)>>, <<ty.node>>))
        IN  IF At(ts, q) \notin Idents \/ ty.at = 0 THEN Fail
            ELSE IF At(ts, ty.at) = "," THEN LitParams(ty.at + 1, all)
            ELSE Got(Eat(ts, ty.at, ")"), List(all))
      open == Eat(ts, p + 1, "(")
      ps == IF At(ts, open) = ")" THEN Got(open + 1, List(<<>>)) ELSE LitParams(open, <<>>)
      rs == ParseReturns(ts, ps.at)
      body == ParseBlock(ts, rs.at)
  IN  Made(ts, p, body.at, "func", <<>>, <<ps.node, rs.node, body.node>>)

(* `{...}` with the type left to the context: names may not be followed by *)
(* a value without one. *)
ParseImplicit(ts, p) ==
  LET vals == ItemsFrom(ts, p + 1, "}", TRUE)
  IN  IF \E i, j \in DOMAIN vals.node.kids :
           i < j /\ vals.node.kids[i].words # <<>> /\ vals.node.kids[j].words = <<>>
      THEN Fail
      ELSE Made(ts, p, vals.at, "structlit", <<>>, <<NoNode, vals.node>>)

ParsePrimary(ts, p) ==
  LET w       == At(ts, p)
      operand == ParsePostfix(ts, p + 1)
      recv    == ParsePrimary(ts, p + 1)
      inner   == ParseExpr(ts, p + 1)
  IN  IF p = 0 THEN Fail
      ELSE IF w \in UnaryOps THEN Made(ts, p, operand.at, "unary", <<w>>, <<operand.node>>)
      ELSE IF w = "<-"        THEN Made(ts, p, recv.at, "unary", <<w>>, <<recv.node>>)
      ELSE IF w \in Ints \union {Raw, "nil", "true"} THEN Made(ts, p, p + 1, "lit", <<w>>, <<>>)
      ELSE IF w \in Strings   THEN ParseString(ts, p)
      ELSE IF w = "map"       THEN ParseMapLit(ts, p)
      ELSE IF w \in {"make", "new"} THEN ParseMake(ts, p)
      ELSE IF w \in Idents \union {"_"} THEN Made(ts, p, p + 1, "ident", <<w>>, <<>>)
      ELSE IF w = "("         THEN Made(ts, p, Eat(ts, inner.at, ")"), "paren", <<>>, <<inner.node>>)
      ELSE IF w = "["         THEN ParseArrayLit(ts, p)
      ELSE IF w = "struct"    THEN ParseAnonStruct(ts, p)
      ELSE IF w = "func"      THEN ParseFuncLit(ts, p)
      ELSE IF w = "{"         THEN ParseImplicit(ts, p)
      ELSE Fail

ParsePostfix(ts, p) == PostfixTail(ts, p, ParsePrimary(ts, p))

-----------------------------------------------------------------------------
(* Patterns of a match arm. *)
RECURSIVE PatternFields(_, _, _)
PatternFields(ts, p, done) ==
  LET value == At(ts, p + 2)
      bound == At(ts, p + 1) = ":"
      after == IF bound THEN p + 3 ELSE p + 1
      all   == Append(done, Node("fieldpattern", <<At(ts, p), IF bound THEN value ELSE At(ts, p)>>, <<>>))
  IN  IF At(ts, p) = "..." THEN Got(Eat(ts, p + 1, "}"), List(Append(done, Node("rest", <<>>, <<>>))))
      ELSE IF \/ At(ts, p) \notin Idents
              \/ bound /\ value \notin Idents \union Ints \union Strings \union {"true"}
      THEN Fail
      ELSE IF At(ts, after) = "," THEN PatternFields(ts, after + 1, all)
      ELSE Got(Eat(ts, after, "}"), List(all))

ParsePattern(ts, p) ==
  LET w    == At(ts, p)
      args == IF At(ts, p + 1) = "[" THEN ParseTypes(ts, p + 2, <<>>) ELSE Got(p, List(<<>>))
      head == Qualified(ts, IF At(ts, p + 1) = "[" THEN Eat(ts, args.at, "]") ELSE p + 1, <<w>>)
      q    == head[1]
      fields == IF At(ts, q + 1) = "}" THEN Got(q + 2, List(<<>>)) ELSE PatternFields(ts, q + 1, <<>>)
  IN  IF w = "_" THEN Made(ts, p, p + 1, "default", <<>>, <<>>)
      ELSE IF w \in Ints \union Strings \union {"true", "nil"}
      THEN Made(ts, p, p + 1, "literal", <<w>>, <<>>)
      ELSE IF w \notin Idents \/ args.at = 0 \/ q = 0 THEN Fail
      ELSE IF At(ts, q) = "("
      THEN Made(ts, p, IF At(ts, q + 1) \in Idents THEN Eat(ts, q + 2, ")") ELSE 0, "destructor",
                head[2] \o <<At(ts, q + 1)>>, <<args.node>>)
      ELSE IF At(ts, q) = "{"
      THEN Made(ts, p, fields.at, "structpattern", head[2], <<args.node, fields.node>>)
      ELSE Made(ts, p, q, "variantpattern", head[2], <<args.node>>)

RECURSIVE ParsePatterns(_, _, _, _)
ParsePatterns(ts, p, guards, done) ==
  LET g == ParseExpr(ts, p)
      one == IF guards THEN Made(ts, p, g.at, "guard", <<>>, <<g.node>>) ELSE ParsePattern(ts, p)
      all == Append(done, one.node)
  IN  IF one.at = 0 THEN Fail
      ELSE IF At(ts, one.at) = "," THEN ParsePatterns(ts, one.at + 1, guards, all)
      ELSE Got(Eat(ts, one.at, ":"), List(all))

-----------------------------------------------------------------------------
(* Statements. *)
RECURSIVE ParseStmt(_, _), ParseStmtInner(_, _), ParseStmts(_, _, _, _)

(* Statements up to one of the words `stop`; nothing need stand between two. *)
ParseStmts(ts, p, stop, done) ==
  IF p = 0 \/ At(ts, p) \in stop \union {"}", "eof"} THEN Got(p, List(done))
  ELSE LET s == ParseStmt(ts, p)
       IN  IF s.at = 0 THEN Fail ELSE ParseStmts(ts, Skip(ts, s.at), stop, Append(done, s.node))

ParseBlock(ts, p) ==
  LET body == ParseStmts(ts, Skip(ts, Eat(ts, p, "{")), {}, <<>>)
  IN  Made(ts, p, Eat(ts, body.at, "}"), "block", <<>>, body.node.kids)

(* The body of a match arm or a select case: its block spans its statements. *)
ParseArmBody(ts, from, p, kind, words, kids) ==
  LET q    == Skip(ts, p)
      body == ParseStmts(ts, q, {"case", "default"}, <<>>)
      last == IF body.node.kids = <<>> THEN Line(ts, q) ELSE body.node.kids[Len(body.node.kids)].last
      block == [Node("block", <<>>, body.node.kids) EXCEPT !.last = last]
  IN  IF p = 0 \/ body.at = 0 THEN Fail
      ELSE Got(body.at, [Node(kind, words, Append(kids, block)) EXCEPT
                           !.first = Line(ts, from), !.last = last])

(* expr, expr, ... *)
RECURSIVE ParseExprs(_, _, _)
ParseExprs(ts, p, done) ==
  LET e == ParseExpr(ts, p)
  IN  IF e.at # 0 /\ At(ts, e.at) = "," THEN ParseExprs(ts, e.at + 1, Append(done, e.node))
      ELSE Got(e.at, List(Append(done, e.node)))

(* One value, or as many as there are targets. *)
Values(ts, p, targets, one) ==
  LET vs == ParseExprs(ts, p, <<>>)
      n  == Len(vs.node.kids)
  IN  IF n = targets \/ (one /\ n = 1) THEN vs ELSE Fail

AllIdents(nodes)  == \A i \in DOMAIN nodes : nodes[i].kind = "ident"
IdentWords(nodes) == [i \in DOMAIN nodes |-> nodes[i].words[1]]
AssignOps == {"+=", "-="}

(* A statement that begins with an expression. *)
ParseSimpleStmt(ts, p) ==
  LET first == ParseExpr(ts, p)
      op    == At(ts, first.at)
      value == ParseExpr(ts, first.at + 1)
      named == At(ts, p) \in Idents \union {"_"}
      all   == ParseExprs(ts, p, <<>>)
      xs    == all.node.kids
      vs    == Values(ts, all.at + 1, Len(xs), TRUE)
  IN  CASE first.at = 0 -> Fail
        [] first.at # 0 /\ op = "," /\ named ->
             IF all.at = 0 THEN Fail
             ELSE IF At(ts, all.at) = ":=" /\ AllIdents(xs)
             THEN Made(ts, p, vs.at, "multidecl", IdentWords(xs), vs.node.kids)
             ELSE IF At(ts, all.at) = "="
             THEN Made(ts, p, vs.at, "multiassign", <<>>, <<all.node, vs.node>>)
             ELSE Fail
        [] first.at # 0 /\ op = ":=" /\ named ->
             IF first.node.kind # "ident" THEN Fail
             ELSE Made(ts, p, value.at, "decl", first.node.words, <<value.node>>)
        [] first.at # 0 /\ op = "=" ->
             Made(ts, p, value.at, "assign", <<>>, <<first.node, value.node>>)
        [] first.at # 0 /\ op \in AssignOps ->
             Made(ts, p, value.at, "compound", <<op>>, <<first.node, value.node>>)
        [] first.at # 0 /\ op \in {"++", "--"} ->
             Made(ts, p, first.at + 1, "incdec", <<op>>, <<first.node>>)
        [] first.at # 0 /\ op = "<-" ->
             Made(ts, p, value.at, "send", <<>>, <<first.node, value.node>>)
        [] OTHER -> Made(ts, p, first.at, "expr", <<>>, <<first.node>>)

(* var and const, with one name or several: `var a, b T = x, y`. *)
ParseVarStmt(ts, p) ==
  LET const == At(ts, p) = "const"
      ns    == FieldNames(ts, p + 1, <<>>)
      typed == At(ts, ns[1]) \in Idents \union {"[", "*"} \union (IF const THEN {} ELSE {"?"})
      ty    == IF typed THEN ParseType(ts, ns[1]) ELSE Got(ns[1], NoNode)
      vs    == Values(ts, ty.at + 1, Len(ns[2]), ~const)
      bare  == typed /\ ~const /\ At(ts, ty.at) # "="
  IN  IF ty.at = 0 \/ (~bare /\ At(ts, ty.at) # "=") THEN Fail
      ELSE IF bare THEN Made(ts, p, ty.at, "var", ns[2], <<ty.node, List(<<>>)>>)
      ELSE Made(ts, p, vs.at, At(ts, p), ns[2], <<ty.node, vs.node>>)

(* for: `a, b := range x`, nothing, three parts, or a condition. *)
ParseFor(ts, p) ==
  LET var   == Idents \union {"_"}
      two   == At(ts, p + 2) = "," /\ At(ts, p + 3) \in var
      q     == IF two THEN p + 4 ELSE p + 2
      range == At(ts, p + 1) \in var /\ At(ts, q) = ":=" /\ At(ts, q + 1) = "range"
      coll  == ParseExpr(ts, q + 2)
      never == At(ts, p + 1) = "{"
      init  == ParseStmtInner(ts, p + 1)
      parts == init.at # 0 /\ At(ts, init.at) = ";"
      cond  == IF At(ts, init.at + 1) = ";" THEN Got(init.at + 1, NoNode) ELSE ParseExpr(ts, init.at + 1)
      semi  == Eat(ts, cond.at, ";")
      post  == IF At(ts, semi) = "{" THEN Got(semi, NoNode) ELSE ParseStmtInner(ts, semi)
      while == IF init.at = 0 THEN Fail ELSE ParseExpr(ts, p + 1)
      body  == ParseBlock(ts, IF range THEN coll.at ELSE IF never THEN p + 1
                              ELSE IF parts THEN post.at ELSE while.at)
  IN  IF range
      THEN Made(ts, p, body.at, "forrange",
                IF two THEN <<At(ts, p + 1), At(ts, p + 3)>> ELSE <<At(ts, p + 1)>>, <<coll.node, body.node>>)
      ELSE IF never THEN Made(ts, p, body.at, "forc", <<>>, <<NoNode, NoNode, NoNode, body.node>>)
      ELSE IF parts THEN Made(ts, p, body.at, "forc", <<>>, <<init.node, cond.node, post.node, body.node>>)
      ELSE Made(ts, p, body.at, "for", <<>>, <<while.node, body.node>>)

(* if, with an init statement or a type assertion as the condition, which   *)
(* then means that the name is not nil.  `else if` holds the statement,     *)
(* `else {` a block. *)
ParseIf(ts, p) ==
  LET head   == ParseExprs(ts, p + 1, <<>>)
      names  == head.node.kids
      init   == head.at # 0 /\ AllIdents(names) /\ At(ts, head.at) = ":="
      vs     == ParseExprs(ts, head.at + 1, <<>>)
      short  == Len(vs.node.kids) = 1 /\ vs.node.kids[1].kind = "typeassert" /\ At(ts, vs.at) = "{"
      notNil == Node("binary", <<"!=">>, <<Node("ident", names[1].words, <<>>), Node("lit", <<"nil">>, <<>>)>>)
      start  == Made(ts, p, vs.at, IF Len(names) = 1 /\ Len(vs.node.kids) = 1 THEN "decl" ELSE "multidecl",
                     IdentWords(names), vs.node.kids)
      cond   == IF ~init THEN ParseExpr(ts, p + 1)
                ELSE IF vs.at # 0 /\ At(ts, vs.at) = ";" THEN ParseExpr(ts, vs.at + 1)
                ELSE IF short THEN Got(vs.at, notNil) ELSE Fail
      then   == ParseBlock(ts, cond.at)
      else   == IF then.at = 0 \/ At(ts, then.at) # "else" THEN Got(then.at, NoNode)
                ELSE IF At(ts, then.at + 1) = "if" THEN ParseStmt(ts, then.at + 1)
                ELSE ParseBlock(ts, then.at + 1)
  IN  Made(ts, p, else.at, "if", <<>>,
           <<IF init THEN start.node ELSE NoNode, cond.node, then.node, else.node>>)

(* match and its arms. *)
ParseMatch(ts, p) ==
  LET guards == At(ts, p + 1) = "{"
      scrut  == IF guards THEN Got(p + 1, NoNode) ELSE ParseExpr(ts, p + 1)
      RECURSIVE Arms(_, _)
      Arms(q, done) ==
        LET ps  == IF At(ts, q) = "default" THEN Got(Eat(ts, q + 1, ":"), List(<<Node("default", <<>>, <<>>)>>))
                   ELSE IF At(ts, q) = "case" THEN ParsePatterns(ts, q + 1, guards, <<>>) ELSE Fail
            arm == ParseArmBody(ts, IF At(ts, q) = "case" THEN q + 1 ELSE q, ps.at, "arm", <<>>, <<ps.node>>)
        IN  IF q = 0 \/ At(ts, q) \in {"}", "eof"} THEN Got(Eat(ts, q, "}"), List(done))
            ELSE IF arm.at = 0 THEN Fail ELSE Arms(arm.at, Append(done, arm.node))
      arms == Arms(Skip(ts, Eat(ts, scrut.at, "{")), <<>>)
  IN  Made(ts, p, arms.at, "match", <<>>, <<scrut.node, arms.node>>)

(* The head of a select case: `<-c`, `c <- v`, `v := <-c`, `v, ok := <-c`. *)
ParseSelectHead_first(ts, p) ==
  LET recv  == ParseExpr(ts, p + 1)
      first == ParseExpr(ts, p)
      value == ParseExpr(ts, first.at + 1)
      two   == At(ts, first.at) = "," /\ At(ts, first.at + 1) \in Idents
      q     == IF two THEN first.at + 2 ELSE first.at
      from  == ParseExpr(ts, Eat(ts, Eat(ts, q, ":="), "<-"))
  IN  IF At(ts, p) = "<-" THEN Made(ts, p, Eat(ts, recv.at, ":"), "recv", <<>>, <<recv.node>>)
      ELSE IF first.at = 0 THEN Fail
      ELSE IF At(ts, first.at) = "<-"
      THEN Made(ts, p, Eat(ts, value.at, ":"), "sendcase", <<>>, <<first.node, value.node>>)
      ELSE IF first.node.kind # "ident" THEN Fail
      ELSE Made(ts, p, Eat(ts, from.at, ":"), "recv",
                first.node.words, <<from.node>>)
ParseSelectHead(ts, p) ==
  LET recv  == ParseExpr(ts, p + 1)
      first == ParseExpr(ts, p)
      value == ParseExpr(ts, first.at + 1)
      two   == At(ts, first.at) = "," /\ At(ts, first.at + 1) \in Idents
      q     == IF two THEN first.at + 2 ELSE first.at
      from  == ParseExpr(ts, Eat(ts, Eat(ts, q, ":="), "<-"))
  IN  IF At(ts, p) = "<-" THEN Made(ts, p, Eat(ts, recv.at, ":"), "recv", <<>>, <<recv.node>>)
      ELSE IF first.at = 0 THEN Fail
      ELSE IF At(ts, first.at) = "<-"
      THEN Made(ts, p, Eat(ts, value.at, ":"), "sendcase", <<>>, <<first.node, value.node>>)
      ELSE IF first.node.kind # "ident" THEN Fail
      ELSE Made(ts, p, Eat(ts, from.at, ":"), "recv",
                first.node.words \o (IF two THEN <<At(ts, first.at + 1)>> ELSE <<>>), <<from.node>>)

ParseSelect(ts, p) ==
  LET RECURSIVE Cases(_, _)
      Cases(q, done) ==
        LET head == IF At(ts, q) = "default" THEN Got(Eat(ts, q + 1, ":"), Node("default", <<>>, <<>>))
                    ELSE IF At(ts, q) = "case" THEN ParseSelectHead(ts, q + 1) ELSE Fail
            case == ParseArmBody(ts, q, head.at, "case", <<>>, <<head.node>>)
        IN  IF q = 0 \/ At(ts, q) \in {"}", "eof"} THEN Got(Eat(ts, q, "}"), List(done))
            ELSE IF case.at = 0 THEN Fail ELSE Cases(case.at, Append(done, case.node))
      cases == Cases(Skip(ts, Eat(ts, p + 1, "{")), <<>>)
  IN  Made(ts, p, cases.at, "select", <<>>, <<cases.node>>)

ParseReturn(ts, p) ==
  LET vs == IF At(ts, p + 1) \in {"}", "NL", ";", "eof"} THEN Got(p + 1, List(<<>>))
            ELSE ParseExprs(ts, p + 1, <<>>)
  IN  Made(ts, p, vs.at, "return", <<>>, vs.node.kids)

ParseStmtInner(ts, p) ==
  LET w == At(ts, p)
      e == ParseExpr(ts, p + 1)
      b == ParseBlock(ts, p)
  IN  CASE p = 0                   -> Fail
        [] p # 0 /\ w \in {"var", "const"} -> ParseVarStmt(ts, p)
        [] p # 0 /\ w = "{"        -> Made(ts, p, b.at, "expr", <<>>, <<b.node>>)
        [] p # 0 /\ w = "type"     -> ParseTypeDecl(ts, p, List(<<>>))
        [] p # 0 /\ w = "for"      -> ParseFor(ts, p)
        [] p # 0 /\ w = "if"       -> ParseIf(ts, p)
        [] p # 0 /\ w = "return"   -> ParseReturn(ts, p)
        [] p # 0 /\ w = "match"    -> ParseMatch(ts, p)
        [] p # 0 /\ w = "select"   -> ParseSelect(ts, p)
        [] p # 0 /\ w \in {"go", "defer"} -> Made(ts, p, e.at, w, <<>>, <<e.node>>)
        [] p # 0 /\ w \in {"break", "continue"} -> Made(ts, p, p + 1, w, <<>>, <<>>)
        [] OTHER -> ParseSimpleStmt(ts, p)

(* A statement and the `?` that may follow it, with the name of the error   *)
(* and the block that handles it.                                           *)
ParseStmt(ts, p) ==
  LET s     == ParseStmtInner(ts, p)
      q     == s.at + 1
      named == At(ts, q) \in Idents /\ At(ts, Seek(ts, q + 1, LAMBDA w : w # "NL")) = "{"
      h     == IF At(ts, q) = "{" THEN ParseBlock(ts, q)
               ELSE IF named THEN ParseBlock(ts, q + 1) ELSE Got(q, NoNode)
  IN  IF s.at = 0 \/ At(ts, s.at) # "?" THEN s
      ELSE Made(ts, p, h.at, "try", IF named THEN <<At(ts, q)>> ELSE <<>>, <<s.node, h.node>>)
=============================================================================
