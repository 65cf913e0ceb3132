----------------------------- MODULE FileParser -----------------------------
(* Declarations and whole files: the rest of src/src/syntax/parser/item.rs. *)
EXTENDS Parser

(* A function: its receiver, name, parameters, results and body.  Its first *)
(* line is that of `func`, below its attributes.                            *)
ParseFuncDecl(ts, p, attributes) ==
  LET recv == IF At(ts, p + 1) = "(" THEN NamesAndType(ts, p + 2) ELSE Got(p + 1, NoNode)
      q    == IF At(ts, p + 1) = "(" THEN Eat(ts, recv.at, ")") ELSE p + 1
      gs   == GenericList(ts, q + 1)
      ps   == IF gs.at = 0 THEN Fail ELSE ParamList(ts, gs.at)
      rs   == ParseReturns(ts, ps.at)
      body == ParseBlock(ts, rs.at)
  IN  IF q = 0 \/ At(ts, q) \notin Idents \/ Len(recv.node.kids) > 1 THEN Fail
      ELSE Made(ts, p, body.at, "funcdecl", <<At(ts, q)>>,
                <<attributes, Doc(ts, Line(ts, p)), recv.node, gs.node, ps.node, rs.node, body.node>>)

(* One constant or variable, after its keyword.  In a group of constants a  *)
(* name alone goes on with iota; a variable may be left without a value.    *)
ParseValue(ts, from, p, kind, doc) ==
  LET typed == At(ts, p + 1) \in Idents \union {"[", "*"}
      ty    == IF typed THEN ParseType(ts, p + 1) ELSE Got(p + 1, NoNode)
      v     == ParseExpr(ts, ty.at + 1)
      name  == <<At(ts, p)>>
  IN  IF At(ts, p) \notin Idents \/ ty.at = 0 THEN Fail
      ELSE IF At(ts, ty.at) = "=" THEN Made(ts, from, v.at, kind, name, <<doc, ty.node, v.node>>)
      ELSE IF kind \in {"vardecl", "groupvar"} /\ typed
      THEN Made(ts, from, ty.at, kind, name, <<doc, ty.node, NoNode>>)
      ELSE IF kind = "groupconst" /\ ~typed /\ At(ts, ty.at) \in {"NL", ")", "eof"}
      THEN Made(ts, from, ty.at, kind, name, <<doc, NoNode, Node("ident", <<"iota">>, <<>>)>>)
      ELSE Fail

RECURSIVE Group(_, _, _, _)
Group(ts, p, kind, done) ==
  LET v == ParseValue(ts, p, p, kind, NoNode)
  IN  IF At(ts, p) = ")" THEN Got(p + 1, List(done))
      ELSE IF v.at = 0 THEN Fail ELSE Group(ts, Skip(ts, v.at), kind, Append(done, v.node))

(* One declaration; `const (` and `var (` hold several. *)
ParseDecl(ts, p) ==
  LET w  == At(ts, p)
      g  == Group(ts, Skip(ts, p + 2), IF w = "const" THEN "groupconst" ELSE "groupvar", <<>>)
      as == Attributes(ts, p, <<>>)
      q  == Skip(ts, as.at)
  IN  IF w \in {"const", "var"} /\ At(ts, p + 1) = "(" THEN Made(ts, p, g.at, IF w = "const" THEN "constgroup" ELSE "vargroup", <<>>, g.node.kids)
      ELSE IF w = "const" THEN ParseValue(ts, p, p + 1, "constdecl", Doc(ts, Line(ts, p)))
      ELSE IF w = "var" THEN ParseValue(ts, p, p + 1, "vardecl", NoNode)
      ELSE IF as.at = 0 THEN Fail
      ELSE IF At(ts, q) = "func" THEN ParseFuncDecl(ts, q, as.node)
      ELSE IF At(ts, q) = "type" THEN ParseTypeDecl(ts, q, as.node)
      ELSE Fail

(* parse_single_import and the imports of a file, alone or in brackets. *)
ImportAt(ts, p) ==
  CASE At(ts, p) \in Paths -> Made(ts, p, p + 1, "import", <<At(ts, p)>>, <<>>)
    [] At(ts, p) \in Idents \union {"_"} /\ At(ts, p + 1) \in Paths ->
         Made(ts, p, p + 2, "import", <<At(ts, p), At(ts, p + 1)>>, <<>>)
    [] OTHER -> Fail

RECURSIVE ImportGroup(_, _, _), Imports(_, _, _)
ImportGroup(ts, p, done) ==
  LET i == ImportAt(ts, p)
  IN  IF At(ts, p) = ")" THEN Got(p + 1, List(done))
      ELSE IF i.at = 0 THEN Fail ELSE ImportGroup(ts, Skip(ts, i.at), Append(done, i.node))
Imports(ts, p, done) ==
  LET i == IF At(ts, p + 1) = "(" THEN ImportGroup(ts, Skip(ts, p + 2), <<>>)
           ELSE LET one == ImportAt(ts, p + 1) IN Got(one.at, List(<<one.node>>))
  IN  IF At(ts, p) # "import" THEN Got(p, List(done))
      ELSE IF i.at = 0 THEN Fail ELSE Imports(ts, Skip(ts, i.at), done \o i.node.kids)

RECURSIVE Decls(_, _, _)
Decls(ts, p, done) ==
  LET q == Skip(ts, p)
      d == ParseDecl(ts, q)
  IN  IF At(ts, q) = "eof" THEN Got(q, List(done))
      ELSE IF d.at = 0 THEN Fail ELSE Decls(ts, d.at, Append(done, d.node))

(* parse_file: package, imports, declarations.  A file without a package    *)
(* clause is one of package main whose clause stands on line 0.             *)
ParseFile(ts) ==
  LET p      == Skip(ts, 1)
      headed == At(ts, p) = "package"
      is     == Imports(ts, IF headed THEN Skip(ts, p + 2) ELSE p, <<>>)
      ds     == IF is.at = 0 THEN Fail ELSE Decls(ts, is.at, <<>>)
      name   == IF headed THEN At(ts, p + 1) ELSE "main"
      file   == Node("file", <<name>>, <<is.node, ds.node>>)
  IN  IF name \notin Idents THEN Fail
      ELSE Got(ds.at, [file EXCEPT !.first = IF headed THEN Line(ts, p) ELSE 0])
=============================================================================
