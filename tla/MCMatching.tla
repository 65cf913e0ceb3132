----------------------------- MODULE MCMatching -----------------------------
(***************************************************************************)
(* A local enum with a variant of each shape and a local struct, an        *)
(* imported enum of the same name as the local one, another of a name of   *)
(* its own, an imported struct, integers, and no scrutinee.                *)
(***************************************************************************)
EXTENDS MatchRun

Fields(names, type) == [f \in names |-> type]
Unit == [shape |-> "Unit", fields |-> << >>]
Single == [shape |-> "Single", fields |-> Fields({"Value"}, "int")]
Circle == [shape |-> "Struct", fields |-> [r |-> "int", u |-> "string"]]
Enum(variants) == [kind |-> "Enum", variants |-> variants]
Struct(fields) == [kind |-> "Struct", fields |-> fields]

Local == [E |-> Enum([Red |-> Unit, Some |-> Single, Circle |-> Circle]),
          P |-> Struct(Fields({"x", "y"}, "int"))]
Imported == [E |-> Enum([Red |-> Unit, Blue |-> Unit]),
             G |-> Enum([On |-> Unit, Off |-> Single]),
             S |-> Struct(Fields({"x"}, "int"))]

MCModules == [m \in {"", "q"} |-> IF m = "" THEN Local ELSE Imported]
MCConstants == [n \in {<<"q", "K">>} |-> "1"]

E == [module |-> "", name |-> "E"]
P == [module |-> "", name |-> "P"]
Number == [module |-> "", name |-> "int"]
QE == [module |-> "q", name |-> "E"]
QG == [module |-> "q", name |-> "G"]
QS == [module |-> "q", name |-> "S"]
MCScrutinees == {E, P, Number, QE, QG, QS, NoScrutinee}

Pattern(kind, name, binds, tests) ==
  [kind |-> kind, name |-> name, binds |-> binds, tests |-> tests, bool |-> TRUE]
Default == Pattern("Default", << >>, << >>, << >>)
Variant(name) == Pattern("Variant", name, << >>, << >>)
Literal(l) == Pattern("Literal", <<l>>, << >>, << >>)
Destructor(name, x) == Pattern("Destructor", name, [Value |-> x], << >>)
StructDestructor(name, binds, tests) == Pattern("StructDestructor", name, binds, tests)
Guard(g, bool) == [Pattern("Guard", <<g>>, << >>, << >>) EXCEPT !.bool = bool]

Arm(ps, body) == [patterns |-> ps, body |-> body]
Each(ps, bodies) == {Arm(<<p>>, b) : p \in ps, b \in bodies}

Red == Variant(<<"E", "Red">>)
Some == Destructor(<<"E", "Some">>, "a")
Radius(x) == StructDestructor(<<"E", "Circle">>, [r |-> x], << >>)
Unitary(x) == StructDestructor(<<"E", "Circle">>, [u |-> x], << >>)

EnumArms ==
  Each({Default, Red, Some, Radius("a")}, {"falls", "returns", "breaks"})
  \cup Each({Red}, {"branches", "panics"})
  \cup Each({StructDestructor(<<"E", "Circle">>, << >>, [r |-> "0"]),
             StructDestructor(<<"E", "Circle">>, [r |-> "a", u |-> "a"], << >>),
             StructDestructor(<<"Circle">>, << >>, << >>),
             Destructor(<<"Some">>, "a"), Destructor(<<"E", "Circle">>, "a"),
             Variant(<<"q", "E", "Red">>), Variant(<<"E", "Some">>), Variant(<<"q", "K">>), Literal("nil")},
            {"returns"})
  \cup {Arm(ps, "returns") : ps \in
          {<<Red, Variant(<<"E", "Some">>)>>, <<Red, Default>>, <<Some, Radius("a")>>,
           <<Some, Unitary("a")>>, <<Some, Radius("b")>>}}

Point(binds, tests) == StructDestructor(<<"P">>, binds, tests)
StructArms ==
  Each({Default, Point([y |-> "a"], [x |-> "0"])}, {"falls", "returns", "breaks"})
  \cup Each({Point([x |-> "a"], << >>), Point(<< >>, [x |-> "0", y |-> "1"]),
             Point([z |-> "a"], << >>), Literal("0"), Variant(<<"E", "Red">>)}, {"returns", "falls"})
  \cup Each({Variant(<<"q", "K">>)}, {"returns"})
  \cup {Arm(<<Point(<< >>, [x |-> "0"]), Point(<< >>, [x |-> "1"])>>, "returns"),
        Arm(<<Default, Point(<< >>, [x |-> "1"])>>, "returns")}

NumberArms ==
  Each({Default, Literal("0")}, {"falls", "returns", "breaks", "branches", "panics"})
  \cup Each({Literal("1"), Literal("nil"), Variant(<<"q", "K">>), Variant(<<"E", "Red">>), Some}, {"returns"})
  \cup {Arm(<<Literal("0"), Literal("1")>>, "falls")}

ImportedEnumArms ==
  Each({Default, Variant(<<"q", "E", "Red">>)}, {"falls", "returns", "breaks"})
  \cup Each({Variant(<<"q", "E", "Blue">>), Red, Variant(<<"q", "K">>)}, {"returns"})
  \cup {Arm(<<Variant(<<"q", "E", "Red">>), Variant(<<"q", "E", "Blue">>)>>, "returns")}

Off(x) == Destructor(<<"q", "G", "Off">>, x)
GuardArms ==
  Each({Guard("g", TRUE), Default}, {"falls", "returns", "breaks", "branches", "panics"})
  \cup Each({Guard("h", TRUE), Guard("n", FALSE)}, {"returns"})
  \cup {Arm(<<Guard("g", TRUE), Guard("h", TRUE)>>, "returns")}

MCArms ==
  [s \in MCScrutinees |->
     CASE s = E -> EnumArms
       [] s = P -> StructArms
       [] s = Number -> NumberArms
       [] s = QE -> ImportedEnumArms
       [] s = QG -> Each({Off("a"), Default, Variant(<<"q", "G", "On">>)}, {"falls", "returns", "breaks"})
                      \cup {Arm(<<Off("a"), Off("b")>>, "falls"), Arm(<<Off("a"), Off("a")>>, "falls")}
       [] s = QS -> Each({StructDestructor(<<"q", "S">>, [x |-> "a"], << >>), Default}, {"returns"})
       [] s = NoScrutinee -> GuardArms]
=============================================================================
