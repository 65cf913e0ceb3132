---------------------------- MODULE MCSourceFile ----------------------------
(* What is typed: every part of the grammar, each in a frame of its own.    *)
EXTENDS SourceFile

Topic(pre, fragments, post, max) == [pre |-> pre, fragments |-> fragments, post |-> post, max |-> max]
Package  == <<"package", "main", "NL", "NL">>
Function == Package \o <<"func", "f", "(", ")", "{", "NL">>
InFunction(pre, fragments, post, max) == Topic(Function \o pre, fragments, post \o <<"NL", "}", "NL">>, max)
Note1 == <<"//1", "NL">>
Note2 == <<"//2", "NL">>
Blank == <<"NL">>
Step  == <<"a", "++", "NL">>
Block == <<"{", "NL", "a", "++", "NL", "}">>

FewTokens == InFunction(<<"a", ":=">>, {<<"a">>, <<"-">>, <<"&">>, <<"*">>, <<"(">>, <<")">>}, <<>>, 4)
Operators == InFunction(<<"a", ":=">>,
  {<<"a", "+">>, <<"b", "*">>, <<"1", "==">>, <<"(", "a", ")", "&&">>, <<"b", "||">>, <<"-", "<-", "c", "-">>},
  <<"a">>, 4)
Postfixes == InFunction(<<"a", ":=", "b">>,
  {<<".", "c">>, <<"[", "1", "]">>, <<"[", "int", "]">>, <<"[", "T", "]">>, <<"[", ":", "1", ":", "2", "]">>,
   <<"(", "a", ":", "1", ",", "NL", "b", "...", ")">>, <<".", "(", "[", "]", "?", "T", ")">>, <<".", "(", "!", "nil", ")">>,
   <<"{", "a", ":", "1", "}">>, <<"{", "1", ",", "}">>, <<"{", "1", ",", "2", "}">>,
   <<"{", "NL", "a", ":", "1", ",", "NL", "b", ":", "2", ",", "NL", "}">>}, <<>>, 3)
Operands == InFunction(<<"a", "=", "f", "(">>,
  {<<Plain, ",">>, <<Raw, ",">>, <<Hole, ",">>, <<Brace, ",">>, <<"map", "[", "T", "]", "int", "{", "a", ":", "1", "}", ",">>,
   <<"make", "(", "chan", "T", ",", "1", ")", ",">>, <<"new", "(", "G", "[", "int", "]", ")", ",">>,
   <<"[", "]", "T", "{", "1", ",", "2", "}", ",">>, <<"[", "]", "G", "[", "int", "]", "{", "}", ",">>,
   <<"[", "2", "]", "T", "{", "1", ",", "2", "}", ",">>, <<"[", "]", "T", "(", "a", ")", ",">>,
   <<"[", "]", "T", "{", "{", "a", "}", ",", "{", "b", "}", "}", ",">>,
   <<"struct", "{", "a", "int", ";", "b", "T", "}", "{", "a", ":", "1", "}", ",">>,
   <<"func", "(", "a", "T", ",", "b", "T", ")", "(", "c", "T", ",", "v", "T", ")", "{", "return", "a", ",", "b", "}", ",">>,
   <<"func", "(", ")", "T", "{", "NL", "//1", "NL", "a", "++", "NL", "}", ",">>,
   <<"func", "(", ")", "{", "f", "(", ")", "?", "}", ",">>, <<"NL">>, Note2}, <<")">>, 2)
Literals == InFunction(<<"a", ":=", "[", "]", "T", "{">>,
  {<<"T", "{", "a", ":", "1", "}", ",">>, <<"{", "1", ",", "NL", "2", "}", ",">>, <<"b", ",">>, Blank, Note1}, <<"}">>, 4)
Types == InFunction(<<"var", "a">>,
  {<<"*">>, <<"[", "]">>, <<"?">>, <<"chan">>, <<"map", "[", "T", "]">>, <<"G", "[", "T", "]">>, <<"T">>,
   <<"func", "(">>, <<"a", ",">>, <<")">>, <<"struct", "{", "a", ",", "b", "T", ";", "c", "[", "1", "]", "c", ".", "T", "}">>},
  <<"=", "1">>, 3)
Results == Topic(Package \o <<"func", "f", "(", ")", "(">>,
  {<<"a">>, <<",">>, <<"*">>, <<"[", "]">>, <<"c", ".">>, <<"map", "[", "x", "]">>, <<"G", "[", "v", "]">>},
  <<")", "{", "}", "NL">>, 4)
Signatures == Topic(Package \o <<"var", "a", "=", "1">>,
  {Note1, Note2, Blank, <<"[", "x", "]", "NL">>, <<"[", "x", ".", "i", "]">>,
   <<"func", "(", "a", "*", "T", ")", "f", "[", "T", "int", ",", "G", "int", "]", "(", "b", ",", "c", "T", ",",
     "v", "T", ",", "x", "...", "T", ")", "(", "i", ",", "ok", "T", ")", "{", "}", "NL">>,
   <<"type", "T", "[", "G", "int", "]", "const", "struct", "{", "}", "NL">>}, Blank, 3)
Structs == Topic(Package \o <<"type", "T">>,
  {<<"const">>, <<"=">>, <<"struct", "{", "}">>, <<"struct", "{", "NL">>, <<"a", "int">>, <<"b", ",", "c", "?", "*", "T", "//1", "NL">>,
   <<"NL">>, <<"}">>, <<"[", "]", "G", "[", "int", "]">>}, Blank, 4)
Attribute == <<"[", "x", ".", "i", "{", "a", ":", "1", ",", "NL", "b", ":", "f", "(", Plain, ")", "}", "]">>
Fields == Topic(Package \o <<"type", "T", "struct", "{", "NL">>,
  {<<"[", "x", "]">>, Attribute, <<"const">>, <<"a", "int">>, <<"b", ",", "c", "T">>, <<Raw>>, Note1, <<"/*1">>, Blank},
  <<"}", "NL">>, 4)
VariantFields == Topic(Package \o <<"type", "T", "enum", "{", "NL", "c", "{">>,
  {<<"[", "x", "]">>, <<"const">>, <<"a", "int">>, <<Raw>>, Blank}, <<"}", "NL", "}", "NL">>, 4)
UnnamedFields == InFunction(<<"var", "a", "[", "]", "struct", "{">>,
  {<<"[", "i", "]">>, <<"const">>, <<"b", "T">>, <<"b", "[", "]", "G", "[", "int", "]">>, <<Raw>>, <<";">>}, <<"}">>, 4)
LiteralFields == InFunction(<<"a", ":=", "struct", "{">>,
  {<<"[", "x", "]">>, <<"const">>, <<"a", "int">>, <<Raw>>, <<";">>, Blank}, <<"}", "{", "a", ":", "1", "}">>, 4)
Enums == Topic(Package \o <<"type", "T", "enum", "{", "NL">>,
  {<<"a", "NL">>, <<"b", "T", "NL">>, <<"c", "struct", "{", "NL", "a", "int", "//2", "NL", "}", "NL">>, Note1, Blank,
   <<"[", "x", "]", "NL">>}, <<"}", "NL">>, 4)
Interfaces == Topic(Package \o <<"type", "T", "interface", "{", "NL">>,
  {<<"a", "(", ")", "NL">>, <<"b", "(", "a", "T", ",", "c", "T", ")", "T", "NL">>,
   <<"c", "(", "a", ",", "b", "T", ")", "(", "T", ",", "error", ")", "NL">>, Note1, Blank}, <<"}", "NL">>, 3)
Statements == InFunction(<<>>,
  {Note1, Note2, Blank, <<"a", ":=", "1", "NL">>, <<"a", "=", "2", "//3", "NL">>, <<"a", ",", "b", "=", "b", ",", "a", "NL">>,
   <<"a", ",", "_", ":=", "f", "(", ")", "?", "NL">>, <<"var", "a", "T", "=", "1", "NL">>, <<"var", "a", ",", "b", "?", "T", "NL">>,
   <<"const", "a", ",", "b", "=", "1", ",", "2", "NL">>, <<"a", "+=", "1", "NL">>, <<"a", "-=", "1", "?", "NL">>, Step, <<"c", "<-", "a", "NL">>,
   <<"go", "f", "(", ")", "NL">>, <<"defer", "f", "(", ")", "NL">>, <<"return", "//3", "NL">>, <<"return", "a", ",", "b">>,
   <<"break", "//3", "NL">>, <<"continue", "NL">>, <<"{", "a", "=", "1", "}", "NL">>,
   <<"type", "T", "struct", "{", "a", "int", "}", "NL">>, <<"f", "(", ")", "?", "v", "{", "NL", "a", "++", "NL", "}", "NL">>,
   <<"f", "(", ")", "?", "{", "return", "}", "NL">>, <<"var", "x", "=", "f", "(", ")", "?", "NL">>, <<"@">>,
   <<"a", "=", "func", "(", ")", "{", "NL", "//3", "NL", "b", "++", "NL", "}", "NL">>,
   <<"for", "{", "NL", "break", "NL", "//3", "NL", "}", "NL">>}, <<>>, 2)
Loops == InFunction(<<"for">>,
  {<<"a">>, <<",", "_">>, <<":=", "range">>, <<";">>, <<"i", ":=", "1">>, <<"var", "i", "=", "1">>, <<"i", "++">>, <<"i", "+=", "2">>}, Block, 4)
Conditions == InFunction(<<"if">>,
  {<<"a">>, <<",", "b">>, <<":=">>, <<"x", ".", "(", "T", ")">>, <<";">>, <<"f", "(", ")", "==", "1">>}, Block, 4)
Branches == InFunction(<<"if", "a", "==", "1">>,
  {Block, <<"else">>, <<"if", "b", "==", "2">>, <<"{", "//1", "NL", "if", "c", "{", "NL", "a", "++", "NL", "}", "//2", "NL", "}">>}, <<>>, 5)
Arms == InFunction(<<"match", "a", "{", "NL">>,
  {<<"case", "T", ":", "NL">>, <<"case", "_", ":">>, <<"default", ":", "NL">>, Step, Note1}, <<"}">>, 4)
Patterns == InFunction(<<"match", "a", "{", "NL">>,
  {<<"case", "1", ",", "_", ":">>, <<"case", Plain, ",", "nil", ":">>,
   <<"case", "T", ".", "G", "(", "b", ")", ":">>, <<"case", "G", "[", "int", "]", ".", "T", ":">>, <<"case", "G", "[", "int", "]", ":">>,
   <<"case", "G", "[", "T", "[", "int", "]", "]", ".", "T", ":">>,
   <<"case", "T", "{", "a", ",", "b", ":", "c", ",", "v", ":", "1", ",", "...", "}", ":">>,
   <<"case", "G", "[", "int", "]", ".", "T", "{", "a", ":", "a", "}", ":">>, <<"f", "(", ")">>}, <<"}">>, 2)
Guards == InFunction(<<"match", "{", "NL">>,
  {<<"case", "a", "==", "1", ":", "NL">>, <<"case", "a", ",", "b", "||", "c", ":">>, <<"default", ":", "NL">>, Step, Note1}, <<"}">>, 3)
Selects == InFunction(<<"select", "{", "NL">>,
  {<<"case", "<-", "c", ":", "NL">>, <<"case", "c", "<-", "a", "+", "1", ":">>, <<"case", "v", ":=", "<-", "c", ":", "//2", "NL">>,
   <<"case", "v", ",", "ok", ":=", "<-", "c", ":", "NL">>, <<"default", ":", "NL">>, Step, Note1}, <<"}">>, 3)
Declarations == Topic(Package,
  {<<"import", "'p'", "//3", "NL">>, <<"import", "(", "NL", "'p'", "//1", "NL", "NL", "x", "'q'", "NL", ")", "NL">>, <<"import", "_", "'q'", "NL">>,
   <<"const", "a", "=", "1", "NL">>, <<"const", "(", "NL", "a", "int", "=", "1", "//3", "NL", "b", "NL", ")", "NL">>, <<"const", "(", ")", "NL">>,
   <<"var", "(", "NL", "a", "T", "NL", "//1", "NL", "b", "=", "1", "NL", ")", "NL">>, <<"var", "a", "T", "=", "1", "//1", "NL">>,
   Note2, Blank, <<"func", "f", "(", ")", "{", "}", "NL">>, <<"type", "T", "=", "int", "NL">>, <<"@">>}, <<>>, 3)
Notes == Topic(Package,
  {<<"/*1">>, <<"/*2">>, Note1, Blank, <<"func", "f", "(", ")", "{">>, <<"}">>, <<"const", "a", "=", "1">>, <<"type", "T", "=", "int">>},
  <<>>, 5)
NotesWithin == InFunction(<<>>,
  {<<"/*1">>, <<"/*2">>, Note1, Blank, <<"a", "=", "1">>, <<"type", "T", "=", "int">>, <<"if", "a", "{">>, <<"}">>}, <<>>, 4)
Heads == Topic(<<>>, {Note1, <<"/*1">>, Blank, <<"package", "main", "//2", "NL">>, <<"import", "'p'", "NL">>,
  <<"func", "f", "(", ")", "{", "}", "NL">>}, <<>>, 4)

MCTopics == [fewTokens |-> FewTokens, operators |-> Operators, postfixes |-> Postfixes,
  operands |-> Operands, literals |-> Literals, types |-> Types,
  results |-> Results, signatures |-> Signatures, structs |-> Structs,
  fields |-> Fields, variantFields |-> VariantFields, unnamedFields |-> UnnamedFields, literalFields |-> LiteralFields,
  notes |-> Notes, notesWithin |-> NotesWithin,
  enums |-> Enums, interfaces |-> Interfaces, statements |-> Statements,
  loops |-> Loops, conditions |-> Conditions, branches |-> Branches,
  arms |-> Arms, patterns |-> Patterns, guards |-> Guards, selects |-> Selects,
  declarations |-> Declarations, heads |-> Heads]
=============================================================================
