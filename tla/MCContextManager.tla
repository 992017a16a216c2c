-------------------------- MODULE MCContextManager --------------------------
(* Three facts for the file, made of the characters its format escapes, and*)
(* three tool results: one shown whole, one that fits the budget alone but *)
(* not with its heading, and one that is cut.  Two of them are JSON objects*)
(* and set keys; together they set four.                                   *)
EXTENDS ContextManager

Fact(content) == [type |-> <<"t">>, content |-> content]
Words(n) == [i \in 1..(2 * n - 1) |-> IF i % 2 = 1 THEN "x" ELSE " "]

MCFacts == {Fact(<<"\\", "n">>), Fact(<<"\n", "\r">>), Fact(<<"\t", "x", "\\">>)}
MCToolResults == {Fact(Words(1)), Fact(Words(14)), Fact(Words(21))}
MCHardKeys(f) ==
  CASE Len(f.content) = 1 -> [k \in {"status", "port"} |-> "ok"]
    [] Len(f.content) = 27 -> [k \in {"status", "path", "user"} |-> "late"]
    [] OTHER -> <<>>
=============================================================================
