----------------------------- MODULE SyntaxTree -----------------------------
(***************************************************************************)
(* The syntax tree of ast.c and the grammar actions of parser.y that build *)
(* it, as far as memory goes: which values an action takes off the         *)
(* parser's stack and puts into a new node, which fields a destructor      *)
(* releases and which a printer reads.                                     *)
(*                                                                         *)
(* A node is [tag, kids]; the kids are the fields in the order in which    *)
(* the parser has their values on its stack.  A list is a node whose kids  *)
(* are the elements; its tag is its destructor, "free" (a list of strings) *)
(* or "free_*" (a list of nodes).  A path and its list of components are   *)
(* one node.  A token without a value is left out unless an action comes   *)
(* next: there an error finds on the stack what no other error finds.      *)
(***************************************************************************)
EXTENDS Integers, Sequences

(* What is to be done next when parsing: take a token that carries a       *)
(* string (ID or NUM) or one without a value, parse a symbol, put NULL or  *)
(* an operator (<tok>) on the stack, build a node of the n topmost values, *)
(* add the topmost value to the list below it, or do any number of times   *)
(* what follows.                                                           *)
Token == <<"token">>
Expect == <<"expect">>
Parse(symbol) == <<"parse", symbol>>
Null == <<"null">>
Operator == <<"operator">>
Build(tag, n) == <<"build", tag, n>>
Add == <<"add">>
More(work) == <<"more", work>>

(* The right-hand sides of a symbol with the action at their end.  A       *)
(* left-recursive list begins with its first action and goes on with More. *)
(* The levels of expressions are one symbol, and standard_type is a type   *)
(* without kids.                                                           *)
Rules(symbol) ==
  CASE symbol = "program" ->
         {<<Token, Parse("optional_identifier_list"), Parse("type_declarations"),
            Parse("declarations"), Parse("subprogram_declarations"),
            Parse("compound_statement"), <<"accept">>>>}
    [] symbol = "optional_identifier_list" ->
         {<<Parse("identifier_list")>>, <<Build("free", 0)>>}
    [] symbol = "identifier_list" ->
         {<<Token, Build("free", 1), More(<<Token>>)>>}
    [] symbol = "type_declarations" ->
         {<<Build("free_*", 0),
            More(<<Token, Parse("type"), Expect, Build("type_decl", 2)>>)>>}
    [] symbol = "declarations" ->
         {<<Build("free_*", 0),
            More(<<Parse("identifier_list"), Parse("type"), Expect, Build("decls", 2)>>)>>}
    [] symbol = "standard_type" -> {<<Build("TYPE_INTEGER", 0)>>}
    [] symbol = "type" ->
         {<<Parse("standard_type")>>,
          <<Token, Token, Parse("standard_type"), Build("TYPE_ARRAY", 3)>>,
          <<Parse("type"), Build("TYPE_POINTER", 1)>>,
          <<Token, Build("TYPE_REF", 1)>>,
          <<Build("free_*", 0),
            More(<<Token, Parse("type"), Expect, Build("record_field", 2)>>),
            Build("TYPE_RECORD", 1)>>}
    [] symbol = "subprogram_declarations" ->
         {<<Build("free_*", 0), More(<<Parse("subprogram_declaration"), Expect>>)>>}
    [] symbol = "subprogram_declaration" ->
         {<<Token, Parse("arguments"), result, Parse("subprogram_declarations"),
            Parse("type_declarations"), Parse("declarations"),
            Parse("compound_statement"), <<"build subprogram">>>> :
              result \in {Parse("standard_type"), Null}}
    [] symbol = "arguments" ->
         {<<Build("free_*", 0)>>,
          <<Parse("parameter"), Build("free_*", 1), More(<<Parse("parameter")>>)>>}
    [] symbol = "parameter" ->
         {<<Parse("identifier_list"), Parse("type"), Build("decls", 2)>>}
    [] symbol = "compound_statement" ->
         {<<Null, Expect>>,
          <<Parse("statement"), Build("free_*", 1), More(<<Parse("statement")>>),
            Build("STMT_STMTS", 1), Expect>>}
    [] symbol = "statement" ->
         {<<Parse("lvalue"), Parse("expression"), Build("STMT_ASSIGN", 2)>>,
          <<Parse("path"), Build("free", 0), Build("STMT_PROC", 2)>>,
          <<Parse("path"), Parse("expression_list"), Build("STMT_PROC", 2)>>,
          <<Parse("compound_statement")>>,
          <<Parse("expression"), Parse("statement"), Null, Build("STMT_ITE", 3)>>,
          <<Parse("expression"), Parse("statement"), Parse("statement"),
            Build("STMT_ITE", 3)>>,
          <<Parse("expression"), Parse("statement"), Build("STMT_WDO", 2)>>,
          <<Token, Parse("expression"), Parse("expression"), Parse("statement"),
            Build("STMT_FOR", 4)>>}
    [] symbol = "path" -> {<<Token, Build("path", 1), More(<<Token>>)>>}
    [] symbol = "lvalue" ->
         {<<Parse("path"), Build("EXPR_PATH", 1)>>,
          <<Parse("path"), Parse("expression"), Expect, Build("EXPR_IDX", 2)>>,
          <<Parse("path"), Build("EXPR_PATH", 1), Build("EXPR_DEREF", 1)>>}
    [] symbol = "expression_list" ->
         {<<Build("free_*", 0), More(<<Parse("expression")>>)>>}
    [] symbol = "expression" ->
         {<<Parse("expression"), Operator, Parse("expression"), Build("EXPR_BIN", 3)>>,
          <<Operator, Parse("expression"), Build("EXPR_UN", 2)>>,
          <<Parse("expression"), Build("EXPR_UN", 1)>>,
          <<Parse("path"), Parse("expression_list"), Build("EXPR_APP", 2)>>,
          <<Token, Build("EXPR_LIT", 1)>>,
          <<Parse("lvalue")>>,
          <<Parse("expression"), Build("EXPR_ADDROF", 1)>>}

(* Any number of times: stop, or once more. *)
Rounds(work) == {<<>>, work \o <<Add, More(work)>>}

-----------------------------------------------------------------------------
(* free_*: the fields released, in this order, before the node itself.     *)
(* list_free releases the elements behind the first one, then the first.   *)
Released(tag, kids) ==
  CASE tag = "program" -> <<kids[1], kids[2], kids[4], kids[3], kids[5], kids[6]>>
    [] tag = "subdecl" -> <<kids[2], kids[3], kids[5], kids[4], kids[6], kids[1]>>
    [] tag \in {"decls", "TYPE_FUNCTION", "EXPR_APP"} -> <<kids[2], kids[1]>>
    [] tag \in {"free", "free_*", "path"} /\ kids # <<>> -> Append(Tail(kids), Head(kids))
    [] OTHER -> kids

(* print_*: the fields read, in this order.  The types of a program and of *)
(* a subprogram, and the name of a subprogram, are not printed.            *)
Printed(tag, kids) ==
  CASE tag = "program" -> <<kids[1], kids[2], kids[4], kids[5], kids[6]>>
    [] tag = "subdecl" -> <<kids[2], kids[3], kids[5], kids[6]>>
    [] tag = "decls" -> <<kids[2], kids[1]>>
    [] OTHER -> kids
=============================================================================
