----------------------------- MODULE MCWebLogic -----------------------------
(* The pure functions of the web UI, evaluated on bounded inputs: a state is an input. *)
EXTENDS FilterInput, TransformExpr

VARIABLE input

-----------------------------------------------------------------------------
(* Inputs: filter trees *)

SimpleRules ==
  {Rule(Field("x"), "int", op, <<Number("5")>>, FALSE) : op \in {"eq", "gt", "isNull"}} \union
  {Rule(Field("x"), "int", "notIn", v, FALSE) : v \in {<<Number("5"), Number("2")>>, <<Negative("5")>>, <<>>}} \union
  {Rule(Field("y"), "float", "lte", <<v>>, FALSE) : v \in {Number("5"), Number("1.5"), Negative("5"), Word("w")}} \union
  {Rule(Field("s"), "string", op, <<v>>, FALSE) : op \in {"neq", "lt", "isNotNull"}, v \in {Word("w"), Number("5")}} \union
  {Rule(Field(f), "bool", "eq", v, FALSE) : f \in {"b", ""}, v \in {<<Boolean("true")>>, <<Word("w")>>, <<>>}}

ArithmeticRules ==
  {Rule(l, "float64", "gt", <<Number("5")>>, FALSE) :
     l \in {Synthetic(Function("len", <<Field("s")>>)),
            Arith(Field("x"), "-", Literal(Negative("2"))),
            Arith(Arith(Field("x"), "*", Field("y")), "%", Literal(Number("2")))}}

Negated(R) == R \union {[r EXCEPT !.neg = TRUE] : r \in R}
Chosen == {Rule(Field("x"), "int", "gt", <<Number("5")>>, FALSE),
           Rule(Field("s"), "string", "isNull", <<>>, TRUE),
           Rule(Field("y"), "float", "lte", <<Negative("5")>>, FALSE)}
Subgroups ==
  {Group(c, n, s) : c \in LogicOps, n \in BOOLEAN,
     s \in {<<>>} \union {<<a>> : a \in Chosen} \union {<<a, b>> : a, b \in Chosen}}
FilterTrees ==
  {Group("and", n, <<r>>) : n \in BOOLEAN, r \in Negated(SimpleRules \union ArithmeticRules)} \union
  {Group(c, n, <<a, b>>) : c \in LogicOps, n \in BOOLEAN, a \in Subgroups \union Negated(SimpleRules),
                           b \in Chosen \union {g \in Subgroups : g.neg /\ Len(g.children) = 2}}

-----------------------------------------------------------------------------
(* Inputs: arithmetic expressions, typed ones, numbers, flat conditions *)

Leaves == {Field("x"), Literal(Number("2")), Function("len", <<Field("s")>>)}
Depth1 == {Arith(l, op, Field("y")) : l \in Leaves, op \in ArithmeticOps} \union {Synthetic(Field("x"))}
Depth2 == {Arith(l, op, Field("z")) : l \in Depth1, op \in ArithmeticOps} \union
          {Arith(Field("z"), op, r) : r \in Depth1, op \in ArithmeticOps}
Expressions ==
  Depth2 \union {Arith(l, op, r) : l \in Depth1, op \in ArithmeticOps, r \in Depth1}
         \union {Arith(Field("y"), op, r) : op \in ArithmeticOps, r \in Depth2}

TextLeaves == {IdOf("x"), IdOf("w"), LitOf("number", "2"), LitOf("string", "x")}
TextCalls == {CallOf("len", <<a>>) : a \in TextLeaves} \union
             {CallOf("len", <<a, MinusOf(b)>>) : a, b \in TextLeaves}
Text1 == TextLeaves \union TextCalls \union {MinusOf(x) : x \in TextLeaves} \union
         {BinOf(op, l, IdOf("y")) : op \in ArithmeticOps \union {"=="}, l \in TextLeaves}
Texts ==
  Text1 \union {MinusOf(ParenOf(x)) : x \in Text1} \union {CallOf("len", <<x>>) : x \in Text1} \union
  {BinOf(op, ParenOf(l), r) : op \in {"+", "%"}, l, r \in Text1}

Numerals == UNION {[1..n -> {"1", "2", ",", "."}] : n \in 1..5}

Conditions ==
  {Rule(Field("x"), "int", "gt", <<Number("5")>>, FALSE), Rule(Field("s"), "string", "isNull", <<>>, FALSE),
   Rule(Field("s"), "string", "in", <<Word("w"), Number("5")>>, FALSE),
   Rule(Field("b"), "bool", "neq", <<Word("w")>>, FALSE), Rule(Field(""), "int", "eq", <<>>, FALSE)}
Legacy == [combinator: LogicOps, conditions: UNION {[1..n -> Conditions] : n \in 0..3}]

-----------------------------------------------------------------------------
(* Inputs: transformation fields *)

Comma == StringArg(Str("w", FALSE))
Quoted == StringArg(Str("w", TRUE))
SomeFields == {FieldArg(Identifier("x")), FieldArg(OtherName("@t")), FieldArg(NoName)}
Calls == {NestedArg("trim", <<a>>) : a \in SomeFields} \union
         {NestedArg("split", <<FieldArg(Identifier("x")), s>>) : s \in {Comma, Quoted, StringArg(Str("", FALSE))}} \union
         {NestedArg("toInt", <<NestedArg("trim", <<a>>)>>) : a \in SomeFields} \union
         {NestedArg("unknown", <<Comma>>), NestedArg("", <<>>), NestedArg("split", <<Comma>>)}
Slots == SomeFields \union Calls \union {Comma, PlainArg(LitOf("number", "1.5"))}
Chains == {<<>>, <<[f |-> "lower", args |-> <<>>]>>,
           <<[f |-> "split", args |-> <<Comma>>], [f |-> "len", args |-> <<>>]>>}
Arguments ==
  SomeFields \union Calls \union {ArrayArg(<<Comma>>), ArrayArg(<<Comma, NestedArg("trim", <<Comma>>)>>)} \union
  {WaterfallArg(<<a, b>>) : a, b \in Slots} \union
  {ConcatArg(<<a, b>>, chain) : a, b \in SomeFields \union {Comma, Quoted}, chain \in Chains}
Signatures == {"trim", "hasAnyKey", "concat", "waterfall"}
Modifiers == {NoArithmetic, Arithmetic("*", LitOf("number", "5")), Arithmetic("-", MinusOf(LitOf("number", "5"))),
             Arithmetic("*", NoText)}
CallsOf(args) == {CallOf(f, <<a>>) : f \in {"trim", "now"}, a \in args}
RawTexts ==
  LET flat == CallsOf({IdOf("x"), LitOf("number", "1.5"), StrOf(Str("w", FALSE))}) \union {CallOf("now", <<>>)}
  IN  flat \union CallsOf(flat) \union {IdOf("x"), MinusOf(IdOf("x"))} \union
      {BinOf(op, a, b) : op \in {"+", ">"}, a, b \in flat \union {IdOf("x"), LitOf("number", "5")}} \union
      CallsOf({ListOf(<<a, b>>) : a, b \in {IdOf("x"), StrOf(Str("w", FALSE)), CallOf("trim", <<IdOf("x")>>)}})
TransformFields ==
  {Passthrough(a.name, arith) : a \in SomeFields, arith \in Modifiers} \union
  {Computed(f, <<a>>, arith) : f \in Signatures \union {""}, a \in Arguments, arith \in Modifiers} \union
  {Computed(f, <<a, b>>, NoArithmetic) : f \in {"split", "hasAnyKey"}, a \in SomeFields \union Calls,
                                         b \in {Comma, Quoted, ArrayArg(<<Comma, Quoted>>)}} \union
  {Raw(x) : x \in RawTexts \union {NoText}}

-----------------------------------------------------------------------------
Init ==
  \/ input \in [tag: {"filter"}, x: FilterTrees]
  \/ input \in [tag: {"display"}, x: Expressions]
  \/ input \in [tag: {"manual"}, x: Texts]
  \/ input \in [tag: {"number"}, x: Numerals]
  \/ input \in [tag: {"legacy"}, x: Legacy]
  \/ input \in [tag: {"transform"}, x: TransformFields]
Nothing == [tag |-> "nothing"]

\* What the backend is sent means what the user built, as a tree or as flat conditions; what is
\* shown of an expression reads as that expression; what is typed is taken over as it was typed;
\* and opening a saved filter rebuilds one that means the same and is still valid (groupToExpr,
\* migrateToTreeStructure, arithmeticExpressionToDisplayString, parseArithmeticExpression,
\* normalizeNumericInput, parseExprToFilterTree, validateRuleLocally).
FilterKeepsMeaning ==
  /\ input.tag = "filter" => PrintKeepsMeaning(input.x) /\ HydrationKeepsMeaning(input.x)
  /\ input.tag = "legacy" => MigrationKeepsMeaning(input.x.conditions, input.x.combinator)
  /\ input.tag = "display" => DisplayReadsBack(input.x)
  /\ input.tag = "manual" => ManualIsAsTyped(input.x, {"x", "y"})
  /\ input.tag = "number" => BothLocalesRead(input.x)

\* A transformation that passes validation is deployed and survives the reopening of its
\* pipeline, within what the readers can read (fieldToExpr, mapTransformToField,
\* hydrateTransformation).
TransformKeepsMeaning == input.tag = "transform" => TransformIsKept(input.x)
TransformReopens == input.tag = "transform" => ReopenedIsSame(input.x)
=============================================================================
