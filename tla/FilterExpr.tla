----------------------------- MODULE FilterExpr -----------------------------
(***************************************************************************)
(* Filter expressions of the web UI: a tree of rules and groups is printed  *)
(* as an expression of the expr language (modules/filter/utils.ts), sent to *)
(* the backend, and parsed into a tree again when the pipeline is opened    *)
(* (modules/filter/parser/exprParser.ts, arithmeticParser.ts).              *)
(*                                                                         *)
(* The text of an expression is represented by its syntax tree, the one     *)
(* @exprlang/parser gives it: parentheses are nodes (ParenOf), a negative   *)
(* number is a unary minus and a literal.                                   *)
(***************************************************************************)
EXTENDS Integers, Sequences, FiniteSets, SequencesExt, Functions

-----------------------------------------------------------------------------
(* Rules, operands, values *)

NumericTypes == {"int", "uint", "float"}
OrderOps == {"gt", "gte", "lt", "lte"}
NullOps == {"isNull", "isNotNull"}
ListOps == {"in", "notIn"}
Operators == {"eq", "neq"} \union OrderOps \union NullOps \union ListOps

\* FILTER_OPERATORS, getOperatorsForType
OperatorsForType(type) ==
  {op \in Operators : type \in IF op \in OrderOps THEN NumericTypes
                               ELSE NumericTypes \union {"string", "bool"}}

\* An item of a value: a number, a boolean or a text; a value is the list of its
\* comma-separated items, << >> when it is empty.
Number(v) == [k |-> "number", neg |-> FALSE, v |-> v]
Negative(v) == [k |-> "number", neg |-> TRUE, v |-> v]
Boolean(v) == [k |-> "bool", neg |-> FALSE, v |-> v]
Word(v) == [k |-> "text", neg |-> FALSE, v |-> v]

Field(f) == [t |-> "field", f |-> f]
Literal(item) == [t |-> "literal", item |-> item]
Function(f, args) == [t |-> "function", f |-> f, args |-> args]
Arith(l, op, r) == [t |-> "node", op |-> op, l |-> l, r |-> r]
NoOperand == [t |-> "none"]

\* createEmptyArithmeticExpression and the single operand both parsers wrap.
Synthetic(left) == Arith(left, "+", Literal(Number("0")))
IsSynthetic(e) == e.op = "+" /\ e.r = Literal(Number("0"))

Rule(left, type, op, value, neg) ==
  [t |-> "rule", left |-> left, type |-> type, op |-> op, value |-> value, neg |-> neg]
Group(combinator, neg, children) ==
  [t |-> "group", combinator |-> combinator, neg |-> neg, children |-> children]

IsExpression(rule) == rule.left.t = "node"

\* getArithmeticExpressionType
ArithmeticType == "float64"
ValueType(rule) == IF IsExpression(rule) THEN ArithmeticType ELSE rule.type

-----------------------------------------------------------------------------
(* Syntax trees of the expr language *)

LitOf(kind, v) == [n |-> "lit", kind |-> kind, v |-> v]
IdOf(v) == [n |-> "id", v |-> v]
MinusOf(x) == [n |-> "minus", x |-> x]
NotOf(x) == [n |-> "not", x |-> x]
ParenOf(x) == [n |-> "paren", x |-> x]
BinOf(op, l, r) == [n |-> "bin", op |-> op, l |-> l, r |-> r]
CallOf(f, args) == [n |-> "call", f |-> f, args |-> args]
ListOf(elements) == [n |-> "list", elements |-> elements]
NoText == [n |-> "none"]

NumberText(item) ==
  IF item.neg THEN MinusOf(LitOf("number", item.v)) ELSE LitOf("number", item.v)

\* formatValueForExpr, and formatArrayValueForExpr for each item of a list
FormatItem(item, type) ==
  IF type = "bool" THEN LitOf("bool", IF item.v = "true" THEN "true" ELSE "false")
  ELSE IF type \notin NumericTypes THEN LitOf("string", item.v)
  ELSE IF item.k = "number" THEN NumberText(item) ELSE IdOf(item.v)

\* arithmeticOperandToExpr, arithmeticExpressionToExpr
RECURSIVE OperandText(_)
OperandText(o) ==
  CASE o.t = "field" -> IdOf(o.f)
    [] o.t = "literal" -> NumberText(o.item)
    [] o.t = "function" -> CallOf(o.f, [i \in DOMAIN o.args |-> OperandText(o.args[i])])
    [] o.t = "node" /\ IsSynthetic(o) -> OperandText(o.l)
    [] OTHER -> ParenOf(BinOf(o.op, OperandText(o.l), OperandText(o.r)))

ExprSymbol(op) ==
  CASE op = "eq" -> "==" [] op = "neq" -> "!=" [] op = "gt" -> ">" [] op = "gte" -> ">="
    [] op = "lt" -> "<" [] op = "lte" -> "<=" [] op = "in" -> "in" [] op = "notIn" -> "not in"
    [] op = "isNull" -> "==" [] op = "isNotNull" -> "!="

\* Mutant: the negation of a rule is not printed.
RuleTextWithoutNot(rule) ==
  LET right == CASE rule.op \in NullOps -> LitOf("nil", "nil")
                 [] rule.op \in ListOps ->
                      ListOf([i \in DOMAIN rule.value |-> FormatItem(rule.value[i], ValueType(rule))])
                 [] OTHER -> FormatItem(rule.value[1], ValueType(rule))
  IN  BinOf(ExprSymbol(rule.op), OperandText(rule.left), right)

\* ruleToExpr
RuleText(rule) ==
  LET right == CASE rule.op \in NullOps -> LitOf("nil", "nil")
                 [] rule.op \in ListOps ->
                      ListOf([i \in DOMAIN rule.value |-> FormatItem(rule.value[i], ValueType(rule))])
                 [] OTHER -> FormatItem(rule.value[1], ValueType(rule))
      text == BinOf(ExprSymbol(rule.op), OperandText(rule.left), right)
  IN  IF rule.neg THEN NotOf(ParenOf(text)) ELSE text

\* isArithmeticOperandComplete, isArithmeticExpressionComplete
RECURSIVE OperandComplete(_)
OperandComplete(o) ==
  CASE o.t = "field" -> o.f # ""
    [] o.t = "literal" -> TRUE
    [] o.t = "function" -> o.f # "" /\ \A i \in DOMAIN o.args : OperandComplete(o.args[i])
    [] o.t = "node" -> OperandComplete(o.l) /\ OperandComplete(o.r)

\* isRuleComplete
RuleComplete(rule) ==
  OperandComplete(rule.left) /\ (rule.op \in NullOps \/ rule.value # << >>)

\* The texts of several operands joined by a combinator: one left-leaning chain.
Joined(texts, combinator) ==
  LET chain[i \in DOMAIN texts] ==
        IF i = 1 THEN texts[1] ELSE BinOf(combinator, chain[i - 1], texts[i])
  IN  chain[Len(texts)]

\* groupToExpr: incomplete rules and empty groups are left out.
RECURSIVE GroupText(_)
GroupText(group) ==
  LET text(c) == IF c.t = "group" THEN GroupText(c)
                 ELSE IF RuleComplete(c) THEN RuleText(c) ELSE NoText
      texts == SelectSeq([i \in DOMAIN group.children |-> text(group.children[i])],
                         LAMBDA x : x # NoText)
      body == IF Len(texts) = 1 THEN texts[1] ELSE ParenOf(Joined(texts, group.combinator))
  IN  IF texts = << >> THEN NoText
      ELSE IF group.neg THEN NotOf(ParenOf(body)) ELSE body

-----------------------------------------------------------------------------
(* Local validation *)

IsNumeral(item) == item.k = "number"

\* The part validateRuleLocally and validateConditionLocally share: the value.
ValueValid(op, value, type) ==
  op \notin NullOps =>
    /\ value # << >>
    /\ type \in NumericTypes => \A i \in DOMAIN value : IsNumeral(value[i])
    /\ type = "bool" => \A i \in DOMAIN value : value[i].v \in {"true", "false"}

\* validateRuleLocally, with validateArithmeticExpression for its left side
RuleValid(rule) ==
  /\ OperandComplete(rule.left)
  /\ ValueValid(rule.op, rule.value, ValueType(rule))
  /\ ~IsExpression(rule) => rule.op \in OperatorsForType(rule.type)

RECURSIVE RulesOf(_)
\* getAllRules, and countRulesInGroup its length
RulesOf(group) ==
  FlattenSeq([i \in DOMAIN group.children |->
    IF group.children[i].t = "rule" THEN <<group.children[i]>> ELSE RulesOf(group.children[i])])

\* validateFilterConfigLocally of an enabled filter, with validateGroupRecursively
ConfigValid(root) ==
  LET rules == RulesOf(root)
  IN  rules # << >> /\ \A i \in DOMAIN rules : RuleValid(rules[i])

-----------------------------------------------------------------------------
(* Parsing: exprParser.ts *)

ArithmeticOps == {"+", "-", "*", "/", "%"}
NoRule == [t |-> "null"]

RECURSIVE Unwrapped(_)
Unwrapped(x) == IF x.n = "paren" THEN Unwrapped(x.x) ELSE x

\* isArithmeticExpression
LooksArithmetic(x) ==
  LET y == Unwrapped(x) IN y.n = "call" \/ (y.n = "bin" /\ y.op \in ArithmeticOps)

\* toArithmeticOperand: a unary minus, a string or a nested expression in the
\* arguments of a call is not supported.
RECURSIVE ToOperand(_)
ToOperand(x) ==
  CASE x.n = "id" -> Field(x.v)
    [] x.n = "lit" /\ x.kind = "number" -> Literal(Number(x.v))
    [] x.n = "paren" -> ToOperand(x.x)
    [] x.n = "call" ->
         LET args == [i \in DOMAIN x.args |-> ToOperand(x.args[i])]
         IN  IF \E i \in DOMAIN args : args[i].t \in {"none", "node"} THEN NoOperand
             ELSE Function(x.f, args)
    [] x.n = "bin" /\ x.op \in ArithmeticOps ->
         LET l == ToOperand(x.l)
             r == ToOperand(x.r)
         IN  IF NoOperand \in {l, r} THEN NoOperand ELSE Arith(l, x.op, r)
    [] OTHER -> NoOperand

\* The item a literal stands for; extractLiteral refuses everything else.
ItemOf(x) == [k |-> IF x.kind = "string" THEN "text" ELSE x.kind, neg |-> FALSE, v |-> x.v]
IsLiteral(x) == LET y == Unwrapped(x) IN y.n = "lit" /\ y.kind # "nil"

CONSTANT IsInteger(_)      \* whether the text of a number is an integer: Number.isInteger

\* Mutant: booleans are taken for strings.
InferredTypeNoBool(x) ==
  IF x.kind # "number" THEN "string" ELSE IF IsInteger(x.v) THEN "int" ELSE "float64"

\* inferFieldType
InferredType(x) ==
  CASE x.kind = "number" -> IF IsInteger(x.v) THEN "int" ELSE "float64"
    [] x.kind = "bool" -> "bool"
    [] OTHER -> "string"

ComparisonOps == {"==", "!=", ">", "<", ">=", "<="}
OpOf(symbol) == CHOOSE op \in Operators \ NullOps : ExprSymbol(op) = symbol
Swapped(op) ==
  CASE op = "gt" -> "lt" [] op = "lt" -> "gt" [] op = "gte" -> "lte" [] op = "lte" -> "gte"
    [] OTHER -> op

\* transformComparison; NoRule stands for the null it returns with an unsupported feature.
Comparison(x) ==
  LET left == Unwrapped(x.l)
      right == Unwrapped(x.r)
      isName == left.n = "id"
  IN  CASE x.op \in {"in", "not in"} ->
             LET literals == SelectSeq(x.r.elements, LAMBDA e : e.n = "lit")
                 first == Head(x.r.elements)
             IN  IF ~isName \/ x.r.n # "list" THEN NoRule
                 ELSE Rule(Field(left.v),
                           IF x.r.elements # << >> /\ first.n = "lit" THEN InferredType(first) ELSE "string",
                           OpOf(x.op), [i \in DOMAIN literals |-> ItemOf(literals[i])], FALSE)
        [] x.op \notin ComparisonOps \union {"in", "not in"} -> NoRule
        [] x.op \in ComparisonOps /\ x.r.n = "lit" /\ x.r.kind = "nil" ->
             IF ~isName \/ x.op \notin {"==", "!="} THEN NoRule
             ELSE Rule(Field(left.v), "string", IF x.op = "==" THEN "isNull" ELSE "isNotNull", << >>, FALSE)
        [] x.op \in ComparisonOps /\ LooksArithmetic(x.l) ->
             LET operand == ToOperand(x.l)
             IN  IF operand = NoOperand \/ ~IsLiteral(x.r) THEN NoRule
                 ELSE Rule(IF operand.t = "node" THEN operand ELSE Synthetic(operand),
                           ArithmeticType, OpOf(x.op), <<ItemOf(right)>>, FALSE)
        [] isName /\ IsLiteral(x.r) ->
             Rule(Field(left.v), InferredType(right), OpOf(x.op), <<ItemOf(right)>>, FALSE)
        [] right.n = "id" /\ IsLiteral(x.l) ->
             Rule(Field(right.v), InferredType(left), Swapped(OpOf(x.op)), <<ItemOf(left)>>, FALSE)
        [] OTHER -> NoRule

LogicOps == {"and", "or"}

\* The operands of a chain of one combinator; parentheses are not looked through.
RECURSIVE Operands(_, _)
Operands(x, op) ==
  IF x.n = "bin" /\ x.op = op THEN Operands(x.l, op) \o Operands(x.r, op) ELSE <<x>>

\* transformAST: an operand that yields no rule is dropped from its group.
RECURSIVE Transform(_)
Transform(x) ==
  CASE x.n = "paren" -> Transform(x.x)
    [] x.n = "not" ->
         LET inner == Transform(x.x)
         IN  IF inner = NoRule THEN NoRule ELSE [inner EXCEPT !.neg = ~@]
    [] x.n = "bin" /\ x.op \in LogicOps ->
         LET operands == Operands(x, x.op)
             children == SelectSeq([i \in DOMAIN operands |-> Transform(operands[i])],
                                   LAMBDA c : c # NoRule)
         IN  IF children = << >> THEN NoRule
             ELSE IF Len(children) = 1 THEN children[1] ELSE Group(x.op, FALSE, children)
    [] x.n = "bin" /\ x.op \notin LogicOps ->
         Comparison(x)
    [] OTHER -> NoRule

\* parseExprToFilterTree: a single rule is wrapped into a group.
Parsed(text) ==
  LET result == Transform(text)
  IN  IF result.t = "rule" THEN Group("and", FALSE, <<result>>) ELSE result

\* Whether every comparison of a text is supported: canParseExpression.
RECURSIVE Supported(_)
Supported(x) ==
  CASE x.n \in {"paren", "not"} -> Supported(x.x)
    [] x.n = "bin" /\ x.op \in LogicOps -> Supported(x.l) /\ Supported(x.r)
    [] OTHER -> Transform(x) # NoRule

-----------------------------------------------------------------------------
(* What texts and trees mean: a valuation V is the set of comparisons that hold *)

\* A text without its parentheses.
RECURSIVE Bare(_)
Bare(x) ==
  CASE x.n = "paren" -> Bare(x.x)
    [] x.n = "bin" -> BinOf(x.op, Bare(x.l), Bare(x.r))
    [] x.n = "call" -> CallOf(x.f, [i \in DOMAIN x.args |-> Bare(x.args[i])])
    [] OTHER -> x

IsNullTest(x) == x.n = "bin" /\ x.op = "!=" /\ x.r = LitOf("nil", "nil")

RECURSIVE TextHolds(_, _)
TextHolds(x, V) ==
  CASE x.n = "paren" -> TextHolds(x.x, V)
    [] x.n = "not" -> ~TextHolds(x.x, V)
    [] x.n = "bin" /\ x.op = "and" -> TextHolds(x.l, V) /\ TextHolds(x.r, V)
    [] x.n = "bin" /\ x.op = "or" -> TextHolds(x.l, V) \/ TextHolds(x.r, V)
    [] IsNullTest(x) -> [Bare(x) EXCEPT !.op = "=="] \notin V
    [] OTHER -> Bare(x) \in V

RECURSIVE AtomsOf(_)
AtomsOf(x) ==
  CASE x.n \in {"paren", "not"} -> AtomsOf(x.x)
    [] x.n = "bin" /\ x.op \in LogicOps -> AtomsOf(x.l) \union AtomsOf(x.r)
    [] IsNullTest(x) -> {[Bare(x) EXCEPT !.op = "=="]}
    [] OTHER -> {Bare(x)}

\* The comparison a rule stands for, by the type its value should have: a number
\* for an arithmetic left side ("always numeric", utils.ts:440).
Meant(rule) ==
  Bare(RuleText([rule EXCEPT !.neg = FALSE,
                             !.left = IF IsExpression(rule) THEN Field("arithmetic") ELSE @,
                             !.type = IF IsExpression(rule) THEN "float" ELSE @]))
MeantAtom(rule) ==
  IF IsExpression(rule) THEN [Meant(rule) EXCEPT !.l = Bare(OperandText(rule.left))] ELSE Meant(rule)

RECURSIVE TreeHolds(_, _)
TreeHolds(item, V) ==
  IF item.t = "rule"
    THEN item.neg # (IF item.op = "isNotNull" THEN [MeantAtom(item) EXCEPT !.op = "=="] \notin V
                     ELSE MeantAtom(item) \in V)
    ELSE LET rest == SelectSeq(item.children, LAMBDA c : c.t = "rule" \/ RulesOf(c) # << >>)
         IN  item.neg # (IF item.combinator = "and"
                           THEN \A i \in DOMAIN rest : TreeHolds(rest[i], V)
                           ELSE \E i \in DOMAIN rest : TreeHolds(rest[i], V))

SameMeaning(x, y) ==
  \A V \in SUBSET (AtomsOf(x) \union AtomsOf(y)) : TextHolds(x, V) = TextHolds(y, V)

\* A negative number is printed somewhere in the text.
RECURSIVE HasMinus(_)
HasMinus(x) ==
  CASE x.n = "minus" -> TRUE
    [] x.n \in {"paren", "not"} -> HasMinus(x.x)
    [] x.n = "bin" -> HasMinus(x.l) \/ HasMinus(x.r)
    [] x.n = "call" -> \E i \in DOMAIN x.args : HasMinus(x.args[i])
    [] x.n = "list" -> \E i \in DOMAIN x.elements : HasMinus(x.elements[i])
    [] OTHER -> FALSE
HasNegative(root) == HasMinus(GroupText(root))
HasExpression(root) == \E i \in DOMAIN RulesOf(root) : IsExpression(RulesOf(root)[i])
HasFraction(root) ==
  \E i \in DOMAIN RulesOf(root) :
    /\ RulesOf(root)[i].type = "float"
    /\ \E j \in DOMAIN RulesOf(root)[i].value : ~IsInteger(RulesOf(root)[i].value[j].v)

-----------------------------------------------------------------------------
(* Properties of a tree *)

\* What is sent to the backend holds exactly when the tree the user built does,
\* however groups are nested and negated, if the tree passed local validation, which lets
\* no rule pass that printing would leave out (arithmetic left sides apart, whose numbers
\* are printed in quotes).
PrintKeepsMeaning(root) ==
  ConfigValid(root) =>
    /\ \A i \in DOMAIN RulesOf(root) : RuleComplete(RulesOf(root)[i])
    /\ ~HasExpression(root) =>
         LET text == GroupText(root)
         IN  \A V \in SUBSET AtomsOf(text) : TextHolds(text, V) = TreeHolds(root, V)

\* Opening a saved pipeline rebuilds a filter that means what was saved and passes
\* validation as it did: the parser supports every text without a negative number, and the
\* tree it yields prints to an equivalent text (fractions apart: hydrated as float64, they
\* are printed in quotes the second time, and no operator supports their type).
HydrationKeepsMeaning(root) ==
  ConfigValid(root) /\ ~HasNegative(root) =>
    LET text == GroupText(root)
    IN  /\ Supported(text)
        /\ ~HasFraction(root) => ConfigValid(Parsed(text)) /\ SameMeaning(GroupText(Parsed(text)), text)
=============================================================================
