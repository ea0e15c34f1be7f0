---------------------------- MODULE FilterInput ----------------------------
(***************************************************************************)
(* What the filter editor shows and accepts: the display of an arithmetic   *)
(* expression with as few parentheses as possible, the expressions typed in *)
(* manual mode (modules/filter/parser/arithmeticParser.ts), the numbers     *)
(* typed in either locale's notation, and the flat conditions of older      *)
(* configurations (modules/filter/utils.ts, store/filter.store.ts).         *)
(***************************************************************************)
EXTENDS FilterExpr

-----------------------------------------------------------------------------
(* Display: arithmeticExpressionToDisplayString.  A text is a sequence of tokens; a *)
(* field, a number and a call are one token each.                                   *)

Precedence(op) == IF op \in {"+", "-"} THEN 1 ELSE 2
Associative == {"+", "*"}
Top == "top"

\* Mutant: the right operand of a subtraction or a division gets none.
NeedsParensIgnoresSide(op, parent, isRight) ==
  parent # Top /\ Precedence(op) < Precedence(parent)

NeedsParens(op, parent, isRight) ==
  /\ parent # Top
  /\ ~(op = parent /\ op \in Associative)
  /\ \/ Precedence(op) < Precedence(parent)
     \/ Precedence(op) = Precedence(parent) /\ isRight /\ parent \notin Associative

\* A synthetic node shows its left side only, as the left operand of "+".
RECURSIVE Display(_, _, _)
Display(o, parent, isRight) ==
  CASE o.t = "field" -> <<o.f>>
    [] o.t = "literal" -> <<o.item.v>>
    [] o.t = "function" -> <<o.f>>
    [] o.t = "node" /\ IsSynthetic(o) -> Display(o.l, "+", FALSE)
    [] OTHER ->
         LET inner == Display(o.l, o.op, FALSE) \o <<o.op>> \o Display(o.r, o.op, TRUE)
         IN  IF NeedsParens(o.op, parent, isRight) THEN <<"(">> \o inner \o <<")">> ELSE inner

\* Values of expressions in a field where every law of +, -, * and / holds and % obeys none.
CONSTANT ValueOf(_)     \* the value, below Prime, of a field, a number or a call
Prime == 7

Apply(op, x, y) ==
  (CASE op = "+" -> x + y
     [] op = "-" -> x - y + Prime
     [] op = "*" -> x * y
     [] op = "/" -> x * y * y * y * y * y
     [] op = "%" -> x * x + 3 * y + 1) % Prime

RECURSIVE OperandValue(_)
OperandValue(o) ==
  CASE o.t = "field" -> ValueOf(o.f)
    [] o.t = "literal" -> (IF o.item.neg THEN Prime - ValueOf(o.item.v) ELSE ValueOf(o.item.v)) % Prime
    [] o.t = "function" -> ValueOf(o.f)
    [] o.t = "node" -> Apply(o.op, OperandValue(o.l), OperandValue(o.r))

\* How a reader understands a text: the last operator of the lowest precedence that is
\* outside all parentheses is applied last.
RECURSIVE Read(_)
Read(text) ==
  LET depth[i \in 0..Len(text)] ==
        IF i = 0 THEN 0
        ELSE depth[i - 1] + (CASE text[i] = "(" -> 1 [] text[i] = ")" -> -1 [] OTHER -> 0)
      at(p) == {i \in DOMAIN text : text[i] \in ArithmeticOps /\ depth[i] = 0 /\ Precedence(text[i]) = p}
      last(S) == CHOOSE i \in S : \A j \in S : j <= i
      apply(i) == Apply(text[i], Read(SubSeq(text, 1, i - 1)), Read(SubSeq(text, i + 1, Len(text))))
  IN  IF at(1) # {} THEN apply(last(at(1)))
      ELSE IF at(2) # {} THEN apply(last(at(2)))
      ELSE IF text[1] = "(" THEN Read(SubSeq(text, 2, Len(text) - 1))
      ELSE ValueOf(text[1])

\* Displayed as the right operand of a product, o is a chain without parentheses in which
\* a remainder is taken.
RECURSIVE BareRemainder(_)
BareRemainder(o) ==
  /\ o.t = "node" /\ ~IsSynthetic(o) /\ Precedence(o.op) = 2
  /\ o.op = "%" \/ BareRemainder(o.l)

\* The two shapes the display gets wrong: a remainder to the right of a product, and a
\* synthetic node below another node.
RECURSIVE Misread(_)
Misread(o) ==
  o.t = "node" /\ \/ Misread(o.l) \/ Misread(o.r)
                  \/ o.op = "*" /\ BareRemainder(o.r)
                  \/ \E x \in {o.l, o.r} : x.t = "node" /\ IsSynthetic(x)

\* "Add parentheses only when needed for correct evaluation" (utils.ts:283): read with
\* the usual precedences, the flattened display has the value of the expression.
DisplayReadsBack(e) == ~Misread(e) => Read(Display(e, Top, FALSE)) = OperandValue(e)

-----------------------------------------------------------------------------
(* Manual mode: parseArithmeticExpression *)

\* parseArithmeticNode: a text with anything in it that is no arithmetic has no node;
\* only a call goes on without such an argument.
RECURSIVE ArithmeticNode(_)
ArithmeticNode(x) ==
  LET inner == IF x.n \in {"paren", "minus"} THEN ArithmeticNode(x.x) ELSE NoText
  IN  CASE x.n = "id" \/ (x.n = "lit" /\ x.kind = "number") -> x
        [] x.n \in {"paren", "minus"} -> IF inner = NoText THEN NoText ELSE [x EXCEPT !.x = inner]
        [] x.n = "call" ->
             CallOf(x.f, SelectSeq([i \in DOMAIN x.args |-> ArithmeticNode(x.args[i])],
                                   LAMBDA a : a # NoText))
        [] x.n = "bin" /\ x.op \in ArithmeticOps ->
             LET l == ArithmeticNode(x.l)
                 r == ArithmeticNode(x.r)
             IN  IF NoText \in {l, r} THEN NoText ELSE BinOf(x.op, l, r)
        [] OTHER -> NoText

\* transformToOperand of a node; NoOperand is its error.  A minus before anything but a
\* number is lost.
RECURSIVE ManualOperand(_, _)
ManualOperand(x, fields) ==
  CASE x.n = "id" -> IF x.v \in fields THEN Field(x.v) ELSE NoOperand
    [] x.n = "lit" -> Literal(Number(x.v))
    [] x.n = "paren" -> ManualOperand(x.x, fields)
    [] x.n = "minus" -> IF x.x.n = "lit" THEN Literal(Negative(x.x.v)) ELSE ManualOperand(x.x, fields)
    [] x.n = "call" ->
         LET args == [i \in DOMAIN x.args |-> ManualOperand(x.args[i], fields)]
         IN  IF \E i \in DOMAIN args : args[i].t \in {"none", "node"} THEN NoOperand
             ELSE Function(x.f, args)
    [] x.n = "bin" ->
         LET l == ManualOperand(x.l, fields)
             r == ManualOperand(x.r, fields)
         IN  IF NoOperand \in {l, r} THEN NoOperand ELSE Arith(l, x.op, r)

\* Mutant: the two sides of the outermost operator are swapped.
ManualExpressionSwapped(x, fields) ==
  LET o == ManualOperand(x, fields)
  IN  IF o.t = "node" THEN Arith(o.r, o.op, o.l)
      ELSE IF o.t = "none" THEN o ELSE Synthetic(o)

\* transformToExpression: a single operand is wrapped.
ManualExpression(x, fields) ==
  LET o == ManualOperand(x, fields)
  IN  IF o.t \in {"none", "node"} THEN o ELSE Synthetic(o)

\* parseArithmeticExpression; NoOperand when it does not succeed.
Manual(x, fields) ==
  LET node == ArithmeticNode(x)
  IN  IF node = NoText THEN NoOperand ELSE ManualExpression(node, fields)

RECURSIVE LosesPart(_, _)
LosesPart(x, fields) ==
  CASE x.n = "paren" -> LosesPart(x.x, fields)
    [] x.n = "minus" -> x.x.n # "lit" \/ x.x.kind # "number"
    [] x.n = "bin" -> LosesPart(x.l, fields) \/ LosesPart(x.r, fields)
    [] x.n = "call" -> \E i \in DOMAIN x.args :
                         LosesPart(x.args[i], fields) \/ ArithmeticNode(x.args[i]) = NoText
    [] OTHER -> FALSE

RECURSIVE FieldsOf(_)
FieldsOf(o) ==
  CASE o.t = "field" -> {o.f}
    [] o.t = "node" -> FieldsOf(o.l) \union FieldsOf(o.r)
    [] o.t = "function" -> UNION {FieldsOf(o.args[i]) : i \in DOMAIN o.args}
    [] OTHER -> {}

\* An expression accepted in manual mode is printed as the text typed and names
\* fields of the event only (a lost minus or argument apart).
ManualIsAsTyped(x, fields) ==
  LET o == Manual(x, fields)
  IN  o # NoOperand => /\ FieldsOf(o) \subseteq fields
                       /\ ~LosesPart(x, fields) => Bare(OperandText(o)) = Bare(x)

-----------------------------------------------------------------------------
(* Numbers: normalizeNumericInput, parseValueForType.  A text is a sequence of the *)
(* characters "1", "2", "," and ".".                                               *)

Without(text, c) == SelectSeq(text, LAMBDA d : d # c)
LastAt(text, c) == Max({0} \union {i \in DOMAIN text : text[i] = c})
FirstReplaced(text, c, d) ==
  LET at == {i \in DOMAIN text : text[i] = c}
  IN  IF at = {} THEN text ELSE [text EXCEPT ![Min(at)] = d]

Normalized(text) ==
  IF {",", "."} \subseteq Range(text)
    THEN IF LastAt(text, ",") > LastAt(text, ".")
           THEN FirstReplaced(Without(text, "."), ",", ".")
           ELSE Without(text, ",")
    ELSE FirstReplaced(text, ",", ".")

\* Number(text) is not NaN.
IsNumber(text) ==
  /\ "," \notin Range(text)
  /\ Cardinality({i \in DOMAIN text : text[i] = "."}) <= 1
  /\ \E i \in DOMAIN text : text[i] # "."

\* parseValueForType for a numeric type: the text itself if it is no number.
ParsedNumber(text) == IF IsNumber(Normalized(text)) THEN Normalized(text) ELSE text

\* A number written with both separators, the decimal one once and last, is read with
\* that decimal separator, in the English and in the European notation.
BothLocalesRead(text) ==
  \A c \in {",", "."} :
    LET other == IF c = "," THEN "." ELSE ","
        at == {i \in DOMAIN text : text[i] = c}
    IN  /\ Cardinality(at) = 1 /\ LastAt(text, other) # 0 /\ LastAt(text, other) < Max(at)
        /\ \E i \in DOMAIN text : text[i] \notin {",", "."}
        => ParsedNumber(text) = Without(SubSeq(text, 1, Max(at) - 1), other) \o <<".">>
                                \o SubSeq(text, Max(at) + 1, Len(text))

-----------------------------------------------------------------------------
(* Flat conditions: conditionToExpr, the legacy branch of toExprString *)

\* Conditions with an empty value are left out, those that need none included.
LegacyText(conditions, combinator) ==
  LET kept == SelectSeq(conditions, LAMBDA c : c.left.f # "" /\ c.value # << >>)
  IN  IF kept = << >> THEN NoText
      ELSE Joined([i \in DOMAIN kept |-> RuleText(kept[i])], combinator)

\* validateConditionLocally
ConditionValid(c) ==
  c.left.f # "" /\ ValueValid(c.op, c.value, c.type) /\ c.op \in OperatorsForType(c.type)

\* Mutant: the combinator of the flat form is not taken over.
MigratedAsAnd(conditions, combinator) == Group("and", FALSE, conditions)

\* migrateToTreeStructure
Migrated(conditions, combinator) == Group(combinator, FALSE, conditions)

\* Migrating valid flat conditions to a tree keeps their meaning (null checks apart,
\* which the flat form never printed).
MigrationKeepsMeaning(conditions, combinator) ==
  /\ conditions # << >>
  /\ \A i \in DOMAIN conditions : ConditionValid(conditions[i]) /\ conditions[i].op \notin NullOps
  => SameMeaning(LegacyText(conditions, combinator), GroupText(Migrated(conditions, combinator)))
=============================================================================
