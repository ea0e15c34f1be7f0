---------------------------- MODULE TransformExpr ----------------------------
(***************************************************************************)
(* Transformations of the web UI: a field composed of functions is printed  *)
(* as an expression (modules/transformation/utils.ts) and validated; when a *)
(* deployed pipeline is opened its expressions are read back, either by the *)
(* v2 and v3 adapters (mapTransformToField of modules/pipeline-adapters/    *)
(* v3.ts) or, in edit mode of a v2 pipeline, by hydrateTransformation.      *)
(*                                                                         *)
(* Texts are the syntax trees of FilterExpr.  The code reads them with      *)
(* regular expressions that look at the first and the last character;       *)
(* Mangled stands for what such a reading cuts at the wrong place.          *)
(***************************************************************************)
EXTENDS FilterExpr

-----------------------------------------------------------------------------
(* Names, strings, arguments, fields *)

\* A field name that is an identifier, one that is not (@timestamp), a piece of an
\* expression taken for a name, and none.
Identifier(v) == [id |-> v]
OtherName(v) == [key |-> v]
Mangled(x) == [cut |-> x]
NoName == [none |-> ""]

\* A string, whether it has a quote, and the backslashes in front of that quote.
Str(w, quote) == [w |-> w, quote |-> quote, slashes |-> 0]
Escaped(s) == IF s.quote THEN [s EXCEPT !.slashes = @ + 1] ELSE s

\* Function arguments: FunctionArg of store/transformation.store.ts.  A number is plain,
\* a held text is a string literal that contains an expression.
FieldArg(name) == [t |-> "field", name |-> name]
StringArg(s) == [t |-> "string", s |-> s]
PlainArg(x) == [t |-> "plain", x |-> x]
HeldText(x) == [t |-> "held", x |-> x]
ArrayArg(items) == [t |-> "array", items |-> items]
WaterfallArg(items) == [t |-> "waterfall", items |-> items]
ConcatArg(items, chain) == [t |-> "concat", items |-> items, chain |-> chain]
NestedArg(f, args) == [t |-> "nested", f |-> f, args |-> args]

NoArithmetic == [op |-> "none"]
Arithmetic(op, operand) == [op |-> op, operand |-> operand]   \* NoText: not a number

RawMarker == "__raw_expression__"
Passthrough(source, arith) ==
  [type |-> "passthrough", mode |-> "simple", raw |-> NoText, f |-> "", args |-> <<>>,
   source |-> source, arith |-> arith, named |-> TRUE]
Computed(f, args, arith) ==
  [Passthrough(NoName, arith) EXCEPT !.type = "computed", !.f = f, !.args = args]
Raw(x) ==
  [Computed(RawMarker, <<HeldText(x)>>, NoArithmetic) EXCEPT !.mode = "raw", !.raw = x]

-----------------------------------------------------------------------------
(* Printing *)

StrOf(s) == [n |-> "str", s |-> s]
EnvOf(name) == [n |-> "env", name |-> name]      \* $env["name"]

FieldNameToExpr(name) ==
  IF name = NoName THEN NoText ELSE IF DOMAIN name = {"id"} THEN IdOf(name.id) ELSE EnvOf(name)

NonBlank(texts) == SelectSeq(texts, LAMBDA x : x # NoText)

\* The texts an argument puts between the commas of a call: the slots of a concat are
\* arguments of the call it stands in.
RECURSIVE ArgTexts(_)
ArgTexts(arg) ==
  LET all(args) == FlattenSeq([i \in DOMAIN args |-> ArgTexts(args[i])])
      wrap(x, func) == IF func.f = "" THEN x ELSE CallOf(func.f, <<x>> \o all(func.args))
  IN  CASE arg.t = "field" -> <<FieldNameToExpr(arg.name)>>
        [] arg.t = "string" -> <<StrOf(Escaped(arg.s))>>
        [] arg.t = "plain" -> <<arg.x>>
        [] arg.t = "held" -> <<StrOf(arg.x)>>
        [] arg.t = "array" -> <<ListOf(all(arg.items))>>
        [] arg.t = "waterfall" -> <<ListOf(NonBlank(all(arg.items)))>>
        [] arg.t = "nested" -> <<IF arg.f = "" THEN NoText ELSE CallOf(arg.f, all(arg.args))>>
        [] arg.t = "concat" /\ arg.chain = <<>> -> NonBlank(all(arg.items))
        [] OTHER -> <<FoldLeft(wrap, CallOf("concat", NonBlank(all(arg.items))), arg.chain)>>

WithArithmetic(x, arith) ==
  IF x = NoText \/ arith = NoArithmetic THEN x ELSE BinOf(arith.op, x, arith.operand)

\* Mutant: the text held by the marker's argument is not looked for.
NoFallback(field) == field.raw

RawText(field) ==
  IF field.raw = NoText /\ field.args # <<>> /\ field.args[1].t = "held" THEN field.args[1].x
  ELSE field.raw

ComputedFieldToExpr(field) ==
  LET callText == ArgTexts(NestedArg(field.f, field.args))[1]
      chained == field.f = "concat" /\ Len(field.args) = 1
                 /\ field.args[1].t = "concat" /\ field.args[1].chain # <<>>
  IN  CASE field.mode = "raw" /\ field.raw # NoText -> field.raw
        [] field.f = RawMarker -> RawText(field)
        [] field.f = "" ->
             IF field.args # <<>> /\ field.args[1].t = "field" /\ field.arith # NoArithmetic
             THEN WithArithmetic(FieldNameToExpr(field.args[1].name), field.arith) ELSE NoText
        [] chained -> WithArithmetic(ArgTexts(field.args[1])[1], field.arith)
        [] OTHER -> WithArithmetic(callText, field.arith)

FieldToExpr(field) ==
  IF field.type = "computed" THEN ComputedFieldToExpr(field)
  ELSE WithArithmetic(FieldNameToExpr(field.source), field.arith)

-----------------------------------------------------------------------------
(* Validation; every argument of every function of functions.ts is required *)

KnownFunctions ==
  [f \in {"parseQuery", "urlDecode", "extractPathType", "lower", "upper", "trim", "toString", "toInt",
          "toFloat", "parseISO8601", "toDate", "keys", "len"} |-> <<"field">>]
  @@ [f \in {"getQueryParam", "getNestedParam", "split", "join", "contains", "hasPrefix", "hasSuffix",
             "parseUserAgent"} |-> <<"field", "literal">>]
  @@ [f \in {"hasKeyPrefix", "hasAnyKey"} |-> <<"field", "array">>]
  @@ [f \in {"replace"} |-> <<"field", "literal", "literal">>]
  @@ [f \in {"concat"} |-> <<"concat_array">>] @@ [f \in {"waterfall"} |-> <<"waterfall_array">>]

Known(f) == f \in DOMAIN KnownFunctions

\* A field must be chosen for a field, a text entered for a literal.
Given(arg) == (arg.t = "field" => arg.name # NoName) /\ (arg.t = "string" => arg.s.w # "")
GivenFor(kind, arg) ==
  IF arg.t = "field" THEN kind = "field" => Given(arg) ELSE kind = "literal" => Given(arg)

RECURSIVE NestedValid(_)
NestedValid(arg) ==
  /\ Known(arg.f) /\ Len(arg.args) >= Len(KnownFunctions[arg.f])
  /\ \A i \in DOMAIN arg.args :
       /\ arg.args[i].t = "nested" => NestedValid(arg.args[i])
       /\ arg.args[i].t = "field" => Given(arg.args[i])

\* A call in a slot or after a concat, with the kinds of the arguments it takes there.
FlatCallValid(f, args, kinds) ==
  Known(f) /\ Len(args) >= Len(kinds) /\ \A i \in DOMAIN kinds : GivenFor(kinds[i], args[i])

WaterfallSlotValid(slot) ==
  IF slot.t = "nested"
  THEN Known(slot.f) /\ FlatCallValid(slot.f, slot.args, KnownFunctions[slot.f]) ELSE Given(slot)

ConcatValid(arg) ==
  /\ arg.items # <<>>
  /\ \A i \in DOMAIN arg.items : arg.items[i].t = "field" => Given(arg.items[i])
  /\ \A i \in DOMAIN arg.chain :
       LET func == arg.chain[i]
       IN  Known(func.f) /\ FlatCallValid(func.f, func.args, Tail(KnownFunctions[func.f]))

ArgValid(kind, arg) ==
  CASE arg.t = "waterfall" -> Len(arg.items) >= 2 /\ \A i \in DOMAIN arg.items : WaterfallSlotValid(arg.items[i])
    [] arg.t = "concat" -> ConcatValid(arg)
    [] arg.t = "nested" -> NestedValid(arg)
    [] OTHER -> GivenFor(kind, arg)

\* A field with arithmetic needs no function; its function and arguments are not looked at.
OnlyArithmetic(field) ==
  field.args # <<>> /\ field.args[1].t = "field" /\ field.args[1].name # NoName /\ field.arith # NoArithmetic

ValidateFieldLocally(field) ==
  /\ field.named
  /\ field.mode # "raw" /\ field.f # RawMarker /\ field.arith # NoArithmetic => field.arith.operand # NoText
  /\ CASE field.type = "passthrough" -> field.source # NoName
       [] field.mode = "raw" -> field.raw # NoText
       [] field.f = RawMarker -> RawText(field) # NoText
       [] OnlyArithmetic(field) -> TRUE
       [] OTHER ->
            /\ Known(field.f) /\ Len(field.args) >= Len(KnownFunctions[field.f])
            /\ \A i \in DOMAIN KnownFunctions[field.f] : ArgValid(KnownFunctions[field.f][i], field.args[i])

\* What is deployed: isFieldComplete, then toTransformArray drops fields without a text.
IsFieldComplete(field) ==
  /\ field.named
  /\ CASE field.type = "passthrough" -> field.source # NoName
       [] field.mode = "raw" -> field.raw # NoText
       [] OTHER -> OnlyArithmetic(field) \/ (field.f # "" /\ field.args # <<>>)
ToTransform(field) == IF IsFieldComplete(field) THEN FieldToExpr(field) ELSE NoText

-----------------------------------------------------------------------------
(* Reading: the adapters *)

RECURSIVE StartsWithCall(_)      \* the name of the call a text starts with, "" if none
StartsWithCall(x) == CASE x.n = "call" -> x.f [] x.n = "bin" -> StartsWithCall(x.l) [] OTHER -> ""
RECURSIVE EndsWithParen(_)
EndsWithParen(x) ==
  CASE x.n \in {"call", "paren"} -> TRUE [] x.n = "bin" -> EndsWithParen(x.r)
    [] x.n \in {"minus", "not"} -> EndsWithParen(x.x) [] OTHER -> FALSE
\* /^ident\(.+\)$/
LooksLikeCall(x) == StartsWithCall(x) # "" /\ EndsWithParen(x) /\ (x.n = "call" => x.args # <<>>)

IsName(x) == x.n \in {"id", "env"}
ExprToFieldName(x) == IF x.n = "id" THEN Identifier(x.v) ELSE x.name
Unsigned(x) == IF x.n = "minus" THEN x.x ELSE x
IsNumberText(x) == Unsigned(x).n = "lit" /\ Unsigned(x).kind = "number"
IsIntegerText(x) == IsNumberText(x) /\ IsInteger(Unsigned(x).v)

\* Strings keep the backslashes of the text; every item of a list becomes a string.
ReadStringItem(x) == IF x.n = "str" THEN StringArg(x.s) ELSE HeldText(x)
ReadArg(x) ==
  CASE x.n = "str" -> StringArg(x.s)
    [] x.n = "list" -> ArrayArg([i \in DOMAIN x.elements |-> ReadStringItem(x.elements[i])])
    [] IsIntegerText(x) -> PlainArg(x)
    [] OTHER -> FieldArg(IF IsName(x) THEN ExprToFieldName(x) ELSE Mangled(x))

MapTransformToField(x) ==
  CASE IsName(x) -> Passthrough(ExprToFieldName(x), NoArithmetic)
    [] LooksLikeCall(x) /\ x.n = "call" -> Computed(x.f, [i \in DOMAIN x.args |-> ReadArg(x.args[i])], NoArithmetic)
    [] LooksLikeCall(x) /\ x.n # "call" -> Computed(StartsWithCall(x), <<FieldArg(Mangled(x))>>, NoArithmetic)
    [] OTHER -> [Raw(x) EXCEPT !.mode = "simple"]

\* hydrateTransformation takes over the function and its arguments only.
Reopened(x) == [MapTransformToField(x) EXCEPT !.raw = NoText]

-----------------------------------------------------------------------------
(* Reading: hydrateTransformation, in edit mode of a v2 pipeline *)

RECURSIVE HasOuterComparison(_)
HasOuterComparison(x) ==
  CASE x.n = "bin" -> x.op \in ComparisonOps \/ HasOuterComparison(x.l) \/ HasOuterComparison(x.r)
    [] OTHER -> x.n = "not"

\* A text that ends with an operator and an unsigned number: parseArithmeticModifier.
RECURSIVE ArithmeticModifier(_)
ArithmeticModifier(x) ==
  IF x.n # "bin" THEN [base |-> x, arith |-> NoArithmetic]
  ELSE IF x.r.n = "lit" /\ x.r.kind = "number" THEN [base |-> x.l, arith |-> Arithmetic(x.op, x.r)]
  ELSE LET r == ArithmeticModifier(x.r)
       IN  [base |-> IF r.arith = NoArithmetic THEN x ELSE BinOf(x.op, x.l, r.base), arith |-> r.arith]

CallShaped(x) == StartsWithCall(x) # "" /\ EndsWithParen(x)

\* In a list with a call the other items are printed bare, in one without all are strings.
RECURSIVE ParseArgument(_)
ParseArgument(x) ==
  LET hasCall == \E i \in DOMAIN x.elements : CallShaped(x.elements[i])
      item(y) == CASE CallShaped(y) -> ParseArgument(y)
                   [] hasCall -> PlainArg(IF y.n = "str" THEN [n |-> "bare", s |-> y.s] ELSE y)
                   [] OTHER -> ReadStringItem(y)
  IN  CASE x.n = "str" -> StringArg(x.s)
        [] x.n = "list" -> ArrayArg([i \in DOMAIN x.elements |-> item(x.elements[i])])
        [] IsNumberText(x) -> PlainArg(x)
        [] CallShaped(x) /\ x.n = "call" -> NestedArg(x.f, [i \in DOMAIN x.args |-> ParseArgument(x.args[i])])
        [] CallShaped(x) /\ x.n # "call" -> NestedArg(StartsWithCall(x), <<FieldArg(Mangled(x))>>)
        [] OTHER -> FieldArg(IF x.n = "id" THEN Identifier(x.v) ELSE Mangled(x))

HydrateStateless(x) ==
  LET split == ArithmeticModifier(x)
      call == ParseArgument(split.base)
  IN  IF x.n = "id" THEN Passthrough(Identifier(x.v), NoArithmetic)
      ELSE IF HasOuterComparison(x) \/ ~CallShaped(split.base) THEN Raw(x)
      ELSE Computed(call.f, call.args, split.arith)

-----------------------------------------------------------------------------
(* Properties *)

Plain(x) == x.n = "str" /\ ~x.s.quote
AllPlain(x) == x.n = "list" /\ \A i \in DOMAIN x.elements : Plain(x.elements[i])

\* What the adapters read back: everything that does not look like a call, and calls of
\* fields, strings without quotes, integers and lists of such strings.
AdapterReads(x) ==
  LooksLikeCall(x) =>
    x.n = "call" /\ \A i \in DOMAIN x.args :
      LET a == x.args[i] IN IsName(a) \/ Plain(a) \/ AllPlain(a) \/ IsIntegerText(a)

\* What hydrateTransformation reads back: fractions and nested calls as well, but no field
\* whose name is not an identifier.
RECURSIVE ArgumentReads(_)
ArgumentReads(x) ==
  \/ x.n = "id" \/ Plain(x) \/ AllPlain(x) \/ IsNumberText(x)
  \/ x.n = "call" /\ \A i \in DOMAIN x.args : ArgumentReads(x.args[i])
  \/ /\ x.n = "list" /\ \E i \in DOMAIN x.elements : CallShaped(x.elements[i])
     /\ \A i \in DOMAIN x.elements :
          x.elements[i].n # "str" /\ (CallShaped(x.elements[i]) => ArgumentReads(x.elements[i]))
StatelessReads(x) ==
  LET base == ArithmeticModifier(x).base
  IN  CallShaped(base) /\ ~HasOuterComparison(x) => base.n = "call" /\ base.args # <<>> /\ ArgumentReads(base)

\* A composed field that is read back is valid still; a raw expression may use functions
\* that are not in functions.ts.
SameField(field, reopened) ==
  /\ ToTransform(reopened) = ToTransform(field)
  /\ field.mode # "raw" => ValidateFieldLocally(reopened)

\* A field that passes validation is deployed, and what either reader can read of it is
\* deployed unchanged when the pipeline is opened and resumed.
TransformIsKept(field) ==
  LET x == ToTransform(field)
  IN  ValidateFieldLocally(field) =>
        /\ x # NoText
        /\ AdapterReads(x) => SameField(field, Reopened(x))
        /\ StatelessReads(x) => SameField(field, HydrateStateless(x))

\* "For complex expressions that can't be parsed (nested calls, ternaries, etc.), we store
\* the raw expression" (v2.ts:103): refuted, nested calls are cut into field names.
ReopenedIsSame(field) ==
  ValidateFieldLocally(field) => ToTransform(Reopened(ToTransform(field))) = ToTransform(field)
=============================================================================
