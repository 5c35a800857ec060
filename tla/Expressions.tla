---------------------------- MODULE Expressions ----------------------------
(***************************************************************************)
(* Expressions of the rules: parseExpression (src/RuleInterpreter.cpp)     *)
(* turns one into a list of tokens in prefix order, and                    *)
(* evaluationExpression (lib/variables/EnvironmentMgr.cpp) computes a      *)
(* value from such a list, its calls advancing one shared iterator.        *)
(*                                                                         *)
(* A node of the syntax tree is a record whose "form" says which of its    *)
(* fields the tree-sitter grammar gives it: "leaf" (text), "builtin"       *)
(* (subject, name, args), "not" (operand) and "binary" (symbol, blanks,    *)
(* lhs, rhs), where "blanks" counts the spaces, at least one, between the  *)
(* left operand and the operator.                                          *)
(***************************************************************************)
EXTENDS Integers, Sequences, SequencesExt

CONSTANTS
    Terms,          \* the expressions of the rules, and their parts
    Depth,          \* expression -> how deep it is nested
    Stacks,         \* stacks of scopes, each a function from names to values
    SizeOfVariant   \* sizeof(varType), the size of what is no container

VARIABLE answer     \* the guard evaluated last, where, and the result

BuiltinMap == {"size", "contains", "collect", "upfrom"}
OperatorMap == {"=", "!", "+", "|"}

Boolean(b) == [type |-> "bool", data |-> b]
Integer(i) == [type |-> "int", data |-> i]

\* varType; a list or a map is what identifies its entries.
Variants ==
    [type : {"bool"}, data : BOOLEAN] \cup [type : {"int"}, data : Int]
    \cup [type : {"string"}, data : STRING] \cup [type : {"list", "map"}, data : Seq(STRING)]

Parts(e) ==
    CASE e.form = "leaf"    -> {}
      [] e.form = "builtin" -> Range(e.args)
      [] e.form = "not"     -> {e.operand}
      [] e.form = "binary"  -> {e.lhs, e.rhs}

\* The grammar of an expression.
ASSUME TermsAssumption ==
    /\ Depth \in [Terms -> Nat]
    /\ \A e \in Terms :
          /\ \/ e.form = "leaf" /\ e.text \in STRING \ OperatorMap
             \/ /\ e.form = "builtin" /\ e.subject \in STRING /\ e.name \in BuiltinMap
                /\ e.args \in Seq(Terms)
             \/ e.form = "not"
             \/ e.form = "binary" /\ e.symbol \in {"=", "+", "||"}
          /\ \A part \in Parts(e) : part \in Terms /\ Depth[part] < Depth[e]

ASSUME VariantAssumption == SizeOfVariant \in Nat

ASSUME StacksAssumption ==
    \A scopes \in Stacks :
        \A depth \in DOMAIN scopes :
            \A name \in DOMAIN scopes[depth] : scopes[depth][name] \in Variants

\* The character one past the end of the left operand and a space.
OperatorChar(e) ==
    IF e.blanks # 1 THEN " " ELSE IF e.symbol = "||" THEN "|" ELSE e.symbol

Name(e) == IF e.text = "all" THEN "players" ELSE e.text

\* The tokens appended to expressionList.
ParseExpression[e \in Terms] ==
    CASE e.form = "builtin" ->
            <<e.subject, e.name>> \o FlattenSeq([i \in DOMAIN e.args |-> ParseExpression[e.args[i]]])
      [] e.form = "not"     -> <<"!">> \o ParseExpression[e.operand]
      [] e.form = "binary"  -> <<OperatorChar(e)>> \o ParseExpression[e.lhs] \o ParseExpression[e.rhs]
      [] e.form = "leaf"    -> <<Name(e)>>

-----------------------------------------------------------------------------
(* Evaluation *)

\* The value of a call and where it leaves the iterator.
Value(v, at) == [fails |-> FALSE, value |-> v, at |-> at]

\* A null scope or Variable dereferenced, a variant of another type, or a
\* read past the last token.
Failure == [fails |-> TRUE]

\* operator== of two variants; that of two lists or maps compares the shared
\* pointers they hold, so equal ones have the very same entries.
SameValue(v, w) == v.type = w.type /\ v.data = w.data

Size(v) == Integer(IF v.type \in {"list", "map"} THEN Len(v.data) ELSE SizeOfVariant)

\* Slip used by a mutant: contains takes no more than size, and leaves its argument.
SkipsShort == [size |-> 2, contains |-> 2, collect |-> 5, upfrom |-> 3]

\* The tokens each builtin takes.
Skips == [size |-> 2, contains |-> 3, collect |-> 5, upfrom |-> 3]

\* Only size is computed; the calls that would compute the others are commented
\* out, and a fixed value is returned in their place.
BuiltinValue(name, list) == IF name = "size" THEN Size(list) ELSE Boolean(name = "contains")

\* The list is looked up in the scope of the call, and by size only.
EvaluateBuiltin(tokens, at, scope) ==
    LET list == tokens[at]
        name == tokens[at + 1]
    IN  IF name = "size" /\ list \notin DOMAIN scope THEN Failure
        ELSE Value(BuiltinValue(name, IF name = "size" THEN scope[list] ELSE <<>>), at + Skips[name])

\* lhs and rhs are what the two calls return.  The operands of = and + may be
\* evaluated in either order; whichever comes first takes the first tokens,
\* and both operators are commutative.
EvaluateOperator(operator, lhs, rhs) ==
    LET IsA(type, r) == ~r.fails /\ r.value.type = type
    IN  CASE operator = "!" ->
                IF IsA("bool", lhs) THEN Value(Boolean(~lhs.value.data), lhs.at) ELSE Failure
          [] operator = "=" ->
                IF lhs.fails \/ rhs.fails THEN Failure
                ELSE Value(Boolean(SameValue(lhs.value, rhs.value)), rhs.at)
          [] operator = "+" ->
                IF IsA("int", lhs) /\ IsA("int", rhs)
                THEN Value(Integer(lhs.value.data + rhs.value.data), rhs.at)
                ELSE Failure
          [] operator = "|" ->
                IF IsA("bool", lhs) /\ lhs.value.data
                THEN lhs   \* the right operand stays on the iterator
                ELSE IF IsA("bool", lhs) /\ IsA("bool", rhs) THEN rhs ELSE Failure

\* scopes is the stack of scopes, scope the one of the call.  A name, or a
\* literal, that no scope binds dereferences the null that hasVar returned;
\* one bound in another scope than that of the call dereferences the null
\* that getVariable returned.
EvaluationExpression(tokens, start, scopes, scope) ==
    LET call[at \in Nat] ==
            IF at > Len(tokens) THEN Failure
            ELSE IF at < Len(tokens) /\ tokens[at + 1] \in BuiltinMap
                 THEN EvaluateBuiltin(tokens, at, scope)
            ELSE IF at < Len(tokens) /\ tokens[at] \in OperatorMap
                 THEN EvaluateOperator(tokens[at], call[at + 1], call[call[at + 1].at])
            ELSE IF (\E s \in Range(scopes) : tokens[at] \in DOMAIN s) /\ tokens[at] \in DOMAIN scope
                 THEN Value(scope[tokens[at]], at + 1)
            ELSE Failure
    IN  call[start]

NoAnswer == [asked |-> <<>>]

\* The tokens of a guard are evaluated for the scope at some depth.
Evaluate(guard, scopes, depth) ==
    /\ answer = NoAnswer
    /\ answer' = [asked |-> guard, scope |-> scopes[depth],
                  result |-> EvaluationExpression(ParseExpression[guard], 1, scopes, scopes[depth])]

ExpressionsNext ==
    \E guard \in Terms, scopes \in Stacks : \E depth \in DOMAIN scopes : Evaluate(guard, scopes, depth)

ExpressionsSpec == answer = NoAnswer /\ [][ExpressionsNext]_answer

-----------------------------------------------------------------------------
(* What an expression means and how its tokens divide, by its tree alone:  *)
(* nothing below uses what the evaluator returns or skips for a builtin.   *)

None == [type |-> "none", data |-> FALSE]

Bound(name, scope) == IF name \in DOMAIN scope THEN scope[name] ELSE None

\* The size of a list or a map is the number of its entries.  No value is
\* claimed of the size of anything else, nor of contains, collect and upfrom,
\* whose conditions the code never looks at.
BuiltinMeans(name, v) ==
    IF name = "size" /\ v.type \in {"list", "map"} THEN Integer(Len(v.data)) ELSE None

NotMeans(v) == IF v.type = "bool" THEN Boolean(~v.data) ELSE None

BinaryMeans(symbol, v, w) ==
    IF "none" \in {v.type, w.type} THEN None
    ELSE IF symbol = "=" THEN Boolean(SameValue(v, w))
    ELSE IF symbol = "+" /\ {v.type, w.type} = {"int"} THEN Integer(v.data + w.data)
    ELSE IF symbol = "||" /\ {v.type, w.type} = {"bool"} THEN Boolean(v.data \/ w.data)
    ELSE None

\* What an expression means in a scope; None if the scope does not bind what
\* it needs, or binds it with another type, or no value is claimed of it.
Means(term, scope) ==
    LET means[e \in Terms] ==
            CASE e.form = "leaf"    -> Bound(Name(e), scope)
              [] e.form = "builtin" -> BuiltinMeans(e.name, Bound(e.subject, scope))
              [] e.form = "not"     -> NotMeans(means[e.operand])
              [] OTHER              -> BinaryMeans(e.symbol, means[e.lhs], means[e.rhs])
    IN  means[term]

\* The calls that an iterator can be moved over without a look at their
\* arguments: size of nothing, contains and upfrom of one name or literal.
\* The condition that collect takes is never a single token.
IsPlainCall(e) ==
    IF e.name = "size" THEN e.args = <<>>
    ELSE e.name \in {"contains", "upfrom"} /\ Len(e.args) = 1 /\ e.args[1].form = "leaf"

\* How the tokens of an expression divide among the calls: "whole" if every
\* one has to be taken; "cut" if some may be left, since || can be decided by
\* its left operand or a builtin has arguments of several tokens; "wrong" if
\* an operand need not be read where it begins, since what precedes it is
\* cut, since the operator is not found, or since a variable has the name of
\* a builtin.
Reading(term, scope) ==
    LET reads[e \in Terms] ==
            CASE e.form = "leaf" -> IF e.text \in BuiltinMap THEN "wrong" ELSE "whole"
              [] e.form = "builtin" ->
                    IF e.subject \in BuiltinMap THEN "wrong"
                    ELSE IF IsPlainCall(e) THEN "whole" ELSE "cut"
              [] e.form = "not" -> reads[e.operand]
              [] OTHER ->
                    IF e.blanks # 1 \/ "wrong" \in {reads[e.lhs], reads[e.rhs]} THEN "wrong"
                    ELSE IF e.symbol = "||" /\ ~SameValue(Means(e.lhs, scope), Boolean(FALSE)) THEN "cut"
                    ELSE IF reads[e.lhs] = "cut" THEN "wrong"
                    ELSE reads[e.rhs]
    IN  reads[term]

\* A guard whose operands are each read where they begin evaluates to what it
\* means, if a value is claimed of it; and if all its tokens have to be taken,
\* it fails or leaves the shared iterator behind the last one, whatever the
\* values of its builtins: no call takes a token too many or too few.
EvaluatesAsWritten ==
    answer # NoAnswer =>
        LET meaning == Means(answer.asked, answer.scope)
            reading == Reading(answer.asked, answer.scope)
            result  == answer.result
        IN  reading # "wrong" =>
                /\ meaning.type # "none" => ~result.fails /\ result.value = meaning
                /\ reading = "whole" /\ ~result.fails => result.at = Len(ParseExpression[answer.asked]) + 1
=============================================================================
