-------------------------- MODULE RuleInterpreter --------------------------
(***************************************************************************)
(* The rules of a game file (src/RuleInterpreter.cpp): parseRules builds a *)
(* tree of RuleNodes of the syntax tree, printRuleTreeRecursively walks it *)
(* by its next pointers and children.                                      *)
(*                                                                         *)
(* A child of a body in the syntax tree is a record with a "type":         *)
(* "comment", "ERROR", "for" and "parallel_for" (element, list, body),     *)
(* "match" (target, entries of guard and body) or a task (args).  A body   *)
(* is a sequence of them; how deep they are nested, Nesting says.          *)
(***************************************************************************)
EXTENDS Expressions

CONSTANTS
    Items,     \* the children of bodies: rules, comments and errors
    Nesting    \* child of a body -> how deep its bodies are nested

Null == 0   \* nodes are numbered from 1 in the order they are made

LoopRules == {"for", "parallel_for"}
ControlRules == LoopRules \cup {"match"}

\* Task rules, and how many of their arguments parseTask keeps.
TaskRules == [extend |-> 0, discard |-> 0, shuffle |-> 0, reverse |-> 0, scores |-> 1,
              sort |-> 2, deal |-> 2, message |-> 2, assignment |-> 2, input_choice |-> 5]

Quoted(token) == "\"" \o token \o "\""

\* The first token of an argument that is given a new form.
Rewritten(type, i, token) ==
    CASE type = "assignment" /\ i = 1   -> Quoted(token)
      [] type = "input_choice" /\ i = 1 -> token \o ".id"
      [] type = "input_choice" /\ i = 4 -> Quoted(token)
      [] OTHER -> token

Argument(type, i, e) ==
    LET tokens == ParseExpression[e] IN <<Rewritten(type, i, Head(tokens))>> \o Tail(tokens)

TaskData(rule) ==
    <<<<rule.type>>>> \o [i \in 1..TaskRules[rule.type] |-> Argument(rule.type, i, rule.args[i])]

ControlData(rule) ==
    IF rule.type = "match" THEN <<ParseExpression[rule.target]>>
    ELSE <<ParseExpression[rule.element], ParseExpression[rule.list]>>

\* The bodies of a rule, each with its key; a loop has the key "true".
BodiesOf(rule) ==
    IF rule.type = "match"
    THEN [k \in DOMAIN rule.entries |->
              [key |-> ParseExpression[rule.entries[k].guard], body |-> rule.entries[k].body]]
    ELSE IF rule.type \in LoopRules THEN <<[key |-> <<"true">>, body |-> rule.body]>>
    ELSE <<>>

\* What is in the bodies of a rule.
Nested(rule) ==
    IF rule.type = "match" THEN UNION {Range(rule.entries[k].body) : k \in DOMAIN rule.entries}
    ELSE IF rule.type \in LoopRules THEN Range(rule.body)
    ELSE {}

\* The grammar of a rule.
ASSUME ItemsAssumption ==
    /\ Nesting \in [Items -> Nat]
    /\ \A item \in Items :
          /\ item.type = "match" => item.entries \in Seq([guard : Terms, body : Seq(Items)])
          /\ item.type \in LoopRules => item.body \in Seq(Items)
          /\ \A part \in Nested(item) : Nesting[part] < Nesting[item]

\* A call of the parser returns the nodes it made, by their numbers, the last
\* number now in use, and whether it ended in an exception or in undefined
\* behaviour.
NewNode(id, type, data) ==
    [nodes |-> [n \in {id} |-> [type |-> type, data |-> data, next |-> Null, parent |-> Null,
                               children |-> <<>>]],
     last |-> id, outcome |-> "ok"]

Failed(outcome, at) == [nodes |-> <<>>, last |-> at, outcome |-> outcome]

\* The nodes of two calls.
Both(f, g) == [n \in DOMAIN f \cup DOMAIN g |-> IF n \in DOMAIN f THEN f[n] ELSE g[n]]

\* The node just made, behind prev in its body; latest is prev from now on.
LinkBehind(body, made, parent, latest) ==
    LET id == body.last + 1
        nodes == Both(body.nodes, made.nodes)
    IN  [nodes |-> [n \in DOMAIN nodes |->
                       IF n = id THEN [nodes[n] EXCEPT !.parent = parent]
                       ELSE IF n = body.prev THEN [nodes[n] EXCEPT !.next = id] ELSE nodes[n]],
         last |-> made.last, outcome |-> made.outcome,
         first |-> IF body.first = Null THEN id ELSE body.first, prev |-> latest]

\* Slip used by a mutant: prev stays the first node of the body.
LinkToFirst(body, made, parent) ==
    LinkBehind(body, made, parent, IF body.first = Null THEN body.last + 1 ELSE body.first)

\* setParentNode and setNextNode for the node just parsed.
Link(body, made, parent) == LinkBehind(body, made, parent, body.last + 1)

\* One child of a body; comments are left out.
AddItem(body, item, parent, parser) ==
    IF item.type = "comment" \/ body.outcome # "ok" THEN body
    ELSE Link(body, parser[item][body.last], parent)

\* The children of a body in order; numbers up to "at" are in use.
ParseControlBody(items, at, parent, parser) ==
    LET body[n \in 0..Len(items)] ==
            IF n = 0
            THEN [nodes |-> <<>>, last |-> at, outcome |-> "ok", first |-> Null, prev |-> Null]
            ELSE AddItem(body[n - 1], items[n], parent, parser)
    IN  body[Len(items)]

SetChildren(made, id, key, body) ==
    LET nodes == Both(made.nodes, body.nodes)
        child == [key |-> key, child |-> body.first]
    IN  [nodes |-> [n \in DOMAIN nodes |->
                       IF n = id THEN [nodes[n] EXCEPT !.children = Append(@, child)] ELSE nodes[n]],
         last |-> body.last, outcome |-> body.outcome]

\* One body of a rule, parsed and hung under its key.
AddBody(made, id, b, parser) ==
    IF made.outcome # "ok" THEN made
    ELSE SetChildren(made, id, b.key, ParseControlBody(b.body, made.last, id, parser))

\* The bodies of the rule with node id, in order.
ParseBodies(node, id, bodies, parser) ==
    LET made[k \in 0..Len(bodies)] ==
            IF k = 0 THEN node ELSE AddBody(made[k - 1], id, bodies[k], parser)
    IN  made[Len(bodies)]

\* A type that is no task's dereferences taskRules.end().
ParseRuleAt(rule, at, parser) ==
    IF rule.type = "ERROR" THEN Failed("throws", at)
    ELSE IF rule.type \in ControlRules
    THEN ParseBodies(NewNode(at + 1, rule.type, ControlData(rule)), at + 1, BodiesOf(rule), parser)
    ELSE IF rule.type \in DOMAIN TaskRules THEN NewNode(at + 1, rule.type, TaskData(rule))
    ELSE Failed("undefined", at)

ParseRule[rule \in Items] == [at \in Nat |-> ParseRuleAt(rule, at, ParseRule)]

ParseRules(items) == ParseControlBody(items, 0, Null, ParseRule)

-----------------------------------------------------------------------------
(* printRuleTreeRecursively *)

Crash == [crash |-> TRUE]   \* a null node is asked whether it is control flow

Line(type, data, depth) == [depth |-> depth, type |-> type, data |-> data]

PrintNode(nodes, id, depth) == <<Line(nodes[id].type, nodes[id].data, depth)>>

PrintChildren(nodes, id, depth, print) ==
    FlattenSeq([k \in DOMAIN nodes[id].children |-> print[nodes[id].children[k].child][depth + 1]])

PrintNext(nodes, id, depth, print) ==
    IF nodes[id].next = Null THEN <<>> ELSE print[nodes[id].next][depth]

\* Slip used by a mutant: a node's successors are printed before its bodies.
PrintNextFirst(nodes, id, depth, print) ==
    IF id = Null THEN <<Crash>>
    ELSE PrintNode(nodes, id, depth) \o PrintNext(nodes, id, depth, print)
         \o PrintChildren(nodes, id, depth, print)

PrintFrom(nodes, id, depth, print) ==
    IF id = Null THEN <<Crash>>
    ELSE PrintNode(nodes, id, depth) \o PrintChildren(nodes, id, depth, print)
         \o PrintNext(nodes, id, depth, print)

PrintRuleTree(nodes, first) ==
    LET print[id \in {Null} \cup DOMAIN nodes] ==
            [depth \in Nat |-> PrintFrom(nodes, id, depth, print)]
    IN  print[first][0]

\* Nothing is printed after a crash.
Printed(lines) ==
    LET crashes == {i \in DOMAIN lines : lines[i] = Crash}
    IN  IF crashes = {} THEN lines
        ELSE SubSeq(lines, 1, CHOOSE i \in crashes : \A j \in crashes : i <= j)

-----------------------------------------------------------------------------
(* What the rules of a body are, whatever the nodes made of them. *)

Data(rule) == IF rule.type \in ControlRules THEN ControlData(rule) ELSE TaskData(rule)

\* Where a chain of nodes goes on after a child of a body.
After(nodes, item, id) ==
    IF item.type = "comment" \/ id = Null THEN id ELSE nodes[id].next

\* The nodes that follow each other from first on are the rules of a body, in
\* order and without its comments; standing[rule] is the nodes that stand for
\* a rule.
IsBody(nodes, items, first, standing) ==
    LET id[n \in 0..Len(items)] == IF n = 0 THEN first ELSE After(nodes, items[n], id[n - 1])
    IN  /\ id[Len(items)] = Null
        /\ \A n \in DOMAIN items :
              items[n].type # "comment" => id[n - 1] \in standing[items[n]]

\* A node has the data of a rule, and its children are the rule's bodies.
Stands(nodes, id, rule, standing) ==
    /\ nodes[id].type = rule.type /\ nodes[id].data = Data(rule)
    /\ Len(nodes[id].children) = Len(BodiesOf(rule))
    /\ \A k \in DOMAIN BodiesOf(rule) :
          /\ nodes[id].children[k].key = BodiesOf(rule)[k].key
          /\ IsBody(nodes, BodiesOf(rule)[k].body, nodes[id].children[k].child, standing)

\* The nodes that stand for each rule, together with what is below them.
Standing(nodes) ==
    LET standing[rule \in Items] == {id \in DOMAIN nodes : Stands(nodes, id, rule, standing)}
    IN  standing

\* The lines of a body, in the order of its rules; one without rules crashes.
BodyListing(items, depth, listing) ==
    LET from[n \in 1..(Len(items) + 1)] ==
            IF n > Len(items) THEN <<>>
            ELSE IF items[n].type = "comment" THEN from[n + 1]
            ELSE listing[items[n]][depth] \o from[n + 1]
    IN  IF \A n \in DOMAIN items : items[n].type = "comment" THEN <<Crash>> ELSE from[1]

\* The line of a rule, its bodies below it.
Listing[rule \in Items] ==
    [depth \in Nat |->
        <<Line(rule.type, Data(rule), depth)>>
        \o FlattenSeq([k \in DOMAIN BodiesOf(rule) |->
                          BodyListing(BodiesOf(rule)[k].body, depth + 1, Listing)])]
=============================================================================
