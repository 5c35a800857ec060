---------------------------- MODULE MCGameFile ----------------------------
(***************************************************************************)
(* Instances of GameFile for TLC: files that vary in their rules, in one   *)
(* guard, or in their settings.                                            *)
(***************************************************************************)
EXTENDS GameFile

Leaf(text) == [form |-> "leaf", text |-> text]
Not(e) == [form |-> "not", operand |-> e]
Binary(symbol, blanks, l, r) ==
    [form |-> "binary", symbol |-> symbol, blanks |-> blanks, lhs |-> l, rhs |-> r]
Builtin(subject, name, args) ==
    [form |-> "builtin", subject |-> subject, name |-> name, args |-> args]

\* "yes" and "no" are flags, "n" a number, "all" and "won" lists; "1" is a literal.
Leaves == <<Leaf("yes"), Leaf("no"), Leaf("n"), Leaf("all"), Leaf("won"), Leaf("1")>>
Calls ==
    <<Builtin("players", "size", <<>>), Builtin("won", "size", <<>>),
      Builtin("n", "size", <<>>),
      Builtin("won", "contains", <<Leaf("n")>>),
      Builtin("won", "contains", <<Builtin("players", "size", <<>>)>>),
      Builtin("won", "collect", <<Leaf("n"), Binary("=", 1, Leaf("yes"), Leaf("no"))>>),
      Builtin("n", "upfrom", <<Leaf("1")>>)>>
Shadowing == <<Leaf("size"), Builtin("size", "size", <<>>)>>
Simple == Leaves \o Calls
Tests == {Not(Simple[k]) : k \in DOMAIN Simple}
         \cup {Binary("=", 1, l, r) : l \in Range(Calls), r \in Range(Simple)}

\* An operator with a left operand, and each of some right ones.
Row(symbol, blanks, l, rs) == [k \in DOMAIN rs |-> Binary(symbol, blanks, l, rs[k])]

\* Guards, in rows that are each the guards of one match.
Rows ==
    {Simple, Shadowing, [k \in DOMAIN Simple |-> Not(Simple[k])]}
    \cup {Row(s, b, l, Simple) : s \in {"=", "||", "+"}, b \in {1, 2}, l \in Range(Simple)}
    \cup {Row("||", 1, l, Calls) : l \in Tests}
    \cup {Row("=", 1, Binary("||", 1, l, r), Simple) : l, r \in Range(Leaves)}
    \cup {Row("=", 1, Binary("+", 1, l, r), Leaves) : l \in Range(Calls), r \in Range(Leaves)}
    \cup {Row("=", 1, l, Shadowing) : l \in Range(Simple)}

Task(type, args) == [type |-> type, args |-> args]
Comment == [type |-> "comment"]
Message == Task("message", <<Leaf("all"), Builtin("won", "size", <<>>)>>)
Extend == Task("extend", <<Leaf("won"), Leaf("players")>>)
Assign == Task("assignment", <<Leaf("n"), Binary("+", 1, Leaf("n"), Leaf("1"))>>)
Ask == Task("input_choice", <<Leaf("player"), Leaf("prompt"), Leaf("choices"), Leaf("target"), Leaf("10")>>)
For(type, body) == [type |-> type, element |-> Leaf("p"), list |-> Leaf("players"), body |-> body]
Match(entries) == [type |-> "match", target |-> Leaf("true"), entries |-> entries]
Arm(guard, body) == [guard |-> guard, body |-> body]

SmallBodies == {<<>>, <<Comment>>, <<Message>>, <<Comment, Assign>>, <<Message, Comment, Extend>>}
Inner ==
    {Comment, Message}
    \cup {For(t, b) : t \in LoopRules, b \in SmallBodies}
    \cup {Match(<<Arm(Leaf("yes"), b), Arm(Leaf("no"), c)>>) : b, c \in SmallBodies}
Outer ==
    Inner \cup {Ask, [type |-> "ERROR"], Task("vote", <<>>)}
    \cup {For("for", <<i, j>>) : i \in Inner, j \in {Comment, Message, Match(<<Arm(Leaf("yes"), <<>>)>>)}}
MCRules ==
    {<<>>} \cup {<<i>> : i \in Outer}
    \cup {<<Message, i, j>> : i, j \in Inner}
    \cup {<<i, j>> : i \in Inner, j \in {[type |-> "ERROR"], Task("vote", <<>>), Ask, Assign}}

MatchOf(guards) == Match([k \in DOMAIN guards |-> Arm(guards[k], <<Message>>)])

SomeItems ==
    UNION {Outer, {Extend, Assign, Match(<<Arm(Leaf("yes"), <<>>)>>)},
           {MatchOf(row) : row \in Rows}, {For("for", <<MatchOf(row)>>) : row \in Rows}}

\* TLC evaluates SomeItems once, and what a constant is given whenever it is used.
MCItems == SomeItems
MCNesting ==
    [item \in SomeItems |->
        IF Nested(item) = {} THEN 0
        ELSE IF UNION {Nested(part) : part \in Nested(item)} = {} THEN 1 ELSE 2]

SomeTerms ==
    UNION {Range(row) : row \in Rows} \cup Tests \cup {Assign.args[2]}
    \cup {Leaf(t) : t \in {"player", "players", "prompt", "choices", "target", "10", "p", "true"}}
MCTerms == SomeTerms
MCDepth[e \in SomeTerms] == IF Parts(e) = {} THEN 0 ELSE 1 + Max({MCDepth[part] : part \in Parts(e)})

Number(text) == [form |-> "number", text |-> text, items |-> <<>>]
Str(text) == [form |-> "quoted_string", text |-> text, items |-> <<>>]
Other(text) == [form |-> "boolean", text |-> text, items |-> <<>>]
KeyValue(key, e) == [key |-> key, value |-> e]
Map(entries) == [form |-> "value_map", text |-> "", items |-> entries]
List(es) == [form |-> "list_literal", text |-> "", items |-> [i \in DOMAIN es |-> KeyValue("", es[i])]]

Values ==
    LET scalars == {Number("1"), Number("9999999999"), Str("Rock"), Other("true")}
    IN  scalars \cup {List(<<v, Number("2")>>) : v \in scalars}
        \cup {Map(<<KeyValue("name", v), KeyValue(k, Number("2"))>>) : v \in scalars, k \in {"name", "beats"}}

MCExpressions ==
    UNION {{v} \cup {v.items[i].value : i \in DOMAIN v.items} : v \in Values \cup {Number("0")}}
MCHeight == [e \in MCExpressions |-> IF e.items = <<>> THEN 0 ELSE 1]

Setup(name, kind, range, default) ==
    [name |-> name, kind |-> kind, prompt |-> "how many", range |-> range, default |-> default]
Setups ==
    {<<>>} \cup {<<Setup(n, k, <<"1", hi>>, d)>> :
                     n \in {"rounds", "name"}, k \in {"integer", "enum"},
                     hi \in {"20", "9999999999"}, d \in {<<>>, <<"2">>, <<"9999999999">>}}
Configuration(audience, setup) ==
    [name |-> "Rock", range |-> <<"2", "4">>, audience |-> audience, setup |-> setup]

File(config, constants, variables, rules) ==
    [configuration |-> config, constants |-> constants, variables |-> variables,
     per_player |-> <<KeyValue("wins", Number("0"))>>, per_audience |-> <<>>, rules |-> rules]

Plain == Configuration("false", <<>>)

MCFiles ==
    {File(Plain, <<>>, <<>>, rules) : rules \in MCRules}
    \cup {File(Plain, <<>>, <<>>, <<For("for", <<MatchOf(row)>>)>>) : row \in Rows}
    \cup {File(Configuration(a, s), <<KeyValue("weapons", Number("1"))>>, <<>>, <<>>) :
              a \in {"true", "False"}, s \in Setups}
    \cup {File(Plain, <<KeyValue("x", v), KeyValue(k, w)>>, <<KeyValue("y", v)>>, <<>>) :
              v, w \in Values, k \in {"x", "y"}}

Flag(b) == Boolean(b)
Globals ==
    [t \in {"yes", "no", "n", "players", "won", "size"} |->
        CASE t = "yes" -> Flag(TRUE) [] t = "no" -> Flag(FALSE) [] t \in {"n", "size"} -> Integer(1)
          [] t = "players" -> [type |-> "list", data |-> <<"p1", "p2">>]
          [] t = "won" -> [type |-> "list", data |-> <<"p1">>]]
Loop == [t \in {"p"} |-> [type |-> "map", data |-> <<"name", "wins">>]]

MCStacks == {<<Globals>>, <<Loop, Globals>>, <<Globals, [t \in {"1", "won"} |-> Integer(1)]>>}
=============================================================================
