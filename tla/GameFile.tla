------------------------------ MODULE GameFile ------------------------------
(***************************************************************************)
(* What the programs do with a game file once tree-sitter has parsed it:   *)
(* GameSettings::parse (demo.cpp), parseRules and printRuleTreeRecursively *)
(* (src/main.cpp), and the evaluation of the guards of the tree in some    *)
(* scope of a stack of scopes, for which EnvironmentMgr has the functions. *)
(***************************************************************************)
EXTENDS RuleInterpreter, GameSettings

VARIABLES
    tree,      \* the nodes of the RuleTree, and how parseRules ended
    first,     \* its first node
    printed    \* what printRuleTreeRecursively printed

fileVars == <<file, settings, parsed, tree, first, printed, answer>>

ASSUME RulesAssumption == \A f \in Files : f.rules \in Seq(Items)

FileInit ==
    /\ SettingsInit
    /\ tree = [nodes |-> <<>>, outcome |-> "no"] /\ first = Null
    /\ printed = <<>>
    /\ answer = NoAnswer

ReadSettings ==
    /\ ParseSettings
    /\ UNCHANGED <<tree, first, printed, answer>>

ReadRules ==
    /\ tree.outcome = "no"
    /\ LET body == ParseRules(file.rules)
       IN  /\ tree' = [nodes |-> body.nodes, outcome |-> body.outcome]
           /\ first' = body.first
    /\ UNCHANGED <<file, settings, parsed, printed, answer>>

\* src/main.cpp prints the tree once it is there.
PrintRules ==
    /\ tree.outcome = "ok" /\ printed = <<>>
    /\ printed' = Printed(PrintRuleTree(tree.nodes, first))
    /\ UNCHANGED <<file, settings, parsed, tree, first, answer>>

\* The guards of a rule, and of the rules in its bodies.
Guards[rule \in Items] ==
    (IF rule.type = "match" THEN {rule.entries[k].guard : k \in DOMAIN rule.entries} ELSE {})
    \cup UNION {Guards[item] : item \in Nested(rule)}

\* A guard of the tree is evaluated.
EvaluateGuard(guard, scopes, depth) ==
    /\ tree.outcome = "ok"
    /\ Evaluate(guard, scopes, depth)
    /\ UNCHANGED <<file, settings, parsed, tree, first, printed>>

FileNext ==
    \/ ReadSettings
    \/ ReadRules
    \/ PrintRules
    \/ \E rule \in Range(file.rules), scopes \in Stacks :
          \E guard \in Guards[rule], depth \in DOMAIN scopes : EvaluateGuard(guard, scopes, depth)

FileSpec == FileInit /\ [][FileNext]_fileVars

-----------------------------------------------------------------------------
(* Properties *)

\* Every node of a body has the rule the body belongs to as its parent.
ParentsEnclose ==
    /\ first # Null => tree.nodes[first].parent = Null
    /\ \A n \in DOMAIN tree.nodes :
          /\ tree.nodes[n].next # Null =>
                tree.nodes[tree.nodes[n].next].parent = tree.nodes[n].parent
          /\ \A k \in DOMAIN tree.nodes[n].children :
                LET child == tree.nodes[n].children[k].child
                IN  child # Null => tree.nodes[child].parent = n

\* Following next pointers and children from the first node gives the rules
\* of the file in order, each under its own guard, without the comments
\* (parseControlBody skips them and links the rules around them); and the
\* parents lead back, also where a body comes after a nested one, since
\* setParentNode runs after the node's own bodies were parsed.
RulesAsWritten ==
    tree.outcome = "ok" =>
        /\ IsBody(tree.nodes, file.rules, first, Standing(tree.nodes))
        /\ ParentsEnclose

\* printRuleTreeRecursively prints every rule, a body one level below its
\* rule and before what follows the rule, until it meets an empty body.
PrintsEveryRule ==
    printed # <<>> => printed = Printed(BodyListing(file.rules, 0, Listing))
=============================================================================
