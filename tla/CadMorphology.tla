----------------------------- MODULE CadMorphology -----------------------------
(***************************************************************************)
(* The morphology graph: what schemas.py accepts, and what cad.py makes of *)
(* it before the geometry is checked and exported.  A design is submitted, *)
(* validated and compiled; the shapes are left out, so only the graph can  *)
(* make a compilation fail here.                                           *)
(***************************************************************************)
EXTENDS Integers, SequencesExt, FiniteSetsExt, Relation

CONSTANTS Ids,        \* the node ids a design may use
          Role,       \* Role[n]: "chassis_shell", "head_shell" or another
          MayBe,      \* MayBe[n]: the nodes that n may be
          Unknown,    \* an id that is no node
          MaxDepth,   \* 8 in the code; at least 1
          None

VARIABLES graph, stage, outcome

vars == <<graph, stage, outcome>>

Kinds == {"rounded_solid", "loft", "csg", "mirror"}

\* A node: sources are the operands of a csg or the source of a mirror.
Nodes == [kind : Kinds, sources : SUBSET (Ids \cup {Unknown}), parent : Ids \cup {Unknown, None}, visible : BOOLEAN]

WellFormed(node) ==
    Cardinality(node.sources) \in (IF node.kind = "csg" THEN 2 .. 8 ELSE IF node.kind = "mirror" THEN {1} ELSE {0})

Needs(g, n) == g[n].sources \cup ({g[n].parent} \ {None})
Visible(g) == {n \in DOMAIN g : g[n].visible}

-----------------------------------------------------------------------------
(* dependency_depth, in schemas.py and again in cad.py *)

Refused == [ok |-> FALSE]

DepthOf(depths, needs) == 1 + Max({0} \cup {depths[d] : d \in needs})

RECURSIVE Visit(_, _, _, _)

\* The depths found so far go from node to node; active are the nodes on the way down.
Visit(g, n, active, sofar) ==
    IF ~sofar.ok THEN sofar
    ELSE IF n \in DOMAIN sofar.depths THEN sofar
    ELSE IF n \in active \/ n \notin DOMAIN g THEN Refused
    ELSE LET below == FoldSet(LAMBDA d, found : Visit(g, d, active \cup {n}, found), sofar, Needs(g, n))
         IN IF ~below.ok THEN Refused
            ELSE IF DepthOf(below.depths, Needs(g, n)) > MaxDepth THEN Refused
            ELSE [ok |-> TRUE, depths |-> [m \in DOMAIN below.depths \cup {n} |->
                     IF m = n THEN DepthOf(below.depths, Needs(g, n)) ELSE below.depths[m]]]

Depths(g) == FoldSet(LAMBDA n, found : Visit(g, n, {}, found), [ok |-> TRUE, depths |-> <<>>], DOMAIN g)

\* MorphologyGraph.validate_graph
Accepted(g) ==
    /\ \E n \in DOMAIN g : Role[n] = "chassis_shell"
    /\ \A n \in DOMAIN g : Needs(g, n) \subseteq DOMAIN g \ {n}
    /\ Depths(g).ok

-----------------------------------------------------------------------------
(* _compile_morphology *)

\* What compile_node compiles before the node.
Before(g, n) == Needs(g, n)

RECURSIVE CompileNode(_, _, _)
CompileNode(g, n, compiled) ==
    IF n \in ToSet(compiled) THEN compiled
    ELSE Append(FoldSet(LAMBDA d, done : CompileNode(g, d, done), compiled, Before(g, n)), n)

\* The order in which the shapes are made.
Compiled(g) == FoldSet(LAMBDA n, done : CompileNode(g, n, done), <<>>, DOMAIN g)

Csgs(g) == {n \in DOMAIN g : g[n].kind = "csg"}

\* Mutation of Consumers: a hidden csg takes its operands as well.
ConsumersHidden(g) == Csgs(g)

Consumers(g) == Csgs(g) \cap Visible(g)

RECURSIVE Consume(_, _, _)
Consume(g, pending, consumed) ==
    IF pending = {} THEN consumed
    ELSE LET n == CHOOSE m \in pending : TRUE
             rest == pending \ {n}
         IN IF n \in consumed THEN Consume(g, rest, consumed)
            ELSE Consume(g, rest \cup (IF n \in Csgs(g) THEN g[n].sources ELSE {}), consumed \cup {n})

\* consumed_by_csg
Consumed(g) == Consume(g, UNION {g[n].sources : n \in Consumers(g)}, {})

Parts(g) == Visible(g) \ Consumed(g)

-----------------------------------------------------------------------------
(* CadCompiler.compile *)

ShellsOf(g, role) == {n \in Visible(g) : Role[n] = role}

\* _profile_shell_node: heads before chassis, but a rounded solid before all.
Shells(g) ==
    LET rounded == {n \in Visible(g) : g[n].kind = "rounded_solid"}
        heads == ShellsOf(g, "head_shell")
        bodies == ShellsOf(g, "chassis_shell")
    IN  IF heads \cap rounded # {} THEN heads \cap rounded
        ELSE IF bodies \cap rounded # {} THEN bodies \cap rounded
        ELSE IF heads # {} THEN heads ELSE bodies

\* The parts that the rest of the compilation asks for: a chassis to stand on, and the shell.
Stands(g, shell) == shell \in Parts(g) /\ \E n \in Parts(g) : Role[n] = "chassis_shell"

\* Every design that a client may submit: some of the ids, each what it may be.
Init ==
    /\ \E used \in (SUBSET Ids) \ {{}} :
          graph \in [used -> UNION {MayBe[n] : n \in used}]
    /\ \A n \in DOMAIN graph : graph[n] \in MayBe[n]
    /\ stage = "submitted" /\ outcome = [answer |-> "none"]

\* The specification is parsed.
Validate ==
    /\ stage = "submitted"
    /\ IF Accepted(graph) THEN stage' = "accepted" /\ UNCHANGED outcome
       ELSE stage' = "done" /\ outcome' = [answer |-> "invalid"]
    /\ UNCHANGED graph

\* _autofit_profile_shell
PickShell ==
    /\ stage = "accepted"
    /\ \/ /\ Shells(graph) = {}
          /\ stage' = "done" /\ outcome' = [answer |-> "CAD_PROFILE_SHELL_MISSING"]
       \/ /\ stage' = "fitted"
          /\ \E n \in Shells(graph) : outcome' = [answer |-> "fitted", shell |-> n]
    /\ UNCHANGED graph

\* _compile_morphology, _ground_morphology and _profile_proxy_parts.
Compile ==
    /\ stage = "fitted"
    /\ stage' = "done"
    /\ outcome' = IF Stands(graph, outcome.shell)
                  THEN [answer |-> "compiled", order |-> Compiled(graph), parts |-> Parts(graph)]
                  ELSE [answer |-> "CAD_GEOMETRY_FAILED"]
    /\ UNCHANGED graph

Next == Validate \/ PickShell \/ Compile

Spec == Init /\ [][Next]_vars

-----------------------------------------------------------------------------
(* Properties *)

\* The type invariant.
TypeOK ==
    /\ \A n \in DOMAIN graph : graph[n] \in Nodes /\ WellFormed(graph[n])
    /\ stage \in {"submitted", "accepted", "fitted", "done"}
    /\ outcome.answer \in {"none", "fitted", "invalid", "compiled", "CAD_PROFILE_SHELL_MISSING", "CAD_GEOMETRY_FAILED"}
    /\ outcome.answer = "compiled" => ToSet(outcome.order) = DOMAIN graph

\* From a node that starts a chain of k nodes one can go down k - 1 times; on a cycle for ever.
StartsChain(g, k) ==
    LET starts[i \in 1 .. k] == IF i = 1 THEN DOMAIN g
                                ELSE {n \in DOMAIN g : Needs(g, n) \cap starts[i - 1] # {}}
    IN  starts[k]

\* The search with its remembered depths refuses exactly the graphs with a chain that is too
\* long, cycles included, wherever in a chain it begins.
AcceptsExactly ==
    stage # "submitted" =>
        (outcome.answer # "invalid" <=>
            /\ \E n \in DOMAIN graph : Role[n] = "chassis_shell"
            /\ UNION {Needs(graph, n) : n \in DOMAIN graph} \subseteq DOMAIN graph
            /\ StartsChain(graph, MaxDepth + 1) = {})

IsCompiled == stage = "done" /\ outcome.answer = "compiled"

\* Every shape is made once, after all that it is made of or attached to.
MadeInOrder ==
    IsCompiled =>
        /\ IsInjective(outcome.order)
        /\ \A i \in DOMAIN outcome.order :
              Needs(graph, outcome.order[i]) \subseteq {outcome.order[j] : j \in 1 .. i - 1}

OperandOf(g) == [<<n, m>> \in (DOMAIN g) \X (DOMAIN g) |-> n \in Csgs(g) /\ m \in g[n].sources]

\* Nothing visible is lost, and nothing is there twice: a visible node is a part or goes into
\* the shape of one, through csgs that may be hidden themselves, and not both.
VisibleOnce ==
    IsCompiled =>
        LET into == TransitiveClosure(OperandOf(graph), DOMAIN graph)
        IN  \A n \in Visible(graph) :
                (n \in outcome.parts) <=> ~\E p \in outcome.parts : into[p, n]
=============================================================================
