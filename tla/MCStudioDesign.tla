--------------------------- MODULE MCStudioDesign ---------------------------
(***************************************************************************)
(* A design and where it is kept.  The start chooses: two services on one  *)
(* project store (project); or the morphology graph of a design, with      *)
(* three nodes of every kind (graphs) or with four that are solids and     *)
(* csgs (csgs).                                                            *)
(***************************************************************************)
EXTENDS MCStudioProject

CONSTANTS chassis, head, wing, tail, None

VARIABLES part, graph, progress, outcome

design == <<graph, progress, outcome>>

Unknown == "no node"
Nodes == [kind : {"rounded_solid", "loft", "csg", "mirror"},
          sources : SUBSET {chassis, head, wing, tail, Unknown},
          parent : {chassis, head, wing, Unknown, None}, visible : BOOLEAN]

\* The nodes of some kinds that name these ids.
NodesOf(kinds, refs) ==
    {node \in Nodes :
        /\ node.kind \in kinds /\ node.sources \subseteq refs /\ node.parent \in refs \cup {None}
        /\ Cardinality(node.sources) \in (IF node.kind = "csg" THEN 2 .. 8
                                          ELSE IF node.kind = "mirror" THEN {1} ELSE {0})}

Three == {chassis, head, wing}
AnyNode == chassis :> NodesOf({"rounded_solid", "loft", "csg"}, Three)
           @@ head :> NodesOf({"rounded_solid", "csg", "mirror"}, Three)
           @@ wing :> NodesOf({"rounded_solid", "mirror"}, Three \cup {Unknown})
CsgNodes == {node \in NodesOf({"rounded_solid", "csg"}, Three \cup {tail}) : node.parent = None}
Roles == chassis :> "chassis_shell" @@ head :> "head_shell" @@ wing :> "ornament" @@ tail :> "ornament"

Graphs == INSTANCE CadMorphology WITH
    Ids <- Three, Role <- Roles, MaxDepth <- 2, stage <- progress, MayBe <- AnyNode
Csgs == INSTANCE CadMorphology WITH
    Ids <- Three \cup {tail}, Role <- Roles, MaxDepth <- 3, stage <- progress,
    MayBe <- tail :> {node \in CsgNodes : node.kind # "csg"} @@ [n \in Three |-> CsgNodes]

MCInit ==
    /\ Init
    /\ \/ part = "project" /\ graph = None /\ progress = None /\ outcome = None
       \/ part = "graphs" /\ Graphs!Init
       \/ part = "csgs" /\ Csgs!Init

MCNext == UNCHANGED part /\
    \/ part = "project" /\ Next /\ UNCHANGED design
    \/ part = "graphs" /\ Graphs!Next /\ UNCHANGED vars
    \/ part = "csgs" /\ Csgs!Next /\ UNCHANGED vars

MCSpec == MCInit /\ [][MCNext]_<<part, vars, design>>

\* Exactly the graphs without a cycle or too long a chain are accepted; then every shape is made
\* after what it needs, and every visible node is printed once, as a part or within one.
DesignSound ==
    /\ part \in {"graphs", "csgs"} => Csgs!TypeOK /\ Csgs!MadeInOrder /\ Csgs!VisibleOnce
    /\ part = "graphs" => Graphs!AcceptsExactly
=============================================================================
