-------------------------- MODULE MCStudioArtifacts --------------------------
(* Two designs that share one artifact; the budget holds either pack, not both. *)
EXTENDS StudioArtifacts

CONSTANTS arm, shared, bodySheet, armDesign, bodyDesign

MCDigests == {arm, shared, bodySheet}
MCSize == [d \in MCDigests |-> IF d = arm THEN 2 ELSE 1]
MCDesigns == {armDesign, bodyDesign}
MCBatch == [m \in MCDesigns |-> IF m = armDesign THEN <<arm, shared>> ELSE <<shared>>]
MCDocuments == [m \in MCDesigns |-> IF m = armDesign THEN <<>> ELSE <<bodySheet>>]

\* Everything but the object files' writes may fail, or those too, or object files are damaged.
MCFaultModels == {{"crash", "save", "compiler"}, {"crash", "save", "compiler", "write"}, {"crash", "damage"}}
=============================================================================
