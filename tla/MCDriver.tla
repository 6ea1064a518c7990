------------------------------ MODULE MCDriver ------------------------------
(***************************************************************************)
(* The driver with every option, up to optimization level MaxLevel.        *)
(***************************************************************************)
EXTENDS Driver

CONSTANT MaxLevel

MCPipelines == {<<>>} \cup {PipelineOf(level) : level \in 1..3}
MCOptions == {o \in Option : o.level <= MaxLevel}
=============================================================================
