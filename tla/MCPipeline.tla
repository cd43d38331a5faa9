----------------------------- MODULE MCPipeline -----------------------------
(* Pipeline on small instances; every constant is a number or a set of     *)
(* names, and the .cfg files give them.                                    *)
EXTENDS Pipeline
=============================================================================
