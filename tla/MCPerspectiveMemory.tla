------------------------ MODULE MCPerspectiveMemory ------------------------
(* Model-checking instance of PerspectiveMemory. *)
EXTENDS PerspectiveMemory
=============================================================================
