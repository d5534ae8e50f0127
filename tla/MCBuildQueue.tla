------------------------------- MODULE MCBuildQueue -------------------------------
(***************************************************************************)
(* BuildQueue on small instances: every preview is of the one site.        *)
(***************************************************************************)
EXTENDS BuildQueue

TheSite == [p \in Previews |-> CHOOSE s \in Sites : TRUE]
================================================================================
