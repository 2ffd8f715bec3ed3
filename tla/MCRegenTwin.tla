---------------------------- MODULE MCRegenTwin ----------------------------
(* The pair of managers, fed the samples of MCRegen.                        *)
EXTENDS RegenTwin, MCRegen
=============================================================================
