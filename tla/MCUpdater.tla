----------------------------- MODULE MCUpdater -----------------------------
(* Three directories: gated software, other software, the configuration.    *)
EXTENDS Updater, TLC

CONSTANTS u1, u2, o

MCManaged == <<"bin", "lib", "config">>
TwoManaged == <<"bin", "config">>
MCSymmetry == Permutations({u1, u2})
=============================================================================
