---------------------------- MODULE MCMacroStore ----------------------------
(* Instances of MacroStore for TLC: one macro of one site, several callers. *)
EXTENDS MacroStore

CONSTANTS m1, s1, c1, c2

OnSite == [m \in {m1} |-> s1]
=============================================================================
