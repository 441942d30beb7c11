----------------------------- MODULE MCDashboard -----------------------------
(* Two nodes, one of which has rules of its own.                             *)
EXTENDS Dashboard
CONSTANTS n1, n2
MCStart == {{n1}, {n1, n2}}
=============================================================================
