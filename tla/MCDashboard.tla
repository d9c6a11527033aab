----------------------------- MODULE MCDashboard -----------------------------
EXTENDS Dashboard

CONSTANTS a1, a2, x1, x2

\* Two candidates of two requisitions.
MCRoleOf == [a \in Apps |-> IF a = a1 THEN x1 ELSE x2]
=============================================================================
