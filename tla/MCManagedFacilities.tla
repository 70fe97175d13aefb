------------------------- MODULE MCManagedFacilities -------------------------
EXTENDS ManagedFacilities

CONSTANTS d1, d2, n1, h1, none

MCDLocs == {d1, d2}
MCNLocs == {n1}
MCHooks == {h1}
\* A factory that gives every session of both facilities the hooks h1.
MCHookPairFactory == [x \in {"d", "n"} \X (MCDLocs \cup MCNLocs) |-> h1]
=============================================================================
