-------------------------- MODULE MCJsonRestClient --------------------------
EXTENDS JsonRestClient

CONSTANTS i1, i2

MCIds == {i1, i2}
MCMethods == {"", "PUT"}
=============================================================================
