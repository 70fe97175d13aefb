---------------------------- MODULE MCGrpcClient ----------------------------
EXTENDS GrpcClient

CONSTANTS i1, i2

MCIds == {i1, i2}
=============================================================================
