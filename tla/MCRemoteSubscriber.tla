------------------------- MODULE MCRemoteSubscriber -------------------------
EXTENDS RemoteSubscriber

CONSTANTS l1, l2

\* two servers advertising the facility
MCLocs == {l1, l2}

=============================================================================
