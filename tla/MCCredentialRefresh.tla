------------------------- MODULE MCCredentialRefresh ------------------------
EXTENDS CredentialRefresh
MCReplicaOf == [c \in CrCall |-> IF c = "c3" THEN "g2" ELSE "g1"]
=============================================================================
