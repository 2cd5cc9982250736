--------------------------- MODULE MCBackendCalls ---------------------------
(* Every adapter family alone, and before and after every other.            *)
EXTENDS BackendCalls

MCChains == {<<a, b>> : a, b \in Families}
=============================================================================
