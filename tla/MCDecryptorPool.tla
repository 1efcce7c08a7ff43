--------------------------- MODULE MCDecryptorPool ---------------------------
(* Three readers over two contexts; keystreams that differ in the counter    *)
(* (AesCtrExProvider) and in the offset (AesCtrProvider).                    *)
EXTENDS DecryptorPool

MCRequests == {[iv |-> "a", pos |-> 2], [iv |-> "b", pos |-> 0]}
=============================================================================
