----------------------- MODULE MCAttachmentResources -----------------------
(* Instances of AttachmentResources for TLC.                                *)
EXTENDS AttachmentResources, TLC

\* The addresses of connections, of transactions and of statements are never
\* compared with a fixed value.
AddressSymmetry ==
    Permutations(Conn) \cup Permutations(Stmt) \cup Permutations(Tnx)

=============================================================================
