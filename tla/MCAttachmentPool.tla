-------------------------- MODULE MCAttachmentPool --------------------------
(* Instances of AttachmentPool for TLC.                                     *)
EXTENDS AttachmentPool, TLC

\* Attachments, ids and addresses are interchangeable.
PoolSymmetry == Permutations(Attachment) \cup Permutations(Id) \cup Permutations(Resource)

=============================================================================
