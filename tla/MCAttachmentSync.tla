--------------------------- MODULE MCAttachmentSync ---------------------------
(***************************************************************************)
(* Instances of AttachmentSync for TLC: one device imports an attachment  *)
(* of two parts, and both devices edit, delete and choose.                 *)
(***************************************************************************)
EXTENDS AttachmentSync

CONSTANTS a, b, photo

MakerOf == photo :> a
=============================================================================
