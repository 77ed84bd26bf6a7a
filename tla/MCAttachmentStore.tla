-------------------------- MODULE MCAttachmentStore --------------------------
(***************************************************************************)
(* Instances of AttachmentStore for TLC: a file of two parts, another file *)
(* under the same identifier, and two files under an identifier of their   *)
(* own: one that does not fit beside the first, one that is longer than    *)
(* the whole quota. And, at small lengths, what the arithmetic of          *)
(* AttachmentFormat is meant to be.                                        *)
(***************************************************************************)
EXTENDS AttachmentStore, AttachmentFormat, FiniteSetsExt, TLC

CONSTANTS x, y, long, other, small, huge

HandlerSymmetry == Permutations(Handlers)

NameOf(f) == IF f \in {small, huge} THEN y ELSE x
(* Clients upload, complete and delete x, some of them with parts of a     *)
(* file that is not the row's; the row of y only takes up space until the  *)
(* cleanup removes it.                                                     *)
MixedRequests ==
  [op : {"create"}, file : {long, small, huge}]
  \union {r \in Request : r.op = "upload part" /\ r.file \in {long, other}}
  \union [op : {"complete", "delete"}, id : {x}]

LengthOf(f) == CASE f = huge -> 3 [] f = long -> 2 [] OTHER -> 1
-----------------------------------------------------------------------------
(* The encrypted file is its frames, one after the other, and an empty     *)
(* frame; the parts are the encrypted file; what one answer collects of    *)
(* the chunks is the range that was asked for.                             *)
SmallLengths == 0 .. 3 * ChunkBytes + 1

ASSUME FramesAddUp ==
  \A n \in SmallLengths :
    CiphertextBytes(n) =
      MapThenSumSet(LAMBDA k : ChunkLength(n, k) + FrameOverhead, 0 .. Frames(n) - 1)
        + FrameOverhead

ASSUME PartsAddUp ==
  \A c \in 1 .. 4 * PartBytes :
    c = MapThenSumSet(LAMBDA k : PartLength(c, k), 0 .. PartCount(c) - 1)

ASSUME LengthsOfEncryptedFiles ==
  \A c \in SmallLengths :
    NotEncrypted(c) <=> \A n \in SmallLengths : CiphertextBytes(n) # c

ASSUME RangesAreCollected ==
  \A n \in SmallLengths : \A start, end \in 0 .. n - 1 :
    UNION {Collected(n, k, start, end) : k \in 0 .. Frames(n) - 1} = start .. end
=============================================================================
