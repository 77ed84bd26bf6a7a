---------------------------- MODULE AttachmentFormat ----------------------------
(***************************************************************************)
(* The lengths an attachment has on its way: the plaintext, the encrypted  *)
(* file of frames, the parts it is uploaded in, and the range of the       *)
(* plaintext the interface asks for. Bytes themselves are left out, and    *)
(* with them the cipher; all quantities are far from the limits of u64.    *)
(***************************************************************************)
EXTENDS Integers

CONSTANTS
  ChunkBytes,           \* ATTACHMENT_CHUNK_BYTES, 1 MiB of plaintext
  FrameOverhead,        \* ATTACHMENT_FRAME_OVERHEAD: a frame's length and tag
  PartBytes,            \* ATTACHMENT_PART_BYTES, 8 MiB of ciphertext
  MaxAttachmentBytes,   \* MAX_ATTACHMENT_BYTES, 2 GiB of ciphertext
  MaxImportedBytes,     \* MAX_IMPORTED_ATTACHMENT_BYTES, 2 GiB of plaintext
  MaxRangeBytes         \* MAX_PROTOCOL_RANGE_BYTES, of one answer

ASSUME FormatAssumption ==
  /\ ChunkBytes \in Nat \ {0} /\ FrameOverhead \in Nat \ {0} /\ PartBytes \in Nat \ {0}
  /\ MaxAttachmentBytes \in Nat \ {0} /\ MaxImportedBytes \in Nat \ {0}
  /\ MaxRangeBytes \in Nat \ {0}

DivCeil(n, k) == (n + k - 1) \div k
Smaller(m, n) == IF m < n THEN m ELSE n
Larger(m, n) == IF m < n THEN n ELSE m
-----------------------------------------------------------------------------
(* encrypt_chunks: a frame for each chunk of the plaintext, all full but   *)
(* the last, and an empty frame at the end.                                *)

Frames(n) == DivCeil(n, ChunkBytes)
ChunkLength(n, k) == Smaller(ChunkBytes, n - k * ChunkBytes)
CiphertextBytes(n) == n + (Frames(n) + 1) * FrameOverhead

(* attachment_plaintext_bytes: the plaintext's length from the file's, or  *)
(* none (NotEncrypted) for a length no encrypted file has.                 *)
HeldFrames(c) == DivCeil(c - FrameOverhead, ChunkBytes + FrameOverhead)
PlaintextBytes(c) ==
  IF c = FrameOverhead THEN 0 ELSE c - (HeldFrames(c) + 1) * FrameOverhead

NotEncrypted(c) ==
  /\ c # FrameOverhead
  /\ \/ c < FrameOverhead * 2
     \/ HeldFrames(c) = 0
     \/ PlaintextBytes(c) <= (HeldFrames(c) - 1) * ChunkBytes
     \/ PlaintextBytes(c) > HeldFrames(c) * ChunkBytes
-----------------------------------------------------------------------------
(* upload_attachments cuts the encrypted file into parts, ...              *)

PartCount(c) == DivCeil(c, PartBytes)
PartOffset(k) == k * PartBytes
PartLength(c, k) == Smaller(Larger(c - PartOffset(k), 0), PartBytes)

(* ... read_attachment_ciphertext_part reads one of them, ...              *)
Readable(c, offset, length) == offset <= c /\ length <= Larger(c - offset, 0)

(* ... and the server takes them: create, then upload_part.                *)
CreateAccepted(total, size, parts) ==
  /\ total # 0 /\ total <= MaxAttachmentBytes
  /\ size # 0 /\ size <= PartBytes
  /\ parts # 0 /\ parts = DivCeil(total, Larger(size, 1))

PartAccepted(size, parts, k, length) ==
  /\ k < parts
  /\ length # 0 /\ length <= size
  /\ k + 1 < parts => length = size

(* import_attachment_from_path                                             *)
Importable(n) == n # 0 /\ n <= MaxImportedBytes
-----------------------------------------------------------------------------
(* parse_protocol_range: what a request without a range, and one with the  *)
(* range `start-end`, is answered with. Either bound may be Blank.         *)

Blank == -1
RangeRequest == {r \in [start : Nat \union {Blank}, end : Nat \union {Blank}] :
            r.start # Blank \/ r.end # Blank}

WholeEnd(total) == Smaller(total - 1, MaxRangeBytes - 1)

RangeStart(total, r) == IF r.start = Blank THEN total - Smaller(r.end, total) ELSE r.start
RangeEnd(total, r) ==
  IF r.start = Blank \/ r.end = Blank THEN total - 1 ELSE Smaller(r.end, total - 1)
OutOfBounds(total, r) ==
  RangeStart(total, r) >= total \/ RangeEnd(total, r) < RangeStart(total, r)
CappedEnd(total, r) == Smaller(RangeEnd(total, r), RangeStart(total, r) + MaxRangeBytes - 1)

(* RangeCollector::write, for the k-th chunk of the decrypted file: the    *)
(* positions of the plaintext it adds to the answer.                       *)
Collected(n, k, start, end) ==
  Larger(k * ChunkBytes, start)
    .. Smaller(k * ChunkBytes + ChunkLength(n, k), end + 1) - 1
=============================================================================
