------------------------- MODULE AttachmentFormatProofs -------------------------
(***************************************************************************)
(* What is proved of AttachmentFormat, for all lengths and all values of   *)
(* the constants: the length of a plaintext is found from its file's, the  *)
(* server takes the parts that are sent and they are the whole file, and a *)
(* range is answered with its bytes, each once.                            *)
(***************************************************************************)
EXTENDS AttachmentFormat, TLAPS

(* Multiples of k lie at least k apart.                                    *)
LEMMA Multiples ==
  ASSUME NEW k \in Nat \ {0}, NEW p \in Int, NEW q \in Int, p < q
  PROVE  p * k + k <= q * k
<1>1. q - p >= 1
  OBVIOUS
<1>2. (q - p) * k >= k
  BY <1>1, Z3
<1> QED
  BY <1>2, Z3

(* What \div does.                                                         *)
LEMMA Quotient ==
  ASSUME NEW k \in Nat \ {0}, NEW n \in Int
  PROVE  /\ n \div k \in Int
         /\ (n \div k) * k <= n
         /\ n < (n \div k) * k + k
  OBVIOUS

(* A product of natural numbers is one.                                    *)
LEMMA Products ==
  ASSUME NEW p \in Nat, NEW k \in Nat
  PROVE  p * k \in Nat
  OBVIOUS

(* div_ceil: the least number of blocks of length k that hold n.           *)
LEMMA DivCeilFact ==
  ASSUME NEW k \in Nat \ {0}, NEW n \in Nat
  PROVE  /\ DivCeil(n, k) \in Nat
         /\ n <= DivCeil(n, k) * k
         /\ DivCeil(n, k) * k < n + k
<1> DEFINE q == (n + k - 1) \div k
<1>1. q \in Int /\ q * k <= n + k - 1 /\ n + k - 1 < q * k + k
  BY Quotient
<1> HIDE DEF q
<1>2. q >= 0
  <2> SUFFICES ASSUME q < 0 PROVE FALSE
    BY <1>1
  <2>1. q * k + k <= 0 * k
    BY <1>1, Multiples
  <2> QED
    BY <2>1, <1>1
<1>3. DivCeil(n, k) = q
  BY DEF DivCeil, q
<1> QED
  BY <1>1, <1>2, <1>3

(* ... and the only such number.                                           *)
LEMMA DivCeilUnique ==
  ASSUME NEW k \in Nat \ {0}, NEW n \in Nat, NEW d \in Int,
         n <= d * k, d * k < n + k
  PROVE  DivCeil(n, k) = d
<1> DEFINE e == DivCeil(n, k)
<1>1. e \in Nat /\ n <= e * k /\ e * k < n + k
  BY DivCeilFact
<1> HIDE DEF e
<1>2. e < d => e * k + k <= d * k
  BY <1>1, Multiples
<1>3. d < e => d * k + k <= e * k
  BY <1>1, Multiples
<1>4. d * k \in Int /\ e * k \in Int
  BY <1>1
<1>5. e = d
  BY <1>1, <1>2, <1>3, <1>4
<1> QED
  BY <1>5 DEF e

-----------------------------------------------------------------------------
(* The chunks of a plaintext of n > 0 bytes: every one has something in it *)
(* and none lies outside.                                                  *)
LEMMA Chunks ==
  ASSUME NEW n \in Nat, NEW k \in 0 .. Frames(n) - 1
  PROVE  /\ k * ChunkBytes \in Nat
         /\ ChunkLength(n, k) \in 1 .. ChunkBytes
         /\ k * ChunkBytes + ChunkLength(n, k) <= n
<1> DEFINE f == Frames(n)
<1>1. f \in Nat /\ f * ChunkBytes < n + ChunkBytes
  BY DivCeilFact, FormatAssumption DEF Frames
<1>2. k \in Nat /\ k < f
  BY <1>1
<1> HIDE DEF f
<1>3. k * ChunkBytes + ChunkBytes <= f * ChunkBytes
  BY <1>1, <1>2, Multiples, FormatAssumption
<1>4. k * ChunkBytes \in Nat /\ f * ChunkBytes \in Nat
  BY <1>1, <1>2, Products, FormatAssumption
<1> QED
  BY <1>1, <1>3, <1>4, FormatAssumption DEF ChunkLength, Smaller

(* attachment_plaintext_bytes takes every length encrypt_chunks can give a *)
(* file, and finds the length of the plaintext.                            *)
THEOREM LengthRecovered ==
  ASSUME NEW n \in Nat
  PROVE  ~NotEncrypted(CiphertextBytes(n)) /\ PlaintextBytes(CiphertextBytes(n)) = n
<1> DEFINE f == Frames(n)
           c == CiphertextBytes(n)
           F == f * FrameOverhead
           C == f * ChunkBytes
<1>1. f \in Nat /\ n <= C /\ C < n + ChunkBytes
  BY DivCeilFact, FormatAssumption DEF Frames
<1>2. F \in Nat /\ C \in Nat
  BY <1>1, Products, FormatAssumption
<1>3. (f + 1) * FrameOverhead = F + FrameOverhead /\ (f - 1) * ChunkBytes = C - ChunkBytes
  BY <1>1, FormatAssumption
<1>4. c = n + F + FrameOverhead
  BY <1>1, <1>2, <1>3, FormatAssumption DEF CiphertextBytes
<1>5. HeldFrames(c) = f
  <2>1. c - FrameOverhead = n + F /\ n + F \in Nat
    BY <1>2, <1>4, FormatAssumption
  <2>2. f * (ChunkBytes + FrameOverhead) = C + F
    BY <1>1, FormatAssumption
  <2>3. C + F < n + F + (ChunkBytes + FrameOverhead)
    BY <1>1, <1>2, FormatAssumption
  <2>4. DivCeil(n + F, ChunkBytes + FrameOverhead) = f
    BY <1>1, <1>2, <2>1, <2>2, <2>3, DivCeilUnique, FormatAssumption
  <2> QED
    BY <2>1, <2>4 DEF HeldFrames
<1>6. CASE f = 0
  <2>1. F = 0 /\ C = 0
    BY <1>6, FormatAssumption
  <2>2. n = 0 /\ c = FrameOverhead
    BY <1>1, <1>4, <2>1, FormatAssumption
  <2> QED
    BY <2>2 DEF NotEncrypted, PlaintextBytes
<1>7. CASE f # 0
  <2>1. F >= FrameOverhead
    <3>1. 0 * FrameOverhead + FrameOverhead <= f * FrameOverhead
      BY <1>1, <1>7, Multiples, FormatAssumption
    <3> QED
      BY <3>1, FormatAssumption
  <2>2. n # 0
    <3>1. 0 * ChunkBytes + ChunkBytes <= f * ChunkBytes
      BY <1>1, <1>7, Multiples, FormatAssumption
    <3> QED
      BY <1>1, <1>2, <3>1, FormatAssumption
  <2>3. c \in Nat /\ c # FrameOverhead /\ c >= FrameOverhead * 2
    BY <1>2, <1>4, <2>1, <2>2, FormatAssumption
  <2>4. PlaintextBytes(c) = n
    BY <1>2, <1>3, <1>4, <1>5, <2>3, FormatAssumption DEF PlaintextBytes
  <2>5. ~(n <= (f - 1) * ChunkBytes) /\ ~(n > f * ChunkBytes)
    BY <1>1, <1>2, <1>3, FormatAssumption
  <2>6. ~NotEncrypted(c)
    <3> HIDE DEF c, C, F
    <3>1. ~(PlaintextBytes(c) <= (HeldFrames(c) - 1) * ChunkBytes)
      BY <1>5, <2>4, <2>5
    <3>2. ~(PlaintextBytes(c) > HeldFrames(c) * ChunkBytes)
      BY <1>5, <2>4, <2>5
    <3> QED
      BY <1>5, <1>7, <2>3, <3>1, <3>2, FormatAssumption DEF NotEncrypted
  <2> QED
    BY <2>4, <2>6
<1> QED
  BY <1>6, <1>7

(* A length that is taken is the length of a file encrypt_chunks writes:   *)
(* the two functions are inverses of each other.                           *)
THEOREM OnlyEncryptedLengths ==
  ASSUME NEW c \in Nat, ~NotEncrypted(c)
  PROVE  PlaintextBytes(c) \in Nat /\ CiphertextBytes(PlaintextBytes(c)) = c
<1> DEFINE p == PlaintextBytes(c)
           h == HeldFrames(c)
<1>1. CASE c = FrameOverhead
  <2>1. p = 0
    BY <1>1 DEF PlaintextBytes
  <2>2. Frames(0) = 0
    BY DivCeilUnique, FormatAssumption DEF Frames
  <2> QED
    BY <1>1, <2>1, <2>2, FormatAssumption DEF CiphertextBytes
<1>2. CASE c # FrameOverhead
  <2>1. c >= FrameOverhead * 2 /\ h # 0 /\ p > (h - 1) * ChunkBytes /\ p <= h * ChunkBytes
    <3>1. h \in Nat
      BY <1>2, DivCeilFact, FormatAssumption DEF HeldFrames, NotEncrypted
    <3>2. (h + 1) * FrameOverhead \in Int /\ (h - 1) * ChunkBytes \in Int /\ h * ChunkBytes \in Int
      BY <3>1, FormatAssumption
    <3>3. p = c - (h + 1) * FrameOverhead
      BY <1>2 DEF PlaintextBytes
    <3> QED
      BY <1>2, <3>2, <3>3, FormatAssumption DEF NotEncrypted
  <2>2. h \in Nat
    BY <2>1, DivCeilFact, FormatAssumption DEF HeldFrames
  <2>3. p = c - (h + 1) * FrameOverhead
    BY <1>2 DEF PlaintextBytes
  <2> HIDE DEF p, h
  <2>4. (h + 1) * FrameOverhead \in Int
    BY <2>2, FormatAssumption
  <2>5. (h - 1) * ChunkBytes = h * ChunkBytes - ChunkBytes /\ h * ChunkBytes \in Nat
    BY <2>2, Products, FormatAssumption
  <2>6. (h - 1) * ChunkBytes >= 0
    BY <2>1, <2>2, Products, FormatAssumption
  <2>7. p \in Nat
    BY <2>1, <2>3, <2>4, <2>5, <2>6, FormatAssumption
  <2>8. Frames(p) = h
    BY <2>1, <2>2, <2>5, <2>7, DivCeilUnique, FormatAssumption DEF Frames
  <2>9. CiphertextBytes(p) = c
    BY <2>2, <2>3, <2>4, <2>7, <2>8 DEF CiphertextBytes
  <2> QED
    BY <2>7, <2>9 DEF p
<1> QED
  BY <1>1, <1>2
-----------------------------------------------------------------------------
(* The block of length k that position b is in is one of the div_ceil(n, k)*)
(* blocks of a file of n bytes.                                            *)
LEMMA BlockOf ==
  ASSUME NEW k \in Nat \ {0}, NEW n \in Nat, NEW b \in 0 .. n - 1
  PROVE  \E j \in 0 .. DivCeil(n, k) - 1 : j * k <= b /\ b < j * k + k
<1> DEFINE j == b \div k
           d == DivCeil(n, k)
<1>1. j \in Int /\ j * k <= b /\ b < j * k + k
  BY Quotient
<1>2. d \in Nat /\ n <= d * k
  BY DivCeilFact
<1> HIDE DEF j, d
<1>3. j >= 0
  <2> SUFFICES ASSUME j < 0 PROVE FALSE
    BY <1>1
  <2>1. j * k + k <= 0 * k
    BY <1>1, Multiples
  <2> QED
    BY <1>1, <2>1
<1>4. j < d
  <2> SUFFICES ASSUME d <= j PROVE FALSE
    BY <1>1, <1>2
  <2>1. d * k <= j * k
    <3>1. CASE d = j
      BY <1>1, <1>2, <3>1
    <3>2. CASE d < j
      <4>1. d * k + k <= j * k
        BY <1>1, <1>2, <3>2, Multiples
      <4>2. d * k \in Int /\ j * k \in Int
        BY <1>1, <1>2
      <4> QED
        BY <4>1, <4>2
    <3> QED
      BY <1>1, <1>2, <3>1, <3>2
  <2>2. d * k \in Int /\ j * k \in Int
    BY <1>1, <1>2
  <2> QED
    BY <1>1, <1>2, <2>1, <2>2
<1>5. j \in 0 .. d - 1
  BY <1>1, <1>2, <1>3, <1>4
<1> QED
  BY <1>1, <1>5 DEF d

(* The parts of a file of c > 0 bytes: where each begins and ends.         *)
LEMMA Parts ==
  ASSUME NEW c \in Nat, NEW k \in 0 .. PartCount(c) - 1
  PROVE  /\ PartCount(c) \in Nat
         /\ PartOffset(k) \in Nat
         /\ PartLength(c, k) \in 1 .. PartBytes
         /\ PartOffset(k) + PartLength(c, k) <= c
         /\ k + 1 < PartCount(c) => PartLength(c, k) = PartBytes
<1> DEFINE d == PartCount(c)
<1>1. d \in Nat /\ d * PartBytes < c + PartBytes
  BY DivCeilFact, FormatAssumption DEF PartCount
<1>2. k \in Nat /\ k < d
  BY <1>1
<1> HIDE DEF d
<1>3. k * PartBytes + PartBytes <= d * PartBytes
  BY <1>1, <1>2, Multiples, FormatAssumption
<1>4. k * PartBytes \in Nat /\ d * PartBytes \in Nat
  BY <1>1, <1>2, Products, FormatAssumption
<1>5. k * PartBytes < c
  BY <1>1, <1>3, <1>4, FormatAssumption
<1>6. ASSUME k + 1 < d
      PROVE  k * PartBytes + PartBytes < c
  <2>1. (k + 1) * PartBytes + PartBytes <= d * PartBytes
    BY <1>1, <1>2, <1>6, Multiples, FormatAssumption
  <2>2. (k + 1) * PartBytes = k * PartBytes + PartBytes
    BY <1>2, FormatAssumption
  <2> QED
    BY <1>1, <1>4, <2>1, <2>2, FormatAssumption
<1>7. PartLength(c, k) = IF c - k * PartBytes < PartBytes THEN c - k * PartBytes ELSE PartBytes
  BY <1>4, <1>5, FormatAssumption DEF PartLength, PartOffset, Smaller, Larger
<1>8. k + 1 < d => PartLength(c, k) = PartBytes
  BY <1>4, <1>6, <1>7, FormatAssumption
<1>9. PartLength(c, k) \in 1 .. PartBytes /\ k * PartBytes + PartLength(c, k) <= c
  BY <1>4, <1>5, <1>7, FormatAssumption
<1> QED
  BY <1>1, <1>4, <1>8, <1>9 DEF d, PartOffset

(* The server takes what upload_attachments asks for: the upload itself,   *)
(* and every part of it, which the desktop can read from its file.         *)
THEOREM PartsAccepted ==
  ASSUME NEW c \in 1 .. MaxAttachmentBytes
  PROVE  /\ CreateAccepted(c, PartBytes, PartCount(c))
         /\ \A k \in 0 .. PartCount(c) - 1 :
              /\ Readable(c, PartOffset(k), PartLength(c, k))
              /\ PartAccepted(PartBytes, PartCount(c), k, PartLength(c, k))
<1>1. c \in Nat /\ c # 0 /\ c <= MaxAttachmentBytes
  BY FormatAssumption
<1>2. CreateAccepted(c, PartBytes, PartCount(c))
  <2>1. PartCount(c) # 0
    BY <1>1, DivCeilFact, FormatAssumption DEF PartCount
  <2>2. Larger(PartBytes, 1) = PartBytes
    BY FormatAssumption DEF Larger
  <2> QED
    BY <1>1, <2>1, <2>2, FormatAssumption DEF CreateAccepted, PartCount
<1>3. ASSUME NEW k \in 0 .. PartCount(c) - 1
      PROVE  /\ Readable(c, PartOffset(k), PartLength(c, k))
             /\ PartAccepted(PartBytes, PartCount(c), k, PartLength(c, k))
  <2>1. /\ PartCount(c) \in Nat
        /\ PartOffset(k) \in Nat
        /\ PartLength(c, k) \in 1 .. PartBytes
        /\ PartOffset(k) + PartLength(c, k) <= c
        /\ k + 1 < PartCount(c) => PartLength(c, k) = PartBytes
    BY <1>1, Parts
  <2>2. Readable(c, PartOffset(k), PartLength(c, k))
    BY <1>1, <2>1, FormatAssumption DEF Readable, Larger
  <2>3. PartAccepted(PartBytes, PartCount(c), k, PartLength(c, k))
    BY <2>1, FormatAssumption DEF PartAccepted
  <2> QED
    BY <2>2, <2>3
<1> QED
  BY <1>2, <1>3

(* The parts are the whole file and nothing twice: every position of it is *)
(* in one part and in no other.                                            *)
THEOREM PartsPartition ==
  ASSUME NEW c \in Nat, NEW b \in 0 .. c - 1
  PROVE  \E k \in 0 .. PartCount(c) - 1 :
           /\ PartOffset(k) <= b /\ b < PartOffset(k) + PartLength(c, k)
           /\ \A l \in 0 .. PartCount(c) - 1 :
                PartOffset(l) <= b /\ b < PartOffset(l) + PartLength(c, l) => l = k
<1>1. PICK k \in 0 .. PartCount(c) - 1 : k * PartBytes <= b /\ b < k * PartBytes + PartBytes
  BY BlockOf, FormatAssumption DEF PartCount
<1>2. PartCount(c) \in Nat
  BY DivCeilFact, FormatAssumption DEF PartCount
<1>3. k * PartBytes \in Nat
  BY <1>2, Products, FormatAssumption
<1>4. PartOffset(k) <= b /\ b < PartOffset(k) + PartLength(c, k)
  BY <1>1, <1>3, FormatAssumption DEF PartOffset, PartLength, Smaller, Larger
<1>5. ASSUME NEW l \in 0 .. PartCount(c) - 1,
             PartOffset(l) <= b, b < PartOffset(l) + PartLength(c, l)
      PROVE  l = k
  <2>1. l * PartBytes \in Nat /\ l * PartBytes <= b
    BY <1>2, <1>5, Products, FormatAssumption DEF PartOffset
  <2>2. b < l * PartBytes + PartBytes
    BY <1>5, <2>1, Parts, FormatAssumption DEF PartOffset
  <2>3. ~(l < k)
    <3> SUFFICES ASSUME l < k PROVE FALSE
      OBVIOUS
    <3>1. l * PartBytes + PartBytes <= k * PartBytes
      BY <1>2, Multiples, FormatAssumption
    <3> QED
      BY <1>1, <1>3, <2>1, <2>2, <3>1, FormatAssumption
  <2>4. ~(k < l)
    <3> SUFFICES ASSUME k < l PROVE FALSE
      OBVIOUS
    <3>1. k * PartBytes + PartBytes <= l * PartBytes
      BY <1>2, Multiples, FormatAssumption
    <3> QED
      BY <1>1, <1>3, <2>1, <3>1, FormatAssumption
  <2> QED
    BY <1>2, <2>3, <2>4
<1> QED
  BY <1>4, <1>5
-----------------------------------------------------------------------------
(* A range that is answered lies within the plaintext and is no longer     *)
(* than an answer may be, whatever bounds the request leaves out.          *)
THEOREM RangeWithin ==
  ASSUME NEW total \in Nat \ {0}, NEW r \in RangeRequest, ~OutOfBounds(total, r)
  PROVE  /\ RangeStart(total, r) \in 0 .. total - 1
         /\ CappedEnd(total, r) \in RangeStart(total, r) .. total - 1
         /\ CappedEnd(total, r) - RangeStart(total, r) < MaxRangeBytes
<1> DEFINE s == RangeStart(total, r)
           e == RangeEnd(total, r)
<1>1. /\ r.start \in Nat \union {-1} /\ r.end \in Nat \union {-1}
      /\ r.start # -1 \/ r.end # -1
  BY DEF RangeRequest, Blank
<1>2. s \in Nat
  BY <1>1 DEF RangeStart, Smaller, Blank
<1>3. e \in Int /\ e <= total - 1
  BY <1>1 DEF RangeEnd, Smaller, Blank
<1>4. s < total /\ s <= e
  BY <1>2, <1>3 DEF OutOfBounds
<1>5. CappedEnd(total, r) = IF e < s + MaxRangeBytes - 1 THEN e ELSE s + MaxRangeBytes - 1
  BY DEF CappedEnd, Smaller
<1> HIDE DEF s, e
<1>6. /\ s \in 0 .. total - 1
      /\ CappedEnd(total, r) \in s .. total - 1
      /\ CappedEnd(total, r) - s < MaxRangeBytes
  BY <1>2, <1>3, <1>4, <1>5, FormatAssumption
<1> QED
  BY <1>6 DEF s

(* The chunks, as they are decrypted, add the bytes of the range to the    *)
(* answer: all of them, no other, and in their order.                      *)
THEOREM RangeCollected ==
  ASSUME NEW n \in Nat, NEW start \in 0 .. n - 1, NEW end \in start .. n - 1
  PROVE  /\ \A b \in start .. end :
              \E k \in 0 .. Frames(n) - 1 : b \in Collected(n, k, start, end)
         /\ \A k \in 0 .. Frames(n) - 1 :
              \A b \in Collected(n, k, start, end) : b \in start .. end
         /\ \A k, l \in 0 .. Frames(n) - 1 : k < l =>
              \A b \in Collected(n, k, start, end), d \in Collected(n, l, start, end) : b < d
<1>1. Frames(n) \in Nat
  BY DivCeilFact, FormatAssumption DEF Frames
<1>2. ASSUME NEW b \in start .. end
      PROVE  \E k \in 0 .. Frames(n) - 1 : b \in Collected(n, k, start, end)
  <2>1. b \in 0 .. n - 1
    OBVIOUS
  <2>2. PICK k \in 0 .. Frames(n) - 1 : k * ChunkBytes <= b /\ b < k * ChunkBytes + ChunkBytes
    BY <2>1, BlockOf, FormatAssumption DEF Frames
  <2>3. k * ChunkBytes \in Nat
    BY Chunks
  <2>4. b \in Collected(n, k, start, end)
    BY <2>1, <2>2, <2>3, FormatAssumption DEF Collected, ChunkLength, Smaller, Larger
  <2> QED
    BY <2>4
<1>3. ASSUME NEW k \in 0 .. Frames(n) - 1, NEW b \in Collected(n, k, start, end)
      PROVE  b \in start .. end /\ k * ChunkBytes <= b /\ b < k * ChunkBytes + ChunkBytes
  <2>1. /\ k * ChunkBytes \in Nat
        /\ ChunkLength(n, k) \in 1 .. ChunkBytes
    BY Chunks
  <2> QED
    BY <2>1, FormatAssumption DEF Collected, Smaller, Larger
<1>4. ASSUME NEW k \in 0 .. Frames(n) - 1, NEW l \in 0 .. Frames(n) - 1, k < l,
             NEW b \in Collected(n, k, start, end), NEW d \in Collected(n, l, start, end)
      PROVE  b < d
  <2>1. b \in Nat /\ b < k * ChunkBytes + ChunkBytes
    BY <1>3
  <2>2. d \in Nat /\ l * ChunkBytes <= d
    BY <1>3
  <2>3. k * ChunkBytes + ChunkBytes <= l * ChunkBytes
    BY <1>1, <1>4, Multiples, FormatAssumption
  <2>4. k * ChunkBytes \in Nat /\ l * ChunkBytes \in Nat
    BY Chunks
  <2> QED
    BY <2>1, <2>2, <2>3, <2>4, FormatAssumption
<1> QED
  BY <1>2, <1>3, <1>4
-----------------------------------------------------------------------------
(* The import measures the plaintext and the server the ciphertext. With   *)
(* the same limit for both, as in the source, the longest plaintexts are   *)
(* imported and then never taken by the server, however they are cut.      *)
THEOREM LargestImportRefused ==
  ASSUME MaxImportedBytes = MaxAttachmentBytes
  PROVE  /\ Importable(MaxImportedBytes)
         /\ \A size \in Nat, parts \in Nat :
              ~CreateAccepted(CiphertextBytes(MaxImportedBytes), size, parts)
<1>1. Frames(MaxImportedBytes) \in Nat
  BY DivCeilFact, FormatAssumption DEF Frames
<1>2. CiphertextBytes(MaxImportedBytes) > MaxImportedBytes
  <2> DEFINE f == Frames(MaxImportedBytes) + 1
  <2>1. f \in Nat \ {0}
    BY <1>1
  <2>2. f * FrameOverhead \in Nat \ {0}
    <3> HIDE DEF f
    <3> QED
      BY <2>1, FormatAssumption
  <2> QED
    BY <2>2, FormatAssumption DEF CiphertextBytes
<1>3. CiphertextBytes(MaxImportedBytes) \in Nat
  BY <1>1, Products, FormatAssumption DEF CiphertextBytes
<1> QED
  BY <1>2, <1>3, FormatAssumption DEF Importable, CreateAccepted
=============================================================================
