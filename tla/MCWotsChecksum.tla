--------------------------- MODULE MCWotsChecksum ---------------------------
(* Digests of 16 bytes at the source's size: bytes of ones up to a place, one
   byte between, and zeros after it, so that every checksum chunk takes its
   least and greatest values and the sum passes from 255 to 256; and digests
   that differ from those in one byte at either end. *)
EXTENDS WotsChecksum

MCDigest(ones, mid) == [b \in 0 .. 15 |-> IF b < ones THEN 255 ELSE IF b = ones THEN mid ELSE 0]

\* The checksum of MCDigest(7, mid) is 270 less the nibbles of mid: 256 for 14 and 224, 255 for 15 and 240.
MCDigests ==
    {MCDigest(ones, 0) : ones \in {0, 1, 8, 15, 16}}
      \cup {MCDigest(7, mid) : mid \in {14, 15, 16, 224, 239, 240, 254}}
      \cup {MCDigest(15, mid) : mid \in {15, 16, 239, 240}}
      \cup {[MCDigest(16, 0) EXCEPT ![0] = byte] : byte \in {120, 239, 254}}
      \cup {[MCDigest(0, 0) EXCEPT ![15] = byte] : byte \in {1, 16, 120}}
=============================================================================
