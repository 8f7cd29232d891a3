\* Pairs of 16-byte digests, with checksums from 0 over 255 and 256 to 480.
CONSTANTS
    N = 16
    Inputs <- MCDigests
SPECIFICATION CsumSpec
INVARIANTS CsumTypeOK NoDominance CsumExact
