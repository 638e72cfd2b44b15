\* The checksum round trip through getNextBatch() and saveFailedFiles(),
\* with signed and unsigned char, for every value of the word.
\* Bytes of three bits: every value of the 12-bit word is checked, with the
\* sign change of a signed char inside every byte.
CONSTANT ByteBits = 3
SPECIFICATION Spec
INVARIANT RoundTrip
\* A row is read and saved once; then nothing is left to do.
CHECK_DEADLOCK FALSE
