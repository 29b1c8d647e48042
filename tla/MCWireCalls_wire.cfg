CONSTANTS
  Texts <- ShortTexts
  Buffers = {1, 2, 3, 4, 5, 6, 7, 8, 9, 10, 11, 12, 13, 20}
  Lengths = {0, 1, 90, 511, 2047, 8191}
  Bytes <- ShortBytes
  Iovecs <- ShortIovecs
SPECIFICATION Spec
INVARIANTS EscapeExact EntryWhole Base64RoundTrip 
CHECK_DEADLOCK FALSE
