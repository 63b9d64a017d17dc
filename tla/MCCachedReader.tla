--------------------------- MODULE MCCachedReader ---------------------------
(***************************************************************************)
(* A file of ten bytes, read by two concurrent calls, three in all, under  *)
(* a limit of two requests: lists that merge, split, repeat a range, come  *)
(* out of order and pass the end, and a header range the file cuts short.  *)
(***************************************************************************)
EXTENDS CachedReader

MCBlockLists ==
  { <<ByteRange(0, 2), ByteRange(3, 5)>>,                      \* one request
    <<ByteRange(6, 8), ByteRange(0, 2), ByteRange(6, 8)>>,     \* two, out of order
    <<ByteRange(3, 5), ByteRange(9, 11)>> }                    \* beyond the end
MCMetaRanges == {ByteRange(8, 12)}
=============================================================================
