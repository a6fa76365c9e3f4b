----------------------------- MODULE MCFileCache -----------------------------
(***************************************************************************)
(* A file of five bytes in chunks of two and fetches of four, so that the  *)
(* last chunk and the last fetch are cut.  The first stream asks for any   *)
(* range, also outside of the file, the other for one that shares a fetch  *)
(* with it.                                                                *)
(***************************************************************************)
EXTENDS FileCache

CONSTANTS s1, s2

AllRanges == {<<a, b>> \in (0 .. fileSize) \X (0 .. fileSize + 1): b >= a} \cup {<<-1, 1>>}

RangesDef == [s \in Streams |-> IF s = s1 THEN AllRanges ELSE {<<1, 4>>}]
=============================================================================
