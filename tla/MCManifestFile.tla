--------------------------- MODULE MCManifestFile ---------------------------
(* A small instance of ManifestFile. *)
EXTENDS ManifestFile

\* Keys are empty, or have a length that takes two bytes.
LongKey        == <<2, 7, 1, 8, 2, 8, 1, 8>>
ManifestRanges == {<<<< >>, LongKey>>, <<LongKey, LongKey>>}

=============================================================================
