---------------------------- MODULE MCTableFile ----------------------------
(* A small instance of TableFile. *)
EXTENDS TableFile

\* The empty key, a key, and one that it is the beginning of.
TableKeys == {<< >>, <<9>>, <<9, 0>>}

\* The empty value, and one whose length takes two bytes.
TableValues == {<< >>, <<3, 1, 4, 1, 5, 9, 2, 6>>}

\* Hashes that share bits of the filter, and hashes that do not.
TableHashes == [TableKeys -> {0, 5, 12}]

=============================================================================
