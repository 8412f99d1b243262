----------------------------- MODULE MCLogFile -----------------------------
(* A small instance of LogFile. *)
EXTENDS LogFile

LogKeys == {<< >>}

\* The empty string, and one whose length takes two bytes.
LogValues == {<< >>, <<1, 0, 2, 0, 1, 0, 2, 0>>}

=============================================================================
