------------------------------ MODULE MCReader ------------------------------
\* One iterator over the database of MCClomDB; an unreadable table counts as a fault.
EXTENDS MCClomDB, Reader

CONSTANT MaxMoves  \* bound: calls on iterators, their creation included

VARIABLE moves

Moved == moves' = moves + 1 /\ moves' <= MaxMoves

MCEngine == MCNext /\ UNCHANGED <<cursor, moves>>

MCNewIterator ==
    /\ Moved
    /\ \E bad \in SUBSET Live(version) : NewIterator(bad) /\ Spend(Cardinality(bad))
    /\ UNCHANGED writes

MCWalk == Moved /\ Walk /\ UNCHANGED <<writes, faults>>

MCReaderInit == MCInit /\ ReaderInit /\ moves = 0
MCReaderNext == MCEngine \/ MCNewIterator \/ MCWalk

MCReaderSpec == MCReaderInit /\ [][MCReaderNext]_<<mcvars, cursor, moves>>

=============================================================================
