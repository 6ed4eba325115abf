--------------------------- MODULE MCJournalStore ---------------------------
(***************************************************************************)
(* A small instance of JournalStore: two records, one of them of a kind    *)
(* that may be published without a journal, and transactions of up to two  *)
(* events.                                                                 *)
(***************************************************************************)
EXTENDS JournalStore

CONSTANTS message, session

MCKeys == {message, session}

MCDirectKeys == {session}

MCWriteLists == {<<>>, <<session>>, <<message, session>>}

MCEventCounts == {0, 1, 2}
=============================================================================
