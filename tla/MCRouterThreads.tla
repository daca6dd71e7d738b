--------------------------- MODULE MCRouterThreads ---------------------------
(* Small instances of RouterThreads.                                         *)
EXTENDS RouterThreads

DisciplinedOperations == AllOperations \ UndisciplinedOperations
=============================================================================
