--------------------------- MODULE MCNegDentCreate ---------------------------
(* Model-checking instances of NegDentCreate.                              *)
EXTENDS NegDentCreate

AllOps == {"stat", "open", "create", "unlink", "create_close_unlink",
           "create_unlink_close"}

\* -t with a word or 0, and below zero, too.
ManyThreads == {-1, 0, 1, 2, 3}

=============================================================================
