------------------------- MODULE MCTransactionQueue --------------------------
(***************************************************************************)
(* Three transactions: "cheap" and "dear" spend the same note, "dear" also *)
(* spends a second one, which "other" spends too.  "dear" outbids "cheap"  *)
(* but not "other" by the required eighth.                                 *)
(***************************************************************************)
EXTENDS TransactionQueue, TLC

MCTransactions == {"cheap", "dear", "other"}

Two == {"cheap", "dear"}

Spends == [cheap |-> {"n1"}, dear |-> {"n1", "n2"}, other |-> {"n2"}]

Prices == [cheap |-> 8, dear |-> 16, other |-> 15]

MCNullifierSet == [t \in Transactions |-> Spends[t]]

MCGasPrice == [t \in Transactions |-> Prices[t]]

ThreadSymmetry == Permutations(Threads)

=============================================================================
