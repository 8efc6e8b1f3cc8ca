--------------------------- MODULE MCResellerBalance ---------------------------
(* Values for the constants of ResellerBalance. *)
EXTENDS ResellerBalance, TLC

\* Two orders of price 2 against an opening balance of 3: only one fits.
\* A deposit of 2 makes room for the other.
Two == [o \in Order |-> 2]
DepositOfTwo == [d \in Deposit |-> 2]

\* The moves the code makes.
CodeMoves == {<<"pending", "provisioning">>, <<"provisioning", "success">>,
              <<"provisioning", "failed">>, <<"failed", "provisioning">>}
\* An operator's: the outcome is unknown, and is settled by hand.
OperatorMoves == CodeMoves \cup
  {<<"provisioning", "unknown">>, <<"unknown", "success">>, <<"unknown", "failed">>}

Symmetry == Permutations(Request) \cup Permutations(Order)
===============================================================================
