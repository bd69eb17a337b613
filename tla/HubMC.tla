------------------------------- MODULE HubMC -------------------------------
(* A first start; and a start on two accounts, one of an imported key.     *)
EXTENDS Hub

TwoAccounts ==
    [mnemonics |-> <<"main">>,
     accounts |-> <<[address |-> [seed |-> 1, index |-> 0], mnemonic |-> "main"],
                    [address |-> [seed |-> 21, index |-> 0], mnemonic |-> NoLabel]>>,
     active |-> [seed |-> 1, index |-> 0]]

MCStartBooks == {EmptyBook, TwoAccounts}
=============================================================================
