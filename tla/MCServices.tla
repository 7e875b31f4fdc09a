----------------------------- MODULE MCServices -----------------------------
(* Model values and constant values of Services for TLC.                   *)
EXTENDS Services, Sequences

CONSTANTS d1, d2, b1, b2, c1, c2, w1, w2

MCEstimates == {[fee |-> 10, tip |-> 5], [fee |-> 12, tip |-> 6], [fee |-> 7, tip |-> 0]}
MCScrollFees == {[base |-> 2, price |-> 3, tip |-> 1], [base |-> 4, price |-> 3, tip |-> 1]}

MCCoinList == <<"a", "b", "eth">>
MCDecimals == [a |-> 6, b |-> 0, eth |-> 18]

MCFilters == {<<>>, <<2, 1>>}

fee == <<[token |-> 0, amount |-> 2]>>
fit == [https |-> TRUE, up |-> TRUE, version |-> 1, registrationFee |-> fee,
        nonRegistrationFee |-> <<>>, balance |-> 2]
MCProfiles ==
    {fit,
     [fit EXCEPT !.https = FALSE],
     [fit EXCEPT !.up = FALSE],
     [fit EXCEPT !.version = 0],
     [fit EXCEPT !.balance = 1],
     [fit EXCEPT !.registrationFee = fee \o <<[token |-> 0, amount |-> 3]>>],
     [fit EXCEPT !.nonRegistrationFee = <<[token |-> 7, amount |-> 0]>>]}

MCRequired == [w \in Wallets |-> 1]
=============================================================================
