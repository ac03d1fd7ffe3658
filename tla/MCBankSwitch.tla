--------------------------- MODULE MCBankSwitch ----------------------------
\* The values of the constants of BankSwitch for model checking.
EXTENDS BankSwitch

List(a, b, c) == [p \in Banks |-> CASE p = 0 -> a [] p = 1 -> b [] p = 2 -> c
                                    [] OTHER -> None]
SomeRanges == {<<0, 1>>, <<1, 2>>, <<0, 7>>}
SomeSequences == {List(0, 3, 5)}
=============================================================================
