----------------------------- MODULE MCParties -----------------------------
EXTENDS Parties, TLC

\* The integers modulo 5.
MCScalar == 0..4
MCPlus(a, b) == (a + b) % 5
MCTimes(a, b) == (a * b) % 5
MCNegative(a) == (5 - a) % 5
MCInverse(a) == (a * a * a) % 5

MCDraws == {0, 1, 3}
=============================================================================
