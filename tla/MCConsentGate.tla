--------------------------- MODULE MCConsentGate ---------------------------
\* Small instances of ConsentGate: the constants are model values given in the
\* configurations; rooms and requests are interchangeable where the text allows.
EXTENDS ConsentGate, TLC

Interchangeable ==
    Permutations(Claude) \union Permutations(Token) \union Permutations(Accepter)
=============================================================================
