------------------------------ MODULE MCContacts ------------------------------
EXTENDS Contacts, TLC

CONSTANTS r1, r2, r3

RequestSymmetry == Permutations(Requests)
=============================================================================
