------------------------------ MODULE MCAuth ------------------------------
EXTENDS Auth, TLC

\* Nothing tells two users, passwords, clients or requests apart.
Symmetry ==
    Permutations(Users) \cup Permutations(Passwords) \cup Permutations(Clients)
        \cup Permutations(Requests)
=============================================================================
