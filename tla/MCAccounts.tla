----------------------------- MODULE MCAccounts -----------------------------
(***************************************************************************)
(* Small instances of Accounts.                                            *)
(***************************************************************************)
EXTENDS Accounts, TLC

CONSTANTS ann, ben,     \* people on Discord
          a1, a2,       \* ids of users
          l1, l2,       \* logins
          pic, seed1, seed2   \* sources of pictures

Symmetric ==
  Permutations({ann, ben}) \union Permutations({a1, a2}) \union Permutations({l1, l2})
    \union Permutations({seed1, seed2})
=============================================================================
