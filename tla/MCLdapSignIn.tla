----------------------------- MODULE MCLdapSignIn -----------------------------
(* Attempts and passwords are interchangeable.                              *)
EXTENDS LdapSignIn, TLC

Symmetric == Permutations(Attempts) \cup Permutations(Passwords)
===============================================================================
