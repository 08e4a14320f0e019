--------------------------- MODULE MCGmailConsent ---------------------------
(* Instances of GmailConsent for TLC. *)
EXTENDS GmailConsent, TLC

\* Users, accounts, tokens, ids and processes are interchangeable.
Interchangeable ==
  Permutations(Users) \cup Permutations(Accounts) \cup Permutations(Tokens)
    \cup Permutations(Conns) \cup Permutations(Callbacks) \cup Permutations(Removers)
=============================================================================
