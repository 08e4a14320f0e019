--------------------------- MODULE MCMailIngestion ---------------------------
(* Instances of MailIngestion for TLC. *)
EXTENDS MailIngestion, TLC

\* Two mails of the mailbox (their history ids) and two forwarded mails.
MCMails == {1, 2, 8, 9}
MCForwarded == {8, 9}
NoneForwarded == {}

\* The workers are interchangeable.
Interchangeable == Permutations(Syncers)

\* Mail 1 has two receipts, mail 2 one between an attachment that is none and one
\* above the limit.  Of the forwarded mails one has an attachment above the limit
\* before its receipt, the other an attachment that is no receipt.
MCParts == (1 :> <<"receipt", "receipt">>) @@ (2 :> <<"other", "receipt", "huge">>)
             @@ (8 :> <<"huge", "receipt">>) @@ (9 :> <<"other", "receipt">>)

=============================================================================
