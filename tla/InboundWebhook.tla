--------------------------- MODULE InboundWebhook ---------------------------
(***************************************************************************)
(* POST /inbound/email: the mail provider posts a forwarded mail and posts *)
(* it again until it is answered 202.  The provider is external; the gates *)
(* before process_inbound_email (configuration, signature, schema, unknown *)
(* token) answer without touching any state and are left out.              *)
(***************************************************************************)
EXTENDS InboundEmail

CONSTANTS
  Forwarded, \* the mails that the provider posts
  Handlers   \* request handlers, each with its session

ASSUME WebhookAssumption == Forwarded \subseteq Mails /\ Handlers \subseteq Sessions

VARIABLE provider \* of each forwarded mail: "pending" or "accepted"

WebhookInit == provider = [m \in Forwarded |-> "pending"]

\* A first delivery or a retry; an earlier one may still be running.
PostMail(h, m) ==
  /\ provider[m] = "pending" /\ Ingesting(h, "idle")
  /\ BeginIngest(h, m)
  /\ UNCHANGED <<rows, stored, faults, provider>>

\* Mutant: an error in the service is answered 202 as well.
RespondAlways202(h) ==
  /\ ingest[h].pc \in {"done", "failed"}
  /\ provider' = [provider EXCEPT ![ingest[h].mail] = "accepted"]
  /\ EndIngest(h)
  /\ UNCHANGED <<rows, stored, faults>>

\* 202, or 500 for an exception that process_inbound_email lets through.
Respond(h) ==
  /\ ingest[h].pc \in {"done", "failed"}
  /\ provider' = IF Ingesting(h, "done")
                   THEN [provider EXCEPT ![ingest[h].mail] = "accepted"] ELSE provider
  /\ EndIngest(h)
  /\ UNCHANGED <<rows, stored, faults>>

\* The handler dies, or its answer does not reach the provider.
HandlerFails(h) ==
  /\ ~Ingesting(h, "idle") /\ Fault
  /\ EndIngest(h)
  /\ UNCHANGED <<rows, stored, provider>>

WebhookStep(h) == Respond(h) \/ \E m \in Forwarded : PostMail(h, m)
WebhookTypeOK == provider \in [Forwarded -> {"pending", "accepted"}]
=============================================================================
