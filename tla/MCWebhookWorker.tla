--------------------------- MODULE MCWebhookWorker ---------------------------
(* Small instances of WebhookWorker for TLC. *)
EXTENDS WebhookWorker
=============================================================================
