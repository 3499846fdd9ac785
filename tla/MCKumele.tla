------------------------------- MODULE MCKumele -------------------------------
(* The cron and Kumele's orders, for TLC.                                  *)
EXTENDS KumeleMint

\* The first retry is due at the next tick; after that the backoff is longer
\* than one sweep takes over the other jobs.
LaterAndLater == <<1, 2>>
=============================================================================
