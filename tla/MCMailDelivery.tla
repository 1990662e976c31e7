--------------------------- MODULE MCMailDelivery ---------------------------
(* MailDelivery for TLC: one agent with a supervisor, and who mails it.    *)
EXTENDS MailDelivery, TLC

CONSTANTS lead, worker

NoParents == <<>>

\* Every move of a socket message, and the queue operation alone.
AllMoves  == {<<"new", "asked">>, <<"new", "accepted">>, <<"asked", "accepted">>,
              <<"new", "queued">>, <<"accepted", "queued">>}
QueueMove == {<<"new", "queued">>}
=============================================================================
