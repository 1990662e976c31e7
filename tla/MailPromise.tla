---------------------------- MODULE MailPromise -----------------------------
(***************************************************************************)
(* What the engine promises about each message, without saying how it is   *)
(* delivered: a context receives it at most once, a message withdrawn (it  *)
(* failed, was refused, expired or was cancelled) is received by nobody,   *)
(* then or later, and the engine calls a message delivered only when it    *)
(* was received, or when it went through an input box, where an open turn  *)
(* is taken as proof.  MailDelivery implements this.                       *)
(***************************************************************************)
CONSTANT Rows

VARIABLES
  fate,  \* [Rows -> Fate], what the engine says of the message
  box,   \* the messages whose last attempt went through an input box
  got    \* [Rows -> Nat], how often a context received it

Fate == {"open", "delivered", "uncertain", "withdrawn"}

promiseVars == <<fate, box, got>>

PromiseInit ==
  /\ fate = [i \in Rows |-> "open"] /\ box = {}
  /\ got = [i \in Rows |-> 0]

\* A context receives the message, if it did not before.
Received(i) ==
  /\ fate[i] # "withdrawn" /\ got[i] = 0
  /\ got'[i] = 1 /\ fate'[i] = fate[i] /\ (i \in box' <=> i \in box)

\* An attempt is made, by way of a box or another way.
Attempted(i) ==
  /\ fate[i] = "open" /\ got[i] = 0
  /\ fate'[i] = "open" /\ got'[i] = got[i]

\* The engine settles the message.  Only an open one can be withdrawn or
\* become uncertain; evidence may resolve an uncertain one.
Settled(i) ==
  /\ got'[i] = got[i] /\ (i \in box' <=> i \in box)
  /\ \/ fate[i] = "open" /\ fate'[i] = "uncertain"
     \/ fate[i] = "open" /\ got[i] = 0 /\ fate'[i] = "withdrawn"
     \/ /\ fate[i] \in {"open", "uncertain"} /\ fate'[i] = "delivered"
        /\ got[i] = 1 \/ i \in box

Unmoved(i) == fate'[i] = fate[i] /\ got'[i] = got[i] /\ (i \in box' <=> i \in box)

\* One step may settle several messages, as the end of an agent does.
PromiseNext ==
  /\ fate' \in [Rows -> Fate] /\ box' \subseteq Rows
  /\ \A i \in Rows : Received(i) \/ Attempted(i) \/ Settled(i) \/ Unmoved(i)

PromiseSpec == PromiseInit /\ [][PromiseNext]_promiseVars
=============================================================================
