------------------------------ MODULE DbWriter ------------------------------
(***************************************************************************)
(* The engine's one database writer (engine/db/writer.rs, tx_job in        *)
(* engine/db/mod.rs): a bounded queue of jobs, the thread that runs them,  *)
(* callers on the async runtime, callers on threads of their own           *)
(* (supervisors), and close.                                               *)
(*                                                                         *)
(* The thread ends when nobody holds a sender and the queue is empty;      *)
(* close drops the writer's own sender and joins the thread.  On a runtime *)
(* of one thread, close stops every async caller until it returns.         *)
(***************************************************************************)
EXTENDS Naturals, Sequences

CONSTANTS
    Async,     \* callers on the async runtime (Writer::call)
    Blocking,  \* callers on their own thread (Writer::call_blocking)
    Capacity,  \* QUEUE_CAPACITY
    NoJob      \* the thread runs nothing

ASSUME CallersApart == Async \cap Blocking = {}
ASSUME CapacityIsPositive == Capacity \in Nat \ {0}

Callers == Async \cup Blocking
ASSUME NoJobIsNoCaller == NoJob \notin Callers

VARIABLES
    at,         \* where each caller is in its call
    queue,      \* callers whose jobs wait
    tx,         \* the writer still has its sender
    running,    \* the caller whose job the thread runs, or NoJob
    ended,      \* the thread ended
    reply,      \* what came of a caller's job: none, ok, failed or lost
    closer,     \* close: idle, joining or closed
    oneThread   \* the runtime has one thread, and close runs on it

writerVars == <<at, queue, tx, running, ended, reply, closer, oneThread>>

\* A caller holds a clone of the sender from taking it until its job is in
\* the queue, or, if async, until it goes to sleep on a full queue.
Places == {"out", "holding", "sleeping", "waiting", "ok", "failed", "stopped"}
Answers == {"ok", "failed", "stopped"}
SendersAsleepToo == {p \in Callers : at[p] \in {"holding", "sleeping"}}
Senders == {p \in Callers : at[p] = "holding"}

\* Async callers move only while the runtime has a thread for them.
Scheduled(p) == p \in Async => ~(oneThread /\ closer = "joining")

WriterInit ==
    /\ at = [p \in Callers |-> "out"]
    /\ queue = <<>>
    /\ tx = TRUE
    /\ running = NoJob
    /\ ended = FALSE
    /\ reply = [p \in Callers |-> "none"]
    /\ closer = "idle"
    /\ oneThread \in BOOLEAN

Goes(p, place) == at' = [at EXCEPT ![p] = place]

\* sender(): a clone from under the lock, or WRITER_STOPPED after close.
TakeSender(p, from) ==
    /\ at[p] = from
    /\ Scheduled(p)
    /\ Goes(p, IF tx THEN "holding" ELSE "stopped")
    /\ UNCHANGED <<queue, tx, running, ended, reply, closer, oneThread>>

Call(p) == TakeSender(p, "out")

\* There is room: the job is in the queue, the sender is dropped.
Send(p) ==
    /\ at[p] = "holding"
    /\ Scheduled(p)
    /\ Len(queue) < Capacity
    /\ queue' = Append(queue, p)
    /\ Goes(p, "waiting")
    /\ UNCHANGED <<tx, running, ended, reply, closer, oneThread>>

\* The queue is full.  A blocking caller stays in send with its sender; an
\* async one drops it and sleeps.
Full(p) ==
    /\ p \in Async
    /\ at[p] = "holding"
    /\ Scheduled(p)
    /\ Len(queue) >= Capacity
    /\ Goes(p, "sleeping")
    /\ UNCHANGED <<queue, tx, running, ended, reply, closer, oneThread>>

\* The backoff is over: the next try takes a fresh sender.
Wake(p) == TakeSender(p, "sleeping")

\* What the caller makes of the reply: a dropped one is WRITER_STOPPED.
Answer(r) == IF r = "lost" THEN "stopped" ELSE r
HearReplyOrClose(p) ==
    /\ at[p] = "waiting"
    /\ Scheduled(p)
    /\ reply[p] # "none" \/ closer = "joining"
    /\ Goes(p, IF reply[p] = "none" THEN "stopped" ELSE Answer(reply[p]))
    /\ UNCHANGED <<queue, tx, running, ended, reply, closer, oneThread>>
HearReply(p) ==
    /\ at[p] = "waiting"
    /\ Scheduled(p)
    /\ reply[p] # "none"
    /\ Goes(p, Answer(reply[p]))
    /\ UNCHANGED <<queue, tx, running, ended, reply, closer, oneThread>>

\* The thread takes the next job, and runs it while others queue.
TakeJob ==
    /\ ~ended
    /\ running = NoJob
    /\ queue # <<>>
    /\ running' = Head(queue)
    /\ queue' = Tail(queue)
    /\ UNCHANGED <<at, tx, ended, reply, closer, oneThread>>

\* The job ends: its transaction committed (ok), rolled back (failed), or it
\* panicked, which rolls back too and drops the reply (lost).
EndJob ==
    /\ running # NoJob
    /\ \E r \in {"ok", "failed", "lost"} : reply' = [reply EXCEPT ![running] = r]
    /\ running' = NoJob
    /\ UNCHANGED <<at, queue, tx, ended, closer, oneThread>>

\* No sender is left and the queue is empty: the loop over the receiver ends.
EndThread ==
    /\ ~ended
    /\ running = NoJob
    /\ queue = <<>>
    /\ ~tx
    /\ Senders = {}
    /\ ended' = TRUE
    /\ UNCHANGED <<at, queue, tx, running, reply, closer, oneThread>>

\* close runs on the runtime's only thread: no async caller is in the middle
\* of a try then, since a try does not await.
Close ==
    /\ closer = "idle"
    /\ oneThread => \A p \in Async : at[p] # "holding"
    /\ tx' = FALSE
    /\ closer' = "joining"
    /\ UNCHANGED <<at, queue, running, ended, reply, oneThread>>

Join ==
    /\ closer = "joining"
    /\ ended
    /\ closer' = "closed"
    /\ UNCHANGED <<at, queue, tx, running, ended, reply, oneThread>>

\* Moves of a caller inside its call, and of the thread and close.
CallerStep(p) ==
    Send(p) \/ Full(p) \/ Wake(p) \/ HearReply(p)
ThreadStep == TakeJob \/ EndJob \/ EndThread
InsideStep == (\E p \in Callers : CallerStep(p)) \/ ThreadStep \/ Close \/ Join

WriterNext == (\E p \in Callers : Call(p)) \/ InsideStep
WriterSpec == WriterInit /\ [][WriterNext]_writerVars
-----------------------------------------------------------------------------
WriterTypeOK ==
    /\ at \in [Callers -> Places]
    /\ queue \in Seq(Callers)
    /\ running \in Callers \cup {NoJob}
    /\ reply \in [Callers -> {"none", "ok", "failed", "lost"}]
    /\ closer \in {"idle", "joining", "closed"}
    /\ <<tx, ended, oneThread>> \in BOOLEAN \X BOOLEAN \X BOOLEAN

\* A caller's answer is what became of its job: told ok, the job committed;
\* told anything else, it did not, and no job of the caller is left that may
\* still commit behind its back.
AnswerIsTrue ==
    \A p \in Callers :
        /\ at[p] = "ok" => reply[p] = "ok"
        /\ at[p] \in {"failed", "stopped"} =>
               /\ reply[p] # "ok"
               /\ running # p
               /\ \A i \in DOMAIN queue : queue[i] # p

\* When close returns, every accepted job was run and no thread is left that
\* could touch the database: the engine lock may go.
ClosedIsQuiet ==
    closer = "closed" =>
        /\ ended /\ running = NoJob /\ queue = <<>>
        /\ \A p \in Callers : at[p] = "waiting" => reply[p] # "none"
=============================================================================
