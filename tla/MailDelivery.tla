---------------------------- MODULE MailDelivery ----------------------------
(***************************************************************************)
(* The delivery of mail (engine/create.rs `deliver` and the end paths      *)
(* around it), over the ledger of MailLedger.  The supervisor of an agent  *)
(* takes one message at a time and either pastes it into the session's     *)
(* input box and submits it with a carriage return, or sends it to the     *)
(* session's peer socket with a job of its own.  It reads the store in     *)
(* one transaction and writes it in a later one, while hooks, transcript   *)
(* entries and receipts of the session write too.                          *)
(*                                                                         *)
(* The session (Claude Code) is external: what it may do is what the       *)
(* engine's code is prepared for.  It may swallow a paste or a return      *)
(* (an open dialog), open turns on its own, lose a hook, and drop, deny or *)
(* read a socket message.  Timeouts are nondeterministic: they may fire    *)
(* whenever their phase allows it; DeliveryFair has them fire in the end.  *)
(***************************************************************************)
EXTENDS MailLedger, Sequences

CONSTANTS
  Served,             \* the agents with a supervisor; the others only send
  Gates,              \* what socket_route may find: socket, bad, or pty
  MaxPtyAttempts,     \* MAX_ATTEMPTS
  MaxSocketAttempts,  \* SOCKET_MAX_ATTEMPTS
  Moves,              \* how a socket message moves in the session, as <<from, to>>
  Refusals,           \* the receipts that refuse a message
  MaxNotes,           \* bound: notes of a row
  StoreFails          \* whether a supervisor's write to the store may fail

ASSUME DeliveryConstants ==
  /\ Served \subseteq Agents
  /\ Gates \subseteq {"socket", "bad", "pty"}
  /\ MaxPtyAttempts \in Nat /\ MaxSocketAttempts \in Nat /\ MaxNotes \in Nat
  /\ Moves \subseteq {"new", "asked", "accepted"} \X {"asked", "accepted", "queued"}
  /\ Refusals \subseteq {"dropped", "denied", "expired", "duplicate", "refused"}
  /\ StoreFails \in BOOLEAN

\* The delivery takes by both routes and marks every result.
ASSUME LedgerServes ==
  /\ Routes = {"pty", "socket"}
  /\ Results = {"delivered", "failed", "uncertain", "rejected", "expired"}

VARIABLES
  engine,    \* "up", "draining" or "down"
  sup,       \* [Served -> record]: the supervisor's Delivery
  job,       \* [Served -> row and outcome]: the socket write in progress
  tty,       \* [Served -> Seq]: what the session has yet to read on its PTY
  cc,        \* [Served -> the session: alive, box, turn open, socket inbox]
  got,       \* [Rows -> Nat]: how often a context received the row
  hints,     \* rows whose hook or transcript entry is under way
  receipts,  \* [row, kind]: socket receipts and queue operations under way
  notes      \* [Rows -> Seq]: the notes in message_status, with the take noted

deliveryVars == <<engine, sup, job, tty, cc, got, hints, receipts, notes>>
allVars == <<mail, paused, ended, now,
             engine, sup, job, tty, cc, got, hints, receipts, notes>>

Return == NoRow    \* the carriage return among the rows of tty

\* seen is receipt_seq, the notes already read; turn says whether a turn has
\* ended since the write: not, before CC's enqueue was seen, or after it.
Phase   == {"off", "idle", "chosen", "taken", "pasted", "submitted", "pasteheld",
            "sending", "awaiting", "enqueued", "held", "givingup", "retiring",
            "killing", "stopping"}
Awaiting == {"awaiting", "enqueued", "held"}    \* Delivery::SocketAwaiting
Delivery == [at : Phase, row : Rows \union {NoRow}, gate : {"socket", "bad", "pty"},
             seen : Nat, turn : {"no", "old", "new"}]

Off     == [at |-> "off", row |-> NoRow, gate |-> "pty", seen |-> 0, turn |-> "no"]
Idle    == [Off EXCEPT !.at = "idle"]
NoJob   == [row |-> NoRow, out |-> "none"]
Fresh   == [alive |-> TRUE,  box |-> {}, turn |-> FALSE, inbox |-> {}]
Dead    == [alive |-> FALSE, box |-> {}, turn |-> FALSE, inbox |-> {}]

Stage   == {"new", "asked", "accepted", "queued"}   \* of a socket message

InFlight(i)   == mail[i].state = "delivering"
At(a, phase)  == sup[a].at = phase
Goto(a, s)    == sup' = [sup EXCEPT ![a] = s]
Now(a, phase) == [sup[a] EXCEPT !.at = phase]

\* The supervisor takes a command or sees an exit only between two ticks.
BetweenTicks(a) ==
  sup[a].at \in {"idle", "pasted", "submitted", "sending", "pasteheld"} \union Awaiting

\* A supervisor's write to the store; when it fails it is only logged.
Skip == UNCHANGED <<mail, paused, ended, now>>
MailWrite(A) == A \/ (StoreFails /\ Skip)

-----------------------------------------------------------------------------
(* Idle: choose a message and a route, then take it.                       *)

\* Adopt a socket delivery that is still in flight.
Adopt(a) ==
  /\ engine = "up" /\ At(a, "idle")
  /\ \E i \in Used :
       /\ InFlight(i) /\ mail[i].to = a /\ mail[i].via = "socket"
       /\ Goto(a, [Idle EXCEPT !.at = "awaiting", !.row = i, !.gate = "socket"])
  /\ UNCHANGED <<mail, paused, ended, now, engine, job, tty, cc, got, hints, receipts, notes>>

\* socket_route: a person's mail always goes through the input box.
GatesFor(i) == IF mail[i].from \in People THEN {"pty"} ELSE Gates

\* may_deliver: the merge says ready and the box is free.
MayDeliver(a) == cc[a].alive /\ ~cc[a].turn /\ cc[a].box = {}

Choose(a) ==
  /\ engine = "up" /\ At(a, "idle")
  /\ ~\E i \in Used : InFlight(i) /\ mail[i].to = a /\ mail[i].via = "socket"
  /\ \E i \in Rows : \E g \in Gates \union {"pty"} :
       /\ PeekNext(a, i) /\ g \in GatesFor(i)
       /\ g = "pty" => MayDeliver(a)
       /\ Goto(a, [Idle EXCEPT !.at = "chosen", !.row = i, !.gate = g])
  /\ UNCHANGED <<mail, paused, ended, now, engine, job, tty, cc, got, hints, receipts, notes>>

\* The take rechecks, in its transaction, that the row is still the next.
TakeChosen(a) ==
  /\ engine # "down" /\ At(a, "chosen")
  /\ \/ /\ Take(a, sup[a].row, IF sup[a].gate = "pty" THEN "pty" ELSE "socket")
        /\ Goto(a, Now(a, "taken"))
     \/ /\ ~PeekNext(a, sup[a].row) \/ StoreFails
        /\ Goto(a, Idle) /\ Skip
  /\ UNCHANGED <<engine, job, tty, cc, got, hints, receipts, notes>>

-----------------------------------------------------------------------------
(* The input box.                                                          *)

\* Write the paste.  Only a full queue has sent nothing for certain; after
\* a timeout the bytes may still arrive.
Paste(a) ==
  LET i == sup[a].row
  IN /\ engine # "down" /\ At(a, "taken") /\ sup[a].gate = "pty"
     /\ \/ /\ engine = "draining"
           /\ MailWrite(Requeue(i, 0)) /\ Goto(a, Idle) /\ UNCHANGED tty
        \/ /\ engine = "up" /\ cc[a].alive
           /\ tty' = [tty EXCEPT ![a] = Append(@, i)]
           /\ Goto(a, Now(a, "pasted")) /\ Skip
        \/ /\ engine = "up" /\ mail[i].attempts < MaxPtyAttempts
           /\ MailWrite(Requeue(i, 0)) /\ Goto(a, Idle) /\ UNCHANGED tty
        \/ /\ engine = "up" /\ (mail[i].attempts >= MaxPtyAttempts \/ ~cc[a].alive)
           /\ MailWrite(Mark(i, "failed")) /\ Goto(a, Idle) /\ UNCHANGED tty
        \/ /\ engine = "up"
           /\ MailWrite(Mark(i, "uncertain")) /\ Goto(a, Now(a, "pasteheld"))
           /\ tty' \in {tty, IF cc[a].alive THEN [tty EXCEPT ![a] = Append(@, i)] ELSE tty}
     /\ UNCHANGED <<engine, job, cc, got, hints, receipts, notes>>

\* The box shows a paste (box_has_paste cannot tell whose): submit it.
Submit(a) ==
  LET i == sup[a].row
  IN /\ engine # "down" /\ At(a, "pasted") /\ cc[a].box # {}
     /\ \/ /\ engine = "draining"
           /\ MailWrite(Requeue(i, 0)) /\ Goto(a, Idle) /\ UNCHANGED tty
        \/ /\ engine = "up"
           /\ tty' = [tty EXCEPT ![a] = Append(@, Return)]
           /\ Goto(a, Now(a, "submitted")) /\ Skip
        \/ /\ engine = "up"
           /\ tty' \in {tty, [tty EXCEPT ![a] = Append(@, Return)]}
           /\ MailWrite(Mark(i, "uncertain")) /\ Goto(a, Now(a, "pasteheld"))
     /\ UNCHANGED <<engine, job, cc, got, hints, receipts, notes>>

\* PASTE_TIMEOUT without the paste in the box.
PasteTimeout(a) ==
  /\ engine # "down" /\ At(a, "pasted") /\ cc[a].box = {}
  /\ MailWrite(Mark(sup[a].row, "uncertain")) /\ Goto(a, Now(a, "pasteheld"))
  /\ UNCHANGED <<engine, job, tty, cc, got, hints, receipts, notes>>

\* The prompt hook or an end path has settled the row.
Settled(a) ==
  /\ engine # "down" /\ sup[a].at \in {"submitted"} \union Awaiting
  /\ ~InFlight(sup[a].row)
  /\ Goto(a, Idle)
  /\ UNCHANGED <<mail, paused, ended, now, engine, job, tty, cc, got, hints, receipts, notes>>

\* SUBMIT_CONFIRM without a hook: an open turn and a box without the paste
\* count as the delivery.
Confirm(a) ==
  LET i == sup[a].row
  IN /\ engine # "down" /\ At(a, "submitted") /\ InFlight(i)
     /\ MailWrite(Mark(i, IF cc[a].turn /\ cc[a].box = {} THEN "delivered" ELSE "uncertain"))
     /\ Goto(a, Idle)
     /\ UNCHANGED <<engine, job, tty, cc, got, hints, receipts, notes>>

\* PasteHeld ends when the box is free.
Unhold(a) ==
  /\ engine # "down" /\ At(a, "pasteheld") /\ cc[a].box = {}
  /\ Goto(a, Idle)
  /\ UNCHANGED <<mail, paused, ended, now, engine, job, tty, cc, got, hints, receipts, notes>>

-----------------------------------------------------------------------------
(* The peer socket.                                                        *)

\* retry_socket: fail after the last attempt, else wait and try again.
RetrySocket(i) ==
  IF mail[i].attempts >= MaxSocketAttempts THEN Mark(i, "failed")
  ELSE \E w \in Backoffs : Requeue(i, now + w)

\* start_socket.  No write has started when it requeues or retries; when
\* its note to the store fails, the next tick adopts the row.
StartSocket(a) ==
  LET i == sup[a].row
  IN /\ engine # "down" /\ At(a, "taken") /\ sup[a].gate # "pty"
     /\ \/ /\ MailWrite(RetrySocket(i)) /\ Goto(a, Idle) /\ UNCHANGED job
        \/ /\ sup[a].gate = "socket"
           /\ \/ MailWrite(Requeue(i, 0)) /\ Goto(a, Idle) /\ UNCHANGED job
              \/ StoreFails /\ Skip /\ Goto(a, Idle) /\ UNCHANGED job
              \/ /\ job' = [job EXCEPT ![a] = [row |-> i, out |-> "running"]]
                 /\ Goto(a, Now(a, "sending")) /\ Skip
     /\ UNCHANGED <<engine, tty, cc, got, hints, receipts, notes>>

\* cc_inbox::send.  The drain is checked before the first byte; a job past
\* that check still writes.
SocketJob(a) ==
  LET i == job[a].row
      done(out) == job' = [job EXCEPT ![a].out = out]
      arrives   == cc' = [cc EXCEPT ![a].inbox = @ \union {[row |-> i, at |-> "new"]}]
  IN /\ engine # "down" /\ job[a].out = "running"
     /\ \/ engine = "draining" /\ done("blocked") /\ UNCHANGED cc
        \/ done("notsent") /\ UNCHANGED cc
        \/ cc[a].alive /\ done("sent") /\ arrives
        \/ done("maybesent") /\ (UNCHANGED cc \/ (cc[a].alive /\ arrives))
     /\ UNCHANGED <<mail, paused, ended, now, engine, sup, tty, got, hints, receipts, notes>>

\* Mutants of SocketResult: a write is the delivery; a write that may have
\* been sent is tried again.
SocketResultTrusted(a) ==
  LET i == sup[a].row
  IN /\ engine # "down" /\ At(a, "sending") /\ job[a].out \in {"sent", "maybesent"}
     /\ job' = [job EXCEPT ![a] = NoJob] /\ Goto(a, Idle)
     /\ IF InFlight(i)
        THEN /\ mail' = [mail EXCEPT ![i] = Set(@, "delivered")]
             /\ UNCHANGED <<paused, ended, now>>
        ELSE Skip
     /\ UNCHANGED <<engine, tty, cc, got, hints, receipts, notes>>

SocketResultRetried(a) ==
  LET i == sup[a].row
  IN /\ engine # "down" /\ At(a, "sending") /\ job[a].out \notin {"none", "running"}
     /\ job' = [job EXCEPT ![a] = NoJob]
     /\ \/ ~InFlight(i) /\ Goto(a, Idle) /\ Skip
        \/ /\ InFlight(i) /\ job[a].out \in {"notsent", "maybesent"} /\ Goto(a, Idle)
           /\ MailWrite(IF engine = "draining" THEN Requeue(i, 0) ELSE RetrySocket(i))
        \/ /\ InFlight(i) /\ job[a].out = "blocked" /\ Goto(a, Idle)
           /\ MailWrite(Requeue(i, 0))
        \/ /\ InFlight(i) /\ job[a].out = "sent"
           /\ Goto(a, Now(a, "awaiting")) /\ Skip
     /\ UNCHANGED <<engine, tty, cc, got, hints, receipts, notes>>

\* The job's result, unless a receipt has settled the row before it.
SocketResult(a) ==
  LET i == sup[a].row
  IN /\ engine # "down" /\ At(a, "sending") /\ job[a].out \notin {"none", "running"}
     /\ job' = [job EXCEPT ![a] = NoJob]
     /\ \/ ~InFlight(i) /\ Goto(a, Idle) /\ Skip
        \/ /\ InFlight(i) /\ job[a].out = "notsent" /\ Goto(a, Idle)
           /\ MailWrite(IF engine = "draining" THEN Requeue(i, 0) ELSE RetrySocket(i))
        \/ /\ InFlight(i) /\ job[a].out = "blocked" /\ Goto(a, Idle)
           /\ MailWrite(Requeue(i, 0))
        \/ /\ InFlight(i) /\ job[a].out \in {"sent", "maybesent"}
           /\ Goto(a, Now(a, "awaiting")) /\ Skip
     /\ UNCHANGED <<engine, tty, cc, got, hints, receipts, notes>>

\* Read the next note of the row.  A hold stops the clock until the person
\* decides; an acceptance starts it anew; an enqueue by CC ends the wait
\* for one.
ReadNote(a) ==
  LET d    == sup[a]
      what == notes[d.row][d.seen + 1].what
  IN /\ engine # "down" /\ d.at \in Awaiting /\ InFlight(d.row)
     /\ d.seen < Len(notes[d.row])
     /\ Goto(a, CASE what = "asked"    -> [d EXCEPT !.seen = @ + 1, !.at = "held"]
                  [] what = "accepted" ->
                         [d EXCEPT !.seen = @ + 1, !.at = "awaiting", !.turn = "no"]
                  [] what = "queued" /\ d.at = "awaiting" ->
                                          [d EXCEPT !.seen = @ + 1, !.at = "enqueued"]
                  [] OTHER             -> [d EXCEPT !.seen = @ + 1])
  /\ UNCHANGED <<mail, paused, ended, now, engine, job, tty, cc, got, hints, receipts, notes>>

\* Mutant of Overdue: a hold has no deadline.
OverdueUnlessHeld(a) ==
  LET d == sup[a]
  IN /\ engine # "down" /\ d.at \in Awaiting \ {"held"} /\ InFlight(d.row)
     /\ d.seen = Len(notes[d.row])
     /\ d.at = "enqueued" => d.turn # "no"
     /\ Goto(a, Now(a, "givingup"))
     /\ UNCHANGED <<mail, paused, ended, now, engine, job, tty, cc, got, hints, receipts, notes>>

\* A deadline of SocketAwaiting has passed, for a row read as in flight: no
\* enqueue, a hold without a decision, or a turn's end without the message...
Overdue(a) ==
  LET d == sup[a]
  IN /\ engine # "down" /\ d.at \in Awaiting /\ InFlight(d.row)
     /\ d.seen = Len(notes[d.row])
     /\ d.at = "enqueued" => d.turn # "no"
     /\ Goto(a, Now(a, "givingup"))
     /\ UNCHANGED <<mail, paused, ended, now, engine, job, tty, cc, got, hints, receipts, notes>>

\* Mutant of GiveUp: the row is given up as it was read.
GiveUpAsRead(a) ==
  /\ engine # "down" /\ At(a, "givingup")
  /\ RecordOne(sup[a].row, "uncertain") /\ UNCHANGED <<paused, ended, now>>
  /\ Goto(a, Idle)
  /\ UNCHANGED <<engine, job, tty, cc, got, hints, receipts, notes>>

\* ... and the transaction that marks it runs later: the row may have moved.
GiveUp(a) ==
  LET i == sup[a].row
  IN /\ engine # "down" /\ At(a, "givingup")
     /\ \/ mail[i].state \in {"queued", "delivering"} /\ MailWrite(Mark(i, "uncertain"))
        \/ mail[i].state \notin {"queued", "delivering"} /\ Skip
     /\ Goto(a, Idle)
     /\ UNCHANGED <<engine, job, tty, cc, got, hints, receipts, notes>>

-----------------------------------------------------------------------------
(* The session.                                                            *)

\* It reads the next paste or return from its PTY, or a dialog eats it.
ReadTty(a) ==
  LET x == Head(tty[a])
  IN /\ cc[a].alive /\ tty[a] # <<>>
     /\ tty' = [tty EXCEPT ![a] = Tail(@)]
     /\ \/ UNCHANGED <<cc, got, hints, notes>>
        \/ /\ x # Return
           /\ cc' = [cc EXCEPT ![a].box = @ \union {x}]
           /\ UNCHANGED <<got, hints, notes>>
        \/ /\ x = Return /\ cc[a].box # {}
           /\ cc'    = [cc EXCEPT ![a].box = {}, ![a].turn = TRUE]
           /\ got'   = [i \in Rows |-> IF i \in cc[a].box THEN got[i] + 1 ELSE got[i]]
           /\ hints' = hints \union cc[a].box
     /\ UNCHANGED <<mail, paused, ended, now, engine, sup, job, receipts, notes>>

\* A message in the socket inbox: it is new, held until the person decides
\* (asked), accepted, or in the session's own queue.  The session reports
\* each move with a receipt or a queue operation in its transcript.
Move(a, m, at) ==
  /\ cc[a].alive /\ m \in cc[a].inbox /\ <<m.at, at>> \in Moves
  /\ cc' = [cc EXCEPT ![a].inbox = (@ \ {m}) \union {[m EXCEPT !.at = at]}]
  /\ receipts' = receipts \union {[row |-> m.row, kind |-> at]}
  /\ UNCHANGED <<mail, paused, ended, now, engine, sup, job, tty, got, hints, notes>>

\* It takes the message into its context, in a turn...
ReadInbox(a, m) ==
  /\ cc[a].alive /\ m \in cc[a].inbox /\ m.at # "asked"
  /\ cc'    = [cc EXCEPT ![a].inbox = @ \ {m}, ![a].turn = TRUE]
  /\ got'   = [got EXCEPT ![m.row] = @ + 1]
  /\ hints' = hints \union {m.row}
  /\ UNCHANGED <<mail, paused, ended, now, engine, sup, job, tty, receipts, notes>>

\* ... or refuses it with a receipt, or loses it.
Refuse(a, m, kind) ==
  /\ cc[a].alive /\ m \in cc[a].inbox
  /\ cc' = [cc EXCEPT ![a].inbox = @ \ {m}]
  /\ receipts' = receipts \union {[row |-> m.row, kind |-> kind]}
  /\ UNCHANGED <<mail, paused, ended, now, engine, sup, job, tty, got, hints, notes>>

Lose(a, m) ==
  /\ cc[a].alive /\ m \in cc[a].inbox
  /\ cc' = [cc EXCEPT ![a].inbox = @ \ {m}]
  /\ UNCHANGED <<mail, paused, ended, now, engine, sup, job, tty, got, hints, receipts, notes>>

\* A turn of its own, the end of one, and a box the session clears.
TurnStart(a) ==
  /\ cc[a].alive /\ ~cc[a].turn
  /\ cc' = [cc EXCEPT ![a].turn = TRUE]
  /\ UNCHANGED <<mail, paused, ended, now, engine, sup, job, tty, got, hints, receipts, notes>>

TurnEnd(a) ==
  /\ cc[a].alive /\ cc[a].turn
  /\ cc' = [cc EXCEPT ![a].turn = FALSE]
  /\ sup' = [sup EXCEPT ![a].turn = CASE At(a, "enqueued") -> "new"
                                      [] sup[a].at \in {"sending", "awaiting", "held"} -> "old"
                                      [] OTHER -> @]
  /\ UNCHANGED <<mail, paused, ended, now, engine, job, tty, got, hints, receipts, notes>>

ClearBox(a) ==
  /\ cc[a].alive /\ cc[a].box # {}
  /\ cc' = [cc EXCEPT ![a].box = {}]
  /\ UNCHANGED <<mail, paused, ended, now, engine, sup, job, tty, got, hints, receipts, notes>>

Die(a) ==
  /\ cc[a].alive
  /\ cc' = [cc EXCEPT ![a] = Dead] /\ tty' = [tty EXCEPT ![a] = <<>>]
  /\ UNCHANGED <<mail, paused, ended, now, engine, sup, job, got, hints, receipts, notes>>

-----------------------------------------------------------------------------
(* What comes back: hooks, transcript entries and receipts.  The target    *)
(* must be live; a hook of an older generation is refused.                 *)

Hint(i) ==
  /\ engine # "down" /\ i \in hints
  /\ hints' = hints \ {i}
  /\ \/ mail[i].to \notin ended /\ (Evidence(i) \/ LateEvidence(i))
     \/ Skip
  /\ UNCHANGED <<engine, sup, job, tty, cc, got, receipts, notes>>

\* cc_listener apply, and poll_peer_log for a queue operation.  A drop for
\* load is retried after its delay.
Receipt(r) ==
  LET i    == r.row
      open == mail[i].to \notin ended /\ InFlight(i) /\ mail[i].via = "socket"
      load == r.kind = "dropped" /\ mail[i].attempts < MaxSocketAttempts
      as   == CASE r.kind = "denied" -> "rejected" [] r.kind = "expired" -> "expired"
                [] r.kind = "duplicate" -> "uncertain" [] OTHER -> "failed"
      note == [what |-> r.kind, take |-> mail[i].attempts]
  IN /\ engine # "down" /\ r \in receipts
     /\ receipts' = receipts \ {r}
     /\ \/ ~open /\ Skip /\ UNCHANGED notes
        \/ /\ open /\ r.kind \notin Refusals /\ Len(notes[i]) < MaxNotes
           /\ notes' = [notes EXCEPT ![i] = Append(@, note)] /\ Skip
        \/ /\ open /\ r.kind \in Refusals
           /\ IF load THEN \E w \in Backoffs : Requeue(i, now + w) ELSE Mark(i, as)
           /\ UNCHANGED notes
     /\ UNCHANGED <<engine, sup, job, tty, cc, got, hints>>

-----------------------------------------------------------------------------
(* The ends: retire, exit, drain, crash and boot.                          *)

\* Mutant of StopDelivery: a submitted paste goes back too.
StopDeliveryRequeues(a) ==
  LET i == sup[a].row
  IN CASE sup[a].at \in {"pasted", "submitted"} /\ InFlight(i) -> MailWrite(Requeue(i, 0))
       [] sup[a].at \in {"sending"} \union Awaiting /\ mail[i].state \in {"queued", "delivering"} ->
            MailWrite(Mark(i, "uncertain"))
       [] OTHER -> Skip

\* Mutant of StopDelivery: a message that waits for the person's decision is
\* left as it is.
StopDeliveryButHeld(a) ==
  LET i == sup[a].row
  IN CASE At(a, "pasted") /\ InFlight(i) -> MailWrite(Requeue(i, 0))
       [] At(a, "submitted") /\ InFlight(i) -> MailWrite(Mark(i, "uncertain"))
       [] sup[a].at \in {"sending"} \union (Awaiting \ {"held"})
            /\ mail[i].state \in {"queued", "delivering"} -> MailWrite(Mark(i, "uncertain"))
       [] OTHER -> Skip

\* stop_delivery: a paste not submitted goes back, anything later may have
\* arrived.
StopDelivery(a) ==
  LET i == sup[a].row
  IN CASE At(a, "pasted") /\ InFlight(i) -> MailWrite(Requeue(i, 0))
       [] At(a, "submitted") /\ InFlight(i) -> MailWrite(Mark(i, "uncertain"))
       [] sup[a].at \in {"sending"} \union Awaiting /\ mail[i].state \in {"queued", "delivering"} ->
            MailWrite(Mark(i, "uncertain"))
       [] OTHER -> Skip

\* Retire: stop the delivery, then kill and end the agent.  A kill that
\* cannot be confirmed orphans it, which ends its mail the same way.
Retire(a) ==
  /\ engine = "up" /\ BetweenTicks(a)
  /\ StopDelivery(a) /\ Goto(a, [Off EXCEPT !.at = "retiring"])
  /\ UNCHANGED <<engine, job, tty, cc, got, hints, receipts, notes>>

Killed(a) ==
  \/ cc' = [cc EXCEPT ![a] = Dead] /\ tty' = [tty EXCEPT ![a] = <<>>]
  \/ UNCHANGED <<cc, tty>>

End(a) ==
  /\ engine # "down"
  /\ At(a, "retiring") \/ (BetweenTicks(a) /\ ~cc[a].alive)
  /\ MailWrite(AgentEnd(a)) /\ Goto(a, Off) /\ Killed(a)
  /\ UNCHANGED <<engine, job, got, hints, receipts, notes>>

\* Cmd::Shutdown: stop the delivery, kill, and leave the rest to boot.
Shutdown(a) ==
  /\ engine # "down" /\ BetweenTicks(a)
  /\ StopDelivery(a) /\ Goto(a, [Off EXCEPT !.at = "stopping"])
  /\ UNCHANGED <<engine, job, tty, cc, got, hints, receipts, notes>>

ShutdownKill(a) ==
  /\ engine # "down" /\ At(a, "stopping")
  /\ Goto(a, Off) /\ Killed(a)
  /\ UNCHANGED <<mail, paused, ended, now, engine, job, got, hints, receipts, notes>>

DrainOn ==
  /\ engine = "up" /\ engine' = "draining"
  /\ UNCHANGED <<mail, paused, ended, now, sup, job, tty, cc, got, hints, receipts, notes>>

\* drain_delivery: a socket write that is known not to have started goes
\* back; another one stays in flight for the kill to settle.
DrainStop(a) ==
  LET i == sup[a].row
  IN /\ engine = "draining" /\ BetweenTicks(a)
     /\ IF At(a, "sending")
        THEN /\ job' = [job EXCEPT ![a] = IF @.out = "running" THEN @ ELSE NoJob]
             /\ IF job[a].out \in {"notsent", "blocked"} /\ InFlight(i)
                THEN MailWrite(Requeue(i, 0)) ELSE Skip
        ELSE /\ IF sup[a].at \in Awaiting THEN Skip ELSE StopDelivery(a)
             /\ UNCHANGED job
     /\ Goto(a, [Off EXCEPT !.at = "killing"])
     /\ UNCHANGED <<engine, tty, cc, got, hints, receipts, notes>>

\* drain_now: what is still in flight on the socket is uncertain; then the
\* kill.
DrainKill(a) ==
  LET F == {i \in Used : InFlight(i) /\ mail[i].to = a /\ mail[i].via = "socket"}
  IN /\ engine = "draining" /\ At(a, "killing")
     /\ IF F = {} THEN Skip ELSE \E i \in F : MailWrite(Mark(i, "uncertain"))
     /\ Goto(a, Off) /\ Killed(a)
     /\ UNCHANGED <<engine, job, got, hints, receipts, notes>>

\* The engine stops, after a drain or by a crash.  A session may outlive it.
Stop ==
  /\ engine # "down" /\ engine' = "down"
  /\ sup' = [a \in Served |-> Off] /\ job' = [a \in Served |-> NoJob]
  /\ UNCHANGED <<mail, paused, ended, now, tty, cc, got, hints, receipts, notes>>

\* Boot kills what outlived the engine, reconciles the ledger, and resumes
\* the agents that have not ended.  Hooks and receipts of the old processes
\* are refused; a socket message in a transcript is still found.
Start ==
  /\ engine = "down" /\ engine' = "up"
  /\ Boot
  /\ sup' = [a \in Served |-> IF a \in ended THEN Off ELSE Idle]
  /\ cc'  = [a \in Served |-> IF a \in ended THEN Dead ELSE Fresh]
  /\ tty' = [a \in Served |-> <<>>]
  /\ hints' = {i \in hints : mail[i].via = "socket"} /\ receipts' = {}
  /\ UNCHANGED <<job, got, notes>>

-----------------------------------------------------------------------------
(* Users of the ledger, while the engine runs.                             *)

User ==
  /\ engine # "down"
  /\ \/ \E p \in Agents \union People, a \in Served, b \in Bodies : Send(p, a, b, NoKey, NoRow)
     \/ \E a \in Corrected \intersect Served : SystemMail(a)
     \/ \E i \in Rows : Cancel(i)
     \/ \E a \in Pausable, on \in BOOLEAN : Pause(a, on)
     \/ Tick
  /\ UNCHANGED deliveryVars

DeliveryInit ==
  /\ Init
  /\ engine = "up"
  /\ sup = [a \in Served |-> Idle] /\ job = [a \in Served |-> NoJob]
  /\ tty = [a \in Served |-> <<>>] /\ cc = [a \in Served |-> Fresh]
  /\ got = [i \in Rows |-> 0] /\ hints = {} /\ receipts = {}
  /\ notes = [i \in Rows |-> <<>>]

Supervisor(a) ==
  \/ Adopt(a) \/ Choose(a) \/ TakeChosen(a) \/ Paste(a) \/ Submit(a) \/ PasteTimeout(a)
  \/ Settled(a) \/ Confirm(a) \/ Unhold(a) \/ StartSocket(a) \/ SocketResult(a)
  \/ ReadNote(a) \/ Overdue(a) \/ GiveUp(a)

Ending(a) == End(a) \/ ShutdownKill(a) \/ DrainStop(a) \/ DrainKill(a)

Session(a) ==
  \/ ReadTty(a) \/ TurnStart(a) \/ TurnEnd(a) \/ ClearBox(a) \/ Die(a)
  \/ \E m \in cc[a].inbox :
       \/ ReadInbox(a, m) \/ Lose(a, m)
       \/ \E at \in Stage : Move(a, m, at)
       \/ \E kind \in Refusals : Refuse(a, m, kind)

DeliveryNext ==
  \/ User
  \/ \E a \in Served : Supervisor(a) \/ SocketJob(a) \/ Session(a)
                       \/ Retire(a) \/ Shutdown(a) \/ Ending(a)
  \/ \E i \in Rows : Hint(i)
  \/ \E r \in receipts : Receipt(r)
  \/ DrainOn \/ Stop \/ Start

DeliverySpec == DeliveryInit /\ [][DeliveryNext]_allVars

\* A supervisor keeps ticking and its deadlines pass; a socket write has a
\* timeout; exits and drains are carried out.  Of the session: while it
\* lives it goes on taking turns, as nothing but a turn's end limits the wait
\* for an enqueued message.  No receipt, hook or person is fair.
DeliveryFair ==
  /\ DeliverySpec
  /\ \A a \in Served :
       /\ WF_allVars(Supervisor(a)) /\ WF_allVars(SocketJob(a)) /\ WF_allVars(Ending(a))
       /\ WF_allVars(TurnStart(a)) /\ WF_allVars(TurnEnd(a))

-----------------------------------------------------------------------------
(* Properties.                                                             *)

DeliveryTypeOK ==
  /\ TypeOK
  /\ engine \in {"up", "draining", "down"}
  /\ sup \in [Served -> Delivery]
  /\ job \in [Served -> [row : Rows \union {NoRow},
                         out : {"none", "running", "blocked", "notsent", "sent", "maybesent"}]]
  /\ tty \in [Served -> Seq(Rows \union {Return})]
  /\ cc \in [Served -> [alive : BOOLEAN, box : SUBSET Rows, turn : BOOLEAN,
                   inbox : SUBSET [row : Rows, at : Stage]]]
  /\ got \in [Rows -> Nat]
  /\ hints \subseteq Rows
  /\ receipts \subseteq [row : Rows, kind : Refusals \union Stage]
  /\ notes \in [Rows -> Seq([what : Stage, take : Nat])]

\* Row i can still reach the context of a session with nobody's help: it
\* waits in a socket inbox or in a running job, or its paste is followed by
\* a return.
MayArrive(i) ==
  \E a \in Served :
    \/ \E m \in cc[a].inbox : m.row = i
    \/ job[a].row = i /\ job[a].out = "running" /\ cc[a].alive
    \/ \E n \in DOMAIN tty[a] :
         tty[a][n] = Return /\ (i \in cc[a].box \/ \E m \in 1..n : tty[a][m] = i)

\* What the ledger calls not delivered was not: a queued, cancelled, failed,
\* rejected or expired row has reached no context, and cannot reach one any
\* more.  A later take of a queued row is thus never a second delivery.
Withheld ==
  \A i \in Used :
    mail[i].state \in {"queued", "cancelled", "failed", "rejected", "expired"}
      => got[i] = 0 /\ ~MayArrive(i)

\* A socket row is delivered only when the model's context has received it:
\* acceptance and write success are not enough.
SocketDelivered ==
  \A i \in Used : mail[i].state = "delivered" /\ mail[i].via = "socket" => got[i] = 1

\* What the socket route says of a message is so: neither verdict is wrong.
SocketIsTrue == DeliveryTypeOK /\ Withheld /\ SocketDelivered

\* Supervisors, receipts, hooks and boot together only ever do what the
\* ledger's operations allow.
LedgerSpec == Spec

\* The delivery keeps the promise of MailPromise about every row.
FateOf(state) ==
  CASE state \in {Free, "queued", "delivering"} -> "open"
    [] state = "delivered" -> "delivered"
    [] state = "uncertain" -> "uncertain"
    [] OTHER -> "withdrawn"

Promise == INSTANCE MailPromise WITH
  fate <- [i \in Rows |-> FateOf(mail[i].state)],
  box  <- {i \in Rows : mail[i].via = "pty"}

\* A message is received at most once and never after the ledger called it
\* not delivered, over every mix of retries, receipts, drains and restarts.
KeepsPromise == Promise!PromiseSpec

\* The supervisor of agent a has row i in a phase that ends in a result for
\* it: of the box up to the confirmation, of the socket up to the deadline, or
\* in the kill of a drain, which settles what the socket still has.
Handles(a, i) ==
  \/ /\ sup[a].row = i /\ mail[i].via = "pty"
     /\ sup[a].at \in {"taken", "pasted", "submitted"}
  \/ /\ sup[a].row = i /\ mail[i].via = "socket"
     /\ sup[a].at \in {"taken", "sending", "givingup"} \union Awaiting
  \/ mail[i].via = "socket" /\ At(a, "killing")

\* While the engine runs and its writes succeed, every message in flight is
\* in the hands of its target's supervisor: none is left behind by a retire,
\* an exit, a drain, a receipt or a hook, to block the mailbox until a boot.
InHand ==
  engine # "down" =>
    \A i \in Used : InFlight(i) => \E a \in Served : mail[i].to = a /\ Handles(a, i)

\* No message stays in flight while the engine runs, whatever is lost: each
\* wait of the delivery has a deadline, so the mailbox is not blocked for good.
Settles == \A i \in Rows : InFlight(i) ~> ~InFlight(i) \/ engine = "down"
=============================================================================
