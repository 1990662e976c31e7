------------------------------ MODULE EventLog ------------------------------
(***************************************************************************)
(* The engine's event log (db/outbox.rs, db/mod.rs): rows appended in the  *)
(* transaction of the change they report, the head broadcast that wakes    *)
(* subscribers, retention, compaction of superseded session views, cursors *)
(* and subscriptions, and the c9p client that keeps a cursor and resumes.  *)
(*                                                                         *)
(* What an event says is a parameter (Events).  Which events are session   *)
(* views (ViewEvents) matters because only those may be compacted.  A      *)
(* client is served the events it subscribed to (Wanted).                  *)
(*                                                                         *)
(* Wall-clock timestamps are abstracted: retention by age deletes up to    *)
(* the newest row older than the cutoff, and since the clock may go back   *)
(* that row may be any row, so Prune takes any limit.                      *)
(***************************************************************************)
EXTENDS Integers, Sequences, FiniteSets

CONSTANTS
    Clients,     \* c9p clients, one stream each
    Events,      \* contents an event may have
    ViewEvents,  \* those with topic session.view
    Wanted,      \* Wanted[c]: the events of c's topics and subjects
    Keep,        \* RETENTION_EVENTS
    Batch,       \* READ_BATCH
    WriteQueue,  \* frames a connection queues before the stream task parks
    MaxSeq,      \* bound: rows ever appended in an epoch
    MaxWrite,    \* bound: events one transaction emits
    MaxEpoch     \* bound: times the db was found corrupt, plus one

ASSUME EventLogAssumption ==
    /\ ViewEvents \subseteq Events
    /\ Wanted \in [Clients -> SUBSET Events]
    /\ Keep \in Nat /\ Batch \in Nat \ {0} /\ WriteQueue \in Nat
    /\ MaxSeq \in Nat /\ MaxWrite \in Nat /\ MaxEpoch \in Nat

VARIABLES
    events,  \* the rows of the events table
    log,     \* history: every row committed in this epoch
    epoch,   \* changes only when the db is recreated
    head,    \* the value of the head watch channel
    unsent,  \* seq committed and not yet sent to the channel; 0 if none
    sub,     \* the engine's side of each client's stream
    client   \* the client's cursor, and what it was delivered

vars == <<events, log, epoch, head, unsent, sub, client>>

-----------------------------------------------------------------------------
Row == [seq : Nat \ {0}, event : Events]

\* `state`: off; about to read; done reading and nothing was new; parked on
\* head.changed(); or ended with `cursor_expired` sent.  `woken`: the channel
\* changed since the receiver last looked.  `wire`: frames sent and not yet
\* processed; they leave in the order of their seq.
Stream == [state : {"off", "read", "empty", "wait", "ended"}, after : Nat,
           woken : BOOLEAN, wire : SUBSET Row]

\* epoch 0: the client has no cursor.  `from` is the cursor it started
\* from, with a snapshot of everything before it.
ClientState == [epoch : Nat, seq : Nat, from : Nat, got : SUBSET Row]

Off == [state |-> "off", after |-> 0, woken |-> FALSE, wire |-> {}]
NoCursor == [epoch |-> 0, seq |-> 0, from |-> 0, got |-> {}]

-----------------------------------------------------------------------------
(* The table. *)

\* outbox::head
Newest(ev) ==
    IF ev = {} THEN 0
    ELSE CHOOSE n \in {r.seq : r \in ev} : \A r \in ev : r.seq <= n

\* outbox::append, once per element: a rowid is one past the largest.
Appended(ev, new) ==
    {[seq |-> Newest(ev) + i, event |-> new[i]] : i \in DOMAIN new}

\* Mutant of Compacted: the oldest row may go.
CompactedOldestToo(ev, dead) ==
    {r \in ev : r.seq \in dead /\ r.event \in ViewEvents}

\* outbox::compact_views and compact_views_before: of the rows named, those
\* that are session views, and never the oldest row.
Compacted(ev, dead) ==
    {r \in ev : /\ r.seq \in dead
                /\ r.event \in ViewEvents
                /\ \E o \in ev : o.seq < r.seq}

\* Mutant of Prunable: only the rows of one age go, not all before them.
PrunableByAgeAlone(ev, old) ==
    {r \in ev : /\ \E n \in ev : r.seq < n.seq
                /\ r.seq = old \/ r.seq <= Newest(ev) - Keep}

\* Mutant of Prunable: the newest row may go.
PrunableNewestToo(ev, old) ==
    {r \in ev : r.seq <= old \/ r.seq <= Newest(ev) - Keep}

\* outbox::prune_with: a prefix, by age (up to seq `old`) or by count, and
\* never the newest row.
Prunable(ev, old) ==
    {r \in ev : /\ \E n \in ev : r.seq < n.seq
                /\ r.seq <= old \/ r.seq <= Newest(ev) - Keep}

\* outbox::check_after: `after` is ahead of the log, or a row after it may
\* have been pruned.
Expired(ev, after) ==
    \/ Newest(ev) < after
    \/ ev # {} /\ \A r \in ev : after + 1 < r.seq

\* outbox::read_rows: the rows after `after` up to `last`.
Between(ev, after, last) == {r \in ev : after < r.seq /\ r.seq <= last}

-----------------------------------------------------------------------------
Init ==
    /\ events = {} /\ log = {} /\ epoch = 1
    /\ head = 0 /\ unsent = 0
    /\ sub = [c \in Clients |-> Off]
    /\ client = [c \in Clients |-> NoCursor]

(* The writer thread runs one job at a time: a transaction, its commit, and
   the broadcast of the last seq it emitted. *)

\* Db::write: a transaction that emits `new` and compacts the views `dead`.
Write(new, dead) ==
    LET added == Appended(events, new)
        all   == events \cup added
    IN  /\ unsent = 0
        /\ Newest(events) + Len(new) <= MaxSeq
        /\ unsent' = IF new = <<>> THEN 0 ELSE Newest(events) + Len(new)
        /\ log' = log \cup added
        /\ events' = all \ Compacted(all, dead)
        /\ UNCHANGED <<epoch, head, sub, client>>

\* head.send_replace after the commit.
Publish ==
    /\ unsent # 0
    /\ head' = unsent
    /\ unsent' = 0
    /\ sub' = [c \in Clients |->
                 IF sub[c].state = "off" THEN sub[c]
                 ELSE [sub[c] EXCEPT !.woken = TRUE]]
    /\ UNCHANGED <<events, log, epoch, client>>

\* Db::prune, every PRUNE_EVERY.
Prune(old) ==
    /\ unsent = 0
    /\ events' = events \ Prunable(events, old)
    /\ UNCHANGED <<log, epoch, head, unsent, sub, client>>

\* The engine stops (also between a commit and its broadcast) and opens the
\* store again: every stream is gone, the db is pruned, the head is read
\* from the db.
Restart(old) ==
    LET kept == events \ Prunable(events, old)
    IN  /\ events' = kept
        /\ head' = Newest(kept)
        /\ unsent' = 0
        /\ sub' = [c \in Clients |-> Off]
        /\ UNCHANGED <<log, epoch, client>>

\* The store failed quick_check at boot: it is moved aside and a new one
\* starts a new epoch.
Recreate ==
    /\ epoch < MaxEpoch
    /\ epoch' = epoch + 1
    /\ events' = {} /\ log' = {}
    /\ head' = 0 /\ unsent' = 0
    /\ sub' = [c \in Clients |-> Off]
    /\ UNCHANGED client

-----------------------------------------------------------------------------
(* The client and its stream. *)

\* Without a cursor the client reads a snapshot, which covers everything up
\* to the cursor it comes with.
Snapshot(c, at) ==
    /\ sub[c].state = "off"
    /\ client[c].epoch = 0
    /\ at <= Newest(events)
    /\ client' = [client EXCEPT ![c] =
                    [epoch |-> epoch, seq |-> at, from |-> at, got |-> {}]]
    /\ UNCHANGED <<events, log, epoch, head, unsent, sub>>

CursorOk(c) ==
    client[c].epoch = epoch /\ ~Expired(events, client[c].seq)

\* events.subscribe {since}: the cursor is checked, then the head receiver
\* is made, then the stream starts to read.
Subscribe(c) ==
    /\ sub[c].state = "off"
    /\ client[c].epoch # 0
    /\ CursorOk(c)
    /\ sub' = [sub EXCEPT ![c] =
                 [Off EXCEPT !.state = "read", !.after = client[c].seq]]
    /\ UNCHANGED <<events, log, epoch, head, unsent, client>>

\* events.subscribe answered `cursor_expired`: the client drops its cursor.
Refused(c) ==
    /\ sub[c].state = "off"
    /\ client[c].epoch # 0
    /\ ~CursorOk(c)
    /\ client' = [client EXCEPT ![c] = NoCursor]
    /\ UNCHANGED <<events, log, epoch, head, unsent, sub>>

\* The stream task reads again once the last batch is in the write queue.
MayRead(c) == sub[c].state = "read" /\ Cardinality(sub[c].wire) <= WriteQueue

\* Subscription::next found rows: at most Batch, oldest first.  The frames
\* of the wanted ones go out.
ReadRows(c) ==
    /\ MayRead(c)
    /\ ~Expired(events, sub[c].after)
    /\ \E last \in events :
         LET batch == Between(events, sub[c].after, last.seq)
         IN  /\ last \in batch
             /\ \/ Cardinality(batch) = Batch
                \/ /\ Cardinality(batch) < Batch
                   /\ \A r \in events : r.seq <= last.seq
             /\ sub' = [sub EXCEPT
                          ![c].after = last.seq,
                          ![c].wire = sub[c].wire \cup
                                      {r \in batch : r.event \in Wanted[c]}]
    /\ UNCHANGED <<events, log, epoch, head, unsent, client>>

\* It found nothing new.
ReadNothing(c) ==
    /\ MayRead(c)
    /\ ~Expired(events, sub[c].after)
    /\ \A r \in events : r.seq <= sub[c].after
    /\ sub' = [sub EXCEPT ![c].state = "empty"]
    /\ UNCHANGED <<events, log, epoch, head, unsent, client>>

\* Mutant of Park: it waits only for what the channel says from now on.
ParkForgetful(c) ==
    /\ sub[c].state = "empty"
    /\ sub' = [sub EXCEPT ![c].state = "wait", ![c].woken = FALSE]
    /\ UNCHANGED <<events, log, epoch, head, unsent, client>>

\* head.changed() is called: what the channel said since the last wake, also
\* during the read, still counts.
Park(c) ==
    /\ sub[c].state = "empty"
    /\ sub' = [sub EXCEPT ![c].state = "wait"]
    /\ UNCHANGED <<events, log, epoch, head, unsent, client>>

\* It found that rows it never read were pruned: the stream sends
\* `cursor_expired` and ends.
ReadExpired(c) ==
    /\ MayRead(c)
    /\ Expired(events, sub[c].after)
    /\ sub' = [sub EXCEPT ![c].state = "ended"]
    /\ UNCHANGED <<events, log, epoch, head, unsent, client>>

\* head.changed() returns.
Wake(c) ==
    /\ sub[c].state = "wait" /\ sub[c].woken
    /\ sub' = [sub EXCEPT ![c].state = "read", ![c].woken = FALSE]
    /\ UNCHANGED <<events, log, epoch, head, unsent, client>>

\* The client processes the next frame, then keeps its cursor.
Deliver(c, r) ==
    /\ r \in sub[c].wire
    /\ \A o \in sub[c].wire : r.seq <= o.seq
    /\ sub' = [sub EXCEPT ![c].wire = sub[c].wire \ {r}]
    /\ client' = [client EXCEPT ![c].seq = r.seq,
                                ![c].got = client[c].got \cup {r}]
    /\ UNCHANGED <<events, log, epoch, head, unsent>>

\* The client gets the `cursor_expired` that ended its stream.
Ended(c) ==
    /\ sub[c].state = "ended" /\ sub[c].wire = {}
    /\ sub' = [sub EXCEPT ![c] = Off]
    /\ client' = [client EXCEPT ![c] = NoCursor]
    /\ UNCHANGED <<events, log, epoch, head, unsent>>

\* The connection breaks: frames in flight are lost, the cursor is kept.
Drop(c) ==
    /\ sub[c].state # "off"
    /\ sub' = [sub EXCEPT ![c] = Off]
    /\ UNCHANGED <<events, log, epoch, head, unsent, client>>

-----------------------------------------------------------------------------
\* A write emits something whenever it compacts, and compacts only rows
\* committed before it.
LogWrite ==
    \E n \in 1 .. MaxWrite : \E new \in [1 .. n -> Events] :
        \E dead \in SUBSET {r.seq : r \in events} : Write(new, dead)

Next ==
    \/ Publish
    \/ \E old \in 0 .. MaxSeq : Prune(old)
    \/ \E old \in 0 .. MaxSeq : Restart(old)
    \/ Recreate
    \/ \E c \in Clients :
         \/ \E at \in 0 .. MaxSeq : Snapshot(c, at)
         \/ Subscribe(c)
         \/ Refused(c)
         \/ ReadRows(c)
         \/ ReadNothing(c)
         \/ Park(c)
         \/ ReadExpired(c)
         \/ Wake(c)
         \/ \E r \in sub[c].wire : Deliver(c, r)
         \/ Ended(c)
         \/ Drop(c)
    \/ LogWrite

Spec == Init /\ [][Next]_vars

\* The writer thread and each stream's task are scheduled.
StreamSteps(c) ==
    ReadRows(c) \/ ReadNothing(c) \/ ReadExpired(c) \/ Park(c) \/ Wake(c)
Fairness ==
    /\ WF_vars(Publish)
    /\ \A c \in Clients : /\ WF_vars(StreamSteps(c))
                          /\ WF_vars(\E r \in sub[c].wire : Deliver(c, r))
FairSpec == Spec /\ Fairness

-----------------------------------------------------------------------------
(* Properties. *)

\* Every variable keeps its type.
TypeOK ==
    /\ events \subseteq Row /\ log \subseteq Row
    /\ epoch \in Nat \ {0} /\ head \in Nat /\ unsent \in Nat
    /\ sub \in [Clients -> Stream]
    /\ client \in [Clients -> ClientState]

\* "Only `cursor_expired` means events are missing" (c9p-1.md): a client
\* whose cursor belongs to this epoch was delivered every event it wanted
\* between the cursor it started from and the cursor it now holds, over
\* reconnections, engine restarts and retention; only session views, which
\* compaction deletes, may be missing.
NoSilentGap ==
    \A c \in Clients : client[c].epoch = epoch =>
        \A r \in log :
            /\ client[c].from < r.seq /\ r.seq <= client[c].seq
            /\ r.event \in Wanted[c] \ ViewEvents
            => r \in client[c].got

\* A stream that read to the end, and may be parked on head.changed(), has read
\* all that is committed, or the channel has changed or is about to.
NoWakeIsLost ==
    \A c \in Clients :
        sub[c].state \in {"empty", "wait"} =>
            sub[c].after = Newest(events) \/ sub[c].woken \/ unsent # 0

\* The log and its clients: they keep their types, no gap is silent, and no
\* stream sleeps over a commit.
LogIsTrue == TypeOK /\ NoSilentGap /\ NoWakeIsLost

\* "The newest row always stays, so `seq` is never reused" (outbox.rs): a
\* new row's seq is above every seq this epoch ever had, also after the
\* rows that had them are gone.
SeqNeverReused ==
    [][epoch' = epoch =>
         \A r \in log' \ log : \A o \in log : o.seq < r.seq]_vars

\* "Compaction never moves the `cursor_expired` line (only prune does)"
\* (outbox.rs): a commit makes no cursor expire that could be resumed.
CommitExpiresNobody ==
    [][log' # log /\ epoch' = epoch =>
         \A q \in 0 .. MaxSeq :
            ~Expired(events, q) => ~Expired(events', q)]_vars

\* The stream is up.
Up(c) == sub[c].state \in {"read", "empty", "wait"}

\* No wake-up is lost: a stream that stays up reads all that was committed,
\* though a commit may land while it reads and finds nothing.
StreamCatchesUp ==
    \A c \in Clients :
        <>[]Up(c) => []<>(sub[c].after = Newest(events))

=============================================================================
