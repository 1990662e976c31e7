----------------------------- MODULE IdemCache -----------------------------
(***************************************************************************)
(* The requests that replay a repeated idem key (engine/idem.rs, D3), over *)
(* the writer their writes go through (DbWriter).  A request takes the     *)
(* slot of its key, locks it, and replays the record in it or writes; the  *)
(* lock is held while the write runs.  At CAP, a new key drops a slot.     *)
(* One principal and one method; a key stands for all three.  The requests *)
(* come over one connection, which serves MAX_IN_FLIGHT at once.           *)
(***************************************************************************)
EXTENDS DbWriter, FiniteSets

CONSTANTS
    Keys,
    Params,
    Asks,      \* what each request may ask: pairs of a key and params
    Cap,       \* CAP
    MaxInFlight,  \* MAX_IN_FLIGHT
    TTL,       \* TTL, in ticks of the clock
    MaxClock,  \* bound on the clock
    Nothing    \* no request, no record

ASSUME AsksAreRequests == Asks \in [Async -> SUBSET (Keys \X Params)]
ASSUME BoundsAreNumbers == {Cap, MaxInFlight, MaxClock} \subseteq Nat /\ TTL \in Nat \ {0}
ASSUME NothingIsNoRecord == Nothing \notin [params : Params, result : Async, at : Nat]

\* A slot is named by a number; one is free when nobody knows it.
Slots == 1 .. (Cap + Cardinality(Async) + 1)
NoSlot == 0

VARIABLES
    ask,      \* what each request asks: a key and params
    phase,    \* new, locking, writing or done
    slots,    \* the slot of each key, or NoSlot
    held,     \* the slot a request holds a reference to, or NoSlot
    record,   \* what each slot holds: Nothing, or its first success
    clock,
    outcome,  \* how each request was answered
    spent     \* history: writes whose record was dropped or ran out

idemVars == <<ask, phase, slots, held, record, clock, outcome, spent>>
vars == <<writerVars, idemVars>>

Fresh(d) == d # Nothing /\ clock - d.at < TTL
Listed == {k \in Keys : slots[k] # NoSlot}
InUse(s) == \E r \in Async : held[r] = s
FreeSlot ==
    CHOOSE s \in Slots :
        /\ \A k \in Keys : slots[k] # s
        /\ ~InUse(s)

\* At Cap: unused slots with no record that still replays go, then the
\* unused slot with the oldest record.
UnusedByLock == {k \in Listed : \A r \in Async : held[r] = slots[k] => phase[r] # "writing"}
Unused == {k \in Listed : ~InUse(slots[k])}
Idle == {k \in Unused : ~Fresh(record[slots[k]])}
Kept == IF Cardinality(Listed) < Cap THEN Listed ELSE Listed \ Idle
Oldest ==
    LET kept == Unused \ Idle
    IN  {k \in kept : \A j \in kept : record[slots[k]].at <= record[slots[j]].at}

Init ==
    /\ WriterInit
    /\ ask = [r \in Async |-> Nothing]
    /\ phase = [r \in Async |-> "new"]
    /\ slots = [k \in Keys |-> NoSlot]
    /\ held = [r \in Async |-> NoSlot]
    /\ record = [s \in Slots |-> Nothing]
    /\ clock = 0
    /\ outcome = [r \in Async |-> Nothing]
    /\ spent = {}

Done(r, how, by) ==
    /\ phase' = [phase EXCEPT ![r] = "done"]
    /\ outcome' = [outcome EXCEPT ![r] = [how |-> how, by |-> by]]
    /\ held' = [held EXCEPT ![r] = NoSlot]

\* The request holds slot s, which the map lists under key k beside `kept`.
Takes(r, k, s, kept) ==
    /\ slots' = [j \in Keys |-> IF j = k THEN s ELSE IF j \in kept THEN slots[j] ELSE NoSlot]
    /\ held' = [held EXCEPT ![r] = s]
    /\ phase' = [phase EXCEPT ![r] = "locking"]
    /\ UNCHANGED outcome

\* slot(): the key's slot, or a new one in the room that is or is made.
Slot(r, k) ==
    IF k \in Listed
    THEN Takes(r, k, slots[k], Listed) /\ UNCHANGED <<record, spent>>
    ELSE \/ /\ Cardinality(Kept) < Cap
            /\ Takes(r, k, FreeSlot, Kept)
            /\ record' = [record EXCEPT ![FreeSlot] = Nothing]
            /\ UNCHANGED spent
         \/ /\ Cardinality(Kept) >= Cap
            /\ \E o \in Oldest :
                   /\ Takes(r, k, FreeSlot, Kept \ {o})
                   /\ spent' = spent \cup {record[slots[o]].result}
            /\ record' = [record EXCEPT ![FreeSlot] = Nothing]
         \/ /\ Cardinality(Kept) >= Cap
            /\ Oldest = {}
            /\ slots' = [j \in Keys |-> IF j \in Kept THEN slots[j] ELSE NoSlot]
            /\ Done(r, "busy", Nothing)
            /\ UNCHANGED <<record, spent>>

InFlight == {r \in Async : phase[r] \in {"locking", "writing"}}

\* Requests are numbered as they come in.
ASSUME RequestsAreNumbered == Async \subseteq Nat /\ IsFiniteSet(Async)
Comes(r) == phase[r] = "new" /\ \A q \in Async : q < r => phase[q] # "new"

\* A request comes in with a key and params, when a permit is free.
Request(r, k, h) ==
    /\ Comes(r)
    /\ <<k, h>> \in Asks[r]
    /\ Cardinality(InFlight) < MaxInFlight
    /\ Scheduled(r)
    /\ ask' = [ask EXCEPT ![r] = [key |-> k, params |-> h]]
    /\ Slot(r, k)
    /\ UNCHANGED <<writerVars, clock>>

Locked(s) == \E r \in Async : phase[r] = "writing" /\ held[r] = s

\* It has the lock and finds a record that replays.
Replay(r) ==
    LET d == record[held[r]]
    IN  /\ phase[r] = "locking"
        /\ Scheduled(r)
        /\ ~Locked(held[r])
        /\ Fresh(d)
        /\ IF d.params = ask[r].params
           THEN Done(r, "replay", d.result)
           ELSE Done(r, "duplicate", Nothing)
        /\ UNCHANGED <<writerVars, ask, slots, record, clock, spent>>

\* It has the lock and finds none: the write runs under the lock.
Write(r) ==
    /\ phase[r] = "locking"
    /\ ~Locked(held[r])
    /\ ~Fresh(record[held[r]])
    /\ Call(r)
    /\ phase' = [phase EXCEPT ![r] = "writing"]
    /\ UNCHANGED <<ask, slots, held, record, clock, outcome, spent>>

\* The write is over.  Only a success is kept.
Finish(r) ==
    /\ phase[r] = "writing"
    /\ at[r] \in Answers
    /\ Scheduled(r)
    /\ IF at[r] = "ok"
       THEN /\ record' = [record EXCEPT ![held[r]] =
                             [params |-> ask[r].params, result |-> r, at |-> clock]]
            /\ Done(r, "wrote", r)
       ELSE UNCHANGED record /\ Done(r, "failed", Nothing)
    /\ UNCHANGED <<writerVars, ask, slots, clock, spent>>

\* Time passes; records run out.
Tick ==
    /\ clock < MaxClock
    /\ clock' = clock + 1
    /\ LET out == {s \in Slots : Fresh(record[s]) /\ clock' - record[s].at >= TTL}
       IN  spent' = spent \cup {record[s].result : s \in out}
    /\ UNCHANGED <<writerVars, ask, phase, slots, held, record, outcome>>

\* A supervisor writes.
Supervise(p) == Call(p) /\ UNCHANGED idemVars

RequestStep(r) == Replay(r) \/ Write(r) \/ Finish(r)
Next ==
    \/ \E r \in Async, k \in Keys, h \in Params : Request(r, k, h)
    \/ \E r \in Async : RequestStep(r)
    \/ \E p \in Blocking : Supervise(p)
    \/ InsideStep /\ UNCHANGED idemVars
    \/ Tick

\* The runtime polls every task that can run, each thread is scheduled, and
\* a job ends.  Nothing makes a client ask, the engine close or time pass.
Fairness ==
    /\ \A r \in Async : WF_vars(RequestStep(r))
    /\ \A p \in Callers : WF_vars(CallerStep(p) /\ UNCHANGED idemVars)
    /\ WF_vars(ThreadStep /\ UNCHANGED idemVars)
    /\ WF_vars(Join /\ UNCHANGED idemVars)

Spec == Init /\ [][Next]_vars /\ Fairness
-----------------------------------------------------------------------------
Record == [params : Params, result : Async, at : 0 .. MaxClock]

TypeOK ==
    /\ WriterTypeOK
    /\ ask \in [Async -> [key : Keys, params : Params] \cup {Nothing}]
    /\ phase \in [Async -> {"new", "locking", "writing", "done"}]
    /\ slots \in [Keys -> Slots \cup {NoSlot}]
    /\ held \in [Async -> Slots \cup {NoSlot}]
    /\ record \in [Slots -> Record \cup {Nothing}]
    /\ clock \in 0 .. MaxClock
    /\ outcome \in [Async -> [how : {"busy", "replay", "duplicate", "wrote", "failed"},
                              by : Async \cup {Nothing}] \cup {Nothing}]
    /\ spent \in SUBSET Async
    /\ Cardinality(Listed) <= Cap

\* Two requests with one key never write at once, whatever was dropped from
\* the map meanwhile.
OneWriter ==
    \A r, q \in Async :
        phase[r] = "writing" /\ phase[q] = "writing" /\ r # q =>
            ask[r].key # ask[q].key

\* A key's second write is done only once its first result can no longer be
\* replayed: it ran out, or made room for a new key.
NoSecondWrite ==
    \A r, q \in Async :
        (/\ r # q
         /\ outcome[r] # Nothing /\ outcome[r].how = "wrote"
         /\ outcome[q] # Nothing /\ outcome[q].how = "wrote"
         /\ ask[r].key = ask[q].key)
        => spent \cap {r, q} # {}

\* A key writes once while its result can be replayed.
KeyWritesOnce == TypeOK /\ OneWriter /\ NoSecondWrite

\* A replay is the result of a write that committed, and of the same request.
ReplayIsTrue ==
    \A r \in Async :
        outcome[r] # Nothing /\ outcome[r].how = "replay" =>
            LET w == outcome[r].by
            IN  reply[w] = "ok" /\ ask[w] = ask[r]

\* What callers are told is what happened, from the first job to the close.
AnswersAreTrue == AnswerIsTrue /\ ReplayIsTrue /\ ClosedIsQuiet

\* Whatever fills up, fails or closes meanwhile, every request is answered,
\* every caller of the writer hears from it, and close returns: no caller
\* keeps the thread alive while close keeps that caller from running.
Settled ==
    /\ \A r \in Async : phase[r] \in {"new", "done"}
    /\ \A p \in Callers : at[p] \in {"out"} \cup Answers
    /\ closer \in {"idle", "closed"}
AllEnd == <>[]Settled

\* Where a call can go on: the thread, a caller of the writer, a request.
ThreadMay ==
    \/ running # NoJob
    \/ ~ended /\ queue # <<>>
    \/ ~ended /\ ~tx /\ Senders = {}
CallerMay(p) ==
    /\ Scheduled(p)
    /\ \/ at[p] = "holding" /\ (p \in Async \/ Len(queue) < Capacity)
       \/ at[p] = "sleeping"
       \/ at[p] = "waiting" /\ reply[p] # "none"
RequestMay(r) ==
    /\ Scheduled(r)
    /\ \/ phase[r] = "locking" /\ at[r] = "out" /\ ~Locked(held[r])
       \/ phase[r] = "writing" /\ at[r] \in Answers

\* At no moment does everyone wait for everyone: of requests at a slot's lock,
\* callers at a full queue, the thread and close, something can go on until
\* all is settled.
NobodyIsStuck ==
    \/ Settled
    \/ ThreadMay
    \/ closer = "joining" /\ ended
    \/ \E p \in Callers : CallerMay(p)
    \/ \E r \in Async : RequestMay(r)

\* Callers are told the truth, and nothing keeps them from being told.
CallsAreTrue == AnswersAreTrue /\ NobodyIsStuck
=============================================================================
