--------------------------- MODULE IdemCache_proofs ----------------------------
(***************************************************************************)
(* Proofs about the database writer and the idempotency cache over it, for *)
(* any callers, keys, queue and cache sizes, and time to live.             *)
(***************************************************************************)
EXTENDS IdemCache, TLAPS, FiniteSetTheorems, SequenceTheorems

-----------------------------------------------------------------------------
(* The writer: the inductive invariant.                                    *)

\* A caller's job is nowhere before it is sent, waits once, and is nowhere
\* once the caller has its answer.
CallInv(p) ==
  /\ at[p] \in {"out", "holding", "sleeping"} => reply[p] = "none"
  /\ at[p] = "waiting" /\ reply[p] = "none" =>
       running = p \/ \E i \in DOMAIN queue : queue[i] = p
  /\ running = p => at[p] = "waiting" /\ reply[p] = "none"
  /\ at[p] = "ok" => reply[p] = "ok"
  /\ at[p] \in {"failed", "stopped"} => reply[p] # "ok"

QueueInv ==
  \A i \in DOMAIN queue :
    /\ at[queue[i]] = "waiting" /\ reply[queue[i]] = "none" /\ queue[i] # running
    /\ \A j \in DOMAIN queue : queue[i] = queue[j] => i = j

\* The thread ends once nobody can send any more.
CloseInv ==
  /\ closer = "idle" <=> tx
  /\ ended => ~tx /\ running = NoJob /\ queue = <<>> /\ Senders = {}
  /\ closer = "closed" => ended

WriterInv ==
  WriterTypeOK /\ (\A p \in Callers : CallInv(p)) /\ QueueInv /\ CloseInv

-----------------------------------------------------------------------------
(* The cache: the inductive invariant.                                     *)

Flying == {"locking", "writing"}

\* A request in flight holds the slot its key is listed with; no slot has
\* two keys.
HeldInv(r) ==
  /\ held[r] # NoSlot <=> phase[r] \in Flying
  /\ phase[r] # "new" => ask[r] \in [key : Keys, params : Params]
  /\ held[r] # NoSlot => slots[ask[r].key] = held[r]
  /\ outcome[r] # Nothing => phase[r] = "done"
ListInv ==
  /\ IsFiniteSet(Listed)
  /\ \A j, k \in Listed : slots[j] = slots[k] => j = k

\* The writer of a slot found nothing in it to replay, and is alone.
WritingInv(r) ==
  phase[r] = "writing" =>
    /\ ~Fresh(record[held[r]])
    /\ \A q \in Async : phase[q] = "writing" /\ held[q] = held[r] => q = r

\* Request w has written, and asked for key k.
Wrote(w, k) == /\ w \in Async /\ at[w] = "ok" /\ phase[w] = "done" /\ ask[w].key = k

\* A record is what a request with its key and params wrote.
RecordInv(k) ==
  k \in Listed /\ record[slots[k]] # Nothing =>
    LET d == record[slots[k]]
    IN  Wrote(d.result, k) /\ ask[d.result].params = d.params

\* What a request wrote is spent, or can be replayed.
OutcomeInv(r) ==
  outcome[r] # Nothing =>
    /\ outcome[r].how = "wrote" =>
         r \in spent \/ LET k == ask[r].key
                        IN  k \in Listed /\ Fresh(record[slots[k]])
                              /\ record[slots[k]].result = r
    /\ outcome[r].how = "replay" =>
         Wrote(outcome[r].by, ask[r].key) /\ ask[outcome[r].by] = ask[r]

CacheInv ==
  /\ TypeOK /\ ListInv
  /\ \A r \in Async : HeldInv(r) /\ WritingInv(r) /\ OutcomeInv(r)
  /\ \A k \in Keys : RecordInv(k)

Inv == WriterInv /\ CacheInv

-----------------------------------------------------------------------------
(* The writer's steps.                                                     *)

LEMMA WriterInitInv == WriterInit => WriterInv
<1> SUFFICES ASSUME WriterInit PROVE WriterInv
  OBVIOUS
<1>1. WriterTypeOK
  <2>1. queue \in Seq(Callers)
    BY EmptySeq DEF WriterInit
  <2>2. <<tx, ended, oneThread>> \in BOOLEAN \X BOOLEAN \X BOOLEAN
    BY DEF WriterInit
  <2> QED
    BY <2>1, <2>2 DEF WriterInit, WriterTypeOK, Places
<1>2. \A p \in Callers : CallInv(p)
  BY NoJobIsNoCaller DEF WriterInit, CallInv
<1>3. QueueInv /\ CloseInv
  BY DEF WriterInit, QueueInv, CloseInv
<1> QED
  BY <1>1, <1>2, <1>3 DEF WriterInv

\* A caller that moves inside its call, or has its answer, with queue, thread
\* and close as they are.
LEMMA MoveInv ==
  ASSUME WriterInv, NEW p \in Callers, NEW place \in Places, Goes(p, place),
         UNCHANGED <<queue, tx, running, ended, reply, closer, oneThread>>,
         at[p] \in {"out", "holding", "sleeping"} =>
           place \in {"holding", "sleeping", "stopped"},
         at[p] = "waiting" => reply[p] # "none" /\ place = Answer(reply[p]),
         at[p] \notin {"ok", "failed", "stopped"},
         place = "holding" => ~ended
  PROVE  WriterInv'
<1>1. at' = [at EXCEPT ![p] = place] /\ at \in [Callers -> Places]
  BY DEF Goes, WriterInv, WriterTypeOK
<1>2. at'[p] = place /\ \A q \in Callers : q # p => at'[q] = at[q]
  BY <1>1
<1>3. WriterTypeOK'
  BY <1>1 DEF WriterInv, WriterTypeOK
<1>4. at[p] \in {"out", "holding", "sleeping", "waiting"} /\ reply[p] \in {"none", "ok",
       "failed", "lost"}
  BY DEF WriterInv, WriterTypeOK, Places
<1>5. running # p /\ \A i \in DOMAIN queue : queue[i] # p
  BY <1>4 DEF WriterInv, CallInv, QueueInv
<1>6. ASSUME NEW q \in Callers PROVE CallInv(q)'
  <2>1. CASE q # p
    BY <1>2, <2>1 DEF WriterInv, CallInv
  <2>2. CASE q = p
    BY <1>2, <1>4, <1>5, <2>2 DEF WriterInv, CallInv, Answer
  <2> QED
    BY <2>1, <2>2
<1>7. \A i \in DOMAIN queue : queue[i] \in Callers
  BY DEF WriterInv, WriterTypeOK
<1>8. QueueInv'
  BY <1>2, <1>5, <1>7 DEF WriterInv, QueueInv
<1>9. CloseInv'
  BY <1>2 DEF WriterInv, CloseInv, Senders
<1> QED
  BY <1>3, <1>6, <1>8, <1>9 DEF WriterInv

LEMMA TakeSenderInv ==
  ASSUME WriterInv, NEW p \in Callers, NEW from \in {"out", "sleeping"}, TakeSender(p, from)
  PROVE  WriterInv'
<1> DEFINE place == IF tx THEN "holding" ELSE "stopped"
<1>1. place \in Places /\ Goes(p, place) /\ at[p] = from
  BY DEF TakeSender, Places
<1>2. place = "holding" => ~ended
  BY DEF WriterInv, CloseInv
<1>3. place \in {"holding", "stopped"}
  OBVIOUS
<1> HIDE DEF place
<1> QED
  BY <1>1, <1>2, <1>3, MoveInv DEF TakeSender

LEMMA SendInv ==
  ASSUME WriterInv, NEW p \in Callers, Send(p)
  PROVE  WriterInv'
<1>1. at' = [at EXCEPT ![p] = "waiting"] /\ at \in [Callers -> Places] /\ at[p] = "holding"
  BY DEF Send, Goes, WriterInv, WriterTypeOK
<1>2. at'[p] = "waiting" /\ \A q \in Callers : q # p => at'[q] = at[q]
  BY <1>1
<1>3. queue \in Seq(Callers) /\ queue' = Append(queue, p)
  BY DEF Send, WriterInv, WriterTypeOK
<1>4. /\ queue' \in Seq(Callers) /\ Len(queue) \in Nat
      /\ DOMAIN queue = 1 .. Len(queue) /\ DOMAIN queue' = 1 .. (Len(queue) + 1)
      /\ \A i \in DOMAIN queue : queue'[i] = queue[i] /\ i \in DOMAIN queue'
      /\ queue'[Len(queue) + 1] = p
  BY <1>3
<1>5. UNCHANGED <<tx, running, ended, reply, closer, oneThread>>
  BY DEF Send
<1>6. reply[p] = "none" /\ running # p /\ \A i \in DOMAIN queue : queue[i] # p
  BY <1>1 DEF WriterInv, CallInv, QueueInv
<1>7. WriterTypeOK'
  BY <1>1, <1>4, <1>5 DEF WriterInv, WriterTypeOK, Places
<1>8. ASSUME NEW q \in Callers PROVE CallInv(q)'
  <2>1. CASE q # p
    BY <1>2, <1>4, <1>5, <2>1 DEF WriterInv, CallInv
  <2>2. CASE q = p
    <3>1. Len(queue) + 1 \in DOMAIN queue'
      BY <1>4
    <3> QED
      BY <1>2, <1>4, <1>5, <1>6, <2>2, <3>1 DEF WriterInv, CallInv
  <2> QED
    BY <2>1, <2>2
<1>9. QueueInv'
  <2>1. ASSUME NEW i \in DOMAIN queue'
        PROVE  \/ (i \in DOMAIN queue /\ queue'[i] = queue[i])
               \/ (i = Len(queue) + 1 /\ queue'[i] = p)
    <3>1. CASE i = Len(queue) + 1
      BY <1>4, <3>1
    <3>2. CASE i # Len(queue) + 1
      <4>1. i \in 1 .. (Len(queue) + 1)
        BY <1>4
      <4>2. i \in DOMAIN queue
        BY <1>4, <3>2, <4>1
      <4> QED
        BY <1>4, <4>2
    <3> QED
      BY <3>1, <3>2
  <2>2. \A i \in DOMAIN queue : queue[i] \in Callers
    BY <1>3
  <2>3. ASSUME NEW i \in DOMAIN queue'
        PROVE  at'[queue'[i]] = "waiting" /\ reply[queue'[i]] = "none" /\ queue'[i] # running
    BY <1>2, <1>6, <2>1, <2>2 DEF WriterInv, QueueInv
  <2>4. ASSUME NEW i \in DOMAIN queue', NEW j \in DOMAIN queue', queue'[i] = queue'[j]
        PROVE  i = j
    BY <1>6, <2>1, <2>4 DEF WriterInv, QueueInv
  <2> QED
    BY <1>5, <2>3, <2>4 DEF QueueInv
<1>10. CloseInv'
  BY <1>1, <1>5 DEF WriterInv, CloseInv, Senders
<1> QED
  BY <1>7, <1>8, <1>9, <1>10 DEF WriterInv

LEMMA TakeJobInv == ASSUME WriterInv, TakeJob PROVE WriterInv'
<1>1. queue \in Seq(Callers) /\ queue # <<>> /\ queue' = Tail(queue) /\ running' = queue[1]
  BY DEF TakeJob, WriterInv, WriterTypeOK
<1>2. /\ queue' \in Seq(Callers) /\ Len(queue) \in Nat /\ Len(queue) > 0
      /\ DOMAIN queue = 1 .. Len(queue) /\ DOMAIN queue' = 1 .. (Len(queue) - 1)
      /\ \A i \in DOMAIN queue' : queue'[i] = queue[i + 1] /\ i + 1 \in DOMAIN queue
  BY <1>1
<1>3. queue[1] \in Callers /\ 1 \in DOMAIN queue
  BY <1>1, <1>2
<1>4. UNCHANGED <<at, tx, ended, reply, closer, oneThread>> /\ ~ended /\ running = NoJob
  BY DEF TakeJob
<1>5. at[queue[1]] = "waiting" /\ reply[queue[1]] = "none"
  BY <1>3 DEF WriterInv, QueueInv
<1>6. WriterTypeOK'
  BY <1>1, <1>2, <1>3, <1>4 DEF WriterInv, WriterTypeOK
<1>7. ASSUME NEW q \in Callers PROVE CallInv(q)'
  <2>1. ASSUME at[q] = "waiting", reply[q] = "none"
        PROVE  running' = q \/ \E i \in DOMAIN queue' : queue'[i] = q
    <3>1. PICK i \in DOMAIN queue : queue[i] = q
      BY <1>4, <2>1, NoJobIsNoCaller DEF WriterInv, CallInv
    <3>2. CASE i = 1
      BY <1>1, <3>1, <3>2
    <3>3. CASE i # 1
      <4>1. i - 1 \in DOMAIN queue' /\ (i - 1) + 1 = i
        BY <1>2, <3>3
      <4> QED
        BY <1>2, <3>1, <4>1
    <3> QED
      BY <3>2, <3>3
  <2> QED
    BY <1>1, <1>4, <1>5, <2>1 DEF WriterInv, CallInv
<1>8. QueueInv'
  <2>1. ASSUME NEW i \in DOMAIN queue'
        PROVE  /\ at[queue[i + 1]] = "waiting" /\ reply[queue[i + 1]] = "none"
               /\ queue[i + 1] # queue[1] /\ i + 1 \in DOMAIN queue /\ i \in Nat
    BY <1>2, <1>3 DEF WriterInv, QueueInv
  <2>2. ASSUME NEW i \in DOMAIN queue', NEW j \in DOMAIN queue', queue'[i] = queue'[j]
        PROVE  i = j
    <3>1. i + 1 = j + 1
      BY <1>2, <2>2 DEF WriterInv, QueueInv
    <3> QED
      BY <2>1, <3>1
  <2> QED
    BY <1>1, <1>2, <1>4, <2>1, <2>2 DEF QueueInv
<1>9. CloseInv'
  BY <1>4 DEF WriterInv, CloseInv
<1> QED
  BY <1>6, <1>7, <1>8, <1>9 DEF WriterInv

LEMMA EndJobInv == ASSUME WriterInv, EndJob PROVE WriterInv'
<1>1. PICK r \in {"ok", "failed", "lost"} : reply' = [reply EXCEPT ![running] = r]
  BY DEF EndJob
<1>2. running \in Callers /\ running' = NoJob /\ UNCHANGED <<at, queue, tx, ended, closer,
       oneThread>>
  BY DEF EndJob, WriterInv, WriterTypeOK
<1>3. reply'[running] = r /\ \A q \in Callers : q # running => reply'[q] = reply[q]
  BY <1>1, <1>2 DEF WriterInv, WriterTypeOK
<1>4. WriterTypeOK'
  BY <1>1, <1>2 DEF WriterInv, WriterTypeOK
<1>5. ASSUME NEW q \in Callers PROVE CallInv(q)'
  BY <1>2, <1>3, NoJobIsNoCaller DEF WriterInv, CallInv
<1>6. \A i \in DOMAIN queue : queue[i] \in Callers /\ queue[i] # running
  BY DEF WriterInv, WriterTypeOK, QueueInv
<1>7. QueueInv'
  BY <1>2, <1>3, <1>6, NoJobIsNoCaller DEF WriterInv, QueueInv
<1>8. CloseInv'
  BY <1>2 DEF WriterInv, CloseInv, Senders
<1> QED
  BY <1>4, <1>5, <1>7, <1>8 DEF WriterInv

LEMMA InsideInv == ASSUME WriterInv, InsideStep PROVE WriterInv'
<1>1. ASSUME NEW p \in Callers, CallerStep(p) PROVE WriterInv'
  <2>1. CASE Send(p)
    BY <2>1, SendInv
  <2>2. CASE Full(p)
    BY <2>2, MoveInv DEF Full, Places
  <2>3. CASE Wake(p)
    BY <2>3, TakeSenderInv DEF Wake
  <2>4. CASE HearReply(p)
    <3>1. Answer(reply[p]) \in Places
      BY <2>4 DEF HearReply, Answer, Places, WriterInv, WriterTypeOK
    <3>2. Answer(reply[p]) # "holding"
      BY <2>4 DEF HearReply, Answer, WriterInv, WriterTypeOK
    <3> QED
      BY <2>4, <3>1, <3>2, MoveInv DEF HearReply
  <2> QED
    BY <1>1, <2>1, <2>2, <2>3, <2>4 DEF CallerStep
<1>2. CASE TakeJob
  BY <1>2, TakeJobInv
<1>3. CASE EndJob
  BY <1>3, EndJobInv
<1>4. CASE EndThread \/ Close \/ Join
  <2>1. UNCHANGED <<at, queue, running, reply, oneThread>>
    BY <1>4 DEF EndThread, Close, Join
  <2>2. WriterTypeOK'
    BY <1>4 DEF EndThread, Close, Join, WriterInv, WriterTypeOK
  <2>3. (\A p \in Callers : CallInv(p)') /\ QueueInv'
    BY <2>1 DEF WriterInv, CallInv, QueueInv
  <2>4. CloseInv'
    BY <1>4 DEF EndThread, Close, Join, WriterInv, CloseInv, Senders
  <2> QED
    BY <2>2, <2>3, <2>4 DEF WriterInv
<1> QED
  BY <1>1, <1>2, <1>3, <1>4 DEF InsideStep, ThreadStep

LEMMA WriterStays == WriterInv /\ UNCHANGED writerVars => WriterInv'
BY DEF writerVars, WriterInv, WriterTypeOK, CallInv, QueueInv, CloseInv, Senders

\* A job that committed stays committed, and its caller was told for good.
LEMMA OkStays ==
  ASSUME WriterInv, InsideStep \/ (\E p \in Callers : Call(p)) \/ UNCHANGED writerVars,
         NEW q \in Callers, at[q] = "ok"
  PROVE  at'[q] = "ok"
BY DEF InsideStep, CallerStep, Send, Full, Wake, HearReply, ThreadStep, TakeJob, EndJob,
       EndThread, Close, Join, Call, TakeSender, Goes, WriterInv, WriterTypeOK, writerVars

LEMMA WriterIsTrue == WriterInv => AnswerIsTrue /\ ClosedIsQuiet
BY NoJobIsNoCaller DEF WriterInv, CallInv, QueueInv, CloseInv, AnswerIsTrue, ClosedIsQuiet

-----------------------------------------------------------------------------
(* The slots.                                                              *)

LEMMA Numbers ==
  /\ Cap \in Nat /\ MaxClock \in Nat /\ TTL \in Nat /\ TTL > 0
  /\ IsFiniteSet(Async) /\ Cardinality(Async) \in Nat
BY BoundsAreNumbers, RequestsAreNumbered, FS_CardinalityType

\* There are more slots than keys are listed, and only listed ones are held.
LEMMA FreeSlotIsFree ==
  ASSUME CacheInv
  PROVE  /\ FreeSlot \in Slots
         /\ \A k \in Keys : slots[k] # FreeSlot
         /\ ~InUse(FreeSlot)
<1>1. ASSUME NEW s \in Slots, InUse(s) PROVE \E k \in Listed : slots[k] = s
  <2>1. PICK r \in Async : held[r] = s
    BY <1>1 DEF InUse
  <2>2. s # NoSlot /\ ask[r].key \in Keys
    BY <2>1, Numbers DEF Slots, NoSlot, CacheInv, HeldInv, Flying
  <2> QED
    BY <2>1, <2>2 DEF CacheInv, HeldInv, Listed
<1>2. \E s \in Slots : (\A k \in Keys : slots[k] # s) /\ ~InUse(s)
  <2> SUFFICES ASSUME \A s \in Slots : \E k \in Listed : slots[k] = s
               PROVE  FALSE
    BY <1>1, Numbers DEF Listed, Slots, NoSlot
  <2> DEFINE f == [s \in Slots |-> CHOOSE k \in Listed : slots[k] = s]
  <2>1. f \in [Slots -> Listed] /\ \A s \in Slots : slots[f[s]] = s
    OBVIOUS
  <2>2. IsFiniteSet(Slots) /\ Cardinality(Slots) = Cap + Cardinality(Async) + 1
    <3>1. Cap + Cardinality(Async) + 1 \in Nat /\ 1 <= Cap + Cardinality(Async) + 1
      BY Numbers
    <3>2. 1 \in Int /\ Cap + Cardinality(Async) + 1 \in Int
      BY <3>1
    <3> QED
      BY <3>1, <3>2, FS_Interval DEF Slots
  <2>3. IsFiniteSet(Listed) /\ Cardinality(Listed) < Cardinality(Slots)
    <3>1. IsFiniteSet(Listed) /\ Cardinality(Listed) <= Cap
      BY DEF CacheInv, ListInv, TypeOK
    <3>2. Cardinality(Listed) \in Nat
      BY <3>1, FS_CardinalityType
    <3> QED
      BY <2>2, <3>1, <3>2, Numbers
  <2> HIDE DEF f
  <2>4. PICK x, y \in Slots : x # y /\ f[x] = f[y]
    BY <2>1, <2>2, <2>3, FS_PigeonHole
  <2> QED
    BY <2>1, <2>4
<1> QED
  BY <1>2 DEF FreeSlot

\* A key that lost its slot had nothing to replay and nobody at it.
LEMMA KeptStay ==
  /\ Kept \subseteq Listed /\ Listed \subseteq Keys
  /\ \A k \in Listed \ Kept : ~InUse(slots[k]) /\ ~Fresh(record[slots[k]])
  /\ \A k \in Oldest : k \in Listed /\ ~InUse(slots[k]) /\ Fresh(record[slots[k]])
BY DEF Kept, Idle, Unused, Oldest, Listed

-----------------------------------------------------------------------------
(* The cache's steps.                                                      *)

LEMMA CacheInitInv == Init => CacheInv
<1> SUFFICES ASSUME Init PROVE CacheInv
  OBVIOUS
<1>1. Listed = {}
  BY DEF Init, Listed
<1>2. IsFiniteSet(Listed) /\ Cardinality(Listed) <= Cap
  BY <1>1, FS_EmptySet, Numbers
<1>3. WriterTypeOK
  BY WriterInitInv DEF Init, WriterInv
<1>4. TypeOK
  BY <1>2, <1>3, Numbers DEF Init, TypeOK, NoSlot
<1>5. ListInv
  BY <1>1, <1>2 DEF ListInv
<1>6. \A r \in Async : HeldInv(r) /\ WritingInv(r) /\ OutcomeInv(r)
  BY DEF Init, HeldInv, WritingInv, OutcomeInv, Flying
<1>7. \A k \in Keys : RecordInv(k)
  BY <1>1 DEF RecordInv
<1> QED
  BY <1>4, <1>5, <1>6, <1>7 DEF CacheInv

\* A request takes slot s for its key: the key's own, or a free one that is
\* emptied.  The keys dropped meanwhile lose nothing unspent.
LEMMA TakesInv ==
  ASSUME CacheInv, NEW r \in Async, NEW k \in Keys, NEW h \in Params, NEW s \in Slots,
         NEW kept \in SUBSET Listed,
         phase[r] = "new", ask' = [ask EXCEPT ![r] = [key |-> k, params |-> h]],
         Takes(r, k, s, kept),
         \/ k \in kept /\ s = slots[k] /\ record' = record
         \/ /\ k \notin Listed
            /\ \A j \in Keys : slots[j] # s
            /\ ~InUse(s)
            /\ record' = [record EXCEPT ![s] = Nothing],
         \A j \in Listed \ kept : ~InUse(slots[j])
            /\ (Fresh(record[slots[j]]) => record[slots[j]].result \in spent'),
         spent \subseteq spent', spent' \subseteq Async,
         Cardinality(kept \cup {k}) <= Cap,
         UNCHANGED <<writerVars, clock>>
  PROVE  CacheInv'
<1>1. /\ \A q \in Async : q # r => /\ phase'[q] = phase[q] /\ held'[q] = held[q]
                                   /\ ask'[q] = ask[q]
      /\ phase'[r] = "locking" /\ held'[r] = s /\ ask'[r] = [key |-> k, params |-> h]
      /\ outcome' = outcome /\ at' = at
  BY DEF Takes, CacheInv, TypeOK, writerVars
<1>2. s \in Nat /\ s # NoSlot
  BY Numbers DEF Slots, NoSlot
<1>3. Listed \subseteq Keys /\ \A j \in Keys : j \notin Listed => slots[j] = NoSlot
  BY DEF Listed
<1>4. /\ slots'[k] = s
      /\ \A j \in kept : j # k => slots'[j] = slots[j]
      /\ \A j \in Keys : j # k /\ j \notin kept => slots'[j] = NoSlot
  BY <1>3 DEF Takes
<1>5. Listed' = kept \cup {k}
  BY <1>2, <1>3, <1>4 DEF Listed
<1>6. \A j \in kept : j # k => slots'[j] = slots[j] /\ slots[j] # s /\ slots[j] \in Slots
  BY <1>3, <1>4 DEF CacheInv, ListInv, TypeOK, Listed
<1>7. \A x \in Slots : x # s => record'[x] = record[x]
  BY DEF CacheInv, TypeOK
<1>8. record'[s] = Nothing \/ (k \in kept /\ s = slots[k] /\ record' = record)
  BY DEF CacheInv, TypeOK
<1>9. record' \in [Slots -> Record \cup {Nothing}]
  BY DEF CacheInv, TypeOK
<1>10. ASSUME NEW q \in Async, q # r, held[q] # NoSlot
       PROVE  slots'[ask[q].key] = held[q] /\ record'[held[q]] = record[held[q]]
  <2>1. ask[q].key \in Keys /\ slots[ask[q].key] = held[q] /\ held[q] \in Slots
    BY <1>10 DEF CacheInv, HeldInv, Flying, TypeOK
  <2>2. ask[q].key \in Listed
    BY <1>10, <2>1 DEF Listed
  <2>3. ask[q].key \in kept
    BY <1>10, <2>1, <2>2 DEF InUse
  <2>4. slots'[ask[q].key] = held[q]
    BY <1>3, <1>4, <2>1, <2>3
  <2>5. held[q] = s => record' = record
    BY <1>10 DEF InUse
  <2> QED
    BY <1>7, <2>1, <2>4, <2>5
<1>11. TypeOK'
  <2>1. slots' \in [Keys -> Slots \cup {NoSlot}]
    <3>1. \A j \in Keys : slots'[j] \in Slots \cup {NoSlot}
      BY <1>4, <1>6
    <3> QED
      BY <3>1 DEF Takes
  <2>2. WriterTypeOK'
    BY DEF CacheInv, TypeOK, WriterTypeOK, writerVars
  <2>3. phase' \in [Async -> {"new", "locking", "writing", "done"}]
        /\ held' \in [Async -> Slots \cup {NoSlot}]
    BY DEF Takes, CacheInv, TypeOK
  <2>4. ask' \in [Async -> [key : Keys, params : Params] \cup {Nothing}]
    BY DEF CacheInv, TypeOK
  <2> QED
    BY <1>1, <1>5, <1>9, <2>1, <2>2, <2>3, <2>4 DEF CacheInv, TypeOK
<1>12. ListInv'
  <2>1. IsFiniteSet(kept)
    BY FS_Subset DEF CacheInv, ListInv
  <2>2. IsFiniteSet(kept \cup {k})
    BY <2>1, FS_AddElement
  <2>3. \A i, j \in Listed' : slots'[i] = slots'[j] => i = j
    BY <1>4, <1>5, <1>6 DEF CacheInv, ListInv
  <2> QED
    BY <1>5, <2>2, <2>3 DEF ListInv
<1>13. ASSUME NEW q \in Async PROVE HeldInv(q)'
  <2>1. CASE q = r
    <3>1. outcome[r] = Nothing
      BY DEF CacheInv, HeldInv
    <3> QED
      BY <1>1, <1>2, <1>4, <2>1, <3>1 DEF HeldInv, Flying
  <2>2. CASE q # r
    BY <1>1, <1>10, <2>2 DEF CacheInv, HeldInv
  <2> QED
    BY <2>1, <2>2
<1>14. UNCHANGED clock
  OBVIOUS
<1>15. ASSUME NEW q \in Async PROVE WritingInv(q)'
  <2> SUFFICES ASSUME phase'[q] = "writing"
               PROVE  /\ ~Fresh(record[held[q]])'
                      /\ \A p \in Async : phase'[p] = "writing" /\ held'[p] = held'[q] => p = q
    BY DEF WritingInv
  <2>1. q # r /\ phase[q] = "writing" /\ held'[q] = held[q] /\ held[q] # NoSlot
    BY <1>1 DEF CacheInv, HeldInv, Flying
  <2>2. record'[held'[q]] = record[held[q]]
    BY <1>10, <2>1
  <2> QED
    BY <1>1, <1>14, <2>1, <2>2 DEF CacheInv, WritingInv, Fresh
<1>16. \A w \in Async : \A j : Wrote(w, j) => Wrote(w, j)' /\ ask'[w] = ask[w]
  BY <1>1 DEF Wrote
<1>17. ASSUME NEW j \in Keys PROVE RecordInv(j)'
  <2> SUFFICES ASSUME j \in Listed', record'[slots'[j]] # Nothing
               PROVE  /\ Wrote(record[slots[j]].result, j)'
                      /\ ask'[record'[slots'[j]].result].params = record'[slots'[j]].params
    BY DEF RecordInv
  <2>1. j \in kept /\ record'[slots'[j]] = record[slots[j]]
    BY <1>4, <1>5, <1>6, <1>7, <1>8
  <2>2. PICK w \in Async : w = record[slots[j]].result
    BY <2>1 DEF CacheInv, RecordInv, Wrote
  <2>3. Wrote(w, j) /\ ask[w].params = record[slots[j]].params
    BY <2>1, <2>2 DEF CacheInv, RecordInv
  <2>4. Wrote(w, j)' /\ ask'[w].params = record'[slots'[j]].params
    BY <1>16, <2>1, <2>3
  <2> QED
    BY <2>1, <2>2, <2>4
<1>18. ASSUME NEW q \in Async PROVE OutcomeInv(q)'
  <2> SUFFICES ASSUME outcome[q] # Nothing PROVE OutcomeInv(q)'
    BY <1>1 DEF OutcomeInv
  <2>1. q # r
    BY DEF CacheInv, HeldInv
  <2>2. PICK j : j = ask[q].key /\ j = ask'[q].key
    BY <1>1, <2>1
  <2>3. ASSUME outcome[q].how = "wrote", q \notin spent'
        PROVE  j \in Listed' /\ Fresh(record[slots[j]])' /\ record'[slots'[j]].result = q
    <3>1. j \in Listed /\ Fresh(record[slots[j]]) /\ record[slots[j]].result = q
      BY <2>2, <2>3 DEF CacheInv, OutcomeInv
    <3>2. j \in kept
      BY <2>3, <3>1
    <3>3. j \in Listed' /\ record'[slots'[j]] = record[slots[j]]
      BY <1>3, <1>4, <1>5, <1>6, <1>7, <1>8, <3>2
    <3> QED
      BY <1>14, <3>1, <3>3 DEF Fresh
  <2>4. ASSUME outcome[q].how = "replay"
        PROVE  Wrote(outcome[q].by, j)' /\ ask'[outcome'[q].by] = ask'[q]
    <3>1. PICK w \in Async : w = outcome[q].by /\ Wrote(w, j) /\ ask[w] = ask[q]
      <4>1. Wrote(outcome[q].by, j) /\ ask[outcome[q].by] = ask[q]
        BY <2>2, <2>4 DEF CacheInv, OutcomeInv
      <4> QED
        BY <4>1 DEF Wrote
    <3> QED
      BY <1>1, <1>16, <2>1, <3>1
  <2> QED
    BY <1>1, <2>2, <2>3, <2>4 DEF OutcomeInv
<1> QED
  BY <1>11, <1>12, <1>13, <1>15, <1>17, <1>18 DEF CacheInv

\* No request holds or gets anything new, and no slot or record changes: a
\* request may end, its slot is given back, and the map may drop keys.
LEMMA EndsInv ==
  ASSUME CacheInv, NEW r \in Async, NEW how \in {"busy", "replay", "duplicate", "failed"},
         NEW by \in Async \cup {Nothing}, NEW kept \in SUBSET Listed,
         ask'[r] \in [key : Keys, params : Params], phase[r] # "done",
         \A q \in Async : q # r => ask'[q] = ask[q],
         ask' \in [Async -> [key : Keys, params : Params] \cup {Nothing}],
         held[r] # NoSlot => ask' = ask,
         Done(r, how, by),
         how = "replay" => by \in Async /\ by # r /\ Wrote(by, ask'[r].key) /\ ask[by] = ask'[r],
         slots' = [j \in Keys |-> IF j \in kept THEN slots[j] ELSE NoSlot],
         \A j \in Listed \ kept : ~InUse(slots[j]) /\ ~Fresh(record[slots[j]]),
         UNCHANGED <<record, spent, clock>>, WriterTypeOK', at' = at
  PROVE  CacheInv'
<1>1. /\ \A q \in Async : q # r => /\ phase'[q] = phase[q] /\ held'[q] = held[q]
                                   /\ outcome'[q] = outcome[q]
      /\ phase'[r] = "done" /\ held'[r] = NoSlot /\ outcome'[r] = [how |-> how, by |-> by]
  BY DEF Done, CacheInv, TypeOK
<1>2. /\ Listed \subseteq Keys /\ \A j \in Listed : slots[j] # NoSlot
      /\ \A j \in kept : slots'[j] = slots[j]
      /\ \A j \in Keys : j \notin kept => slots'[j] = NoSlot
  BY DEF Listed
<1>3. Listed' = kept
  BY <1>2 DEF Listed
<1>4. IsFiniteSet(kept) /\ Cardinality(kept) <= Cap
  <2>1. IsFiniteSet(kept) /\ Cardinality(kept) <= Cardinality(Listed)
    BY FS_Subset DEF CacheInv, ListInv
  <2>2. Cardinality(kept) \in Nat /\ Cardinality(Listed) \in Nat
    BY <2>1, FS_CardinalityType DEF CacheInv, ListInv
  <2> QED
    BY <2>1, <2>2, Numbers DEF CacheInv, TypeOK
<1>5. TypeOK'
  <2>1. slots' \in [Keys -> Slots \cup {NoSlot}]
    BY DEF CacheInv, TypeOK
  <2>2. phase' \in [Async -> {"new", "locking", "writing", "done"}]
        /\ held' \in [Async -> Slots \cup {NoSlot}]
    BY DEF Done, CacheInv, TypeOK
  <2>3. outcome' \in [Async -> [how : {"busy", "replay", "duplicate", "wrote", "failed"},
                                by : Async \cup {Nothing}] \cup {Nothing}]
    BY DEF Done, CacheInv, TypeOK
  <2> QED
    BY <1>3, <1>4, <2>1, <2>2, <2>3 DEF CacheInv, TypeOK
<1>6. ListInv'
  BY <1>2, <1>3, <1>4 DEF CacheInv, ListInv
<1>7. ASSUME NEW q \in Async, q # r, held[q] # NoSlot
      PROVE  slots'[ask[q].key] = held[q]
  <2>1. ask[q].key \in Keys /\ slots[ask[q].key] = held[q]
    BY <1>7 DEF CacheInv, HeldInv, Flying
  <2>2. ask[q].key \in kept
    BY <1>7, <2>1 DEF InUse, Listed
  <2> QED
    BY <1>2, <2>1, <2>2
<1>8. ASSUME NEW q \in Async PROVE HeldInv(q)' /\ WritingInv(q)'
  <2>1. CASE q = r
    BY <1>1, <2>1 DEF HeldInv, WritingInv, Flying
  <2>2. CASE q # r
    <3>1. HeldInv(q)'
      <4>1. HeldInv(q) /\ ask'[q] = ask[q]
        BY <2>2 DEF CacheInv
      <4> QED
        BY <1>1, <1>7, <2>2, <4>1 DEF HeldInv
    <3>2. WritingInv(q)'
      BY <1>1, <2>2 DEF CacheInv, WritingInv, Fresh
    <3> QED
      BY <3>1, <3>2
  <2> QED
    BY <2>1, <2>2
<1>9. \A w \in Async : \A j : w # r /\ Wrote(w, j) => Wrote(w, j)' /\ ask'[w] = ask[w]
  BY <1>1 DEF Wrote
<1>10. ASSUME NEW j \in Keys PROVE RecordInv(j)'
  <2> SUFFICES ASSUME j \in kept, record[slots[j]] # Nothing
               PROVE  /\ Wrote(record[slots[j]].result, j)'
                      /\ ask'[record'[slots'[j]].result].params = record'[slots'[j]].params
    BY <1>2, <1>3 DEF RecordInv
  <2>1. PICK w \in Async : w = record[slots[j]].result /\ Wrote(w, j)
                              /\ ask[w].params = record[slots[j]].params
    BY DEF CacheInv, RecordInv, Wrote
  <2>2. Wrote(w, j)' /\ ask'[w] = ask[w]
    BY <1>9, <2>1 DEF Wrote
  <2> QED
    BY <1>2, <2>1, <2>2
<1>11. ASSUME NEW q \in Async PROVE OutcomeInv(q)'
  <2>1. CASE q = r
    <3> SUFFICES ASSUME how = "replay"
                 PROVE  Wrote(by, ask'[r].key) /\ ask'[by] = ask'[r] /\ by \in Async
                          /\ at'[by] = "ok" /\ phase'[by] = "done"
      BY <1>1, <2>1 DEF OutcomeInv, Wrote
    <3> QED
      BY <1>1 DEF Wrote
  <2>2. CASE q # r
    <3> SUFFICES ASSUME outcome[q] # Nothing PROVE OutcomeInv(q)'
      BY <1>1, <2>2 DEF OutcomeInv
    <3>1. PICK j : j = ask[q].key /\ j = ask'[q].key
      BY <2>2
    <3> OutcomeInv(q)
      BY DEF CacheInv
    <3>2. ASSUME outcome[q].how = "wrote", q \notin spent
          PROVE  j \in Listed' /\ Fresh(record[slots[j]])' /\ record'[slots'[j]].result = q
      <4>1. j \in Listed /\ Fresh(record[slots[j]]) /\ record[slots[j]].result = q
        BY <3>1, <3>2 DEF OutcomeInv
      <4> QED
        BY <1>2, <1>3, <4>1 DEF Fresh
    <3>3. ASSUME outcome[q].how = "replay"
          PROVE  Wrote(outcome[q].by, j)' /\ ask'[outcome'[q].by] = ask'[q]
      <4>1. Wrote(outcome[q].by, j) /\ ask[outcome[q].by] = ask[q]
        BY <3>1, <3>3 DEF OutcomeInv
      <4>2. PICK w \in Async : w = outcome[q].by
        BY <4>1 DEF Wrote
      <4>3. w # r
        BY <4>1, <4>2 DEF Wrote
      <4> QED
        BY <1>1, <1>9, <2>2, <4>1, <4>2, <4>3
    <3> QED
      BY <1>1, <2>2, <3>1, <3>2, <3>3 DEF OutcomeInv
  <2> QED
    BY <2>1, <2>2
<1> QED
  BY <1>5, <1>6, <1>8, <1>10, <1>11 DEF CacheInv

LEMMA RequestInv ==
  ASSUME CacheInv, NEW r \in Async, NEW k \in Keys, NEW h \in Params, Request(r, k, h)
  PROVE  CacheInv'
<1>1. /\ phase[r] = "new" /\ ask' = [ask EXCEPT ![r] = [key |-> k, params |-> h]]
      /\ Slot(r, k) /\ UNCHANGED <<writerVars, clock>>
  BY DEF Request, Comes
<1>2. /\ Kept \subseteq Listed /\ Listed \subseteq Keys
      /\ IsFiniteSet(Listed) /\ Cardinality(Listed) \in Nat /\ Cardinality(Listed) <= Cap
      /\ IsFiniteSet(Kept) /\ Cardinality(Kept) \in Nat
      /\ Cardinality(Kept) <= Cardinality(Listed)
  BY KeptStay, FS_Subset, FS_CardinalityType DEF CacheInv, ListInv, TypeOK
<1>3. spent \subseteq Async
  BY DEF CacheInv, TypeOK
<1>4. CASE k \in Listed
  <2>1. Takes(r, k, slots[k], Listed) /\ UNCHANGED <<record, spent>>
    BY <1>1, <1>4 DEF Slot
  <2>2. slots[k] \in Slots
    BY <1>4 DEF CacheInv, TypeOK, Listed
  <2>3. Listed \cup {k} = Listed
    BY <1>4
  <2> QED
    BY <1>1, <1>2, <1>3, <1>4, <2>1, <2>2, <2>3, TakesInv
<1>5. CASE k \notin Listed /\ Cardinality(Kept) < Cap /\ Takes(r, k, FreeSlot, Kept)
            /\ record' = [record EXCEPT ![FreeSlot] = Nothing] /\ UNCHANGED spent
  <2>1. Cardinality(Kept \cup {k}) <= Cap
    <3>1. Cardinality(Kept \cup {k}) \in {Cardinality(Kept), Cardinality(Kept) + 1}
      BY <1>2, FS_AddElement
    <3> QED
      BY <1>2, <1>5, <3>1, Numbers
  <2> QED
    BY <1>1, <1>2, <1>3, <1>5, <2>1, FreeSlotIsFree, KeptStay, TakesInv
<1>6. CASE /\ k \notin Listed
           /\ Cardinality(Kept) >= Cap
           /\ \E o \in Oldest : Takes(r, k, FreeSlot, Kept \ {o})
                                  /\ spent' = spent \cup {record[slots[o]].result}
           /\ record' = [record EXCEPT ![FreeSlot] = Nothing]
  <2>1. PICK o \in Oldest : Takes(r, k, FreeSlot, Kept \ {o})
                              /\ spent' = spent \cup {record[slots[o]].result}
    BY <1>6
  <2>2. Kept = Listed
    BY <1>2, <1>6, Numbers, FS_Subset
  <2>3. o \in Listed /\ ~InUse(slots[o]) /\ Fresh(record[slots[o]])
    BY <2>1, KeptStay
  <2>4. Cardinality((Kept \ {o}) \cup {k}) <= Cap
    <3>1. IsFiniteSet(Kept \ {o}) /\ Cardinality(Kept \ {o}) = Cardinality(Kept) - 1
      BY <1>2, <2>2, <2>3, FS_RemoveElement
    <3>2. Cardinality((Kept \ {o}) \cup {k}) = Cardinality(Kept \ {o}) + 1
      BY <1>6, <2>2, <3>1, FS_AddElement
    <3> QED
      BY <1>2, <3>1, <3>2, Numbers
  <2>5. record[slots[o]].result \in Async
    BY <2>3 DEF Fresh, CacheInv, TypeOK, Listed, Record
  <2>6. \A j \in Listed \ (Kept \ {o}) : ~InUse(slots[j])
            /\ (Fresh(record[slots[j]]) => record[slots[j]].result \in spent')
    BY <2>1, <2>2, <2>3
  <2>7. Kept \ {o} \in SUBSET Listed
    BY <2>2
  <2>8. spent \subseteq spent' /\ spent' \subseteq Async
    BY <1>3, <2>1, <2>5
  <2> QED
    BY <1>1, <1>6, <2>1, <2>4, <2>6, <2>7, <2>8, FreeSlotIsFree, TakesInv
<1>7. CASE k \notin Listed /\ slots' = [j \in Keys |-> IF j \in Kept THEN slots[j] ELSE NoSlot]
            /\ Done(r, "busy", Nothing) /\ UNCHANGED <<record, spent>>
  <2>1. ask'[r] \in [key : Keys, params : Params] /\ (\A q \in Async : q # r => ask'[q] = ask[q])
          /\ ask' \in [Async -> [key : Keys, params : Params] \cup {Nothing}]
    BY <1>1 DEF CacheInv, TypeOK
  <2>2. held[r] = NoSlot
    BY <1>1 DEF CacheInv, HeldInv, Flying
  <2>3. WriterTypeOK' /\ at' = at
    BY <1>1 DEF CacheInv, TypeOK, WriterTypeOK, writerVars
  <2>4. \A j \in Listed \ Kept : ~InUse(slots[j]) /\ ~Fresh(record[slots[j]])
    BY KeptStay
  <2> QED
    BY <1>1, <1>2, <1>7, <2>1, <2>2, <2>3, <2>4, EndsInv
<1> QED
  BY <1>1, <1>4, <1>5, <1>6, <1>7 DEF Slot

\* The map and all records stay; request r ends.
LEMMA EndsInPlaceInv ==
  ASSUME CacheInv, NEW r \in Async, NEW how \in {"replay", "duplicate", "failed"},
         NEW by \in Async \cup {Nothing},
         phase[r] \in Flying, Done(r, how, by),
         how = "replay" => by # r /\ Wrote(by, ask[r].key) /\ ask[by] = ask[r],
         UNCHANGED <<writerVars, ask, slots, record, spent, clock>>
  PROVE  CacheInv'
<1>1. ask[r] \in [key : Keys, params : Params]
        /\ ask \in [Async -> [key : Keys, params : Params] \cup {Nothing}]
  BY DEF CacheInv, HeldInv, Flying, TypeOK
<1>2. slots' = [j \in Keys |-> IF j \in Listed THEN slots[j] ELSE NoSlot]
  BY DEF CacheInv, TypeOK, Listed
<1>3. WriterTypeOK' /\ at' = at
  BY DEF CacheInv, TypeOK, WriterTypeOK, writerVars
<1>4. phase[r] # "done" /\ (how = "replay" => by \in Async)
  BY DEF Flying, Wrote
<1> QED
  BY <1>1, <1>2, <1>3, <1>4, EndsInv

LEMMA ReplayInv == ASSUME CacheInv, NEW r \in Async, Replay(r) PROVE CacheInv'
<1> DEFINE d == record[held[r]]
<1>1. /\ phase[r] = "locking" /\ Fresh(d)
      /\ UNCHANGED <<writerVars, ask, slots, record, clock, spent>>
  BY DEF Replay
<1>2. held[r] # NoSlot /\ slots[ask[r].key] = held[r] /\ ask[r] \in [key : Keys, params : Params]
  BY <1>1 DEF CacheInv, HeldInv, Flying
<1>3. Wrote(d.result, ask[r].key) /\ ask[d.result].params = d.params
  <2>1. ask[r].key \in Keys /\ ask[r].key \in Listed /\ record[slots[ask[r].key]] # Nothing
    BY <1>1, <1>2 DEF Fresh, Listed
  <2>2. RecordInv(ask[r].key)
    BY <2>1 DEF CacheInv
  <2> QED
    BY <1>2, <2>1, <2>2 DEF RecordInv
<1>4. CASE d.params = ask[r].params
  <2>1. Done(r, "replay", d.result)
    BY <1>4 DEF Replay
  <2>2. d.result \in Async /\ d.result # r /\ ask[d.result].key = ask[r].key
    BY <1>1, <1>3 DEF Wrote
  <2>3. ask[d.result] = ask[r]
    <3>1. ask[d.result] \in [key : Keys, params : Params]
      BY <1>3 DEF Wrote, CacheInv, HeldInv
    <3> QED
      BY <1>2, <1>3, <1>4, <2>2, <3>1
  <2> QED
    BY <1>1, <1>3, <2>1, <2>2, <2>3, EndsInPlaceInv DEF Flying
<1>5. CASE d.params # ask[r].params
  <2>1. Done(r, "duplicate", Nothing)
    BY <1>5 DEF Replay
  <2> QED
    BY <1>1, <2>1, EndsInPlaceInv DEF Flying
<1> QED
  BY <1>4, <1>5

\* Callers of the writer move; nothing of the cache does.
LEMMA WriterMovesInv ==
  ASSUME CacheInv, WriterInv, InsideStep \/ (\E p \in Callers : Call(p)) \/ UNCHANGED writerVars,
         WriterTypeOK', UNCHANGED idemVars
  PROVE  CacheInv'
<1>1. \A w \in Async : \A j : Wrote(w, j) => Wrote(w, j)'
  BY OkStays DEF Wrote, idemVars, Callers
<1>2. Listed' = Listed
  BY DEF Listed, idemVars
<1>3. TypeOK' /\ ListInv'
  BY <1>2 DEF CacheInv, TypeOK, ListInv, idemVars
<1>4. ASSUME NEW r \in Async PROVE HeldInv(r)' /\ WritingInv(r)'
  BY DEF CacheInv, HeldInv, WritingInv, Fresh, idemVars
<1>5. ASSUME NEW r \in Async PROVE OutcomeInv(r)'
  BY <1>1, <1>2 DEF CacheInv, OutcomeInv, Fresh, Wrote, idemVars
<1>6. ASSUME NEW k \in Keys PROVE RecordInv(k)'
  BY <1>1, <1>2 DEF CacheInv, RecordInv, Wrote, idemVars
<1> QED
  BY <1>3, <1>4, <1>5, <1>6 DEF CacheInv

\* With the lock, a slot with nothing to replay has one writer.
LEMMA WriteInv ==
  ASSUME CacheInv, WriterInv, NEW r \in Async, Write(r), WriterTypeOK'
  PROVE  CacheInv'
<1>1. /\ phase[r] = "locking" /\ ~Fresh(record[held[r]])
      /\ \A q \in Async : phase[q] = "writing" => held[q] # held[r]
      /\ Call(r) /\ phase' = [phase EXCEPT ![r] = "writing"]
      /\ UNCHANGED <<ask, slots, held, record, clock, outcome, spent>>
  BY DEF Write, Locked
<1>2. phase'[r] = "writing" /\ \A q \in Async : q # r => phase'[q] = phase[q]
  BY <1>1 DEF CacheInv, TypeOK
<1>3. \A w \in Async : \A j : Wrote(w, j) => w # r /\ Wrote(w, j)'
  BY <1>1, <1>2, OkStays DEF Wrote, Callers
<1>4. Listed' = Listed
  BY <1>1 DEF Listed
<1>5. TypeOK' /\ ListInv'
  BY <1>1, <1>4 DEF CacheInv, TypeOK, ListInv
<1>6. ASSUME NEW q \in Async PROVE HeldInv(q)'
  <2>1. HeldInv(q)
    BY DEF CacheInv
  <2> QED
    BY <1>1, <1>2, <2>1 DEF HeldInv, Flying
<1>7. ASSUME NEW q \in Async PROVE WritingInv(q)'
  BY <1>1, <1>2 DEF CacheInv, WritingInv, Fresh
<1>8. ASSUME NEW q \in Async PROVE OutcomeInv(q)'
  BY <1>1, <1>3, <1>4 DEF CacheInv, OutcomeInv, Fresh, Wrote
<1>9. ASSUME NEW k \in Keys PROVE RecordInv(k)'
  BY <1>1, <1>3, <1>4 DEF CacheInv, RecordInv, Wrote
<1> QED
  BY <1>5, <1>6, <1>7, <1>8, <1>9 DEF CacheInv

\* A write that succeeds leaves its record in a slot that had none to replay.
LEMMA FinishInv == ASSUME CacheInv, NEW r \in Async, Finish(r) PROVE CacheInv'
<1>1. phase[r] = "writing" /\ UNCHANGED <<writerVars, ask, slots, clock, spent>>
  BY DEF Finish
<1>2. CASE at[r] # "ok"
  <2>1. Done(r, "failed", Nothing) /\ UNCHANGED record
    BY <1>2 DEF Finish
  <2> QED
    BY <1>1, <2>1, EndsInPlaceInv DEF Flying
<1>3. CASE at[r] = "ok"
  <2> DEFINE new == [params |-> ask[r].params, result |-> r, at |-> clock]
  <2>1. Done(r, "wrote", r) /\ record' = [record EXCEPT ![held[r]] = new]
    BY <1>3 DEF Finish
  <2>2. /\ held[r] # NoSlot /\ slots[ask[r].key] = held[r] /\ held[r] \in Slots
        /\ ask[r] \in [key : Keys, params : Params]
    BY <1>1 DEF CacheInv, HeldInv, Flying, TypeOK
  <2>3. PICK k \in Listed : k = ask[r].key /\ slots[k] = held[r]
    BY <2>2 DEF Listed
  <2>4. clock \in 0 .. MaxClock /\ new \in Record
    BY <2>2 DEF CacheInv, TypeOK, Record
  <2>5. new # Nothing
    BY <2>4, NothingIsNoRecord, Numbers DEF Record
  <2>6. /\ new.params = ask[r].params /\ new.result = r /\ new.at = clock
        /\ record'[held[r]] = new
        /\ \A x \in Slots : x # held[r] => record'[x] = record[x]
    BY <2>1, <2>2 DEF CacheInv, TypeOK
  <2>7. record' \in [Slots -> Record \cup {Nothing}]
    BY <2>1, <2>4 DEF CacheInv, TypeOK
  <2> HIDE DEF new
  <2>8. /\ \A q \in Async : q # r => /\ phase'[q] = phase[q] /\ held'[q] = held[q]
                                     /\ outcome'[q] = outcome[q]
        /\ phase'[r] = "done" /\ held'[r] = NoSlot /\ outcome'[r] = [how |-> "wrote", by |-> r]
    BY <2>1 DEF Done, CacheInv, TypeOK
  <2>9. at' = at /\ Listed' = Listed
    BY <1>1 DEF writerVars, Listed
  <2>10. \A w \in Async : \A j : Wrote(w, j) => Wrote(w, j)'
    BY <1>1, <2>8, <2>9 DEF Wrote
  <2>11. Wrote(r, k)'
    BY <1>1, <1>3, <2>3, <2>8, <2>9 DEF Wrote
  <2>12. \A j \in Listed : j # k => slots[j] # held[r] /\ slots[j] \in Slots
    BY <2>3 DEF CacheInv, ListInv, TypeOK, Listed
  <2>13. TypeOK'
    <3>1. WriterTypeOK'
      BY <1>1 DEF CacheInv, TypeOK, WriterTypeOK, writerVars
    <3>2. phase' \in [Async -> {"new", "locking", "writing", "done"}]
          /\ held' \in [Async -> Slots \cup {NoSlot}]
      BY <2>1 DEF Done, CacheInv, TypeOK
    <3>3. outcome' \in [Async -> [how : {"busy", "replay", "duplicate", "wrote", "failed"},
                                  by : Async \cup {Nothing}] \cup {Nothing}]
      BY <2>1 DEF Done, CacheInv, TypeOK
    <3> QED
      BY <1>1, <2>7, <2>9, <3>1, <3>2, <3>3 DEF CacheInv, TypeOK
  <2>14. ListInv'
    BY <1>1, <2>9 DEF CacheInv, ListInv
  <2>15. ASSUME NEW q \in Async PROVE HeldInv(q)' /\ WritingInv(q)'
    <3>1. CASE q = r
      BY <1>1, <2>2, <2>8, <3>1 DEF HeldInv, WritingInv, Flying
    <3>2. CASE q # r
      <4>1. HeldInv(q) /\ WritingInv(q)
        BY DEF CacheInv
      <4>2. HeldInv(q)'
        BY <1>1, <2>8, <3>2, <4>1 DEF HeldInv
      <4>3. ASSUME phase[q] = "writing"
            PROVE  record'[held[q]] = record[held[q]]
        <5>1. held[q] # held[r] /\ held[q] \in Slots
          BY <1>1, <3>2, <4>1, <4>3 DEF CacheInv, WritingInv, HeldInv, Flying, TypeOK
        <5> QED
          BY <2>6, <5>1
      <4>4. WritingInv(q)'
        BY <1>1, <2>8, <3>2, <4>1, <4>3 DEF WritingInv, Fresh
      <4> QED
        BY <4>2, <4>4
    <3> QED
      BY <3>1, <3>2
  <2>16. ASSUME NEW j \in Keys PROVE RecordInv(j)'
    <3> SUFFICES ASSUME j \in Listed, record'[slots[j]] # Nothing
                 PROVE  /\ Wrote(record[slots[j]].result, j)'
                        /\ ask'[record'[slots'[j]].result].params = record'[slots'[j]].params
      BY <1>1, <2>9 DEF RecordInv
    <3>1. CASE j = k
      BY <1>1, <2>3, <2>6, <2>11, <3>1
    <3>2. CASE j # k
      <4>1. record'[slots[j]] = record[slots[j]]
        BY <2>6, <2>12, <3>2
      <4>2. PICK w \in Async : w = record[slots[j]].result /\ Wrote(w, j)
                                  /\ ask[w].params = record[slots[j]].params
        BY <4>1 DEF CacheInv, RecordInv, Wrote
      <4> QED
        BY <1>1, <2>10, <4>1, <4>2
    <3> QED
      BY <3>1, <3>2
  <2>17. ASSUME NEW q \in Async PROVE OutcomeInv(q)'
    <3>1. CASE q = r
      <4>1. Fresh(record[slots[k]])' /\ record'[slots'[k]].result = r
        BY <1>1, <2>3, <2>4, <2>5, <2>6, Numbers DEF Fresh
      <4> QED
        BY <1>1, <2>3, <2>8, <2>9, <3>1, <4>1 DEF OutcomeInv
    <3>2. CASE q # r
      <4> SUFFICES ASSUME outcome[q] # Nothing PROVE OutcomeInv(q)'
        BY <2>8, <3>2 DEF OutcomeInv
      <4>1. PICK j : j = ask[q].key /\ j = ask'[q].key
        BY <1>1
      <4>2. OutcomeInv(q)
        BY DEF CacheInv
      <4>3. ASSUME outcome[q].how = "wrote", q \notin spent
            PROVE  j \in Listed' /\ Fresh(record[slots[j]])' /\ record'[slots'[j]].result = q
        <5>1. j \in Listed /\ Fresh(record[slots[j]]) /\ record[slots[j]].result = q
          BY <4>1, <4>2, <4>3 DEF OutcomeInv
        <5>2. j # k
          BY <1>1, <2>3, <5>1 DEF CacheInv, WritingInv
        <5>3. record'[slots[j]] = record[slots[j]]
          BY <2>6, <2>12, <5>1, <5>2
        <5> QED
          BY <1>1, <2>9, <5>1, <5>3 DEF Fresh
      <4>4. ASSUME outcome[q].how = "replay"
            PROVE  Wrote(outcome[q].by, j)' /\ ask'[outcome'[q].by] = ask'[q]
        <5>1. Wrote(outcome[q].by, j) /\ ask[outcome[q].by] = ask[q]
          BY <4>1, <4>2, <4>4 DEF OutcomeInv
        <5>2. PICK w \in Async : w = outcome[q].by
          BY <5>1 DEF Wrote
        <5> QED
          BY <1>1, <2>8, <2>10, <3>2, <5>1, <5>2
      <4> QED
        BY <1>1, <2>8, <3>2, <4>1, <4>3, <4>4 DEF OutcomeInv
    <3> QED
      BY <3>1, <3>2
  <2> QED
    BY <2>13, <2>14, <2>15, <2>16, <2>17 DEF CacheInv
<1> QED
  BY <1>2, <1>3

\* What runs out as time passes is spent.
LEMMA TickInv == ASSUME CacheInv, Tick PROVE CacheInv'
<1>1. /\ clock' = clock + 1 /\ clock' \in 0 .. MaxClock /\ clock \in 0 .. MaxClock
      /\ UNCHANGED <<writerVars, ask, phase, slots, held, record, outcome>>
  BY Numbers DEF Tick, CacheInv, TypeOK
<1>2. at' = at /\ Listed' = Listed
  BY <1>1 DEF writerVars, Listed
<1>3. \A s \in Slots : record[s] # Nothing => record[s] \in Record
  BY DEF CacheInv, TypeOK
<1>4. \A s \in Slots : Fresh(record[s])' => Fresh(record[s])
  BY <1>1, <1>3, Numbers DEF Fresh, Record
<1>5. /\ spent \subseteq spent' /\ spent' \subseteq Async
      /\ \A s \in Slots : Fresh(record[s]) => Fresh(record[s])' \/ record[s].result \in spent'
  <2> DEFINE out == {s \in Slots : Fresh(record[s]) /\ clock' - record[s].at >= TTL}
  <2>1. spent' = spent \cup {record[s].result : s \in out}
    BY DEF Tick
  <2>2. \A s \in out : record[s].result \in Async
    BY <1>3 DEF Fresh, Record
  <2>3. ASSUME NEW s \in Slots, Fresh(record[s]), s \notin out PROVE Fresh(record[s])'
    BY <1>1, <1>3, <2>3, Numbers DEF Fresh, Record
  <2> QED
    BY <2>1, <2>2, <2>3 DEF CacheInv, TypeOK
<1>6. TypeOK' /\ ListInv'
  BY <1>1, <1>2, <1>5 DEF CacheInv, TypeOK, ListInv, WriterTypeOK, writerVars
<1>7. ASSUME NEW q \in Async PROVE HeldInv(q)' /\ WritingInv(q)'
  <2>1. HeldInv(q) /\ WritingInv(q)
    BY DEF CacheInv
  <2>2. phase[q] = "writing" => held[q] \in Slots
    BY <2>1 DEF HeldInv, Flying, CacheInv, TypeOK
  <2>3. WritingInv(q)'
    BY <1>1, <1>4, <2>1, <2>2 DEF WritingInv
  <2> QED
    BY <1>1, <2>1, <2>3 DEF HeldInv
<1>8. ASSUME NEW q \in Async PROVE OutcomeInv(q)'
  <2>1. OutcomeInv(q)
    BY DEF CacheInv
  <2>2. \A k \in Listed : slots[k] \in Slots
    BY DEF CacheInv, TypeOK, Listed
  <2> QED
    BY <1>1, <1>2, <1>5, <2>1, <2>2 DEF OutcomeInv, Wrote
<1>9. ASSUME NEW j \in Keys PROVE RecordInv(j)'
  BY <1>1, <1>2 DEF CacheInv, RecordInv, Wrote
<1> QED
  BY <1>6, <1>7, <1>8, <1>9 DEF CacheInv

-----------------------------------------------------------------------------
LEMMA InitInv == Init => Inv
BY WriterInitInv, CacheInitInv DEF Init, Inv

LEMMA NextInv == Inv /\ [Next]_vars => Inv'
<1> SUFFICES ASSUME Inv, [Next]_vars PROVE Inv'
  OBVIOUS
<1> WriterInv /\ CacheInv
  BY DEF Inv
<1>1. ASSUME NEW r \in Async, NEW k \in Keys, NEW h \in Params, Request(r, k, h)
      PROVE  Inv'
  BY <1>1, RequestInv, WriterStays DEF Request, Inv
<1>2. ASSUME NEW r \in Async, RequestStep(r) PROVE Inv'
  <2>1. CASE Replay(r)
    BY <2>1, ReplayInv, WriterStays DEF Replay, Inv
  <2>2. CASE Write(r)
    <3>1. WriterInv'
      BY <2>2, TakeSenderInv DEF Write, Call, Callers
    <3> QED
      BY <2>2, <3>1, WriteInv DEF Inv, WriterInv
  <2>3. CASE Finish(r)
    BY <2>3, FinishInv, WriterStays DEF Finish, Inv
  <2> QED
    BY <1>2, <2>1, <2>2, <2>3 DEF RequestStep
<1>3. ASSUME NEW p \in Blocking, Supervise(p) PROVE Inv'
  <2>1. WriterInv' /\ Call(p) /\ p \in Callers /\ UNCHANGED idemVars
    BY <1>3, TakeSenderInv DEF Supervise, Call, Callers
  <2> QED
    BY <2>1, WriterMovesInv DEF Inv, WriterInv
<1>4. CASE InsideStep /\ UNCHANGED idemVars
  <2>1. WriterInv'
    BY <1>4, InsideInv
  <2> QED
    BY <1>4, <2>1, WriterMovesInv DEF Inv, WriterInv
<1>5. CASE Tick
  BY <1>5, TickInv, WriterStays DEF Tick, Inv
<1>6. CASE UNCHANGED vars
  <2>1. WriterInv' /\ UNCHANGED writerVars /\ UNCHANGED idemVars
    BY <1>6, WriterStays DEF vars
  <2> QED
    BY <2>1, WriterMovesInv DEF Inv, WriterInv
<1> QED
  BY <1>1, <1>2, <1>3, <1>4, <1>5, <1>6 DEF Next

LEMMA Invariance == Spec => []Inv
BY InitInv, NextInv, PTL DEF Spec

-----------------------------------------------------------------------------
\* Two requests that write have different slots, and so different keys.
LEMMA OneWriterEach == CacheInv => OneWriter
<1> SUFFICES ASSUME CacheInv, NEW r \in Async, NEW q \in Async,
                    phase[r] = "writing", phase[q] = "writing", r # q,
                    ask[r].key = ask[q].key
             PROVE  FALSE
  BY DEF OneWriter
<1>1. held[r] # NoSlot /\ held[q] # NoSlot
  BY DEF CacheInv, HeldInv, Flying
<1>2. held[r] = held[q]
  BY <1>1 DEF CacheInv, HeldInv
<1> QED
  BY <1>2 DEF CacheInv, WritingInv

\* Two results that can still be replayed would be one record.
LEMMA OneResultEach == CacheInv => NoSecondWrite
<1> SUFFICES ASSUME CacheInv, NEW r \in Async, NEW q \in Async, r # q,
                    outcome[r] # Nothing, outcome[r].how = "wrote",
                    outcome[q] # Nothing, outcome[q].how = "wrote",
                    ask[r].key = ask[q].key, r \notin spent, q \notin spent
             PROVE  FALSE
  BY DEF NoSecondWrite
<1>1. record[slots[ask[r].key]].result = r /\ record[slots[ask[q].key]].result = q
  BY DEF CacheInv, OutcomeInv
<1> QED
  BY <1>1

\* However requests with one key race, repeat, fail and fill the map: the key
\* is written once as long as the result can be replayed.
THEOREM KeysWriteOnce == Spec => []KeyWritesOnce
<1>1. Inv => KeyWritesOnce
  BY OneWriterEach, OneResultEach DEF Inv, CacheInv, KeyWritesOnce
<1> QED
  BY <1>1, Invariance, PTL

\* What a caller of the writer is told is what became of its job, a replay
\* is the result of the same request, and close leaves nothing running.
THEOREM AnswersAlwaysTrue == Spec => []AnswersAreTrue
<1>1. ASSUME Inv PROVE ReplayIsTrue
  <2> SUFFICES ASSUME NEW r \in Async, outcome[r] # Nothing, outcome[r].how = "replay"
               PROVE  reply[outcome[r].by] = "ok" /\ ask[outcome[r].by] = ask[r]
    BY DEF ReplayIsTrue
  <2>1. Wrote(outcome[r].by, ask[r].key) /\ ask[outcome[r].by] = ask[r]
    BY <1>1 DEF Inv, CacheInv, OutcomeInv
  <2> QED
    BY <1>1, <2>1 DEF Inv, WriterInv, CallInv, Wrote, Callers
<1>2. Inv => AnswersAreTrue
  BY <1>1, WriterIsTrue DEF Inv, AnswersAreTrue
<1> QED
  BY <1>2, Invariance, PTL

-----------------------------------------------------------------------------
(* Nobody is stuck.                                                        *)

\* While close has the only thread no async caller is in the middle of a try,
\* and a request is in the writer's hands exactly while it writes.
PaceInv ==
  /\ oneThread /\ closer = "joining" => \A p \in Async : at[p] # "holding"
  /\ \A r \in Async : /\ phase[r] \in {"new", "locking"} => at[r] = "out"
                      /\ phase[r] = "writing" => at[r] # "out"

\* A step inside the writer brings no async caller into a try behind close, and
\* none into a call or out of it.
LEMMA InsidePace ==
  ASSUME WriterInv, PaceInv, InsideStep, UNCHANGED phase
  PROVE  PaceInv'
<1>1. at \in [Callers -> Places] /\ Async \subseteq Callers
  BY DEF WriterInv, WriterTypeOK, Callers
<1>2. ASSUME NEW p \in Callers, NEW place \in Places \ {"out"}, at[p] # "out", Goes(p, place),
             UNCHANGED <<closer, oneThread>>, p \in Async /\ place = "holding" => Scheduled(p)
      PROVE  PaceInv'
  <2>1. \A q \in Callers : IF q = p THEN at'[q] = place ELSE at'[q] = at[q]
    BY <1>1, <1>2 DEF Goes
  <2>2. ASSUME oneThread', closer' = "joining", NEW q \in Async PROVE at'[q] # "holding"
    BY <1>1, <1>2, <2>1, <2>2 DEF PaceInv, Scheduled
  <2>3. ASSUME NEW r \in Async
        PROVE  /\ phase'[r] \in {"new", "locking"} => at'[r] = "out"
               /\ phase'[r] = "writing" => at'[r] # "out"
    BY <1>1, <1>2, <2>1 DEF PaceInv
  <2> QED BY <2>2, <2>3 DEF PaceInv
<1>3. ASSUME NEW p \in Callers, CallerStep(p) PROVE PaceInv'
  <2>1. CASE Send(p)
    BY <1>2, <2>1 DEF Send, Places
  <2>2. CASE Full(p)
    BY <1>2, <2>2 DEF Full, Places
  <2>3. CASE Wake(p)
    <3>1. (IF tx THEN "holding" ELSE "stopped") \in Places \ {"out"}
      BY DEF Places
    <3> QED BY <1>2, <2>3, <3>1 DEF Wake, TakeSender
  <2>4. CASE HearReply(p)
    <3>1. Answer(reply[p]) \in Places \ {"out", "holding"}
      BY <2>4 DEF HearReply, Answer, Places, WriterInv, WriterTypeOK
    <3> QED BY <1>2, <2>4, <3>1 DEF HearReply
  <2> QED BY <1>3, <2>1, <2>2, <2>3, <2>4 DEF CallerStep
<1>4. CASE ThreadStep \/ Join
  BY <1>4 DEF ThreadStep, TakeJob, EndJob, EndThread, Join, PaceInv
<1>5. CASE Close
  BY <1>5 DEF Close, PaceInv
<1> QED BY <1>3, <1>4, <1>5 DEF InsideStep

\* A call begins only where the runtime has a thread for it.
LEMMA CallPace ==
  ASSUME WriterInv, PaceInv, NEW p \in Callers, Call(p)
  PROVE  /\ oneThread' /\ closer' = "joining" => \A q \in Async : at'[q] # "holding"
         /\ at[p] = "out" /\ at'[p] # "out"
         /\ \A q \in Callers : q # p => at'[q] = at[q]
<1>1. at \in [Callers -> Places] /\ Async \subseteq Callers
  BY DEF WriterInv, WriterTypeOK, Callers
<1>2. /\ at[p] = "out" /\ Scheduled(p) /\ closer' = closer /\ oneThread' = oneThread
      /\ at' = [at EXCEPT ![p] = IF tx THEN "holding" ELSE "stopped"]
  BY DEF Call, TakeSender, Goes
<1> QED BY <1>1, <1>2 DEF PaceInv, Scheduled

LEMMA PaceStep == Inv /\ PaceInv /\ [Next]_vars => PaceInv'
<1> SUFFICES ASSUME WriterInv, CacheInv, PaceInv, [Next]_vars PROVE PaceInv'
  BY DEF Inv
<1>1. phase \in [Async -> {"new", "locking", "writing", "done"}]
  BY DEF CacheInv, TypeOK
<1>2. ASSUME NEW r \in Async, UNCHANGED writerVars,
             \A q \in Async : phase'[q] = phase[q] \/ phase'[q] = "done"
                                \/ (phase[q] = "new" /\ phase'[q] = "locking")
      PROVE  PaceInv'
  BY <1>2 DEF PaceInv, writerVars
<1>3. ASSUME NEW r \in Async, NEW k \in Keys, NEW h \in Params, Request(r, k, h)
      PROVE  PaceInv'
  <2>1. phase[r] = "new" /\ UNCHANGED writerVars
    BY <1>3 DEF Request, Comes
  <2>2. \/ phase' = [phase EXCEPT ![r] = "locking"]
        \/ phase' = [phase EXCEPT ![r] = "done"]
    BY <1>3 DEF Request, Slot, Takes, Done
  <2> QED BY <1>1, <1>2, <2>1, <2>2
<1>4. ASSUME NEW r \in Async, Replay(r) \/ Finish(r) PROVE PaceInv'
  <2>1. UNCHANGED writerVars /\ phase' = [phase EXCEPT ![r] = "done"]
    BY <1>4 DEF Replay, Finish, Done
  <2> QED BY <1>1, <1>2, <2>1
<1>5. ASSUME NEW r \in Async, Write(r) PROVE PaceInv'
  <2>1. Call(r) /\ r \in Callers /\ phase' = [phase EXCEPT ![r] = "writing"]
    BY <1>5 DEF Write, Callers
  <2> QED BY <1>1, <2>1, CallPace DEF PaceInv, Callers
<1>6. ASSUME NEW p \in Blocking, Supervise(p) PROVE PaceInv'
  <2>1. Call(p) /\ p \in Callers /\ p \notin Async /\ phase' = phase
    BY <1>6, CallersApart DEF Supervise, Callers, idemVars
  <2> QED BY <2>1, CallPace DEF PaceInv, Callers
<1>7. CASE InsideStep /\ UNCHANGED idemVars
  BY <1>7, InsidePace DEF idemVars
<1>8. CASE Tick \/ UNCHANGED vars
  BY <1>8 DEF Tick, vars, idemVars, writerVars, PaceInv
<1> QED BY <1>3, <1>4, <1>5, <1>6, <1>7, <1>8 DEF Next, RequestStep

\* With work in the queue or under way the thread can go on.
LEMMA WorkGoesOn ==
  ASSUME WriterInv, running # NoJob \/ queue # <<>>
  PROVE  ThreadMay
BY DEF WriterInv, CloseInv, ThreadMay

\* A caller inside its call can go on, or the thread can.
LEMMA CallerGoesOn ==
  ASSUME WriterInv, closer # "joining", NEW p \in Callers,
         at[p] \in {"holding", "sleeping", "waiting"}
  PROVE  ThreadMay \/ CallerMay(p)
<1>1. Scheduled(p)
  BY DEF Scheduled
<1>2. CASE at[p] = "sleeping"
  BY <1>1, <1>2 DEF CallerMay
<1>3. CASE at[p] = "waiting"
  <2>1. CASE reply[p] # "none"
    BY <1>1, <1>3, <2>1 DEF CallerMay
  <2>2. CASE reply[p] = "none"
    <3>1. running = p \/ \E i \in DOMAIN queue : queue[i] = p
      BY <1>3, <2>2 DEF WriterInv, CallInv
    <3>2. running # NoJob \/ queue # <<>>
      BY <3>1, NoJobIsNoCaller
    <3> QED BY <3>2, WorkGoesOn
  <2> QED BY <2>1, <2>2
<1>4. CASE at[p] = "holding"
  <2>1. CASE Len(queue) < Capacity
    BY <1>1, <1>4, <2>1 DEF CallerMay
  <2>2. CASE ~(Len(queue) < Capacity)
    <3>1. queue # <<>>
      BY <2>2, CapacityIsPositive
    <3> QED BY <3>1, WorkGoesOn
  <2> QED BY <2>1, <2>2
<1> QED BY <1>2, <1>3, <1>4

\* While close joins the thread it ends, or the thread can go on, or the caller
\* whose sender keeps the thread can.
LEMMA CloseGoesOn ==
  ASSUME WriterInv, PaceInv, closer = "joining", ~ended
  PROVE  ThreadMay \/ \E p \in Callers : CallerMay(p)
<1>1. CASE running # NoJob \/ queue # <<>>
  BY <1>1, WorkGoesOn
<1>2. CASE running = NoJob /\ queue = <<>>
  <2>1. ~tx
    BY DEF WriterInv, CloseInv
  <2>2. CASE Senders = {}
    BY <2>1, <2>2 DEF ThreadMay
  <2>3. CASE Senders # {}
    <3>1. PICK p \in Callers : at[p] = "holding"
      BY <2>3 DEF Senders
    <3>2. Scheduled(p)
      BY <3>1 DEF PaceInv, Scheduled
    <3>3. Len(queue) < Capacity
      BY <1>2, CapacityIsPositive
    <3> QED BY <3>1, <3>2, <3>3 DEF CallerMay
  <2> QED BY <2>2, <2>3
<1> QED BY <1>1, <1>2

\* No requests at a slot's lock, callers at the full queue, thread and close
\* ever wait for each other in a ring.
THEOREM NobodyIsEverStuck == Spec => []NobodyIsStuck
<1>1. Init => PaceInv
  BY DEF Init, WriterInit, PaceInv, Callers
<1>2. ASSUME Inv, PaceInv PROVE NobodyIsStuck
  <2>1. WriterInv /\ CacheInv /\ at \in [Callers -> Places] /\ Async \subseteq Callers
    BY <1>2 DEF Inv, WriterInv, WriterTypeOK, Callers
  <2>2. CASE closer = "joining"
    BY <1>2, <2>1, <2>2, CloseGoesOn DEF NobodyIsStuck
  <2>3. CASE closer # "joining"
    <3>1. ASSUME NEW p \in Callers, at[p] \in {"holding", "sleeping", "waiting"}
          PROVE  NobodyIsStuck
      BY <2>1, <2>3, <3>1, CallerGoesOn DEF NobodyIsStuck
    <3>2. ASSUME NEW r \in Async, phase[r] = "writing" PROVE NobodyIsStuck
      <4>1. at[r] \in {"holding", "sleeping", "waiting"} \/ at[r] \in Answers
        BY <1>2, <2>1, <3>2 DEF PaceInv, Places, Answers
      <4>2. CASE at[r] \in Answers
        BY <2>3, <3>2, <4>2 DEF NobodyIsStuck, RequestMay, Scheduled
      <4> QED BY <2>1, <3>1, <4>1, <4>2
    <3>3. ASSUME NEW r \in Async, phase[r] = "locking" PROVE NobodyIsStuck
      <4>1. CASE Locked(held[r])
        BY <3>2, <4>1 DEF Locked
      <4>2. CASE ~Locked(held[r])
        BY <1>2, <2>3, <3>3, <4>2 DEF NobodyIsStuck, RequestMay, Scheduled, PaceInv
      <4> QED BY <4>1, <4>2
    <3>4. CASE /\ \A p \in Callers : at[p] \notin {"holding", "sleeping", "waiting"}
               /\ \A r \in Async : phase[r] \notin {"writing", "locking"}
      <4>1. \A r \in Async : phase[r] \in {"new", "done"}
        BY <2>1, <3>4 DEF CacheInv, TypeOK
      <4>2. \A p \in Callers : at[p] \in {"out"} \cup Answers
        BY <2>1, <3>4 DEF Places, Answers
      <4>3. closer \in {"idle", "closed"}
        BY <2>1, <2>3 DEF WriterInv, WriterTypeOK
      <4> QED BY <4>1, <4>2, <4>3 DEF NobodyIsStuck, Settled
    <3> QED BY <3>1, <3>2, <3>3, <3>4
  <2> QED BY <2>2, <2>3
<1> QED
  BY <1>1, <1>2, PaceStep, Invariance, PTL DEF Spec

\* Callers are told what became of what they asked, and nothing keeps them
\* from being told.
THEOREM CallsAlwaysTrue == Spec => []CallsAreTrue
BY AnswersAlwaysTrue, NobodyIsEverStuck, PTL DEF CallsAreTrue

-----------------------------------------------------------------------------
\* The cache uses the writer as its callers may: each of its steps is a step
\* of the writer or leaves it alone.
THEOREM WriterIsKept == Spec => WriterSpec
<1>1. Init => WriterInit
  BY DEF Init
<1>2. [Next]_vars => [WriterNext]_writerVars
  BY DEF Next, vars, Request, RequestStep, Replay, Write, Finish, Supervise, Tick,
         WriterNext, Callers
<1> QED
  BY <1>1, <1>2, PTL DEF Spec, WriterSpec

\* The writer by itself, whoever calls it: what a caller is told is what
\* became of its job, and close leaves nothing running.
THEOREM WriterIsAlwaysTrue == WriterSpec => [](AnswerIsTrue /\ ClosedIsQuiet)
<1>1. WriterInv /\ [WriterNext]_writerVars => WriterInv'
  <2> SUFFICES ASSUME WriterInv, [WriterNext]_writerVars PROVE WriterInv'
    OBVIOUS
  <2>1. ASSUME NEW p \in Callers, Call(p) PROVE WriterInv'
    BY <2>1, TakeSenderInv DEF Call
  <2> QED
    BY <2>1, InsideInv, WriterStays DEF WriterNext
<1>2. WriterInv => AnswerIsTrue /\ ClosedIsQuiet
  BY WriterIsTrue
<1> QED
  BY <1>1, <1>2, WriterInitInv, PTL DEF WriterSpec
================================================================================
