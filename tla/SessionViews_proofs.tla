------------------------ MODULE SessionViews_proofs -------------------------
(* Proofs about the session views, for every number of clients and         *)
(* sessions and logs of any length.  What holds of the event log alone     *)
(* comes from EventLog_proofs, for the events and wishes of session views. *)
EXTENDS SessionViews, FiniteSetTheorems, SequenceTheorems, TLAPS

Proved == INSTANCE EventLog_proofs

-----------------------------------------------------------------------------
(* The log of EventLog_proofs is the log of SessionViews.                  *)

\* What EventLog assumes of its constants.
LEMMA LogAssumed ==
  /\ ViewEvents \subseteq Events
  /\ Wanted \in [Clients -> SUBSET Events]
  /\ Keep \in Nat /\ Batch \in Nat \ {0} /\ WriteQueue \in Nat
  /\ MaxSeq \in Nat /\ MaxWrite \in Nat /\ MaxEpoch \in Nat
BY SessionViewsAssumption DEF Events, SessionEvents, Wanted

LEMMA SameTable ==
  /\ \A ev : Log!Newest(ev) = Proved!Newest(ev)
  /\ \A ev, new : Log!Appended(ev, new) = Proved!Appended(ev, new)
  /\ \A ev, dead : Log!Compacted(ev, dead) = Proved!Compacted(ev, dead)
  /\ \A ev, old : Log!Prunable(ev, old) = Proved!Prunable(ev, old)
  /\ \A ev, after : Log!Expired(ev, after) <=> Proved!Expired(ev, after)
<1>1. \A ev : Log!Newest(ev) = Proved!Newest(ev)
  BY DEF Log!Newest, Proved!Newest
<1> QED
  BY <1>1
  DEF Log!Appended, Proved!Appended, Log!Compacted, Proved!Compacted, Log!Prunable,
      Proved!Prunable, Log!Expired, Proved!Expired

LEMMA SameConstants ==
  /\ Log!Off = Proved!Off /\ Log!NoCursor = Proved!NoCursor
  /\ Log!Row = Proved!Row /\ Log!Stream = Proved!Stream
  /\ Log!ClientState = Proved!ClientState
  /\ Log!TypeOK <=> Proved!TypeOK
BY DEF Log!Off, Proved!Off, Log!NoCursor, Proved!NoCursor, Log!Row, Proved!Row, Log!Stream,
       Proved!Stream, Log!ClientState, Proved!ClientState, Log!TypeOK, Proved!TypeOK

LEMMA SameWrite ==
  ASSUME NEW new, NEW dead
  PROVE  Log!Write(new, dead) <=> Proved!Write(new, dead)
BY SameTable DEF Log!Write, Proved!Write

LEMMA SameWriter ==
  ASSUME NEW old
  PROVE  /\ Log!Publish <=> Proved!Publish
         /\ Log!Prune(old) <=> Proved!Prune(old)
         /\ Log!Restart(old) <=> Proved!Restart(old)
         /\ Log!Recreate <=> Proved!Recreate
BY SameTable, SameConstants
   DEF Log!Publish, Proved!Publish, Log!Prune, Proved!Prune, Log!Restart, Proved!Restart,
       Log!Recreate, Proved!Recreate

LEMMA SameCursor ==
  ASSUME NEW c, NEW at, NEW r
  PROVE  /\ Log!Snapshot(c, at) <=> Proved!Snapshot(c, at)
         /\ Log!Subscribe(c) <=> Proved!Subscribe(c)
         /\ Log!Refused(c) <=> Proved!Refused(c)
         /\ Log!Ended(c) <=> Proved!Ended(c)
         /\ Log!Drop(c) <=> Proved!Drop(c)
         /\ Log!Deliver(c, r) <=> Proved!Deliver(c, r)
<1>1. Log!CursorOk(c) <=> Proved!CursorOk(c)
  <2>1. Log!Expired(events, client[c].seq) <=> Proved!Expired(events, client[c].seq)
    BY SameTable
  <2> QED BY <2>1 DEF Log!CursorOk, Proved!CursorOk
<1>2. Log!Snapshot(c, at) <=> Proved!Snapshot(c, at)
  BY SameTable DEF Log!Snapshot, Proved!Snapshot
<1>3. Log!Subscribe(c) <=> Proved!Subscribe(c)
  BY <1>1, SameConstants DEF Log!Subscribe, Proved!Subscribe
<1>4. Log!Refused(c) <=> Proved!Refused(c)
  BY <1>1, SameConstants DEF Log!Refused, Proved!Refused
<1>5. /\ Log!Ended(c) <=> Proved!Ended(c)
      /\ Log!Drop(c) <=> Proved!Drop(c)
  BY SameConstants DEF Log!Ended, Proved!Ended, Log!Drop, Proved!Drop
<1>6. Log!Deliver(c, r) <=> Proved!Deliver(c, r)
  BY DEF Log!Deliver, Proved!Deliver
<1> QED BY <1>2, <1>3, <1>4, <1>5, <1>6

LEMMA SameStream ==
  ASSUME NEW c
  PROVE  /\ Log!ReadRows(c) <=> Proved!ReadRows(c)
         /\ Log!ReadNothing(c) <=> Proved!ReadNothing(c)
         /\ Log!Park(c) <=> Proved!Park(c)
         /\ Log!ReadExpired(c) <=> Proved!ReadExpired(c)
         /\ Log!Wake(c) <=> Proved!Wake(c)
<1>0. \A S : Log!Cardinality(S) = Proved!Cardinality(S)
  BY DEF Log!Cardinality, Proved!Cardinality
<1>1. Log!Expired(events, sub[c].after) <=> Proved!Expired(events, sub[c].after)
  BY SameTable
<1>2. Log!MayRead(c) <=> Proved!MayRead(c)
  BY <1>0 DEF Log!MayRead, Proved!MayRead
<1>3. \A last : Log!Between(events, sub[c].after, last)
                  = Proved!Between(events, sub[c].after, last)
  BY DEF Log!Between, Proved!Between
<1>4. Log!ReadRows(c) <=> Proved!ReadRows(c)
  <2>1. ASSUME NEW last \in events
        PROVE  (LET batch == Log!Between(events, sub[c].after, last.seq)
                IN  /\ last \in batch
                    /\ \/ Log!Cardinality(batch) = Batch
                       \/ /\ Log!Cardinality(batch) < Batch
                          /\ \A r \in events : r.seq <= last.seq
                    /\ sub' = [sub EXCEPT
                                 ![c].after = last.seq,
                                 ![c].wire = sub[c].wire \cup
                                             {r \in batch : r.event \in Wanted[c]}])
          <=> (LET batch == Proved!Between(events, sub[c].after, last.seq)
                IN  /\ last \in batch
                    /\ \/ Proved!Cardinality(batch) = Batch
                       \/ /\ Proved!Cardinality(batch) < Batch
                          /\ \A r \in events : r.seq <= last.seq
                    /\ sub' = [sub EXCEPT
                                 ![c].after = last.seq,
                                 ![c].wire = sub[c].wire \cup
                                             {r \in batch : r.event \in Wanted[c]}])
    BY <1>0, <1>3
  <2> QED BY <1>1, <1>2, <2>1 DEF Log!ReadRows, Proved!ReadRows
<1>5. Log!ReadNothing(c) <=> Proved!ReadNothing(c)
  BY <1>1, <1>2 DEF Log!ReadNothing, Proved!ReadNothing
<1>6. Log!ReadExpired(c) <=> Proved!ReadExpired(c)
  BY <1>1, <1>2 DEF Log!ReadExpired, Proved!ReadExpired
<1>7. /\ Log!Park(c) <=> Proved!Park(c)
      /\ Log!Wake(c) <=> Proved!Wake(c)
  BY DEF Log!Park, Proved!Park, Log!Wake, Proved!Wake
<1> QED BY <1>4, <1>5, <1>6, <1>7
-----------------------------------------------------------------------------
(* What a tick writes.                                                     *)

\* SetToSeq lists each element of a finite set once.
LEMMA SetInSequence ==
  ASSUME NEW S, IsFiniteSet(S)
  PROVE  /\ Cardinality(S) \in Nat
         /\ SetToSeq(S) \in [1 .. Cardinality(S) -> S]
         /\ \A i, j \in 1 .. Cardinality(S) : SetToSeq(S)[i] = SetToSeq(S)[j] => i = j
         /\ \A s \in S : \E i \in 1 .. Cardinality(S) : SetToSeq(S)[i] = s
<1> DEFINE n == Cardinality(S)
           f == SetToSeq(S)
<1>1. n \in Nat /\ ExistsBijection(1 .. n, S)
  BY FS_CardinalityType
<1>2. \E g \in [1 .. n -> S] : IsInjective(g)
  BY <1>1 DEF ExistsBijection, Bijection, Injection
<1>3. f \in [1 .. n -> S] /\ IsInjective(f)
  BY <1>2 DEF SetToSeq
<1>4. f \in Injection(1 .. n, S)
  BY <1>3 DEF Injection
<1>5. Cardinality(1 .. n) = n
  BY <1>1, FS_Interval
<1>6. f \in Surjection(1 .. n, S)
  BY <1>4, <1>5, FS_Injection
<1>7. \A s \in S : \E i \in 1 .. n : f[i] = s
  BY <1>6 DEF Surjection
<1> QED BY <1>1, <1>3, <1>7 DEF IsInjective

\* A view and an end are about their session.
LEMMA EventKey ==
  \A k, v : View(k, v).key = k /\ View(k, v).ver = v /\ Gone(k).key = k /\ Gone(k).ver = 0
BY DEF View, Gone

\* Views, ends and other events are apart, and say what they are about.
LEMMA SessionEvent ==
  /\ ViewEvents \subseteq SessionEvents /\ SessionEvents \subseteq Events
  /\ Other \in Events /\ Other \notin SessionEvents
  /\ \A k \in Keys : Gone(k) \in SessionEvents /\ Gone(k) \notin ViewEvents
  /\ \A k \in Keys, v \in Vers : View(k, v) \in ViewEvents
  /\ \A e \in ViewEvents :
       /\ e = View(e.key, e.ver) /\ e.key \in Keys /\ e.ver \in Vers /\ e.ver # 0
  /\ \A e \in SessionEvents : e \in ViewEvents \/ (e.key \in Keys /\ e = Gone(e.key))
<1>1. \A k, v : /\ View(k, v).key = k /\ View(k, v).ver = v
                /\ View(k, v).topic = "session.view"
                /\ Gone(k).key = k /\ Gone(k).ver = 0 /\ Gone(k).topic = "session.gone"
  BY DEF View, Gone
<1>2. Other.topic = "other"
  BY DEF Other
<1>3. \A e \in ViewEvents : \E k \in Keys, v \in Vers : e = View(k, v)
  BY DEF ViewEvents
<1>4. \A e \in ViewEvents :
        /\ e = View(e.key, e.ver) /\ e.key \in Keys /\ e.ver \in Vers
        /\ e.topic = "session.view"
  BY <1>1, <1>3
<1>5. \A k \in Keys, v \in Vers : View(k, v) \in ViewEvents
  BY DEF ViewEvents
<1>6. \A e \in SessionEvents : e \in ViewEvents \/ \E k \in Keys : e = Gone(k)
  BY DEF SessionEvents
<1>7. \A e \in SessionEvents : e \in ViewEvents \/ (e.key \in Keys /\ e = Gone(e.key))
  BY <1>1, <1>6
<1>8. /\ ViewEvents \subseteq SessionEvents /\ SessionEvents \subseteq Events
      /\ Other \in Events /\ \A k \in Keys : Gone(k) \in SessionEvents
  BY DEF SessionEvents, Events
<1>9. "other" # "session.view" /\ "other" # "session.gone" /\ "session.gone" # "session.view"
  OBVIOUS
<1>10. Other \notin SessionEvents
  BY <1>1, <1>2, <1>4, <1>6, <1>9
<1>11. \A k \in Keys : Gone(k) \notin ViewEvents
  BY <1>1, <1>4, <1>9
<1>12. \A e \in ViewEvents : e.ver # 0
  BY <1>4, SessionViewsAssumption
<1> QED BY <1>1, <1>4, <1>5, <1>7, <1>8, <1>10, <1>11, <1>12

\* The events `new` of a tick that found the sessions now: one for each
\* change, in some order, and maybe the diagnostics.
TickWrites(now, new) ==
  \E n \in 0 .. MaxWrite :
    /\ new \in [1 .. n -> Events] /\ new \in Seq(Events) /\ Len(new) = n
    /\ \A i \in 1 .. n :
         \/ new[i] = Other
         \/ \E k \in Changed(now) : new[i] = View(k, now[k])
         \/ \E k \in Ended(now) : new[i] = Gone(k)
    /\ \A k \in Changed(now) : \E i \in 1 .. n : new[i] = View(k, now[k])
    /\ \A k \in Ended(now) : \E i \in 1 .. n : new[i] = Gone(k)
    /\ \A i, j \in 1 .. n : new[i] = new[j] /\ new[i] # Other => i = j
    /\ n = 0 => Changed(now) = {} /\ Ended(now) = {} /\ views.ready

\* TickEvents and DiagEvents write just that.
LEMMA TickNew ==
  ASSUME NEW now \in Sessions, NEW new, new = TickEvents(now) \o DiagEvents
  PROVE  TickWrites(now, new)
<1> DEFINE C == Changed(now)
           E == Ended(now)
           c == Cardinality(C)
           e == Cardinality(E)
           cs == SetToSeq(C)
           es == SetToSeq(E)
<1>1. C \in SUBSET Keys /\ E \in SUBSET Keys /\ C \cap E = {}
  BY DEF Changed, Ended
<1>2. IsFiniteSet(Keys) /\ IsFiniteSet(C) /\ IsFiniteSet(E)
  BY <1>1, SessionViewsAssumption, FS_Subset
<1>3. /\ c \in Nat /\ e \in Nat /\ c + e <= Cardinality(Keys) /\ Cardinality(Keys) \in Nat
  <2>1. IsFiniteSet(C \cup E) /\ Cardinality(C \cup E) <= Cardinality(Keys)
    BY <1>1, <1>2, FS_Subset
  <2>2. Cardinality(C \cup E) = c + e - Cardinality(C \cap E)
    BY <1>2, FS_Union
  <2>3. Cardinality(C \cap E) = 0
    BY <1>1, FS_EmptySet
  <2>4. c \in Nat /\ e \in Nat /\ Cardinality(Keys) \in Nat
    BY <1>2, FS_CardinalityType
  <2> HIDE DEF c, e
  <2> QED BY <2>1, <2>2, <2>3, <2>4
<1>4. /\ cs \in [1 .. c -> C] /\ \A k \in C : \E i \in 1 .. c : cs[i] = k
      /\ \A i, j \in 1 .. c : cs[i] = cs[j] => i = j
  BY <1>2, SetInSequence
<1>5. /\ es \in [1 .. e -> E] /\ \A k \in E : \E i \in 1 .. e : es[i] = k
      /\ \A i, j \in 1 .. e : es[i] = es[j] => i = j
  BY <1>2, SetInSequence
<1>6. \A k \in C : now[k] \in Vers
  BY DEF Changed, Sessions
<1> HIDE DEF C, E, c, e, cs, es
<1> DEFINE vs == [i \in DOMAIN cs |-> View(cs[i], now[cs[i]])]
           gs == [i \in DOMAIN es |-> Gone(es[i])]
           d  == DiagEvents
<1>7. vs \in Seq(Events) /\ Len(vs) = c /\ \A i \in 1 .. c : vs[i] = View(cs[i], now[cs[i]])
  <2>1. vs \in [1 .. c -> Events] /\ \A i \in 1 .. c : vs[i] = View(cs[i], now[cs[i]])
    BY <1>1, <1>4, <1>6 DEF Events, SessionEvents, ViewEvents
  <2> HIDE DEF vs
  <2> QED BY <2>1, <1>3
<1>8. gs \in Seq(Events) /\ Len(gs) = e /\ \A i \in 1 .. e : gs[i] = Gone(es[i])
  <2>1. gs \in [1 .. e -> Events] /\ \A i \in 1 .. e : gs[i] = Gone(es[i])
    BY <1>1, <1>5 DEF Events, SessionEvents
  <2> HIDE DEF gs
  <2> QED BY <2>1, <1>3
<1>9. /\ d \in Seq(Events) /\ Len(d) \in {0, 1} /\ \A i \in 1 .. Len(d) : d[i] = Other
      /\ ~views.ready => Len(d) = 1
  <2>1. Other \in Events
    BY DEF Events
  <2> QED BY <2>1 DEF DiagEvents
<1>10. new = (vs \o gs) \o d
  BY DEF TickEvents, C, E, cs, es
<1> HIDE DEF vs, gs, d
<1> DEFINE n == c + e + Len(d)
<1>11. /\ new \in Seq(Events) /\ Len(new) = n /\ new \in [1 .. n -> Events]
       /\ \A i \in 1 .. c : new[i] = vs[i]
       /\ \A i \in 1 .. e : new[c + i] = gs[i]
       /\ \A i \in 1 .. Len(d) : new[c + e + i] = d[i]
  <2>1. /\ vs \o gs \in Seq(Events) /\ Len(vs \o gs) = c + e
        /\ \A i \in 1 .. c + e : (vs \o gs)[i] = IF i <= c THEN vs[i] ELSE gs[i - c]
    BY <1>7, <1>8, ConcatProperties
  <2>2. /\ new \in Seq(Events) /\ Len(new) = c + e + Len(d)
        /\ \A i \in 1 .. c + e + Len(d) :
             new[i] = IF i <= c + e THEN (vs \o gs)[i] ELSE d[i - (c + e)]
    BY <1>9, <1>10, <2>1, ConcatProperties
  <2>3. Len(d) \in Nat
    BY <1>9
  <2>4. ASSUME NEW i \in 1 .. c PROVE new[i] = vs[i]
    <3>1. i \in 1 .. c + e + Len(d) /\ i \in 1 .. c + e /\ i <= c + e /\ i <= c
      BY <1>3, <2>3
    <3> QED BY <3>1, <2>1, <2>2
  <2>5. ASSUME NEW i \in 1 .. e PROVE new[c + i] = gs[i]
    <3>1. /\ c + i \in 1 .. c + e + Len(d) /\ c + i \in 1 .. c + e /\ c + i <= c + e
          /\ ~(c + i <= c) /\ (c + i) - c = i
      BY <1>3, <2>3
    <3> QED BY <3>1, <2>1, <2>2
  <2>6. ASSUME NEW i \in 1 .. Len(d) PROVE new[c + e + i] = d[i]
    <3>1. /\ c + e + i \in 1 .. c + e + Len(d) /\ ~(c + e + i <= c + e)
          /\ (c + e + i) - (c + e) = i
      BY <1>3, <2>3
    <3> QED BY <3>1, <2>1, <2>2
  <2>7. new \in [1 .. n -> Events]
    BY <2>2, LenProperties
  <2> QED BY <2>2, <2>4, <2>5, <2>6, <2>7
<1>12. n \in 0 .. MaxWrite /\ (n = 0 => c = 0 /\ e = 0 /\ views.ready)
  <2>1. MaxWrite \in Nat /\ Cardinality(Keys) < MaxWrite
    BY SessionViewsAssumption
  <2>2. CASE Len(d) = 0
    BY <1>3, <1>9, <2>1, <2>2
  <2>3. CASE Len(d) = 1
    BY <1>3, <1>9, <2>1, <2>3
  <2> QED BY <1>9, <2>2, <2>3
<1>13. \A i \in 1 .. n : \/ i \in 1 .. c
                         \/ \E j \in 1 .. e : i = c + j
                         \/ \E j \in 1 .. Len(d) : i = c + e + j
  <2>1. ASSUME NEW i \in 1 .. n, i \notin 1 .. c, i <= c + e
        PROVE  \E j \in 1 .. e : i = c + j
    <3>1. i - c \in 1 .. e /\ i = c + (i - c)
      BY <1>3, <1>9, <2>1
    <3> QED BY <3>1
  <2>2. ASSUME NEW i \in 1 .. n, ~(i <= c + e)
        PROVE  \E j \in 1 .. Len(d) : i = c + e + j
    <3>1. i - (c + e) \in 1 .. Len(d) /\ i = c + e + (i - (c + e))
      BY <1>3, <1>9, <2>2
    <3> QED BY <3>1
  <2> QED BY <2>1, <2>2
<1>14. /\ \A i \in 1 .. c : i \in 1 .. n /\ new[i] = View(cs[i], now[cs[i]]) /\ cs[i] \in C
       /\ \A j \in 1 .. e : c + j \in 1 .. n /\ new[c + j] = Gone(es[j]) /\ es[j] \in E
       /\ \A j \in 1 .. Len(d) : new[c + e + j] = Other
  <2>1. ASSUME NEW i \in 1 .. c
        PROVE  i \in 1 .. n /\ new[i] = View(cs[i], now[cs[i]]) /\ cs[i] \in C
    <3>1. i \in 1 .. n
      BY <1>3, <1>9
    <3> QED BY <3>1, <1>4, <1>7, <1>11
  <2>2. ASSUME NEW j \in 1 .. e
        PROVE  c + j \in 1 .. n /\ new[c + j] = Gone(es[j]) /\ es[j] \in E
    <3>1. c + j \in 1 .. n
      BY <1>3, <1>9
    <3> QED BY <3>1, <1>5, <1>8, <1>11
  <2> QED BY <2>1, <2>2, <1>9, <1>11
<1> HIDE DEF n
<1>15. \A i \in 1 .. n : \/ new[i] = Other
                         \/ \E k \in C : new[i] = View(k, now[k])
                         \/ \E k \in E : new[i] = Gone(k)
  BY <1>13, <1>14
<1>16. /\ \A k \in C : \E i \in 1 .. n : new[i] = View(k, now[k])
       /\ \A k \in E : \E i \in 1 .. n : new[i] = Gone(k)
  <2>1. ASSUME NEW k \in C PROVE \E i \in 1 .. n : new[i] = View(k, now[k])
    <3>1. PICK i \in 1 .. c : cs[i] = k
      BY <1>4
    <3> QED BY <3>1, <1>14
  <2>2. ASSUME NEW k \in E PROVE \E i \in 1 .. n : new[i] = Gone(k)
    <3>1. PICK i \in 1 .. e : es[i] = k
      BY <1>5
    <3> QED BY <3>1, <1>14
  <2> QED BY <2>1, <2>2
<1>17. \A i, j \in 1 .. n : new[i] = new[j] /\ new[i] # Other => i = j
  <2> SUFFICES ASSUME NEW i \in 1 .. n, NEW j \in 1 .. n, new[i] = new[j], new[i] # Other
               PROVE  i = j
    OBVIOUS
  <2>0. ASSUME NEW x \in 1 .. c, NEW y \in 1 .. e PROVE new[x] # new[c + y]
    <3>1. cs[x] \in Keys /\ now[cs[x]] \in Vers /\ es[y] \in Keys
      BY <1>1, <1>6, <1>14
    <3>2. View(cs[x], now[cs[x]]) \in ViewEvents /\ Gone(es[y]) \notin ViewEvents
      BY <3>1, SessionEvent
    <3> QED BY <3>2, <1>14
  <2>1. CASE i \in 1 .. c /\ j \in 1 .. c
    <3>1. View(cs[i], now[cs[i]]) = View(cs[j], now[cs[j]])
      BY <1>14, <2>1
    <3>2. cs[i] = cs[j]
      BY <3>1, EventKey
    <3> QED BY <1>4, <2>1, <3>2
  <2>2. CASE i \in 1 .. c /\ \E y \in 1 .. e : j = c + y
    BY <2>0, <2>2
  <2>3. CASE j \in 1 .. c /\ \E y \in 1 .. e : i = c + y
    BY <2>0, <2>3
  <2>4. CASE \E x, y \in 1 .. e : i = c + x /\ j = c + y
    <3>1. PICK x \in 1 .. e, y \in 1 .. e : i = c + x /\ j = c + y
      BY <2>4
    <3>2. Gone(es[x]) = Gone(es[y])
      BY <1>14, <3>1
    <3>3. es[x] = es[y]
      BY <3>2, EventKey
    <3> QED BY <1>5, <3>1, <3>3
  <2>5. (\E y \in 1 .. Len(d) : i = c + e + y) => FALSE
    BY <1>14
  <2>6. (\E y \in 1 .. Len(d) : j = c + e + y) => FALSE
    BY <1>14
  <2> QED BY <1>13, <2>1, <2>2, <2>3, <2>4, <2>5, <2>6
<1>18. n = 0 => C = {} /\ E = {}
  BY <1>16
<1> QED BY <1>11, <1>12, <1>15, <1>16, <1>17, <1>18 DEF C, E, n, TickWrites
-----------------------------------------------------------------------------
(* The inductive invariant.                                                *)

Top == Log!Newest(events)

\* What the proofs below need of the log, from the invariant of
\* EventLog_proofs.
StreamOK(c) ==
  /\ client[c].epoch \in Nat /\ client[c].seq \in Nat /\ client[c].from \in Nat
  /\ sub[c].after \in Nat
  /\ client[c].epoch <= epoch
  /\ client[c].epoch = epoch => client[c].seq <= Top
  /\ sub[c].wire \subseteq log
  /\ sub[c].state = "off" => sub[c].wire = {}
  /\ sub[c].state # "off" =>
       /\ client[c].epoch = epoch
       /\ client[c].seq <= sub[c].after /\ sub[c].after <= Top
       /\ \A w \in sub[c].wire : client[c].seq < w.seq /\ w.seq <= sub[c].after
       /\ \A r \in log : /\ client[c].seq < r.seq /\ r.seq <= sub[c].after
                         /\ r.event \in SessionEvents \ ViewEvents
                         => r \in sub[c].wire

LogOK ==
  /\ Top \in Nat /\ head \in Nat /\ unsent \in Nat /\ epoch \in Nat \ {0}
  /\ sub \in [Clients -> Log!Stream] /\ client \in [Clients -> Log!ClientState]
  /\ events \subseteq log
  /\ \A r \in log : /\ r.seq \in Nat \ {0} /\ r.seq <= Top
                    /\ r = [seq |-> r.seq, event |-> r.event]
  /\ \A a, b \in log : a.seq = b.seq => a = b
  /\ \A c \in Clients : StreamOK(c)

\* The views that the log tells of: the tick's once they are written.
CurVer == IF tick.at = "written" THEN tick.ver ELSE views.ver
CurSeq == IF tick.at = "written" THEN tick.seq ELSE views.seq
CurRow(k) == [seq |-> CurSeq[k], event |-> View(k, CurVer[k])]

\* A row about session k.
Tells(r, k) == r.event \in SessionEvents /\ r.event.key = k

\* The log's last word on session k is that it ended, after q.
GoneAfter(k, q) ==
  \E g \in log : /\ g.event = Gone(k) /\ q < g.seq
                 /\ \A r \in log : Tells(r, k) => r.seq <= g.seq

Typed ==
  /\ world \in Sessions /\ views \in Committed /\ tick \in Tick
  /\ asked \subseteq Clients /\ shown \in [Clients -> Sessions]
  /\ taken \in [Clients -> 0 .. boots + 1]
  /\ boots \in 0 .. MaxBoots /\ changes \in 0 .. MaxChanges

HeadInv ==
  /\ head <= Top /\ Top <= MaxSeq
  /\ unsent = 0 => head = Top
  /\ unsent # 0 => unsent = Top
  /\ views.cursor <= head
  /\ ~views.ready => views = NoViews
  /\ tick.at = "written" => tick.last <= Top

\* The log's last word on a listed session is its view, stored unless
\* everything up to it was pruned.
ViewInv(k) ==
  /\ CurVer[k] = 0 => CurSeq[k] = 0
  /\ CurVer[k] # 0 =>
       /\ CurRow(k) \in log
       /\ \A r \in log : Tells(r, k) => r.seq <= CurSeq[k]
       /\ CurRow(k) \in events \/ \A e \in events : CurSeq[k] < e.seq

\* OneStoredView, also while a tick waits for its commit.
OneView ==
  views.ready \/ tick.at = "written" =>
    \A r \in events :
      r.event \in ViewEvents /\ (\E o \in events : o.seq < r.seq)
        => CurVer[r.event.key] = r.event.ver /\ CurSeq[r.event.key] = r.seq

\* The cursor that committed views come with.
CursorInv ==
  /\ views.ready \/ tick.at = "written" =>
       \A r \in log : r.event \in SessionEvents
         => r.seq <= views.cursor \/ (tick.at = "written" /\ r.seq <= tick.last)
  /\ views.ready /\ tick.at = "written" =>
       /\ \A r \in log : r.event \in ViewEvents /\ views.cursor < r.seq
                           => tick.ver[r.event.key] # 0
       /\ \A k \in Keys :
            /\ tick.ver[k] # 0 /\ tick.seq[k] <= views.cursor => tick.ver[k] = views.ver[k]
            /\ tick.ver[k] = 0 /\ views.ver[k] # 0 => GoneAfter(k, views.cursor)

\* A listed session is shown at its version once the cursor is past its
\* view; until then, when the stream has read the view, it is in flight.
LiveInv(c) ==
  client[c].epoch = epoch /\ taken[c] # 0 =>
    \A k \in Keys :
      CurVer[k] # 0 =>
        /\ CurSeq[k] <= client[c].seq => shown[c][k] = CurVer[k]
        /\ sub[c].state # "off" /\ client[c].seq < CurSeq[k] /\ CurSeq[k] <= sub[c].after
             => CurRow(k) \in sub[c].wire

\* A client of this run's views will hear that a session it shows, or may
\* come to show, has ended.
GoneInv(c) ==
  client[c].epoch = epoch /\ taken[c] = boots + 1 =>
    /\ \A k \in Keys :
         CurVer[k] = 0 => shown[c][k] = 0 \/ GoneAfter(k, client[c].seq)
    /\ \A r \in log :
         /\ r.event \in ViewEvents /\ client[c].from < r.seq /\ CurVer[r.event.key] = 0
         => GoneAfter(r.event.key, r.seq)

ShownInv(c) ==
  /\ taken[c] = boots + 1 => views.ready
  /\ \A w \in sub[c].wire : w.event \in SessionEvents
  /\ client[c].epoch = epoch => client[c].from <= client[c].seq
  /\ LiveInv(c)
  /\ GoneInv(c)

ViewsInv ==
  /\ Typed /\ HeadInv
  /\ \A k \in Keys : ViewInv(k)
  /\ OneView /\ CursorInv
  /\ \A c \in Clients : ShownInv(c)

Inv == Proved!Inv /\ ViewsInv

LEMMA NoneTyped ==
  /\ None \in Sessions /\ None \in [Keys -> Nat]
  /\ NoViews \in Committed /\ NoTick \in Tick
<1>1. None \in Sessions /\ None \in [Keys -> Nat]
  BY DEF None, Sessions
<1> QED BY <1>1 DEF NoViews, Committed, NoTick, Tick

\* The invariant of the log gives these facts.
LEMMA LogHolds == Proved!Inv => LogOK
<1> SUFFICES ASSUME Proved!Inv PROVE LogOK
  OBVIOUS
<1>1. /\ Proved!TypeOK /\ Proved!LogInv
      /\ \A c \in Clients : Proved!ClientInv(c) /\ Proved!StreamInv(c)
  BY DEF Proved!Inv
<1>2. /\ Top = Proved!Newest(events) /\ Top \in Nat /\ \A r \in log : r.seq <= Top
      /\ events \subseteq log /\ \A a, b \in log : a.seq = b.seq => a = b
  <2>1. Top = Proved!Newest(events)
    BY SameTable DEF Top
  <2>2. events \subseteq log /\ Proved!NewestStays /\ \A a, b \in log : a.seq = b.seq => a = b
    BY <1>1 DEF Proved!LogInv
  <2>3. Proved!Newest(events) \in Nat /\ \A r \in log : r.seq <= Proved!Newest(events)
    BY <1>1, <2>2, LogAssumed, Proved!NewestOfLog
  <2> QED BY <2>1, <2>2, <2>3
<1>3. /\ head \in Nat /\ unsent \in Nat /\ epoch \in Nat \ {0} /\ log \subseteq Proved!Row
      /\ sub \in [Clients -> Proved!Stream] /\ client \in [Clients -> Proved!ClientState]
  BY <1>1 DEF Proved!TypeOK
<1>4. \A r \in log : r.seq \in Nat \ {0} /\ r = [seq |-> r.seq, event |-> r.event]
  BY <1>3 DEF Proved!Row
<1>5. ASSUME NEW c \in Clients PROVE StreamOK(c)
  <2>1. /\ client[c].epoch \in Nat /\ client[c].seq \in Nat /\ client[c].from \in Nat
        /\ sub[c].after \in Nat
    BY <1>3 DEF Proved!Stream, Proved!ClientState
  <2>2. \A from, upto : \A r \in log :
          /\ from < r.seq /\ r.seq <= upto /\ r.event \in SessionEvents \ ViewEvents
          => r \in Proved!Owed(c, from, upto)
    BY DEF Proved!Owed, Wanted
  <2>3. CASE sub[c].state = "off"
    BY <1>1, <1>2, <2>1, <2>3 DEF StreamOK, Proved!ClientInv, Proved!StreamInv
  <2>4. CASE sub[c].state # "off"
    <3>1. /\ client[c].epoch = epoch
          /\ client[c].seq <= sub[c].after /\ sub[c].after <= Top
          /\ sub[c].wire \subseteq log
          /\ \A w \in sub[c].wire : client[c].seq < w.seq /\ w.seq <= sub[c].after
          /\ Proved!Owed(c, client[c].seq, sub[c].after) \subseteq sub[c].wire
      BY <1>1, <1>2, <2>4 DEF Proved!StreamInv
    <3>2. client[c].epoch <= epoch /\ client[c].seq <= Top
      BY <1>1, <1>2, <3>1 DEF Proved!ClientInv
    <3>3. \A r \in log : /\ client[c].seq < r.seq /\ r.seq <= sub[c].after
                         /\ r.event \in SessionEvents \ ViewEvents
                         => r \in sub[c].wire
      BY <2>2, <3>1
    <3> QED BY <2>1, <2>4, <3>1, <3>2, <3>3 DEF StreamOK
  <2> QED BY <2>3, <2>4
<1>6. sub \in [Clients -> Log!Stream] /\ client \in [Clients -> Log!ClientState]
  BY <1>3, SameConstants
<1> QED BY <1>2, <1>3, <1>4, <1>5, <1>6 DEF LogOK
-----------------------------------------------------------------------------
(* Steps that write nothing.                                               *)

\* The views the log tells of are the same after the step.
SameViews ==
  /\ UNCHANGED <<views, boots>>
  /\ UNCHANGED tick \/ (tick.at # "written" /\ tick'.at # "written")

LEMMA CurKept ==
  ASSUME SameViews
  PROVE  /\ CurVer' = CurVer /\ CurSeq' = CurSeq
         /\ \A k : CurRow(k)' = CurRow(k)
         /\ views' = views /\ boots' = boots
         /\ tick'.at = "written" <=> tick.at = "written"
         /\ tick'.at = "written" => tick' = tick
<1>1. /\ tick'.at = "written" <=> tick.at = "written"
      /\ tick'.at = "written" => tick' = tick
  BY DEF SameViews
<1>2. CurVer' = CurVer /\ CurSeq' = CurSeq
  BY <1>1 DEF SameViews, CurVer, CurSeq
<1>3. \A k : CurRow(k)' = CurRow(k)
  BY <1>2 DEF CurRow
<1> QED BY <1>1, <1>2, <1>3 DEF SameViews

\* Rows only leave the table, oldest first.
Ages ==
  /\ events' \subseteq events
  /\ \A r \in events \ events', e \in events' : r.seq < e.seq

\* What holds of the views and the log goes on when no row is added.
LEMMA ViewsKept ==
  ASSUME ViewsInv, SameViews, log' = log, Ages
  PROVE  (\A k \in Keys : ViewInv(k)') /\ OneView' /\ CursorInv'
<1>1. /\ CurVer' = CurVer /\ CurSeq' = CurSeq
      /\ \A k : CurRow(k)' = CurRow(k)
      /\ views' = views
      /\ tick'.at = "written" <=> tick.at = "written"
      /\ tick'.at = "written" => tick' = tick
  BY CurKept
<1>2. (\A k \in Keys : ViewInv(k)) /\ OneView /\ CursorInv
  BY DEF ViewsInv
<1>3. ASSUME NEW k \in Keys PROVE ViewInv(k)'
  <2>1. ViewInv(k)
    BY <1>2
  <2>2. CASE CurVer[k] = 0
    BY <1>1, <2>1, <2>2 DEF ViewInv
  <2>3. CASE CurVer[k] # 0
    <3>1. /\ CurRow(k) \in log
          /\ \A r \in log : Tells(r, k) => r.seq <= CurSeq[k]
          /\ CurRow(k) \in events \/ \A e \in events : CurSeq[k] < e.seq
      BY <2>1, <2>3 DEF ViewInv
    <3>2. CurRow(k).seq = CurSeq[k]
      BY DEF CurRow
    <3>3. CurRow(k) \in events' \/ \A e \in events' : CurSeq[k] < e.seq
      BY <3>1, <3>2 DEF Ages
    <3>4. \A r \in log : Tells(r, k)' <=> Tells(r, k)
      BY DEF Tells
    <3> QED BY <1>1, <2>3, <3>1, <3>3 DEF ViewInv, Tells
  <2> QED BY <2>2, <2>3
<1>4. OneView'
  BY <1>1, <1>2 DEF OneView, Ages
<1>5. CursorInv'
  <2>1. \A k, q : GoneAfter(k, q)' <=> GoneAfter(k, q)
    BY DEF GoneAfter, Tells
  <2>2. CASE tick'.at # "written"
    BY <1>1, <1>2, <2>2 DEF CursorInv
  <2>3. CASE tick'.at = "written"
    <3>1. tick' = tick
      BY <1>1, <2>3
    <3> QED BY <1>1, <1>2, <2>1, <3>1 DEF CursorInv
  <2> QED BY <2>2, <2>3
<1> QED BY <1>3, <1>4, <1>5

\* A client whose cursor, copy and stream are as before, or whose
\* connection broke.
ClientKept(c) ==
  /\ UNCHANGED <<client[c], taken[c], shown[c]>>
  /\ \/ /\ UNCHANGED <<sub[c].after, sub[c].wire>>
        /\ sub'[c].state = "off" <=> sub[c].state = "off"
     \/ sub'[c].state = "off" /\ sub'[c].wire = {}

\* What holds of a client goes on when neither it nor the log moves.
LEMMA ShownKept ==
  ASSUME ViewsInv, SameViews, UNCHANGED <<log, epoch>>, NEW c \in Clients, ClientKept(c)
  PROVE  ShownInv(c)'
<1>1. /\ CurVer' = CurVer /\ CurSeq' = CurSeq
      /\ \A k : CurRow(k)' = CurRow(k)
      /\ views' = views /\ boots' = boots
  BY CurKept
<1>2. ShownInv(c)
  BY DEF ViewsInv
<1>3. /\ client'[c] = client[c] /\ taken'[c] = taken[c] /\ shown'[c] = shown[c]
      /\ \/ /\ sub'[c].after = sub[c].after /\ sub'[c].wire = sub[c].wire
            /\ sub'[c].state = "off" <=> sub[c].state = "off"
         \/ sub'[c].state = "off" /\ sub'[c].wire = {}
      /\ epoch' = epoch /\ log' = log
  BY DEF ClientKept
<1>4. LiveInv(c)'
  BY <1>1, <1>2, <1>3 DEF ShownInv, LiveInv
<1>5. GoneInv(c)'
  <2>1. \A k, q : GoneAfter(k, q)' <=> GoneAfter(k, q)
    BY <1>3 DEF GoneAfter, Tells
  <2> QED BY <1>1, <1>2, <1>3, <2>1 DEF ShownInv, GoneInv
<1>6. \A w \in sub'[c].wire : w.event \in SessionEvents
  BY <1>2, <1>3 DEF ShownInv
<1> QED BY <1>1, <1>2, <1>3, <1>4, <1>5, <1>6 DEF ShownInv

\* Steps of sessions, of a tick that writes nothing, and of a client that
\* is told that there are no views.
LEMMA MemoryStep ==
  ASSUME Inv,
         \/ \E k \in Keys, v \in Vers \cup {0} : Change(k, v)
         \/ Observe \/ TickFail
         \/ \E c \in Clients : ReadNoViews(c)
  PROVE  ViewsInv'
<1>1. /\ UNCHANGED logVars /\ UNCHANGED <<views, shown, taken, boots>>
      /\ UNCHANGED tick \/ (tick.at # "written" /\ tick'.at # "written")
  <2>1. "seen" # "written" /\ "idle" # "written"
    OBVIOUS
  <2>2. [NoTick EXCEPT !.at = "seen", !.ver = world].at = "seen" /\ NoTick.at = "idle"
    BY DEF NoTick
  <2>3. CASE \E k \in Keys, v \in Vers \cup {0} : Change(k, v)
    BY <2>3 DEF Change
  <2>4. CASE Observe
    BY <2>1, <2>2, <2>4 DEF Observe
  <2>5. CASE TickFail
    BY <2>1, <2>2, <2>5 DEF TickFail
  <2>6. CASE \E c \in Clients : ReadNoViews(c)
    BY <2>6 DEF ReadNoViews
  <2> QED BY <2>3, <2>4, <2>5, <2>6
<1>2. UNCHANGED <<events, log, epoch, head, unsent, sub, client>>
  BY <1>1 DEF logVars
<1>3. Typed'
  <2>1. Typed
    BY DEF Inv, ViewsInv
  <2>2. ASSUME NEW k \in Keys, NEW v \in Vers \cup {0}, Change(k, v) PROVE Typed'
    BY <2>1, <2>2, SessionViewsAssumption DEF Change, Typed, Sessions
  <2>3. CASE Observe
    <3>1. tick' = [NoTick EXCEPT !.at = "seen", !.ver = world]
      BY <2>3 DEF Observe
    <3>2. tick' \in Tick
      BY <2>1, <3>1, NoneTyped DEF Typed, NoTick, Tick
    <3> QED BY <2>1, <2>3, <3>2 DEF Observe, Typed
  <2>4. CASE TickFail
    BY <2>1, <2>4, NoneTyped DEF TickFail, Typed
  <2>5. ASSUME NEW c \in Clients, ReadNoViews(c) PROVE Typed'
    BY <2>1, <2>5 DEF ReadNoViews, Typed
  <2> QED BY <2>2, <2>3, <2>4, <2>5
<1>4. SameViews
  BY <1>1 DEF SameViews
<1>5. ViewsInv /\ HeadInv
  BY DEF Inv, ViewsInv
<1>6. HeadInv'
  <2>1. /\ views' = views /\ (tick'.at = "written" => tick' = tick)
        /\ tick'.at = "written" <=> tick.at = "written"
    BY <1>4, CurKept
  <2>2. Top' = Top /\ head' = head /\ unsent' = unsent
    BY <1>2 DEF Top
  <2>3. CASE tick'.at = "written"
    BY <1>5, <2>1, <2>2, <2>3 DEF HeadInv
  <2>4. CASE tick'.at # "written"
    BY <1>5, <2>1, <2>2, <2>4 DEF HeadInv
  <2> QED BY <2>3, <2>4
<1>7. Ages
  BY <1>2 DEF Ages
<1>8. \A c \in Clients : ClientKept(c)
  BY <1>1, <1>2 DEF ClientKept
<1> QED BY <1>2, <1>3, <1>4, <1>5, <1>6, <1>7, <1>8, ViewsKept, ShownKept DEF ViewsInv
-----------------------------------------------------------------------------
(* Steps of the log's writer that add no row, and the tick's commit.       *)

LEMMA MemoryKept ==
  ASSUME Typed, UNCHANGED <<world, views, tick, asked, shown, taken, boots, changes>>
  PROVE  Typed' /\ SameViews
BY DEF Typed, SameViews

LEMMA HeadKept ==
  ASSUME HeadInv, UNCHANGED <<views, tick, head, unsent>>, Top' = Top
  PROVE  HeadInv'
BY DEF HeadInv

\* The broadcast moves the head up to the last row.
LEMMA PublishViews ==
  ASSUME Inv, Publish
  PROVE  ViewsInv'
<1>1. /\ unsent # 0 /\ head' = unsent /\ unsent' = 0
      /\ sub' = [c \in Clients |->
                   IF sub[c].state = "off" THEN sub[c]
                   ELSE [sub[c] EXCEPT !.woken = TRUE]]
      /\ UNCHANGED <<events, log, epoch, client>>
      /\ UNCHANGED <<world, views, tick, asked, shown, taken, boots, changes>>
  BY DEF Publish, Log!Publish
<1>2. ViewsInv /\ LogOK
  BY LogHolds DEF Inv
<1>3. Typed' /\ SameViews
  BY <1>1, <1>2, MemoryKept DEF ViewsInv
<1>4. HeadInv'
  <2>1. Top' = Top /\ Top \in Nat /\ head \in Nat /\ unsent = Top
    BY <1>1, <1>2 DEF Top, LogOK, ViewsInv, HeadInv
  <2>2. views' = views /\ tick' = tick /\ HeadInv /\ head <= Top
    BY <1>1, <1>2 DEF ViewsInv, HeadInv
  <2>3. views.cursor \in Nat /\ views.cursor <= head
    BY <1>2, <2>2 DEF ViewsInv, Typed, Committed, HeadInv
  <2> QED BY <1>1, <2>1, <2>2, <2>3 DEF HeadInv
<1>5. Ages
  BY <1>1 DEF Ages
<1>6. ASSUME NEW c \in Clients PROVE ClientKept(c)
  <2>1. sub[c] \in Log!Stream
    BY <1>2 DEF LogOK
  <2>2. /\ sub'[c].after = sub[c].after /\ sub'[c].wire = sub[c].wire
        /\ sub'[c].state = sub[c].state
    BY <1>1, <2>1 DEF Log!Stream
  <2> QED BY <1>1, <2>2 DEF ClientKept
<1> QED BY <1>1, <1>2, <1>3, <1>4, <1>5, <1>6, ViewsKept, ShownKept DEF ViewsInv

\* Retention deletes the oldest rows, and never the newest.
LEMMA PrunedTable ==
  ASSUME Inv, NEW old \in Int, NEW kept, kept = events \ Log!Prunable(events, old)
  PROVE  /\ kept \subseteq events
         /\ \A r \in events \ kept, e \in kept : r.seq < e.seq
         /\ Log!Newest(kept) = Top
<1>1. kept = events \ Proved!Prunable(events, old)
  BY SameTable
<1>2. Proved!Newest(kept) = Proved!Newest(events)
  BY <1>1, LogAssumed, Proved!PruneTable DEF Inv
<1>3. Log!Newest(kept) = Top
  BY <1>2, SameTable DEF Top
<1>4. /\ Top \in Nat /\ Keep \in Nat /\ \A r \in events : r.seq \in Nat
  BY LogHolds, SessionViewsAssumption DEF Inv, LogOK
<1>5. ASSUME NEW r \in events \ kept, NEW e \in kept PROVE r.seq < e.seq
  <2>1. /\ \E n \in events : r.seq < n.seq
        /\ r.seq <= old \/ r.seq <= Top - Keep
    BY DEF Log!Prunable, Top
  <2>2. \/ \A n \in events : ~ (e.seq < n.seq)
        \/ ~ (e.seq <= old) /\ ~ (e.seq <= Top - Keep)
    BY DEF Log!Prunable, Top
  <2>3. r.seq \in Nat /\ e.seq \in Nat
    BY <1>4
  <2>4. CASE \A n \in events : ~ (e.seq < n.seq)
    BY <1>4, <2>1, <2>3, <2>4
  <2>5. CASE ~ (e.seq <= old) /\ ~ (e.seq <= Top - Keep)
    BY <1>4, <2>1, <2>3, <2>5
  <2> QED BY <2>2, <2>4, <2>5
<1> QED BY <1>3, <1>5

\* A pruned view was older than every row that stays.
LEMMA PruneViews ==
  ASSUME Inv, NEW old \in Int, Prune(old)
  PROVE  ViewsInv'
<1>1. /\ events' = events \ Log!Prunable(events, old)
      /\ UNCHANGED <<log, epoch, head, unsent, sub, client>>
      /\ UNCHANGED <<world, views, tick, asked, shown, taken, boots, changes>>
  BY DEF Prune, Log!Prune
<1>2. ViewsInv
  BY DEF Inv
<1>3. Typed' /\ SameViews
  BY <1>1, <1>2, MemoryKept DEF ViewsInv
<1>4. Ages /\ Top' = Top
  BY <1>1, PrunedTable DEF Ages, Top
<1>5. HeadInv'
  BY <1>1, <1>2, <1>4, HeadKept DEF ViewsInv
<1>6. \A c \in Clients : ClientKept(c)
  BY <1>1 DEF ClientKept
<1> QED BY <1>1, <1>2, <1>3, <1>4, <1>5, <1>6, ViewsKept, ShownKept DEF ViewsInv

\* A run starts with no views, and no client has read those of its run.
LEMMA BootViews ==
  ASSUME Inv,
         \/ \E old \in 0 .. MaxSeq : Restart(old)
         \/ Recreate
  PROVE  ViewsInv'
<1>1. /\ boots < MaxBoots /\ boots' = boots + 1
      /\ views' = NoViews /\ tick' = NoTick /\ asked' = {}
      /\ UNCHANGED <<world, shown, taken, changes>>
  BY DEF Restart, Recreate, Boot
<1>2. /\ unsent' = 0 /\ sub' = [c \in Clients |-> Log!Off] /\ client' = client
  BY DEF Restart, Recreate, Boot, Log!Restart, Log!Recreate
<1>3. /\ head' = Top' /\ Top' <= MaxSeq /\ Top' \in Nat
      /\ epoch' = epoch \/ epoch' = epoch + 1
  <2>1. CASE Recreate
    BY <2>1, SessionViewsAssumption DEF Recreate, Boot, Log!Recreate, Top, Log!Newest
  <2>2. CASE \E old \in 0 .. MaxSeq : Restart(old)
    <3>1. PICK old \in 0 .. MaxSeq :
            /\ events' = events \ Log!Prunable(events, old) /\ epoch' = epoch
            /\ head' = Log!Newest(events \ Log!Prunable(events, old))
      BY <2>2 DEF Restart, Boot, Log!Restart
    <3>2. old \in Int
      BY <3>1, SessionViewsAssumption
    <3>3. Top' = Top /\ head' = Top'
      BY <3>1, <3>2, PrunedTable DEF Top
    <3> QED BY <3>1, <3>3, LogHolds DEF Inv, ViewsInv, HeadInv, LogOK
  <2> QED BY <2>1, <2>2
<1>4. Typed /\ LogOK /\ MaxBoots \in Nat
  BY LogHolds, SessionViewsAssumption DEF Inv, ViewsInv
<1>5. Typed'
  <2>1. boots \in Nat /\ boots' \in 0 .. MaxBoots
    BY <1>1, <1>4 DEF Typed
  <2>2. taken' \in [Clients -> 0 .. boots' + 1]
    BY <1>1, <1>4, <2>1 DEF Typed
  <2> QED BY <1>1, <1>4, <2>1, <2>2, NoneTyped DEF Typed
<1>6. HeadInv'
  BY <1>1, <1>2, <1>3 DEF HeadInv, NoViews, NoTick
<1>7. CurVer' = None /\ CurSeq' = None /\ views'.ready = FALSE /\ tick'.at = "idle"
  BY <1>1 DEF CurVer, CurSeq, NoViews, NoTick
<1>8. \A k \in Keys : CurVer'[k] = 0 /\ CurSeq'[k] = 0
  BY <1>7 DEF None
<1>9. (\A k \in Keys : ViewInv(k)') /\ OneView' /\ CursorInv'
  BY <1>7, <1>8 DEF ViewInv, OneView, CursorInv
<1>10. ASSUME NEW c \in Clients PROVE ShownInv(c)'
  <2>1. taken'[c] # boots' + 1
    BY <1>1, <1>4 DEF Typed
  <2>2. sub'[c].wire = {}
    BY <1>2 DEF Log!Off
  <2>3. LiveInv(c)' /\ GoneInv(c)'
    BY <1>8, <2>1 DEF LiveInv, GoneInv
  <2>4. client'[c].epoch = epoch' => client'[c].from <= client'[c].seq
    <3>1. client[c].epoch <= epoch /\ client[c].epoch \in Nat /\ epoch \in Nat
      BY <1>4 DEF LogOK, StreamOK
    <3>2. client[c].epoch = epoch => client[c].from <= client[c].seq
      BY DEF Inv, ViewsInv, ShownInv
    <3> QED BY <1>2, <1>3, <3>1, <3>2
  <2> QED BY <2>1, <2>2, <2>3, <2>4 DEF ShownInv
<1> QED BY <1>5, <1>6, <1>9, <1>10 DEF ViewsInv

\* The tick's views become the committed ones.
LEMMA CommitViews ==
  ASSUME Inv, TickCommit
  PROVE  ViewsInv'
<1>1. /\ tick.at = "written" /\ tick.last <= head
      /\ views' = [ready |-> TRUE, ver |-> tick.ver, seq |-> tick.seq, cursor |-> head]
      /\ tick' = NoTick
      /\ UNCHANGED <<world, asked, shown, taken, boots, changes>>
      /\ UNCHANGED <<events, log, epoch, head, unsent, sub, client>>
  BY DEF TickCommit, logVars
<1>2. ViewsInv /\ LogOK
  BY LogHolds DEF Inv
<1>3. /\ views'.ready /\ views'.ver = tick.ver /\ views'.seq = tick.seq /\ views'.cursor = head
      /\ tick'.at = "idle" /\ "idle" # "written"
  BY <1>1 DEF NoTick
<1>4. CurVer' = CurVer /\ CurSeq' = CurSeq
  BY <1>1, <1>3 DEF CurVer, CurSeq
<1>5. /\ \A k : CurRow(k)' = CurRow(k)
      /\ \A k, q : GoneAfter(k, q)' <=> GoneAfter(k, q)
      /\ \A r, k : Tells(r, k)' <=> Tells(r, k)
  BY <1>1, <1>4 DEF CurRow, GoneAfter, Tells
<1>6. Typed'
  <2>1. tick \in Tick /\ head \in Nat /\ NoTick \in Tick
    BY <1>2, NoneTyped DEF ViewsInv, Typed, LogOK
  <2>2. views' \in Committed
    BY <1>1, <2>1 DEF Tick, Committed
  <2> QED BY <1>1, <1>2, <2>1, <2>2 DEF ViewsInv, Typed
<1>7. HeadInv'
  <2>1. HeadInv /\ Top' = Top /\ head \in Nat
    BY <1>1, <1>2 DEF ViewsInv, Top, LogOK
  <2> QED BY <1>1, <1>3, <2>1 DEF HeadInv
<1>8. ASSUME NEW k \in Keys PROVE ViewInv(k)'
  BY <1>1, <1>2, <1>4, <1>5 DEF ViewsInv, ViewInv
<1>9. OneView'
  BY <1>1, <1>2, <1>4 DEF ViewsInv, OneView
<1>10. CursorInv'
  <2>1. ASSUME NEW r \in log, r.event \in SessionEvents PROVE r.seq <= head
    <3>1. r.seq <= views.cursor \/ r.seq <= tick.last
      BY <1>1, <1>2, <2>1 DEF ViewsInv, CursorInv
    <3>2. r.seq \in Nat /\ views.cursor \in Nat /\ tick.last \in Nat /\ head \in Nat
      BY <1>2 DEF LogOK, ViewsInv, Typed, Committed, Tick
    <3>3. views.cursor <= head
      BY <1>2 DEF ViewsInv, HeadInv
    <3> QED BY <1>1, <3>1, <3>2, <3>3
  <2> QED BY <1>1, <1>3, <2>1 DEF CursorInv
<1>11. ASSUME NEW c \in Clients PROVE ShownInv(c)'
  <2>1. ShownInv(c)
    BY <1>2 DEF ViewsInv
  <2>2. LiveInv(c)'
    BY <1>1, <1>4, <1>5, <2>1 DEF ShownInv, LiveInv
  <2>3. GoneInv(c)'
    BY <1>1, <1>4, <1>5, <2>1 DEF ShownInv, GoneInv
  <2> QED BY <1>1, <1>3, <2>1, <2>2, <2>3 DEF ShownInv
<1> QED BY <1>6, <1>7, <1>8, <1>9, <1>10, <1>11 DEF ViewsInv
-----------------------------------------------------------------------------
(* Steps of the clients and their streams.                                 *)

\* A step of client c that leaves the other clients and the log alone.
LEMMA OthersShown ==
  ASSUME Inv, NEW c \in Clients,
         UNCHANGED <<events, log, epoch, head, unsent, views, tick, boots>>, Typed',
         \A d \in Clients \ {c} : UNCHANGED <<client[d], taken[d], shown[d], sub[d]>>,
         ShownInv(c)'
  PROVE  ViewsInv'
<1>1. ViewsInv /\ HeadInv /\ SameViews
  BY DEF Inv, ViewsInv, SameViews
<1>2. Ages /\ Top' = Top
  BY DEF Ages, Top
<1>3. HeadInv'
  BY <1>1, <1>2, HeadKept
<1>4. ASSUME NEW d \in Clients \ {c} PROVE ShownInv(d)'
  <2>1. ClientKept(d)
    BY DEF ClientKept
  <2> QED BY <1>1, <2>1, ShownKept
<1> QED BY <1>1, <1>2, <1>3, <1>4, ViewsKept DEF ViewsInv

LEMMA ClientStepKept ==
  ASSUME NEW c \in Clients, UNCHANGED <<events, log, epoch, views, tick>>
  PROVE  /\ CurVer' = CurVer /\ CurSeq' = CurSeq
         /\ \A k : CurRow(k)' = CurRow(k)
         /\ \A k, q : GoneAfter(k, q)' <=> GoneAfter(k, q)
<1>1. CurVer' = CurVer /\ CurSeq' = CurSeq
  BY DEF CurVer, CurSeq
<1> QED BY <1>1 DEF CurRow, GoneAfter, Tells

\* Committed views and their cursor, read together.
LEMMA ReadViewsStep ==
  ASSUME Inv, NEW c \in Clients, ReadViews(c)
  PROVE  ViewsInv'
<1>1. /\ views.ready
      /\ sub[c].state = "off"
      /\ client' = [client EXCEPT ![c] = [epoch |-> epoch, seq |-> views.cursor,
                                          from |-> views.cursor, got |-> {}]]
      /\ shown' = [shown EXCEPT ![c] = views.ver]
      /\ taken' = [taken EXCEPT ![c] = boots + 1]
      /\ UNCHANGED <<events, log, epoch, head, unsent, sub>>
      /\ UNCHANGED <<world, views, tick, asked, boots, changes>>
  BY DEF ReadViews, Log!Snapshot
<1>2. ViewsInv /\ LogOK
  BY LogHolds DEF Inv
<1>3. /\ client'[c].epoch = epoch /\ client'[c].seq = views.cursor
      /\ client'[c].from = views.cursor
      /\ shown'[c] = views.ver /\ taken'[c] = boots + 1 /\ sub'[c] = sub[c]
      /\ sub[c].wire = {}
  BY <1>1, <1>2 DEF LogOK, ViewsInv, Typed, StreamOK
<1>4. Typed'
  <2>1. views.ver \in Sessions /\ boots \in Nat
    BY <1>2, SessionViewsAssumption DEF ViewsInv, Typed, Committed
  <2> QED BY <1>1, <1>2, <2>1 DEF ViewsInv, Typed
<1>5. \A d \in Clients \ {c} : UNCHANGED <<client[d], taken[d], shown[d], sub[d]>>
  BY <1>1, <1>2 DEF LogOK, ViewsInv, Typed
<1>6. /\ CurVer' = CurVer /\ CurSeq' = CurSeq
      /\ \A k : CurRow(k)' = CurRow(k)
      /\ \A k, q : GoneAfter(k, q)' <=> GoneAfter(k, q)
  BY <1>1, ClientStepKept
<1>7. CursorInv /\ views.cursor \in Nat /\ \A r \in log : r.seq \in Nat
  BY <1>2 DEF ViewsInv, Typed, Committed, LogOK
<1>8. LiveInv(c)'
  <2>1. ASSUME NEW k \in Keys, CurVer[k] # 0, CurSeq[k] <= views.cursor
        PROVE  views.ver[k] = CurVer[k]
    <3>1. CASE tick.at = "written"
      BY <1>1, <1>7, <2>1, <3>1 DEF CursorInv, CurVer, CurSeq
    <3>2. CASE tick.at # "written"
      BY <3>2 DEF CurVer
    <3> QED BY <3>1, <3>2
  <2> QED BY <1>1, <1>3, <1>6, <2>1 DEF LiveInv
<1>9. GoneInv(c)'
  <2>1. ASSUME NEW k \in Keys, CurVer[k] = 0
        PROVE  views.ver[k] = 0 \/ GoneAfter(k, views.cursor)
    <3>1. CASE tick.at = "written"
      BY <1>1, <1>7, <2>1, <3>1 DEF CursorInv, CurVer
    <3>2. CASE tick.at # "written"
      BY <2>1, <3>2 DEF CurVer
    <3> QED BY <3>1, <3>2
  <2>2. ASSUME NEW r \in log, r.event \in ViewEvents, views.cursor < r.seq
        PROVE  CurVer[r.event.key] # 0
    <3>1. r.event \in SessionEvents
      BY <2>2, SessionEvent
    <3>2. CASE tick.at = "written"
      BY <1>1, <1>7, <2>2, <3>2 DEF CursorInv, CurVer
    <3>3. CASE tick.at # "written"
      BY <1>1, <1>7, <2>2, <3>1, <3>3 DEF CursorInv
    <3> QED BY <3>2, <3>3
  <2> QED BY <1>1, <1>3, <1>6, <2>1, <2>2 DEF GoneInv
<1>10. ShownInv(c)'
  BY <1>1, <1>3, <1>7, <1>8, <1>9 DEF ShownInv
<1> QED BY <1>1, <1>4, <1>5, <1>10, OthersShown

\* The answer "no views" and the head cursor, read one after the other.
LEMMA ReadHeadStep ==
  ASSUME Inv, NEW c \in Clients, ReadHead(c)
  PROVE  ViewsInv'
<1>1. /\ sub[c].state = "off"
      /\ client' = [client EXCEPT ![c] = [epoch |-> epoch, seq |-> head,
                                          from |-> head, got |-> {}]]
      /\ asked' = asked \ {c}
      /\ shown' = [shown EXCEPT ![c] = None]
      /\ taken' = [taken EXCEPT ![c] = 0]
      /\ UNCHANGED <<events, log, epoch, head, unsent, sub>>
      /\ UNCHANGED <<world, views, tick, boots, changes>>
  BY DEF ReadHead, Log!Snapshot
<1>2. ViewsInv /\ LogOK
  BY LogHolds DEF Inv
<1>3. /\ client'[c].epoch = epoch /\ client'[c].seq = head
      /\ client'[c].from = head
      /\ taken'[c] = 0 /\ sub'[c] = sub[c] /\ sub[c].wire = {}
  BY <1>1, <1>2 DEF LogOK, ViewsInv, Typed, StreamOK
<1>4. boots \in Nat /\ head \in Nat
  BY <1>2, SessionViewsAssumption DEF ViewsInv, Typed, LogOK
<1>5. Typed'
  BY <1>1, <1>2, <1>4, NoneTyped DEF ViewsInv, Typed
<1>6. \A d \in Clients \ {c} : UNCHANGED <<client[d], taken[d], shown[d], sub[d]>>
  BY <1>1, <1>2 DEF LogOK, ViewsInv, Typed
<1>7. ShownInv(c)'
  BY <1>1, <1>3, <1>4 DEF ShownInv, LiveInv, GoneInv
<1> QED BY <1>1, <1>5, <1>6, <1>7, OthersShown

\* Steps of a stream that move no cursor, and a broken connection.
LEMMA IdleViews ==
  ASSUME Inv, NEW c \in Clients,
         Log!ReadNothing(c) \/ Log!Park(c) \/ Log!ReadExpired(c) \/ Log!Wake(c) \/ Log!Drop(c),
         UNCHANGED <<world, views, tick, asked, shown, taken, boots, changes>>
  PROVE  ViewsInv'
<1>1. UNCHANGED <<events, log, epoch, head, unsent, client>>
  BY DEF Log!ReadNothing, Log!Park, Log!ReadExpired, Log!Wake, Log!Drop
<1>2. ViewsInv /\ LogOK
  BY LogHolds DEF Inv
<1>3. Typed' /\ SameViews
  BY <1>2, MemoryKept DEF ViewsInv
<1>4. sub \in [Clients -> Log!Stream] /\ sub[c] \in Log!Stream
  BY <1>2 DEF LogOK
<1>5. /\ \A d \in Clients \ {c} : sub'[d] = sub[d]
      /\ \/ /\ UNCHANGED <<sub[c].after, sub[c].wire>>
            /\ sub'[c].state = "off" <=> sub[c].state = "off"
         \/ sub'[c].state = "off" /\ sub'[c].wire = {}
  <2>1. CASE Log!ReadNothing(c)
    BY <1>4, <2>1 DEF Log!ReadNothing, Log!MayRead, Log!Stream
  <2>2. CASE Log!Park(c)
    BY <1>4, <2>2 DEF Log!Park, Log!Stream
  <2>3. CASE Log!ReadExpired(c)
    BY <1>4, <2>3 DEF Log!ReadExpired, Log!MayRead, Log!Stream
  <2>4. CASE Log!Wake(c)
    BY <1>4, <2>4 DEF Log!Wake, Log!Stream
  <2>5. CASE Log!Drop(c)
    BY <1>4, <2>5 DEF Log!Drop, Log!Off
  <2> QED BY <2>1, <2>2, <2>3, <2>4, <2>5
<1>6. ClientKept(c)
  BY <1>1, <1>5 DEF ClientKept
<1>7. ShownInv(c)'
  BY <1>1, <1>2, <1>3, <1>6, ShownKept
<1> QED BY <1>1, <1>3, <1>5, <1>7, OthersShown

\* A stream starts at the client's cursor, with nothing in flight.
LEMMA SubscribeViews ==
  ASSUME Inv, NEW c \in Clients, Log!Subscribe(c),
         UNCHANGED <<world, views, tick, asked, shown, taken, boots, changes>>
  PROVE  ViewsInv'
<1>1. /\ client[c].epoch = epoch
      /\ sub' = [sub EXCEPT ![c] = [Log!Off EXCEPT !.state = "read", !.after = client[c].seq]]
      /\ UNCHANGED <<events, log, epoch, head, unsent, client>>
  BY DEF Log!Subscribe, Log!CursorOk
<1>2. ViewsInv /\ LogOK
  BY LogHolds DEF Inv
<1>3. Typed'
  BY <1>2, MemoryKept DEF ViewsInv
<1>4. sub'[c].state = "read" /\ sub'[c].after = client[c].seq /\ sub'[c].wire = {}
  BY <1>1, <1>2 DEF LogOK, Log!Off
<1>5. \A d \in Clients \ {c} : sub'[d] = sub[d]
  BY <1>1, <1>2 DEF LogOK
<1>6. /\ CurVer' = CurVer /\ CurSeq' = CurSeq
      /\ \A k : CurRow(k)' = CurRow(k)
      /\ \A k, q : GoneAfter(k, q)' <=> GoneAfter(k, q)
  BY <1>1, ClientStepKept
<1>7. ShownInv(c) /\ client[c].seq \in Nat
  BY <1>2 DEF ViewsInv, LogOK, StreamOK
<1>8. \A k \in Keys : CurSeq[k] \in Nat
  BY <1>2 DEF ViewsInv, Typed, Committed, Tick, CurSeq
<1>9. LiveInv(c)'
  <2>1. \A k \in Keys : ~ (client[c].seq < CurSeq[k] /\ CurSeq[k] <= client[c].seq)
    BY <1>7, <1>8
  <2> QED BY <1>1, <1>4, <1>6, <1>7, <2>1 DEF ShownInv, LiveInv
<1>10. GoneInv(c)'
  BY <1>1, <1>6, <1>7 DEF ShownInv, GoneInv
<1>11. ShownInv(c)'
  BY <1>1, <1>4, <1>7, <1>9, <1>10 DEF ShownInv
<1> QED BY <1>1, <1>3, <1>5, <1>11, OthersShown

\* cursor_expired: the client has no cursor until its next snapshot.
LEMMA CursorLostViews ==
  ASSUME Inv, NEW c \in Clients, Log!Refused(c) \/ Log!Ended(c),
         UNCHANGED <<world, views, tick, asked, shown, taken, boots, changes>>
  PROVE  ViewsInv'
<1>1. /\ client' = [client EXCEPT ![c] = Log!NoCursor]
      /\ sub' = sub \/ sub' = [sub EXCEPT ![c] = Log!Off]
      /\ UNCHANGED <<events, log, epoch, head, unsent>>
  BY DEF Log!Refused, Log!Ended
<1>2. ViewsInv /\ LogOK
  BY LogHolds DEF Inv
<1>3. Typed'
  BY <1>2, MemoryKept DEF ViewsInv
<1>4. client'[c].epoch = 0 /\ epoch # 0
  BY <1>1, <1>2 DEF LogOK, Log!NoCursor
<1>5. \A d \in Clients \ {c} : sub'[d] = sub[d] /\ client'[d] = client[d]
  BY <1>1, <1>2 DEF LogOK
<1>6. ShownInv(c)
  BY <1>2 DEF ViewsInv
<1>7. sub'[c].wire \subseteq sub[c].wire
  BY <1>1, <1>2 DEF LogOK, Log!Off
<1>8. ShownInv(c)'
  BY <1>1, <1>4, <1>6, <1>7 DEF ShownInv, LiveInv, GoneInv
<1> QED BY <1>1, <1>3, <1>5, <1>8, OthersShown
\* A read takes every stored row from the last one read on: a listed
\* session's view is among them, or all up to it was pruned, which
\* check_after excludes.
LEMMA ReadRowsViews ==
  ASSUME Inv, NEW c \in Clients, Log!ReadRows(c),
         UNCHANGED <<world, views, tick, asked, shown, taken, boots, changes>>
  PROVE  ViewsInv'
<1>1. /\ UNCHANGED <<events, log, epoch, head, unsent, client>>
      /\ sub[c].state = "read" /\ ~Log!Expired(events, sub[c].after)
  BY DEF Log!ReadRows, Log!MayRead
<1>2. PICK last \in events :
        LET batch == Log!Between(events, sub[c].after, last.seq)
        IN  /\ last \in batch
            /\ sub' = [sub EXCEPT
                         ![c].after = last.seq,
                         ![c].wire = sub[c].wire \cup
                                     {r \in batch : r.event \in Wanted[c]}]
  BY DEF Log!ReadRows
<1> DEFINE sent == {r \in Log!Between(events, sub[c].after, last.seq) : r.event \in Wanted[c]}
<1>3. ViewsInv /\ LogOK
  BY LogHolds DEF Inv
<1>4. Typed'
  BY <1>3, MemoryKept DEF ViewsInv
<1>5. \A r : r \in sent <=> /\ r \in events /\ sub[c].after < r.seq /\ r.seq <= last.seq
                            /\ r.event \in SessionEvents
  BY DEF Wanted, Log!Between
<1>6. sub \in [Clients -> Log!Stream] /\ sub[c] \in Log!Stream
  BY <1>3 DEF LogOK
<1>7. sub' = [sub EXCEPT ![c].after = last.seq, ![c].wire = sub[c].wire \cup sent]
  BY <1>2
<1>8. sub[c].after < last.seq
  BY <1>2 DEF Log!Between
<1> HIDE DEF sent
<1>9. /\ sub'[c].state = "read" /\ sub'[c].after = last.seq
      /\ sub'[c].wire = sub[c].wire \cup sent
      /\ \A d \in Clients \ {c} : sub'[d] = sub[d]
  BY <1>1, <1>6, <1>7 DEF Log!Stream
<1>10. /\ CurVer' = CurVer /\ CurSeq' = CurSeq
       /\ \A k : CurRow(k)' = CurRow(k)
       /\ \A k, q : GoneAfter(k, q)' <=> GoneAfter(k, q)
  BY <1>1, ClientStepKept
<1>11. /\ ShownInv(c) /\ sub[c].after \in Nat /\ events \subseteq log
       /\ \A r \in log : r.seq \in Nat
       /\ \A k \in Keys : ViewInv(k)
  BY <1>3 DEF ViewsInv, LogOK, StreamOK
<1>12. \A k \in Keys : CurSeq[k] \in Nat /\ CurVer[k] \in Vers \cup {0}
  BY <1>3 DEF ViewsInv, Typed, Committed, Tick, CurSeq, CurVer, Sessions
<1>13. ASSUME NEW k \in Keys, CurVer[k] # 0, sub[c].after < CurSeq[k], CurSeq[k] <= last.seq
       PROVE  CurRow(k) \in sent
  <2>1. CurRow(k) \in events \/ \A e \in events : CurSeq[k] < e.seq
    BY <1>11, <1>13 DEF ViewInv
  <2>2. PICK e \in events : ~ (sub[c].after + 1 < e.seq)
    BY <1>1 DEF Log!Expired
  <2>3. e.seq \in Nat /\ e.seq <= CurSeq[k]
    BY <1>11, <1>12, <1>13, <2>2
  <2>4. CurRow(k) \in events
    BY <1>12, <2>1, <2>2, <2>3
  <2>5. CurRow(k).seq = CurSeq[k] /\ CurRow(k).event \in SessionEvents
    BY <1>12, <1>13, SessionEvent DEF CurRow
  <2> QED BY <1>5, <1>13, <2>4, <2>5
<1>14. LiveInv(c)'
  <2>1. client'[c] = client[c] /\ LiveInv(c) /\ epoch' = epoch
    BY <1>1, <1>11 DEF ShownInv
  <2>2. ASSUME client[c].epoch = epoch, taken[c] # 0, NEW k \in Keys, CurVer[k] # 0
        PROVE  /\ CurSeq[k] <= client[c].seq => shown[c][k] = CurVer[k]
               /\ client[c].seq < CurSeq[k] /\ CurSeq[k] <= last.seq
                    => CurRow(k) \in sub[c].wire \cup sent
    <3>1. /\ CurSeq[k] <= client[c].seq => shown[c][k] = CurVer[k]
          /\ client[c].seq < CurSeq[k] /\ CurSeq[k] <= sub[c].after
               => CurRow(k) \in sub[c].wire
      BY <1>1, <2>1, <2>2 DEF LiveInv
    <3>2. CurSeq[k] <= sub[c].after \/ sub[c].after < CurSeq[k]
      BY <1>11, <1>12
    <3> QED BY <1>13, <2>2, <3>1, <3>2
  <2> QED BY <1>9, <1>10, <2>1, <2>2 DEF LiveInv
<1>15. GoneInv(c)'
  BY <1>1, <1>10, <1>11 DEF ShownInv, GoneInv
<1>16. ShownInv(c)'
  BY <1>1, <1>5, <1>9, <1>11, <1>14, <1>15 DEF ShownInv
<1> QED BY <1>1, <1>4, <1>9, <1>16, OthersShown

\* The client applies the frame with the lowest seq of those in flight.
LEMMA DeliverViews ==
  ASSUME Inv, NEW c \in Clients, NEW r \in sub[c].wire, Deliver(c, r)
  PROVE  ViewsInv'
<1>1. /\ \A o \in sub[c].wire : r.seq <= o.seq
      /\ sub' = [sub EXCEPT ![c].wire = sub[c].wire \ {r}]
      /\ client' = [client EXCEPT ![c].seq = r.seq,
                                  ![c].got = client[c].got \cup {r}]
      /\ UNCHANGED <<events, log, epoch, head, unsent>>
      /\ shown' = [shown EXCEPT ![c] = [shown[c] EXCEPT ![r.event.key] = r.event.ver]]
      /\ UNCHANGED <<world, views, tick, asked, taken, boots, changes>>
  BY DEF Deliver, Log!Deliver, Apply
<1>2. ViewsInv /\ LogOK
  BY LogHolds DEF Inv
<1>3. /\ ShownInv(c) /\ StreamOK(c) /\ sub[c].state # "off"
      /\ \A x \in log : x.seq \in Nat
      /\ \A a, b \in log : a.seq = b.seq => a = b
  BY <1>2 DEF ViewsInv, LogOK, StreamOK
<1>4. /\ client[c].epoch = epoch /\ client[c].from <= client[c].seq
      /\ r \in log /\ r.event \in SessionEvents /\ sub[c].wire \subseteq log
      /\ client[c].seq < r.seq /\ r.seq <= sub[c].after
      /\ client[c].seq \in Nat /\ client[c].from \in Nat
      /\ sub[c].after \in Nat /\ r.seq \in Nat
  BY <1>3 DEF StreamOK, ShownInv
<1>5. /\ sub \in [Clients -> Log!Stream] /\ client \in [Clients -> Log!ClientState]
      /\ sub[c] \in Log!Stream /\ client[c] \in Log!ClientState
      /\ shown \in [Clients -> Sessions] /\ shown[c] \in Sessions
  BY <1>2 DEF LogOK, ViewsInv, Typed
<1>6. /\ r.event.key \in Keys /\ r.event.ver \in Vers \cup {0}
      /\ r.event \in ViewEvents \/ (r.event = Gone(r.event.key) /\ r.event.ver = 0)
  BY <1>4, SessionEvent, EventKey
<1>7. /\ sub'[c].wire = sub[c].wire \ {r} /\ sub'[c].after = sub[c].after
      /\ sub'[c].state = sub[c].state
      /\ \A d \in Clients \ {c} : sub'[d] = sub[d]
  BY <1>1, <1>5 DEF Log!Stream
<1>8. /\ client'[c].seq = r.seq /\ client'[c].from = client[c].from
      /\ client'[c].epoch = client[c].epoch
      /\ \A d \in Clients \ {c} : client'[d] = client[d]
  BY <1>1, <1>5 DEF Log!ClientState
<1>9. /\ shown'[c] = [shown[c] EXCEPT ![r.event.key] = r.event.ver]
      /\ shown'[c] \in Sessions /\ shown' \in [Clients -> Sessions]
      /\ \A d \in Clients \ {c} : shown'[d] = shown[d]
  BY <1>1, <1>5, <1>6 DEF Sessions
<1>10. /\ shown'[c][r.event.key] = r.event.ver
       /\ \A k \in Keys \ {r.event.key} : shown'[c][k] = shown[c][k]
  BY <1>5, <1>6, <1>9 DEF Sessions
<1>11. Typed'
  BY <1>1, <1>2, <1>9 DEF ViewsInv, Typed
<1>12. /\ CurVer' = CurVer /\ CurSeq' = CurSeq
       /\ \A k : CurRow(k)' = CurRow(k)
       /\ \A k, q : GoneAfter(k, q)' <=> GoneAfter(k, q)
  BY <1>1, ClientStepKept
<1>13. \A k \in Keys : CurSeq[k] \in Nat /\ CurVer[k] \in Vers \cup {0}
  BY <1>2 DEF ViewsInv, Typed, Committed, Tick, CurSeq, CurVer, Sessions
<1>14. ASSUME taken[c] # 0, NEW k \in Keys, CurVer[k] # 0
       PROVE  /\ CurSeq[k] <= r.seq => shown'[c][k] = CurVer[k]
              /\ r.seq < CurSeq[k] /\ CurSeq[k] <= sub[c].after
                   => CurRow(k) \in sub[c].wire \ {r}
  <2>1. /\ CurRow(k) \in log
        /\ \A x \in log : Tells(x, k) => x.seq <= CurSeq[k]
    BY <1>2, <1>14 DEF ViewsInv, ViewInv
  <2>2. /\ CurSeq[k] <= client[c].seq => shown[c][k] = CurVer[k]
        /\ client[c].seq < CurSeq[k] /\ CurSeq[k] <= sub[c].after
             => CurRow(k) \in sub[c].wire
    BY <1>3, <1>4, <1>14 DEF ShownInv, LiveInv
  <2>3. CurRow(k).seq = CurSeq[k] /\ CurRow(k).event = View(k, CurVer[k])
    BY DEF CurRow
  <2>4. CASE CurSeq[k] <= client[c].seq
    <3>1. r.event.key # k
      BY <1>4, <1>13, <2>1, <2>4 DEF Tells
    <3> QED BY <1>4, <1>10, <1>13, <2>2, <2>4, <3>1
  <2>5. CASE client[c].seq < CurSeq[k] /\ CurSeq[k] <= r.seq
    <3>1. CurRow(k) \in sub[c].wire
      BY <1>4, <1>13, <2>2, <2>5
    <3>2. r.seq = CurSeq[k]
      BY <1>1, <1>4, <1>13, <2>3, <2>5, <3>1
    <3>3. r = CurRow(k)
      BY <1>3, <1>4, <2>1, <2>3, <3>2
    <3>4. r.event.key = k /\ r.event.ver = CurVer[k]
      BY <2>3, <3>3, EventKey
    <3> QED BY <1>4, <1>10, <1>13, <3>2, <3>4
  <2>6. CASE r.seq < CurSeq[k]
    <3>1. CurRow(k) # r
      BY <1>4, <1>13, <2>3, <2>6
    <3>2. ~ (CurSeq[k] <= r.seq) /\ client[c].seq < CurSeq[k]
      BY <1>4, <1>13, <2>6
    <3> QED BY <2>2, <3>1, <3>2
  <2>7. \/ CurSeq[k] <= client[c].seq
        \/ client[c].seq < CurSeq[k] /\ CurSeq[k] <= r.seq
        \/ r.seq < CurSeq[k]
    BY <1>4, <1>13
  <2> QED BY <2>4, <2>5, <2>6, <2>7
<1>15. LiveInv(c)'
  BY <1>1, <1>7, <1>8, <1>12, <1>14 DEF LiveInv
<1>16. ASSUME taken[c] = boots + 1, NEW k \in Keys, CurVer[k] = 0
       PROVE  shown'[c][k] = 0 \/ GoneAfter(k, r.seq)
  <2>1. /\ shown[c][k] = 0 \/ GoneAfter(k, client[c].seq)
        /\ \A x \in log :
             /\ x.event \in ViewEvents /\ client[c].from < x.seq /\ CurVer[x.event.key] = 0
             => GoneAfter(x.event.key, x.seq)
    BY <1>3, <1>4, <1>16 DEF ShownInv, GoneInv
  <2>2. CASE r.event.key = k /\ r.event \in ViewEvents
    <3>1. client[c].from < r.seq
      BY <1>4
    <3> QED BY <1>4, <1>16, <2>1, <2>2, <3>1
  <2>3. CASE r.event.key = k /\ r.event.ver = 0
    BY <1>10, <2>3
  <2>4. CASE r.event.key # k /\ shown[c][k] = 0
    BY <1>10, <2>4
  <2>5. CASE r.event.key # k /\ GoneAfter(k, client[c].seq)
    <3>1. PICK g \in log : /\ g.event = Gone(k) /\ client[c].seq < g.seq
                           /\ \A x \in log : Tells(x, k) => x.seq <= g.seq
      BY <2>5 DEF GoneAfter
    <3>2. g.event \in SessionEvents \ ViewEvents /\ g.event.key = k /\ g.seq \in Nat
      BY <1>3, <3>1, SessionEvent, EventKey
    <3>3. ASSUME ~ (r.seq < g.seq) PROVE FALSE
      <4>1. g.seq <= sub[c].after /\ g.seq <= r.seq
        BY <1>4, <3>2, <3>3
      <4>2. g \in sub[c].wire
        BY <1>3, <3>1, <3>2, <4>1 DEF StreamOK
      <4>3. g.seq = r.seq
        BY <1>1, <1>4, <3>2, <4>1, <4>2
      <4>4. g = r
        BY <1>3, <1>4, <4>3
      <4> QED BY <2>5, <3>2, <4>4
    <3> QED BY <3>1, <3>3 DEF GoneAfter
  <2> QED BY <1>6, <2>1, <2>2, <2>3, <2>4, <2>5
<1>17. GoneInv(c)'
  <2>1. ASSUME taken[c] = boots + 1
        PROVE  \A x \in log :
                 /\ x.event \in ViewEvents /\ client[c].from < x.seq /\ CurVer[x.event.key] = 0
                 => GoneAfter(x.event.key, x.seq)
    BY <1>3, <1>4, <2>1 DEF ShownInv, GoneInv
  <2> QED BY <1>1, <1>8, <1>12, <1>16, <2>1 DEF GoneInv
<1>18. ShownInv(c)'
  <2>1. client[c].from <= r.seq
    BY <1>4
  <2>2. \A w \in sub'[c].wire : w.event \in SessionEvents
    BY <1>3, <1>7 DEF ShownInv
  <2>3. taken'[c] = boots' + 1 => views'.ready
    BY <1>1, <1>3 DEF ShownInv
  <2> QED BY <1>8, <1>15, <1>17, <2>1, <2>2, <2>3 DEF ShownInv
<1>19. \A d \in Clients \ {c} : UNCHANGED <<client[d], taken[d], shown[d], sub[d]>>
  BY <1>1, <1>7, <1>8, <1>9
<1> QED BY <1>1, <1>11, <1>18, <1>19, OthersShown
-----------------------------------------------------------------------------
(* Writes.                                                                 *)

\* A write of session events is one of the log's: what it says to compact
\* and is no longer stored makes no difference.
LEMMA WriteIsLogs ==
  ASSUME Inv, NEW n \in Nat, NEW new \in [1 .. n -> Events], NEW dead \in SUBSET Nat,
         \A q \in dead : q <= Top, Log!Write(new, dead)
  PROVE  \E known \in SUBSET {r.seq : r \in events} : Log!Write(new, known)
<1> DEFINE known == dead \cap {r.seq : r \in events}
           added == Log!Appended(events, new)
           all == events \cup added
<1>1. \A r \in added : Top < r.seq
  <2>1. DOMAIN new = 1 .. n /\ Top \in Nat
    BY LogHolds DEF Inv, LogOK
  <2>2. added = {[seq |-> Top + i, event |-> new[i]] : i \in 1 .. n}
    BY <2>1 DEF Log!Appended, Top
  <2> SUFFICES ASSUME NEW i \in 1 .. n PROVE Top < Top + i
    BY <2>2
  <2> QED BY <2>1
<1>2. \A r \in added : r.seq \notin dead
  <2>1. Top \in Nat
    BY LogHolds DEF Inv, LogOK
  <2> SUFFICES ASSUME NEW r \in added, r.seq \in dead PROVE FALSE
    OBVIOUS
  <2>2. r.seq <= Top /\ r.seq \in Nat /\ Top < r.seq
    BY <1>1
  <2> QED BY <2>1, <2>2
<1> HIDE DEF added
<1>3. \A r \in all : r.seq \in dead <=> r.seq \in known
  BY <1>2
<1> HIDE DEF known
<1>4. Log!Compacted(all, dead) = Log!Compacted(all, known)
  BY <1>3 DEF Log!Compacted
<1>5. Log!Write(new, known)
  BY <1>4 DEF Log!Write, all, added
<1> QED BY <1>5 DEF known

\* What a write does to the table.
LEMMA WrittenTable ==
  ASSUME Inv, NEW n \in Nat, NEW new \in [1 .. n -> Events], NEW dead \in SUBSET Nat,
         \A q \in dead : q <= Top, n = 0 => dead = {}, Log!Write(new, dead)
  PROVE  /\ unsent = 0 /\ UNCHANGED <<epoch, head, sub, client>>
         /\ Top' = Top + n /\ Top + n <= MaxSeq
         /\ unsent' = IF n = 0 THEN 0 ELSE Top + n
         /\ log \subseteq log' /\ events' \subseteq events \cup (log' \ log)
         /\ \A r \in log' \ log : \E i \in 1 .. n : r.seq = Top + i /\ r.event = new[i]
         /\ \A i \in 1 .. n :
              /\ [seq |-> Top + i, event |-> new[i]] \in log' \ log
              /\ [seq |-> Top + i, event |-> new[i]] \in events'
         /\ \A r \in events \ events' : r.event \in ViewEvents /\ r.seq \in dead
         /\ \A r, o \in events' : r.event \in ViewEvents /\ o.seq < r.seq => r.seq \notin dead
<1> DEFINE added == Log!Appended(events, new)
           all == events \cup added
           gone == Log!Compacted(all, dead)
<1>1. LogOK
  BY LogHolds DEF Inv
<1>2. Len(new) = n /\ DOMAIN new = 1 .. n /\ (new = <<>> <=> n = 0)
  <2>1. new \in Seq(Events)
    OBVIOUS
  <2> QED BY <2>1
<1>3. /\ unsent = 0 /\ Top + n <= MaxSeq
      /\ unsent' = IF n = 0 THEN 0 ELSE Top + n
      /\ log' = log \cup added /\ events' = all \ gone
      /\ UNCHANGED <<epoch, head, sub, client>>
  BY <1>2 DEF Log!Write, Top
<1>4. added = {[seq |-> Top + i, event |-> new[i]] : i \in 1 .. n}
  BY <1>2 DEF Log!Appended, Top
<1>5. \A r : r \in gone <=> /\ r \in all /\ r.seq \in dead /\ r.event \in ViewEvents
                            /\ \E o \in all : o.seq < r.seq
  BY DEF Log!Compacted
<1>6. \A i \in 1 .. n : Top < Top + i
  BY <1>1 DEF LogOK
<1> HIDE DEF added, gone
<1>7. \A r \in added : Top < r.seq /\ \E i \in 1 .. n : r.seq = Top + i /\ r.event = new[i]
  BY <1>4, <1>6
<1>8. \A r \in log : r.seq <= Top /\ r.seq \in Nat
  BY <1>1 DEF LogOK
<1>9. \A r \in added : r \notin log /\ r.seq \notin dead
  <2> SUFFICES ASSUME NEW r \in added PROVE ~ (r.seq <= Top)
    BY <1>8
  <2>1. Top \in Nat /\ \E i \in 1 .. n : r.seq = Top + i
    BY <1>1, <1>7 DEF LogOK
  <2> QED BY <2>1
<1>10. Top' = Top + n
  <2>1. CASE n = 0
    <3>1. added = {} /\ gone = {}
      BY <1>4, <1>5, <2>1
    <3>2. events' = events /\ Top \in Nat
      BY <1>1, <1>3, <3>1 DEF LogOK
    <3> QED BY <2>1, <3>2 DEF Top
  <2>2. CASE n # 0
    <3>1. PICK known \in SUBSET {r.seq : r \in events} : Log!Write(new, known)
      BY WriteIsLogs
    <3>2. Proved!Write(new, known)
      BY <3>1, SameWrite
    <3>3. Proved!Newest(events') = Proved!Newest(events) + n
      BY <2>2, <3>2, LogAssumed, Proved!WriteTable DEF Inv
    <3> QED BY <3>3, SameTable DEF Top
  <2> QED BY <2>1, <2>2
<1>11. \A i \in 1 .. n : [seq |-> Top + i, event |-> new[i]] \in added
  BY <1>4
<1>12. \A r \in added : r \in events' /\ r \in log' \ log
  BY <1>3, <1>5, <1>9
<1>13. log \subseteq log' /\ events' \subseteq events \cup (log' \ log)
  BY <1>3, <1>12
<1>14. \A r \in log' \ log : \E i \in 1 .. n : r.seq = Top + i /\ r.event = new[i]
  BY <1>3, <1>7
<1>15. \A r \in events \ events' : r.event \in ViewEvents /\ r.seq \in dead
  BY <1>3, <1>5
<1>16. \A r, o \in events' : r.event \in ViewEvents /\ o.seq < r.seq => r.seq \notin dead
  BY <1>3, <1>5
<1> QED BY <1>3, <1>10, <1>11, <1>12, <1>13, <1>14, <1>15, <1>16
\* Another component's event says nothing of sessions.
LEMMA OtherWriteViews ==
  ASSUME Inv, OtherWrite
  PROVE  ViewsInv'
<1>1. /\ Log!Write(<<Other>>, {})
      /\ UNCHANGED <<world, views, tick, asked, shown, taken, boots, changes>>
  BY DEF OtherWrite
<1>2. ViewsInv /\ LogOK
  BY LogHolds DEF Inv
<1>3. <<Other>> \in [1 .. 1 -> Events] /\ <<Other>>[1] = Other
  BY SessionEvent
<1>4. /\ unsent = 0 /\ UNCHANGED <<epoch, head, sub, client>>
      /\ Top' = Top + 1 /\ Top + 1 <= MaxSeq /\ unsent' = Top + 1
      /\ log \subseteq log' /\ events' \subseteq events \cup (log' \ log)
      /\ \A r \in log' \ log : r.seq = Top + 1 /\ r.event = Other
      /\ events \subseteq events'
  <2>1. PICK n \in Nat : n = 1
    OBVIOUS
  <2>3. PICK new : new = <<Other>>
    OBVIOUS
  <2>4. PICK dead : dead = {}
    OBVIOUS
  <2>5. /\ new \in [1 .. n -> Events] /\ new[1] = Other
        /\ dead \in SUBSET Nat /\ (\A q \in dead : q <= Top) /\ (n = 0 => dead = {})
    BY <1>3, <2>1, <2>3, <2>4
  <2>6. Log!Write(new, dead)
    BY <1>1, <2>3, <2>4
  <2>2. /\ unsent = 0 /\ UNCHANGED <<epoch, head, sub, client>>
        /\ Top' = Top + n /\ Top + n <= MaxSeq
        /\ unsent' = IF n = 0 THEN 0 ELSE Top + n
        /\ log \subseteq log' /\ events' \subseteq events \cup (log' \ log)
        /\ \A r \in log' \ log : \E i \in 1 .. n : r.seq = Top + i /\ r.event = new[i]
        /\ \A r \in events \ events' : r.event \in ViewEvents /\ r.seq \in dead
    BY <2>5, <2>6, WrittenTable
  <2>7. \A i \in 1 .. n : i = 1
    BY <2>1
  <2> QED BY <2>1, <2>2, <2>4, <2>5, <2>7
<1>5. Top \in Nat /\ \A r \in log : r.seq \in Nat /\ r.seq <= Top
  BY <1>2 DEF LogOK
<1>6. Typed' /\ SameViews
  BY <1>1, <1>2, MemoryKept DEF ViewsInv
<1>7. /\ CurVer' = CurVer /\ CurSeq' = CurSeq
      /\ \A k : CurRow(k)' = CurRow(k)
      /\ views' = views /\ boots' = boots /\ tick' = tick
  BY <1>1, <1>6, CurKept
<1>8. \A r \in log' : r.event \in SessionEvents => r \in log
  BY <1>4, SessionEvent
<1>9. \A r \in log' : r.event \in ViewEvents => r \in log
  BY <1>8, SessionEvent
<1>10. \A k, q : GoneAfter(k, q) => GoneAfter(k, q)'
  BY <1>4, <1>8 DEF GoneAfter, Tells
<1>11. HeadInv'
  <2>1. HeadInv /\ views.cursor \in Nat /\ tick.last \in Nat /\ head \in Nat
    BY <1>2 DEF ViewsInv, Typed, Committed, Tick, LogOK
  <2>2. head <= Top + 1 /\ (tick.at = "written" => tick.last <= Top + 1)
    BY <1>5, <2>1 DEF HeadInv
  <2>3. unsent' # 0
    BY <1>4, <1>5
  <2> QED BY <1>4, <1>7, <2>1, <2>2, <2>3 DEF HeadInv
<1>12. ASSUME NEW k \in Keys PROVE ViewInv(k)'
  <2>1. ViewInv(k)
    BY <1>2 DEF ViewsInv
  <2>2. CASE CurVer[k] = 0
    BY <1>7, <2>1, <2>2 DEF ViewInv
  <2>3. CASE CurVer[k] # 0
    <3>1. /\ CurRow(k) \in log
          /\ \A r \in log : Tells(r, k) => r.seq <= CurSeq[k]
          /\ CurRow(k) \in events \/ \A e \in events : CurSeq[k] < e.seq
      BY <2>1, <2>3 DEF ViewInv
    <3>2. CurSeq[k] \in Nat /\ CurSeq[k] <= Top
      BY <1>5, <3>1 DEF CurRow
    <3>3. \A e \in events' \ events : CurSeq[k] < e.seq
      BY <1>4, <1>5, <3>2
    <3>4. CurRow(k) \in events' \/ \A e \in events' : CurSeq[k] < e.seq
      BY <1>4, <3>1, <3>3
    <3>5. \A r \in log' : Tells(r, k)' => r \in log /\ Tells(r, k)
      BY <1>8 DEF Tells
    <3> QED BY <1>4, <1>7, <2>3, <3>1, <3>4, <3>5 DEF ViewInv
  <2> QED BY <2>2, <2>3
<1>13. OneView'
  <2>1. ASSUME NEW r \in events', NEW o \in events', r.event \in ViewEvents, o.seq < r.seq
        PROVE  r \in events /\ o \in events
    <3>1. r \in log /\ r \in events
      <4>1. r \in log'
        BY <1>2, <1>4 DEF LogOK
      <4> QED BY <1>4, <1>9, <2>1, <4>1
    <3>2. o \notin log' \ log
      BY <1>4, <1>5, <2>1, <3>1
    <3> QED BY <1>4, <3>1, <3>2
  <2> QED BY <1>2, <1>7, <2>1 DEF ViewsInv, OneView
<1>14. CursorInv'
  BY <1>2, <1>7, <1>8, <1>9, <1>10 DEF ViewsInv, CursorInv
<1>15. ASSUME NEW c \in Clients PROVE ShownInv(c)'
  <2>1. ShownInv(c) /\ client' = client /\ sub' = sub /\ epoch' = epoch /\ taken' = taken
        /\ shown' = shown
    BY <1>1, <1>2, <1>4 DEF ViewsInv
  <2>2. LiveInv(c)'
    BY <1>7, <2>1 DEF ShownInv, LiveInv
  <2>3. GoneInv(c)'
    BY <1>7, <1>9, <1>10, <2>1 DEF ShownInv, GoneInv
  <2> QED BY <1>7, <2>1, <2>2, <2>3 DEF ShownInv
<1> QED BY <1>6, <1>11, <1>12, <1>13, <1>14, <1>15 DEF ViewsInv

\* What a tick writes, and what it compacts, row by row.
LEMMA TickRows ==
  ASSUME Inv, TickWrite, NEW now, now = tick.ver
  PROVE  /\ tick.at = "seen" /\ now \in Sessions
         /\ UNCHANGED <<world, views, asked, shown, taken, boots, changes>>
         /\ UNCHANGED <<epoch, head, sub, client>>
         /\ tick' \in Tick /\ tick'.at = "written" /\ tick'.ver = now /\ tick'.last = unsent'
         /\ unsent = 0 /\ Top \in Nat /\ Top' \in Nat /\ Top' <= MaxSeq
         /\ \/ log' = log /\ events' = events /\ Top' = Top /\ unsent' = 0 /\ views.ready
            \/ Top < Top' /\ unsent' = Top' /\ Log!LogWrite
         /\ log \subseteq log' /\ events' \subseteq events \cup (log' \ log)
         /\ \A r \in log' \ log : Top < r.seq /\ r.seq <= Top' /\ r.seq \in Nat
         /\ \A r \in log' \ log :
              \/ r.event = Other
              \/ \E k \in Changed(now) : r.event = View(k, now[k]) /\ tick'.seq[k] = r.seq
              \/ \E k \in Ended(now) : r.event = Gone(k)
         /\ \A k \in Changed(now) :
              /\ Top < tick'.seq[k]
              /\ [seq |-> tick'.seq[k], event |-> View(k, now[k])] \in log' \ log
              /\ [seq |-> tick'.seq[k], event |-> View(k, now[k])] \in events'
         /\ \A k \in Keys : now[k] = 0 => tick'.seq[k] = 0
         /\ \A k \in Keys : now[k] # 0 /\ k \notin Changed(now)
              => tick'.seq[k] = views.seq[k] /\ now[k] = views.ver[k]
         /\ \A k \in Ended(now) :
              \E g \in log' \ log : /\ g.event = Gone(k)
                                    /\ \A h \in log' \ log : h.event = Gone(k) => h.seq = g.seq
         /\ \A r \in events \ events' :
              r.event \in ViewEvents /\ (r.seq \in Superseded(now) \/ ~views.ready)
         /\ \A r, o \in events' : r.event \in ViewEvents /\ o.seq < r.seq
              => r.seq \notin Superseded(now) /\ (views.ready \/ r.seq \notin Earlier)
<1> DEFINE new == TickEvents(now) \o DiagEvents
           dead == Superseded(now) \cup (IF views.ready THEN {} ELSE Earlier)
           seqs == Written(now, new)
<1>1. /\ tick.at = "seen" /\ Log!Write(new, dead)
      /\ tick' = [tick EXCEPT !.at = "written", !.seq = seqs, !.last = unsent']
      /\ UNCHANGED <<world, views, asked, shown, taken, boots, changes>>
  BY DEF TickWrite
<1>2. ViewsInv /\ LogOK
  BY LogHolds DEF Inv
<1>3. tick \in Tick /\ now \in Sessions /\ views \in Committed
  BY <1>2 DEF ViewsInv, Typed, Tick
<1>4. CurVer = views.ver /\ CurSeq = views.seq
  BY <1>1 DEF CurVer, CurSeq
<1>5. Top \in Nat /\ events \subseteq log /\ \A r \in log : r.seq \in Nat /\ r.seq <= Top
  BY <1>2 DEF LogOK
<1>6. dead \in SUBSET Nat /\ \A q \in dead : q <= Top
  <2>1. ASSUME NEW k \in Keys, views.seq[k] # 0
        PROVE  views.seq[k] \in Nat /\ views.seq[k] <= Top
    <3>1. ViewInv(k)
      BY <1>2 DEF ViewsInv
    <3>2. CurRow(k) \in log /\ CurRow(k).seq = views.seq[k]
      BY <1>4, <2>1, <3>1 DEF ViewInv, CurRow
    <3> QED BY <1>5, <3>2
  <2>2. \A q \in Superseded(now) : q \in Nat /\ q <= Top
    BY <2>1 DEF Superseded, Changed, Ended
  <2>3. \A q \in Earlier : q \in Nat /\ q <= Top
    BY <1>5 DEF Earlier
  <2> QED BY <2>2, <2>3
<1> HIDE DEF new
<1>7. PICK n \in 0 .. MaxWrite :
        /\ new \in [1 .. n -> Events] /\ new \in Seq(Events) /\ Len(new) = n
        /\ \A i \in 1 .. n :
             \/ new[i] = Other
             \/ \E k \in Changed(now) : new[i] = View(k, now[k])
             \/ \E k \in Ended(now) : new[i] = Gone(k)
        /\ \A k \in Changed(now) : \E i \in 1 .. n : new[i] = View(k, now[k])
        /\ \A k \in Ended(now) : \E i \in 1 .. n : new[i] = Gone(k)
        /\ \A i, j \in 1 .. n : new[i] = new[j] /\ new[i] # Other => i = j
        /\ n = 0 => Changed(now) = {} /\ Ended(now) = {} /\ views.ready
  <2>1. new = TickEvents(now) \o DiagEvents
    BY DEF new
  <2>2. TickWrites(now, new)
    BY <1>3, <2>1, TickNew
  <2> QED BY <2>2 DEF TickWrites
<1>8. n \in Nat /\ (n = 0 => dead = {})
  BY <1>7, SessionViewsAssumption DEF Superseded
<1> HIDE DEF dead
<1>9. /\ unsent = 0 /\ UNCHANGED <<epoch, head, sub, client>>
      /\ Top' = Top + n /\ Top + n <= MaxSeq
      /\ unsent' = IF n = 0 THEN 0 ELSE Top + n
      /\ log \subseteq log' /\ events' \subseteq events \cup (log' \ log)
      /\ \A r \in log' \ log : \E i \in 1 .. n : r.seq = Top + i /\ r.event = new[i]
      /\ \A i \in 1 .. n :
           /\ [seq |-> Top + i, event |-> new[i]] \in log' \ log
           /\ [seq |-> Top + i, event |-> new[i]] \in events'
      /\ \A r \in events \ events' : r.event \in ViewEvents /\ r.seq \in dead
      /\ \A r, o \in events' : r.event \in ViewEvents /\ o.seq < r.seq => r.seq \notin dead
  BY <1>1, <1>6, <1>7, <1>8, WrittenTable
\* The index of a changed session's view.
<1>10. ASSUME NEW k \in Changed(now)
       PROVE  \E i \in 1 .. n : new[i] = View(k, now[k]) /\ seqs[k] = Top + i
  <2>1. \E i \in DOMAIN new : new[i] = View(k, now[k])
    BY <1>7
  <2>2. PICK i \in DOMAIN new : /\ new[i] = View(k, now[k])
                                /\ i = CHOOSE j \in DOMAIN new : new[j] = View(k, now[k])
    BY <2>1
  <2>3. k \in Keys /\ now[k] # 0
    BY DEF Changed
  <2>4. seqs[k] = Top + i
    BY <2>2, <2>3 DEF Written, Top
  <2> QED BY <1>7, <2>2, <2>4
<1>11. ASSUME NEW k \in Keys
       PROVE  /\ now[k] = 0 => seqs[k] = 0
              /\ now[k] # 0 /\ k \notin Changed(now)
                   => seqs[k] = views.seq[k] /\ now[k] = views.ver[k]
  BY DEF Written, Changed
<1>12. seqs \in [Keys -> Nat]
  <2>1. seqs = [k \in Keys |-> seqs[k]]
    BY DEF Written
  <2>2. ASSUME NEW k \in Keys PROVE seqs[k] \in Nat
    <3>1. CASE k \in Changed(now)
      BY <1>5, <1>10, <3>1
    <3>2. CASE k \notin Changed(now)
      BY <1>3, <1>11, <3>2 DEF Committed
    <3> QED BY <3>1, <3>2
  <2> QED BY <2>1, <2>2
<1> HIDE DEF seqs
<1>13. Top' \in Nat /\ unsent' \in Nat
  BY <1>5, <1>8, <1>9
<1>14. /\ tick' \in Tick /\ tick'.at = "written" /\ tick'.ver = now /\ tick'.last = unsent'
       /\ tick'.seq = seqs
  BY <1>1, <1>3, <1>12, <1>13 DEF Tick
<1>15. \/ log' = log /\ events' = events /\ Top' = Top /\ unsent' = 0 /\ views.ready
       \/ Top < Top' /\ unsent' = Top' /\ Log!LogWrite
  <2>1. CASE n = 0
    <3>1. log' = log /\ events' = events
      BY <1>8, <1>9, <2>1
    <3> QED BY <1>5, <1>7, <1>9, <2>1, <3>1
  <2>2. CASE n # 0
    <3>1. \E known \in SUBSET {r.seq : r \in events} : Log!Write(new, known)
      BY <1>1, <1>6, <1>7, <1>8, WriteIsLogs
    <3>2. n \in 1 .. MaxWrite /\ new \in [1 .. n -> Events]
      BY <1>7, <1>8, <2>2
    <3>3. Log!LogWrite
      BY <3>1, <3>2 DEF Log!LogWrite
    <3> QED BY <1>5, <1>8, <1>9, <2>2, <3>3
  <2> QED BY <2>1, <2>2
<1>16. \A r \in log' \ log : Top < r.seq /\ r.seq <= Top' /\ r.seq \in Nat
  <2> SUFFICES ASSUME NEW r \in log' \ log PROVE Top < r.seq /\ r.seq <= Top' /\ r.seq \in Nat
    OBVIOUS
  <2>1. PICK i \in 1 .. n : r.seq = Top + i
    BY <1>9
  <2> QED BY <1>5, <1>8, <1>9, <2>1
<1>17. \A r \in log' \ log :
         \/ r.event = Other
         \/ \E k \in Changed(now) : r.event = View(k, now[k]) /\ seqs[k] = r.seq
         \/ \E k \in Ended(now) : r.event = Gone(k)
  <2> SUFFICES ASSUME NEW r \in log' \ log, r.event # Other,
                      ~ \E k \in Ended(now) : r.event = Gone(k)
               PROVE  \E k \in Changed(now) : r.event = View(k, now[k]) /\ seqs[k] = r.seq
    OBVIOUS
  <2>1. PICK i \in 1 .. n : r.seq = Top + i /\ r.event = new[i]
    BY <1>9
  <2>2. PICK k \in Changed(now) : new[i] = View(k, now[k])
    BY <1>7, <2>1
  <2>3. PICK j \in 1 .. n : new[j] = View(k, now[k]) /\ seqs[k] = Top + j
    BY <1>10
  <2>4. i = j
    BY <1>7, <2>1, <2>2, <2>3
  <2> QED BY <2>1, <2>2, <2>3, <2>4
<1>18. ASSUME NEW k \in Changed(now)
       PROVE  /\ Top < seqs[k]
              /\ [seq |-> seqs[k], event |-> View(k, now[k])] \in log' \ log
              /\ [seq |-> seqs[k], event |-> View(k, now[k])] \in events'
  <2>1. PICK i \in 1 .. n : new[i] = View(k, now[k]) /\ seqs[k] = Top + i
    BY <1>10
  <2>2. Top < Top + i
    BY <1>5
  <2>3. /\ [seq |-> Top + i, event |-> new[i]] \in log' \ log
        /\ [seq |-> Top + i, event |-> new[i]] \in events'
    BY <1>9
  <2> QED BY <2>1, <2>2, <2>3
<1>19. ASSUME NEW k \in Ended(now)
       PROVE  \E g \in log' \ log : /\ g.event = Gone(k)
                                    /\ \A h \in log' \ log : h.event = Gone(k) => h.seq = g.seq
  <2>1. PICK i \in 1 .. n : new[i] = Gone(k)
    BY <1>7
  <2>2. Gone(k) # Other
    BY SessionEvent DEF Ended
  <2>3. [seq |-> Top + i, event |-> new[i]] \in log' \ log
    BY <1>9
  <2>4. ASSUME NEW h \in log' \ log, h.event = Gone(k) PROVE h.seq = Top + i
    <3>1. PICK j \in 1 .. n : h.seq = Top + j /\ h.event = new[j]
      BY <1>9
    <3>2. i = j
      BY <1>7, <2>1, <2>2, <2>4, <3>1
    <3> QED BY <3>1, <3>2
  <2>5. [seq |-> Top + i, event |-> new[i]].event = Gone(k)
        /\ [seq |-> Top + i, event |-> new[i]].seq = Top + i
    BY <2>1
  <2> QED BY <2>3, <2>4, <2>5
<1>20. \A r \in events \ events' :
         r.event \in ViewEvents /\ (r.seq \in Superseded(now) \/ ~views.ready)
  BY <1>9 DEF dead
<1>21. \A r, o \in events' : r.event \in ViewEvents /\ o.seq < r.seq
         => r.seq \notin Superseded(now) /\ (views.ready \/ r.seq \notin Earlier)
  BY <1>9 DEF dead
<1>22. Top' <= MaxSeq
  BY <1>9
<1>23. /\ \A r \in log' \ log :
            \/ r.event = Other
            \/ \E k \in Changed(now) : r.event = View(k, now[k]) /\ tick'.seq[k] = r.seq
            \/ \E k \in Ended(now) : r.event = Gone(k)
       /\ \A k \in Changed(now) :
            /\ Top < tick'.seq[k]
            /\ [seq |-> tick'.seq[k], event |-> View(k, now[k])] \in log' \ log
            /\ [seq |-> tick'.seq[k], event |-> View(k, now[k])] \in events'
       /\ \A k \in Keys : now[k] = 0 => tick'.seq[k] = 0
       /\ \A k \in Keys : now[k] # 0 /\ k \notin Changed(now)
            => tick'.seq[k] = views.seq[k] /\ now[k] = views.ver[k]
  BY <1>11, <1>14, <1>17, <1>18
<1> QED
  BY <1>1, <1>3, <1>5, <1>9, <1>13, <1>14, <1>15, <1>16, <1>19, <1>20, <1>21, <1>22, <1>23

\* After the write the log tells of the tick's sessions: of those that
\* changed by their new views, of the others as before.
LEMMA TickWriteViews ==
  ASSUME Inv, TickWrite
  PROVE  ViewsInv'
<1>1. PICK now : now = tick.ver
  OBVIOUS
<1> DEFINE fresh == log' \ log
<1>2. /\ tick.at = "seen" /\ now \in Sessions
      /\ UNCHANGED <<world, views, asked, shown, taken, boots, changes>>
      /\ UNCHANGED <<epoch, head, sub, client>>
      /\ tick' \in Tick /\ tick'.at = "written" /\ tick'.ver = now /\ tick'.last = unsent'
      /\ unsent = 0 /\ Top \in Nat /\ Top' \in Nat /\ Top' <= MaxSeq
      /\ \/ log' = log /\ events' = events /\ Top' = Top /\ unsent' = 0 /\ views.ready
         \/ Top < Top' /\ unsent' = Top'
      /\ log \subseteq log' /\ events' \subseteq events \cup fresh
      /\ \A r \in fresh : Top < r.seq /\ r.seq <= Top' /\ r.seq \in Nat
      /\ \A r \in fresh :
           \/ r.event = Other
           \/ \E k \in Changed(now) : r.event = View(k, now[k]) /\ tick'.seq[k] = r.seq
           \/ \E k \in Ended(now) : r.event = Gone(k)
      /\ \A k \in Changed(now) :
           /\ Top < tick'.seq[k]
           /\ [seq |-> tick'.seq[k], event |-> View(k, now[k])] \in fresh
           /\ [seq |-> tick'.seq[k], event |-> View(k, now[k])] \in events'
      /\ \A k \in Keys : now[k] = 0 => tick'.seq[k] = 0
      /\ \A k \in Keys : now[k] # 0 /\ k \notin Changed(now)
           => tick'.seq[k] = views.seq[k] /\ now[k] = views.ver[k]
      /\ \A k \in Ended(now) :
           \E g \in fresh : /\ g.event = Gone(k)
                            /\ \A h \in fresh : h.event = Gone(k) => h.seq = g.seq
      /\ \A r \in events \ events' :
           r.event \in ViewEvents /\ (r.seq \in Superseded(now) \/ ~views.ready)
      /\ \A r, o \in events' : r.event \in ViewEvents /\ o.seq < r.seq
           => r.seq \notin Superseded(now) /\ (views.ready \/ r.seq \notin Earlier)
  BY <1>1, TickRows
<1>3. ViewsInv /\ LogOK
  BY LogHolds DEF Inv
<1>4. /\ Typed /\ HeadInv /\ (\A k \in Keys : ViewInv(k)) /\ OneView /\ CursorInv
      /\ \A c \in Clients : ShownInv(c)
  BY <1>3 DEF ViewsInv
<1>5. /\ CurVer = views.ver /\ CurSeq = views.seq /\ CurVer' = now /\ CurSeq' = tick'.seq
      /\ \A k : CurRow(k)' = [seq |-> tick'.seq[k], event |-> View(k, now[k])]
      /\ \A k : CurRow(k) = [seq |-> views.seq[k], event |-> View(k, views.ver[k])]
  BY <1>2 DEF CurVer, CurSeq, CurRow
<1>6. /\ \A r \in log : r.seq \in Nat /\ r.seq # 0 /\ r.seq <= Top
      /\ \A a, b \in log : a.seq = b.seq => a = b
      /\ events \subseteq log
  BY <1>3 DEF LogOK
<1>7. /\ views.cursor \in Nat /\ head \in Nat /\ views.cursor <= head /\ head <= Top
      /\ ~views.ready => views = NoViews
      /\ \A k \in Keys : /\ views.ver[k] \in Vers \cup {0} /\ views.seq[k] \in Nat
                         /\ now[k] \in Vers \cup {0} /\ tick'.seq[k] \in Nat
  BY <1>2, <1>3, <1>4 DEF Typed, Committed, Tick, Sessions, HeadInv, LogOK
<1>8. /\ \A k \in Changed(now) :
           k \in Keys /\ now[k] # 0 /\ now[k] \in Vers /\ k \notin Ended(now)
      /\ \A k \in Ended(now) : k \in Keys /\ now[k] = 0 /\ views.ver[k] # 0
      /\ \A k \in Keys : now[k] = 0 /\ views.ver[k] # 0 => k \in Ended(now)
  BY <1>7 DEF Changed, Ended
<1> HIDE DEF fresh
\* What the new rows say of a session.
<1>9. ASSUME NEW r \in fresh, NEW k \in Keys, Tells(r, k)
      PROVE  \/ k \in Changed(now) /\ r.event = View(k, now[k]) /\ r.seq = tick'.seq[k]
             \/ k \in Ended(now) /\ r.event = Gone(k)
  <2>1. r.event \in SessionEvents /\ r.event.key = k /\ r.event # Other
    BY <1>9, SessionEvent DEF Tells
  <2>2. CASE \E l \in Changed(now) : r.event = View(l, now[l]) /\ tick'.seq[l] = r.seq
    BY <2>1, <2>2, EventKey
  <2>3. CASE \E l \in Ended(now) : r.event = Gone(l)
    BY <2>1, <2>3, EventKey
  <2> QED BY <1>2, <2>1, <2>2, <2>3
<1>10. ASSUME NEW r \in fresh, r.event \in ViewEvents
       PROVE  /\ r.event.key \in Changed(now) /\ r.event.ver = now[r.event.key]
              /\ r.seq = tick'.seq[r.event.key]
  <2>1. r.event \in SessionEvents /\ r.event.key \in Keys /\ r.event.key = r.event.key
    BY <1>10, SessionEvent
  <2>2. Tells(r, r.event.key)
    BY <2>1 DEF Tells
  <2>3. \A k \in Keys : Gone(k) \notin ViewEvents
    BY SessionEvent
  <2> QED BY <1>9, <1>10, <2>1, <2>2, <2>3, EventKey
<1>11. \A r : r \in log' => r \in log \/ r \in fresh
  BY DEF fresh
<1>12. fresh \subseteq log'
  BY DEF fresh
<1>13. \A r, k : Tells(r, k)' <=> Tells(r, k)
  BY DEF Tells
\* A session that ends is told of last.
<1>14. ASSUME NEW k \in Ended(now), NEW q \in Nat, q <= Top PROVE GoneAfter(k, q)'
  <2>1. PICK g \in fresh : /\ g.event = Gone(k)
                           /\ \A h \in fresh : h.event = Gone(k) => h.seq = g.seq
    BY <1>2
  <2>2. g \in log' /\ q < g.seq /\ Top < g.seq /\ g.seq \in Nat
    BY <1>2, <1>12, <1>14
  <2>3. ASSUME NEW r \in log', Tells(r, k) PROVE r.seq <= g.seq
    <3>1. CASE r \in log
      BY <1>2, <1>6, <2>2, <3>1
    <3>2. CASE r \in fresh
      <4>1. r.event = Gone(k)
        BY <1>8, <1>9, <2>3, <3>2
      <4> QED BY <2>1, <2>2, <3>2, <4>1
    <3> QED BY <1>11, <3>1, <3>2
  <2> QED BY <1>13, <2>1, <2>2, <2>3 DEF GoneAfter
\* Of one that had ended before and is still gone, nothing new is told.
<1>15. ASSUME NEW k \in Keys, NEW q, k \notin Changed(now), k \notin Ended(now),
              GoneAfter(k, q)
       PROVE  GoneAfter(k, q)'
  <2>1. PICK g \in log : /\ g.event = Gone(k) /\ q < g.seq
                         /\ \A r \in log : Tells(r, k) => r.seq <= g.seq
    BY <1>15 DEF GoneAfter
  <2>2. \A r \in log' : Tells(r, k) => r \in log
    BY <1>9, <1>11, <1>15
  <2> QED BY <1>2, <1>13, <2>1, <2>2 DEF GoneAfter
\* A view that this tick keeps is not compacted with another's.
<1>16. ASSUME NEW k \in Keys, now[k] # 0, k \notin Changed(now), CurRow(k) \in events
       PROVE  CurRow(k) \in events'
  <2>1. /\ now[k] = views.ver[k] /\ views.ver[k] # 0 /\ CurRow(k).seq = views.seq[k]
        /\ CurRow(k).event = View(k, views.ver[k]) /\ k \notin Ended(now)
    BY <1>2, <1>5, <1>8, <1>16
  <2>2. views.ready
    BY <1>7, <1>16, <2>1 DEF NoViews, None
  <2>3. ASSUME views.seq[k] \in Superseded(now) PROVE FALSE
    <3>1. PICK l \in Changed(now) \cup Ended(now) :
            views.seq[l] = views.seq[k] /\ views.seq[l] # 0
      BY <2>3 DEF Superseded
    <3>2. l \in Keys /\ ViewInv(l) /\ ViewInv(k)
      BY <1>4, <1>8, <1>16
    <3>3. views.ver[l] # 0
      BY <1>5, <3>1, <3>2 DEF ViewInv
    <3>4. CurRow(l) \in log /\ CurRow(k) \in log
      BY <1>5, <2>1, <3>2, <3>3 DEF ViewInv
    <3>5. CurRow(l).seq = CurRow(k).seq
      BY <1>5, <3>1
    <3>6. CurRow(l) = CurRow(k)
      BY <1>6, <3>4, <3>5
    <3>7. View(l, views.ver[l]) = View(k, views.ver[k])
      BY <1>5, <3>6
    <3>8. l = k
      BY <3>7, EventKey
    <3> QED BY <1>16, <2>1, <3>1, <3>8
  <2> QED BY <1>2, <1>16, <2>1, <2>2, <2>3
<1>17. Typed'
  BY <1>2, <1>4 DEF Typed
<1>18. HeadInv'
  <2>1. head <= Top' /\ tick'.last <= Top'
    BY <1>2, <1>7
  <2>2. unsent' = 0 => head = Top'
    BY <1>2, <1>4 DEF HeadInv
  <2>3. unsent' # 0 => unsent' = Top'
    BY <1>2
  <2> QED BY <1>2, <1>7, <2>1, <2>2, <2>3 DEF HeadInv
<1>19. ASSUME NEW k \in Keys PROVE ViewInv(k)'
  <2>1. CASE now[k] = 0
    BY <1>2, <1>5, <2>1 DEF ViewInv
  <2>2. CASE k \in Changed(now)
    <3>1. CurRow(k)' \in fresh /\ CurRow(k)' \in events' /\ Top < tick'.seq[k]
      BY <1>2, <1>5, <2>2
    <3>2. ASSUME NEW r \in log', Tells(r, k) PROVE r.seq <= tick'.seq[k]
      <4>1. CASE r \in log
        BY <1>2, <1>6, <1>7, <3>1, <4>1
      <4>2. CASE r \in fresh
        BY <1>2, <1>7, <1>8, <1>9, <2>2, <3>2, <4>2
      <4> QED BY <1>11, <4>1, <4>2
    <3> QED BY <1>5, <1>8, <1>12, <1>13, <2>2, <3>1, <3>2 DEF ViewInv
  <2>3. CASE now[k] # 0 /\ k \notin Changed(now)
    <3>1. /\ ViewInv(k) /\ tick'.seq[k] = views.seq[k] /\ now[k] = views.ver[k]
          /\ k \notin Ended(now)
      BY <1>2, <1>4, <1>8, <2>3
    <3>2. CurRow(k)' = CurRow(k)
      BY <1>5, <3>1
    <3>3. /\ CurRow(k) \in log
          /\ \A r \in log : Tells(r, k) => r.seq <= views.seq[k]
          /\ CurRow(k) \in events \/ \A e \in events : views.seq[k] < e.seq
      BY <1>5, <2>3, <3>1 DEF ViewInv
    <3>4. \A r \in log' : Tells(r, k) => r \in log
      BY <1>9, <1>11, <2>3, <3>1
    <3>5. views.seq[k] <= Top /\ views.seq[k] \in Nat
      BY <1>5, <1>6, <1>7, <3>3
    <3>6. \A e \in fresh : views.seq[k] < e.seq
      BY <1>2, <3>5
    <3>7. CurRow(k) \in events' \/ \A e \in events' : views.seq[k] < e.seq
      BY <1>2, <1>16, <2>3, <3>3, <3>6
    <3> QED BY <1>2, <1>5, <1>13, <3>1, <3>2, <3>3, <3>4, <3>7 DEF ViewInv
  <2> QED BY <2>1, <2>2, <2>3
<1>20. OneView'
  <2>1. ASSUME NEW r \in events', NEW o \in events', r.event \in ViewEvents, o.seq < r.seq
        PROVE  now[r.event.key] = r.event.ver /\ tick'.seq[r.event.key] = r.seq
    <3>1. CASE r \in fresh
      BY <1>10, <2>1, <3>1
    <3>2. CASE r \in events
      <4>1. o \in events
        BY <1>2, <1>6, <2>1, <3>2
      <4>2. r.seq \notin Superseded(now) /\ (views.ready \/ r.seq \notin Earlier)
        BY <1>2, <2>1
      <4>3. r.seq \in Earlier
        BY <2>1, <3>2 DEF Earlier
      <4>4. views.ver[r.event.key] = r.event.ver /\ views.seq[r.event.key] = r.seq
        BY <1>4, <1>5, <2>1, <3>2, <4>1, <4>2, <4>3 DEF OneView
      <4>5. r.event.key \in Keys /\ r.event.ver # 0 /\ r.seq # 0
        BY <1>6, <2>1, <3>2, SessionEvent
      <4>6. r.event.key \notin Changed(now) /\ r.event.key \notin Ended(now)
        BY <4>2, <4>4, <4>5 DEF Superseded
      <4>7. now[r.event.key] # 0
        BY <1>8, <4>4, <4>5, <4>6
      <4> QED BY <1>2, <4>4, <4>5, <4>6, <4>7
    <3> QED BY <1>2, <3>1, <3>2
  <2> QED BY <1>5, <2>1 DEF OneView
<1>21. CursorInv'
  <2>1. ASSUME NEW r \in log', r.event \in SessionEvents
        PROVE  r.seq <= views.cursor \/ r.seq <= unsent'
    <3>1. CASE log' = log /\ views.ready
      BY <1>2, <1>4, <2>1, <3>1 DEF CursorInv
    <3>2. CASE unsent' = Top' /\ Top < Top'
      BY <1>2, <1>6, <1>11, <3>2
    <3> QED BY <1>2, <3>1, <3>2
  <2>2. ASSUME views.ready, NEW r \in log', r.event \in ViewEvents, views.cursor < r.seq
        PROVE  now[r.event.key] # 0
    <3>1. r.event \in SessionEvents
      BY <2>2, SessionEvent
    <3>2. CASE r \in log
      <4>1. r.seq <= views.cursor
        BY <1>2, <1>4, <2>2, <3>1, <3>2 DEF CursorInv
      <4> QED BY <1>6, <1>7, <2>2, <3>2, <4>1
    <3>3. CASE r \in fresh
      BY <1>8, <1>10, <2>2, <3>3
    <3> QED BY <1>11, <3>2, <3>3
  <2>3. ASSUME NEW k \in Keys, now[k] # 0, tick'.seq[k] <= views.cursor
        PROVE  now[k] = views.ver[k]
    <3>1. CASE k \in Changed(now)
      <4>1. Top < tick'.seq[k] /\ tick'.seq[k] \in Nat
        BY <1>2, <1>7, <3>1
      <4> QED BY <1>2, <1>7, <2>3, <4>1
    <3>2. CASE k \notin Changed(now)
      BY <1>2, <2>3, <3>2
    <3> QED BY <3>1, <3>2
  <2>4. PICK q \in Nat : q = views.cursor /\ q <= Top
    BY <1>2, <1>7
  <2>5. views' = views /\ tick'.ver = now /\ tick'.last = unsent' /\ tick'.at = "written"
    BY <1>2
  <2>6. ASSUME NEW k \in Keys, now[k] = 0, views.ver[k] # 0
        PROVE  GoneAfter(k, views.cursor)'
    <3>1. GoneAfter(k, q)'
      BY <1>8, <1>14, <2>4, <2>6
    <3> QED BY <2>4, <2>5, <3>1 DEF GoneAfter
  <2> QED BY <2>1, <2>2, <2>3, <2>5, <2>6 DEF CursorInv
<1>22. ASSUME NEW c \in Clients PROVE ShownInv(c)'
  <2>1. /\ ShownInv(c) /\ client' = client /\ sub' = sub /\ epoch' = epoch /\ taken' = taken
        /\ shown' = shown /\ boots' = boots /\ views' = views
    BY <1>2, <1>4
  <2>2. /\ client[c].seq \in Nat /\ client[c].from \in Nat /\ sub[c].after \in Nat
        /\ client[c].epoch = epoch => client[c].seq <= Top
        /\ sub[c].state # "off" => sub[c].after <= Top
    BY <1>3 DEF LogOK, StreamOK
  <2>3. LiveInv(c)'
    <3>1. ASSUME client[c].epoch = epoch, taken[c] # 0, NEW k \in Keys, now[k] # 0
          PROVE  /\ tick'.seq[k] <= client[c].seq => shown[c][k] = now[k]
                 /\ /\ sub[c].state # "off" /\ client[c].seq < tick'.seq[k]
                    /\ tick'.seq[k] <= sub[c].after
                    => CurRow(k)' \in sub[c].wire
      <4>1. CASE k \in Changed(now)
        <5>1. Top < tick'.seq[k]
          BY <1>2, <4>1
        <5> QED BY <1>2, <1>7, <2>2, <3>1, <5>1
      <4>2. CASE k \notin Changed(now)
        <5>1. tick'.seq[k] = views.seq[k] /\ now[k] = views.ver[k]
          BY <1>2, <3>1, <4>2
        <5>2. CurRow(k)' = CurRow(k)
          BY <1>5, <5>1
        <5> QED BY <1>5, <2>1, <3>1, <5>1, <5>2 DEF ShownInv, LiveInv
      <4> QED BY <4>1, <4>2
    <3> QED BY <1>5, <2>1, <3>1 DEF LiveInv
  <2>4. GoneInv(c)'
    <3>1. ASSUME client[c].epoch = epoch, taken[c] = boots + 1
          PROVE  /\ \A k \in Keys :
                      views.ver[k] = 0 => shown[c][k] = 0 \/ GoneAfter(k, client[c].seq)
                 /\ \A r \in log :
                      /\ r.event \in ViewEvents /\ client[c].from < r.seq
                      /\ views.ver[r.event.key] = 0
                      => GoneAfter(r.event.key, r.seq)
      BY <1>5, <2>1, <3>1 DEF ShownInv, GoneInv
    <3>2. ASSUME client[c].epoch = epoch, taken[c] = boots + 1, NEW k \in Keys, now[k] = 0,
                 shown[c][k] # 0
          PROVE  GoneAfter(k, client[c].seq)'
      <4>1. PICK q \in Nat : q = client[c].seq
        BY <2>2
      <4>2. CASE k \in Ended(now)
        <5>1. GoneAfter(k, q)'
          BY <1>14, <2>2, <3>2, <4>1, <4>2
        <5> QED BY <2>1, <4>1, <5>1 DEF GoneAfter
      <4>3. CASE k \notin Ended(now)
        <5>1. k \notin Changed(now) /\ GoneAfter(k, q)
          BY <1>8, <3>1, <3>2, <4>1, <4>3
        <5>2. GoneAfter(k, q)'
          BY <1>15, <4>3, <5>1
        <5> QED BY <2>1, <4>1, <5>2 DEF GoneAfter
      <4> QED BY <4>2, <4>3
    <3>3. ASSUME client[c].epoch = epoch, taken[c] = boots + 1, NEW r \in log',
                 r.event \in ViewEvents, client[c].from < r.seq, now[r.event.key] = 0
          PROVE  GoneAfter(r.event.key, r.seq)'
      <4>1. r \in log /\ r.event.key \in Keys
        BY <1>8, <1>10, <1>11, <3>3, SessionEvent
      <4>2. PICK k \in Keys : k = r.event.key
        BY <4>1
      <4>3. PICK q \in Nat : q = r.seq
        BY <1>6, <4>1
      <4>4. CASE k \in Ended(now)
        BY <1>6, <1>14, <4>1, <4>2, <4>3, <4>4
      <4>5. CASE k \notin Ended(now)
        <5>1. k \notin Changed(now) /\ GoneAfter(k, q)
          BY <1>8, <3>1, <3>3, <4>1, <4>2, <4>3, <4>5
        <5> QED BY <1>15, <4>2, <4>3, <4>5, <5>1
      <4> QED BY <4>4, <4>5
    <3> QED BY <1>5, <2>1, <3>2, <3>3 DEF GoneInv
  <2> QED BY <2>1, <2>3, <2>4 DEF ShownInv
<1> QED BY <1>17, <1>18, <1>19, <1>20, <1>21, <1>22 DEF ViewsInv
-----------------------------------------------------------------------------
(* Every step is a step of the log or leaves it alone.                     *)

\* A step of the log here is one of EventLog_proofs.
LEMMA LogNextIs ==
  ASSUME Log!Next
  PROVE  Proved!Next
<1>1. CASE Log!LogWrite
  <2>1. PICK n \in 1 .. MaxWrite :
          \E new \in [1 .. n -> Events] :
            \E dead \in SUBSET {r.seq : r \in events} : Log!Write(new, dead)
    BY <1>1 DEF Log!LogWrite
  <2>2. PICK new \in [1 .. n -> Events], dead \in SUBSET {r.seq : r \in events} :
          Log!Write(new, dead)
    BY <2>1
  <2>3. Proved!Write(new, dead)
    BY <2>2, SameWrite
  <2>4. Proved!LogWrite
    BY <2>3 DEF Proved!LogWrite
  <2> QED BY <2>4 DEF Proved!Next
<1>2. CASE \/ Log!Publish \/ Log!Recreate
           \/ \E old \in 0 .. MaxSeq : Log!Prune(old) \/ Log!Restart(old)
  BY <1>2, SameWriter DEF Proved!Next
<1>3. CASE \E c \in Clients : \E at \in 0 .. MaxSeq : Log!Snapshot(c, at)
  BY <1>3, SameCursor DEF Proved!Next
<1>4. CASE \E c \in Clients : \E r \in sub[c].wire : Log!Deliver(c, r)
  BY <1>4, SameCursor DEF Proved!Next
<1>5. CASE \E c \in Clients : Log!Subscribe(c) \/ Log!Refused(c) \/ Log!Ended(c) \/ Log!Drop(c)
  BY <1>5, SameCursor DEF Proved!Next
<1>6. CASE \E c \in Clients : \/ Log!ReadRows(c) \/ Log!ReadNothing(c) \/ Log!Park(c)
                              \/ Log!ReadExpired(c) \/ Log!Wake(c)
  BY <1>6, SameStream DEF Proved!Next
<1> QED BY <1>1, <1>2, <1>3, <1>4, <1>5, <1>6 DEF Log!Next

\* A step of detection and of its clients, seen from the log.
LEMMA StepsOfTheLog ==
  ASSUME Inv, [Next]_vars
  PROVE  [Log!Next]_Log!vars
<1>1. ViewsInv /\ LogOK
  BY LogHolds DEF Inv
<1>2. Top <= MaxSeq /\ head \in 0 .. MaxSeq /\ views.cursor \in 0 .. MaxSeq
  BY <1>1, SessionViewsAssumption DEF ViewsInv, HeadInv, LogOK, Typed, Committed
<1>3. UNCHANGED logVars => UNCHANGED Log!vars
  BY DEF logVars, Log!vars
<1>4. CASE \/ \E k \in Keys, v \in Vers \cup {0} : Change(k, v)
           \/ Observe \/ TickFail \/ TickCommit
           \/ \E c \in Clients : ReadNoViews(c)
  BY <1>3, <1>4 DEF Change, Observe, TickFail, TickCommit, ReadNoViews
<1>5. CASE TickWrite
  <2>1. \/ log' = log /\ events' = events /\ Top' = Top /\ unsent' = 0 /\ views.ready
        \/ Top < Top' /\ unsent' = Top' /\ Log!LogWrite
    BY <1>5, TickRows
  <2>2. unsent = 0 /\ UNCHANGED <<epoch, head, sub, client>>
    BY <1>5, TickRows
  <2> QED BY <2>1, <2>2 DEF Log!Next, Log!vars
<1>6. CASE OtherWrite
  <2>1. Log!Write(<<Other>>, {})
    BY <1>6 DEF OtherWrite
  <2>2. 1 \in 1 .. MaxWrite
    <3>1. Cardinality(Keys) \in Nat
      BY SessionViewsAssumption, FS_CardinalityType
    <3> QED BY <3>1, SessionViewsAssumption
  <2>3. PICK n : n = 1
    OBVIOUS
  <2>4. n \in 1 .. MaxWrite /\ <<Other>> \in [1 .. n -> Events]
    BY <2>2, <2>3, SessionEvent
  <2>5. {} \in SUBSET {r.seq : r \in events}
    OBVIOUS
  <2>6. Log!LogWrite
    BY <2>1, <2>4, <2>5 DEF Log!LogWrite
  <2> QED BY <2>6 DEF Log!Next
<1>7. CASE Publish \/ Recreate \/ \E old \in 0 .. MaxSeq : Prune(old) \/ Restart(old)
  BY <1>7 DEF Publish, Prune, Restart, Recreate, Boot, Log!Next
<1>8. CASE \E c \in Clients : ReadViews(c) \/ ReadHead(c)
  <2>1. PICK c \in Clients : ReadViews(c) \/ ReadHead(c)
    BY <1>8
  <2>2. \E at \in 0 .. MaxSeq : Log!Snapshot(c, at)
    BY <1>2, <2>1 DEF ReadViews, ReadHead
  <2> QED BY <2>2 DEF Log!Next
<1>9. CASE \E c \in Clients : StreamSteps(c) \/ ConnSteps(c)
  BY <1>9 DEF StreamSteps, ConnSteps, Log!Next
<1>10. CASE \E c \in Clients : \E r \in sub[c].wire : Deliver(c, r)
  BY <1>10 DEF Deliver, Log!Next
<1>11. CASE UNCHANGED vars
  BY <1>11 DEF vars, Log!vars
<1> QED BY <1>4, <1>5, <1>6, <1>7, <1>8, <1>9, <1>10, <1>11 DEF Next

\* The invariant of the views goes on over every step.
LEMMA ViewsStep ==
  ASSUME Inv, [Next]_vars
  PROVE  ViewsInv'
<1>1. CASE \/ \E k \in Keys, v \in Vers \cup {0} : Change(k, v)
           \/ Observe \/ TickFail
           \/ \E c \in Clients : ReadNoViews(c)
  BY <1>1, MemoryStep
<1>2. CASE TickWrite
  BY <1>2, TickWriteViews
<1>3. CASE TickCommit
  BY <1>3, CommitViews
<1>4. CASE OtherWrite
  BY <1>4, OtherWriteViews
<1>5. CASE Publish
  BY <1>5, PublishViews
<1>6. CASE \E old \in 0 .. MaxSeq : Prune(old)
  <2>1. PICK old \in 0 .. MaxSeq : Prune(old)
    BY <1>6
  <2>2. old \in Int
    BY <2>1, SessionViewsAssumption
  <2> QED BY <2>1, <2>2, PruneViews
<1>7. CASE Recreate \/ \E old \in 0 .. MaxSeq : Restart(old)
  BY <1>7, BootViews
<1>8. ASSUME NEW c \in Clients, ReadViews(c) PROVE ViewsInv'
  BY <1>8, ReadViewsStep
<1>9. ASSUME NEW c \in Clients, ReadHead(c) PROVE ViewsInv'
  BY <1>9, ReadHeadStep
<1>10. ASSUME NEW c \in Clients, StreamSteps(c) PROVE ViewsInv'
  <2>1. UNCHANGED <<world, views, tick, asked, shown, taken, boots, changes>>
    BY <1>10 DEF StreamSteps
  <2>2. CASE Log!ReadRows(c)
    BY <2>1, <2>2, ReadRowsViews
  <2>3. CASE Log!ReadNothing(c) \/ Log!Park(c) \/ Log!ReadExpired(c) \/ Log!Wake(c)
    BY <2>1, <2>3, IdleViews
  <2> QED BY <1>10, <2>2, <2>3 DEF StreamSteps
<1>11. ASSUME NEW c \in Clients, ConnSteps(c) PROVE ViewsInv'
  <2>1. UNCHANGED <<world, views, tick, asked, shown, taken, boots, changes>>
    BY <1>11 DEF ConnSteps
  <2>2. CASE Log!Subscribe(c)
    BY <2>1, <2>2, SubscribeViews
  <2>3. CASE Log!Refused(c) \/ Log!Ended(c)
    BY <2>1, <2>3, CursorLostViews
  <2>4. CASE Log!Drop(c)
    BY <2>1, <2>4, IdleViews
  <2> QED BY <1>11, <2>2, <2>3, <2>4 DEF ConnSteps
<1>12. ASSUME NEW c \in Clients, NEW r \in sub[c].wire, Deliver(c, r) PROVE ViewsInv'
  BY <1>12, DeliverViews
<1>13. CASE UNCHANGED vars
  <2>1. /\ ViewsInv /\ SameViews /\ Ages
        /\ UNCHANGED <<log, epoch>> /\ Top' = Top
        /\ UNCHANGED <<views, tick, head, unsent>>
        /\ \A c \in Clients : ClientKept(c)
    BY <1>13 DEF Inv, vars, SameViews, Ages, Top, ClientKept
  <2>2. Typed'
    BY <1>13, <2>1, MemoryKept DEF vars, ViewsInv
  <2>3. HeadInv'
    BY <2>1, HeadKept DEF ViewsInv
  <2> QED BY <2>1, <2>2, <2>3, ViewsKept, ShownKept DEF ViewsInv
<1> QED
  BY <1>1, <1>2, <1>3, <1>4, <1>5, <1>6, <1>7, <1>8, <1>9, <1>10, <1>11, <1>12, <1>13 DEF Next

LEMMA LogInit == Init => Log!Init /\ Proved!Init
<1>1. Log!Init => Proved!Init
  BY SameConstants DEF Log!Init, Proved!Init
<1> QED BY <1>1 DEF Init

\* Nothing is listed, committed or shown at first.
LEMMA InitInv == Init => Inv
<1> SUFFICES ASSUME Init PROVE Inv
  OBVIOUS
<1>1. Proved!Inv
  BY LogInit, LogAssumed, Proved!InitInv
<1>2. LogOK
  BY <1>1, LogHolds
<1>3. /\ world = None /\ views = NoViews /\ tick = NoTick
      /\ asked = {} /\ shown = [c \in Clients |-> None]
      /\ taken = [c \in Clients |-> 0] /\ boots = 0 /\ changes = 0
  BY DEF Init
<1>4. /\ events = {} /\ log = {} /\ head = 0 /\ unsent = 0 /\ epoch = 1
      /\ sub = [c \in Clients |-> Log!Off] /\ client = [c \in Clients |-> Log!NoCursor]
  BY DEF Init, Log!Init
<1>5. Top = 0
  BY <1>4 DEF Top, Log!Newest
<1>6. Typed
  BY <1>3, NoneTyped, SessionViewsAssumption DEF Typed
<1>7. HeadInv
  BY <1>3, <1>4, <1>5, SessionViewsAssumption DEF HeadInv, NoViews, NoTick
<1>8. ~views.ready /\ tick.at = "idle" /\ CurVer = None /\ CurSeq = None
  BY <1>3 DEF NoViews, NoTick, CurVer, CurSeq
<1>9. \A k \in Keys : CurVer[k] = 0 /\ CurSeq[k] = 0
  BY <1>8 DEF None
<1>10. (\A k \in Keys : ViewInv(k)) /\ OneView /\ CursorInv
  BY <1>8, <1>9 DEF ViewInv, OneView, CursorInv
<1>11. ASSUME NEW c \in Clients PROVE ShownInv(c)
  <2>1. taken[c] = 0 /\ boots = 0 /\ sub[c].wire = {} /\ client[c].epoch = 0 /\ epoch = 1
    BY <1>3, <1>4 DEF Log!Off, Log!NoCursor
  <2> QED BY <1>9, <2>1 DEF ShownInv, LiveInv, GoneInv
<1> QED BY <1>1, <1>6, <1>7, <1>10, <1>11 DEF Inv, ViewsInv

LEMMA NextInv == Inv /\ [Next]_vars => Inv'
<1> SUFFICES ASSUME Inv, [Next]_vars PROVE Inv'
  OBVIOUS
<1>1. [Log!Next]_Log!vars
  BY StepsOfTheLog
<1>2. Log!vars = Proved!vars /\ (UNCHANGED Log!vars => UNCHANGED Proved!vars)
  BY DEF Log!vars, Proved!vars
<1>3. [Proved!Next]_Proved!vars
  BY <1>1, <1>2, LogNextIs
<1>4. Proved!Inv'
  BY <1>3, LogAssumed, Proved!NextInv DEF Inv
<1>5. ViewsInv'
  BY ViewsStep
<1> QED BY <1>4, <1>5 DEF Inv

\* The invariant holds in every reachable state.
LEMMA InvHolds == Spec => []Inv
BY InitInv, NextInv, PTL DEF Spec

-----------------------------------------------------------------------------
\* Detection and its clients keep the promise that the log's guarantees rest
\* on: the log they write is a log of EventLog, in which whatever is
\* compacted leaves with the write of something newer.
THEOREM ViewsRunTheLog == Spec => LogSpec
<1>1. Init => Log!Init
  BY LogInit
<1>2. Inv /\ [Next]_vars => [Log!Next]_Log!vars
  BY StepsOfTheLog
<1> QED BY <1>1, <1>2, InvHolds, PTL DEF Spec, LogSpec, Log!Spec

\* Between ticks the log holds no other view than the current ones, except
\* as its oldest row.
THEOREM OneViewIsStored == Spec => []OneStoredView
<1>1. Inv => OneStoredView
  BY DEF Inv, ViewsInv, OneView, OneStoredView, CurVer, CurSeq
<1> QED BY <1>1, InvHolds, PTL

\* A row that a client with a good cursor has not passed is still stored,
\* unless it is a view.
LEMMA NotExpired ==
  ASSUME Inv, NEW c \in Clients, ~Log!Expired(events, client[c].seq)
  PROVE  /\ client[c].seq \in Nat
         /\ \A r \in log : client[c].seq < r.seq => ~ \A e \in events : r.seq < e.seq
         /\ \A r \in log : r.event \notin ViewEvents /\ client[c].seq < r.seq => r \in events
<1>1. /\ LogOK /\ client[c].seq \in Nat
      /\ \A r \in log \ events : r.event \in ViewEvents \/ \A e \in events : r.seq < e.seq
      /\ events \subseteq log
  BY LogHolds DEF Inv, Proved!Inv, Proved!LogInv, Proved!HolesAreViews, LogOK, StreamOK
<1>2. \A r \in log : r.seq \in Nat /\ r.seq # 0 /\ r.seq <= Top
  BY <1>1 DEF LogOK
<1>3. ASSUME NEW r \in log, client[c].seq < r.seq, \A e \in events : r.seq < e.seq
      PROVE  FALSE
  <2>1. CASE events = {}
    <3>1. Top = 0
      BY <2>1 DEF Top, Log!Newest
    <3> QED BY <1>2, <3>1
  <2>2. CASE events # {}
    <3>1. PICK e \in events : ~ (client[c].seq + 1 < e.seq)
      BY <2>2 DEF Log!Expired
    <3>2. e.seq \in Nat /\ r.seq \in Nat /\ r.seq < e.seq
      BY <1>1, <1>2, <1>3, <3>1
    <3> QED BY <1>1, <1>3, <3>1, <3>2
  <2> QED BY <2>1, <2>2
<1> QED BY <1>1, <1>3

\* A client that read committed views and has processed what is stored shows
\* every listed session at its version, and nothing else if it read them
\* from this run of the engine.
THEOREM CaughtUpIsAlwaysTrue == Spec => []CaughtUpIsTrue
<1>1. Inv => CaughtUpIsTrue
  <2> SUFFICES ASSUME Inv PROVE CaughtUpIsTrue
    OBVIOUS
  <2>1. ViewsInv /\ LogOK
    BY LogHolds DEF Inv
  <2>2. TypeOK
    <3>1. Log!TypeOK
      BY SameConstants DEF Inv, Proved!Inv
    <3> QED BY <2>1, <3>1 DEF ViewsInv, Typed, TypeOK
  <2>3. \A k \in Keys : views.ver[k] \in Vers \cup {0} /\ views.seq[k] \in Nat
    BY <2>1 DEF ViewsInv, Typed, Committed, Sessions
  <2>4. ASSUME NEW c \in Clients, CaughtUp(c), taken[c] # 0, NEW k \in Keys, views.ver[k] # 0
        PROVE  shown[c][k] = views.ver[k]
    <3>1. CurVer = views.ver /\ CurSeq = views.seq /\ client[c].epoch = epoch
      BY <2>4 DEF CaughtUp, CurVer, CurSeq
    <3>2. /\ CurRow(k) \in log
          /\ CurRow(k) \in events \/ \A e \in events : CurSeq[k] < e.seq
      BY <2>1, <2>4, <3>1 DEF ViewsInv, ViewInv
    <3>3. CurRow(k).seq = views.seq[k] /\ CurRow(k).event \in SessionEvents
      BY <2>3, <2>4, <3>1, SessionEvent DEF CurRow
    <3>4. ~ (client[c].seq < views.seq[k])
      <4>1. CASE CurRow(k) \in events
        BY <2>4, <3>3, <4>1 DEF CaughtUp
      <4>2. CASE \A e \in events : CurSeq[k] < e.seq
        BY <2>4, <3>1, <3>2, <3>3, <4>2, NotExpired DEF CaughtUp
      <4> QED BY <3>2, <4>1, <4>2
    <3>5. views.seq[k] <= client[c].seq
      BY <2>1, <2>3, <3>4 DEF LogOK, StreamOK
    <3> QED BY <2>1, <2>4, <3>1, <3>5 DEF ViewsInv, ShownInv, LiveInv
  <2>5. ASSUME NEW c \in Clients, CaughtUp(c), taken[c] = boots + 1, NEW k \in Keys,
               views.ver[k] = 0
        PROVE  shown[c][k] = 0
    <3>1. CurVer = views.ver /\ client[c].epoch = epoch
      BY <2>5 DEF CaughtUp, CurVer
    <3>2. shown[c][k] = 0 \/ GoneAfter(k, client[c].seq)
      BY <2>1, <2>5, <3>1 DEF ViewsInv, ShownInv, GoneInv
    <3>3. ASSUME GoneAfter(k, client[c].seq) PROVE FALSE
      <4>1. PICK g \in log : g.event = Gone(k) /\ client[c].seq < g.seq
        BY <3>3 DEF GoneAfter
      <4>2. g.event \in SessionEvents /\ g.event \notin ViewEvents
        BY <4>1, SessionEvent
      <4>3. g \in events
        BY <2>5, <4>1, <4>2, NotExpired DEF CaughtUp
      <4> QED BY <2>5, <4>1, <4>2, <4>3 DEF CaughtUp
    <3> QED BY <3>2, <3>3
  <2>6. CaughtUpShowsLive
    BY <2>4 DEF CaughtUpShowsLive, ShowsLive
  <2>7. CaughtUpIsCurrent
    <3> SUFFICES ASSUME NEW c \in Clients, CaughtUp(c), taken[c] = boots + 1
                 PROVE  shown[c] = views.ver
      BY DEF CaughtUpIsCurrent, ShowsExactly
    <3>1. shown[c] \in Sessions /\ views.ver \in Sessions /\ boots \in Nat
      BY <2>1, SessionViewsAssumption DEF ViewsInv, Typed, Committed
    <3>2. taken[c] # 0
      BY <3>1
    <3>3. \A k \in Keys : shown[c][k] = views.ver[k]
      BY <2>4, <2>5, <3>2
    <3> QED BY <3>1, <3>3 DEF Sessions
  <2> QED BY <2>2, <2>6, <2>7 DEF CaughtUpIsTrue
<1> QED BY <1>1, InvHolds, PTL

\* What detection publishes reaches its clients as the log promises: a client
\* that resumes with an accepted cursor missed nothing but views that newer
\* ones replaced, its stream sleeps over no commit, no seq is used twice, and no
\* commit makes a cursor expire.
THEOREM ViewsKeepTheLog ==
  Spec => /\ [](Log!NoSilentGap /\ Log!NoWakeIsLost)
          /\ Log!SeqNeverReused /\ Log!CommitExpiresNobody
<1>1. Spec => Proved!Spec
  <2>1. Init => Proved!Init
    BY LogInit
  <2>2. Inv /\ [Next]_vars => [Proved!Next]_Proved!vars
    <3> SUFFICES ASSUME Inv, [Next]_vars PROVE [Proved!Next]_Proved!vars
      OBVIOUS
    <3>1. [Log!Next]_Log!vars
      BY StepsOfTheLog
    <3> QED BY <3>1, LogNextIs DEF Log!vars, Proved!vars
  <2> QED BY <2>1, <2>2, InvHolds, PTL DEF Spec, Proved!Spec
<1>2. Proved!Spec => /\ []Proved!NoSilentGap
                     /\ []Proved!NoWakeIsLost
                     /\ Proved!SeqNeverReused
                     /\ Proved!CommitExpiresNobody
  BY LogAssumed, Proved!NothingIsSkipped, Proved!StreamsAreWoken, Proved!SeqIsFresh,
     Proved!CompactionExpiresNobody
<1>3. (Proved!NoSilentGap => Log!NoSilentGap) /\ (Proved!NoWakeIsLost => Log!NoWakeIsLost)
  BY SameTable DEF Log!NoSilentGap, Proved!NoSilentGap, Log!NoWakeIsLost, Proved!NoWakeIsLost
<1>4. [epoch' = epoch => \A r \in log' \ log : \A o \in log : o.seq < r.seq]_Proved!vars
        => [epoch' = epoch => \A r \in log' \ log : \A o \in log : o.seq < r.seq]_Log!vars
  BY DEF Log!vars, Proved!vars
<1>5. [log' # log /\ epoch' = epoch =>
         \A q \in 0 .. MaxSeq :
           ~Proved!Expired(events, q) => ~Proved!Expired(events', q)]_Proved!vars
        => [log' # log /\ epoch' = epoch =>
              \A q \in 0 .. MaxSeq :
                ~Log!Expired(events, q) => ~Log!Expired(events', q)]_Log!vars
  BY SameTable DEF Log!vars, Proved!vars
<1>6. []Proved!NoSilentGap /\ []Proved!NoWakeIsLost => [](Log!NoSilentGap /\ Log!NoWakeIsLost)
  BY <1>3, PTL
<1>7. Proved!SeqNeverReused => Log!SeqNeverReused
  BY <1>4, PTL DEF Log!SeqNeverReused, Proved!SeqNeverReused
<1>8. Proved!CommitExpiresNobody => Log!CommitExpiresNobody
  BY <1>5, PTL DEF Log!CommitExpiresNobody, Proved!CommitExpiresNobody
<1> QED BY <1>1, <1>2, <1>6, <1>7, <1>8
=============================================================================
