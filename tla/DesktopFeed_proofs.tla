------------------------- MODULE DesktopFeed_proofs -------------------------
(* Proofs about the desktop window, for every number of subscriptions,     *)
(* changes, crashes and prunes, and every length of the queues.            *)
EXTENDS DesktopFeed, FiniteSetTheorems, SequenceTheorems, TLAPS

-----------------------------------------------------------------------------
(* The inductive invariant, in parts.                                      *)

\* Every position anywhere is one that the engine committed.
SubWithin(s) ==
  /\ sub[s].since <= Len(log) /\ sub[s].pos <= Len(log)
  /\ \A i \in DOMAIN sub[s].chan : sub[s].chan[i].pos <= Len(log)
Within ==
  /\ \A i \in DOMAIN wire : wire[i].pos <= Len(log)
  /\ \A s \in Subs : SubWithin(s)
  /\ \A i \in DOMAIN feed.batch : feed.batch[i] <= Len(log)
  /\ feed.from <= Len(log)
  /\ shown.src = "core" => shown.pos <= Len(log)

\* What the stage of the feed says of it.
StageInv ==
  /\ feed.at = "rest" <=> feed.sub = NoSub
  /\ feed.at \in {"rest", "probe"} => feed.batch = <<>>
  /\ feed.at = "live" =>
       period.at = "none" /\ shown = Core(feed.from, feed.rows) /\ sub[feed.sub].call = "ok"

\* A subscription that the bridge has waits or was answered; its number was
\* new when it was asked for.
NoFrames(s) == \A i \in DOMAIN wire : wire[i].sub # s
SubInv(s) ==
  LET b == sub[s] IN
  /\ b.in => b.call \in {"waiting", "ok"}
  /\ b.on => s \in asked
  /\ b.call \in {"invoked", "begun"} => s \notin asked
  /\ b.in \/ b.call \in {"invoked", "begun"} => s \in asked \/ NoFrames(s)
  /\ s # feed.sub \/ feed.at = "probe" => b.chan = <<>>

\* Its answer comes before its events, and is the cursor it asked from.
Answered(s) ==
  \A i \in DOMAIN wire :
    wire[i].sub = s /\ wire[i].kind = "ok" =>
      wire[i].pos = sub[s].since /\ \A j \in Coming(s) : i < j

\* The stream of a generation that may show it.
FeedInv ==
  feed.at \in {"sub", "live"} =>
    LET s == feed.sub b == sub[s] IN
    /\ b.call \in {"invoked", "begun"} =>
         b.since = feed.from /\ feed.batch = <<>> /\ b.chan = <<>>
    /\ b.in => Gapless(s) /\ Answered(s)
    /\ b.call = "ok" /\ ~b.in => \E i \in DOMAIN b.chan : b.chan[i].kind # "event"

\* The events of s in the webview and in its channel follow what is shown,
\* whether the bridge still has the stream or not.
Queued(s) ==
  LET held == feed.from + Len(feed.batch) IN
  /\ \A i \in DOMAIN feed.batch : feed.batch[i] = feed.from + i
  /\ \A i \in DOMAIN sub[s].chan :
        sub[s].chan[i].kind = "event" => sub[s].chan[i] = InChan("event", held + i)

QueueInv ==
  feed.at \in {"sub", "live"} =>
    Queued(feed.sub) /\ (shown.src = "core" => shown.pos <= feed.from)

\* What this run of the engine committed last is what its log says, unless
\* the session is not there.
LogInv ==
  /\ \A v, w \in engine.seen : v = w
  /\ \A v \in engine.seen \ {0} : log # <<>> /\ Last(log) = v

\* The rows of a generation that may show them are what the log says at their
\* position, unless they say that the session is not there; and what they come
\* to is what the engine committed last, if that is a session or the rows are of
\* this run.
TruthInv ==
  feed.at \in {"sub", "live"} =>
    /\ feed.run <= count.crashes
    /\ feed.run = count.crashes => engine.seen # {}
    /\ feed.rows = 0 \/ (feed.from > 0 /\ feed.rows = log[feed.from])
    /\ \A v \in engine.seen : v # 0 \/ feed.run = count.crashes => Leads = v

Inv ==
  /\ TypeOK /\ Within /\ StageInv /\ (\A s \in Subs : SubInv(s)) /\ FeedInv /\ QueueInv
  /\ LogInv /\ TruthInv

-----------------------------------------------------------------------------
(* Types.                                                                  *)

LEMMA Types ==
  ASSUME TypeOK
  PROVE  /\ log \in Seq(Sessions) /\ Len(log) \in Nat
         /\ wire \in Seq(OnWire) /\ sub \in [Subs -> Sub]
         /\ \A s \in Subs : sub[s].chan \in Seq(InQueue)
         /\ feed.batch \in Seq(Nat) /\ feed.from \in Nat /\ engine.floor \in Nat
BY DEF TypeOK, Sub, FeedState, EngineState

LEMMA FreshFits ==
  ASSUME \E s \in Subs : Fits(s)
  PROVE  Fresh \in Subs /\ Fits(Fresh)
BY DEF Fresh

\* The helpers keep the type of a subscription, and of its channel.
LEMMA SubTypes ==
  ASSUME NEW b \in Sub
  PROVE  /\ Gone(b) \in Sub /\ GiveBack(b) \in Sub /\ NoStream \in Sub
         /\ [b EXCEPT !.on = FALSE, !.pos = 0] \in Sub
         /\ [b EXCEPT !.chan = <<>>] \in Sub
         /\ \A from \in Nat \cup {NoCursor} : Invoke(b, from) \in Sub
         /\ \A pos \in Nat : [b EXCEPT !.on = TRUE, !.pos = pos] \in Sub
         /\ b.chan # <<>> => Head(b.chan) \in InQueue /\ [b EXCEPT !.chan = Tail(@)] \in Sub
         /\ \A f \in InQueue : [b EXCEPT !.chan = Append(@, f)] \in Sub
<1>1. b.chan \in Seq(InQueue) /\ Sub = [call : {"none", "invoked", "begun", "waiting", "ok",
                "unavailable", "transport", "expired"},
        in : BOOLEAN, since : Nat \cup {NoCursor},
        on : BOOLEAN, pos : Nat \cup {NoCursor}, chan : Seq(InQueue)]
  BY DEF Sub, InQueue
<1>2. <<>> \in Seq(InQueue) /\ \A f \in InQueue : Append(b.chan, f) \in Seq(InQueue)
  BY <1>1
<1>3. b.chan # <<>> => Head(b.chan) \in InQueue /\ Tail(b.chan) \in Seq(InQueue)
  BY <1>1
<1> HIDE DEF InQueue
<1> QED BY <1>1, <1>2, <1>3 DEF Gone, GiveBack, NoStream, Invoke, NoCursor

\* So does what the bridge hands on.
LEMMA SentTypes ==
  ASSUME TypeOK, NEW s \in Subs
  PROVE  /\ \A f \in InQueue : Sent(s, f) \in Seq(InQueue)
         /\ InChan("unavailable", 0) \in InQueue /\ InChan("expired", 0) \in InQueue
         /\ \A n \in Nat : InChan("event", n) \in InQueue
<1>1. sub[s].chan \in Seq(InQueue)
  BY Types
<1>2. \A f \in InQueue : Append(sub[s].chan, f) \in Seq(InQueue)
  BY <1>1
<1>3. \A f \in InQueue : Sent(s, f) \in Seq(InQueue)
  BY <1>1, <1>2 DEF Sent
<1> QED BY <1>3 DEF InChan, InQueue

LEMMA HandedTypes ==
  ASSUME TypeOK, NEW s \in Subs, NEW f \in OnWire
  PROVE  Handed(s, f) \in Sub
<1>1. sub[s] \in Sub /\ Gone(sub[s]) \in Sub
  BY SubTypes DEF TypeOK
<1>2. f.pos \in Nat
  BY DEF OnWire
<1>3. /\ Sent(s, InChan("event", f.pos)) \in Seq(InQueue)
      /\ Sent(s, InChan("expired", 0)) \in Seq(InQueue)
  BY <1>2, SentTypes
<1> DEFINE CallOf == {"none", "invoked", "begun", "waiting", "ok",
                      "unavailable", "transport", "expired"}
<1> DEFINE TheSub == [call : CallOf, in : BOOLEAN, since : Nat \cup {NoCursor},
                      on : BOOLEAN, pos : Nat \cup {NoCursor}, chan : Seq(InQueue)]
<1>0. Sub = TheSub
  BY DEF Sub, InQueue
<1>5. CASE f.kind = "ok"
  BY <1>0, <1>1, <1>2, <1>5 DEF Handed
<1>6. CASE f.kind = "event"
  BY <1>0, <1>1, <1>2, <1>3, <1>6 DEF Handed
<1>7. CASE f.kind \notin {"ok", "event"}
  <2>1. /\ Gone(sub[s]).call \in CallOf /\ Gone(sub[s]).chan \in Seq(InQueue)
        /\ Gone(sub[s]) \in TheSub
    BY <1>0, <1>1
  <2> QED BY <1>0, <1>3, <1>7, <2>1 DEF Handed
<1> QED BY <1>5, <1>6, <1>7

\* SetToSeq lists each element of a finite set once.
LEMMA SetInSequence ==
  ASSUME NEW S, IsFiniteSet(S)
  PROVE  /\ Cardinality(S) \in Nat
         /\ SetToSeq(S) \in [1 .. Cardinality(S) -> S]
         /\ \A i, j \in 1 .. Cardinality(S) : SetToSeq(S)[i] = SetToSeq(S)[j] => i = j
         /\ \A s \in S : \E i \in 1 .. Cardinality(S) : SetToSeq(S)[i] = s
<1> DEFINE n == Cardinality(S)
           f == SetToSeq(S)
<1>1. n \in Nat /\ ExistsBijection(1 .. n, S)
  BY FS_CardinalityType
<1>2. \E g \in [1 .. n -> S] : IsInjective(g)
  BY <1>1 DEF ExistsBijection, Bijection, Injection
<1>3. f \in [1 .. n -> S] /\ IsInjective(f)
  BY <1>2 DEF SetToSeq
<1>4. f \in Injection(1 .. n, S)
  BY <1>3 DEF Injection
<1>5. Cardinality(1 .. n) = n
  BY <1>1, FS_Interval
<1>6. f \in Surjection(1 .. n, S)
  BY <1>4, <1>5, FS_Injection
<1>7. \A s \in S : \E i \in 1 .. n : f[i] = s
  BY <1>6 DEF Surjection
<1> QED BY <1>1, <1>3, <1>7 DEF IsInjective

\* What the engine answers to the new subscriptions T: a frame for each.
LEMMA SyncAnswers ==
  ASSUME TypeOK, NEW T \in SUBSET Subs
  PROVE  LET n == Cardinality(T)
             a == [i \in 1 .. n |-> Answer(SetToSeq(T)[i])]
         IN  /\ n \in Nat /\ a \in Seq(OnWire) /\ Len(a) = n
             /\ \A i \in 1 .. n : SetToSeq(T)[i] \in T /\ a[i].sub = SetToSeq(T)[i]
             /\ \A i, j \in 1 .. n : a[i].sub = a[j].sub => i = j
             /\ \A s \in T : \E i \in 1 .. n : a[i] = Answer(s)
<1>1. IsFiniteSet(T)
  BY DesktopAssumption, FS_Subset
<1>2. \A s \in T : Begin(s) \in Nat /\ Answer(s) \in OnWire /\ Answer(s).sub = s
  BY Types DEF Begin, Answer, Frame, OnWire, Sub, NoCursor
<1> DEFINE n == Cardinality(T)
           a == [i \in 1 .. n |-> Answer(SetToSeq(T)[i])]
<1>3. /\ n \in Nat /\ SetToSeq(T) \in [1 .. n -> T]
      /\ \A i, j \in 1 .. n : SetToSeq(T)[i] = SetToSeq(T)[j] => i = j
      /\ \A s \in T : \E i \in 1 .. n : SetToSeq(T)[i] = s
  BY <1>1, SetInSequence
<1>4. a \in [1 .. n -> OnWire]
  BY <1>2, <1>3
<1> HIDE DEF n
<1>5. a \in Seq(OnWire) /\ Len(a) = n
  BY <1>3, <1>4
<1> QED BY <1>2, <1>3, <1>5 DEF n

LEMMA SessionTypes == 0 \in Sessions
BY DesktopAssumption DEF Sessions

\* What a failed generation leaves.
LEMMA RetryTypes ==
  ASSUME TypeOK, NEW away \in BOOLEAN, RetryLater(away)
  PROVE  feed' \in FeedState /\ period' \in PeriodState
<1>1. <<>> \in Seq(Nat)
  OBVIOUS
<1>2. feed' \in FeedState
  BY <1>1, SessionTypes DEF RetryLater, Idle, FeedState
<1>3. period' \in PeriodState
  <2>1. <<>> \in Seq(Sessions)
    OBVIOUS
  <2> QED BY <2>1 DEF RetryLater, PeriodFor, Closed, PeriodState, TypeOK
<1> QED BY <1>2, <1>3

LEMMA FlushedTypes ==
  ASSUME TypeOK, Within, QueueInv, feed.at \in {"sub", "live"}
  PROVE  /\ Flushed \in ShownState /\ Flushed.pos \in Nat /\ Flushed.rows \in Sessions
         /\ Flushed.pos = Upto(feed.batch) /\ Upto(feed.batch) <= Len(log)
<1>1. /\ log \in Seq(Sessions) /\ feed.batch \in Seq(Nat) /\ feed.from \in Nat
      /\ feed.rows \in Sessions
  BY Types DEF TypeOK, FeedState
<1>2. CASE feed.batch = <<>>
  BY <1>1, <1>2 DEF Flushed, Upto, Core, ShownState, Within
<1>3. CASE feed.batch # <<>>
  <2>1. Len(feed.batch) \in DOMAIN feed.batch /\ Last(feed.batch) = feed.batch[Len(feed.batch)]
    BY <1>1, <1>3 DEF Last
  <2>2. Last(feed.batch) = feed.from + Len(feed.batch) /\ Last(feed.batch) <= Len(log)
    BY <2>1 DEF QueueInv, Queued, Within
  <2>3. Last(feed.batch) \in 1 .. Len(log)
    BY <1>1, <2>1, <2>2
  <2>4. log[Last(feed.batch)] \in Sessions
    BY <1>1, <2>3
  <2> QED BY <1>1, <1>3, <2>2, <2>3, <2>4 DEF Flushed, Upto, Core, ShownState
<1> QED BY <1>2, <1>3

LEMMA TypeStep ==
  ASSUME TypeOK, Within, StageInv, QueueInv, [Next]_vars
  PROVE  TypeOK'
<1>0. /\ sub \in [Subs -> Sub] /\ wire \in Seq(OnWire)
      /\ MaxWorld \in Nat /\ asked \in SUBSET Subs
      /\ log \in Seq(Sessions) /\ world \in Sessions
  BY DesktopAssumption DEF TypeOK
<1>1. CASE Change
  <2>1. world' \in Sessions
    BY <1>1 DEF Change
  <2>2. count' \in CountState
    BY <1>1 DEF Change, CountState, TypeOK
  <2> QED BY <1>1, <2>1, <2>2 DEF TypeOK, Change
<1>2. CASE Commit
  <2>1. log' \in Seq(Sessions)
    <3>1. Diff \in Seq(Sessions)
      BY <1>0 DEF Diff
    <3> QED BY <1>0, <1>2, <3>1 DEF Commit
  <2>2. engine' \in EngineState
    BY <1>0, <1>2 DEF Commit, EngineState, TypeOK
  <2> QED BY <1>2, <2>1, <2>2 DEF TypeOK, Commit
<1>3. CASE Prune
  <2>1. PICK f \in engine.floor + 1 .. Len(log) - 1 : engine' = [engine EXCEPT !.floor = f]
    BY <1>3 DEF Prune
  <2>2. f \in Nat
    BY <2>1, Types
  <2>3. engine' \in EngineState
    BY <2>1, <2>2 DEF EngineState, TypeOK
  <2>4. count' \in CountState
    BY <1>3 DEF Prune, CountState, TypeOK
  <2> QED BY <1>3, <2>3, <2>4 DEF TypeOK, Prune
<1>4. CASE Boot
  <2>1. engine' \in EngineState
    BY <1>4 DEF Boot, EngineState, TypeOK
  <2> QED BY <1>4, <2>1 DEF TypeOK, Boot
<1>5. CASE Crash \/ Disconnect
  <2>1. /\ sub' = [s \in Subs |-> [sub[s] EXCEPT !.on = FALSE, !.pos = 0]]
        /\ asked' = {} /\ wire' = <<>>
    BY <1>5 DEF Crash, Disconnect
  <2>2. sub' \in [Subs -> Sub]
    <3>1. \A s \in Subs : [sub[s] EXCEPT !.on = FALSE, !.pos = 0] \in Sub
      BY <1>0, SubTypes
    <3> QED BY <2>1, <3>1
  <2>3. asked' \in SUBSET Subs /\ wire' \in Seq(OnWire)
    <3>1. <<>> \in Seq(OnWire)
      OBVIOUS
    <3> QED BY <2>1, <3>1
  <2>4. CASE Crash
    <3>1. engine' \in EngineState
      BY <2>4 DEF Crash, EngineState, TypeOK
    <3>2. health' \in HealthState
      BY <2>4 DEF Crash, HealthState, TypeOK
    <3>3. count' \in CountState
      <4>1. count' = [count EXCEPT !.crashes = count.crashes + 1]
        BY <2>4 DEF Crash
      <4>2. count \in CountState
        BY DEF TypeOK
      <4> QED BY <4>1, <4>2 DEF CountState
    <3> QED BY <2>2, <2>3, <2>4, <3>1, <3>2, <3>3 DEF TypeOK, Crash
  <2>5. CASE Disconnect
    BY <2>2, <2>3, <2>5 DEF TypeOK, Disconnect
  <2> QED BY <1>5, <2>4, <2>5
<1>6. ASSUME NEW s \in Subs, Emit(s) PROVE TypeOK'
  <2>1. \A n \in Nat : [sub[s] EXCEPT !.pos = n] \in Sub /\ Frame(s, "event", n) \in OnWire
    BY <1>0 DEF Sub, Frame, OnWire
  <2>2. Frame(s, "expired", 0) \in OnWire /\ [sub[s] EXCEPT !.on = FALSE, !.pos = 0] \in Sub
    BY <1>0, SubTypes DEF Frame, OnWire
  <2>3. wire' \in Seq(OnWire) /\ sub' \in [Subs -> Sub]
    <3>1. CASE sub[s].pos < engine.floor
      <4>0. engine.floor \in Nat /\ sub[s].pos \in Nat \cup {-1}
        BY <1>0, Types DEF Sub, NoCursor
      <4>1. /\ wire' = Append(wire, Frame(s, "expired", 0))
            /\ sub' = [sub EXCEPT ![s] = [sub[s] EXCEPT !.on = FALSE, !.pos = 0]]
        <5>1. ~(engine.floor <= sub[s].pos)
          BY <3>1, <4>0
        <5>2. sub' = [sub EXCEPT ![s].on = FALSE, ![s].pos = 0]
          BY <1>6, <5>1 DEF Emit
        <5>3. wire' = Append(wire, Frame(s, "expired", 0))
          BY <1>6, <5>1 DEF Emit
        <5> QED BY <1>0, <5>2, <5>3
      <4> QED BY <1>0, <2>2, <4>1
    <3>2. CASE ~(sub[s].pos < engine.floor)
      <4>1. engine.floor \in Nat /\ sub[s].pos \in Nat \cup {-1}
        BY <1>0, Types DEF Sub, NoCursor
      <4>2. sub[s].pos \in Nat
        BY <3>2, <4>1
      <4>3. /\ sub' = [sub EXCEPT ![s] = [sub[s] EXCEPT !.pos = sub[s].pos + 1]]
            /\ wire' = Append(wire, Frame(s, "event", sub[s].pos + 1))
        BY <1>0, <1>6, <3>2 DEF Emit
      <4>4. sub[s].pos + 1 \in Nat
        BY <4>2
      <4> QED BY <1>0, <2>1, <4>3, <4>4
    <3> QED BY <3>1, <3>2
  <2> QED BY <1>6, <2>3 DEF TypeOK, Emit
<1>7. CASE LinkUp \/ Stale
  <2>1. health' \in HealthState
    <3>1. CASE LinkUp
      BY <3>1 DEF LinkUp, HealthState
    <3>2. CASE Stale
      BY <3>2 DEF Stale, HealthState, TypeOK
    <3> QED BY <1>7, <3>1, <3>2
  <2> QED BY <1>7, <2>1 DEF TypeOK, LinkUp, Stale
<1>8. CASE LinkDown
  <2>1. sub' \in [Subs -> Sub]
    <3>1. SUFFICES ASSUME NEW s \in Subs
                   PROVE  /\ [Gone(sub[s]) EXCEPT !.call = "unavailable"] \in Sub
                          /\ [Gone(sub[s]) EXCEPT !.chan = Sent(s, InChan("unavailable", 0))] \in Sub
      BY <1>0, <1>8 DEF LinkDown, FallBack
    <3>2. Gone(sub[s]) \in Sub /\ Sent(s, InChan("unavailable", 0)) \in Seq(InQueue)
      BY <1>0, SubTypes, SentTypes
    <3> QED BY <3>2 DEF Sub
  <2>2. health' \in HealthState
    BY <1>8 DEF LinkDown, HealthState, TypeOK
  <2> QED BY <1>8, <2>1, <2>2 DEF TypeOK, LinkDown
<1>9. ASSUME NEW s \in Subs, SubCheck(s) \/ SubInsert(s) \/ SubTimeout(s) PROVE TypeOK'
  <2>1. Gone(sub[s]) \in Sub /\ sub[s] \in Sub
    BY <1>0, SubTypes
  <2>2. sub' \in [Subs -> Sub]
    <3>1. CASE SubCheck(s)
      <4>1. /\ [sub[s] EXCEPT !.call = "begun"] \in Sub
            /\ [Gone(sub[s]) EXCEPT !.call = "unavailable"] \in Sub
        BY <2>1 DEF Sub
      <4> QED BY <1>0, <3>1, <4>1 DEF SubCheck
    <3>2. CASE SubInsert(s)
      <4>1. [sub[s] EXCEPT !.call = "waiting", !.in = TRUE] \in Sub
        BY <2>1 DEF Sub
      <4>2. sub' = [sub EXCEPT ![s] = [sub[s] EXCEPT !.call = "waiting", !.in = TRUE]]
        BY <1>0, <3>2 DEF SubInsert
      <4> QED BY <1>0, <4>1, <4>2
    <3>3. CASE SubTimeout(s)
      <4>1. [Gone(sub[s]) EXCEPT !.call = "transport"] \in Sub
        BY <2>1 DEF Sub
      <4> QED BY <1>0, <3>3, <4>1 DEF SubTimeout
    <3> QED BY <1>9, <3>1, <3>2, <3>3
  <2> QED BY <1>9, <2>2 DEF TypeOK, SubCheck, SubInsert, SubTimeout
<1>10. CASE Sync
  <2> DEFINE new == Desired \ asked
             a == [i \in 1 .. Cardinality(new) |-> Answer(SetToSeq(new)[i])]
  <2>1. new \in SUBSET Subs /\ Desired \in SUBSET Subs
    BY DEF Desired
  <2>2. a \in Seq(OnWire)
    BY <2>1, SyncAnswers
  <2>3. wire' = wire \o a /\ asked' = Desired
    BY <1>10 DEF Sync
  <2>4. wire' \in Seq(OnWire)
    <3> HIDE DEF a
    <3> QED BY <1>0, <2>2, <2>3
  <2>5. sub' \in [Subs -> Sub]
    <3>1. \A s \in Subs : /\ [sub[s] EXCEPT !.on = TRUE, !.pos = Begin(s)] \in Sub
                          /\ [sub[s] EXCEPT !.on = FALSE, !.pos = 0] \in Sub
                          /\ sub[s] \in Sub
      <4> SUFFICES ASSUME NEW s \in Subs
                   PROVE  /\ [sub[s] EXCEPT !.on = TRUE, !.pos = Begin(s)] \in Sub
                          /\ [sub[s] EXCEPT !.on = FALSE, !.pos = 0] \in Sub
                          /\ sub[s] \in Sub
        OBVIOUS
      <4>1. Begin(s) \in Nat
        BY <1>0, Types DEF Begin, Sub, NoCursor
      <4> QED BY <1>0, <4>1, SubTypes
    <3> QED BY <1>10, <3>1 DEF Sync
  <2> HIDE DEF new, a
  <2> QED BY <1>10, <2>1, <2>3, <2>4, <2>5 DEF TypeOK, Sync
<1>11. CASE Take
  <2>1. wire # <<>> /\ Head(wire) \in OnWire /\ wire' = Tail(wire) /\ Tail(wire) \in Seq(OnWire)
    BY <1>0, <1>11 DEF Take
  <2>2. Head(wire).sub \in Subs
    BY <2>1 DEF OnWire
  <2>3. Handed(Head(wire).sub, Head(wire)) \in Sub
    BY <2>1, <2>2, HandedTypes
  <2>4. sub' \in [Subs -> Sub]
    BY <1>0, <1>11, <2>2, <2>3 DEF Take
  <2> QED BY <1>11, <2>1, <2>4 DEF TypeOK, Take
<1>12. CASE StartProbe
  <2>1. Fresh \in Subs
    BY <1>12, FreshFits DEF StartProbe
  <2>2. Invoke(sub[Fresh], NoCursor) \in Sub
    BY <1>0, <2>1, SubTypes
  <2>3. sub' \in [Subs -> Sub]
    BY <1>0, <1>12, <2>1, <2>2 DEF StartProbe
  <2>4. feed' \in FeedState
    BY <1>12, <2>1 DEF StartProbe, FeedState, TypeOK
  <2> QED BY <1>12, <2>3, <2>4 DEF TypeOK, StartProbe
<1>13. CASE ReadViews
  <2> DEFINE back == [s \in Subs |-> IF s = feed.sub THEN GiveBack(sub[s]) ELSE sub[s]]
  <2>1. back \in [Subs -> Sub]
    BY <1>0, SubTypes
  <2>2. CASE sub' = back /\ (RetryLater(TRUE) \/ RetryLater(FALSE))
    <3>1. feed' \in FeedState /\ period' \in PeriodState
      BY <2>2, RetryTypes
    <3> QED BY <1>13, <2>1, <2>2, <3>1 DEF TypeOK, ReadViews
  <2>3. CASE /\ Active /\ engine.up
             /\ \E s \in Subs : Fits(s)
             /\ sub' = [back EXCEPT ![Fresh] = Invoke(@, Len(log))]
             /\ \E views \in engine.seen :
                  feed' = [feed EXCEPT !.at = "sub", !.sub = Fresh, !.from = Len(log),
                                       !.rows = views, !.run = count.crashes]
             /\ UNCHANGED period
    <3>0. PICK views \in engine.seen :
            feed' = [feed EXCEPT !.at = "sub", !.sub = Fresh, !.from = Len(log),
                                 !.rows = views, !.run = count.crashes]
      BY <2>3
    <3>1. /\ Fresh \in Subs /\ views \in Sessions /\ count.crashes \in Nat
      BY <2>3, FreshFits DEF TypeOK, EngineState, CountState
    <3>2. Len(log) \in Nat /\ Invoke(back[Fresh], Len(log)) \in Sub
      BY <2>1, <3>1, SubTypes, Types
    <3>3. sub' \in [Subs -> Sub]
      <4> HIDE DEF back
      <4> QED BY <2>1, <2>3, <3>1, <3>2
    <3>4. feed' \in FeedState
      BY <3>0, <3>1, <3>2 DEF FeedState, TypeOK
    <3> QED BY <1>13, <2>3, <3>3, <3>4 DEF TypeOK, ReadViews
  <2> QED BY <1>13, <2>2, <2>3 DEF ReadViews
<1>14. CASE Failed
  <2>1. feed.sub \in Subs
    BY <1>14 DEF Failed, TypeOK, StageInv, FeedState
  <2>2. GiveBack(sub[feed.sub]) \in Sub
    BY <1>0, <2>1, SubTypes
  <2>3. sub' \in [Subs -> Sub]
    BY <1>0, <1>14, <2>1, <2>2 DEF Failed
  <2>4. feed' \in FeedState /\ period' \in PeriodState
    BY <1>14, RetryTypes DEF Failed
  <2> QED BY <1>14, <2>3, <2>4 DEF TypeOK, Failed
<1>15. ASSUME NEW s \in Subs, Settle(s) PROVE TypeOK'
  <2>1. GiveBack(sub[s]) \in Sub
    BY <1>0, SubTypes
  <2>2. sub' \in [Subs -> Sub]
    BY <1>0, <1>15, <2>1 DEF Settle
  <2> QED BY <1>15, <2>2 DEF TypeOK, Settle
<1>16. CASE GoLive \/ Flush
  <2>1. shown' \in ShownState /\ shown'.pos \in Nat /\ shown'.rows \in Sessions
    <3>1. feed.at \in {"sub", "live"} /\ shown' = Flushed
      BY <1>16 DEF GoLive, Flush
    <3> QED BY <3>1, FlushedTypes
  <2>2. feed' \in FeedState
    <3>1. <<>> \in Seq(Nat)
      OBVIOUS
    <3> QED BY <1>16, <2>1, <3>1 DEF GoLive, Flush, TypeOK, FeedState
  <2>3. period' \in PeriodState
    <3>1. <<>> \in Seq(Sessions)
      OBVIOUS
    <3>2. CASE GoLive
      BY <3>1, <3>2 DEF GoLive, PeriodState, EndPeriod, Closed
    <3>3. CASE Flush
      BY <3>3 DEF Flush, TypeOK
    <3> QED BY <1>16, <3>2, <3>3
  <2> QED BY <1>16, <2>1, <2>2, <2>3 DEF TypeOK, GoLive, Flush
<1>17. CASE Receive
  <2> DEFINE s == feed.sub  f == sub[s].chan[1]
  <2>1. s \in Subs
    BY <1>17 DEF Receive, TypeOK, StageInv, FeedState
  <2>2. /\ sub[s] \in Sub /\ sub[s].chan \in Seq(InQueue) /\ sub[s].chan # <<>>
        /\ f \in InQueue
    BY <1>0, <1>17, <2>1, Types DEF Receive
  <2>3. f.pos \in Nat
    BY <2>2 DEF InQueue
  <2>4. CASE f.kind = "event"
    <3>1. /\ sub' = [sub EXCEPT ![s] = [sub[s] EXCEPT !.chan = Tail(@)]]
          /\ feed' = [feed EXCEPT !.batch = Append(@, f.pos)]
          /\ period' = period
      BY <1>0, <1>17, <2>1, <2>4 DEF Receive
    <3>2. [sub[s] EXCEPT !.chan = Tail(@)] \in Sub
      BY <2>2, SubTypes
    <3>3. sub' \in [Subs -> Sub]
      BY <1>0, <2>1, <3>1, <3>2
    <3>4. Append(feed.batch, f.pos) \in Seq(Nat)
      BY <2>3, Types
    <3>5. feed' \in FeedState
      BY <3>1, <3>4 DEF FeedState, TypeOK
    <3> QED BY <1>17, <3>1, <3>3, <3>5 DEF TypeOK, Receive
  <2>5. CASE f.kind # "event"
    <3>1. [sub[s] EXCEPT !.chan = <<>>] \in Sub /\ GiveBack(sub[s]) \in Sub
      BY <2>2, SubTypes
    <3>2. sub' \in [Subs -> Sub]
      BY <1>0, <1>17, <2>1, <2>5, <3>1 DEF Receive
    <3>3. feed.away \in BOOLEAN
      BY DEF TypeOK, FeedState
    <3>4. feed' \in FeedState /\ period' \in PeriodState
      BY <1>17, <2>5, <3>3, RetryTypes DEF Receive
    <3> QED BY <1>17, <3>2, <3>4 DEF TypeOK, Receive
  <2> QED BY <2>4, <2>5
<1>18. CASE ReadNative
  <2>1. period' \in PeriodState
    BY <1>0, <1>18 DEF ReadNative, PeriodState, TypeOK
  <2> QED BY <1>18, <2>1 DEF TypeOK, ReadNative
<1>19. CASE Release
  <2>1. period.read \in SUBSET Sessions
    BY DEF TypeOK, PeriodState
  <2>2. shown' \in ShownState
    BY <1>19, <2>1 DEF Release, Native, ShownState
  <2>3. period' \in PeriodState
    BY <1>19 DEF Release, PeriodState, TypeOK
  <2> QED BY <1>19, <2>2, <2>3 DEF TypeOK, Release
<1>20. CASE Hear
  <2>1. period.way \in Seq(Sessions) /\ period.way # <<>>
    BY <1>20 DEF TypeOK, PeriodState, Hear
  <2>2. period.way[1] \in Sessions /\ Tail(period.way) \in Seq(Sessions)
    BY <2>1
  <2>3. shown' \in ShownState
    BY <1>20, <2>2 DEF Hear, Native, ShownState
  <2>4. period' \in PeriodState
    BY <1>20, <2>2 DEF Hear, PeriodState, TypeOK
  <2> QED BY <1>20, <2>3, <2>4 DEF TypeOK, Hear
<1>21. CASE Scan
  <2>1. poll' \in PollState
    <3>1. {world} \in SUBSET Sessions
      BY <1>0
    <3>2. CASE Active
      BY <1>21, <3>2 DEF Scan, PollState, TypeOK
    <3>3. CASE ~Active
      <4>1. poll' = [last |-> {world}, core |-> FALSE]
        BY <1>21, <3>3 DEF Scan
      <4> QED BY <3>1, <4>1 DEF PollState
    <3> QED BY <3>2, <3>3
  <2>2. period' \in PeriodState
    <3>1. period.way \in Seq(Sessions)
      BY DEF TypeOK, PeriodState
    <3>2. Append(period.way, world) \in Seq(Sessions)
      BY <1>0, <3>1
    <3> QED BY <1>21, <3>2 DEF Scan, PeriodState, TypeOK
  <2> QED BY <1>21, <2>1, <2>2 DEF TypeOK, Scan
<1>22. CASE UNCHANGED vars
  BY <1>22 DEF TypeOK, vars
<1> QED BY <1>1, <1>2, <1>3, <1>4, <1>5, <1>6, <1>7, <1>8, <1>9, <1>10, <1>11, <1>12, <1>13,
           <1>14, <1>15, <1>16, <1>17, <1>18, <1>19, <1>20, <1>21, <1>22
        DEF Next, Engine, Link, Worker, Calls, Feed, Period

-----------------------------------------------------------------------------
(* The frames of one stream.                                               *)

\* The log only grows.
LEMMA LogGrows ==
  ASSUME TypeOK, TypeOK', [Next]_vars
  PROVE  Len(log) \in Nat /\ Len(log)' \in Nat /\ Len(log) <= Len(log)'
<1>1. Len(log) \in Nat /\ Len(log)' \in Nat /\ log \in Seq(Sessions)
  BY DEF TypeOK
<1>2. CASE Commit
  <2>1. Diff \in Seq(Sessions)
    BY SessionTypes DEF Diff, TypeOK
  <2>2. Len(log \o Diff) = Len(log) + Len(Diff) /\ Len(Diff) \in Nat
    BY <1>1, <2>1
  <2> QED BY <1>1, <1>2, <2>2 DEF Commit
<1>3. CASE ~Commit
  <2>1. log' = log
    BY <1>3 DEF Next, Engine, Link, Worker, Calls, Feed, Period, Change, Prune, Boot, Crash,
                Emit, LinkUp, LinkDown, Stale, Sync, Disconnect, Take, SubCheck, SubInsert,
                SubTimeout, StartProbe, ReadViews, Failed, GoLive, Receive, Flush, Settle,
                ReadNative, Release, Hear, Scan, vars
  <2> QED BY <1>1, <2>1
<1> QED BY <1>1, <1>2, <1>3

\* The frames of s on the wire are those there were, d places further on;
\* none that was an event is gone.
SameFrames(s, d) ==
  /\ \A i \in DOMAIN wire' : wire'[i].sub = s => i + d \in DOMAIN wire /\ wire'[i] = wire[i + d]
  /\ \A i \in Coming(s) : i - d \in DOMAIN wire' /\ wire'[i - d] = wire[i]

LEMMA FramesKept ==
  ASSUME TypeOK, TypeOK', NEW s \in Subs, NEW d \in 0 .. 1, SameFrames(s, d)
  PROVE  /\ \A from, upto \in Nat : Follows(s, from, upto) => Follows(s, from, upto)'
         /\ NoFrames(s) => NoFrames(s)'
         /\ \A i \in Coming(s)' : i + d \in Coming(s)
         /\ Answered(s) /\ sub'[s].since = sub[s].since => Answered(s)'
<1>1. /\ DOMAIN wire \subseteq Int /\ DOMAIN wire' \subseteq Int /\ d \in Int
      /\ Coming(s) \subseteq DOMAIN wire /\ Coming(s)' \subseteq DOMAIN wire'
  BY DEF TypeOK, Coming
<1>2. \A i \in Coming(s)' : i + d \in Coming(s) /\ wire'[i] = wire[i + d]
  BY <1>1 DEF SameFrames, Coming
<1>3. \A i \in Coming(s) : i - d \in Coming(s)' /\ wire'[i - d] = wire[i]
  BY <1>1 DEF SameFrames, Coming
<1>4. {wire[i].pos : i \in Coming(s)} = {wire'[i].pos : i \in Coming(s)'}
  BY <1>2, <1>3
<1>5. ASSUME NEW from \in Nat, NEW upto \in Nat, Follows(s, from, upto)
      PROVE  Follows(s, from, upto)'
  <2>1. ASSUME NEW i \in Coming(s)', NEW j \in Coming(s)', i < j
        PROVE  wire'[i].pos < wire'[j].pos
    <3>1. i + d \in Coming(s) /\ j + d \in Coming(s) /\ i + d < j + d
      BY <1>1, <1>2, <2>1
    <3> QED BY <1>2, <1>5, <3>1 DEF Follows
  <2> QED BY <1>4, <1>5, <2>1 DEF Follows
<1>6. ASSUME Answered(s), sub'[s].since = sub[s].since,
             NEW i \in DOMAIN wire', wire'[i].sub = s, wire'[i].kind = "ok"
      PROVE  wire'[i].pos = sub'[s].since /\ \A j \in Coming(s)' : i < j
  <2>1. i + d \in DOMAIN wire /\ wire'[i] = wire[i + d]
    BY <1>6 DEF SameFrames
  <2>2. wire[i + d].pos = sub[s].since /\ \A j \in Coming(s) : i + d < j
    BY <1>6, <2>1 DEF Answered
  <2>3. ASSUME NEW j \in Coming(s)' PROVE i < j
    <3>1. i + d < j + d
      BY <1>2, <2>2, <2>3
    <3> QED BY <1>1, <3>1
  <2> QED BY <1>6, <2>1, <2>2, <2>3
<1>7. NoFrames(s) => NoFrames(s)'
  BY DEF SameFrames, NoFrames
<1> QED BY <1>2, <1>5, <1>6, <1>7 DEF Answered

\* What appends to the wire, or takes its head, leaves the other streams.
LEMMA OthersKept ==
  ASSUME TypeOK, TypeOK', NEW s \in Subs
  PROVE  /\ wire' = wire => SameFrames(s, 0)
         /\ \A f : wire' = Append(wire, f) /\ f.sub # s => SameFrames(s, 0)
         /\ \A a \in Seq(OnWire) :
              wire' = wire \o a /\ (\A i \in DOMAIN a : a[i].sub # s) => SameFrames(s, 0)
         /\ wire # <<>> /\ wire' = Tail(wire) /\ ~(Head(wire).sub = s /\ Head(wire).kind = "event")
              => SameFrames(s, 1)
<1>1. /\ wire \in Seq(OnWire) /\ wire' \in Seq(OnWire)
      /\ DOMAIN wire = 1 .. Len(wire) /\ Len(wire) \in Nat
  BY DEF TypeOK
<1>2. wire' = wire => SameFrames(s, 0)
  BY <1>1 DEF SameFrames, Coming
<1>3. ASSUME NEW f, wire' = Append(wire, f), f.sub # s
      PROVE  SameFrames(s, 0)
  BY <1>1, <1>3 DEF SameFrames, Coming
<1>4. ASSUME NEW a \in Seq(OnWire), wire' = wire \o a, \A i \in DOMAIN a : a[i].sub # s
      PROVE  SameFrames(s, 0)
  <2>1. /\ DOMAIN wire' = 1 .. Len(wire) + Len(a)
        /\ \A i \in DOMAIN wire' :
              IF i <= Len(wire) THEN wire'[i] = wire[i]
              ELSE i - Len(wire) \in DOMAIN a /\ wire'[i] = a[i - Len(wire)]
    BY <1>1, <1>4
  <2> QED BY <1>1, <1>4, <2>1 DEF SameFrames, Coming
<1>5. ASSUME wire # <<>>, wire' = Tail(wire),
             ~(Head(wire).sub = s /\ Head(wire).kind = "event")
      PROVE  SameFrames(s, 1)
  <2>1. /\ DOMAIN wire' = 1 .. Len(wire) - 1
        /\ \A i \in DOMAIN wire' : wire'[i] = wire[i + 1]
        /\ Head(wire) = wire[1]
    BY <1>1, <1>5
  <2>2. 1 \notin Coming(s)
    BY <1>5, <2>1 DEF Coming
  <2> QED BY <1>1, <2>1, <2>2 DEF SameFrames, Coming
<1> QED BY <1>2, <1>3, <1>4, <1>5

\* What a stream's gaplessness and answer rest on.
Unmoved(s) ==
  /\ sub'[s].chan = sub[s].chan /\ sub'[s].since = sub[s].since
  /\ sub'[s].on => sub[s].on /\ sub'[s].pos = sub[s].pos
  /\ feed'.from = feed.from /\ feed'.batch = feed.batch

LEMMA StreamKept ==
  ASSUME TypeOK, TypeOK', NEW s \in Subs, Unmoved(s), Len(log) <= Len(log)',
         \/ \E d \in 0 .. 1 : SameFrames(s, d)
         \/ wire' = <<>> /\ ~sub'[s].on
  PROVE  (Gapless(s) => Gapless(s)') /\ (Answered(s) => Answered(s)')
<1>1. Answered(s) => Answered(s)'
  <2>1. CASE wire' = <<>>
    BY <2>1 DEF Answered
  <2>2. CASE \E d \in 0 .. 1 : SameFrames(s, d)
    BY <2>2, FramesKept DEF Unmoved
  <2> QED BY <2>1, <2>2
<1>2. ASSUME Gapless(s) PROVE Gapless(s)'
  <2>1. /\ feed.from \in Nat /\ feed.batch \in Seq(Nat) /\ sub[s].chan \in Seq(InQueue)
        /\ Len(log) \in Nat /\ Len(log)' \in Nat
    BY Types DEF TypeOK
  <2>2. sub[s].since = feed.from + Len(feed.batch) + Len(sub[s].chan)
    BY <1>2 DEF Gapless
  <2>3. PICK from \in Nat : from = sub[s].since
    BY <2>1, <2>2
  <2>4. PICK upto \in from .. Len(log) :
          Follows(s, from, upto) /\ (sub[s].on => sub[s].pos = upto)
    BY <1>2, <2>3 DEF Gapless
  <2>5. \E u \in from .. Len(log)' : Follows(s, from, u)' /\ (sub'[s].on => sub'[s].pos = u)
    <3>1. CASE \E d \in 0 .. 1 : SameFrames(s, d)
      <4>1. upto \in Nat /\ upto \in from .. Len(log)'
        BY <2>1, <2>3, <2>4
      <4>2. Follows(s, from, upto)'
        BY <2>3, <2>4, <3>1, <4>1, FramesKept
      <4> QED BY <2>4, <4>1, <4>2 DEF Unmoved
    <3>2. CASE wire' = <<>> /\ ~sub'[s].on
      <4>1. Coming(s)' = {}
        BY <3>2 DEF Coming
      <4>2. from + 1 .. from = {}
        BY <2>3
      <4>3. from \in from .. Len(log)'
        BY <2>1, <2>3, <2>4
      <4>4. Follows(s, from, from)'
        BY <4>1, <4>2 DEF Follows
      <4> QED BY <3>2, <4>3, <4>4
    <3> QED BY <3>1, <3>2
  <2>6. sub'[s].since = from
    BY <2>3 DEF Unmoved
  <2> QED BY <1>2, <2>2, <2>3, <2>5, <2>6 DEF Gapless, Unmoved
<1> QED BY <1>1, <1>2

\* The cursor of such a stream is one that was committed.
LEMMA GaplessSince ==
  ASSUME TypeOK, NEW s \in Subs, Gapless(s)
  PROVE  /\ sub[s].since = feed.from + Len(feed.batch) + Len(sub[s].chan)
         /\ sub[s].since \in Nat /\ sub[s].since <= Len(log)
<1>1. /\ feed.from \in Nat /\ feed.batch \in Seq(Nat) /\ sub[s].chan \in Seq(InQueue)
      /\ Len(log) \in Nat
  BY Types
<1>2. sub[s].since = feed.from + Len(feed.batch) + Len(sub[s].chan)
  BY DEF Gapless
<1>3. sub[s].since \in Nat
  BY <1>1, <1>2
<1>4. \E upto \in sub[s].since .. Len(log) : TRUE
  BY DEF Gapless
<1> QED BY <1>1, <1>2, <1>3, <1>4

\* The engine's next event of a stream goes behind those on the wire.
LEMMA EmitStream ==
  ASSUME TypeOK, TypeOK', NEW s \in Subs, Emit(s), Gapless(s), Answered(s)
  PROVE  Gapless(s)' /\ Answered(s)'
<1>1. /\ feed.from \in Nat /\ feed.batch \in Seq(Nat) /\ sub[s].chan \in Seq(InQueue)
      /\ Len(log) \in Nat /\ wire \in Seq(OnWire) /\ engine.floor \in Nat
      /\ DOMAIN wire = 1 .. Len(wire) /\ Len(wire) \in Nat
      /\ sub \in [Subs -> Sub] /\ sub[s] \in Sub
  BY Types
<1>2. /\ feed' = feed /\ log' = log /\ sub[s].on
  BY <1>1 DEF Emit
<1>3. PICK from \in Nat : /\ from = sub[s].since
                          /\ from = feed.from + Len(feed.batch) + Len(sub[s].chan)
  BY GaplessSince
<1>4. PICK upto \in from .. Len(log) :
        Follows(s, from, upto) /\ sub[s].pos = upto
  BY <1>2, <1>3 DEF Gapless
<1>5. \E kind \in {"event", "expired"}, pos \in Nat :
        /\ wire' = Append(wire, Frame(s, kind, pos))
        /\ sub'[s].chan = sub[s].chan /\ sub'[s].since = sub[s].since
        /\ kind = "event" => pos = upto + 1 /\ pos <= Len(log) /\ sub'[s].pos = pos
        /\ kind = "expired" => ~sub'[s].on
  <2>1. CASE sub[s].pos < engine.floor
    <3>1. ~(engine.floor <= sub[s].pos)
      BY <1>1, <1>4, <2>1
    <3>2. wire' = Append(wire, Frame(s, "expired", 0))
      BY <3>1 DEF Emit
    <3>3. sub' = [sub EXCEPT ![s].on = FALSE, ![s].pos = 0]
      BY <3>1 DEF Emit
    <3>4. sub'[s] = [sub[s] EXCEPT !.on = FALSE, !.pos = 0]
      BY <1>1, <3>3
    <3>5. sub'[s].chan = sub[s].chan /\ sub'[s].since = sub[s].since /\ ~sub'[s].on
      BY <1>1, <3>4 DEF Sub
    <3> QED BY <3>2, <3>5
  <2>2. CASE ~(sub[s].pos < engine.floor)
    <3>1. /\ wire' = Append(wire, Frame(s, "event", upto + 1))
          /\ sub' = [sub EXCEPT ![s].pos = sub[s].pos + 1]
          /\ upto < Len(log)
      BY <1>1, <1>4, <2>2 DEF Emit
    <3>2. sub'[s] = [sub[s] EXCEPT !.pos = upto + 1]
      BY <1>1, <1>4, <3>1
    <3>3. /\ sub'[s].chan = sub[s].chan /\ sub'[s].since = sub[s].since
          /\ sub'[s].pos = upto + 1
      BY <1>1, <3>2 DEF Sub
    <3>4. upto + 1 \in Nat /\ upto + 1 <= Len(log)
      BY <1>1, <1>3, <1>4, <3>1
    <3> QED BY <3>1, <3>3, <3>4
  <2> QED BY <2>1, <2>2
<1>6. PICK kind \in {"event", "expired"}, pos \in Nat :
        /\ wire' = Append(wire, Frame(s, kind, pos))
        /\ sub'[s].chan = sub[s].chan /\ sub'[s].since = sub[s].since
        /\ kind = "event" => pos = upto + 1 /\ pos <= Len(log) /\ sub'[s].pos = pos
        /\ kind = "expired" => ~sub'[s].on
  BY <1>5
<1> DEFINE n == Len(wire) + 1
<1>7. /\ DOMAIN wire' = 1 .. n /\ n \notin DOMAIN wire
      /\ \A i \in DOMAIN wire : i \in DOMAIN wire' /\ wire'[i] = wire[i] /\ i < n
      /\ \A i \in DOMAIN wire' : i \in DOMAIN wire \/ i = n
      /\ n \in DOMAIN wire'
      /\ wire'[n].sub = s /\ wire'[n].kind = kind /\ wire'[n].pos = pos
  BY <1>1, <1>6 DEF Frame
<1> HIDE DEF n
<1>8. Coming(s)' = Coming(s) \cup (IF kind = "event" THEN {n} ELSE {})
  BY <1>6, <1>7 DEF Coming
<1>9. Answered(s)'
  <2>1. ASSUME NEW i \in DOMAIN wire', wire'[i].sub = s, wire'[i].kind = "ok"
        PROVE  wire'[i].pos = sub'[s].since /\ \A j \in Coming(s)' : i < j
    <3>1. i \in DOMAIN wire /\ wire[i] = wire'[i] /\ i < n
      BY <1>6, <1>7, <2>1
    <3>2. wire[i].pos = sub[s].since /\ \A j \in Coming(s) : i < j
      BY <2>1, <3>1 DEF Answered
    <3> QED BY <1>6, <1>8, <3>1, <3>2
  <2> QED BY <2>1 DEF Answered
<1>10. \E u \in from .. Len(log)' : Follows(s, from, u)' /\ (sub'[s].on => sub'[s].pos = u)
  <2>1. CASE kind = "expired"
    <3>1. Coming(s)' = Coming(s)
      BY <1>8, <2>1
    <3>2. \A i \in Coming(s) : wire'[i] = wire[i]
      BY <1>7 DEF Coming
    <3>3. Follows(s, from, upto)'
      BY <1>4, <3>1, <3>2 DEF Follows
    <3> QED BY <1>2, <1>4, <1>6, <2>1, <3>3
  <2>2. CASE kind = "event"
    <3>1. Coming(s)' = Coming(s) \cup {n} /\ n \notin Coming(s)
      BY <1>7, <1>8, <2>2 DEF Coming
    <3>2. \A i \in Coming(s) : wire'[i] = wire[i] /\ i < n /\ i \in Nat
      BY <1>1, <1>7 DEF Coming
    <3>3. {wire'[i].pos : i \in Coming(s)'} = from + 1 .. upto + 1
      <4>1. {wire'[i].pos : i \in Coming(s)'} = {wire[i].pos : i \in Coming(s)} \cup {upto + 1}
        <5>1. wire'[n].pos = upto + 1
          BY <1>6, <1>7, <2>2
        <5>2. \A i \in Coming(s) : wire'[i].pos = wire[i].pos
          BY <3>2
        <5>3. {wire'[i].pos : i \in Coming(s)'} = {wire'[i].pos : i \in Coming(s)} \cup {wire'[n].pos}
          BY <3>1
        <5>4. {wire'[i].pos : i \in Coming(s)} = {wire[i].pos : i \in Coming(s)}
          BY <5>2
        <5> QED BY <5>1, <5>3, <5>4
      <4>2. (from + 1 .. upto) \cup {upto + 1} = from + 1 .. upto + 1
        BY <1>1, <1>3, <1>4
      <4> QED BY <1>4, <4>1, <4>2 DEF Follows
    <3>4. \A i, j \in Coming(s)' : i < j => wire'[i].pos < wire'[j].pos
      <4>1. SUFFICES ASSUME NEW i \in Coming(s)', NEW j \in Coming(s)', i < j
                     PROVE  wire'[i].pos < wire'[j].pos
        OBVIOUS
      <4>2. i \in Coming(s)
        BY <1>1, <3>1, <3>2, <4>1 DEF n
      <4>3. CASE j = n
        <5>1. wire[i].pos \in from + 1 .. upto
          BY <1>4, <4>2 DEF Follows
        <5>2. wire'[i] = wire[i] /\ wire'[j].pos = upto + 1
          BY <1>6, <1>7, <2>2, <3>2, <4>2, <4>3
        <5>3. upto \in Int
          BY <1>1, <1>3, <1>4
        <5> QED BY <1>3, <5>1, <5>2, <5>3
      <4>4. CASE j # n
        BY <1>4, <3>1, <3>2, <4>1, <4>2, <4>4 DEF Follows
      <4> QED BY <4>3, <4>4
    <3>5. Follows(s, from, upto + 1)' /\ upto + 1 \in from .. Len(log)'
      <4>1. Follows(s, from, upto + 1)'
        BY <3>3, <3>4 DEF Follows
      <4>2. upto + 1 \in from .. Len(log)'
        BY <1>1, <1>2, <1>3, <1>4, <1>6, <2>2
      <4> QED BY <4>1, <4>2
    <3> QED BY <1>6, <2>2, <3>5
  <2> QED BY <2>1, <2>2
<1>11. Gapless(s)'
  BY <1>2, <1>3, <1>6, <1>10 DEF Gapless
<1> QED BY <1>9, <1>11

\* A stream that is asked for anew starts where it stands.
LEMMA SyncStream ==
  ASSUME TypeOK, TypeOK', Sync, NEW s \in Desired \ asked, SubInv(s), Gapless(s)
  PROVE  Gapless(s)' /\ Answered(s)'
<1> DEFINE new == Desired \ asked
           a   == [i \in 1 .. Cardinality(new) |-> Answer(SetToSeq(new)[i])]
<1>0. new \in SUBSET Subs /\ s \in Subs
  BY DEF Desired
<1>1. /\ feed.from \in Nat /\ feed.batch \in Seq(Nat) /\ sub[s].chan \in Seq(InQueue)
      /\ Len(log) \in Nat /\ wire \in Seq(OnWire) /\ sub[s] \in Sub
      /\ feed' = feed /\ log' = log
  BY <1>0, Types DEF Sync
<1>2. PICK from \in Nat : /\ from = sub[s].since /\ from <= Len(log)
                          /\ from = feed.from + Len(feed.batch) + Len(sub[s].chan)
  BY <1>0, GaplessSince
<1>3. Begin(s) = from
  BY <1>2 DEF Begin, NoCursor
<1>4. /\ wire' = wire \o a /\ a \in Seq(OnWire)
      /\ \A i \in DOMAIN a : a[i].sub = s => a[i] = Answer(s)
  <2>1. wire' = wire \o a
    BY DEF Sync
  <2>2. /\ a \in Seq(OnWire) /\ DOMAIN a = 1 .. Cardinality(new)
        /\ \A i \in DOMAIN a : SetToSeq(new)[i] \in new /\ a[i].sub = SetToSeq(new)[i]
    BY <1>0, SyncAnswers
  <2>3. \A i \in DOMAIN a : a[i] = Answer(SetToSeq(new)[i])
    BY <2>2
  <2> QED BY <2>1, <2>2, <2>3
<1> HIDE DEF a
<1>5. /\ DOMAIN wire' = 1 .. Len(wire) + Len(a)
      /\ \A i \in DOMAIN wire' :
            IF i <= Len(wire) THEN i \in DOMAIN wire /\ wire'[i] = wire[i]
            ELSE i - Len(wire) \in DOMAIN a /\ wire'[i] = a[i - Len(wire)]
  BY <1>1, <1>4
<1>6. NoFrames(s) /\ ~sub[s].on /\ sub[s].in
  BY DEF SubInv, Desired
<1>7. \A i \in DOMAIN wire' : wire'[i].sub = s => wire'[i] = Answer(s)
  BY <1>4, <1>5, <1>6 DEF NoFrames
<1>8. /\ sub'[s].chan = sub[s].chan /\ sub'[s].since = from
      /\ sub'[s].on => sub'[s].pos = from
  <2>1. sub'[s] = IF Begin(s) < engine.floor THEN sub[s]
                  ELSE [sub[s] EXCEPT !.on = TRUE, !.pos = Begin(s)]
    BY <1>0 DEF Sync
  <2>2. sub[s].since = from /\ ~sub[s].on
    BY <1>2, <1>6
  <2>3. CASE Begin(s) < engine.floor
    BY <2>1, <2>2, <2>3
  <2>4. CASE ~(Begin(s) < engine.floor)
    <3>1. sub'[s] = [sub[s] EXCEPT !.on = TRUE, !.pos = from]
      BY <1>3, <2>1, <2>4
    <3>2. sub'[s].chan = sub[s].chan /\ sub'[s].since = sub[s].since /\ sub'[s].pos = from
      BY <1>1, <3>1 DEF Sub
    <3> QED BY <2>2, <3>2
  <2> QED BY <2>3, <2>4
<1>9. Coming(s)' = {}
  BY <1>7 DEF Coming, Answer, Frame
<1>10. Answered(s)'
  <2>1. ASSUME NEW i \in DOMAIN wire', wire'[i].sub = s, wire'[i].kind = "ok"
        PROVE  wire'[i].pos = sub'[s].since
    BY <1>3, <1>7, <1>8, <2>1 DEF Answer, Frame
  <2> QED BY <1>9, <2>1 DEF Answered
<1>11. Gapless(s)'
  <2>1. from + 1 .. from = {}
    OBVIOUS
  <2>2. Follows(s, from, from)'
    BY <1>9, <2>1 DEF Follows
  <2>3. from \in from .. Len(log)'
    BY <1>1, <1>2
  <2> QED BY <1>1, <1>2, <1>8, <2>2, <2>3 DEF Gapless
<1> QED BY <1>10, <1>11

\* A subscription after a frame, field by field.
LEMMA HandedFields ==
  ASSUME NEW s, NEW f, sub[s] \in Sub
  PROVE  LET b == sub[s]
             h == Handed(s, f)
             waits == b.call = "waiting"
         IN  /\ h.on = b.on /\ h.pos = b.pos
             /\ f.kind = "ok" =>
                  /\ h.in = b.in /\ h.since = f.pos /\ h.chan = b.chan
                  /\ h.call = IF waits THEN "ok" ELSE b.call
             /\ f.kind = "event" =>
                  /\ h.in = b.in /\ h.since = f.pos /\ h.call = b.call
                  /\ h.chan = Sent(s, InChan("event", f.pos))
             /\ f.kind \notin {"ok", "event"} =>
                  /\ ~h.in /\ h.since = 0
                  /\ h.call = IF waits THEN "expired" ELSE b.call
                  /\ h.chan = IF waits THEN b.chan ELSE Sent(s, InChan("expired", 0))
<1>1. CASE f.kind = "ok"
  BY <1>1 DEF Handed, Sub
<1>2. CASE f.kind = "event"
  BY <1>2 DEF Handed, Sub
<1>3. CASE f.kind \notin {"ok", "event"}
  BY <1>3 DEF Handed, Gone, Sub
<1> QED BY <1>1, <1>2, <1>3

\* What the worker hands on is the next row, or the cursor it has.
LEMMA TakeStream ==
  ASSUME TypeOK, TypeOK', Take, NEW s \in Subs, Head(wire).sub = s, sub[s].in,
         Head(wire).kind \in {"ok", "event"}, feed.sub = s, feed.at # "probe",
         Gapless(s), Answered(s)
  PROVE  Gapless(s)' /\ Answered(s)'
<1> DEFINE f == Head(wire)
<1>1. /\ feed.from \in Nat /\ feed.batch \in Seq(Nat) /\ sub[s].chan \in Seq(InQueue)
      /\ Len(log) \in Nat /\ wire \in Seq(OnWire) /\ sub[s] \in Sub
      /\ feed' = feed /\ log' = log /\ wire # <<>> /\ wire' = Tail(wire)
      /\ sub \in [Subs -> Sub]
  BY Types DEF Take
<1>2. /\ f \in OnWire /\ f = wire[1] /\ 1 \in DOMAIN wire
      /\ DOMAIN wire = 1 .. Len(wire) /\ Len(wire) \in Nat
      /\ DOMAIN wire' = 1 .. Len(wire) - 1
      /\ \A i \in DOMAIN wire' : i + 1 \in DOMAIN wire /\ wire'[i] = wire[i + 1]
      /\ \A i \in DOMAIN wire : i # 1 => i - 1 \in DOMAIN wire' /\ wire'[i - 1] = wire[i]
  BY <1>1
<1>3. f.pos \in Nat
  BY <1>2 DEF OnWire
<1>4. sub'[s] = Handed(s, f)
  BY <1>1 DEF Take
<1>5. PICK from \in Nat : /\ from = sub[s].since
                          /\ from = feed.from + Len(feed.batch) + Len(sub[s].chan)
  BY GaplessSince
<1>6. PICK upto \in from .. Len(log) :
        Follows(s, from, upto) /\ (sub[s].on => sub[s].pos = upto)
  BY <1>5 DEF Gapless
<1>9. from + 1 = feed.from + Len(feed.batch) + (Len(sub[s].chan) + 1)
  <2> DEFINE held == feed.from + Len(feed.batch)
             n    == Len(sub[s].chan)
  <2>1. held \in Nat /\ n \in Nat /\ from = held + n
    BY <1>1, <1>5
  <2> HIDE DEF held, n
  <2>2. from + 1 = held + (n + 1)
    BY <2>1
  <2> QED BY <2>2 DEF held, n
<1>7. CASE f.kind = "ok"
  <2>1. f.pos = from
    BY <1>2, <1>5, <1>7 DEF Answered
  <2>2. /\ sub'[s].chan = sub[s].chan /\ sub'[s].since = sub[s].since
        /\ sub'[s].on = sub[s].on /\ sub'[s].pos = sub[s].pos
    BY <1>1, <1>4, <1>5, <1>7, <2>1 DEF Handed, Sub
  <2>3. Unmoved(s)
    BY <1>1, <2>2 DEF Unmoved
  <2>4. SameFrames(s, 1)
    BY <1>1, <1>7, OthersKept
  <2>5. Len(log) <= Len(log)'
    BY <1>1
  <2> QED BY <2>3, <2>4, <2>5, StreamKept
<1>8. CASE f.kind = "event"
  <2>1. 1 \in Coming(s) /\ \A i \in Coming(s) : i \in Nat /\ i >= 1
    BY <1>2, <1>8 DEF Coming
  <2>2. f.pos \in from + 1 .. upto /\ \A i \in Coming(s) : i # 1 => f.pos < wire[i].pos
    BY <1>2, <1>6, <2>1 DEF Follows
  <2>3. f.pos = from + 1
    <3>1. from + 1 \in from + 1 .. upto
      <4>1. upto \in Int
        BY <1>6
      <4>2. from + 1 <= upto
        BY <2>2, <4>1
      <4> QED BY <4>1, <4>2
    <3>2. PICK i \in Coming(s) : wire[i].pos = from + 1
      BY <1>6, <3>1 DEF Follows
    <3> QED BY <1>2, <1>3, <1>5, <2>2, <3>2
  <2>4. /\ sub'[s].chan = Append(sub[s].chan, InChan("event", from + 1))
        /\ sub'[s].since = from + 1
        /\ sub'[s].on = sub[s].on /\ sub'[s].pos = sub[s].pos
    <3>2. Sent(s, InChan("event", f.pos)) = Append(sub[s].chan, InChan("event", from + 1))
      BY <2>3 DEF Sent
    <3>3. /\ sub'[s].since = f.pos /\ sub'[s].on = sub[s].on /\ sub'[s].pos = sub[s].pos
          /\ sub'[s].chan = Sent(s, InChan("event", f.pos))
      BY <1>1, <1>4, <1>8, HandedFields
    <3> QED BY <2>3, <3>2, <3>3
  <2>5. Coming(s)' = {i \in DOMAIN wire' : i + 1 \in Coming(s)}
    BY <1>2 DEF Coming
  <2>6. \A i \in Coming(s) : i # 1 => i - 1 \in Coming(s)' /\ wire'[i - 1] = wire[i]
    BY <1>2 DEF Coming
  <2>7. \A i \in Coming(s)' : i + 1 \in Coming(s) /\ i + 1 # 1 /\ wire'[i] = wire[i + 1]
    BY <1>2, <2>5
  <2>8. {wire'[i].pos : i \in Coming(s)'} = from + 2 .. upto
    <3>1. ASSUME NEW i \in Coming(s)' PROVE wire'[i].pos \in from + 2 .. upto
      <4>1. wire[i + 1].pos \in from + 1 .. upto /\ from + 1 < wire[i + 1].pos
        BY <1>6, <2>2, <2>3, <2>7 DEF Follows
      <4>2. upto \in Int
        BY <1>1, <1>5, <1>6
      <4> QED BY <1>5, <2>7, <4>1, <4>2
    <3>2. ASSUME NEW n \in from + 2 .. upto
          PROVE  \E i \in Coming(s)' : wire'[i].pos = n
      <4>1. n \in from + 1 .. upto /\ n # from + 1
        BY <1>1, <1>5, <1>6, <3>2
      <4>2. PICK i \in Coming(s) : wire[i].pos = n
        BY <1>6, <4>1 DEF Follows
      <4>3. i # 1
        BY <1>2, <2>3, <4>1, <4>2
      <4> QED BY <2>6, <4>2, <4>3
    <3> QED BY <3>1, <3>2
  <2>9. \A i, j \in Coming(s)' : i < j => wire'[i].pos < wire'[j].pos
    <3>1. SUFFICES ASSUME NEW i \in Coming(s)', NEW j \in Coming(s)', i < j
                   PROVE  wire'[i].pos < wire'[j].pos
      OBVIOUS
    <3>2. i + 1 < j + 1 /\ i + 1 \in Coming(s) /\ j + 1 \in Coming(s)
      BY <1>2, <2>5, <2>7, <3>1
    <3> QED BY <1>6, <2>7, <3>2 DEF Follows
  <2>10. Follows(s, from + 1, upto)'
    BY <2>8, <2>9 DEF Follows
  <2>11. upto \in from + 1 .. Len(log)'
    BY <1>1, <1>5, <1>6, <2>2
  <2>12. Answered(s)'
    <3>1. ASSUME NEW i \in DOMAIN wire', wire'[i].sub = s, wire'[i].kind = "ok"
          PROVE  FALSE
      <4>1. i + 1 \in DOMAIN wire /\ wire[i + 1] = wire'[i]
        BY <1>2, <3>1
      <4>2. i + 1 < 1
        BY <2>1, <3>1, <4>1 DEF Answered
      <4> QED BY <1>2, <3>1, <4>2
    <3> QED BY <3>1 DEF Answered
  <2>13. \A i \in DOMAIN sub'[s].chan :
            sub'[s].chan[i] = InChan("event", feed.from + Len(feed.batch) + i)
    <3>1. \A i \in DOMAIN sub[s].chan :
            sub[s].chan[i] = InChan("event", feed.from + Len(feed.batch) + i)
      BY DEF Gapless
    <3>2. SUFFICES ASSUME NEW i \in DOMAIN sub'[s].chan
                   PROVE  sub'[s].chan[i] = InChan("event", feed.from + Len(feed.batch) + i)
      OBVIOUS
    <3>3. CASE i \in DOMAIN sub[s].chan
      BY <1>1, <2>4, <3>1, <3>3
    <3>4. CASE i \notin DOMAIN sub[s].chan
      <4>1. i = Len(sub[s].chan) + 1 /\ sub'[s].chan[i] = InChan("event", from + 1)
        BY <1>1, <2>4, <3>4
      <4>2. from + 1 = feed.from + Len(feed.batch) + i
        BY <1>9, <4>1
      <4> QED BY <4>1, <4>2
    <3> QED BY <3>3, <3>4
  <2>14. Len(sub'[s].chan) = Len(sub[s].chan) + 1
    BY <1>1, <2>4
  <2>15. Gapless(s)'
    <3>1. sub'[s].since = feed'.from + Len(feed'.batch) + Len(sub'[s].chan)
      <4>1. feed' = feed
        BY <1>1
      <4> QED BY <1>9, <2>4, <2>14, <4>1
    <3>2. \A i \in DOMAIN feed'.batch : feed'.batch[i] = feed'.from + i
      BY <1>1 DEF Gapless
    <3>3. \E u \in sub'[s].since .. Len(log)' :
             Follows(s, from + 1, u)' /\ (sub'[s].on => sub'[s].pos = u)
      BY <1>6, <2>4, <2>10, <2>11
    <3> QED BY <1>1, <2>4, <2>13, <3>1, <3>2, <3>3 DEF Gapless
  <2> QED BY <2>12, <2>15
<1> QED BY <1>7, <1>8

\* The webview takes from the channel and shows: what is on its way stays.
LEMMA BehindKept ==
  ASSUME NEW s \in Subs, Gapless(s), wire' = wire, Len(log)' = Len(log),
         sub'[s].since = sub[s].since, sub'[s].on = sub[s].on, sub'[s].pos = sub[s].pos
  PROVE  /\ \E upto \in sub'[s].since .. Len(log)' :
               Follows(s, sub[s].since, upto)' /\ (sub'[s].on => sub'[s].pos = upto)
         /\ Answered(s) => Answered(s)'
<1>1. Coming(s)' = Coming(s)
  BY DEF Coming
<1>2. PICK upto \in sub[s].since .. Len(log) :
        Follows(s, sub[s].since, upto) /\ (sub[s].on => sub[s].pos = upto)
  BY DEF Gapless
<1>3. Follows(s, sub[s].since, upto)'
  BY <1>1, <1>2 DEF Follows
<1>4. Answered(s) => Answered(s)'
  BY <1>1 DEF Answered
<1> QED BY <1>2, <1>3, <1>4

LEMMA ReceiveQueue ==
  ASSUME TypeOK, NEW s \in Subs, Queued(s),
         sub[s].chan # <<>>, sub[s].chan[1].kind = "event",
         feed'.batch = Append(feed.batch, sub[s].chan[1].pos), feed'.from = feed.from,
         sub'[s].chan = Tail(sub[s].chan)
  PROVE  /\ Queued(s)'
         /\ Len(feed'.batch) = Len(feed.batch) + 1
         /\ Len(sub'[s].chan) = Len(sub[s].chan) - 1
         /\ \A i \in DOMAIN sub'[s].chan :
              i + 1 \in DOMAIN sub[s].chan /\ sub'[s].chan[i] = sub[s].chan[i + 1]
<1> DEFINE k == Len(feed.batch)
           n == Len(sub[s].chan)
           from == feed.from
<1>1. /\ feed.batch \in Seq(Nat) /\ sub[s].chan \in Seq(InQueue)
      /\ DOMAIN feed.batch = 1 .. k /\ DOMAIN sub[s].chan = 1 .. n
  BY Types
<1>2. from \in Nat /\ k \in Nat /\ n \in Nat /\ n > 0
  BY <1>1, Types
<1>3. /\ \A i \in DOMAIN feed.batch : feed.batch[i] = from + i
      /\ \A i \in DOMAIN sub[s].chan :
            sub[s].chan[i].kind = "event" => sub[s].chan[i] = InChan("event", from + k + i)
  BY DEF Queued
<1>4. /\ DOMAIN feed'.batch = 1 .. k + 1 /\ Len(feed'.batch) = k + 1
      /\ \A i \in 1 .. k : feed'.batch[i] = feed.batch[i]
      /\ feed'.batch[k + 1] = sub[s].chan[1].pos
  BY <1>1
<1>5. /\ DOMAIN sub'[s].chan = 1 .. n - 1 /\ Len(sub'[s].chan) = n - 1
      /\ \A i \in 1 .. n - 1 : sub'[s].chan[i] = sub[s].chan[i + 1]
  BY <1>1, <1>2
<1>6. feed'.from = from
  OBVIOUS
<1> HIDE DEF k, n, from
<1>7. sub[s].chan[1].pos = from + k + 1
  <2>1. 1 \in 1 .. n
    BY <1>2
  <2>2. sub[s].chan[1] = InChan("event", from + k + 1)
    BY <1>1, <1>3, <2>1
  <2> QED BY <2>2 DEF InChan
<1>8. \A i \in DOMAIN feed'.batch : feed'.batch[i] = from + i
  <2>1. \A i \in 1 .. k : feed'.batch[i] = from + i
    BY <1>1, <1>3, <1>4
  <2>2. \A i \in 1 .. k + 1 : i \in 1 .. k \/ i = k + 1
    BY <1>2
  <2>3. from + k + 1 = from + (k + 1)
    BY <1>2
  <2> QED BY <1>4, <1>7, <2>1, <2>2, <2>3
<1>9. ASSUME NEW i \in 1 .. n - 1
      PROVE  from + k + (i + 1) = from + (k + 1) + i /\ i + 1 \in 1 .. n
  <2>1. i \in Int /\ i + 1 \in 1 .. n
    BY <1>2
  <2> QED BY <1>2, <2>1
<1>10. \A i \in DOMAIN sub'[s].chan :
         sub'[s].chan[i].kind = "event" => sub'[s].chan[i] = InChan("event", from + (k + 1) + i)
  <2>1. SUFFICES ASSUME NEW i \in 1 .. n - 1, sub'[s].chan[i].kind = "event"
                 PROVE  sub'[s].chan[i] = InChan("event", from + (k + 1) + i)
    BY <1>5
  <2>2. i + 1 \in 1 .. n /\ from + k + (i + 1) = from + (k + 1) + i
    BY <1>9
  <2>3. sub'[s].chan[i] = sub[s].chan[i + 1]
    BY <1>5
  <2>4. sub[s].chan[i + 1] = InChan("event", from + k + (i + 1))
    BY <1>1, <1>3, <2>1, <2>2, <2>3
  <2> QED BY <2>2, <2>3, <2>4
<1>11. Queued(s)'
  BY <1>4, <1>6, <1>8, <1>10 DEF Queued
<1>12. /\ Len(feed'.batch) = k + 1 /\ Len(sub'[s].chan) = n - 1
       /\ \A i \in DOMAIN sub'[s].chan :
            i + 1 \in DOMAIN sub[s].chan /\ sub'[s].chan[i] = sub[s].chan[i + 1]
  BY <1>1, <1>4, <1>5, <1>9
<1> QED BY <1>11, <1>12 DEF k, n

LEMMA GaplessQueued ==
  ASSUME NEW s \in Subs
  PROVE  /\ Gapless(s) =>
              Queued(s) /\ \A i \in DOMAIN sub[s].chan : sub[s].chan[i].kind = "event"
         /\ Gapless(s)' => Queued(s)'
<1> SUFFICES ASSUME Gapless(s)
             PROVE  /\ Queued(s)
                    /\ \A i \in DOMAIN sub[s].chan : sub[s].chan[i].kind = "event"
  <2>1. ASSUME Gapless(s)' PROVE Queued(s)'
    <3>1. /\ \A i \in DOMAIN feed'.batch : feed'.batch[i] = feed'.from + i
          /\ \A i \in DOMAIN sub'[s].chan :
               sub'[s].chan[i] = InChan("event", feed'.from + Len(feed'.batch) + i)
      BY <2>1 DEF Gapless
    <3> QED BY <3>1 DEF Queued
  <2> QED BY <2>1
<1>1. /\ \A i \in DOMAIN feed.batch : feed.batch[i] = feed.from + i
      /\ \A i \in DOMAIN sub[s].chan :
           sub[s].chan[i] = InChan("event", feed.from + Len(feed.batch) + i)
  BY DEF Gapless
<1>2. \A p : InChan("event", p).kind = "event"
  BY DEF InChan
<1>3. \A i \in DOMAIN sub[s].chan : sub[s].chan[i].kind = "event"
  BY <1>1, <1>2
<1> QED BY <1>1, <1>3 DEF Queued

LEMMA OneOver ==
  ASSUME NEW from \in Nat, NEW k \in Nat, NEW n \in Nat
  PROVE  from + k + n = from + (k + 1) + (n - 1)
OBVIOUS

LEMMA ReceiveStream ==
  ASSUME TypeOK, NEW s \in Subs, Gapless(s), sub[s].chan # <<>>,
         feed'.batch = Append(feed.batch, sub[s].chan[1].pos), feed'.from = feed.from,
         sub'[s] = [sub[s] EXCEPT !.chan = Tail(@)], wire' = wire, log' = log
  PROVE  Gapless(s)' /\ (Answered(s) => Answered(s)')
<1> DEFINE k == Len(feed.batch)
           n == Len(sub[s].chan)
<1>1. /\ feed.batch \in Seq(Nat) /\ sub[s].chan \in Seq(InQueue) /\ sub[s] \in Sub
      /\ DOMAIN sub[s].chan = 1 .. n
  BY Types
<1>2. feed.from \in Nat /\ k \in Nat /\ n \in Nat /\ n > 0
  BY <1>1, Types
<1>3. /\ sub'[s].since = sub[s].since /\ sub'[s].on = sub[s].on /\ sub'[s].pos = sub[s].pos
      /\ sub'[s].chan = Tail(sub[s].chan)
  BY <1>1 DEF Sub
<1>4. Queued(s) /\ \A i \in DOMAIN sub[s].chan : sub[s].chan[i].kind = "event"
  BY GaplessQueued
<1>5. 1 \in DOMAIN sub[s].chan
  BY <1>1, <1>2
<1>6. /\ Queued(s)' /\ Len(feed'.batch) = k + 1 /\ Len(sub'[s].chan) = n - 1
      /\ \A i \in DOMAIN sub'[s].chan : sub'[s].chan[i].kind = "event"
  <2>1. sub[s].chan[1].kind = "event" /\ sub'[s].chan = Tail(sub[s].chan)
    BY <1>3, <1>4, <1>5
  <2>2. /\ Queued(s)' /\ Len(feed'.batch) = k + 1 /\ Len(sub'[s].chan) = n - 1
        /\ \A i \in DOMAIN sub'[s].chan :
             i + 1 \in DOMAIN sub[s].chan /\ sub'[s].chan[i] = sub[s].chan[i + 1]
    BY <1>4, <2>1, ReceiveQueue
  <2> QED BY <1>4, <2>2
<1>7. sub'[s].since = feed'.from + Len(feed'.batch) + Len(sub'[s].chan)
  <2>1. sub[s].since = feed.from + k + n
    BY DEF Gapless
  <2>2. feed.from + k + n = feed.from + (k + 1) + (n - 1)
    BY <1>2, OneOver
  <2> QED BY <1>3, <1>6, <2>1, <2>2
<1>8. /\ \E upto \in sub'[s].since .. Len(log)' :
           Follows(s, sub[s].since, upto)' /\ (sub'[s].on => sub'[s].pos = upto)
      /\ Answered(s) => Answered(s)'
  BY <1>3, BehindKept
<1>9. /\ \A i \in DOMAIN feed'.batch : feed'.batch[i] = feed'.from + i
      /\ \A i \in DOMAIN sub'[s].chan :
           sub'[s].chan[i] = InChan("event", feed'.from + Len(feed'.batch) + i)
  BY <1>6 DEF Queued
<1> QED BY <1>7, <1>8, <1>9 DEF Gapless

\* The queued events over the rows are the newest of them.
LEMMA ShowQueue ==
  ASSUME TypeOK, NEW s \in Subs, Queued(s),
         feed'.batch = <<>>, feed'.from = Upto(feed.batch), sub' = sub
  PROVE  /\ Queued(s)' /\ feed'.from = feed.from + Len(feed.batch) /\ feed.from <= feed'.from
         /\ feed'.from + Len(feed'.batch) = feed.from + Len(feed.batch)
<1> DEFINE k == Len(feed.batch)
<1>1. feed.from \in Nat /\ feed.batch \in Seq(Nat) /\ k \in Nat
  BY Types
<1>2. /\ \A i \in DOMAIN feed.batch : feed.batch[i] = feed.from + i
      /\ \A i \in DOMAIN sub[s].chan :
           sub[s].chan[i].kind = "event" => sub[s].chan[i] = InChan("event", feed.from + k + i)
  BY DEF Queued
<1>3. feed'.from = feed.from + k
  <2>1. CASE feed.batch = <<>>
    BY <1>1, <2>1 DEF Upto
  <2>2. CASE feed.batch # <<>>
    <3>1. k \in DOMAIN feed.batch /\ Last(feed.batch) = feed.batch[k]
      BY <1>1, <2>2 DEF Last
    <3> QED BY <1>2, <2>2, <3>1 DEF Upto
  <2> QED BY <2>1, <2>2
<1>4. feed'.from + Len(feed'.batch) = feed.from + k /\ feed.from <= feed'.from
  BY <1>1, <1>3
<1>5. \A i \in DOMAIN feed'.batch : feed'.batch[i] = feed'.from + i
  OBVIOUS
<1> HIDE DEF k
<1>6. Queued(s)'
  BY <1>2, <1>4, <1>5 DEF Queued
<1> QED BY <1>3, <1>4, <1>6 DEF k

LEMMA ShowStream ==
  ASSUME TypeOK, NEW s \in Subs, Gapless(s),
         feed'.batch = <<>>, feed'.from = Upto(feed.batch),
         sub' = sub, wire' = wire, log' = log
  PROVE  Gapless(s)' /\ (Answered(s) => Answered(s)')
<1>1. feed'.from + Len(feed'.batch) = feed.from + Len(feed.batch)
  BY GaplessQueued, ShowQueue
<1>2. /\ \A i \in DOMAIN sub[s].chan :
           sub[s].chan[i] = InChan("event", feed.from + Len(feed.batch) + i)
      /\ sub[s].since = feed.from + Len(feed.batch) + Len(sub[s].chan)
  BY DEF Gapless
<1>3. /\ \E upto \in sub'[s].since .. Len(log)' :
           Follows(s, sub[s].since, upto)' /\ (sub'[s].on => sub'[s].pos = upto)
      /\ Answered(s) => Answered(s)'
  BY BehindKept
<1>4. \A i \in DOMAIN feed'.batch : feed'.batch[i] = feed'.from + i
  OBVIOUS
<1> QED BY <1>1, <1>2, <1>3, <1>4 DEF Gapless

-----------------------------------------------------------------------------
(* What the actions do to a subscription, field by field.                  *)

SameButStream(s) ==
  /\ sub'[s].call = sub[s].call /\ sub'[s].in = sub[s].in
  /\ sub'[s].since = sub[s].since /\ sub'[s].chan = sub[s].chan

Dropped(s) == ~sub'[s].in /\ sub'[s].since = 0 /\ sub'[s].on = sub[s].on /\ sub'[s].pos = sub[s].pos

LEMMA LostFields ==
  ASSUME TypeOK, Crash \/ Disconnect, NEW s \in Subs
  PROVE  SameButStream(s) /\ ~sub'[s].on /\ sub'[s].pos = 0
<1>1. sub'[s] = [sub[s] EXCEPT !.on = FALSE, !.pos = 0]
  BY DEF Crash, Disconnect
<1> QED BY <1>1, Types DEF SameButStream, Sub

LEMMA EmitFields ==
  ASSUME TypeOK, NEW t \in Subs, Emit(t), NEW s \in Subs
  PROVE  /\ SameButStream(s) /\ (sub'[s].on => sub[s].on)
         /\ sub'[s].pos \in {0, sub[s].pos, sub[s].pos + 1}
         /\ sub'[s].pos = sub[s].pos + 1 => sub[s].pos < Len(log) \/ sub'[s].pos = 0
         /\ s # t => sub'[s] = sub[s]
<1>1. sub \in [Subs -> Sub] /\ sub[s] \in Sub
  BY Types
<1>2. CASE sub' = [sub EXCEPT ![t].on = FALSE, ![t].pos = 0]
  <2>1. s # t => sub'[s] = sub[s]
    BY <1>1, <1>2
  <2>2. s = t => sub'[s] = [sub[s] EXCEPT !.on = FALSE, !.pos = 0]
    BY <1>1, <1>2
  <2>3. s # t => SameButStream(s) /\ sub'[s].pos \in {0, sub[s].pos, sub[s].pos + 1}
    BY <2>1 DEF SameButStream
  <2>4. s = t => SameButStream(s) /\ ~sub'[s].on /\ sub'[s].pos = 0
    BY <1>1, <2>2 DEF SameButStream, Sub
  <2>5. sub[s].pos # sub[s].pos + 1
    BY <1>1 DEF Sub, NoCursor
  <2> QED BY <2>1, <2>3, <2>4, <2>5
<1>3. CASE sub' = [sub EXCEPT ![t].pos = sub[t].pos + 1] /\ sub[t].pos < Len(log)
  <2>1. s # t => sub'[s] = sub[s]
    BY <1>1, <1>3
  <2>2. s = t => sub'[s] = [sub[s] EXCEPT !.pos = sub[s].pos + 1]
    BY <1>1, <1>3
  <2>3. s # t => SameButStream(s) /\ sub'[s].pos \in {0, sub[s].pos, sub[s].pos + 1}
    BY <2>1 DEF SameButStream
  <2>4. s = t => SameButStream(s) /\ sub'[s].on = sub[s].on /\ sub'[s].pos = sub[s].pos + 1
    BY <1>1, <2>2 DEF SameButStream, Sub
  <2>5. sub[s].pos # sub[s].pos + 1
    BY <1>1 DEF Sub, NoCursor
  <2> QED BY <1>3, <2>1, <2>3, <2>4, <2>5
<1> QED BY <1>1, <1>2, <1>3 DEF Emit

LEMMA LinkDownFields ==
  ASSUME TypeOK, LinkDown, NEW s \in Subs
  PROVE  /\ ~sub[s].in => sub'[s] = sub[s]
         /\ sub[s].in => /\ Dropped(s)
                         /\ sub'[s].call = IF sub[s].call = "waiting" THEN "unavailable"
                                           ELSE sub[s].call
                         /\ sub'[s].chan = IF sub[s].call = "waiting" THEN sub[s].chan
                                           ELSE Sent(s, InChan("unavailable", 0))
<1>1. sub'[s] = IF ~sub[s].in THEN sub[s]
                ELSE IF sub[s].call = "waiting" THEN [Gone(sub[s]) EXCEPT !.call = "unavailable"]
                ELSE [Gone(sub[s]) EXCEPT !.chan = Sent(s, InChan("unavailable", 0))]
  BY DEF LinkDown, FallBack
<1>2. sub[s] \in Sub
  BY Types
<1>3. CASE sub[s].call = "waiting"
  BY <1>1, <1>2, <1>3 DEF Gone, Sub, Dropped
<1>4. CASE sub[s].call # "waiting"
  BY <1>1, <1>2, <1>4 DEF Gone, Sub, Dropped
<1> QED BY <1>3, <1>4

LEMMA CallFields ==
  ASSUME TypeOK, NEW t \in Subs, SubCheck(t) \/ SubInsert(t) \/ SubTimeout(t), NEW s \in Subs
  PROVE  /\ s # t => sub'[s] = sub[s]
         /\ s = t => /\ sub'[s].chan = sub[s].chan
                     /\ sub'[s].on = sub[s].on /\ sub'[s].pos = sub[s].pos
                     /\ \/ /\ sub[s].call = "invoked" /\ sub'[s].call = "begun"
                           /\ sub'[s].in = sub[s].in /\ sub'[s].since = sub[s].since
                        \/ /\ sub[s].call = "begun" /\ sub'[s].call = "waiting"
                           /\ sub'[s].in /\ sub'[s].since = sub[s].since
                        \/ /\ sub[s].call \in {"invoked", "waiting"}
                           /\ sub'[s].call \in {"unavailable", "transport"}
                           /\ Dropped(s)
<1>1. sub \in [Subs -> Sub] /\ sub[s] \in Sub
  BY Types
<1>2. CASE s # t
  BY <1>1, <1>2 DEF SubCheck, SubInsert, SubTimeout
<1>3. CASE s = t /\ SubCheck(t)
  <2>1. sub'[s] = IF Active THEN [sub[s] EXCEPT !.call = "begun"]
                  ELSE [Gone(sub[s]) EXCEPT !.call = "unavailable"]
    BY <1>1, <1>3 DEF SubCheck
  <2> QED BY <1>1, <1>3, <2>1 DEF SubCheck, Gone, Sub, Dropped
<1>4. CASE s = t /\ SubInsert(t)
  <2>1. sub'[s] = [sub[s] EXCEPT !.call = "waiting", !.in = TRUE]
    BY <1>1, <1>4 DEF SubInsert
  <2> QED BY <1>1, <1>4, <2>1 DEF SubInsert, Sub
<1>5. CASE s = t /\ SubTimeout(t)
  <2>1. sub'[s] = [Gone(sub[s]) EXCEPT !.call = "transport"]
    BY <1>1, <1>5 DEF SubTimeout
  <2> QED BY <1>1, <1>5, <2>1 DEF SubTimeout, Gone, Sub, Dropped
<1> QED BY <1>2, <1>3, <1>4, <1>5

LEMMA SyncFields ==
  ASSUME TypeOK, Sync, NEW s \in Subs
  PROVE  /\ SameButStream(s)
         /\ s \notin Desired => ~sub'[s].on /\ sub'[s].pos = 0
         /\ s \in Desired \cap asked => sub'[s] = sub[s]
         /\ sub'[s].pos \in {0, sub[s].pos, Begin(s)}
<1>1. sub[s] \in Sub /\
      sub'[s] = IF s \in Desired \ asked
                THEN IF Begin(s) < engine.floor THEN sub[s]
                     ELSE [sub[s] EXCEPT !.on = TRUE, !.pos = Begin(s)]
                ELSE IF s \notin Desired THEN [sub[s] EXCEPT !.on = FALSE, !.pos = 0]
                ELSE sub[s]
  BY Types DEF Sync
<1>2. CASE s \in Desired \ asked
  BY <1>1, <1>2 DEF SameButStream, Sub
<1>3. CASE s \notin Desired
  BY <1>1, <1>3 DEF SameButStream, Sub
<1>4. CASE s \in Desired \cap asked
  BY <1>1, <1>4 DEF SameButStream
<1> QED BY <1>2, <1>3, <1>4

LEMMA TakeFields ==
  ASSUME TypeOK, Take, NEW s \in Subs
  PROVE  LET f == Head(wire)
         IN  /\ wire # <<>> /\ wire' = Tail(wire) /\ f \in OnWire /\ f = wire[1] /\ 1 \in DOMAIN wire
             /\ sub'[s] = IF f.sub = s /\ sub[s].in THEN Handed(s, f) ELSE sub[s]
<1>1. sub \in [Subs -> Sub] /\ wire \in Seq(OnWire) /\ wire # <<>>
  BY Types DEF Take
<1>2. Head(wire) \in OnWire /\ Head(wire) = wire[1] /\ 1 \in DOMAIN wire
  BY <1>1
<1>3. Head(wire).sub \in Subs
  BY <1>2 DEF OnWire
<1> QED BY <1>1, <1>2, <1>3 DEF Take

LEMMA GiveBackFields ==
  ASSUME NEW b \in Sub
  PROVE  /\ GiveBack(b).call = "none" /\ ~GiveBack(b).in /\ GiveBack(b).since = 0
         /\ GiveBack(b).on = b.on /\ GiveBack(b).pos = b.pos /\ GiveBack(b).chan = <<>>
BY DEF GiveBack, Gone, Sub

LEMMA InvokeFields ==
  ASSUME NEW b \in Sub, NEW from
  PROVE  LET v == Invoke(b, from)
         IN  /\ v.call = "invoked" /\ v.since = from /\ v.in = b.in
             /\ v.on = b.on /\ v.pos = b.pos /\ v.chan = b.chan
BY DEF Invoke, Sub

LEMMA StreamFields ==
  /\ NoStream \in Sub /\ NoStream.call = "none" /\ ~NoStream.in /\ ~NoStream.on
  /\ NoStream.since = 0 /\ NoStream.pos = 0 /\ NoStream.chan = <<>>
<1>1. <<>> \in Seq(InQueue)
  OBVIOUS
<1> QED BY <1>1 DEF NoStream, Sub

\* A stream is begun at rest, or for a probe, and on a number that nothing
\* names; what the feed had is given back.
LEMMA RenewFields ==
  ASSUME TypeOK, StageInv, StartProbe \/ ReadViews
  PROVE  /\ feed.at \in {"rest", "probe"} /\ feed.batch = <<>> /\ feed'.batch = <<>>
         /\ shown' = shown /\ wire' = wire /\ log' = log /\ asked' = asked
         /\ \/ /\ feed'.at = "rest" /\ feed'.sub = NoSub /\ feed'.from = 0
               /\ \A s \in Subs : sub'[s] = IF s = feed.sub THEN GiveBack(sub[s]) ELSE sub[s]
            \/ /\ Fresh \in Subs /\ Fits(Fresh) /\ feed'.sub = Fresh
               /\ \/ feed'.at = "probe" /\ feed'.from = feed.from
                  \/ feed'.at = "sub" /\ feed'.from = Len(log)
               /\ \A s \in Subs :
                    IF s = Fresh
                    THEN /\ sub'[s].call = "invoked" /\ ~sub'[s].in /\ ~sub'[s].on
                         /\ sub'[s].pos = 0 /\ sub'[s].chan = <<>>
                         /\ sub'[s].since \in {NoCursor, Len(log)}
                         /\ feed'.at = "sub" => sub'[s].since = Len(log)
                    ELSE sub'[s] = IF s = feed.sub THEN GiveBack(sub[s]) ELSE sub[s]
<1> DEFINE back == [s \in Subs |-> IF s = feed.sub THEN GiveBack(sub[s]) ELSE sub[s]]
<1>1. sub \in [Subs -> Sub] /\ back \in [Subs -> Sub]
  BY Types, SubTypes
<1>2. /\ feed.at \in {"rest", "probe"} /\ feed.batch = <<>>
      /\ shown' = shown /\ wire' = wire /\ log' = log /\ asked' = asked
  BY DEF StartProbe, ReadViews, StageInv
<1>3. feed \in FeedState
  BY DEF TypeOK
<1>4. CASE StartProbe
  <2>1. Fresh \in Subs /\ Fits(Fresh)
    BY <1>4, FreshFits DEF StartProbe
  <2>2. /\ feed.at = "rest" /\ feed.sub = NoSub
        /\ feed' = [feed EXCEPT !.at = "probe", !.sub = Fresh]
        /\ sub' = [sub EXCEPT ![Fresh] = Invoke(sub[Fresh], NoCursor)]
    BY <1>1, <1>4, <2>1 DEF StartProbe, StageInv
  <2>3. feed'.at = "probe" /\ feed'.sub = Fresh /\ feed'.from = feed.from /\ feed'.batch = feed.batch
    BY <1>3, <2>2 DEF FeedState
  <2>4. sub[Fresh] = NoStream
    BY <2>1 DEF Fits
  <2>5. sub'[Fresh] = Invoke(NoStream, NoCursor) /\ \A s \in Subs \ {Fresh} : sub'[s] = sub[s]
    BY <1>1, <2>1, <2>2, <2>4
  <2>6. \A s \in Subs : s # feed.sub
    BY <2>2, DesktopAssumption
  <2>7. LET v == Invoke(NoStream, NoCursor)
        IN  /\ v.call = "invoked" /\ v.since = NoCursor /\ ~v.in /\ ~v.on /\ v.pos = 0
            /\ v.chan = <<>>
    BY StreamFields, InvokeFields
  <2>8. \A s \in Subs : s # Fresh => sub'[s] = IF s = feed.sub THEN GiveBack(sub[s]) ELSE sub[s]
    BY <2>5, <2>6
  <2>9. /\ sub'[Fresh].call = "invoked" /\ sub'[Fresh].since = NoCursor /\ ~sub'[Fresh].in
        /\ ~sub'[Fresh].on /\ sub'[Fresh].pos = 0 /\ sub'[Fresh].chan = <<>>
    BY <2>5, <2>7
  <2> HIDE DEF back
  <2>10. \A s \in Subs :
           IF s = Fresh
           THEN /\ sub'[s].call = "invoked" /\ ~sub'[s].in /\ ~sub'[s].on
                /\ sub'[s].pos = 0 /\ sub'[s].chan = <<>>
                /\ sub'[s].since \in {NoCursor, Len(log)}
                /\ feed'.at = "sub" => sub'[s].since = Len(log)
           ELSE sub'[s] = IF s = feed.sub THEN GiveBack(sub[s]) ELSE sub[s]
    BY <2>3, <2>8, <2>9
  <2> QED BY <1>2, <2>1, <2>3, <2>10
<1>5. CASE sub' = back /\ \E away \in BOOLEAN : RetryLater(away)
  <2>1. feed'.at = "rest" /\ feed'.sub = NoSub /\ feed'.from = 0 /\ feed'.batch = <<>>
    BY <1>5 DEF RetryLater, Idle
  <2> QED BY <1>2, <1>5, <2>1
<1>6. CASE /\ \E s \in Subs : Fits(s)
           /\ sub' = [back EXCEPT ![Fresh] = Invoke(@, Len(log))]
           /\ \E views \in engine.seen :
                feed' = [feed EXCEPT !.at = "sub", !.sub = Fresh, !.from = Len(log),
                                     !.rows = views, !.run = count.crashes]
  <2>1. Fresh \in Subs /\ Fits(Fresh)
    BY <1>6, FreshFits
  <2>3. feed'.at = "sub" /\ feed'.sub = Fresh /\ feed'.from = Len(log) /\ feed'.batch = feed.batch
    BY <1>3, <1>6 DEF FeedState
  <2>4. /\ back[Fresh] \in Sub /\ ~back[Fresh].in /\ ~back[Fresh].on
        /\ back[Fresh].pos = 0 /\ back[Fresh].chan = <<>>
    <3>1. sub[Fresh] = NoStream
      BY <2>1 DEF Fits
    <3>2. back[Fresh] \in {NoStream, GiveBack(NoStream)}
      BY <2>1, <3>1
    <3> QED BY <1>1, <2>1, <3>2, StreamFields, GiveBackFields
  <2>5. sub'[Fresh] = Invoke(back[Fresh], Len(log)) /\ \A s \in Subs \ {Fresh} : sub'[s] = back[s]
    <3> HIDE DEF back
    <3> QED BY <1>1, <1>6, <2>1
  <2>6. LET v == Invoke(back[Fresh], Len(log))
        IN  /\ v.call = "invoked" /\ v.since = Len(log) /\ ~v.in /\ ~v.on /\ v.pos = 0
            /\ v.chan = <<>>
    <3> HIDE DEF back
    <3> QED BY <2>4, InvokeFields
  <2>7. \A s \in Subs : back[s] = IF s = feed.sub THEN GiveBack(sub[s]) ELSE sub[s]
    OBVIOUS
  <2> HIDE DEF back
  <2> QED BY <1>2, <2>1, <2>3, <2>5, <2>6, <2>7
<1> QED BY <1>4, <1>5, <1>6 DEF ReadViews

\* A generation that failed leaves nothing in its channel.
LEMMA EndFields ==
  ASSUME TypeOK, StageInv, Failed \/ (Receive /\ sub[feed.sub].chan[1].kind # "event")
  PROVE  /\ feed.sub \in Subs
         /\ feed'.at = "rest" /\ feed'.sub = NoSub /\ feed'.batch = <<>> /\ feed'.from = 0
         /\ shown' = shown /\ wire' = wire /\ log' = log /\ asked' = asked
         /\ \A s \in Subs : s # feed.sub => sub'[s] = sub[s]
         /\ LET b == sub[feed.sub]
            IN  sub'[feed.sub] = GiveBack(b) \/ sub'[feed.sub] = [b EXCEPT !.chan = <<>>]
<1>1. sub \in [Subs -> Sub] /\ feed \in FeedState
  BY DEF TypeOK
<1>2. feed.sub \in Subs
  BY <1>1 DEF Failed, Receive, StageInv, FeedState
<1>3. feed'.at = "rest" /\ feed'.sub = NoSub /\ feed'.batch = <<>> /\ feed'.from = 0
  BY DEF Failed, Receive, RetryLater, Idle
<1>4. shown' = shown /\ wire' = wire /\ log' = log /\ asked' = asked
  BY DEF Failed, Receive
<1>5. \/ sub' = [sub EXCEPT ![feed.sub] = GiveBack(sub[feed.sub])]
      \/ sub' = [sub EXCEPT ![feed.sub] = [sub[feed.sub] EXCEPT !.chan = <<>>]]
  <2>1. CASE Failed
    BY <1>1, <1>2, <2>1 DEF Failed
  <2>2. CASE Receive /\ feed.at = "live"
    <3>1. sub' = [sub EXCEPT ![feed.sub] = GiveBack(@)]
      BY <2>2 DEF Receive, Failed
    <3> QED BY <1>1, <1>2, <3>1
  <2>3. CASE Receive /\ feed.at # "live" /\ ~Failed
    BY <1>1, <1>2, <2>3 DEF Receive
  <2> QED BY <2>1, <2>2, <2>3
<1> QED BY <1>1, <1>2, <1>3, <1>4, <1>5

\* The webview takes an event of its stream.
LEMMA EventFields ==
  ASSUME TypeOK, StageInv, Receive, sub[feed.sub].chan[1].kind = "event"
  PROVE  /\ feed.sub \in Subs /\ sub[feed.sub].chan # <<>>
         /\ feed'.at = feed.at /\ feed'.sub = feed.sub /\ feed'.from = feed.from
         /\ feed'.batch = Append(feed.batch, sub[feed.sub].chan[1].pos)
         /\ shown' = shown /\ wire' = wire /\ log' = log /\ asked' = asked /\ period' = period
         /\ \A s \in Subs : s # feed.sub => sub'[s] = sub[s]
         /\ sub'[feed.sub] = [sub[feed.sub] EXCEPT !.chan = Tail(@)]
         /\ LET b == sub[feed.sub] c == sub'[feed.sub]
            IN  /\ c.call = b.call /\ c.in = b.in /\ c.since = b.since
                /\ c.on = b.on /\ c.pos = b.pos /\ c.chan = Tail(b.chan)
<1>1. sub \in [Subs -> Sub] /\ feed \in FeedState
  BY DEF TypeOK
<1>2. feed.sub \in Subs /\ sub[feed.sub].chan # <<>> /\ sub[feed.sub] \in Sub
  BY <1>1 DEF Receive, StageInv, FeedState
<1>3. /\ sub' = [sub EXCEPT ![feed.sub] = [sub[feed.sub] EXCEPT !.chan = Tail(@)]]
      /\ feed' = [feed EXCEPT !.batch = Append(@, sub[feed.sub].chan[1].pos)]
      /\ shown' = shown /\ wire' = wire /\ log' = log /\ asked' = asked /\ period' = period
  BY <1>1, <1>2 DEF Receive
<1>4. /\ feed'.at = feed.at /\ feed'.sub = feed.sub /\ feed'.from = feed.from
      /\ feed'.batch = Append(feed.batch, sub[feed.sub].chan[1].pos)
  BY <1>1, <1>3 DEF FeedState
<1>5. sub'[feed.sub] = [sub[feed.sub] EXCEPT !.chan = Tail(@)]
  BY <1>1, <1>2, <1>3
<1>6. LET b == sub[feed.sub] c == sub'[feed.sub]
      IN  /\ c.call = b.call /\ c.in = b.in /\ c.since = b.since
          /\ c.on = b.on /\ c.pos = b.pos /\ c.chan = Tail(b.chan)
  BY <1>2, <1>5 DEF Sub
<1> QED BY <1>1, <1>2, <1>3, <1>4, <1>5, <1>6

\* What is shown when a stream begins to run, and after its events.
LEMMA ShowFields ==
  ASSUME TypeOK, StageInv, GoLive \/ Flush
  PROVE  /\ feed.at \in {"sub", "live"} /\ feed.sub \in Subs /\ sub[feed.sub].call = "ok"
         /\ feed'.at = "live" /\ feed'.sub = feed.sub /\ feed'.batch = <<>>
         /\ shown' = Core(feed'.from, feed'.rows) /\ feed'.from = Upto(feed.batch)
         /\ feed'.from = shown'.pos /\ feed'.run = feed.run
         /\ feed'.rows = Flushed.rows
         /\ sub' = sub /\ wire' = wire /\ log' = log /\ asked' = asked
         /\ period'.at = "none"
<1>1. feed \in FeedState
  BY DEF TypeOK
<1>2. feed.at \in {"sub", "live"} /\ feed.sub \in Subs /\ sub[feed.sub].call = "ok"
  BY <1>1 DEF GoLive, Flush, StageInv, FeedState
<1>3. shown' = Flushed
  BY DEF GoLive, Flush
<1>4. /\ feed'.at = "live" /\ feed'.sub = feed.sub /\ feed'.batch = <<>>
      /\ feed'.from = shown'.pos /\ feed'.rows = shown'.rows /\ feed'.run = feed.run
  BY <1>1 DEF GoLive, Flush, FeedState
<1>5. /\ shown' = Core(feed'.from, feed'.rows) /\ feed'.from = Upto(feed.batch)
      /\ feed'.rows = Flushed.rows
  BY <1>3, <1>4 DEF Flushed, Core
<1>6. period'.at = "none"
  BY DEF GoLive, Flush, EndPeriod, Closed, StageInv
<1> QED BY <1>2, <1>3, <1>4, <1>5, <1>6 DEF GoLive, Flush

LEMMA SettleFields ==
  ASSUME TypeOK, NEW t \in Subs, Settle(t)
  PROVE  /\ t # feed.sub /\ sub'[t] = GiveBack(sub[t])
         /\ \A s \in Subs : s # t => sub'[s] = sub[s]
BY Types DEF Settle

\* A frame goes to the channel of the feed's stream and to no other.
LEMMA SentFields ==
  ASSUME TypeOK, NEW s \in Subs, NEW f \in InQueue
  PROVE  /\ s # feed.sub \/ feed.at = "probe" => Sent(s, f) = sub[s].chan
         /\ s = feed.sub /\ feed.at # "probe" => \E i \in DOMAIN Sent(s, f) : Sent(s, f)[i] = f
         /\ \A i \in DOMAIN Sent(s, f) :
              Sent(s, f)[i] = f \/ (i \in DOMAIN sub[s].chan /\ Sent(s, f)[i] = sub[s].chan[i])
<1>1. sub[s].chan \in Seq(InQueue)
  BY Types
<1>2. /\ \A i \in DOMAIN Append(sub[s].chan, f) :
           \/ Append(sub[s].chan, f)[i] = f
           \/ i \in DOMAIN sub[s].chan /\ Append(sub[s].chan, f)[i] = sub[s].chan[i]
      /\ \E i \in DOMAIN Append(sub[s].chan, f) : Append(sub[s].chan, f)[i] = f
  <2> DEFINE c == sub[s].chan
  <2>1. /\ DOMAIN Append(c, f) = 1 .. Len(c) + 1 /\ DOMAIN c = 1 .. Len(c) /\ Len(c) \in Nat
        /\ Append(c, f)[Len(c) + 1] = f
        /\ \A i \in 1 .. Len(c) : Append(c, f)[i] = c[i]
    BY <1>1
  <2>2. Len(c) + 1 \in 1 .. Len(c) + 1 /\ \A i \in 1 .. Len(c) + 1 : i \in 1 .. Len(c) \/ i = Len(c) + 1
    BY <2>1
  <2> HIDE DEF c
  <2> QED BY <2>1, <2>2 DEF c
<1> QED BY <1>2 DEF Sent

-----------------------------------------------------------------------------
(* Every part of the invariant is kept.                                    *)

\* The actions that leave the subscriptions and the feed alone.
Quiet == \/ Change \/ Commit \/ Prune \/ Boot \/ LinkUp \/ Stale
         \/ Scan \/ ReadNative \/ Release \/ Hear \/ UNCHANGED vars

LEMMA QuietFields ==
  ASSUME Quiet
  PROVE  sub' = sub /\ asked' = asked /\ wire' = wire /\ feed' = feed
<1>1. CASE Change \/ Commit \/ Prune \/ Boot \/ LinkUp \/ Stale
  BY <1>1 DEF Change, Commit, Prune, Boot, LinkUp, Stale
<1>2. CASE Scan \/ ReadNative \/ Release \/ Hear \/ UNCHANGED vars
  BY <1>2 DEF Scan, ReadNative, Release, Hear, vars
<1> QED BY <1>1, <1>2 DEF Quiet

LEMMA StageStep ==
  ASSUME TypeOK, TypeOK', StageInv, [Next]_vars
  PROVE  StageInv'
<1>0. feed.at = "live" => feed.sub \in Subs
  BY DEF TypeOK, FeedState, StageInv
<1>1. ASSUME feed' = feed, shown' = shown \/ feed.at # "live", period' = period \/ feed.at # "live" \/ period'.at = "none",
             feed.at = "live" => sub'[feed.sub].call = "ok"
      PROVE  StageInv'
  BY <1>1 DEF StageInv
<1>2. CASE Quiet
  <2>1. sub' = sub /\ feed' = feed
    BY <1>2, QuietFields
  <2>2. feed.at = "live" => period.at = "none"
    BY DEF StageInv
  <2>3. CASE Change \/ Commit \/ Prune \/ Boot \/ LinkUp \/ Stale \/ UNCHANGED vars
    <3>1. shown' = shown /\ period' = period
      BY <2>3 DEF Change, Commit, Prune, Boot, LinkUp, Stale, vars
    <3> QED BY <1>1, <2>1, <3>1 DEF StageInv
  <2>4. CASE Scan
    <3>1. shown' = shown /\ (period.at = "none" => period' = period)
      BY <2>4 DEF Scan
    <3> QED BY <1>1, <2>1, <2>2, <3>1 DEF StageInv
  <2>5. CASE ReadNative \/ Release \/ Hear
    <3>1. feed.at # "live"
      BY <2>2, <2>5 DEF ReadNative, Release, Hear
    <3> QED BY <1>1, <2>1, <3>1
  <2> QED BY <1>2, <2>3, <2>4, <2>5 DEF Quiet
<1>3. ASSUME Crash \/ Disconnect \/ LinkDown \/ Sync \/ Take
             \/ \E t \in Subs : Emit(t) \/ SubCheck(t) \/ SubInsert(t) \/ SubTimeout(t) \/ Settle(t)
      PROVE  StageInv'
  <2>1. feed' = feed /\ shown' = shown /\ period' = period
    BY <1>3 DEF Crash, Disconnect, LinkDown, Sync, Take, Emit, SubCheck, SubInsert, SubTimeout,
                Settle
  <2>2. ASSUME feed.at = "live" PROVE sub'[feed.sub].call = "ok"
    <3>1. PICK s \in Subs : s = feed.sub /\ sub[s].call = "ok"
      BY <1>0, <2>2 DEF StageInv
    <3>2. CASE Crash \/ Disconnect
      BY <3>1, <3>2, LostFields DEF SameButStream
    <3>3. CASE LinkDown
      BY <3>1, <3>3, LinkDownFields
    <3>4. CASE Sync
      BY <3>1, <3>4, SyncFields DEF SameButStream
    <3>5. CASE Take
      <4>1. sub[s] \in Sub
        BY <3>1, Types
      <4>2. Handed(s, Head(wire)).call = "ok"
        BY <3>1, <4>1, HandedFields
      <4> QED BY <3>1, <3>5, <4>2, TakeFields
    <3>6. ASSUME NEW t \in Subs, Emit(t) PROVE sub'[s].call = "ok"
      BY <3>1, <3>6, EmitFields DEF SameButStream
    <3>7. ASSUME NEW t \in Subs, SubCheck(t) \/ SubInsert(t) \/ SubTimeout(t)
          PROVE  sub'[s].call = "ok"
      BY <3>1, <3>7, CallFields
    <3>8. ASSUME NEW t \in Subs, Settle(t) PROVE sub'[s].call = "ok"
      BY <3>1, <3>8, SettleFields
    <3> QED BY <1>3, <3>1, <3>2, <3>3, <3>4, <3>5, <3>6, <3>7, <3>8
  <2> QED BY <1>1, <2>1, <2>2
<1>4. CASE StartProbe \/ ReadViews
  <2>1. CASE feed'.at = "rest" /\ feed'.sub = NoSub
    BY <1>4, <2>1, RenewFields DEF StageInv
  <2>2. CASE feed'.at \in {"probe", "sub"} /\ feed'.sub \in Subs
    BY <1>4, <2>2, RenewFields, DesktopAssumption DEF StageInv
  <2> QED BY <1>4, <2>1, <2>2, RenewFields
<1>5. CASE Failed \/ (Receive /\ sub[feed.sub].chan[1].kind # "event")
  BY <1>5, EndFields DEF StageInv
<1>6. CASE Receive /\ sub[feed.sub].chan[1].kind = "event"
  <2>1. /\ feed'.at = feed.at /\ feed'.sub = feed.sub /\ feed'.from = feed.from
        /\ shown' = shown /\ period' = period /\ sub'[feed.sub].call = sub[feed.sub].call
        /\ feed'.rows = feed.rows
    BY <1>6, EventFields DEF Receive, TypeOK, FeedState
  <2>2. feed.at \in {"sub", "live"}
    BY <1>6 DEF Receive
  <2>3. Core(feed.from, feed.rows)' = Core(feed.from, feed.rows)
    BY <2>1 DEF Core
  <2> QED BY <2>1, <2>2, <2>3 DEF StageInv
<1>7. CASE GoLive \/ Flush
  <2>1. /\ feed'.at = "live" /\ feed'.sub = feed.sub /\ feed.sub \in Subs
        /\ shown' = Core(feed'.from, feed'.rows)
        /\ sub[feed.sub].call = "ok" /\ sub' = sub /\ period'.at = "none"
    BY <1>7, ShowFields
  <2>2. shown'.pos = feed'.from /\ shown'.rows = feed'.rows
    BY <2>1 DEF Core
  <2>3. feed'.sub # NoSub /\ sub'[feed'.sub].call = "ok"
    BY <2>1, DesktopAssumption
  <2>4. (feed.at = "rest" <=> feed.sub = NoSub)' /\ (feed.at \in {"rest", "probe"} => feed.batch = <<>>)'
    BY <2>1, <2>3
  <2>5. Core(feed.from, feed.rows)' = Core(feed'.from, feed'.rows)
    BY DEF Core
  <2> QED BY <2>1, <2>3, <2>4, <2>5 DEF StageInv
<1> QED BY <1>2, <1>3, <1>4, <1>5, <1>6, <1>7
        DEF Quiet, Next, Engine, Link, Worker, Calls, Feed, Period

\* A subscription keeps within the log, whatever is done to it.
LEMMA SubWithinStep ==
  ASSUME TypeOK, TypeOK', Within, StageInv, [Next]_vars, NEW s \in Subs
  PROVE  SubWithin(s)'
<1>1. /\ Len(log) \in Nat /\ Len(log)' \in Nat /\ Len(log) <= Len(log)'
      /\ sub[s] \in Sub /\ sub[s].since \in Nat \cup {NoCursor} /\ sub[s].pos \in Nat \cup {NoCursor}
      /\ sub[s].chan \in Seq(InQueue) /\ SubWithin(s)
  BY LogGrows, Types DEF Within, Sub
<1>2. \A i \in DOMAIN sub[s].chan : sub[s].chan[i].pos \in Nat
  <2>1. \A i \in DOMAIN sub[s].chan : sub[s].chan[i] \in InQueue
    BY <1>1
  <2> QED BY <2>1 DEF InQueue
\* It is enough that its cursor and position are 0, what they were, or in the
\* log, and that its channel holds what it held.
<1>3. ASSUME NEW since, NEW pos,
             since \in {0, NoCursor, sub[s].since, Len(log)} \/ (since \in Nat /\ since <= Len(log)),
             pos \in {0, sub[s].pos} \/ (pos \in Nat /\ pos <= Len(log))
      PROVE  since <= Len(log)' /\ pos <= Len(log)'
  BY <1>1, <1>3 DEF SubWithin, NoCursor
<1>4. ASSUME sub'[s].chan = sub[s].chan \/ sub'[s].chan = <<>>
      PROVE  \A i \in DOMAIN sub'[s].chan : sub'[s].chan[i].pos <= Len(log)'
  BY <1>1, <1>2, <1>4 DEF SubWithin
<1>5. ASSUME NEW f \in InQueue, f.pos \in Nat, f.pos <= Len(log), sub'[s].chan = Sent(s, f)
      PROVE  \A i \in DOMAIN sub'[s].chan : sub'[s].chan[i].pos <= Len(log)'
  BY <1>1, <1>2, <1>5, SentFields DEF SubWithin
<1>6. ASSUME sub'[s] = sub[s] PROVE SubWithin(s)'
  BY <1>3, <1>4, <1>6 DEF SubWithin
<1>7. ASSUME sub'[s] = GiveBack(sub[s]) PROVE SubWithin(s)'
  BY <1>1, <1>3, <1>4, <1>7, GiveBackFields DEF SubWithin
<1>8. CASE Quiet
  BY <1>6, <1>8, QuietFields
<1>9. CASE Crash \/ Disconnect
  BY <1>3, <1>4, <1>9, LostFields DEF SubWithin, SameButStream
<1>10. CASE LinkDown
  <2>1. CASE sub[s].in /\ sub[s].call # "waiting"
    <3>1. InChan("unavailable", 0) \in InQueue /\ InChan("unavailable", 0).pos = 0
      BY SentTypes DEF InChan
    <3>2. sub'[s].chan = Sent(s, InChan("unavailable", 0)) /\ sub'[s].since = 0 /\ sub'[s].pos = sub[s].pos
      BY <1>10, <2>1, LinkDownFields DEF Dropped
    <3>3. 0 \in Nat /\ 0 <= Len(log)
      BY <1>1
    <3> QED BY <1>3, <1>5, <3>1, <3>2, <3>3 DEF SubWithin
  <2>2. CASE sub[s].in /\ sub[s].call = "waiting"
    BY <1>3, <1>4, <1>10, <2>2, LinkDownFields DEF Dropped, SubWithin
  <2> QED BY <1>6, <1>10, <2>1, <2>2, LinkDownFields
<1>11. ASSUME NEW t \in Subs, SubCheck(t) \/ SubInsert(t) \/ SubTimeout(t) PROVE SubWithin(s)'
  <2>1. CASE s = t
    BY <1>3, <1>4, <1>11, <2>1, CallFields DEF Dropped, SubWithin
  <2> QED BY <1>6, <1>11, <2>1, CallFields
<1>12. ASSUME NEW t \in Subs, Emit(t) PROVE SubWithin(s)'
  <2>1. SameButStream(s)
    BY <1>12, EmitFields
  <2>2. sub'[s].pos \in {0, sub[s].pos} \/ (sub'[s].pos \in Nat /\ sub'[s].pos <= Len(log))
    <3>1. \/ sub'[s].pos \in {0, sub[s].pos}
          \/ sub'[s].pos = sub[s].pos + 1 /\ sub[s].pos < Len(log)
      BY <1>12, EmitFields
    <3>2. sub[s].pos < Len(log) => sub[s].pos + 1 \in Nat /\ sub[s].pos + 1 <= Len(log)
      BY <1>1 DEF NoCursor
    <3> QED BY <3>1, <3>2
  <2> QED BY <1>3, <1>4, <2>1, <2>2 DEF SameButStream, SubWithin
<1>13. CASE Sync
  <2>1. Begin(s) \in {sub[s].since, Len(log)} /\ Begin(s) \in Nat /\ Begin(s) <= Len(log)
    BY <1>1 DEF Begin, NoCursor, SubWithin
  <2>2. SameButStream(s) /\ sub'[s].pos \in {0, sub[s].pos, Begin(s)}
    BY <1>13, SyncFields
  <2> QED BY <1>3, <1>4, <2>1, <2>2 DEF SameButStream, SubWithin
<1>14. CASE Take
  <2>1. PICK f \in OnWire : /\ f = wire[1] /\ 1 \in DOMAIN wire
                            /\ sub'[s] = IF f.sub = s /\ sub[s].in THEN Handed(s, f) ELSE sub[s]
    BY <1>14, TakeFields
  <2>2. f.pos \in Nat /\ f.pos <= Len(log)
    BY <2>1 DEF Within, OnWire
  <2>3. CASE f.sub = s /\ sub[s].in
    <3>1. sub'[s] = Handed(s, f)
      BY <2>1, <2>3
    <3>2. CASE f.kind = "ok"
      BY <1>1, <1>3, <1>4, <2>2, <3>1, <3>2, HandedFields DEF SubWithin
    <3>3. CASE f.kind = "event"
      <4>1. InChan("event", f.pos) \in InQueue /\ InChan("event", f.pos).pos = f.pos
        BY <2>2, SentTypes DEF InChan
      <4>2. /\ sub'[s].chan = Sent(s, InChan("event", f.pos))
            /\ sub'[s].since = f.pos /\ sub'[s].pos = sub[s].pos
        BY <1>1, <3>1, <3>3, HandedFields
      <4> QED BY <1>3, <1>5, <2>2, <4>1, <4>2 DEF SubWithin
    <3>4. CASE f.kind \notin {"ok", "event"}
      <4>1. InChan("expired", 0) \in InQueue /\ InChan("expired", 0).pos = 0 /\ 0 <= Len(log)
        BY <1>1, SentTypes DEF InChan
      <4>2. /\ sub'[s].chan \in {sub[s].chan, Sent(s, InChan("expired", 0))}
            /\ sub'[s].since = 0 /\ sub'[s].pos = sub[s].pos
        BY <1>1, <3>1, <3>4, HandedFields
      <4>3. \A i \in DOMAIN sub'[s].chan : sub'[s].chan[i].pos <= Len(log)'
        <5>1. CASE sub'[s].chan = sub[s].chan
          BY <1>4, <5>1
        <5>2. CASE sub'[s].chan = Sent(s, InChan("expired", 0))
          BY <1>1, <1>5, <4>1, <5>2
        <5> QED BY <4>2, <5>1, <5>2
      <4> QED BY <1>3, <4>2, <4>3 DEF SubWithin
    <3> QED BY <3>2, <3>3, <3>4
  <2> QED BY <1>6, <2>1, <2>3
<1>15. CASE StartProbe \/ ReadViews
  <2>1. CASE sub'[s] = IF s = feed.sub THEN GiveBack(sub[s]) ELSE sub[s]
    BY <1>6, <1>7, <2>1
  <2>2. CASE sub'[s].pos = 0 /\ sub'[s].chan = <<>> /\ sub'[s].since \in {NoCursor, Len(log)}
    BY <1>3, <1>4, <2>2 DEF SubWithin
  <2> QED BY <1>15, <2>1, <2>2, RenewFields
<1>16. CASE Failed \/ (Receive /\ sub[feed.sub].chan[1].kind # "event")
  <2>1. CASE s # feed.sub
    BY <1>6, <1>16, <2>1, EndFields
  <2>2. CASE s = feed.sub /\ sub'[s] = [sub[s] EXCEPT !.chan = <<>>]
    <3>1. sub'[s].since = sub[s].since /\ sub'[s].pos = sub[s].pos /\ sub'[s].chan = <<>>
      BY <1>1, <2>2 DEF Sub
    <3> QED BY <1>3, <1>4, <3>1 DEF SubWithin
  <2> QED BY <1>7, <1>16, <2>1, <2>2, EndFields
<1>17. CASE Receive /\ sub[feed.sub].chan[1].kind = "event"
  <2>1. CASE s # feed.sub
    BY <1>6, <1>17, <2>1, EventFields
  <2>2. CASE s = feed.sub
    <3>1. /\ sub[s].chan # <<>> /\ sub'[s].chan = Tail(sub[s].chan)
          /\ sub'[s].since = sub[s].since /\ sub'[s].pos = sub[s].pos
      BY <1>17, <2>2, EventFields
    <3>2. \A i \in DOMAIN Tail(sub[s].chan) :
             i + 1 \in DOMAIN sub[s].chan /\ Tail(sub[s].chan)[i] = sub[s].chan[i + 1]
      BY <1>1, <3>1
    <3>3. \A i \in DOMAIN sub'[s].chan : sub'[s].chan[i].pos <= Len(log)'
      BY <1>1, <1>2, <3>1, <3>2 DEF SubWithin
    <3> QED BY <1>3, <3>1, <3>3 DEF SubWithin
  <2> QED BY <2>1, <2>2
<1>18. CASE GoLive \/ Flush
  BY <1>6, <1>18, ShowFields
<1>19. ASSUME NEW t \in Subs, Settle(t) PROVE SubWithin(s)'
  BY <1>6, <1>7, <1>19, SettleFields
<1> QED BY <1>8, <1>9, <1>10, <1>11, <1>12, <1>13, <1>14, <1>15, <1>16, <1>17, <1>18, <1>19
        DEF Quiet, Next, Engine, Link, Worker, Calls, Feed, Period

\* So do the frames on the wire.
LEMMA WireWithinStep ==
  ASSUME TypeOK, TypeOK', Within, [Next]_vars
  PROVE  \A i \in DOMAIN wire' : wire'[i].pos <= Len(log)'
<1>1. /\ Len(log) \in Nat /\ Len(log)' \in Nat /\ Len(log) <= Len(log)'
      /\ wire \in Seq(OnWire) /\ DOMAIN wire = 1 .. Len(wire) /\ Len(wire) \in Nat
  BY LogGrows, Types
<1>2. \A i \in DOMAIN wire : wire[i].pos \in Nat /\ wire[i].pos <= Len(log)'
  <2>1. \A i \in DOMAIN wire : wire[i] \in OnWire /\ wire[i].pos <= Len(log)
    BY <1>1 DEF Within
  <2> QED BY <1>1, <2>1 DEF OnWire
<1>3. CASE wire' = wire \/ wire' = <<>>
  BY <1>2, <1>3
<1>4. ASSUME NEW t \in Subs, Emit(t) PROVE \A i \in DOMAIN wire' : wire'[i].pos <= Len(log)'
  <2>1. \E f : wire' = Append(wire, f) /\ f.pos \in Int /\ f.pos <= Len(log)'
    <3>1. sub[t].pos \in Int /\ log' = log
      BY <1>4, Types DEF Emit, Sub, NoCursor
    <3>2. CASE wire' = Append(wire, Frame(t, "expired", 0))
      BY <1>1, <3>2 DEF Frame
    <3>3. CASE wire' = Append(wire, Frame(t, "event", sub[t].pos + 1)) /\ sub[t].pos < Len(log)
      <4>1. sub[t].pos + 1 \in Int /\ sub[t].pos + 1 <= Len(log)'
        BY <1>1, <3>1, <3>3
      <4> QED BY <3>3, <4>1 DEF Frame
    <3> QED BY <1>4, <3>2, <3>3 DEF Emit
  <2>2. PICK f : wire' = Append(wire, f) /\ f.pos \in Int /\ f.pos <= Len(log)'
    BY <2>1
  <2>3. \A i \in DOMAIN wire' : wire'[i] = f \/ (i \in DOMAIN wire /\ wire'[i] = wire[i])
    BY <1>1, <2>2
  <2> QED BY <1>2, <2>2, <2>3
<1>5. CASE Sync
  <2> DEFINE new == Desired \ asked
             a   == [i \in 1 .. Cardinality(new) |-> Answer(SetToSeq(new)[i])]
  <2>1. /\ wire' = wire \o a /\ a \in Seq(OnWire) /\ log' = log
        /\ \A i \in DOMAIN a : a[i] = Answer(SetToSeq(new)[i]) /\ SetToSeq(new)[i] \in Subs
    <3>1. new \in SUBSET Subs
      BY DEF Desired
    <3>2. /\ a \in Seq(OnWire) /\ DOMAIN a = 1 .. Cardinality(new)
          /\ \A i \in DOMAIN a : SetToSeq(new)[i] \in new
      BY <3>1, SyncAnswers
    <3> QED BY <1>5, <3>1, <3>2 DEF Sync
  <2>2. \A s \in Subs : Answer(s).pos <= Len(log)
    <3> SUFFICES ASSUME NEW s \in Subs PROVE Answer(s).pos <= Len(log)
      OBVIOUS
    <3>1. Begin(s) <= Len(log)
      BY <1>1 DEF Within, SubWithin, Begin
    <3> QED BY <1>1, <3>1 DEF Answer, Frame
  <2> HIDE DEF a, new
  <2>3. \A i \in DOMAIN wire' :
          \/ i \in DOMAIN wire /\ wire'[i] = wire[i]
          \/ \E j \in DOMAIN a : wire'[i] = a[j]
    BY <1>1, <2>1
  <2> QED BY <1>2, <2>1, <2>2, <2>3
<1>6. CASE Take
  <2>1. wire # <<>> /\ wire' = Tail(wire)
    BY <1>6 DEF Take
  <2>2. \A i \in DOMAIN wire' : i + 1 \in DOMAIN wire /\ wire'[i] = wire[i + 1]
    BY <1>1, <2>1
  <2> QED BY <1>2, <2>2
<1>7. CASE Crash \/ Disconnect
  <2>1. wire' = <<>>
    BY <1>7 DEF Crash, Disconnect
  <2> QED BY <1>3, <2>1
<1>8. CASE \E t \in Subs : SubCheck(t) \/ SubInsert(t) \/ SubTimeout(t) \/ Settle(t)
  BY <1>3, <1>8 DEF SubCheck, SubInsert, SubTimeout, Settle
<1>9. CASE Quiet \/ LinkDown
  BY <1>3, <1>9, QuietFields DEF LinkDown
<1>10. CASE StartProbe \/ ReadViews \/ Failed \/ GoLive \/ Receive \/ Flush
  BY <1>3, <1>10 DEF StartProbe, ReadViews, Failed, GoLive, Receive, Flush
<1> QED BY <1>4, <1>5, <1>6, <1>7, <1>8, <1>9, <1>10
        DEF Quiet, Next, Engine, Link, Worker, Calls, Feed, Period

\* And what the webview holds.
LEMMA FeedWithinStep ==
  ASSUME TypeOK, TypeOK', Within, StageInv, [Next]_vars
  PROVE  /\ \A i \in DOMAIN feed'.batch : feed'.batch[i] <= Len(log)'
         /\ feed'.from <= Len(log)'
         /\ shown'.src = "core" => shown'.pos <= Len(log)'
<1>1. /\ Len(log) \in Nat /\ Len(log)' \in Nat /\ Len(log) <= Len(log)'
      /\ feed.from \in Nat /\ feed.batch \in Seq(Nat) /\ shown.pos \in Nat
  BY LogGrows, Types DEF TypeOK, ShownState
<1>2. /\ \A i \in DOMAIN feed.batch : feed.batch[i] \in Nat /\ feed.batch[i] <= Len(log)'
      /\ feed.from <= Len(log)'
      /\ shown.src = "core" => shown.pos <= Len(log)'
  BY <1>1 DEF Within
<1>3. CASE Quiet
  <2>1. feed' = feed
    BY <1>3, QuietFields
  <2>2. shown' = shown \/ shown'.src = "native"
    BY <1>3 DEF Quiet, Change, Commit, Prune, Boot, LinkUp, Stale, Scan, ReadNative, Release, Hear,
                Native, vars
  <2> QED BY <1>2, <2>1, <2>2
<1>4. CASE feed' = feed /\ shown' = shown
  BY <1>2, <1>4
<1>5. CASE StartProbe \/ ReadViews
  <2>1. feed'.batch = <<>> /\ shown' = shown
    BY <1>5, RenewFields
  <2>2. feed'.from \in {0, feed.from, Len(log)}
    BY <1>5, RenewFields
  <2> QED BY <1>1, <1>2, <2>1, <2>2
<1>6. CASE Failed \/ (Receive /\ sub[feed.sub].chan[1].kind # "event")
  BY <1>1, <1>2, <1>6, EndFields
<1>7. CASE Receive /\ sub[feed.sub].chan[1].kind = "event"
  <2>1. PICK s \in Subs : /\ s = feed.sub /\ sub[s].chan # <<>> /\ feed'.from = feed.from
                          /\ feed'.batch = Append(feed.batch, sub[s].chan[1].pos) /\ shown' = shown
    BY <1>7, EventFields
  <2>2. sub[s].chan \in Seq(InQueue)
    BY Types
  <2>3. 1 \in DOMAIN sub[s].chan /\ sub[s].chan[1] \in InQueue
    BY <2>1, <2>2
  <2>4. sub[s].chan[1].pos \in Nat
    BY <2>3 DEF InQueue
  <2>5. sub[s].chan[1].pos <= Len(log)'
    BY <1>1, <2>3, <2>4 DEF Within, SubWithin
  <2>6. \A i \in DOMAIN feed'.batch :
          feed'.batch[i] = sub[s].chan[1].pos \/ (i \in DOMAIN feed.batch /\ feed'.batch[i] = feed.batch[i])
    BY <1>1, <2>1, <2>4
  <2> QED BY <1>2, <2>1, <2>5, <2>6
<1>8. CASE GoLive \/ Flush
  <2>1. /\ feed'.batch = <<>> /\ feed'.from = shown'.pos
        /\ feed'.from = Upto(feed.batch)
    BY <1>8, ShowFields
  <2>2. shown'.pos <= Len(log)'
    <3>1. feed.batch # <<>> => \E i \in DOMAIN feed.batch : Last(feed.batch) = feed.batch[i]
      BY <1>1 DEF Last
    <3> QED BY <1>2, <2>1, <3>1 DEF Upto
  <2> QED BY <2>1, <2>2
<1>9. CASE Crash \/ Disconnect \/ LinkDown \/ Sync \/ Take
  BY <1>4, <1>9 DEF Crash, Disconnect, LinkDown, Sync, Take
<1>10. CASE \E t \in Subs : Emit(t) \/ SubCheck(t) \/ SubInsert(t) \/ SubTimeout(t) \/ Settle(t)
  BY <1>4, <1>10 DEF Emit, SubCheck, SubInsert, SubTimeout, Settle
<1> QED BY <1>3, <1>5, <1>6, <1>7, <1>8, <1>9, <1>10
        DEF Quiet, Next, Engine, Link, Worker, Calls, Feed, Period

LEMMA WithinStep ==
  ASSUME TypeOK, TypeOK', Within, StageInv, [Next]_vars
  PROVE  Within'
BY SubWithinStep, WireWithinStep, FeedWithinStep DEF Within

\* What the bridge and the engine have of a subscription stays consistent.
LEMMA SubStep ==
  ASSUME TypeOK, TypeOK', StageInv, [Next]_vars, NEW s \in Subs, SubInv(s)
  PROVE  SubInv(s)'
<1>1. /\ sub \in [Subs -> Sub] /\ sub[s] \in Sub
  BY Types
<1>2. ASSUME sub'[s] = sub[s] \/ sub'[s] = GiveBack(sub[s]),
             asked' = asked, wire' = wire,
             feed'.sub = s /\ feed'.at # "probe" => feed.sub = s /\ feed.at # "probe",
             s = feed.sub /\ feed.at # "probe" /\ ~(feed'.sub = s /\ feed'.at # "probe")
               => sub'[s].chan = <<>>
      PROVE  SubInv(s)'
  <2>1. CASE sub'[s] = sub[s]
    BY <1>2, <2>1 DEF SubInv, NoFrames
  <2>2. CASE sub'[s] = GiveBack(sub[s])
    BY <1>1, <1>2, <2>2, GiveBackFields DEF SubInv, NoFrames
  <2> QED BY <1>2, <2>1, <2>2
<1>3. CASE Quiet
  BY <1>2, <1>3, QuietFields
<1>4. CASE Crash \/ Disconnect
  <2>1. asked' = {} /\ wire' = <<>> /\ feed' = feed
    BY <1>4 DEF Crash, Disconnect
  <2>2. NoFrames(s)'
    BY <2>1 DEF NoFrames
  <2> QED BY <1>4, <2>1, <2>2, LostFields DEF SubInv, SameButStream
<1>5. CASE LinkDown
  <2>1. asked' = asked /\ wire' = wire /\ feed' = feed
    BY <1>5 DEF LinkDown
  <2>2. CASE ~sub[s].in
    BY <1>2, <1>5, <2>1, <2>2, LinkDownFields
  <2>3. CASE sub[s].in
    <3>1. Dropped(s) /\ sub'[s].call \in {"unavailable", "ok"}
      BY <1>5, <2>3, LinkDownFields DEF SubInv
    <3>2. s # feed.sub \/ feed.at = "probe" => sub'[s].chan = <<>>
      BY <1>5, <2>3, LinkDownFields, SentTypes, SentFields DEF SubInv
    <3> QED BY <2>1, <3>1, <3>2 DEF SubInv, Dropped
  <2> QED BY <2>2, <2>3
<1>6. ASSUME NEW t \in Subs, SubCheck(t) \/ SubInsert(t) \/ SubTimeout(t) PROVE SubInv(s)'
  <2>1. asked' = asked /\ wire' = wire /\ feed' = feed
    BY <1>6 DEF SubCheck, SubInsert, SubTimeout
  <2>2. CASE s # t
    BY <1>2, <1>6, <2>1, <2>2, CallFields
  <2>3. CASE s = t
    BY <1>6, <2>1, <2>3, CallFields DEF SubInv, NoFrames, Dropped
  <2> QED BY <2>2, <2>3
<1>7. ASSUME NEW t \in Subs, Emit(t) PROVE SubInv(s)'
  <2>1. asked' = asked /\ feed' = feed /\ sub[t].on
    BY <1>7 DEF Emit
  <2>2. SameButStream(s) /\ (sub'[s].on => sub[s].on)
    BY <1>7, EmitFields
  <2>3. s # t /\ NoFrames(s) => NoFrames(s)'
    <3>1. \E f : f.sub = t /\ wire' = Append(wire, f)
      BY <1>7 DEF Emit, Frame
    <3>2. s # t => SameFrames(s, 0)
      BY <3>1, OthersKept
    <3> QED BY <3>2, FramesKept
  <2>4. s = t => s \in asked
    BY <2>1 DEF SubInv
  <2> QED BY <2>1, <2>2, <2>3, <2>4 DEF SubInv, SameButStream
<1>8. CASE Sync
  <2>1. asked' = Desired /\ feed' = feed
    BY <1>8 DEF Sync
  <2>2. SameButStream(s) /\ (s \notin Desired => ~sub'[s].on)
    BY <1>8, SyncFields
  <2>3. s \notin Desired /\ NoFrames(s) => NoFrames(s)'
    <3> DEFINE new == Desired \ asked
               a   == [i \in 1 .. Cardinality(new) |-> Answer(SetToSeq(new)[i])]
    <3>1. new \in SUBSET Subs
      BY DEF Desired
    <3>2. /\ a \in Seq(OnWire) /\ DOMAIN a = 1 .. Cardinality(new)
          /\ \A i \in DOMAIN a : SetToSeq(new)[i] \in new /\ a[i].sub = SetToSeq(new)[i]
      BY <3>1, SyncAnswers
    <3>3. wire' = wire \o a
      BY <1>8 DEF Sync
    <3>5. s \notin Desired => \A i \in DOMAIN a : a[i].sub # s
      <4> HIDE DEF a
      <4> QED BY <3>2
    <3> HIDE DEF a, new
    <3>4. s \notin Desired => SameFrames(s, 0)
      BY <3>2, <3>3, <3>5, OthersKept
    <3> QED BY <3>4, FramesKept
  <2>4. s \in Desired <=> sub[s].in
    BY DEF Desired
  <2> QED BY <2>1, <2>2, <2>3, <2>4 DEF SubInv, SameButStream
<1>9. CASE Take
  <2>1. asked' = asked /\ feed' = feed
    BY <1>9 DEF Take
  <2>2. PICK f \in OnWire : /\ wire # <<>> /\ wire' = Tail(wire) /\ f = Head(wire)
                            /\ f = wire[1] /\ 1 \in DOMAIN wire
                            /\ sub'[s] = IF f.sub = s /\ sub[s].in THEN Handed(s, f) ELSE sub[s]
    BY <1>9, TakeFields
  <2>3. NoFrames(s) => NoFrames(s)'
    <3>1. NoFrames(s) => SameFrames(s, 1)
      BY <2>2, OthersKept DEF NoFrames
    <3> QED BY <3>1, FramesKept
  <2>4. CASE sub'[s] = sub[s]
    BY <2>1, <2>3, <2>4 DEF SubInv
  <2>5. CASE sub[s].in /\ sub'[s] = Handed(s, f)
    <3>1. /\ sub'[s].on = sub[s].on
          /\ sub[s].call \in {"waiting", "ok"}
          /\ sub'[s].call \in {"waiting", "ok", "expired"}
          /\ sub'[s].in => sub'[s].call \in {"waiting", "ok"}
      BY <1>1, <2>5, HandedFields DEF SubInv
    <3>2. s # feed.sub \/ feed.at = "probe" => sub'[s].chan = <<>>
      <4>1. f.pos \in Nat
        BY DEF OnWire
      <4>2. InChan("event", f.pos) \in InQueue /\ InChan("expired", 0) \in InQueue
        BY <4>1, SentTypes
      <4>3. sub'[s].chan \in {sub[s].chan, Sent(s, InChan("event", f.pos)),
                              Sent(s, InChan("expired", 0))}
        BY <1>1, <2>5, HandedFields
      <4>4. s # feed.sub \/ feed.at = "probe" =>
              /\ Sent(s, InChan("event", f.pos)) = sub[s].chan
              /\ Sent(s, InChan("expired", 0)) = sub[s].chan
        BY <4>2, SentFields
      <4> QED BY <4>3, <4>4 DEF SubInv
    <3> QED BY <2>1, <2>3, <2>5, <3>1, <3>2 DEF SubInv
  <2> QED BY <2>2, <2>4, <2>5
<1>10. CASE StartProbe \/ ReadViews
  <2>1. wire' = wire /\ asked' = asked /\ feed.at \in {"rest", "probe"}
    BY <1>10, RenewFields
  <2>2. CASE s # feed'.sub
    <3>1. sub'[s] = IF s = feed.sub THEN GiveBack(sub[s]) ELSE sub[s]
      BY <1>10, <2>2, RenewFields
    <3> QED BY <1>2, <2>1, <2>2, <3>1, <1>1, GiveBackFields
  <2>3. CASE s = feed'.sub
    <3>1. /\ s = Fresh /\ Fits(s) /\ sub'[s].call = "invoked" /\ ~sub'[s].in /\ ~sub'[s].on
          /\ sub'[s].chan = <<>>
      BY <1>10, <2>3, RenewFields, DesktopAssumption
    <3>2. s \notin asked' /\ NoFrames(s)'
      BY <2>1, <3>1 DEF Fits, NoFrames
    <3> QED BY <3>1, <3>2 DEF SubInv
  <2> QED BY <2>2, <2>3
<1>11. CASE Failed \/ (Receive /\ sub[feed.sub].chan[1].kind # "event")
  <2>1. /\ wire' = wire /\ asked' = asked /\ feed'.sub = NoSub /\ s # NoSub
        /\ s # feed.sub => sub'[s] = sub[s]
    BY <1>11, EndFields, DesktopAssumption
  <2>2. CASE s # feed.sub
    BY <1>2, <2>1, <2>2
  <2>3. CASE s = feed.sub /\ sub'[s] = GiveBack(sub[s])
    BY <1>1, <1>2, <2>1, <2>3, GiveBackFields
  <2>4. CASE s = feed.sub /\ sub'[s] = [sub[s] EXCEPT !.chan = <<>>]
    <3>1. /\ sub'[s].call = sub[s].call /\ sub'[s].in = sub[s].in /\ sub'[s].on = sub[s].on
          /\ sub'[s].chan = <<>>
      BY <1>1, <2>4 DEF Sub
    <3> QED BY <2>1, <3>1 DEF SubInv, NoFrames
  <2> QED BY <1>11, <2>2, <2>3, <2>4, EndFields
<1>12. CASE Receive /\ sub[feed.sub].chan[1].kind = "event"
  <2>1. /\ wire' = wire /\ asked' = asked /\ feed'.sub = feed.sub /\ feed'.at = feed.at
        /\ s # feed.sub => sub'[s] = sub[s]
    BY <1>12, EventFields
  <2>2. s = feed.sub => /\ sub'[s].call = sub[s].call /\ sub'[s].in = sub[s].in
                        /\ sub'[s].on = sub[s].on /\ feed.at \in {"sub", "live"}
    BY <1>12, EventFields DEF Receive
  <2> QED BY <1>2, <2>1, <2>2 DEF SubInv, NoFrames
<1>13. CASE GoLive \/ Flush
  <2>1. sub' = sub /\ wire' = wire /\ asked' = asked /\ feed'.sub = feed.sub
        /\ feed.at \in {"sub", "live"} /\ feed'.at = "live"
    BY <1>13, ShowFields
  <2> QED BY <1>2, <2>1
<1>14. ASSUME NEW t \in Subs, Settle(t) PROVE SubInv(s)'
  <2>1. asked' = asked /\ wire' = wire /\ feed' = feed
    BY <1>14 DEF Settle
  <2> QED BY <1>2, <1>14, <2>1, SettleFields
<1> QED BY <1>3, <1>4, <1>5, <1>6, <1>7, <1>8, <1>9, <1>10, <1>11, <1>12, <1>13, <1>14
        DEF Quiet, Next, Engine, Link, Worker, Calls, Feed, Period

\* The stream of the feed is kept true by what the others do.
LEMMA FeedStep ==
  ASSUME TypeOK, TypeOK', Within, StageInv, \A s \in Subs : SubInv(s), FeedInv, [Next]_vars
  PROVE  FeedInv'
<1> DEFINE Told(s) == \E i \in DOMAIN sub[s].chan : sub[s].chan[i].kind # "event"
           FeedOf(s) ==
             /\ sub[s].call \in {"invoked", "begun"} =>
                  sub[s].since = feed.from /\ feed.batch = <<>> /\ sub[s].chan = <<>>
             /\ sub[s].in => Gapless(s) /\ Answered(s)
             /\ sub[s].call = "ok" /\ ~sub[s].in => Told(s)
<1>1. FeedInv <=> feed.at \in {"sub", "live"} => FeedOf(feed.sub)
  BY DEF FeedInv
<1>2. ASSUME \A s \in Subs : feed'.at \in {"sub", "live"} /\ feed'.sub = s => FeedOf(s)'
      PROVE  FeedInv'
  <2>1. feed'.at \in {"sub", "live"} => feed'.sub \in Subs
    BY StageStep DEF TypeOK, FeedState, StageInv
  <2> QED BY <1>2, <2>1 DEF FeedInv
<1> SUFFICES ASSUME NEW s \in Subs, feed'.at \in {"sub", "live"}, feed'.sub = s
             PROVE  FeedOf(s)'
  BY <1>2
<1>3. /\ sub[s] \in Sub /\ SubInv(s) /\ Len(log) <= Len(log)' /\ Len(log) \in Nat
      /\ sub[s].chan \in Seq(InQueue) /\ feed.from \in Nat
  BY LogGrows, Types
<1>4. feed.at \in {"sub", "live"} /\ feed.sub = s => FeedOf(s)
  BY <1>1
\* The stream as it was.
<1>5. ASSUME feed' = feed, SameButStream(s), Unmoved(s),
             (\E d \in 0 .. 1 : SameFrames(s, d)) \/ (wire' = <<>> /\ ~sub'[s].on)
      PROVE  FeedOf(s)'
  <2>1. FeedOf(s)
    BY <1>4, <1>5
  <2>2. (Gapless(s) => Gapless(s)') /\ (Answered(s) => Answered(s)')
    BY <1>3, <1>5, StreamKept
  <2> QED BY <1>5, <2>1, <2>2 DEF SameButStream
<1>6. ASSUME feed' = feed, sub'[s] = sub[s], wire' = wire
      PROVE  FeedOf(s)'
  <2>1. SameButStream(s) /\ Unmoved(s)
    BY <1>6 DEF SameButStream, Unmoved
  <2>2. SameFrames(s, 0) /\ 0 \in 0 .. 1
    BY <1>6, OthersKept
  <2> QED BY <1>5, <1>6, <2>1, <2>2
<1>7. CASE Quiet
  BY <1>6, <1>7, QuietFields
<1>8. CASE Crash \/ Disconnect
  <2>1. wire' = <<>> /\ feed' = feed
    BY <1>8 DEF Crash, Disconnect
  <2>2. SameButStream(s) /\ ~sub'[s].on
    BY <1>8, LostFields
  <2>3. Unmoved(s)
    BY <2>1, <2>2 DEF Unmoved, SameButStream
  <2> QED BY <1>5, <2>1, <2>2, <2>3
<1>9. CASE LinkDown
  <2>1. wire' = wire /\ feed' = feed
    BY <1>9 DEF LinkDown
  <2>2. CASE ~sub[s].in
    BY <1>6, <1>9, <2>1, <2>2, LinkDownFields
  <2>3. CASE sub[s].in /\ sub[s].call = "waiting"
    BY <1>9, <2>3, LinkDownFields DEF Dropped
  <2>4. CASE sub[s].in /\ sub[s].call # "waiting"
    <3>1. sub[s].call = "ok"
      BY <1>3, <2>4 DEF SubInv
    <3>2. /\ sub'[s].call = "ok" /\ ~sub'[s].in
          /\ sub'[s].chan = Sent(s, InChan("unavailable", 0))
      BY <1>9, <2>4, <3>1, LinkDownFields DEF Dropped
    <3>3. InChan("unavailable", 0) \in InQueue /\ InChan("unavailable", 0).kind # "event"
      BY SentTypes DEF InChan
    <3>4. s = feed.sub /\ feed.at # "probe"
      BY <2>1
    <3>5. Told(s)'
      BY <3>2, <3>3, <3>4, SentFields
    <3> QED BY <3>2, <3>5
  <2> QED BY <2>2, <2>3, <2>4
<1>10. ASSUME NEW t \in Subs, SubCheck(t) \/ SubInsert(t) \/ SubTimeout(t) PROVE FeedOf(s)'
  <2>1. wire' = wire /\ feed' = feed /\ log' = log
    BY <1>10 DEF SubCheck, SubInsert, SubTimeout
  <2>2. CASE s # t
    BY <1>6, <1>10, <2>1, <2>2, CallFields
  <2>3. CASE s = t /\ ~(sub[s].call = "begun")
    BY <1>3, <1>4, <1>10, <2>1, <2>3, CallFields DEF Dropped, SubInv
  <2>4. CASE s = t /\ sub[s].call = "begun"
    <3>1. /\ sub'[s].call = "waiting" /\ sub'[s].in /\ sub'[s].since = sub[s].since
          /\ sub'[s].chan = sub[s].chan /\ sub'[s].on = sub[s].on
      BY <1>10, <2>4, CallFields
    <3>2. sub[s].since = feed.from /\ feed.batch = <<>> /\ sub[s].chan = <<>>
      BY <1>4, <2>1, <2>4
    <3>3. NoFrames(s) /\ ~sub[s].on
      BY <1>3, <2>4 DEF SubInv
    <3>4. Coming(s)' = {} /\ Answered(s)'
      BY <2>1, <3>3 DEF NoFrames, Coming, Answered
    <3>5. PICK from \in Nat : from = feed.from /\ from <= Len(log)
      BY <1>3 DEF Within
    <3>6. from + 1 .. from = {} /\ from \in from .. Len(log)'
      BY <1>3, <2>1, <3>5
    <3>7. Follows(s, from, from)'
      BY <3>4, <3>6 DEF Follows
    <3>8. from = from + Len(<<>>) + Len(<<>>)
      BY <3>5
    <3>9. Gapless(s)'
      BY <2>1, <3>1, <3>2, <3>3, <3>5, <3>6, <3>7, <3>8 DEF Gapless
    <3> QED BY <3>1, <3>4, <3>9
  <2> QED BY <2>2, <2>3, <2>4
<1>11. ASSUME NEW t \in Subs, Emit(t) PROVE FeedOf(s)'
  <2>1. feed' = feed
    BY <1>11 DEF Emit
  <2>2. SameButStream(s)
    BY <1>11, EmitFields
  <2>3. CASE s # t
    <3>1. \E f : f.sub = t /\ wire' = Append(wire, f)
      BY <1>11 DEF Emit, Frame
    <3>2. SameFrames(s, 0) /\ 0 \in 0 .. 1
      BY <2>3, <3>1, OthersKept
    <3>3. Unmoved(s)
      BY <1>11, <2>1, <2>3, EmitFields DEF Unmoved
    <3> QED BY <1>5, <2>1, <2>2, <3>2, <3>3
  <2>4. CASE s = t
    <3>1. sub[s].in => Gapless(s)' /\ Answered(s)'
      BY <1>4, <1>11, <2>1, <2>4, EmitStream
    <3> QED BY <1>4, <2>1, <2>2, <3>1 DEF SameButStream
  <2> QED BY <2>3, <2>4
<1>12. CASE Sync
  <2>1. feed' = feed /\ SameButStream(s)
    BY <1>12, SyncFields DEF Sync
  <2>2. sub[s].in <=> s \in Desired
    BY DEF Desired
  <2>3. CASE s \in Desired \ asked
    <3>1. Gapless(s)
      BY <1>4, <2>1, <2>2, <2>3
    <3>2. Gapless(s)' /\ Answered(s)'
      BY <1>3, <1>12, <2>3, <3>1, SyncStream
    <3> QED BY <1>4, <2>1, <3>2 DEF SameButStream
  <2>4. CASE s \notin Desired
    BY <1>4, <2>1, <2>2, <2>4 DEF SameButStream
  <2>5. CASE s \in Desired \cap asked
    <3> DEFINE new == Desired \ asked
               a   == [i \in 1 .. Cardinality(new) |-> Answer(SetToSeq(new)[i])]
    <3>1. new \in SUBSET Subs
      BY DEF Desired
    <3>2. /\ a \in Seq(OnWire) /\ DOMAIN a = 1 .. Cardinality(new)
          /\ \A i \in DOMAIN a : SetToSeq(new)[i] \in new /\ a[i].sub = SetToSeq(new)[i]
      BY <3>1, SyncAnswers
    <3>3. wire' = wire \o a
      BY <1>12 DEF Sync
    <3>4. \A i \in DOMAIN a : a[i].sub # s
      <4> HIDE DEF a
      <4> QED BY <2>5, <3>2
    <3> HIDE DEF a, new
    <3>5. SameFrames(s, 0)
      BY <3>2, <3>3, <3>4, OthersKept
    <3>6. Unmoved(s)
      BY <1>12, <2>1, <2>5, SyncFields DEF Unmoved
    <3>7. 0 \in 0 .. 1
      OBVIOUS
    <3> QED BY <1>5, <2>1, <3>5, <3>6, <3>7
  <2> QED BY <2>3, <2>4, <2>5
<1>13. CASE Take
  <2>1. feed' = feed
    BY <1>13 DEF Take
  <2>2. PICK f \in OnWire : /\ wire # <<>> /\ wire' = Tail(wire) /\ f = Head(wire)
                            /\ sub'[s] = IF f.sub = s /\ sub[s].in THEN Handed(s, f) ELSE sub[s]
    BY <1>13, TakeFields
  <2>3. CASE ~(f.sub = s /\ sub[s].in)
    <3>1. sub'[s] = sub[s]
      BY <2>2, <2>3
    <3>2. CASE f.sub # s
      <4>1. SameFrames(s, 1) /\ 1 \in 0 .. 1
        BY <2>2, <3>2, OthersKept
      <4>2. SameButStream(s) /\ Unmoved(s)
        BY <2>1, <3>1 DEF SameButStream, Unmoved
      <4> QED BY <1>5, <2>1, <4>1, <4>2
    <3>3. CASE ~sub[s].in
      BY <1>4, <2>1, <3>1, <3>3
    <3> QED BY <2>3, <3>2, <3>3
  <2>4. CASE f.sub = s /\ sub[s].in /\ f.kind \in {"ok", "event"}
    <3>1. Gapless(s)' /\ Answered(s)'
      BY <1>4, <1>13, <2>1, <2>2, <2>4, TakeStream
    <3>2. sub[s].call \in {"waiting", "ok"}
      BY <1>3, <2>4 DEF SubInv
    <3>3. sub'[s] = Handed(s, f)
      BY <2>2, <2>4
    <3>4. sub'[s].in /\ sub'[s].call \in {"waiting", "ok"}
      BY <1>3, <2>4, <3>2, <3>3, HandedFields
    <3> QED BY <3>1, <3>4
  <2>5. CASE f.sub = s /\ sub[s].in /\ f.kind \notin {"ok", "event"}
    <3>1. sub'[s] = Handed(s, f) /\ sub[s].call \in {"waiting", "ok"}
      BY <1>3, <2>2, <2>5 DEF SubInv
    <3>2. CASE sub[s].call = "waiting"
      <4>1. sub'[s].call = "expired" /\ ~sub'[s].in
        BY <1>3, <2>5, <3>1, <3>2, HandedFields
      <4> QED BY <4>1
    <3>3. CASE sub[s].call = "ok"
      <4>1. sub'[s].call = "ok" /\ ~sub'[s].in /\ sub'[s].chan = Sent(s, InChan("expired", 0))
        BY <1>3, <2>5, <3>1, <3>3, HandedFields
      <4>2. InChan("expired", 0) \in InQueue /\ InChan("expired", 0).kind # "event"
        BY SentTypes DEF InChan
      <4>3. s = feed.sub /\ feed.at # "probe"
        BY <2>1
      <4>4. Told(s)'
        BY <4>1, <4>2, <4>3, SentFields
      <4> QED BY <4>1, <4>4
    <3> QED BY <3>1, <3>2, <3>3
  <2> QED BY <2>3, <2>4, <2>5
<1>14. CASE StartProbe \/ ReadViews
  <2>1. s = Fresh /\ feed'.from = Len(log) /\ feed'.at = "sub" /\ feed'.batch = <<>>
    BY <1>14, RenewFields
  <2>2. /\ sub'[s].call = "invoked" /\ ~sub'[s].in /\ sub'[s].chan = <<>>
        /\ sub'[s].since = Len(log)
    BY <1>14, <2>1, RenewFields
  <2> QED BY <2>1, <2>2
<1>15. CASE Failed \/ (Receive /\ sub[feed.sub].chan[1].kind # "event")
  BY <1>15, EndFields
<1>16. CASE Receive /\ sub[feed.sub].chan[1].kind = "event"
  <2>1. /\ s = feed.sub /\ sub[s].chan # <<>> /\ feed'.at = feed.at /\ feed'.from = feed.from
        /\ feed'.batch = Append(feed.batch, sub[s].chan[1].pos)
        /\ wire' = wire /\ log' = log
        /\ sub'[s] = [sub[s] EXCEPT !.chan = Tail(@)]
        /\ sub'[s].call = sub[s].call /\ sub'[s].in = sub[s].in /\ sub'[s].chan = Tail(sub[s].chan)
        /\ sub[s].chan[1].kind = "event"
    BY <1>16, EventFields
  <2>2. FeedOf(s)
    BY <1>4, <2>1
  <2>3. sub[s].in => Gapless(s)' /\ Answered(s)'
    BY <2>1, <2>2, ReceiveStream
  <2>4. Told(s) => Told(s)'
    <3> SUFFICES ASSUME NEW i \in DOMAIN sub[s].chan, sub[s].chan[i].kind # "event"
                 PROVE  Told(s)'
      OBVIOUS
    <3>1. i # 1
      BY <2>1
    <3>2. i - 1 \in DOMAIN Tail(sub[s].chan) /\ Tail(sub[s].chan)[i - 1] = sub[s].chan[i]
      <4> DEFINE c == sub[s].chan
                 n == Len(c)
      <4>1. /\ n \in Nat /\ DOMAIN c = 1 .. n /\ DOMAIN Tail(c) = 1 .. n - 1
            /\ \A j \in 1 .. n - 1 : Tail(c)[j] = c[j + 1]
        BY <1>3, <2>1
      <4> HIDE DEF c, n
      <4>2. i \in 1 .. n
        BY <4>1 DEF c
      <4>3. i - 1 \in 1 .. n - 1 /\ (i - 1) + 1 = i
        BY <3>1, <4>1, <4>2
      <4>4. Tail(c)[i - 1] = c[i]
        BY <4>1, <4>3
      <4> QED BY <4>1, <4>3, <4>4 DEF c
    <3> QED BY <2>1, <3>2
  <2> QED BY <2>1, <2>2, <2>3, <2>4
<1>17. CASE GoLive \/ Flush
  <2>1. /\ s = feed.sub /\ feed.at \in {"sub", "live"} /\ sub[s].call = "ok"
        /\ feed'.batch = <<>> /\ feed'.from = Upto(feed.batch)
        /\ sub' = sub /\ wire' = wire /\ log' = log
    BY <1>17, ShowFields
  <2>2. FeedOf(s)
    BY <1>4, <2>1
  <2>3. sub[s].in => Gapless(s)' /\ Answered(s)'
    BY <2>1, <2>2, ShowStream
  <2> QED BY <2>1, <2>2, <2>3
<1>18. ASSUME NEW t \in Subs, Settle(t) PROVE FeedOf(s)'
  <2>1. wire' = wire /\ feed' = feed
    BY <1>18 DEF Settle
  <2> QED BY <1>6, <1>18, <2>1, SettleFields
<1> QED BY <1>7, <1>8, <1>9, <1>10, <1>11, <1>12, <1>13, <1>14, <1>15, <1>16, <1>17, <1>18
        DEF Quiet, Next, Engine, Link, Worker, Calls, Feed, Period

\* What is queued still follows what is shown.
LEMMA QueueStep ==
  ASSUME TypeOK, TypeOK', Within, StageInv, StageInv', FeedInv, FeedInv', QueueInv, [Next]_vars
  PROVE  QueueInv'
<1> SUFFICES ASSUME NEW s \in Subs, feed'.at \in {"sub", "live"}, feed'.sub = s
             PROVE  Queued(s)' /\ (shown'.src = "core" => shown'.pos <= feed'.from)
  BY DEF QueueInv, TypeOK, FeedState, StageInv
<1>1. sub'[s].in => Queued(s)'
  <2>1. sub'[s].in => Gapless(s)'
    BY DEF FeedInv
  <2> QED BY <2>1, GaplessQueued
<1>2. feed.at \in {"sub", "live"} /\ feed.sub = s =>
        Queued(s) /\ (shown.src = "core" => shown.pos <= feed.from)
  BY DEF QueueInv
\* It stays as it is, or an error goes to the end of it.
<1>3. ASSUME feed' = feed, shown' = shown \/ shown'.src = "native",
             \/ sub'[s].chan = sub[s].chan
             \/ sub'[s].in
             \/ \E f \in InQueue : f.kind # "event" /\ sub'[s].chan = Sent(s, f)
      PROVE  Queued(s)' /\ (shown'.src = "core" => shown'.pos <= feed'.from)
  <2>1. Queued(s) /\ (shown.src = "core" => shown.pos <= feed.from)
    BY <1>2, <1>3
  <2>2. CASE sub'[s].chan = sub[s].chan
    BY <1>3, <2>1, <2>2 DEF Queued
  <2>3. ASSUME NEW f \in InQueue, f.kind # "event", sub'[s].chan = Sent(s, f) PROVE Queued(s)'
    BY <1>3, <2>1, <2>3, SentFields DEF Queued
  <2> QED BY <1>1, <1>3, <2>1, <2>2, <2>3
<1>4. CASE Quiet
  <2>1. feed' = feed /\ sub' = sub
    BY <1>4, QuietFields
  <2>2. shown' = shown \/ shown'.src = "native"
    BY <1>4 DEF Quiet, Change, Commit, Prune, Boot, LinkUp, Stale, Scan, ReadNative, Release, Hear,
                Native, vars
  <2> QED BY <1>3, <2>1, <2>2
<1>5. CASE Crash \/ Disconnect
  <2>1. feed' = feed /\ shown' = shown
    BY <1>5 DEF Crash, Disconnect
  <2> QED BY <1>3, <1>5, <2>1, LostFields DEF SameButStream
<1>6. CASE LinkDown
  <2>1. feed' = feed /\ shown' = shown
    BY <1>6 DEF LinkDown
  <2>2. InChan("unavailable", 0) \in InQueue /\ InChan("unavailable", 0).kind # "event"
    BY SentTypes DEF InChan
  <2> QED BY <1>3, <1>6, <2>1, <2>2, LinkDownFields
<1>7. CASE \E t \in Subs : SubCheck(t) \/ SubInsert(t) \/ SubTimeout(t)
  <2>1. feed' = feed /\ shown' = shown
    BY <1>7 DEF SubCheck, SubInsert, SubTimeout
  <2> QED BY <1>3, <1>7, <2>1, CallFields
<1>8. CASE \E t \in Subs : Emit(t)
  <2>1. feed' = feed /\ shown' = shown
    BY <1>8 DEF Emit
  <2> QED BY <1>3, <1>8, <2>1, EmitFields DEF SameButStream
<1>9. CASE Sync
  <2>1. feed' = feed /\ shown' = shown
    BY <1>9 DEF Sync
  <2> QED BY <1>3, <1>9, <2>1, SyncFields DEF SameButStream
<1>10. CASE Take
  <2>1. feed' = feed /\ shown' = shown
    BY <1>10 DEF Take
  <2>2. PICK f \in OnWire : sub'[s] = IF f.sub = s /\ sub[s].in THEN Handed(s, f) ELSE sub[s]
    BY <1>10, TakeFields
  <2>3. sub[s] \in Sub
    BY Types
  <2>4. CASE sub'[s] = sub[s]
    BY <1>3, <2>1, <2>4
  <2>5. CASE sub[s].in /\ sub'[s] = Handed(s, f)
    <3>1. \/ sub'[s].in \/ sub'[s].chan = sub[s].chan
          \/ sub'[s].chan = Sent(s, InChan("expired", 0))
      BY <2>3, <2>5, HandedFields
    <3>2. InChan("expired", 0) \in InQueue /\ InChan("expired", 0).kind # "event"
      BY SentTypes DEF InChan
    <3> QED BY <1>3, <2>1, <3>1, <3>2
  <2> QED BY <2>2, <2>4, <2>5
<1>11. CASE StartProbe \/ ReadViews
  <2>1. /\ s = Fresh /\ feed'.from = Len(log) /\ feed'.at = "sub" /\ feed'.batch = <<>>
        /\ shown' = shown
    BY <1>11, RenewFields
  <2>2. sub'[s].chan = <<>>
    BY <1>11, <2>1, RenewFields
  <2>3. Queued(s)'
    BY <2>1, <2>2 DEF Queued
  <2> QED BY <2>1, <2>3 DEF Within
<1>12. CASE Failed \/ (Receive /\ sub[feed.sub].chan[1].kind # "event")
  BY <1>12, EndFields
<1>13. CASE Receive /\ sub[feed.sub].chan[1].kind = "event"
  <2>1. /\ s = feed.sub /\ sub[s].chan # <<>> /\ feed'.at = feed.at /\ feed'.from = feed.from
        /\ feed'.batch = Append(feed.batch, sub[s].chan[1].pos)
        /\ sub'[s].chan = Tail(sub[s].chan) /\ shown' = shown
        /\ sub[s].chan[1].kind = "event"
    BY <1>13, EventFields
  <2>2. Queued(s)'
    BY <1>2, <2>1, ReceiveQueue
  <2> QED BY <1>2, <2>1, <2>2
<1>14. CASE GoLive \/ Flush
  <2>1. /\ s = feed.sub /\ feed.at \in {"sub", "live"}
        /\ feed'.batch = <<>> /\ feed'.from = Upto(feed.batch)
        /\ sub' = sub /\ shown' = Core(feed'.from, feed'.rows)
    BY <1>14, ShowFields
  <2>2. Queued(s)'
    BY <1>2, <2>1, ShowQueue
  <2>3. feed'.from \in Nat
    BY DEF TypeOK, FeedState
  <2> QED BY <2>1, <2>2, <2>3 DEF Core
<1>15. ASSUME NEW t \in Subs, Settle(t)
       PROVE  Queued(s)' /\ (shown'.src = "core" => shown'.pos <= feed'.from)
  <2>1. feed' = feed /\ shown' = shown
    BY <1>15 DEF Settle
  <2> QED BY <1>3, <1>15, <2>1, SettleFields
<1> QED BY <1>4, <1>5, <1>6, <1>7, <1>8, <1>9, <1>10, <1>11, <1>12, <1>13, <1>14, <1>15
        DEF Quiet, Next, Engine, Link, Worker, Calls, Feed, Period

-----------------------------------------------------------------------------
(* What the feed comes to show.                                            *)

\* A tick adds what it found, or nothing.
LEMMA CommitLog ==
  ASSUME TypeOK, Commit
  PROVE  /\ engine'.seen = {world} /\ world \in Sessions
         /\ \/ log' = log /\ (world \in engine.seen \/ (engine.seen = {} /\ world = 0))
            \/ /\ log' # <<>> /\ Last(log)' = world /\ Len(log)' = Len(log) + 1
               /\ \A p \in 1 .. Len(log) : log'[p] = log[p]
<1>1. engine'.seen = {world} /\ world \in Sessions /\ log \in Seq(Sessions)
  BY DEF Commit, TypeOK, EngineState
<1>2. CASE world \in Before
  <2>1. log' = log
    BY <1>2 DEF Commit, Diff, TypeOK
  <2> QED BY <1>1, <1>2, <2>1 DEF Before
<1>3. CASE world \notin Before
  <2>1. log' = log \o <<world>>
    BY <1>3 DEF Commit, Diff
  <2> QED BY <1>1, <2>1 DEF Last
<1> QED BY <1>1, <1>2, <1>3

LEMMA LogStep ==
  ASSUME TypeOK, LogInv, [Next]_vars
  PROVE  LogInv'
<1>1. CASE Commit
  BY <1>1, CommitLog DEF LogInv, Last
<1>2. CASE Crash
  BY <1>2 DEF Crash, LogInv, TypeOK, EngineState
<1>3. CASE ~(Commit \/ Crash)
  <2>1. log' = log /\ engine'.seen = engine.seen
    BY <1>3 DEF Next, Engine, Link, Worker, Calls, Feed, Period, Change, Prune, Boot,
                Emit, LinkUp, LinkDown, Stale, Sync, Disconnect, Take, SubCheck, SubInsert,
                SubTimeout, StartProbe, ReadViews, Failed, GoLive, Receive, Flush, Settle,
                ReadNative, Release, Hear, Scan, vars, TypeOK, EngineState
  <2> QED BY <2>1 DEF LogInv, Last
<1> QED BY <1>1, <1>2, <1>3

\* What is shown of the queue comes to what the feed came to.
LEMMA TruthShown ==
  ASSUME Inv, GoLive \/ Flush, engine' = engine, count' = count
  PROVE  TruthInv'
<1>1. TypeOK /\ Within /\ StageInv /\ QueueInv /\ TruthInv
  BY DEF Inv
<1>2. /\ feed.at \in {"sub", "live"} /\ feed.sub \in Subs /\ feed'.batch = <<>> /\ sub' = sub
      /\ feed'.from = Upto(feed.batch) /\ feed'.run = feed.run /\ log' = log
      /\ feed'.rows = Flushed.rows
  BY <1>1, ShowFields
<1>3. /\ feed.from \in Nat /\ Len(log) \in Nat /\ feed.batch \in Seq(Nat)
      /\ feed'.from <= Len(log)
  BY <1>1, <1>2, Types, FlushedTypes
<1>4. CASE feed.batch = <<>>
  <2>1. feed'.from = feed.from /\ feed'.rows = feed.rows
    BY <1>2, <1>4 DEF Flushed, Upto, Core
  <2> QED BY <1>1, <1>2, <2>1 DEF TruthInv, Leads, Last
<1>5. CASE feed.batch # <<>>
  <2>1. Queued(feed.sub)
    BY <1>1, <1>2 DEF QueueInv
  <2>2. feed'.from = feed.from + Len(feed.batch) /\ Len(feed.batch) > 0
    BY <1>1, <1>2, <1>3, <1>5, <2>1, ShowQueue
  <2>3. feed'.rows = log[feed'.from]
    BY <1>2, <1>5 DEF Flushed, Upto, Core
  <2>4. feed.from # Len(log) /\ feed'.from > 0
    BY <1>3, <2>2
  <2>5. Leads' = Leads
    BY <1>2, <2>3, <2>4 DEF Leads, Last
  <2> QED BY <1>1, <1>2, <2>3, <2>4, <2>5 DEF TruthInv
<1> QED BY <1>4, <1>5

\* A snapshot is what this run committed last.
LEMMA TruthRead ==
  ASSUME TypeOK, StageInv, LogInv, ReadViews, feed'.at = "sub"
  PROVE  TruthInv'
<1>1. PICK v \in engine.seen :
        feed' = [feed EXCEPT !.at = "sub", !.sub = Fresh, !.from = Len(log),
                             !.rows = v, !.run = count.crashes]
  BY DEF ReadViews, RetryLater, Idle
<1>2. feed'.from = Len(log) /\ feed'.rows = v /\ feed'.run = count.crashes
  BY <1>1 DEF TypeOK, FeedState
<1>3. log' = log /\ engine' = engine /\ count' = count
  BY DEF ReadViews
<1>4. v \in Sessions /\ Len(log) \in Nat /\ count.crashes \in Nat
  BY DEF TypeOK, EngineState, CountState
<1>5. Leads' = v
  BY <1>2, <1>3 DEF Leads
<1>6. v = 0 \/ (feed'.from > 0 /\ feed'.rows = log[feed'.from])
  BY <1>2, <1>4 DEF LogInv, Last, TypeOK
<1>7. \A w \in engine.seen : w = v
  BY DEF LogInv
<1> QED BY <1>2, <1>3, <1>4, <1>5, <1>6, <1>7 DEF TruthInv

LEMMA TruthStep ==
  ASSUME Inv, TypeOK', [Next]_vars
  PROVE  TruthInv'
<1>0. TypeOK /\ StageInv /\ LogInv /\ TruthInv /\ Within
  BY DEF Inv
<1>1. /\ Len(log) \in Nat /\ feed.from \in Nat /\ feed.from <= Len(log)
      /\ count.crashes \in Nat /\ feed.run \in Nat
  BY <1>0 DEF TypeOK, Within, FeedState, CountState
<1>2. CASE Commit
  <2>1. feed' = feed /\ count' = count /\ engine'.seen = {world}
    BY <1>0, <1>2, CommitLog DEF Commit
  <2>2. CASE log' = log /\ (world \in engine.seen \/ (engine.seen = {} /\ world = 0))
    BY <1>0, <2>1, <2>2 DEF TruthInv, Leads, Last
  <2>3. CASE /\ log' # <<>> /\ Last(log)' = world /\ Len(log)' = Len(log) + 1
             /\ \A p \in 1 .. Len(log) : log'[p] = log[p]
    <3>1. Leads' = world
      BY <1>1, <2>1, <2>3 DEF Leads
    <3>2. feed.from > 0 => log'[feed.from] = log[feed.from]
      BY <1>1, <2>3
    <3> QED BY <1>0, <2>1, <3>1, <3>2 DEF TruthInv
  <2> QED BY <1>0, <1>2, <2>2, <2>3, CommitLog
<1>3. CASE Crash
  <2>1. /\ log' = log /\ engine'.seen = {} /\ feed' = feed /\ count'.crashes = count.crashes + 1
    BY <1>0, <1>3 DEF Crash, TypeOK, EngineState, CountState
  <2> QED BY <1>0, <1>1, <2>1 DEF TruthInv, Leads, Last
<1>4. CASE GoLive \/ Flush
  <2>1. engine' = engine /\ count' = count
    BY <1>4 DEF GoLive, Flush
  <2> QED BY <1>4, <2>1, TruthShown
<1>5. CASE ReadViews \/ StartProbe
  <2>1. CASE feed'.at = "sub"
    <3>1. ReadViews
      BY <1>0, <1>5, <2>1 DEF StartProbe, TypeOK, FeedState
    <3> QED BY <1>0, <2>1, <3>1, TruthRead
  <2>2. CASE feed'.at \in {"rest", "probe"}
    BY <2>2 DEF TruthInv
  <2> QED BY <1>0, <1>5, <2>1, <2>2, RenewFields
<1>6. CASE Failed \/ (Receive /\ sub[feed.sub].chan[1].kind # "event")
  <2>1. feed'.at = "rest"
    BY <1>0, <1>6, EndFields
  <2> QED BY <2>1 DEF TruthInv
<1>7. CASE ~(Commit \/ Crash \/ GoLive \/ Flush \/ ReadViews \/ StartProbe \/ Failed)
           /\ ~(Receive /\ sub[feed.sub].chan[1].kind # "event")
  <2>1. log' = log /\ engine'.seen = engine.seen /\ count'.crashes = count.crashes
    BY <1>0, <1>7 DEF Next, Engine, Link, Worker, Calls, Feed, Period, Change, Prune, Boot,
                Emit, LinkUp, LinkDown, Stale, Sync, Disconnect, Take, SubCheck, SubInsert,
                SubTimeout, Receive, Settle,
                ReadNative, Release, Hear, Scan, vars, TypeOK, EngineState, CountState
  <2>2. CASE Receive /\ sub[feed.sub].chan[1].kind = "event"
    <3>1. /\ feed'.from = feed.from /\ feed'.at = feed.at /\ feed'.rows = feed.rows
          /\ feed'.run = feed.run
      BY <1>0, <2>2 DEF Receive, TypeOK, FeedState
    <3> QED BY <1>0, <2>1, <3>1 DEF TruthInv, Leads, Last
  <2>3. CASE ~Receive
    <3>1. feed' = feed
      BY <1>7, <2>3 DEF Next, Engine, Link, Worker, Calls, Feed, Period, Change, Prune, Boot,
                Emit, LinkUp, LinkDown, Stale, Sync, Disconnect, Take, SubCheck, SubInsert,
                SubTimeout, Settle, ReadNative, Release, Hear, Scan, vars
    <3> QED BY <1>0, <2>1, <3>1 DEF TruthInv, Leads, Last
  <2> QED BY <1>7, <2>2, <2>3
<1> QED BY <1>2, <1>3, <1>4, <1>5, <1>6, <1>7

\* What a running feed shows comes to what the engine committed last.
LEMMA TruthComes ==
  ASSUME Inv
  PROVE  ComesTrue
<1> SUFFICES ASSUME feed.at = "live", ~Unreported, NEW v \in engine.seen
             PROVE  Leads = v
  BY DEF ComesTrue
<1>1. TypeOK /\ LogInv /\ TruthInv /\ Within
  BY DEF Inv
<1>2. /\ log \in Seq(Sessions) /\ Len(log) \in Nat /\ feed.from \in Nat /\ feed.from <= Len(log)
      /\ count.crashes \in Nat /\ feed.run \in Nat
  BY <1>1 DEF TypeOK, Within, FeedState, CountState
<1>3. CASE v # 0 \/ feed.run = count.crashes
  BY <1>1, <1>3 DEF TruthInv
<1>4. CASE v = 0 /\ feed.run # count.crashes
  <2>1. engine.seen = {0} /\ feed.run < count.crashes
    BY <1>1, <1>2, <1>4 DEF LogInv, TruthInv
  <2>2. log = <<>> \/ Last(log) = 0
    BY <2>1 DEF Unreported
  <2>3. CASE feed.from = Len(log)
    <3>1. feed.rows = 0 \/ (feed.from > 0 /\ feed.rows = log[feed.from])
      BY <1>1 DEF TruthInv
    <3> QED BY <1>2, <1>4, <2>2, <2>3, <3>1 DEF Leads, Last
  <2>4. CASE feed.from # Len(log)
    <3>1. log # <<>>
      BY <1>2, <2>4
    <3> QED BY <1>4, <2>2, <2>4, <3>1 DEF Leads
  <2> QED BY <2>3, <2>4
<1> QED BY <1>3, <1>4

-----------------------------------------------------------------------------
(* The theorems.                                                           *)

LEMMA InvInit ==
  ASSUME Init
  PROVE  Inv
<1>1. TypeOK
  <2>1. sub \in [Subs -> Sub] /\ asked \in SUBSET Subs
    BY StreamFields DEF Init
  <2>2. world \in Sessions /\ log \in Seq(Sessions) /\ wire \in Seq(OnWire)
    BY DesktopAssumption DEF Init, Sessions
  <2>3. engine \in EngineState
    BY DEF Init, EngineState
  <2>4. health \in HealthState /\ poll \in PollState
    BY DEF Init, HealthState, PollState
  <2>5. shown \in ShownState /\ count \in CountState
    BY SessionTypes DEF Init, ShownState, CountState
  <2>6. <<>> \in Seq(Nat) /\ <<>> \in Seq(Sessions)
    OBVIOUS
  <2>7. feed \in FeedState /\ period \in PeriodState
    BY <2>6, SessionTypes DEF Init, FeedState, PeriodState, Idle, Closed
  <2> QED BY <2>1, <2>2, <2>3, <2>4, <2>5, <2>7 DEF TypeOK
<1>2. /\ \A s \in Subs : sub[s] = NoStream
      /\ wire = <<>> /\ log = <<>> /\ Len(log) = 0
      /\ feed.at = "rest" /\ feed.sub = NoSub /\ feed.batch = <<>> /\ feed.from = 0
      /\ shown.src # "core"
  BY DEF Init, Idle
<1>3. Within
  BY <1>2, StreamFields DEF Within, SubWithin
<1>4. StageInv
  BY <1>2 DEF StageInv
<1>5. \A s \in Subs : SubInv(s)
  BY <1>2, StreamFields DEF SubInv, NoFrames
<1>6. FeedInv /\ QueueInv
  BY <1>2 DEF FeedInv, QueueInv
<1>7. engine.seen = {}
  BY DEF Init
<1>8. LogInv /\ TruthInv
  BY <1>2, <1>7 DEF LogInv, TruthInv
<1> QED BY <1>1, <1>3, <1>4, <1>5, <1>6, <1>8 DEF Inv

LEMMA InvStep ==
  ASSUME Inv, [Next]_vars
  PROVE  Inv'
<1>1. TypeOK /\ Within /\ StageInv /\ (\A s \in Subs : SubInv(s)) /\ FeedInv /\ QueueInv
  BY DEF Inv
<1>2. TypeOK'
  BY <1>1, TypeStep
<1>3. Within' /\ StageInv'
  BY <1>1, <1>2, WithinStep, StageStep
<1>4. \A s \in Subs : SubInv(s)'
  BY <1>1, <1>2, SubStep
<1>5. FeedInv'
  BY <1>1, <1>2, FeedStep
<1>6. QueueInv'
  BY <1>1, <1>2, <1>3, <1>5, QueueStep
<1>7. LogInv' /\ TruthInv'
  <2>1. LogInv
    BY DEF Inv
  <2> QED BY <1>1, <1>2, <2>1, LogStep, TruthStep
<1> QED BY <1>2, <1>3, <1>4, <1>5, <1>6, <1>7 DEF Inv

LEMMA InvTrue ==
  ASSUME Inv
  PROVE  FeedIsTrue
<1>1. TypeOK /\ Within /\ StageInv /\ FeedInv
  BY DEF Inv
<1>2. StreamShows /\ CoreWasCommitted
  BY <1>1 DEF StageInv, StreamShows, Within, CoreWasCommitted
<1>3. NoGap
  BY <1>1 DEF FeedInv, NoGap
<1>4. NotOrphaned
  BY <1>1 DEF FeedInv, StageInv, NotOrphaned
<1>5. ComesTrue
  BY TruthComes
<1> QED BY <1>1, <1>2, <1>3, <1>4, <1>5 DEF FeedIsTrue

\* A running feed is a true one (session-feed.ts, bridge.rs): the window shows
\* what its stream brought and nothing of a scan; what is queued in the webview,
\* in the channel and on the wire follows the engine's rows one by one, with no
\* gap and nothing twice, from the snapshot on and over reconnects of the
\* worker, crashes of the engine and prunes of its log; a stream that the bridge
\* dropped has told the feed, or is about to; and what is shown, with the events
\* still to come, is what the engine committed last, but for a session that ended
\* between two runs of the engine, which SessionViews::diff does not report.
THEOREM FeedIsAlwaysTrue == Spec => []FeedIsTrue
<1>1. Init => Inv
  BY InvInit
<1>2. Inv /\ [Next]_vars => Inv'
  BY InvStep
<1>3. Inv => FeedIsTrue
  BY InvTrue
<1> QED BY <1>1, <1>2, <1>3, PTL DEF Spec

\* A step shows nothing of the engine that is older than what is shown.
LEMMA NeverBackStep ==
  ASSUME Inv, [Next]_vars, shown.src = "core", shown'.src = "core"
  PROVE  shown.pos <= shown'.pos
<1>1. TypeOK /\ StageInv /\ QueueInv
  BY DEF Inv
<1>2. shown.pos \in Nat
  BY <1>1 DEF TypeOK, ShownState
<1>3. CASE GoLive \/ Flush
  <2>1. /\ feed.at \in {"sub", "live"}
        /\ feed'.batch = <<>> /\ feed'.from = Upto(feed.batch)
        /\ sub' = sub /\ shown' = Core(feed'.from, feed'.rows)
    BY <1>1, <1>3, ShowFields
  <2>2. PICK s \in Subs : s = feed.sub
    BY <1>1, <1>3, ShowFields
  <2>3. Queued(s) /\ shown.pos <= feed.from
    BY <1>1, <2>1, <2>2 DEF QueueInv
  <2>4. feed.from <= feed'.from /\ feed'.from = feed.from + Len(feed.batch)
    BY <1>1, <2>1, <2>3, ShowQueue
  <2>5. feed.from \in Nat /\ Len(feed.batch) \in Nat
    BY <1>1, Types
  <2> QED BY <1>2, <2>1, <2>3, <2>4, <2>5 DEF Core
<1>4. CASE ~(GoLive \/ Flush)
  <2>1. CASE Quiet
    BY <1>2, <2>1 DEF Quiet, Change, Commit, Prune, Boot, LinkUp, Stale, Scan, ReadNative, Release,
                      Hear, Native, vars
  <2>2. CASE ~Quiet
    <3>1. shown' = shown
      BY <1>4, <2>2 DEF Quiet, Next, Engine, Link, Worker, Calls, Feed, Period, Crash, Emit, LinkDown,
                        Sync, Disconnect, Take, SubCheck, SubInsert, SubTimeout, StartProbe,
                        ReadViews, Failed, Receive, Settle
    <3> QED BY <1>2, <3>1
  <2> QED BY <2>1, <2>2
<1> QED BY <1>3, <1>4

\* What the window shows of the engine never goes back (session-feed.ts,
\* bridge.rs): neither the snapshot of a retry, nor the events queued in the
\* webview, in the channel or on the wire, of a stream that the bridge still
\* has or has dropped, are older than what is shown.
THEOREM WindowNeverGoesBack == Spec => NeverBack
<1>1. Init => Inv
  BY InvInit
<1>2. Inv /\ [Next]_vars => Inv'
  BY InvStep
<1>3. Inv /\ [Next]_vars => [shown.src = "core" /\ shown'.src = "core" => shown.pos <= shown'.pos]_vars
  BY NeverBackStep
<1> QED BY <1>1, <1>2, <1>3, PTL DEF Spec, NeverBack
=============================================================================
