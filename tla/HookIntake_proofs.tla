-------------------------- MODULE HookIntake_proofs ---------------------------
(***************************************************************************)
(* Proofs about the hook intake and the state merge, for every number of   *)
(* generations, hooks and failed writes, and every settle time.            *)
(***************************************************************************)
EXTENDS HookIntake, TLAPS

-----------------------------------------------------------------------------
(* The inductive invariant, in parts.                                      *)

Activity == Activities \cup {"unknown"}
Request == [hook : Hook, live : 0 .. MaxGen]
HookChange == [kind : {"hook"}, gen : Gens, now : 0 .. MaxClock, method : Methods,
               activity : {None}, req : Request]
OwnChange == [kind : {"screen"}, gen : Gens, now : 0 .. MaxClock, method : {None},
              activity : Activities, req : {NoWant}]
             \cup [kind : {"expire"}, gen : Gens, now : 0 .. MaxClock, method : {None},
                   activity : {None}, req : {NoWant}]
OwnWant == [kind : {"screen"}, activity : Activities, now : 0 .. MaxClock]
           \cup [kind : {"expire"}, activity : {None}, now : 0 .. MaxClock]

\* What TypeOK leaves open: the requests, the write the supervisor waits
\* for, the transaction, and the counters.
MoreTypes ==
  /\ reqs \subseteq Request
  /\ want \in OwnWant \cup {NoWant}
  /\ job # NoJob =>
       job \in [kind : {"tx"}, change : HookChange \cup OwnChange, copy : Merge]
  /\ used \in [hooks : 0 .. MaxHooks, fails : Nat, dups : Nat, unseen : Nat]
  /\ history \in [begun : [Gens -> Nat], ended : [Gens -> Nat], applied : [Seqs -> Nat]]

\* The live generation follows the supervisor, and while an agent comes up
\* nothing is known of its generation yet: no hook, no entry.
LifeInv ==
  /\ sup \in {"run", "ended"} => live = row.gen
  /\ sup \in {"down", "leaving"} => live = 0
  /\ sup = "run" => row.state \in Activities
  /\ want # NoWant => sup = "run"
  /\ \A h \in net : h.gen <= row.gen
  /\ \A r \in reqs : r.hook.gen <= row.gen
  /\ sup = "coming" =>
       /\ table.gen # row.gen
       /\ \A h \in net : h.gen # row.gen
       /\ \A r \in reqs : r.hook.gen # row.gen

\* A transaction is of the row's generation.  While that runs, its copy is
\* of the live entry; a hook's request waits for it and is not yet counted.
JobInv ==
  job # NoJob =>
    /\ job.change.gen = row.gen
    /\ sup \in {"coming", "run"} => job.copy = Copy(row.gen)
    /\ job.change.kind = "hook" =>
         /\ job.change.req \in reqs
         /\ job.change.req.hook.gen = row.gen
         /\ job.change.req.hook.seq \notin dedupe
    /\ job.change.kind # "hook" => want # NoWant
    /\ job.change.kind = "expire" => Entry(row.gen)

\* A generation that has not begun has no turns.
FutureInv ==
  \A g \in Gens : g > row.gen => history.begun[g] = 0 /\ history.ended[g] = 0

Inv ==
  /\ TypeOK /\ MoreTypes /\ LifeInv /\ JobInv /\ FutureInv
  /\ TurnsBalance /\ WrittenIsTrue /\ AppliedOnce

-----------------------------------------------------------------------------
(* The merge.                                                              *)

LEMMA Numbers ==
  /\ {MaxGen, MaxHooks, MaxFails, MaxDups, MaxUnseen, Settle, MaxClock} \subseteq Nat
  /\ MaxGen > 0
  /\ 0 \in 0 .. MaxClock /\ 0 \in 0 .. MaxClock + 1 /\ 1 \in Gens
BY Bounds, FirstGeneration DEF Gens

LEMMA CleanMerge ==
  NewMerge \in Merge /\ ~NewMerge.open /\ NewMerge.written = None
<1>1. NewMerge.claims \in [Sources -> [activity : Activity, at : 0 .. MaxClock]]
  BY Numbers DEF NewMerge, NoClaim, Activity
<1> QED
  BY <1>1, Numbers DEF NewMerge, Merge, Activity, None

LEMMA ClaimedIsMerge ==
  ASSUME NEW m \in Merge, NEW src \in Sources, NEW a \in Activities,
         NEW now \in 0 .. MaxClock
  PROVE  Claimed(m, src, a, now) \in Merge /\ Claimed(m, src, a, now).written = m.written
<1> DEFINE d == [m.claims EXCEPT ![src] = [activity |-> a, at |-> now]]
           o == (m.open \/ Opens(m, a, now)) /\ ~Closes(m, a)
           e == IF Closes(m, a) THEN now + 1 ELSE m.ended
<1>1. Claimed(m, src, a, now) =
        [claims |-> d, open |-> o, ended |-> e, written |-> m.written, call |-> m.call]
  <2>1. m = [claims |-> m.claims, open |-> m.open, ended |-> m.ended,
             written |-> m.written, call |-> m.call]
    BY DEF Merge
  <2>2. Claimed(m, src, a, now) = [m EXCEPT !.claims = d, !.open = o, !.ended = e]
    BY DEF Claimed
  <2> HIDE DEF d, o, e
  <2> QED
    BY <2>1, <2>2
<1>2. d \in [Sources -> [activity : Activity, at : 0 .. MaxClock]]
  BY DEF Merge, Activity
<1>3. o \in BOOLEAN
  OBVIOUS
<1>4. e \in 0 .. MaxClock + 1
  BY Numbers DEF Merge
<1>5. m.written \in Activities \cup {None} /\ m.call \in BOOLEAN
  BY DEF Merge
<1> HIDE DEF d, o, e
<1> QED
  BY <1>1, <1>2, <1>3, <1>4, <1>5 DEF Merge, Activity

LEMMA RowStates ==
  ASSUME NEW m \in Merge, NEW now
  PROVE  RowState(m, now) \in Activities \cup {None}
<1>1. m.claims["hook"].activity \in Activity /\ m.claims["screen"].activity \in Activity
  BY DEF Merge, Sources, Activity
<1>2. Merged(m, now) \in Activity
  BY <1>1 DEF Merged
<1> QED
  BY <1>2 DEF RowState, Activity

LEMMA ChangedIsMerge ==
  ASSUME NEW m \in Merge, NEW c \in HookChange \cup OwnChange
  PROVE  Changed(m, c) \in Merge /\ Changed(m, c).written = m.written
<1>1. CASE c.kind = "hook"
  <2> DEFINE a == HookActivity(m, c.method)
             n == [m EXCEPT !.call = CallAfter(m, c.method)]
  <2>1. c.method \in Methods /\ c.now \in 0 .. MaxClock
    BY <1>1 DEF HookChange, OwnChange
  <2>2. CallAfter(m, c.method) \in BOOLEAN
    BY <2>1 DEF CallAfter, Methods, Merge
  <2>3. n \in Merge /\ n.written = m.written
    BY <2>2 DEF Merge
  <2>4. a \in Activities \cup {None}
    BY <2>1 DEF HookActivity, Methods, Activities
  <2>5. Changed(m, c) = IF a = None THEN n ELSE Claimed(n, "hook", a, c.now)
    BY <1>1 DEF Changed
  <2> HIDE DEF a, n
  <2> QED
    BY <2>1, <2>3, <2>4, <2>5, ClaimedIsMerge DEF Sources
<1>2. CASE c.kind = "screen"
  <2>1. Changed(m, c) = Claimed(m, "screen", c.activity, c.now)
    BY <1>2 DEF Changed
  <2>2. c.activity \in Activities /\ c.now \in 0 .. MaxClock
    BY <1>2 DEF HookChange, OwnChange
  <2> QED
    BY <2>1, <2>2, ClaimedIsMerge DEF Sources
<1>3. CASE c.kind = "expire"
  BY <1>3 DEF Changed
<1> QED
  BY <1>1, <1>2, <1>3 DEF HookChange, OwnChange

\* What a change writes is what it notes.
LEMMA ChangeIsMerge ==
  ASSUME NEW m \in Merge, NEW c \in HookChange \cup OwnChange
  PROVE  /\ Change(m, c) \in Merge
         /\ RowState(Changed(m, c), c.now) \in Activities \cup {None}
         /\ Change(m, c).written = IF RowState(Changed(m, c), c.now) = None THEN m.written
                                   ELSE RowState(Changed(m, c), c.now)
<1> DEFINE n == Changed(m, c)
           to == RowState(n, c.now)
<1>1. n \in Merge /\ n.written = m.written
  BY ChangedIsMerge
<1>2. to \in Activities \cup {None}
  BY <1>1, RowStates
<1>3. Change(m, c) = IF to = None THEN n ELSE [n EXCEPT !.written = to]
  BY DEF Change, Noted
<1> HIDE DEF n, to
<1>4. Change(m, c) \in Merge
            /\ Change(m, c).written = IF to = None THEN m.written ELSE to
  BY <1>1, <1>2, <1>3 DEF Merge
<1> QED
  BY <1>2, <1>4 DEF n, to

LEMMA CopyIsMerge ==
  ASSUME TypeOK, NEW g
  PROVE  Copy(g) \in Merge
BY CleanMerge DEF TypeOK, Copy

-----------------------------------------------------------------------------
(* The steps.                                                              *)

LEMMA InitInv == Init => Inv
<1> SUFFICES ASSUME Init PROVE Inv
  OBVIOUS
<1>1. TypeOK
  <2>1. table \in [gen : 0 .. MaxGen, merge : Merge]
    BY Numbers, CleanMerge DEF Init
  <2> QED
    BY <2>1, Numbers DEF Init, TypeOK, Gens
<1>2. MoreTypes
  <2>1. history \in [begun : [Gens -> Nat], ended : [Gens -> Nat], applied : [Seqs -> Nat]]
    BY DEF Init
  <2> QED
    BY <2>1, Numbers DEF Init, MoreTypes
<1>3. LifeInv /\ JobInv /\ FutureInv
  BY DEF Init, LifeInv, JobInv, FutureInv, Gens
<1>4. TurnsBalance
  BY Numbers DEF Init, TurnsBalance, Entry
<1>5. WrittenIsTrue /\ AppliedOnce
  BY DEF Init, WrittenIsTrue, AppliedOnce
<1> QED
  BY <1>1, <1>2, <1>3, <1>4, <1>5 DEF Inv

\* Row, table, transaction and history stay: so do the parts about them.
LEMMA TableStays ==
  ASSUME Inv, UNCHANGED <<row, sup, table, history, dedupe>>
  PROVE  TurnsBalance' /\ WrittenIsTrue' /\ AppliedOnce' /\ FutureInv'
BY DEF Inv, TurnsBalance, WrittenIsTrue, AppliedOnce, FutureInv, Entry

LEMMA JobStays ==
  ASSUME Inv, UNCHANGED <<row, sup, table, job, dedupe>>, reqs \subseteq reqs',
         want # NoWant => want' # NoWant
  PROVE  JobInv'
BY DEF Inv, JobInv, Entry, Copy

LEMMA SendsStep ==
  ASSUME Inv, NEW method \in Methods, NEW next \in {"asking", "working", "blocked", "idle"},
         sup = "run", Sends(method, next)
  PROVE  Inv'
<1>1. TurnsBalance' /\ WrittenIsTrue' /\ AppliedOnce' /\ FutureInv'
  BY TableStays DEF Sends
<1>2. JobInv'
  BY JobStays DEF Sends
<1>3. used \in [hooks : 0 .. MaxHooks, fails : Nat, dups : Nat, unseen : Nat]
  BY DEF Inv, MoreTypes
<1>4. used' \in [hooks : 0 .. MaxHooks, fails : Nat, dups : Nat, unseen : Nat]
  BY <1>3, Numbers DEF Sends, Spend
<1>5. live = row.gen /\ live \in Gens
  BY DEF Inv, LifeInv, TypeOK
<1>6. used.hooks < MaxHooks =>
        [seq |-> used.hooks + 1, gen |-> live, method |-> method] \in Hook
  BY <1>3, <1>5, Numbers DEF Hook, Seqs
<1>7. net' \subseteq Hook /\ owed' \in 0 .. MaxHooks
  BY <1>3, <1>6, Numbers DEF Sends, Inv, TypeOK
<1>8. TypeOK'
  BY <1>7 DEF Sends, Inv, TypeOK
<1>9. MoreTypes'
  BY <1>4 DEF Sends, Inv, MoreTypes
<1>10. LifeInv'
  BY <1>5 DEF Sends, Inv, LifeInv, TypeOK, Gens
<1> QED
  BY <1>1, <1>2, <1>8, <1>9, <1>10 DEF Inv

LEMMA AgentStepInv == ASSUME Inv, AgentStep PROVE Inv'
<1>1. CASE Prompt
  BY <1>1, SendsStep DEF Prompt, Acts, Methods
<1>2. CASE Asks
  BY <1>2, SendsStep DEF Asks, Acts, Methods
<1>3. CASE Approved
  BY <1>3, SendsStep DEF Approved, Acts, Methods
<1>4. CASE Stops
  BY <1>4, SendsStep DEF Stops, Acts, Methods
<1>5. CASE Works \/ Unseen \/ Interrupted
  <2>1. /\ agent' \in {"working", "idle"}
        /\ UNCHANGED <<row, live, sup, table, owed, net, reqs, want, job, dedupe, screen,
                       reclaimed, clock, history>>
    BY <1>5 DEF Works, Unseen, Interrupted
  <2>2. used' = used \/ used' = [used EXCEPT !.unseen = @ + 1]
    BY <1>5 DEF Works, Unseen, Interrupted, Spend
  <2>3. TurnsBalance' /\ WrittenIsTrue' /\ AppliedOnce' /\ FutureInv'
    BY <2>1, TableStays
  <2>4. JobInv'
    BY <2>1, JobStays
  <2>5. TypeOK'
    BY <2>1 DEF Inv, TypeOK
  <2>6. used' \in [hooks : 0 .. MaxHooks, fails : Nat, dups : Nat, unseen : Nat]
    BY <2>2 DEF Inv, MoreTypes
  <2>7. MoreTypes'
    BY <2>1, <2>6 DEF Inv, MoreTypes
  <2>8. LifeInv'
    BY <2>1 DEF Inv, LifeInv
  <2> QED
    BY <2>3, <2>4, <2>5, <2>7, <2>8 DEF Inv
<1> QED
  BY <1>1, <1>2, <1>3, <1>4, <1>5 DEF AgentStep

LEMMA HookStepInv == ASSUME Inv, HookStep PROVE Inv'
<1>1. ASSUME NEW h \in net, Lose(h) PROVE Inv'
  <2>1. TurnsBalance' /\ WrittenIsTrue' /\ AppliedOnce' /\ FutureInv'
    BY <1>1, TableStays DEF Lose
  <2>2. JobInv'
    BY <1>1, JobStays DEF Lose
  <2>3. owed' \in 0 .. MaxHooks
    BY <1>1, Numbers DEF Lose, Inv, TypeOK
  <2>4. TypeOK'
    BY <1>1, <2>3 DEF Lose, Inv, TypeOK
  <2>5. MoreTypes' /\ LifeInv'
    BY <1>1 DEF Lose, Inv, MoreTypes, LifeInv
  <2> QED
    BY <2>1, <2>2, <2>4, <2>5 DEF Inv
<1>2. ASSUME NEW h \in net, NEW again \in BOOLEAN, Receive(h, again) PROVE Inv'
  <2>1. TurnsBalance' /\ WrittenIsTrue' /\ AppliedOnce' /\ FutureInv'
    BY <1>2, TableStays DEF Receive
  <2>2. JobInv'
    BY <1>2, JobStays DEF Receive
  <2>3. h \in Hook /\ live \in 0 .. MaxGen
    BY <1>2 DEF Inv, TypeOK
  <2>4. [hook |-> h, live |-> live] \in Request
    BY <2>3 DEF Request
  <2>5. /\ used' \in [hooks : 0 .. MaxHooks, fails : Nat, dups : Nat, unseen : Nat]
        /\ net' \subseteq net
    BY <1>2 DEF Receive, Spend, Inv, MoreTypes
  <2>6. reqs' = reqs \cup {[hook |-> h, live |-> live]}
    BY <1>2 DEF Receive
  <2>7. TypeOK'
    BY <1>2, <2>3, <2>5, <2>6 DEF Receive, Inv, TypeOK
  <2>8. MoreTypes'
    BY <1>2, <2>4, <2>5, <2>6 DEF Receive, Inv, MoreTypes
  <2>9. LifeInv'
    BY <1>2, <2>5, <2>6 DEF Receive, Inv, LifeInv
  <2> QED
    BY <2>1, <2>2, <2>7, <2>8, <2>9 DEF Inv
<1>3. ASSUME NEW r \in reqs, Drop(r) PROVE Inv'
  <2>1. TurnsBalance' /\ WrittenIsTrue' /\ AppliedOnce' /\ FutureInv'
    BY <1>3, TableStays DEF Drop
  <2>2. JobInv'
    BY <1>3 DEF Drop, JobInv
  <2>3. owed' \in 0 .. MaxHooks
    BY <1>3, Numbers DEF Drop, Answered, Inv, TypeOK
  <2>4. TypeOK'
    BY <1>3, <2>3 DEF Drop, Answered, Inv, TypeOK
  <2>5. MoreTypes' /\ LifeInv'
    BY <1>3 DEF Drop, Answered, Inv, MoreTypes, LifeInv
  <2> QED
    BY <2>1, <2>2, <2>4, <2>5 DEF Inv
<1>4. ASSUME NEW r \in reqs, BeginHook(r) PROVE Inv'
  <2> DEFINE c == [kind |-> "hook", gen |-> r.hook.gen, now |-> clock,
                   method |-> r.hook.method, activity |-> None, req |-> r]
  <2>1. TurnsBalance' /\ WrittenIsTrue' /\ AppliedOnce' /\ FutureInv'
    BY <1>4, TableStays DEF BeginHook, BeginTx
  <2>2. r \in Request /\ r.hook \in Hook
    BY <1>4 DEF Inv, MoreTypes, Request
  <2>3. r.hook.gen \in Gens /\ r.hook.method \in Methods /\ clock \in 0 .. MaxClock
    BY <2>2 DEF Hook, Inv, TypeOK
  <2>4. c \in HookChange
    BY <2>2, <2>3 DEF HookChange
  <2>5. Copy(r.hook.gen) \in Merge
    BY CopyIsMerge DEF Inv
  <2>6. job' = [kind |-> "tx", change |-> c, copy |-> Copy(r.hook.gen)]
    BY <1>4 DEF BeginHook, BeginTx
  <2>7. job' \in [kind : {"tx"}, change : HookChange \cup OwnChange, copy : Merge]
    BY <2>4, <2>5, <2>6
  <2>8. /\ job'.change.kind = "hook" /\ job'.change.gen = r.hook.gen
        /\ job'.change.req = r /\ job'.copy = Copy(r.hook.gen)
    BY <2>6
  <2>9. r.hook.gen = row.gen /\ r.hook.seq \notin dedupe
    BY <1>4 DEF BeginHook, Taken, Current
  <2>10. JobInv'
    BY <1>4, <2>8, <2>9 DEF BeginHook, BeginTx, JobInv, Copy, Entry
  <2>11. TypeOK' /\ MoreTypes' /\ LifeInv'
    BY <1>4, <2>7 DEF BeginHook, BeginTx, Inv, TypeOK, MoreTypes, LifeInv
  <2> QED
    BY <2>1, <2>10, <2>11 DEF Inv
<1> QED
  BY <1>1, <1>2, <1>3, <1>4 DEF HookStep

LEMMA SupStepInv == ASSUME Inv, SupStep PROVE Inv'
<1>1. /\ want = NoWant /\ sup = "run"
      /\ UNCHANGED supVars
      /\ want' \in OwnWant
      /\ screen' \in [shows : Activities \cup {None}, at : 0 .. MaxClock, seen : BOOLEAN]
  <2>1. clock \in 0 .. MaxClock /\ agent \in {"off", "idle", "asking", "working", "blocked"}
        /\ screen \in [shows : Activities \cup {None}, at : 0 .. MaxClock, seen : BOOLEAN]
    BY DEF Inv, TypeOK
  <2>2. CASE Look
    <3>1. Shown(agent) \in Activities
      BY <2>1, <2>2 DEF Look, Shown, Activities
    <3>2. [kind |-> "screen", activity |-> Shown(agent), now |-> 0] \in OwnWant
      BY <3>1, Numbers DEF OwnWant
    <3> QED
      BY <2>1, <2>2, <3>1, <3>2 DEF Look, Runs
  <2>3. CASE Reclaim
    <3>1. [kind |-> "screen", activity |-> "ready", now |-> 0] \in OwnWant
      BY Numbers DEF OwnWant, Activities
    <3> QED
      BY <2>1, <2>3, <3>1 DEF Reclaim, Runs
  <2>4. CASE ExpireHold
    <3>1. [kind |-> "expire", activity |-> None, now |-> clock] \in OwnWant
      BY <2>1 DEF OwnWant
    <3> QED
      BY <2>1, <2>4, <3>1 DEF ExpireHold, Runs
  <2> QED
    BY <2>2, <2>3, <2>4 DEF SupStep
<1>2. TurnsBalance' /\ WrittenIsTrue' /\ AppliedOnce' /\ FutureInv'
  BY <1>1, TableStays DEF supVars
<1>3. JobInv'
  BY <1>1 DEF supVars, Inv, JobInv, Copy, Entry
<1>4. TypeOK'
  BY <1>1 DEF supVars, Inv, TypeOK
<1>5. MoreTypes' /\ LifeInv'
  BY <1>1 DEF supVars, Inv, MoreTypes, LifeInv
<1> QED
  BY <1>2, <1>3, <1>4, <1>5 DEF Inv

LEMMA BeginWantInv == ASSUME Inv, BeginWant PROVE Inv'
<1> DEFINE c == [kind |-> want.kind, gen |-> row.gen, activity |-> want.activity,
                 method |-> None, now |-> IF want.kind = "expire" THEN want.now ELSE clock,
                 req |-> NoWant]
<1>1. want \in OwnWant /\ want # NoWant /\ row.gen \in Gens /\ clock \in 0 .. MaxClock
  BY DEF BeginWant, Inv, MoreTypes, TypeOK
<1>2. c \in OwnChange
  BY <1>1 DEF OwnWant, OwnChange
<1>3. Copy(row.gen) \in Merge
  BY CopyIsMerge DEF Inv
<1>4. job' = [kind |-> "tx", change |-> c, copy |-> Copy(row.gen)]
  BY DEF BeginWant, BeginTx
<1>5. job' \in [kind : {"tx"}, change : HookChange \cup OwnChange, copy : Merge]
  BY <1>2, <1>3, <1>4
<1>6. /\ job'.change.kind = want.kind /\ job'.change.gen = row.gen
      /\ job'.copy = Copy(row.gen) /\ want.kind # "hook"
  BY <1>1, <1>4 DEF OwnWant
<1>7. JobInv'
  BY <1>1, <1>6 DEF BeginWant, BeginTx, JobInv, Copy, Entry
<1>8. TurnsBalance' /\ WrittenIsTrue' /\ AppliedOnce' /\ FutureInv'
  BY TableStays DEF BeginWant, BeginTx
<1>9. TypeOK' /\ MoreTypes' /\ LifeInv'
  BY <1>5 DEF BeginWant, BeginTx, Inv, TypeOK, MoreTypes, LifeInv
<1> QED
  BY <1>7, <1>8, <1>9 DEF Inv

\* A transaction that ends answers its hook or the supervisor.
LEMMA RepliesTo ==
  ASSUME Inv, job # NoJob, Replies(job.change)
  PROVE  /\ reqs' \subseteq reqs /\ want' \in {want, NoWant}
         /\ owed' \in 0 .. MaxHooks
<1>1. CASE job.change.kind = "hook"
  BY <1>1, Numbers DEF Replies, Answered, Inv, TypeOK
<1>2. CASE job.change.kind # "hook"
  BY <1>2 DEF Replies, Inv, TypeOK
<1> QED
  BY <1>1, <1>2

LEMMA RollbackInv == ASSUME Inv, Rollback PROVE Inv'
<1>1. reqs' \subseteq reqs /\ want' \in {want, NoWant} /\ owed' \in 0 .. MaxHooks
  BY RepliesTo DEF Rollback
<1>2. TurnsBalance' /\ WrittenIsTrue' /\ AppliedOnce' /\ FutureInv'
  BY TableStays DEF Rollback
<1>3. JobInv'
  BY DEF Rollback, JobInv
<1>4. used' \in [hooks : 0 .. MaxHooks, fails : Nat, dups : Nat, unseen : Nat]
  BY DEF Rollback, Spend, Inv, MoreTypes
<1>5. TypeOK'
  BY <1>1 DEF Rollback, Inv, TypeOK
<1>6. MoreTypes' /\ LifeInv'
  BY <1>1, <1>4 DEF Rollback, Inv, MoreTypes, LifeInv
<1> QED
  BY <1>2, <1>3, <1>5, <1>6 DEF Inv

LEMMA CountUp ==
  ASSUME NEW S, NEW f \in [S -> Nat], NEW x \in S, NEW b \in BOOLEAN
  PROVE  [f EXCEPT ![x] = IF b THEN @ + 1 ELSE @] \in [S -> Nat]
OBVIOUS

\* A commit writes the row, the merge and the turns of the live generation.
LEMMA CommitInv == ASSUME Inv, Commit PROVE Inv'
<1> DEFINE c == job.change
           m == job.copy
           to == RowState(Changed(m, c), c.now)
           n == Change(Copy(c.gen), c)
<1>1. job # NoJob /\ job \in [kind : {"tx"}, change : HookChange \cup OwnChange, copy : Merge]
  BY DEF Commit, Inv, MoreTypes
<1>2. c \in HookChange \cup OwnChange /\ m \in Merge
  BY <1>1
<1>3. c.gen = row.gen /\ row.gen \in Gens
  BY <1>1 DEF Inv, JobInv, TypeOK
<1>4. Copy(c.gen) \in Merge
  BY CopyIsMerge DEF Inv
<1>5. /\ n \in Merge
      /\ Change(m, c).open \in BOOLEAN /\ m.open \in BOOLEAN
      /\ to \in Activities \cup {None}
  BY <1>2, <1>4, ChangeIsMerge DEF Merge
<1>6. reqs' \subseteq reqs /\ want' \in {want, NoWant} /\ owed' \in 0 .. MaxHooks
  BY <1>1, RepliesTo DEF Commit
<1>7. /\ row' = IF Mergeable /\ to # None THEN [row EXCEPT !.state = to] ELSE row
      /\ UNCHANGED <<live, sup, agent, net, screen, reclaimed, clock, used>>
      /\ job' = NoJob /\ table' = PublishOn(c)
      /\ dedupe' = IF c.kind = "hook" THEN dedupe \cup {c.req.hook.seq} ELSE dedupe
  BY DEF Commit
<1>8. /\ row'.gen = row.gen /\ row'.state = IF Mergeable /\ to # None THEN to ELSE row.state
      /\ row' \in [gen : Gens, state : Activities \cup {"starting", "paused", "gone"}]
  BY <1>5, <1>7 DEF Inv, TypeOK
<1>9. c.kind = "hook" => /\ c.req \in reqs /\ c.req.hook.seq \in Seqs
                         /\ c.req.hook.seq \notin dedupe
  <2>1. c.kind = "hook" => c \in HookChange
    BY <1>2 DEF OwnChange
  <2> QED
    BY <1>1, <2>1 DEF Inv, JobInv, HookChange, Request, Hook
<1>10. table' = [gen |-> row.gen, merge |-> n]
  BY <1>1, <1>3, <1>7 DEF PublishOn, Inv, JobInv
<1>11. history \in [begun : [Gens -> Nat], ended : [Gens -> Nat], applied : [Seqs -> Nat]]
  BY DEF Inv, MoreTypes
<1>12. /\ history'.begun = [history.begun EXCEPT ![row.gen] = IF Begins(m, c) THEN @ + 1 ELSE @]
       /\ history'.ended = [history.ended EXCEPT ![row.gen] = IF Ends(m, c) THEN @ + 1 ELSE @]
       /\ history'.applied = IF c.kind = "hook"
                             THEN [history.applied EXCEPT ![c.req.hook.seq] = @ + 1]
                             ELSE history.applied
       /\ history' = [begun |-> history'.begun, ended |-> history'.ended,
                      applied |-> history'.applied]
  BY <1>3 DEF Commit
<1> HIDE DEF c, m, to
<1>13. MoreTypes'
  <2>1. /\ history'.begun \in [Gens -> Nat] /\ history'.ended \in [Gens -> Nat]
        /\ history'.applied \in [Seqs -> Nat]
    <3>1. /\ history.begun \in [Gens -> Nat] /\ history.ended \in [Gens -> Nat]
          /\ history.applied \in [Seqs -> Nat]
      BY <1>11
    <3>2. history'.begun \in [Gens -> Nat] /\ history'.ended \in [Gens -> Nat]
      <4>1. Begins(m, c) \in BOOLEAN /\ Ends(m, c) \in BOOLEAN
        BY DEF Begins, Ends
      <4> QED
        BY <1>3, <1>12, <3>1, <4>1, CountUp
    <3>3. history'.applied \in [Seqs -> Nat]
      <4>1. CASE c.kind = "hook"
        BY <1>9, <1>12, <3>1, <4>1
      <4>2. CASE c.kind # "hook"
        BY <1>12, <3>1, <4>2
      <4> QED
        BY <4>1, <4>2
    <3> QED
      BY <3>2, <3>3
  <2>2. history' \in [begun : [Gens -> Nat], ended : [Gens -> Nat], applied : [Seqs -> Nat]]
    BY <1>12, <2>1
  <2> QED
    BY <1>6, <1>7, <2>2 DEF Inv, MoreTypes
<1>14. TypeOK'
  <2>1. table' \in [gen : 0 .. MaxGen, merge : Merge]
    BY <1>3, <1>5, <1>10, Numbers DEF Gens
  <2>2. table'.gen <= row'.gen
    BY <1>3, <1>8, <1>10, Numbers DEF Gens
  <2>3. dedupe' \subseteq Seqs
    BY <1>7, <1>9 DEF Inv, TypeOK
  <2> QED
    BY <1>6, <1>7, <1>8, <2>1, <2>2, <2>3 DEF Inv, TypeOK
<1>15. sup # "coming"
  BY <1>1, <1>9 DEF Inv, JobInv, LifeInv, c
<1>16. LifeInv'
  BY <1>5, <1>6, <1>7, <1>8, <1>15 DEF Inv, LifeInv
<1>17. JobInv'
  BY <1>7 DEF JobInv
<1>18. FutureInv'
  <2>1. ASSUME NEW g \in Gens, g > row.gen
        PROVE  history'.begun[g] = history.begun[g] /\ history'.ended[g] = history.ended[g]
    BY <1>3, <1>11, <1>12, <2>1 DEF Gens
  <2> QED
    BY <1>8, <2>1 DEF Inv, FutureInv
<1>19. sup = "run" => m = Copy(c.gen)
  BY <1>1, <1>3 DEF Inv, JobInv, c, m
<1>20. TurnsBalance'
  <2> SUFFICES ASSUME sup = "run"
               PROVE  history'.begun[row.gen] - history'.ended[row.gen] =
                        IF n.open THEN 1 ELSE 0
    BY <1>7, <1>8, <1>10, <1>15 DEF TurnsBalance, Entry
  <2>1. n = Change(m, c)
    BY <1>19
  <2>2. m.open <=> Entry(row.gen) /\ table.merge.open
    BY <1>3, <1>19, CleanMerge DEF Copy
  <2>3. history.begun[row.gen] - history.ended[row.gen] = IF m.open THEN 1 ELSE 0
    BY <2>2 DEF Inv, TurnsBalance
  <2>4. /\ history'.begun[row.gen] = history.begun[row.gen] + IF Begins(m, c) THEN 1 ELSE 0
        /\ history'.ended[row.gen] = history.ended[row.gen] + IF Ends(m, c) THEN 1 ELSE 0
        /\ history.begun[row.gen] \in Nat /\ history.ended[row.gen] \in Nat
    BY <1>3, <1>11, <1>12
  <2>5. CASE Begins(m, c)
    BY <1>5, <2>1, <2>3, <2>4, <2>5 DEF Begins, Ends
  <2>6. CASE Ends(m, c)
    BY <1>5, <2>1, <2>3, <2>4, <2>6 DEF Begins, Ends
  <2>7. CASE ~Begins(m, c) /\ ~Ends(m, c)
    <3>1. n.open <=> m.open
      BY <1>5, <2>1, <2>7 DEF Begins, Ends
    <3> QED
      BY <2>3, <2>4, <2>7, <3>1
  <2> QED
    BY <2>5, <2>6, <2>7
<1>21. WrittenIsTrue'
  <2> SUFFICES ASSUME sup = "run", n.written # None
               PROVE  row'.state = n.written
    BY <1>7, <1>10 DEF WrittenIsTrue, Entry
  <2>1. n.written = IF to = None THEN m.written ELSE to
    BY <1>2, <1>19, ChangeIsMerge DEF to
  <2>2. Mergeable
    BY DEF Inv, LifeInv, Mergeable, Activities
  <2>3. CASE to = None
    <3>1. m.written # None /\ row'.state = row.state /\ n.written = m.written
      BY <1>8, <2>1, <2>3
    <3>2. Entry(row.gen) /\ m.written = table.merge.written
      BY <1>3, <1>19, <3>1, CleanMerge DEF Copy
    <3> QED
      BY <3>1, <3>2 DEF Inv, WrittenIsTrue
  <2>4. CASE to # None
    BY <1>8, <2>1, <2>2, <2>4
  <2> QED
    BY <2>3, <2>4
<1>22. AppliedOnce'
  BY <1>7, <1>9, <1>11, <1>12 DEF Inv, AppliedOnce
<1> QED
  BY <1>13, <1>14, <1>16, <1>17, <1>18, <1>20, <1>21, <1>22 DEF Inv

LEMMA LifeStepInv == ASSUME Inv, LifeStep PROVE Inv'
<1>1. CASE Spawn
  <2>1. TurnsBalance' /\ WrittenIsTrue' /\ AppliedOnce' /\ FutureInv'
    BY <1>1, TableStays DEF Spawn, rest
  <2>2. JobInv'
    BY <1>1, JobStays DEF Spawn, rest
  <2>3. TypeOK'
    BY <1>1 DEF Spawn, rest, Inv, TypeOK, Gens
  <2>4. MoreTypes' /\ LifeInv'
    BY <1>1 DEF Spawn, rest, Inv, MoreTypes, LifeInv
  <2> QED
    BY <2>1, <2>2, <2>3, <2>4 DEF Inv
<1>2. CASE Bound
  <2>1. /\ row'.gen = row.gen /\ row'.state = "ready"
        /\ row' \in [gen : Gens, state : Activities \cup {"starting", "paused", "gone"}]
    BY <1>2 DEF Bound, Inv, TypeOK, Activities
  <2>2. TypeOK'
    <3>1. screen' \in [shows : Activities \cup {None}, at : 0 .. MaxClock, seen : BOOLEAN]
      BY <1>2 DEF Bound, Inv, TypeOK, Activities
    <3> QED
      BY <1>2, <2>1, <3>1 DEF Bound, rest, Inv, TypeOK
  <2>3. MoreTypes' /\ LifeInv' /\ FutureInv'
    BY <1>2, <2>1 DEF Bound, rest, Inv, MoreTypes, LifeInv, FutureInv, Activities
  <2>4. JobInv'
    BY <1>2 DEF Bound, rest, JobInv
  <2>5. TurnsBalance' /\ WrittenIsTrue' /\ AppliedOnce'
    BY <1>2, <2>1 DEF Bound, rest, Inv, LifeInv, TurnsBalance, WrittenIsTrue, AppliedOnce, Entry
  <2> QED
    BY <2>2, <2>3, <2>4, <2>5 DEF Inv
<1>3. ASSUME NEW s \in {"paused", "gone"}, End(s) PROVE Inv'
  <2>1. /\ row'.gen = row.gen
        /\ row' \in [gen : Gens, state : Activities \cup {"starting", "paused", "gone"}]
    BY <1>3 DEF End, Inv, TypeOK
  <2>2. TypeOK'
    BY <1>3, <2>1, Numbers DEF End, rest, Inv, TypeOK
  <2>3. MoreTypes' /\ LifeInv' /\ FutureInv'
    BY <1>3, <2>1 DEF End, rest, Inv, MoreTypes, LifeInv, FutureInv
  <2>4. JobInv'
    BY <1>3 DEF End, rest, JobInv
  <2>5. TurnsBalance' /\ WrittenIsTrue' /\ AppliedOnce'
    BY <1>3 DEF End, rest, Inv, TurnsBalance, WrittenIsTrue, AppliedOnce
  <2> QED
    BY <2>2, <2>3, <2>4, <2>5 DEF Inv
<1>4. CASE Unregister
  <2>1. TypeOK'
    BY <1>4, Numbers DEF Unregister, rest, Inv, TypeOK
  <2>2. MoreTypes' /\ LifeInv' /\ FutureInv'
    BY <1>4 DEF Unregister, rest, Inv, MoreTypes, LifeInv, FutureInv
  <2>3. JobInv'
    BY <1>4 DEF Unregister, rest, Inv, JobInv, LifeInv, Entry
  <2>4. TurnsBalance' /\ WrittenIsTrue' /\ AppliedOnce'
    BY <1>4 DEF Unregister, rest, Inv, TurnsBalance, WrittenIsTrue, AppliedOnce
  <2> QED
    BY <2>1, <2>2, <2>3, <2>4 DEF Inv
<1>5. CASE Forget
  <2>1. table' \in [gen : 0 .. MaxGen, merge : Merge] /\ table'.gen <= row.gen
    BY <1>5, CleanMerge, Numbers DEF Forget, Inv, TypeOK, Gens
  <2>2. TypeOK'
    BY <1>5, <2>1 DEF Forget, rest, Inv, TypeOK
  <2>3. MoreTypes' /\ LifeInv' /\ FutureInv'
    BY <1>5 DEF Forget, rest, Inv, MoreTypes, LifeInv, FutureInv
  <2>4. JobInv'
    BY <1>5 DEF Forget, rest, Inv, JobInv, LifeInv
  <2>5. TurnsBalance' /\ WrittenIsTrue' /\ AppliedOnce'
    BY <1>5 DEF Forget, rest, Inv, TurnsBalance, WrittenIsTrue, AppliedOnce
  <2> QED
    BY <2>2, <2>3, <2>4, <2>5 DEF Inv
<1>6. CASE Resume
  <2>1. /\ row'.gen = row.gen + 1 /\ row.gen \in Gens /\ row'.gen \in Gens
        /\ row' \in [gen : Gens, state : Activities \cup {"starting", "paused", "gone"}]
    BY <1>6, Numbers DEF Resume, Inv, TypeOK, Gens
  <2>2. TypeOK'
    BY <1>6, <2>1 DEF Resume, rest, Inv, TypeOK, LifeInv, Gens
  <2>3. MoreTypes'
    BY <1>6 DEF Resume, rest, Inv, MoreTypes
  <2>4. LifeInv'
    <3>1. \A h \in net : h.gen <= row.gen /\ h.gen \in Gens
      BY DEF Inv, LifeInv, TypeOK, Hook
    <3>2. \A r \in reqs : r.hook.gen <= row.gen /\ r.hook.gen \in Gens
      BY DEF Inv, LifeInv, MoreTypes, Request, Hook
    <3>3. table.gen <= row.gen /\ table.gen \in 0 .. MaxGen
      BY DEF Inv, TypeOK
    <3> QED
      BY <1>6, <2>1, <3>1, <3>2, <3>3, Numbers DEF Resume, rest, Inv, LifeInv, Gens
  <2>5. FutureInv'
    BY <1>6, <2>1 DEF Resume, rest, Inv, FutureInv, Gens
  <2>6. JobInv'
    BY <1>6 DEF Resume, rest, JobInv
  <2>7. TurnsBalance'
    <3>1. history.begun[row'.gen] = 0 /\ history.ended[row'.gen] = 0
      BY <2>1 DEF Inv, FutureInv, Gens
    <3>2. table.gen # row'.gen
      BY <2>1 DEF Inv, TypeOK, Gens
    <3> QED
      BY <1>6, <3>1, <3>2 DEF Resume, rest, TurnsBalance, Entry
  <2>8. WrittenIsTrue' /\ AppliedOnce'
    BY <1>6 DEF Resume, rest, Inv, WrittenIsTrue, AppliedOnce
  <2> QED
    BY <2>2, <2>3, <2>4, <2>5, <2>6, <2>7, <2>8 DEF Inv
<1> QED
  BY <1>1, <1>2, <1>3, <1>4, <1>5, <1>6 DEF LifeStep

LEMMA NextInv == Inv /\ [Next]_vars => Inv'
<1> SUFFICES ASSUME Inv, [Next]_vars PROVE Inv'
  OBVIOUS
<1>1. CASE AgentStep
  BY <1>1, AgentStepInv
<1>2. CASE HookStep
  BY <1>2, HookStepInv
<1>3. CASE SupStep
  BY <1>3, SupStepInv
<1>4. CASE WriterStep
  BY <1>4, BeginWantInv, CommitInv DEF WriterStep
<1>5. CASE Rollback
  BY <1>5, RollbackInv
<1>6. CASE LifeStep
  BY <1>6, LifeStepInv
<1>7. CASE Tick \/ UNCHANGED vars
  <2>1. clock' \in 0 .. MaxClock
    BY <1>7, Numbers DEF Tick, vars, Inv, TypeOK
  <2>2. UNCHANGED <<row, live, sup, table, agent, owed, net, reqs, want, job, dedupe, screen,
                    reclaimed, used, history>>
    BY <1>7 DEF Tick, vars
  <2>3. TurnsBalance' /\ WrittenIsTrue' /\ AppliedOnce' /\ FutureInv' /\ JobInv'
    BY <2>2, TableStays, JobStays
  <2>4. TypeOK' /\ MoreTypes' /\ LifeInv'
    BY <2>1, <2>2 DEF Inv, TypeOK, MoreTypes, LifeInv
  <2> QED
    BY <2>3, <2>4 DEF Inv
<1> QED
  BY <1>1, <1>2, <1>3, <1>4, <1>5, <1>6, <1>7 DEF Next

LEMMA Invariance == Spec => []Inv
BY InitInv, NextInv, PTL DEF Spec

-----------------------------------------------------------------------------
\* Whatever is lost, doubled, rolled back or forgotten: every turn that
\* began has its end, but for the one that is open, and what the merge
\* notes as written is what the row says.
THEOREM TableAlwaysTrue == Spec => []TableIsTrue
<1>1. Inv => TableIsTrue
  BY DEF Inv, TableIsTrue
<1> QED
  BY <1>1, Invariance, PTL

\* A hook is counted once however often it is sent, rolled back and sent
\* again, and nothing of an ended generation moves the row of a later one.
THEOREM HooksCountOnce == Spec => HooksCount
<1>1. Inv => AppliedOnce
  BY DEF Inv
<1>2. Inv => (row'.state # row.state /\ job # NoJob => job.change.gen = row.gen)
  BY DEF Inv, JobInv
<1> QED
  BY <1>1, <1>2, Invariance, PTL DEF Spec, HooksCount, GenerationsApart
===============================================================================
