------------------------ MODULE AgentLifecycle_proofs -------------------------
(* Proofs about the life of agents, for every number of agents,            *)
(* generations and boots, whatever a caller may ask for.                   *)
EXTENDS AgentLifecycle, FiniteSetTheorems, TLAPS

-----------------------------------------------------------------------------
(* The inductive invariant, in parts.                                      *)

\* A row: which states go with an open op, and with a recorded child.
RowInv(r) ==
  /\ r.gen = 0 <=> r.state = "none"
  /\ r.state = "creating" => r.gen = 1
  /\ \A g \in Gens :
       /\ g > r.gen => r.op[g] = "none"
       /\ g < r.gen => r.op[g] \in {"dropped", "done"}
       /\ g = r.gen => r.op[g] # "none"
       /\ r.op[g] = "row" => r.state \in Resting \cup {"creating"}
       /\ r.op[g] = "pty" => r.state = "starting"
       /\ g = r.gen /\ r.state = "creating" => r.op[g] = "row"
       /\ g = r.gen /\ r.state = "starting" => r.op[g] = "pty"
       /\ g = r.gen /\ r.state \in {"ready", "working"} => r.op[g] = "done"
  /\ r.kept \in {0, r.gen}
  /\ r.kept # 0 <=> r.state \in Active \cup {"orphaned"}

\* A process of the newest generation is recorded, or lost, or in the hands
\* of a thread that has yet to record it; an older one was lost.
Kept(a, g) ==
  \/ sup[a].at # "none" /\ sup[a].gen = g /\ ~Recorded(db[a], g)
  \/ db[a].kept = g
  \/ Lost(a, g)
ProcInv(a) ==
  \A g \in Gens : /\ g > db[a].gen => proc[a][g] = "none"
                  /\ g < db[a].gen /\ Running(a, g) => Lost(a, g)
                  /\ g = db[a].gen /\ Running(a, g) => Kept(a, g)

\* What a thread knows of its row and its process.
OpenOr(r, g, op) == r.op[g] = op \/ r.state \in Ended
Runs(r, g)  == r.op[g] = "done" /\ r.state \in {"ready", "working"} \cup Ended
Comes(r, g) == \/ r.op[g] = "pty"
               \/ r.op[g] = "done" /\ r.state \in Ended
Origin(from, g) == from = "create" <=> g = 1
SupInv(a) ==
  LET s == sup[a] r == db[a] IN
  s.at # "none" =>
    /\ s.gen = r.gen /\ r.state \notin {"none", "orphaned"}
    /\ Origin(s.from, s.gen)
    /\ s.at \in {"begin", "checked", "spawned"} => OpenOr(r, s.gen, "row") /\ ~Recorded(r, s.gen)
    /\ s.at \in {"begin", "checked"} => proc[a][s.gen] = "none"
    /\ s.at \in {"follow", "cut", "undo"} => Comes(r, s.gen)
    /\ s.at = "failing" => IsOpen(r, s.gen) \/ r.state \in Ended
    /\ s.at = "void" => r.state \in Ended
    /\ s.at \in {"run", "exited", "drained"} => Runs(r, s.gen)
    /\ s.at = "killed" => Comes(r, s.gen) \/ Runs(r, s.gen)
    /\ s.at = "undo" => s.from # "create"
    /\ s.at \in {"failing", "undo", "exited", "killed", "drained"} => proc[a][s.gen] # "up"

\* What a call knows of its row.
CallInv(a) ==
  LET c == call[a] r == db[a] IN
  /\ c.pc = "none" => c = NoCall
  /\ c.pc \in {"create", "resume"} =>
       /\ c.gen = r.gen /\ c.gen # 0 /\ r.op[c.gen] = "row"
       /\ sup[a].at = "none" /\ proc[a][c.gen] = "none"
       /\ Origin(c.from, c.gen)
       /\ c.pc = "create" <=> c.from = "create"
  /\ c.pc = "plan" => c.from \in Resting /\ r.gen < MaxGen
  /\ c.pc = "orphan" => r.state = "orphaned"
  /\ c.pc \in {"retire", "asked", "idle", "bury"} => r.state # "none"

\* What the boot has done so far.
EngInv(a) ==
  /\ eng \in {"down", "reconcile"} => sup[a].at = "none" /\ Holds(a, "none")
  /\ eng = "reconcile" =>
       (AnyOpen(db[a]) \/ db[a].state \in Active \cup {"creating"} <=> a \in todo)
  /\ eng = "resume" /\ a \in todo =>
       /\ db[a].state \in Resting /\ ~AnyOpen(db[a])
       /\ sup[a].at = "none" /\ Holds(a, "none")

AgentInv(a) == RowInv(db[a]) /\ ProcInv(a) /\ SupInv(a) /\ CallInv(a) /\ EngInv(a)
Inv == TypeOK /\ \A a \in Agents : AgentInv(a)

-----------------------------------------------------------------------------
(* What the writes of the store make of a row.                             *)

LEMMA Numbers ==
  /\ MaxGen \in Nat /\ 0 \in 0 .. MaxGen /\ 1 \in Gens
  /\ NoAgent \notin Agents
BY LifecycleAssumption DEF Gens

LEMMA ClosedRow ==
  ASSUME NEW r \in Row, NEW g \in Gens
  PROVE  Finish(r, g) \in Row /\ FinishAll(r) \in Row /\ Forget(r) \in Row
<1>1. Finish(r, g) \in Row
  BY DEF Finish, Closed, Row, OpStates
<1>2. FinishAll(r) \in Row
  BY DEF FinishAll, Closed, Row, OpStates
<1>3. Forget(r) \in Row
  BY Numbers DEF Forget, Row
<1> QED BY <1>1, <1>2, <1>3

LEMMA EndedRow ==
  ASSUME NEW r \in Row
  PROVE  FailAgent(r) \in Row /\ RetireTx(r) \in Row
<1> USE DEF Row, States, Ended
<1>1. Forget(r) \in Row /\ Forget(FinishAll(r)) \in Row
  BY ClosedRow, Numbers DEF Gens
<1>2. FailAgent(r) \in Row
  BY <1>1 DEF FailAgent
<1>3. RetireTx(r) \in Row
  BY <1>1 DEF RetireTx
<1> QED BY <1>2, <1>3

LEMMA ResumeRow ==
  ASSUME NEW r \in Row, NEW g \in Gens, NEW from
  PROVE  /\ ResumeFailed(r, from) \in Row
         /\ from \in Resting => UndoResume(r, g, from) \in Row
<1>1. Forget(r) \in Row /\ Finish(r, g) \in Row /\ Forget(Finish(r, g)) \in Row
  BY ClosedRow
<1>2. ResumeFailed(r, from) \in Row
  <2> DEFINE back == IF r.state \in Resting THEN r.state
                     ELSE IF from \in Resting THEN from ELSE "interrupted"
  <2>1. back \in States
    BY DEF States, Resting
  <2>2. [Forget(r) EXCEPT !.state = back, !.reason = "resume_failed"] \in Row
    BY <1>1, <2>1 DEF Row
  <2> QED BY <2>2 DEF ResumeFailed
<1>3. from \in Resting => UndoResume(r, g, from) \in Row
  BY <1>1 DEF UndoResume, Row, States, Resting
<1> QED BY <1>2, <1>3

LEMMA ChildRow ==
  ASSUME NEW r \in Row, NEW g \in Gens, NEW b \in BOOLEAN
  PROVE  /\ OrphanAgent(r, g, b) \in Row
         /\ Settle(r, b) \in Row
         /\ WritePty(r, g) \in Row
         /\ WriteBound(r, g) \in Row
<1>1. /\ FinishAll(r) \in Row /\ Forget(r) \in Row /\ Finish(r, g) \in Row
      /\ g \in 0 .. MaxGen
  BY ClosedRow DEF Gens
<1>2. OrphanAgent(r, g, b) \in Row
  BY <1>1 DEF OrphanAgent, Row, States
<1>3. Settle(r, b) \in Row
  BY ZenonT(60), <1>1 DEF Settle, Row, States, Resting
<1>4. WritePty(r, g) \in Row
  <2> DEFINE to == IF r.state \in Resting \cup {"creating"} THEN "starting" ELSE r.state
             o == [r.op EXCEPT ![g] = "pty"]
  <2>1. to \in States /\ o \in [Gens -> OpStates]
    BY DEF Row, States, Active, OpStates
  <2>2. [r EXCEPT !.op = o, !.kept = g, !.over = FALSE, !.state = to] \in Row
    BY <1>1, <2>1 DEF Row
  <2> QED BY <2>2 DEF WritePty, Row
<1>5. WriteBound(r, g) \in Row
  <2>1. CASE r.state = "starting"
    BY <1>1, <2>1 DEF WriteBound, Row, States, Active
  <2>2. CASE r.state # "starting"
    <3>1. WriteBound(r, g) = Finish(r, g)
      BY <1>1, <2>2 DEF WriteBound, Finish, Row
    <3> QED BY <1>1, <3>1
  <2> QED BY <2>1, <2>2
<1> QED BY <1>2, <1>3, <1>4, <1>5

LEMMA BootRow ==
  ASSUME NEW r \in Row, NEW g \in Gens
  PROVE  /\ LiveFix(r) \in Row
         /\ OpFix(r, g) \in Row
         /\ r.gen < MaxGen => Begin(r) \in Row
<1>1. Forget(r) \in Row /\ FailAgent(r) \in Row /\ Finish(r, g) \in Row
  BY ClosedRow, EndedRow
<1>2. LiveFix(r) \in Row
  BY <1>1 DEF LiveFix, Row, States, Resting
<1>3. OpFix(r, g) \in Row
  BY <1>1, ResumeRow, EndedRow DEF OpFix
<1>4. ASSUME r.gen < MaxGen PROVE Begin(r) \in Row
  <2>1. r.gen + 1 \in 0 .. MaxGen /\ r.gen + 1 \in Gens
    BY <1>4, Numbers DEF Row, Gens
  <2> QED BY <2>1 DEF Begin, Row, OpStates
<1> QED BY <1>2, <1>3, <1>4

LEMMA NewRow ==
  ASSUME NEW p \in Agents \cup {NoAgent}
  PROVE  Begin([NoRow EXCEPT !.state = "creating", !.parent = p]) \in Row
<1>1. [NoRow EXCEPT !.state = "creating", !.parent = p] \in Row
  BY Numbers DEF NoRow, Row, OpStates, States
<1>2. [NoRow EXCEPT !.state = "creating", !.parent = p].gen < MaxGen
  BY LifecycleAssumption DEF NoRow
<1> QED BY <1>1, <1>2, BootRow, Numbers

-----------------------------------------------------------------------------
(* The writes keep the invariant of a row, where the engine makes them.    *)

\* q is r with its op closed, in a state that goes with it.
Settles(r, q) ==
  /\ q.gen = r.gen /\ q.kept \in {0, r.gen}
  /\ \A g \in Gens : g # r.gen => q.op[g] = r.op[g]
  /\ q.op[r.gen] = Closed(r.op[r.gen])
  /\ q.kept # 0 <=> q.state \in Active \cup {"orphaned"}
  /\ q.state \notin {"none", "creating", "starting"}
  /\ q.state \in {"ready", "working"} => r.state = q.state

LEMMA SettledRow ==
  ASSUME NEW r \in Row, NEW q \in Row, RowInv(r), r.gen # 0, Settles(r, q)
  PROVE  RowInv(q)
<1>1. r.gen \in Gens
  BY DEF Row, Gens
<1>2. \A g \in Gens : /\ q.op[g] = "done" => r.op[g] \in {"pty", "done"}
                      /\ ~IsOpen(q, g)
  <2> TAKE g \in Gens
  <2>1. CASE g = r.gen
    BY <1>1, <2>1 DEF Settles, Row, OpStates, Closed, IsOpen
  <2>2. CASE g # r.gen
    BY <1>1, <2>2 DEF Settles, RowInv, Row, Gens, IsOpen
  <2> QED BY <2>1, <2>2
<1> QED
  BY <1>1, <1>2 DEF Settles, RowInv, Row, OpStates, Closed, IsOpen, Gens, Active

LEMMA Finished ==
  ASSUME NEW r \in Row, RowInv(r), r.gen # 0
  PROVE  /\ r.gen \in Gens
         /\ \A g \in Gens : IsOpen(r, g) => g = r.gen
         /\ FinishAll(r) = Finish(r, r.gen)
         /\ ~AnyOpen(Finish(r, r.gen))
         /\ Finish(r, r.gen).op = [r.op EXCEPT ![r.gen] = Closed(r.op[r.gen])]
<1>1. r.gen \in Gens
  BY DEF Row, Gens
<1>2. \A g \in Gens : IsOpen(r, g) => g = r.gen
  BY <1>1 DEF RowInv, IsOpen, Row, Gens
<1>3. Finish(r, r.gen).op = [r.op EXCEPT ![r.gen] = Closed(r.op[r.gen])]
  BY <1>1 DEF Finish, Row
<1>4. FinishAll(r).op = Finish(r, r.gen).op
  BY <1>1, <1>2, <1>3 DEF FinishAll, Closed, Row, IsOpen
<1>5. FinishAll(r) = Finish(r, r.gen)
  BY <1>1, <1>4 DEF FinishAll, Finish, Row
<1>6. ~AnyOpen(Finish(r, r.gen))
  BY <1>5 DEF FinishAll, Closed, AnyOpen, IsOpen, Row, OpStates
<1> QED BY <1>1, <1>2, <1>3, <1>5, <1>6

LEMMA EndKeeps ==
  ASSUME NEW r \in Row, RowInv(r), r.gen # 0, r.state # "orphaned"
  PROVE  /\ RowInv(FailAgent(Finish(r, r.gen)))
         /\ ~AnyOpen(r) => RowInv(FailAgent(r))
<1> DEFINE q == FailAgent(Finish(r, r.gen))
           h == FailAgent(r)
<1>1. r.gen \in Gens /\ q \in Row /\ h \in Row
  BY Finished, ClosedRow, EndedRow
<1>2. Settles(r, q)
  BY <1>1, Finished DEF FailAgent, Forget, Finish, Settles, Row, RowInv, Ended, Active
<1>3. ~AnyOpen(r) => Settles(r, h)
  BY <1>1 DEF FailAgent, Forget, AnyOpen, IsOpen, Row, Closed, Settles, RowInv, Ended, Active
<1> QED BY <1>1, <1>2, <1>3, SettledRow

LEMMA RetireKeeps ==
  ASSUME NEW r \in Row, RowInv(r), r.gen # 0
  PROVE  RowInv(RetireTx(r))
<1> DEFINE q == RetireTx(r)
<1>1. r.gen \in Gens /\ q \in Row
  BY Finished, EndedRow
<1>2. CASE r.state \in Ended
  BY <1>2 DEF RetireTx
<1>3. CASE r.state \notin Ended
  <2>1. q = [Forget(Finish(r, r.gen)) EXCEPT !.state = "retired"]
    BY <1>3, Finished DEF RetireTx
  <2>2. Settles(r, q)
    BY <1>1, <2>1, Finished DEF Finish, Forget, Settles, Row, Active
  <2> QED BY <1>1, <2>2, SettledRow
<1> QED BY <1>2, <1>3

LEMMA OrphanKeeps ==
  ASSUME NEW r \in Row, RowInv(r), r.gen # 0, NEW over \in BOOLEAN
  PROVE  RowInv(OrphanAgent(r, r.gen, over))
<1> DEFINE q == OrphanAgent(r, r.gen, over)
<1>1. r.gen \in Gens /\ q \in Row
  BY Finished, ChildRow
<1>2. CASE r.state = "orphaned"
  BY <1>2 DEF OrphanAgent
<1>3. CASE r.state # "orphaned"
  <2>1. q = [Finish(r, r.gen) EXCEPT !.state = "orphaned", !.kept = r.gen, !.over = over]
    BY <1>3, Finished DEF OrphanAgent
  <2>2. Settles(r, q)
    BY <1>1, <2>1, Finished DEF Finish, Settles, Row, Active
  <2> QED BY <1>1, <2>2, SettledRow
<1> QED BY <1>2, <1>3

LEMMA ResumeKeeps ==
  ASSUME NEW r \in Row, RowInv(r), r.gen > 1, NEW from
  PROVE  /\ RowInv(ResumeFailed(Finish(r, r.gen), from))
         /\ from \in Resting => RowInv(UndoResume(r, r.gen, from))
         /\ ~AnyOpen(r) => RowInv(ResumeFailed(r, from))
<1> DEFINE q == ResumeFailed(Finish(r, r.gen), from)
           u == UndoResume(r, r.gen, from)
           h == ResumeFailed(r, from)
<1>1. /\ r.gen \in Gens /\ r.gen # 0 /\ q \in Row /\ h \in Row
      /\ from \in Resting => u \in Row
      /\ r.state \notin {"none", "creating"}
  <2>1. r.gen # 0 BY Numbers DEF Row
  <2> QED BY <2>1, Finished, ClosedRow, ResumeRow DEF RowInv
<1>2. Settles(r, q)
  <2>1. CASE r.state \in Resting \cup {"starting", "ready"}
    BY <1>1, <2>1, Finished DEF ResumeFailed, Forget, Finish, Settles, Row, RowInv, Resting,
          Active
  <2>2. CASE r.state \notin Resting \cup {"starting", "ready"}
    BY <1>1, <2>2, Finished DEF ResumeFailed, Finish, Settles, Row, RowInv, Resting, Active
  <2> QED BY <2>1, <2>2
<1>3. from \in Resting => Settles(r, u)
  <2>1. CASE r.state \in {"starting", from}
    BY <1>1, <2>1, Finished DEF UndoResume, Forget, Finish, Settles, Row, RowInv, Resting, Active
  <2>2. CASE r.state \notin {"starting", from}
    BY <1>1, <2>2, Finished DEF UndoResume, Finish, Settles, Row, RowInv, Resting, Active
  <2> QED BY <2>1, <2>2
<1>4. ~AnyOpen(r) => Settles(r, h)
  BY <1>1 DEF ResumeFailed, AnyOpen, IsOpen, Closed, Settles, Forget, Row, RowInv, Resting, Active
<1> QED BY <1>1, <1>2, <1>3, <1>4, SettledRow

LEMMA SettleKeeps ==
  ASSUME NEW r \in Row, RowInv(r), ~AnyOpen(r), NEW busy \in BOOLEAN
  PROVE  RowInv(Settle(r, busy)) /\ (r.state \in Active => RowInv(LiveFix(r)))
<1>1. RowInv(Settle(r, busy))
  BY DEF Settle, AnyOpen, IsOpen, Forget, Row, RowInv, Gens, Ended, Resting, Active
<1>2. r.state \in Active => RowInv(LiveFix(r))
  BY DEF LiveFix, AnyOpen, IsOpen, Forget, Row, RowInv, Gens, Ended, Resting, Active
<1> QED BY <1>1, <1>2

LEMMA ChildKeeps ==
  ASSUME NEW r \in Row, RowInv(r), r.gen \in Gens, IsOpen(r, r.gen)
  PROVE  /\ RowInv(WritePty(r, r.gen))
         /\ r.op[r.gen] = "pty" => RowInv(WriteBound(r, r.gen))
<1> DEFINE q == WritePty(r, r.gen)
           b == WriteBound(r, r.gen)
<1>1. /\ q.op = [r.op EXCEPT ![r.gen] = "pty"] /\ q.gen = r.gen /\ q.kept = r.gen
      /\ q.state = "starting" /\ r.gen # 0
  BY DEF WritePty, IsOpen, Row, RowInv, Gens, Resting
<1>2. RowInv(q)
  <2>1. \A g \in Gens : /\ g = r.gen => q.op[g] = "pty"
                        /\ g # r.gen => q.op[g] = r.op[g]
    BY <1>1 DEF Row
  <2> QED BY <1>1, <2>1, Numbers DEF RowInv, Row, Gens, Active
<1>3. ASSUME r.op[r.gen] = "pty" PROVE RowInv(b)
  <2>1. /\ b.op = [r.op EXCEPT ![r.gen] = "done"] /\ b.gen = r.gen /\ b.kept = r.kept
        /\ b.state = "ready" /\ r.state = "starting"
    BY <1>3 DEF WriteBound, Finish, Closed, Row, RowInv, Gens
  <2>2. \A g \in Gens : /\ g = r.gen => b.op[g] = "done"
                        /\ g # r.gen => b.op[g] = r.op[g]
    BY <2>1 DEF Row
  <2> QED BY <2>1, <2>2, <1>1, Numbers DEF RowInv, Row, Gens, Active
<1> QED BY <1>2, <1>3

LEMMA BeginKeeps ==
  ASSUME NEW r \in Row, RowInv(r), ~AnyOpen(r), r.state \in Resting, r.gen < MaxGen
  PROVE  RowInv(Begin(r))
<1> DEFINE n == r.gen + 1
           q == Begin(r)
<1>1. n \in Gens /\ r.gen \in 0 .. MaxGen
  BY Numbers DEF Row, Gens
<1>2. /\ q.op = [r.op EXCEPT ![n] = "row"] /\ q.gen = n /\ q.kept = r.kept
      /\ q.state = r.state
  BY <1>1 DEF Begin, Row
<1>3. \A g \in Gens : g < n => r.op[g] \in {"dropped", "done"}
  <2> TAKE g \in Gens
  <2>1. CASE g = r.gen
    BY <2>1 DEF AnyOpen, IsOpen, RowInv, Row, OpStates
  <2>2. CASE g # r.gen
    BY <1>1, <2>2 DEF RowInv, Row, Gens
  <2> QED BY <2>1, <2>2
<1>4. r.kept = 0
  BY DEF RowInv, Resting, Active
<1> QED
  BY <1>1, <1>2, <1>3, <1>4, Numbers DEF Row, RowInv, Gens, Resting, Active

LEMMA NewKeeps ==
  ASSUME NEW p \in Agents \cup {NoAgent}
  PROVE  RowInv(Begin([NoRow EXCEPT !.state = "creating", !.parent = p])) /\ RowInv(NoRow)
BY Numbers DEF Begin, NoRow, RowInv, Gens, Resting, Active

LEMMA GenStays ==
  ASSUME NEW r \in Row, NEW g \in Gens, NEW from, NEW b \in BOOLEAN
  PROVE  /\ Finish(r, g).gen = r.gen /\ FailAgent(r).gen = r.gen /\ RetireTx(r).gen = r.gen
         /\ ResumeFailed(r, from).gen = r.gen /\ UndoResume(r, g, from).gen = r.gen
         /\ OrphanAgent(r, g, b).gen = r.gen /\ Settle(r, b).gen = r.gen
         /\ LiveFix(r).gen = r.gen /\ OpFix(r, g).gen = r.gen
<1>1. \A q \in Row : FailAgent(q).gen = q.gen /\ ResumeFailed(q, from).gen = q.gen
                     /\ ResumeFailed(q, "none").gen = q.gen
  BY DEF FailAgent, ResumeFailed, Forget, Row
<1>2. Finish(r, g).gen = r.gen /\ Finish(r, g) \in Row
  BY ClosedRow DEF Finish, Row
<1>3. RetireTx(r).gen = r.gen /\ OrphanAgent(r, g, b).gen = r.gen
  BY DEF RetireTx, OrphanAgent, FinishAll, Forget, Row
<1>4. UndoResume(r, g, from).gen = r.gen
  BY <1>2 DEF UndoResume, Forget, Row
<1>5. Settle(r, b).gen = r.gen /\ LiveFix(r).gen = r.gen
  BY <1>1 DEF Settle, LiveFix, Forget, Row
<1>6. OpFix(r, g).gen = r.gen
  BY <1>1, <1>2 DEF OpFix
<1> QED BY <1>1, <1>2, <1>3, <1>4, <1>5, <1>6

\* Nor the agent's place in the tree.
LEMMA ParentStays ==
  ASSUME NEW r \in Row, NEW g \in Gens, NEW from, NEW b \in BOOLEAN
  PROVE  /\ Finish(r, g).parent = r.parent /\ FailAgent(r).parent = r.parent
         /\ RetireTx(r).parent = r.parent /\ ResumeFailed(r, from).parent = r.parent
         /\ UndoResume(r, g, from).parent = r.parent
         /\ OrphanAgent(r, g, b).parent = r.parent /\ Settle(r, b).parent = r.parent
         /\ LiveFix(r).parent = r.parent
<1>1. \A q \in Row : FailAgent(q).parent = q.parent /\ ResumeFailed(q, from).parent = q.parent
  BY DEF FailAgent, ResumeFailed, Forget, Row
<1>2. Finish(r, g).parent = r.parent /\ Finish(r, g) \in Row
  BY ClosedRow DEF Finish, Row
<1>3. RetireTx(r).parent = r.parent /\ OrphanAgent(r, g, b).parent = r.parent
  BY DEF RetireTx, OrphanAgent, FinishAll, Forget, Row
<1>4. UndoResume(r, g, from).parent = r.parent
  BY <1>2 DEF UndoResume, Forget, Row
<1>5. Settle(r, b).parent = r.parent /\ LiveFix(r).parent = r.parent
  BY <1>1 DEF Settle, LiveFix, Forget, Row
<1> QED BY <1>1, <1>2, <1>3, <1>4, <1>5

-----------------------------------------------------------------------------
(* Steps of one agent.                                                     *)

\* A step that touches nothing of any other agent than a.
Only(a) ==
  /\ \A b \in Agents : b # a =>
        /\ db'[b] = db[b] /\ proc'[b] = proc[b] /\ sup'[b] = sup[b] /\ call'[b] = call[b]
        /\ b \in todo' <=> b \in todo
  /\ lost \subseteq lost' /\ eng' = eng

LEMMA OthersStay ==
  ASSUME NEW a \in Agents, Only(a), NEW b \in Agents, b # a, AgentInv(b)
  PROVE  AgentInv(b)'
<1> USE DEF Only
<1>1. RowInv(db[b])' BY DEF AgentInv, RowInv
<1>2. ProcInv(b)' BY DEF AgentInv, ProcInv, Running, Kept, Lost, Recorded
<1>3. SupInv(b)' BY DEF AgentInv, SupInv, OpenOr, Comes, Runs, Recorded, IsOpen, Origin
<1>4. CallInv(b)' BY DEF AgentInv, CallInv, Origin
<1>5. EngInv(b)' BY DEF AgentInv, EngInv, AnyOpen, IsOpen, Holds
<1> QED BY <1>1, <1>2, <1>3, <1>4, <1>5 DEF AgentInv

\* What a thread can rely on.
LEMMA ThreadFacts ==
  ASSUME Inv, NEW a \in Agents, sup[a].at # "none"
  PROVE  /\ db[a] \in Row /\ RowInv(db[a]) /\ db[a].gen # 0
         /\ sup[a].gen = db[a].gen /\ sup[a].gen \in Gens
         /\ call[a].pc \notin {"create", "resume", "orphan"}
         /\ eng \notin {"down", "reconcile"} /\ (eng = "resume" => a \notin todo)
         /\ sup[a].from \in Resting => db[a].gen > 1
         /\ sup[a].from \in Resting \cup {"create"}
         /\ \A g \in Gens : g < sup[a].gen /\ Running(a, g) => Lost(a, g)
<1>1. db[a] \in Row /\ sup[a].from \in Resting \cup {"create"}
  BY DEF Inv, TypeOK
<1>2. RowInv(db[a]) /\ SupInv(a) /\ CallInv(a) /\ EngInv(a) /\ ProcInv(a)
  BY DEF Inv, AgentInv
<1>3. sup[a].gen = db[a].gen /\ db[a].gen # 0 /\ db[a].gen \in Gens
  BY <1>1, <1>2 DEF SupInv, RowInv, Row, Gens
<1>4. sup[a].from \in Resting => db[a].gen > 1
  BY <1>1, <1>2, <1>3 DEF SupInv, Origin, Resting, Row, Gens
<1>5. call[a].pc \notin {"create", "resume", "orphan"}
  BY <1>2 DEF SupInv, CallInv
<1>6. eng \notin {"down", "reconcile"} /\ (eng = "resume" => a \notin todo)
  BY <1>2 DEF EngInv
<1> QED BY <1>1, <1>2, <1>3, <1>4, <1>5, <1>6 DEF ProcInv

Procs  == [Agents -> [Gens -> {"none", "up", "gone"}]]
Sups   == [at : SupAt, gen : 0 .. MaxGen, from : Resting \cup {"create"}, busy : BOOLEAN]
Calls  == [pc : CallPc, gen : 0 .. MaxGen, from : Resting \cup {"create"}]
Losses == Agents \X Gens \X {"buried", "forced", "crashed", "unwritten"}

\* A thread that ends leaves its row in order, and a process that still runs
\* on record or lost.
LEMMA EndStep ==
  ASSUME Inv, NEW a \in Agents, sup[a].at # "none", NEW answered, EndThread(a, answered),
         NEW r \in Row, RowInv(r), r.gen = db[a].gen, Write(a, r),
         proc' \in Procs, lost' \subseteq Losses, Only(a), boots' = boots, todo' = todo,
         NEW h \in Gens, h = sup[a].gen,
         \A g \in Gens : g # h => proc'[a][g] = proc[a][g],
         Running(a, h)' => r.kept = h \/ Lost(a, h)'
  PROVE  Inv'
<1>1. TypeOK'
  <2>1. TypeOK BY DEF Inv
  <2>2. NoSup \in Sups
    BY Numbers DEF NoSup, SupAt, Sups
  <2>3. /\ NoCall \in Calls
        /\ [call[a] EXCEPT !.pc = "idle"] \in Calls
    <3>1. call[a] \in Calls
      BY <2>1 DEF TypeOK, Calls
    <3> QED BY <3>1, Numbers DEF Calls, NoCall, CallPc
  <2>4. db' \in [Agents -> Row] /\ sup' \in [Agents -> Sups]
    BY <2>1, <2>2 DEF TypeOK, Write, EndThread, Sups
  <2>5. call' \in [Agents -> Calls]
    BY <2>1, <2>3 DEF TypeOK, EndThread, Calls
  <2> QED BY <2>1, <2>4, <2>5 DEF TypeOK, Only, Procs, Losses, Calls, Sups
<1>2. /\ db[a] \in Row /\ call[a].pc \notin {"create", "resume", "orphan"}
      /\ eng \notin {"down", "reconcile"} /\ (eng = "resume" => a \notin todo)
      /\ db[a].gen # 0
  BY ThreadFacts
<1>3. db'[a] = r /\ sup'[a] = NoSup
  BY DEF Inv, TypeOK, Write, EndThread
<1>4. RowInv(db'[a])
  BY <1>3
<1>5. ProcInv(a)'
  <2>1. ProcInv(a) /\ h = r.gen
    BY ThreadFacts DEF Inv, AgentInv
  <2>2. \A g \in Gens : Lost(a, g) => Lost(a, g)'
    BY DEF Only, Lost
  <2>5. r.gen \in Nat /\ Gens \subseteq Nat
    BY Numbers DEF Row, Gens
  <2>3. \A g \in Gens : g > r.gen => proc'[a][g] = "none"
    BY <2>1, <2>5 DEF ProcInv, Gens
  <2>4. \A g \in Gens : g < r.gen /\ Running(a, g)' => Lost(a, g)'
    BY <2>1, <2>2, <2>5 DEF ProcInv, Running
  <2>6. \A g \in Gens : g = r.gen /\ Running(a, g)' => Kept(a, g)'
    BY <1>3, <2>1 DEF Kept
  <2> QED BY <1>3, <2>3, <2>4, <2>6 DEF ProcInv
<1>6. SupInv(a)'
  BY <1>3 DEF SupInv, NoSup
<1>7. CallInv(a)'
  <2>1. CallInv(a) /\ db'[a].state # "none" /\ db'[a].gen = db[a].gen
    BY <1>2, <1>3 DEF Inv, AgentInv, RowInv
  <2>2. CASE call'[a] = call[a]
    BY <1>2, <2>1, <2>2 DEF CallInv
  <2>3. CASE call'[a] = NoCall
    BY <2>3 DEF CallInv, NoCall
  <2>4. CASE call'[a] = [call[a] EXCEPT !.pc = "idle"]
    BY <2>1, <2>4 DEF CallInv, Inv, TypeOK
  <2> QED BY <2>2, <2>3, <2>4 DEF EndThread, Inv, TypeOK
<1>8. EngInv(a)'
  BY <1>2 DEF EngInv, Only
<1>9. AgentInv(a)'
  BY <1>4, <1>5, <1>6, <1>7, <1>8 DEF AgentInv, RowInv
<1>10. \A b \in Agents : b # a => AgentInv(b)'
  BY OthersStay DEF Inv
<1> QED BY <1>1, <1>9, <1>10 DEF Inv

\* The same for a thread that goes on.
LEMMA MoveStep ==
  ASSUME Inv, NEW a \in Agents, sup[a].at # "none",
         sup' \in [Agents -> Sups], sup'[a].gen = sup[a].gen, call' = call,
         NEW r \in Row, RowInv(r), r.gen = db[a].gen, Write(a, r),
         proc' \in Procs, lost' = lost, Only(a), boots' = boots, todo' = todo,
         NEW h \in Gens, h = sup[a].gen,
         \A g \in Gens : g # h => proc'[a][g] = proc[a][g],
         Running(a, h)' => Kept(a, h)', SupInv(a)', sup'[a].at # "none"
  PROVE  Inv'
<1>0. db'[a] = r
  BY DEF Inv, TypeOK, Write
<1>1. TypeOK'
  <2>1. db' \in [Agents -> Row]
    BY DEF Inv, TypeOK, Write
  <2> QED BY <2>1 DEF Inv, TypeOK, Only, Procs, Sups
<1>2. ProcInv(a)'
  <2>1. ProcInv(a) /\ h = r.gen
    BY ThreadFacts DEF Inv, AgentInv
  <2>2. r.gen \in Nat /\ Gens \subseteq Nat
    BY Numbers DEF Row, Gens
  <2> QED BY <1>0, <2>1, <2>2 DEF ProcInv, Running, Lost
<1>3. CallInv(a)'
  <2>1. CallInv(a) /\ db'[a].state # "none" /\ db'[a].gen = db[a].gen
    BY <1>0, ThreadFacts DEF Inv, AgentInv, RowInv
  <2> QED BY <2>1, ThreadFacts DEF CallInv
<1>4. EngInv(a)'
  BY ThreadFacts DEF EngInv, Only
<1>5. AgentInv(a)'
  BY <1>0, <1>2, <1>3, <1>4 DEF AgentInv, RowInv
<1> QED BY <1>1, <1>5, OthersStay DEF Inv

\* What a thread writes when it ends.
LEMMA EndStores ==
  ASSUME Inv, NEW a \in Agents, sup[a].at # "none", NEW answered, EndThread(a, answered),
         NEW r \in Row, RowInv(r), r.gen = db[a].gen, Stores(a, r),
         proc[a][sup[a].gen] # "up", UNCHANGED <<eng, boots, todo, proc, lost>>
  PROVE  Inv'
<1>1. PICK q \in Row : RowInv(q) /\ q.gen = db[a].gen /\ Write(a, q)
  <2>1. CASE Write(a, r)
    BY <2>1
  <2>2. CASE UNCHANGED db
    BY <2>2, ThreadFacts DEF Write, Inv, TypeOK
  <2> QED BY <2>1, <2>2 DEF Stores
<1>2. Only(a) /\ proc' \in Procs /\ lost' \subseteq Losses
  BY <1>1 DEF Inv, TypeOK, Only, Write, EndThread, Procs, Losses
<1>3. PICK h \in Gens : h = sup[a].gen
  BY ThreadFacts
<1>4. ~Running(a, h)'
  BY <1>3 DEF Running
<1> QED BY <1>1, <1>2, <1>3, <1>4, EndStep

\* fail_create, for every thread.
LEMMA FailCreateRow ==
  ASSUME Inv, NEW a \in Agents, sup[a].at # "none"
  PROVE  FailCreate(a) \in Row /\ RowInv(FailCreate(a)) /\ FailCreate(a).gen = db[a].gen
<1> DEFINE r == db[a]
<1>1. r \in Row /\ RowInv(r) /\ r.gen # 0 /\ sup[a].gen = r.gen /\ r.gen \in Gens
  BY ThreadFacts
<1>2. r.state # "orphaned"
  BY DEF Inv, AgentInv, SupInv
<1>3. Finish(r, r.gen) \in Row /\ Finish(r, r.gen).gen = r.gen
  BY <1>1, ClosedRow, GenStays
<1>4. CASE sup[a].from = "create"
  BY <1>1, <1>2, <1>3, <1>4, EndKeeps, EndedRow, GenStays DEF FailCreate
<1>5. CASE sup[a].from # "create"
  <2>1. r.gen > 1
    BY <1>5, ThreadFacts
  <2>2. FailCreate(a) = ResumeFailed(Finish(r, r.gen), sup[a].from)
    BY <1>1, <1>5 DEF FailCreate
  <2>3. RowInv(ResumeFailed(Finish(r, r.gen), sup[a].from))
    BY <1>1, <2>1, ResumeKeeps
  <2>4. ResumeFailed(Finish(r, r.gen), sup[a].from) \in Row
    BY <1>1, <1>3, ResumeRow
  <2>5. ResumeFailed(Finish(r, r.gen), sup[a].from).gen = r.gen
    <3>1. TRUE \in BOOLEAN OBVIOUS
    <3> QED BY <1>1, <1>3, <3>1, GenStays
  <2> QED BY <2>2, <2>3, <2>4, <2>5
<1> QED BY <1>4, <1>5

LEMMA UndoRow ==
  ASSUME Inv, NEW a \in Agents, sup[a].at # "none", sup[a].from # "create"
  PROVE  LET u == UndoResume(db[a], sup[a].gen, sup[a].from)
         IN  u \in Row /\ RowInv(u) /\ u.gen = db[a].gen
<1> DEFINE r == db[a]
           f == sup[a].from
<1>1. r \in Row /\ RowInv(r) /\ r.gen > 1 /\ sup[a].gen = r.gen /\ r.gen \in Gens /\ f \in Resting
  BY ThreadFacts
<1>2. UndoResume(r, r.gen, f) \in Row
  BY <1>1, ResumeRow
<1>3. RowInv(UndoResume(r, r.gen, f))
  BY <1>1, ResumeKeeps
<1>4. UndoResume(r, r.gen, f).gen = r.gen
  <2>1. TRUE \in BOOLEAN OBVIOUS
  <2> QED BY ZenonT(60), <1>1, <2>1, GenStays
<1> QED BY <1>1, <1>2, <1>3, <1>4

LEMMA CheckSpawnStep ==
  ASSUME Inv, NEW a \in Agents, CheckSpawn(a)
  PROVE  Inv'
<1> DEFINE s == sup[a]
<1>1. s.at = "begin"
  BY DEF CheckSpawn, At
<1>2. /\ db[a] \in Row /\ RowInv(db[a]) /\ s.gen \in Gens /\ s.gen = db[a].gen
      /\ db \in [Agents -> Row] /\ proc[a][s.gen] = "none" /\ SupInv(a)
  BY <1>1, ThreadFacts DEF Inv, TypeOK, AgentInv, SupInv
<1>3. ASSUME Goto(a, "checked"), UNCHANGED <<db, call>> PROVE Inv'
  <2>1. /\ sup' \in [Agents -> Sups] /\ sup'[a].gen = s.gen /\ sup'[a].at = "checked"
        /\ sup'[a].from = s.from
    BY ZenonT(60), <1>3 DEF Inv, TypeOK, Sups, Goto, SupAt
  <2>2. SupInv(a)'
    BY <1>1, <1>2, <1>3, <2>1 DEF SupInv, OpenOr, CheckSpawn
  <2>3. Write(a, db[a]) /\ Only(a) /\ proc' \in Procs
    BY <1>2, <1>3 DEF Write, Only, CheckSpawn, Goto, Inv, TypeOK, Procs
  <2>4. \A h \in Gens : h = s.gen => ~Running(a, h)'
    BY <1>2 DEF Running, CheckSpawn
  <2> QED BY <1>1, <1>2, <1>3, <2>1, <2>2, <2>3, <2>4, MoveStep DEF CheckSpawn
<1>4. ASSUME NEW r \in Row, RowInv(r), r.gen = db[a].gen, Stores(a, r), EndThread(a, FALSE)
      PROVE  Inv'
  BY <1>1, <1>2, <1>4, EndStores DEF CheckSpawn
<1>5. ASSUME UNCHANGED db, EndThread(a, FALSE) PROVE Inv'
  <2>1. Stores(a, db[a])
    BY <1>2, <1>5 DEF Stores, Write
  <2> QED BY <1>2, <1>4, <1>5, <2>1
<1>6. ASSUME s.from # "create", Stores(a, UndoResume(db[a], s.gen, s.from)), EndThread(a, FALSE)
      PROVE  Inv'
  BY <1>1, <1>4, <1>6, UndoRow
<1>7. ASSUME Stores(a, FailCreate(a)), EndThread(a, FALSE) PROVE Inv'
  BY <1>1, <1>4, <1>7, FailCreateRow
<1> QED BY <1>3, <1>5, <1>6, <1>7 DEF CheckSpawn

LEMMA SpawnStep ==
  ASSUME Inv, NEW a \in Agents, Spawn(a)
  PROVE  Inv'
<1> DEFINE s == sup[a]
<1>1. s.at = "checked"
  BY DEF Spawn, At
<1>2. /\ db[a] \in Row /\ RowInv(db[a]) /\ s.gen \in Gens /\ s.gen = db[a].gen
      /\ db \in [Agents -> Row] /\ proc[a][s.gen] = "none" /\ SupInv(a)
      /\ proc \in Procs /\ OpenOr(db[a], s.gen, "row")
  BY <1>1, ThreadFacts DEF Inv, TypeOK, AgentInv, SupInv, Procs
<1>3. ASSUME proc' = [proc EXCEPT ![a][s.gen] = "up"], Goto(a, "spawned"), UNCHANGED <<db, call>>
      PROVE  Inv'
  <2>1. /\ sup' \in [Agents -> Sups] /\ sup'[a].gen = s.gen /\ sup'[a].at = "spawned"
        /\ sup'[a].from = s.from
    BY ZenonT(60), <1>3 DEF Inv, TypeOK, Sups, Goto, SupAt
  <2>2. ~Recorded(db[a], s.gen)
    BY <1>1, <1>2 DEF SupInv
  <2>3. SupInv(a)'
    BY <1>1, <1>2, <1>3, <2>1, <2>2 DEF SupInv
  <2>4. Write(a, db[a]) /\ Only(a) /\ proc' \in Procs
    BY <1>2, <1>3 DEF Write, Only, Spawn, Goto, Inv, TypeOK, Procs
  <2>5. \A g \in Gens : g # s.gen => proc'[a][g] = proc[a][g]
    BY <1>2, <1>3 DEF Procs
  <2>6. \A h \in Gens : h = s.gen => Kept(a, h)'
    BY <1>3, <2>1, <2>2 DEF Kept
  <2> QED BY <1>1, <1>2, <1>3, <2>1, <2>3, <2>4, <2>5, <2>6, MoveStep DEF Spawn
<1>4. ASSUME Stores(a, FailCreate(a)), EndThread(a, FALSE), UNCHANGED proc PROVE Inv'
  BY <1>1, <1>2, <1>4, EndStores, FailCreateRow DEF Spawn
<1> QED BY <1>3, <1>4 DEF Spawn

LEMMA RecordChildStep ==
  ASSUME Inv, NEW a \in Agents, RecordChild(a)
  PROVE  Inv'
<1> DEFINE s == sup[a]
           r == db[a]
<1>1. s.at = "spawned"
  BY DEF RecordChild, At
<1>2. /\ r \in Row /\ RowInv(r) /\ s.gen \in Gens /\ s.gen = r.gen
      /\ db \in [Agents -> Row] /\ SupInv(a) /\ ProcInv(a)
      /\ proc \in Procs /\ OpenOr(r, s.gen, "row") /\ ~Recorded(r, s.gen)
  BY <1>1, ThreadFacts DEF Inv, TypeOK, AgentInv, SupInv, Procs
<1>3. CASE IsOpen(r, s.gen)
  <2> DEFINE q == WritePty(r, s.gen)
  <2>1. r.op[s.gen] = "row" /\ r.state \in Resting \cup {"creating"}
    BY <1>2, <1>3 DEF IsOpen, Recorded, RowInv
  <2>2. q \in Row /\ RowInv(q)
    <3>1. TRUE \in BOOLEAN OBVIOUS
    <3> QED BY <1>2, <1>3, <3>1, ChildRow, ChildKeeps
  <2>3. q.gen = r.gen /\ q.op[s.gen] = "pty" /\ q.kept = s.gen /\ q.state = "starting"
    BY <1>2, <2>1 DEF WritePty, Row
  <2>4. PICK at \in {"cut", "follow"} : Goto(a, at) /\ Write(a, q)
    BY <1>3 DEF RecordChild
  <2>5. /\ sup' \in [Agents -> Sups] /\ sup'[a].gen = s.gen /\ sup'[a].at = at
        /\ sup'[a].from = s.from /\ db'[a] = q
    BY ZenonT(60), <1>2, <2>4 DEF Inv, TypeOK, Sups, Goto, SupAt, Write
  <2>6. SupInv(a)'
    BY <1>1, <1>2, <2>3, <2>4, <2>5 DEF SupInv, Comes
  <2>7. Only(a) /\ proc' \in Procs
    BY <1>2, <2>4 DEF Write, Only, RecordChild, Goto, Inv, TypeOK, Procs
  <2>8. \A h \in Gens : h = s.gen => Kept(a, h)'
    BY <2>3, <2>5 DEF Kept
  <2> QED BY <1>1, <1>2, <2>2, <2>3, <2>4, <2>5, <2>6, <2>7, <2>8, MoveStep DEF RecordChild
<1>4. CASE ~IsOpen(r, s.gen)
  <2>1. Goto(a, "void") /\ UNCHANGED db /\ r.state \in Ended
    BY <1>2, <1>4 DEF RecordChild, OpenOr, IsOpen
  <2>2. /\ sup' \in [Agents -> Sups] /\ sup'[a].gen = s.gen /\ sup'[a].at = "void"
        /\ sup'[a].from = s.from
    BY SMTT(60), <2>1 DEF Inv, TypeOK, Sups, Goto, SupAt
  <2>3. SupInv(a)'
    BY <1>1, <1>2, <2>1, <2>2 DEF SupInv
  <2>4. Only(a) /\ proc' \in Procs /\ Write(a, r)
    BY <1>2, <2>1 DEF Write, Only, RecordChild, Goto, Inv, TypeOK, Procs
  <2>5. \A h \in Gens : h = s.gen => Kept(a, h)'
    BY <1>2, <2>1, <2>2 DEF Kept
  <2> QED BY <1>1, <1>2, <2>1, <2>2, <2>3, <2>4, <2>5, MoveStep DEF RecordChild
<1> QED BY <1>3, <1>4

LEMMA BoundStep ==
  ASSUME Inv, NEW a \in Agents, Bound(a)
  PROVE  Inv'
<1> DEFINE s == sup[a]
           r == db[a]
<1>1. s.at = "follow"
  BY DEF Bound, At
<1>2. /\ r \in Row /\ RowInv(r) /\ s.gen \in Gens /\ s.gen = r.gen
      /\ db \in [Agents -> Row] /\ SupInv(a) /\ ProcInv(a)
      /\ proc \in Procs /\ Comes(r, s.gen)
  BY <1>1, ThreadFacts DEF Inv, TypeOK, AgentInv, SupInv, Procs
<1>0. Running(a, s.gen) => r.kept = s.gen \/ Lost(a, s.gen)
  BY <1>2 DEF ProcInv, Kept, Comes, Recorded
<1>3. CASE IsOpen(r, s.gen)
  <2> DEFINE q == WriteBound(r, s.gen)
  <2>1. r.op[s.gen] = "pty" /\ r.state = "starting"
    BY <1>2, <1>3 DEF IsOpen, Comes, RowInv
  <2>2. q \in Row /\ RowInv(q)
    <3>1. TRUE \in BOOLEAN OBVIOUS
    <3> QED BY <1>2, <1>3, <2>1, <3>1, ChildRow, ChildKeeps
  <2>3. q.gen = r.gen /\ q.op[s.gen] = "done" /\ q.kept = r.kept /\ q.state = "ready"
    BY <1>2, <2>1 DEF WriteBound, Finish, Closed, Row
  <2>4. Goto(a, "run") /\ Write(a, q)
    BY <1>3 DEF Bound
  <2>5. /\ sup' \in [Agents -> Sups] /\ sup'[a].gen = s.gen /\ sup'[a].at = "run"
        /\ sup'[a].from = s.from /\ db'[a] = q
    BY ZenonT(60), <1>2, <2>4 DEF Inv, TypeOK, Sups, Goto, SupAt, Write
  <2>6. SupInv(a)'
    BY <1>1, <1>2, <2>3, <2>4, <2>5 DEF SupInv, Runs
  <2>7. Only(a) /\ proc' \in Procs
    BY <1>2, <2>4 DEF Write, Only, Bound, Goto, Inv, TypeOK, Procs
  <2>8. \A h \in Gens : h = s.gen /\ Running(a, h)' => Kept(a, h)'
    BY <1>0, <2>3, <2>5 DEF Kept, Lost, Running, Bound
  <2> QED BY <1>1, <1>2, <2>2, <2>3, <2>4, <2>5, <2>6, <2>7, <2>8, MoveStep DEF Bound
<1>4. CASE ~IsOpen(r, s.gen)
  <2>1. Goto(a, "void") /\ UNCHANGED db /\ r.state \in Ended
    BY <1>2, <1>4 DEF Bound, Comes, IsOpen
  <2>2. /\ sup' \in [Agents -> Sups] /\ sup'[a].gen = s.gen /\ sup'[a].at = "void"
        /\ sup'[a].from = s.from
    BY SMTT(60), <2>1 DEF Inv, TypeOK, Sups, Goto, SupAt
  <2>3. SupInv(a)'
    BY <1>1, <1>2, <2>1, <2>2 DEF SupInv
  <2>4. Only(a) /\ proc' \in Procs /\ Write(a, r)
    BY <1>2, <2>1 DEF Write, Only, Bound, Goto, Inv, TypeOK, Procs
  <2>5. \A h \in Gens : h = s.gen /\ Running(a, h)' => Kept(a, h)'
    BY <1>0, <2>1 DEF Kept, Lost, Running, Bound
  <2> QED BY <1>1, <1>2, <2>1, <2>2, <2>3, <2>4, <2>5, MoveStep DEF Bound
<1> QED BY <1>3, <1>4

\* A confirmed kill, and what the thread knows behind it.
LEMMA KilledStep ==
  ASSUME Inv, NEW a \in Agents, sup[a].at # "none", Dead(a, sup[a].gen),
         NEW at \in SupAt \ {"none"}, NEW busy \in BOOLEAN,
         sup' = [sup EXCEPT ![a].at = at, ![a].busy = busy],
         UNCHANGED <<eng, boots, todo, db, call, lost>>, SupInv(a)'
  PROVE  Inv'
<1>1. /\ db[a] \in Row /\ RowInv(db[a]) /\ sup[a].gen \in Gens /\ sup[a].gen = db[a].gen
      /\ db \in [Agents -> Row] /\ proc \in Procs
  BY ThreadFacts DEF Inv, TypeOK, Procs
<1>2. sup' \in [Agents -> Sups] /\ sup'[a].gen = sup[a].gen /\ sup'[a].at = at
  BY ZenonT(60) DEF Inv, TypeOK, Sups
<1>3. Only(a) /\ proc' \in Procs /\ Write(a, db[a])
  BY <1>1 DEF Write, Only, Dead, Procs, Inv, TypeOK
<1>4. \A g \in Gens : IF g = sup[a].gen THEN ~Running(a, g)' ELSE proc'[a][g] = proc[a][g]
  BY <1>1 DEF Dead, Procs, Running
<1> QED BY <1>1, <1>2, <1>3, <1>4, MoveStep

LEMMA UnconfirmedStep ==
  ASSUME Inv, NEW a \in Agents, sup[a].at # "none", NEW answered, Unconfirmed(a, answered),
         UNCHANGED <<eng, boots, todo>>
  PROVE  Inv'
<1> DEFINE r == db[a]
           g == sup[a].gen
<1>1. /\ r \in Row /\ RowInv(r) /\ g \in Gens /\ g = r.gen /\ r.gen # 0 /\ ProcInv(a)
      /\ db \in [Agents -> Row] /\ proc \in Procs /\ lost \subseteq Losses
      /\ Running(a, g) /\ r.state # "orphaned"
  BY ThreadFacts DEF Inv, TypeOK, AgentInv, Procs, Losses, Unconfirmed, Running, SupInv
<1>2. PICK over \in BOOLEAN : Stores(a, OrphanAgent(r, g, over))
  BY DEF Unconfirmed
<1>3. /\ EndThread(a, answered) /\ proc' = proc
      /\ lost' = IF db' = db /\ ~Recorded(r, g) THEN lost \cup {<<a, g, "unwritten">>} ELSE lost
  BY DEF Unconfirmed
<1>4. lost \subseteq lost' /\ lost' \subseteq Losses
  BY <1>1, <1>3 DEF Losses
<1>5. CASE Write(a, OrphanAgent(r, g, over))
  <2> DEFINE q == OrphanAgent(r, g, over)
  <2>1. q \in Row /\ RowInv(q) /\ q.gen = r.gen
    BY <1>1, ChildRow, OrphanKeeps, GenStays
  <2>2. q.kept = g
    BY <1>1 DEF OrphanAgent, FinishAll, Row
  <2>3. Only(a)
    BY <1>3, <1>4, <1>5 DEF Only, Write, EndThread, Inv, TypeOK
  <2> QED BY <1>1, <1>3, <1>4, <1>5, <2>1, <2>2, <2>3, EndStep
<1>6. CASE UNCHANGED db
  <2>1. Write(a, r) /\ Only(a)
    BY <1>1, <1>3, <1>4, <1>6 DEF Only, Write, EndThread, Inv, TypeOK
  <2>2. CASE Recorded(r, g)
    <3>1. r.kept = g \/ Lost(a, g)
      BY <1>1, <2>2 DEF ProcInv, Kept
    <3>2. \A h \in Gens : h = g => r.kept = h \/ Lost(a, h)'
      BY <1>4, <3>1 DEF Lost
    <3> QED BY <1>1, <1>3, <1>4, <2>1, <3>2, EndStep
  <2>3. CASE ~Recorded(r, g)
    <3>1. <<a, g, "unwritten">> \in lost'
      BY <1>3, <1>6, <2>3
    <3>2. \A h \in Gens : h = g => Lost(a, h)'
      BY <3>1 DEF Lost
    <3> QED BY <1>1, <1>3, <1>4, <2>1, <3>2, EndStep
  <2> QED BY <2>2, <2>3
<1> QED BY <1>2, <1>5, <1>6 DEF Stores

\* A thread that ends behind a kill that may have failed, its row untouched.
LEMMA LeaveStep ==
  ASSUME Inv, NEW a \in Agents, sup[a].at # "none", NEW answered, EndThread(a, answered),
         Dead(a, sup[a].gen) \/ (UNCHANGED proc /\ Recorded(db[a], sup[a].gen)),
         UNCHANGED <<eng, boots, todo, db, lost>>
  PROVE  Inv'
<1> DEFINE g == sup[a].gen
<1>1. /\ db[a] \in Row /\ RowInv(db[a]) /\ g \in Gens /\ g = db[a].gen /\ ProcInv(a)
      /\ db \in [Agents -> Row] /\ proc \in Procs /\ lost \subseteq Losses
  BY ThreadFacts DEF Inv, TypeOK, AgentInv, Procs, Losses
<1>2. Write(a, db[a]) /\ Only(a)
  BY <1>1 DEF Only, Write, EndThread, Dead, Inv, TypeOK
<1>3. proc' \in Procs /\ (\A h \in Gens : h # g => proc'[a][h] = proc[a][h])
  BY <1>1 DEF Dead, Procs
<1>4. proc'[a][g] = "up" => db[a].kept = g \/ Lost(a, g)
  BY <1>1 DEF Dead, Procs, ProcInv, Kept, Running
<1>5. PICK h \in Gens : h = g
  BY <1>1
<1>6. Running(a, h)' => db[a].kept = h \/ Lost(a, h)'
  BY <1>4, <1>5 DEF Running, Lost
<1> QED BY <1>1, <1>2, <1>3, <1>5, <1>6, EndStep

LEMMA KillsStep ==
  ASSUME Inv, NEW a \in Agents, sup[a].at # "none", NEW answered,
         NEW at \in {"failing", "killed", "exited"}, Kills(a, at, answered),
         LET r == db[a] g == sup[a].gen
         IN  /\ at = "failing" => IsOpen(r, g) \/ r.state \in Ended
             /\ at = "killed"  => Comes(r, g) \/ Runs(r, g)
             /\ at = "exited"  => Runs(r, g),
         UNCHANGED <<eng, boots, todo>>
  PROVE  Inv'
<1>1. ASSUME Confirmed(a), Goto(a, at), UNCHANGED call PROVE Inv'
  <2> DEFINE busy == sup[a].busy
  <2>1. /\ at \in SupAt \ {"none"} /\ busy \in BOOLEAN
        /\ sup' = [sup EXCEPT ![a].at = at, ![a].busy = busy]
        /\ sup'[a].gen = sup[a].gen /\ sup'[a].from = sup[a].from /\ sup'[a].at = at
    BY <1>1 DEF SupAt, Inv, TypeOK, Goto
  <2>2. proc'[a][sup[a].gen] # "up"
    BY <1>1, ThreadFacts DEF Confirmed, Dead, Inv, TypeOK
  <2>3. SupInv(a)'
    BY <1>1, <2>1, <2>2 DEF SupInv, Confirmed, Inv, AgentInv
  <2> QED BY <1>1, <2>1, <2>3, KilledStep DEF Confirmed
<1> QED BY <1>1, UnconfirmedStep DEF Kills

LEMMA KillStep ==
  ASSUME Inv, NEW a \in Agents, Kill(a)
  PROVE  Inv'
<1> DEFINE r == db[a]
           g == sup[a].gen
<1>1. SupInv(a) /\ UNCHANGED <<eng, boots, todo>>
  BY DEF Inv, AgentInv, Kill
<1>2. CASE KillFail(a)
  <2>1. IsOpen(r, g) \/ r.state \in Ended
    BY <1>1, <1>2 DEF KillFail, At, SupInv, OpenOr, Comes, IsOpen
  <2> QED BY <1>1, <1>2, <2>1, KillsStep DEF KillFail, At
<1>3. CASE KillRetire(a)
  <2>1. Comes(r, g) \/ Runs(r, g)
    BY <1>1, <1>3 DEF KillRetire, At, SupInv
  <2> QED BY <1>1, <1>3, <2>1, KillsStep DEF KillRetire, At
<1>4. CASE KillVoid(a)
  <2>1. CASE Confirmed(a) /\ EndThread(a, FALSE)
    BY <1>1, <1>4, <2>1, LeaveStep DEF KillVoid, At, Confirmed
  <2>2. CASE Unconfirmed(a, FALSE)
    BY <1>1, <1>4, <2>2, UnconfirmedStep DEF KillVoid, At
  <2> QED BY <1>4, <2>1, <2>2 DEF KillVoid
<1>5. CASE KillExit(a)
  <2>1. Runs(r, g)
    BY <1>1, <1>5 DEF KillExit, At, SupInv
  <2> QED BY <1>1, <1>5, <2>1, KillsStep DEF KillExit, At
<1> QED BY <1>2, <1>3, <1>4, <1>5 DEF Kill

LEMMA CutStep ==
  ASSUME Inv, NEW a \in Agents, Cut(a)
  PROVE  Inv'
<1> DEFINE s == sup[a]
<1>1. SupInv(a) /\ s.at \in {"cut", "follow"} /\ Comes(db[a], s.gen) /\ s.busy \in BOOLEAN
  BY DEF Inv, AgentInv, Cut, At, SupInv, TypeOK
<1>2. Recorded(db[a], s.gen)
  BY <1>1 DEF Comes, Recorded
<1>3. ASSUME Dead(a, s.gen), s.from # "create", Goto(a, "undo"), UNCHANGED call PROVE Inv'
  <2>1. /\ sup' = [sup EXCEPT ![a].at = "undo", ![a].busy = s.busy] /\ "undo" \in SupAt \ {"none"}
        /\ sup'[a].gen = s.gen /\ sup'[a].from = s.from /\ sup'[a].at = "undo"
    <3>1. sup \in [Agents -> Sups]
      BY DEF Inv, TypeOK, Sups
    <3> QED BY <1>3, <3>1 DEF SupAt, Sups, Goto
  <2>2. proc'[a][s.gen] # "up"
    BY <1>1, <1>3, ThreadFacts DEF Dead, Inv, TypeOK
  <2>3. SupInv(a)'
    BY <1>1, <1>3, <2>1, <2>2 DEF SupInv, Cut
  <2> QED BY <1>1, <1>3, <2>1, <2>3, KilledStep DEF Cut
<1> QED BY <1>1, <1>2, <1>3, LeaveStep DEF Cut

LEMMA RunShutdownStep ==
  ASSUME Inv, NEW a \in Agents, RunShutdown(a)
  PROVE  Inv'
<1>1. sup[a].at = "run" /\ Recorded(db[a], sup[a].gen)
  BY DEF Inv, AgentInv, SupInv, Runs, Recorded, RunShutdown, At
<1> QED BY <1>1, LeaveStep DEF RunShutdown

LEMMA RunDrainStep ==
  ASSUME Inv, NEW a \in Agents, RunDrain(a)
  PROVE  Inv'
<1> DEFINE s == sup[a]
<1>1. s.at = "run" /\ Recorded(db[a], s.gen) /\ Runs(db[a], s.gen) /\ SupInv(a)
  BY DEF Inv, AgentInv, SupInv, Runs, Recorded, RunDrain, At
<1>2. ASSUME NEW busy \in BOOLEAN, Dead(a, s.gen), UNCHANGED call,
             sup' = [sup EXCEPT ![a].at = "drained", ![a].busy = busy]
      PROVE  Inv'
  <2>1. /\ "drained" \in SupAt \ {"none"}
        /\ sup'[a].gen = s.gen /\ sup'[a].from = s.from /\ sup'[a].at = "drained"
    BY <1>2 DEF SupAt, Inv, TypeOK
  <2>2. proc'[a][s.gen] # "up"
    BY <1>1, <1>2, ThreadFacts DEF Dead, Inv, TypeOK
  <2>3. SupInv(a)'
    BY <1>1, <1>2, <2>1, <2>2 DEF SupInv, RunDrain
  <2> QED BY <1>1, <1>2, <2>1, <2>3, KilledStep DEF RunDrain
<1>3. ASSUME UNCHANGED proc, EndThread(a, FALSE) PROVE Inv'
  BY <1>1, <1>3, LeaveStep DEF RunDrain
<1> QED BY <1>2, <1>3 DEF RunDrain

LEMMA WriteEndStep ==
  ASSUME Inv, NEW a \in Agents, WriteEnd(a)
  PROVE  Inv'
<1> DEFINE s == sup[a]
           r == db[a]
           e == Epilogue(a)
<1>1. /\ r \in Row /\ RowInv(r) /\ r.gen # 0 /\ s.gen \in Gens /\ s.gen = r.gen
      /\ SupInv(a) /\ r.state # "orphaned" /\ s.busy \in BOOLEAN
      /\ s.at \in {"failing", "killed", "exited", "drained", "undo"}
  BY ThreadFacts DEF WriteEnd, Inv, TypeOK, AgentInv, SupInv
<1>2. ~IsOpen(r, s.gen) => ~AnyOpen(r)
  BY <1>1, Finished DEF AnyOpen
<1>3. e \in Row /\ RowInv(e) /\ e.gen = r.gen
  <2>1. CASE s.at = "failing"
    BY <2>1, FailCreateRow DEF Epilogue
  <2>2. CASE s.at = "killed"
    <3>1. TRUE \in BOOLEAN OBVIOUS
    <3> QED BY <1>1, <2>2, <3>1, RetireKeeps, EndedRow, GenStays DEF Epilogue
  <2>3. CASE s.at = "exited"
    <3>1. ~AnyOpen(r) /\ TRUE \in BOOLEAN
      BY <1>1, <1>2, <2>3 DEF SupInv, Runs, IsOpen
    <3> QED BY <1>1, <2>3, <3>1, EndKeeps, EndedRow, GenStays DEF Epilogue
  <2>4. CASE s.at = "drained"
    <3>1. ~AnyOpen(r)
      BY <1>1, <1>2, <2>4 DEF SupInv, Runs, IsOpen
    <3> QED BY <1>1, <2>4, <3>1, SettleKeeps, ChildRow, GenStays DEF Epilogue
  <2>5. CASE s.at = "undo"
    BY <1>1, <2>5, UndoRow DEF Epilogue, SupInv
  <2> QED BY <1>1, <2>1, <2>2, <2>3, <2>4, <2>5
<1>4. proc[a][s.gen] # "up"
  BY <1>1 DEF SupInv
<1> QED BY <1>1, <1>3, <1>4, EndStores DEF WriteEnd

\* A step of an agent that leaves its invariant true.
LEMMA OneStep ==
  ASSUME Inv, TypeOK', NEW a \in Agents, Only(a), AgentInv(a)'
  PROVE  Inv'
BY OthersStay DEF Inv

LEMMA TurnStep ==
  ASSUME Inv, NEW a \in Agents, Turn(a)
  PROVE  Inv'
<1> DEFINE s == sup[a]
           r == db[a]
           to == IF r.state = "ready" THEN "working" ELSE "ready"
           q == [r EXCEPT !.state = to]
<1>1. /\ r \in Row /\ RowInv(r) /\ s.gen \in Gens /\ s.gen = r.gen /\ SupInv(a) /\ ProcInv(a)
      /\ sup \in [Agents -> Sups] /\ proc \in Procs /\ r.state \in {"ready", "working"}
      /\ s.at \in {"run", "exited", "killed", "drained"} /\ db \in [Agents -> Row]
  BY ThreadFacts DEF Turn, Inv, TypeOK, AgentInv, Sups, Procs
<1>2. q \in Row /\ RowInv(q) /\ q.gen = r.gen /\ q.op = r.op /\ q.kept = r.kept
      /\ q.state \in {"ready", "working"}
  BY <1>1 DEF Row, RowInv, States, Resting, Active
<1>3. Write(a, q)
  BY DEF Turn
<1>4. db'[a] = q /\ Only(a)
  BY <1>1, <1>3 DEF Turn, Only, Write
<1>5. SupInv(a)'
  BY <1>1, <1>2, <1>4 DEF SupInv, Turn, Runs, Comes
<1>6. \A h \in Gens : h = s.gen /\ Running(a, h)' => Kept(a, h)'
  BY <1>1, <1>2, <1>4 DEF ProcInv, Kept, Running, Recorded, Lost, Turn
<1> QED
  BY <1>1, <1>2, <1>3, <1>4, <1>5, <1>6, MoveStep DEF Turn

LEMMA DiesStep ==
  ASSUME Inv, NEW a \in Agents, Dies(a)
  PROVE  Inv'
<1>1. PICK g \in Gens : proc[a][g] = "up" /\ Dead(a, g)
  BY DEF Dies
<1>2. TypeOK' /\ Only(a)
  BY <1>1 DEF Dies, Dead, Inv, TypeOK, Only
<1>3. /\ proc'[a][g] = "gone"
      /\ \A h \in Gens : h # g => proc'[a][h] = proc[a][h]
  BY <1>1 DEF Dead, Inv, TypeOK
<1>4. RowInv(db[a])' /\ EngInv(a)'
  BY DEF Dies, Inv, AgentInv, RowInv, EngInv, AnyOpen, IsOpen, Holds
<1>5. ProcInv(a)'
  BY <1>1, <1>3 DEF Dies, Inv, AgentInv, ProcInv, Running, Kept, Lost, Recorded
<1>6. SupInv(a)'
  <2>1. sup[a].at # "none" => sup[a].gen \in Gens
    BY ThreadFacts
  <2>2. sup[a].at # "none" => proc'[a][sup[a].gen] \in {proc[a][sup[a].gen], "gone"}
    BY <1>3, <2>1
  <2>3. sup[a].at \in {"begin", "checked"} => g # sup[a].gen
    BY <1>1 DEF Inv, AgentInv, SupInv
  <2>4. sup[a].at \in {"begin", "checked"} => proc'[a][sup[a].gen] = "none"
    BY <1>3, <2>1, <2>3 DEF Inv, AgentInv, SupInv
  <2> QED
    BY <2>2, <2>4 DEF Dies, Inv, AgentInv, SupInv, OpenOr, Comes, Runs, Recorded, IsOpen, Origin
<1>7. CallInv(a)'
  <2> DEFINE c == call[a]
  <2>1. CallInv(a) /\ db[a] \in Row
    BY DEF Inv, AgentInv, TypeOK
  <2>2. c.pc \in {"create", "resume"} => c.gen \in Gens /\ proc'[a][c.gen] = "none"
    BY <1>1, <1>3, <2>1 DEF CallInv, Row, Gens
  <2> QED BY <2>1, <2>2 DEF Dies, CallInv, Origin
<1> QED BY <1>2, <1>4, <1>5, <1>6, <1>7, OneStep DEF AgentInv

-----------------------------------------------------------------------------
(* Steps of the calls.                                                     *)

\* What a call can rely on.
LEMMA CallFacts ==
  ASSUME Inv, NEW a \in Agents
  PROVE  /\ db[a] \in Row /\ db \in [Agents -> Row] /\ RowInv(db[a])
         /\ call[a] \in Calls /\ call \in [Agents -> Calls]
         /\ ProcInv(a) /\ SupInv(a) /\ CallInv(a) /\ EngInv(a)
         /\ call[a].pc # "none" \/ Up => eng # "down" /\ eng # "reconcile"
         /\ call[a].pc # "none" \/ Up => ~(eng = "resume" /\ a \in todo)
BY DEF Inv, TypeOK, AgentInv, Calls, EngInv, Holds, Up

\* What says nothing of a call, or of the engine, is kept where its state is.
LEMMA Untouched ==
  ASSUME NEW a \in Agents, RowInv(db[a]), ProcInv(a), SupInv(a), UNCHANGED <<db, proc, sup, lost>>
  PROVE  RowInv(db[a])' /\ ProcInv(a)' /\ SupInv(a)'
<1>1. RowInv(db[a])'
  BY DEF RowInv, IsOpen
<1>2. ProcInv(a)'
  BY DEF ProcInv, Running, Kept, Lost, Recorded
<1>3. SupInv(a)'
  BY DEF SupInv, OpenOr, Comes, Runs, IsOpen, Origin, Recorded
<1> QED BY <1>1, <1>2, <1>3

\* A call goes on, and touches nothing else.
LEMMA GoStep ==
  ASSUME Inv, NEW a \in Agents, NEW c \in Calls, call' = [call EXCEPT ![a] = c], CallInv(a)',
         c # NoCall => call[a].pc # "none" \/ Up,
         UNCHANGED <<eng, boots, todo, db, proc, sup, lost>>
  PROVE  Inv'
<1>1. TypeOK' /\ Only(a)
  BY DEF Inv, TypeOK, Only, Calls
<1>2. call'[a] = c
  BY CallFacts
<1>3. EngInv(a)'
  BY <1>2, CallFacts DEF EngInv, Holds, NoCall, AnyOpen, IsOpen
<1>4. RowInv(db[a])' /\ ProcInv(a)' /\ SupInv(a)'
  BY CallFacts, Untouched
<1> QED BY <1>1, <1>3, <1>4, OneStep DEF AgentInv

LEMMA PcStep ==
  ASSUME Inv, NEW a \in Agents, NEW pc \in {"retire", "asked", "idle", "bury", "orphan"},
         CallGoto(a, pc), db[a].state # "none", pc = "orphan" => db[a].state = "orphaned",
         call[a].pc # "none" \/ Up,
         UNCHANGED <<eng, boots, todo, db, proc, sup, lost>>
  PROVE  Inv'
<1> DEFINE c == [call[a] EXCEPT !.pc = pc]
<1>1. c \in Calls /\ call' = [call EXCEPT ![a] = c] /\ c.pc = pc
  BY CallFacts DEF Calls, CallPc, CallGoto
<1>2. call'[a] = c
  BY <1>1, CallFacts
<1>3. CallInv(a)'
  BY <1>1, <1>2 DEF CallInv
<1> QED BY <1>1, <1>3, GoStep

LEMMA PlanResumeStep ==
  ASSUME Inv, NEW a \in Agents, PlanResume(a)
  PROVE  Inv'
<1> DEFINE c == [pc |-> "plan", gen |-> 0, from |-> db[a].state]
<1>1. c \in Calls /\ call' = [call EXCEPT ![a] = c]
  BY Numbers DEF Calls, CallPc, PlanResume
<1>2. call'[a] = c
  BY <1>1, CallFacts
<1>3. CallInv(a)'
  BY <1>2 DEF CallInv, PlanResume
<1> QED BY <1>1, <1>3, GoStep DEF PlanResume

LEMMA RetireSteps ==
  ASSUME Inv, NEW a \in Agents, Retire(a) \/ Sweep(a) \/ RetireLive(a) \/ RetireIdle(a)
  PROVE  Inv'
<1>1. CASE Retire(a) \/ Sweep(a)
  <2>1. Up /\ StartRetire(a)
    BY <1>1 DEF Retire, Sweep, Up
  <2>2. db[a].state # "none"
    BY <2>1 DEF StartRetire, LiveRow
  <2> QED BY <2>1, <2>2, PcStep DEF StartRetire
<1>2. CASE RetireLive(a)
  <2>1. PICK pc \in {"asked", "idle"} : CallGoto(a, pc)
    BY <1>2 DEF RetireLive
  <2> QED BY <1>2, <2>1, CallFacts, PcStep DEF RetireLive, Holds, CallInv
<1>3. CASE RetireIdle(a)
  <2>1. PICK pc \in {"orphan", "bury"} : CallGoto(a,
         pc) /\ (pc = "orphan" => db[a].state = "orphaned")
    BY <1>3 DEF RetireIdle
  <2> QED BY <1>3, <2>1, CallFacts, PcStep DEF RetireIdle, Holds, CallInv
<1> QED BY <1>1, <1>2, <1>3

\* A call that writes the row of an agent without a thread, and lets go.
LEMMA RestStep ==
  ASSUME Inv, NEW a \in Agents, Release(a), NEW r \in Row, RowInv(r), Write(a, r),
         sup[a].at = "none", call[a].pc # "none", r.gen = db[a].gen,
         NEW h \in Gens, h = r.gen, sup' = sup, Only(a), boots' = boots, todo' = todo,
               proc' \in Procs,
         lost' \subseteq Losses,
         \A g \in Gens : g # h => proc'[a][g] = proc[a][g],
         Running(a, h)' => r.kept = h \/ Lost(a, h)'
  PROVE  Inv'
<1>1. NoCall \in Calls
  BY Numbers DEF NoCall, Calls, CallPc
<1>2. db' \in [Agents -> Row] /\ db'[a] = r /\ call' \in [Agents -> Calls] /\ call'[a] = NoCall
  BY <1>1, CallFacts DEF Write, Release
<1>3. TypeOK'
  BY <1>2 DEF Inv, TypeOK, Only, Procs, Losses, Calls
<1>4. ProcInv(a)'
  <2>1. \A g \in Gens : Lost(a, g) => Lost(a, g)'
    BY DEF Only, Lost
  <2>2. r.gen \in Nat /\ Gens \subseteq Nat
    BY Numbers DEF Row, Gens
  <2> QED BY <1>2, <2>1, <2>2, CallFacts DEF ProcInv, Running, Kept
<1>5. SupInv(a)' /\ CallInv(a)'
  BY <1>2 DEF SupInv, CallInv, NoCall
<1>6. EngInv(a)'
  BY CallFacts DEF EngInv, Only
<1> QED BY <1>2, <1>3, <1>4, <1>5, <1>6, OneStep DEF AgentInv, RowInv

LEMMA RetiredRow ==
  ASSUME NEW r \in Row, RowInv(r), r.gen # 0
  PROVE  LET q == RetireTx(r) IN
         /\ q \in Row /\ RowInv(q) /\ q.gen = r.gen /\ q.state \in Ended /\ q.kept = 0
         /\ q.op[r.gen] = Closed(r.op[r.gen])
<1> DEFINE q == RetireTx(r)
<1>1. q \in Row /\ RowInv(q) /\ r.gen \in Gens
  BY RetireKeeps, EndedRow, Finished
<1>2. CASE r.state \in Ended
  BY <1>1, <1>2 DEF RetireTx, RowInv, Closed, Ended, Resting, Active
<1>3. CASE r.state \notin Ended
  <2>1. q = [Forget(Finish(r, r.gen)) EXCEPT !.state = "retired"]
    BY <1>3, Finished DEF RetireTx
  <2> QED BY <1>1, <2>1, Finished DEF Finish, Forget, Row, Ended
<1> QED BY <1>1, <1>2, <1>3

LEMMA BuryStep ==
  ASSUME Inv, NEW a \in Agents, Bury(a)
  PROVE  Inv'
<1> DEFINE r == db[a]
           s == sup[a]
           q == RetireTx(r)
<1>1. /\ r \in Row /\ RowInv(r) /\ CallInv(a) /\ ProcInv(a) /\ SupInv(a) /\ call[a].pc = "bury"
      /\ proc \in Procs /\ lost \subseteq Losses /\ db \in [Agents -> Row]
      /\ call \in [Agents -> Calls]
  BY CallFacts DEF Bury, Holds, Inv, TypeOK, Procs, Losses
<1>2. r.gen # 0 /\ r.gen \in Gens
  BY <1>1 DEF CallInv, RowInv, Row, Gens
<1>3. q \in Row /\ RowInv(q) /\ q.gen = r.gen /\ q.state \in Ended /\ q.kept = 0
      /\ q.op[r.gen] = Closed(r.op[r.gen])
  BY <1>1, <1>2, RetiredRow
<1>4. db'[a] = q /\ Only(a) /\ lost' \subseteq Losses
  BY <1>1, <1>2 DEF Bury, Write, Release, Only, Losses, Row, RowInv
<1>0. PICK h \in Gens : h = r.gen
  BY <1>2
<1>5. r.kept = h => Lost(a, h)'
  <2>1. r.kept = h => r.kept # 0 /\ r.state \notin Ended
    BY <1>0, <1>1, <1>2 DEF RowInv, Ended, Active
  <2>2. r.kept = h => <<a, h, "buried">> \in lost'
    BY <2>1 DEF Bury
  <2> QED BY <2>2 DEF Lost
<1>6. Running(a, h)' => \/ s.at # "none" /\ ~Recorded(r, h)
                        \/ Lost(a, h)'
  <2>1. Running(a, h)' => Running(a, h)
    BY DEF Running, Bury
  <2>2. Lost(a, h) => Lost(a, h)'
    BY <1>4 DEF Only, Lost
  <2> QED BY <1>0, <1>1, <1>5, <2>1, <2>2 DEF ProcInv, Kept
<1>7. CASE s.at = "none"
  BY <1>0, <1>1, <1>2, <1>3, <1>4, <1>6, <1>7, RestStep DEF Bury, Running
<1>8. CASE s.at # "none"
  <2>1. TypeOK'
    <3>1. NoCall \in Calls BY Numbers DEF NoCall, Calls, CallPc
    <3> QED BY <1>1, <1>3, <1>4, <3>1 DEF Inv, TypeOK, Bury, Write, Release, Losses, Calls
  <2>2. SupInv(a)'
    BY <1>1, <1>3, <1>4, <1>8 DEF SupInv, Bury, OpenOr, Comes, Runs, Recorded, IsOpen, Closed,
          Ended
  <2>3. CallInv(a)'
    BY <1>1 DEF Bury, Release, CallInv, NoCall
  <2>4. EngInv(a)'
    BY <1>8, ThreadFacts DEF EngInv, Bury
  <2>5. ProcInv(a)'
    <3>1. \A g \in Gens : Lost(a, g) => Lost(a, g)'
      BY <1>4 DEF Only, Lost
    <3>2. s.gen = h /\ (~Recorded(r, h) => ~Recorded(q, h))
      BY <1>0, <1>3, <1>8, ThreadFacts DEF Recorded, Closed
    <3>3. Running(a, h)' => Kept(a, h)'
      BY <1>4, <1>6, <1>8, <3>2 DEF Kept, Bury
    <3> QED BY <1>0, <1>1, <1>3, <1>4, <3>1, <3>3 DEF ProcInv, Running, Bury
  <2> QED BY <1>3, <1>4, <2>1, <2>2, <2>3, <2>4, <2>5, OneStep DEF AgentInv, RowInv
<1> QED BY <1>7, <1>8

LEMMA RetireOrphanStep ==
  ASSUME Inv, NEW a \in Agents, RetireOrphan(a)
  PROVE  Inv'
<1> DEFINE r == db[a]
<1>1. /\ r \in Row /\ RowInv(r) /\ CallInv(a) /\ ProcInv(a) /\ SupInv(a) /\ call[a].pc = "orphan"
      /\ proc \in Procs /\ lost \subseteq Losses /\ db \in [Agents -> Row]
      /\ call \in [Agents -> Calls] /\ r.state = "orphaned" /\ sup[a].at = "none"
  BY CallFacts DEF RetireOrphan, Holds, Inv, TypeOK, Procs, Losses, CallInv, SupInv
<1>2. r.gen # 0 /\ r.gen \in Gens /\ r.kept = r.gen
  BY <1>1 DEF RowInv, Row, Gens
<1>3. PICK killed, over, force \in BOOLEAN :
         /\ ~killed => r.kept # 0 /\ proc[a][r.kept] = "up"
         /\ proc' = IF killed /\ r.kept # 0
                    THEN [proc EXCEPT ![a][r.kept] = IF @ = "up" THEN "gone" ELSE @]
                    ELSE proc
         /\ IF force \/ (killed /\ ~r.over)
            THEN /\ Write(a, RetireTx(r))
                 /\ lost' = IF ~killed THEN lost \cup {<<a, r.kept, "forced">>} ELSE lost
            ELSE /\ Write(a, [r EXCEPT !.over = @ \/ over])
                 /\ UNCHANGED lost
  BY DEF RetireOrphan
<1>0. PICK h \in Gens : h = r.gen
  BY <1>2
<1>4. /\ proc' \in Procs
      /\ \A g \in Gens : g # h => proc'[a][g] = proc[a][g]
      /\ killed => proc'[a][h] # "up"
      /\ lost \subseteq lost' /\ lost' \subseteq Losses
  BY <1>0, <1>1, <1>2, <1>3 DEF Procs, Losses
<1>5. CASE force \/ (killed /\ ~r.over)
  <2> DEFINE q == RetireTx(r)
  <2>1. q \in Row /\ RowInv(q) /\ q.gen = r.gen /\ Write(a, q)
    BY <1>1, <1>2, <1>3, <1>5, RetiredRow
  <2>2. ~killed => <<a, h, "forced">> \in lost'
    BY <1>0, <1>2, <1>3, <1>5
  <2>3. Running(a, h)' => Lost(a, h)'
    BY <1>4, <2>2 DEF Running, Lost
  <2>4. Only(a)
    BY <1>1, <1>3, <1>4, <2>1 DEF Only, Write, RetireOrphan, Release, Procs
  <2> QED BY <1>0, <1>1, <1>2, <1>4, <2>1, <2>3, <2>4, RestStep DEF RetireOrphan
<1>6. CASE ~(force \/ (killed /\ ~r.over))
  <2> DEFINE q == [r EXCEPT !.over = r.over \/ over]
  <2>1. q \in Row /\ RowInv(q) /\ q.gen = r.gen /\ q.kept = r.gen
    BY <1>1, <1>2 DEF Row, RowInv
  <2>2. Write(a, q)
    BY <1>3, <1>6
  <2>3. Only(a)
    BY <1>1, <1>3, <1>4, <2>2 DEF Only, Write, RetireOrphan, Release, Procs
  <2>4. q.kept = q.gen
    BY <2>1
  <2> QED BY <1>0, <1>1, <1>2, <1>4, <2>1, <2>2, <2>3, <2>4, RestStep DEF RetireOrphan
<1> QED BY <1>5, <1>6

\* write_resume, of a client and of a boot: the next generation of a row at
\* rest begins, and no thread is left of the one before.
LEMMA BeginStep ==
  ASSUME Inv, NEW a \in Agents, NEW from \in Resting, CanResume(a, from),
         db[a].gen < MaxGen, Write(a, Begin(db[a])),
         NEW c \in Calls, c.pc = "resume", c.gen = db[a].gen + 1, c.from = from,
         call' = [call EXCEPT ![a] = c],
         todo' \subseteq todo, a \notin todo' \/ eng # "resume", eng \notin {"down", "reconcile"},
         \A b \in Agents : b # a => (b \in todo' <=> b \in todo),
         UNCHANGED <<eng, boots, proc, sup, lost>>
  PROVE  Inv'
<1> DEFINE r == db[a]
           q == Begin(r)
           n == r.gen + 1
<1>1. /\ r \in Row /\ RowInv(r) /\ ProcInv(a) /\ SupInv(a) /\ db \in [Agents -> Row]
      /\ call \in [Agents -> Calls] /\ r.state \in Resting /\ ~AnyOpen(r)
  BY CallFacts DEF CanResume
<1>2. q \in Row /\ RowInv(q) /\ n \in Gens /\ r.gen \in Gens
  <2>1. 1 \in Gens BY Numbers
  <2>2. n \in Gens /\ r.gen \in Gens
    BY <1>1, Numbers DEF Row, Gens, RowInv, Resting
  <2>3. q \in Row
    BY <1>1, <2>1, BootRow
  <2>4. RowInv(q)
    BY <1>1, BeginKeeps
  <2> QED BY <2>2, <2>3, <2>4
<1>3. q.gen = n /\ q.op = [r.op EXCEPT ![n] = "row"] /\ q.state = r.state
  BY <1>1, <1>2 DEF Begin, Row
<1>4. db' \in [Agents -> Row] /\ db'[a] = q /\ call'[a] = c
  BY <1>1, <1>2 DEF Write
<1>5. sup[a].at = "none"
  <2> SUFFICES ASSUME sup[a].at # "none" PROVE FALSE
    OBVIOUS
  <2>1. sup[a].gen = r.gen /\ ~IsOpen(r, r.gen)
    BY <1>1, <1>2, ThreadFacts DEF AnyOpen
  <2> QED BY <1>1, <2>1 DEF SupInv, OpenOr, Comes, Runs, IsOpen, Ended, Resting, Inv, TypeOK,
         SupAt
<1>6. \A g \in Gens : proc[a][g] = "up" => Lost(a, g) /\ g < n
  <2>1. r.kept = 0 /\ r.gen \in Nat /\ Gens \subseteq Nat \ {0}
    BY <1>1, <1>2, Numbers DEF RowInv, Resting, Active, Gens
  <2> QED BY <1>1, <1>5, <2>1 DEF ProcInv, Kept, Running
<1>7. TypeOK'
  BY <1>1, <1>4 DEF Inv, TypeOK, Calls
<1>8. Only(a)
  BY <1>1 DEF Only, Write
<1>9. ProcInv(a)'
  <2>1. n \in Nat /\ r.gen \in Nat /\ Gens \subseteq Nat
    BY <1>2, Numbers DEF Gens
  <2>2. \A g \in Gens : Lost(a, g) => Lost(a, g)'
    BY DEF Lost
  <2> QED BY <1>1, <1>3, <1>4, <1>6, <2>1, <2>2 DEF ProcInv, Running, Kept
<1>10. SupInv(a)' /\ EngInv(a)'
  BY <1>5 DEF SupInv, EngInv
<1>11. CallInv(a)'
  <2>1. proc[a][n] = "none"
    BY <1>1, <1>2, Numbers DEF ProcInv, Gens
  <2>2. n # 1 /\ from # "create" /\ n # 0
    BY <1>2, Numbers DEF Gens, Resting
  <2>3. q.op[n] = "row"
    BY <1>1, <1>2, <1>3 DEF Row
  <2>4. call'[a].pc = "resume" /\ call'[a].gen = n /\ call'[a].from = from
    BY <1>4
  <2> QED BY <1>3, <1>4, <1>5, <2>1, <2>2, <2>3, <2>4 DEF CallInv, Origin
<1> QED BY <1>2, <1>4, <1>7, <1>8, <1>9, <1>10, <1>11, OneStep DEF AgentInv, RowInv

LEMMA WriteResumeStep ==
  ASSUME Inv, NEW a \in Agents, WriteResume(a)
  PROVE  Inv'
<1>0. PICK from \in Resting : from = call[a].from
  BY CallFacts DEF WriteResume, Holds, CallInv
<1>1. /\ call[a].pc = "plan" /\ db[a].gen < MaxGen /\ call[a] \in Calls
      /\ call \in [Agents -> Calls] /\ eng \notin {"down", "reconcile"}
      /\ ~(eng = "resume" /\ a \in todo)
  BY CallFacts DEF WriteResume, Holds, CallInv
<1>2. CASE /\ CanResume(a, from) /\ Write(a, Begin(db[a]))
           /\ call' = [call EXCEPT ![a].pc = "resume", ![a].gen = db[a].gen + 1]
  <2>1. PICK c : c = [call[a] EXCEPT !.pc = "resume", !.gen = db[a].gen + 1]
    OBVIOUS
  <2>2. call' = [call EXCEPT ![a] = c]
    BY <1>1, <1>2, <2>1
  <2>3. db[a].gen + 1 \in 0 .. MaxGen
    BY <1>1, Numbers, CallFacts DEF Row
  <2>4. c \in Calls /\ c.pc = "resume" /\ c.gen = db[a].gen + 1 /\ c.from = from
    BY <1>0, <1>1, <2>1, <2>3 DEF Calls, CallPc
  <2>5. /\ todo' \subseteq todo /\ (a \notin todo' \/ eng # "resume")
        /\ \A b \in Agents : b # a => (b \in todo' <=> b \in todo)
        /\ UNCHANGED <<eng, boots, proc, sup, lost>>
    BY <1>1 DEF WriteResume
  <2>6. CanResume(a, from) /\ Write(a, Begin(db[a]))
    BY <1>2
  <2> QED BY <1>1, <2>2, <2>4, <2>5, <2>6, BeginStep
<1>3. CASE Release(a) /\ UNCHANGED db
  <2>1. NoCall \in Calls BY Numbers DEF NoCall, Calls, CallPc
  <2>2. CallInv(a)'
    BY <1>1, <1>3 DEF Release, CallInv, NoCall
  <2> QED BY <1>3, <2>1, <2>2, GoStep DEF WriteResume, Release
<1> QED BY <1>0, <1>2, <1>3 DEF WriteResume

LEMMA CreateRowStep ==
  ASSUME Inv, NEW a \in Agents, NEW p \in Agents \cup {NoAgent}, CreateRow(a, p)
  PROVE  Inv'
<1> DEFINE q == Begin([NoRow EXCEPT !.state = "creating", !.parent = p])
           c == [pc |-> "create", gen |-> 1, from |-> "create"]
<1>1. /\ db[a] \in Row /\ RowInv(db[a]) /\ ProcInv(a) /\ SupInv(a) /\ db \in [Agents -> Row]
      /\ call \in [Agents -> Calls] /\ db[a].state = "none" /\ sup[a].at = "none"
      /\ eng \notin {"down", "reconcile", "resume"}
  BY CallFacts DEF CreateRow, SupInv, Up
<1>2. q \in Row /\ RowInv(q) /\ 1 \in Gens
  BY NewRow, NewKeeps, Numbers
<1>3. q.gen = 1 /\ q.op[1] = "row" /\ q.state = "creating"
  BY <1>2 DEF Begin, NoRow
<1>4. c \in Calls /\ call' = [call EXCEPT ![a] = c] /\ Write(a, q)
  BY Numbers DEF Calls, CallPc, CreateRow, Gens
<1>5. db' \in [Agents -> Row] /\ db'[a] = q /\ call'[a] = c /\ call' \in [Agents -> Calls]
  BY <1>1, <1>2, <1>4 DEF Write
<1>6. TypeOK'
  BY <1>5 DEF Inv, TypeOK, Calls, CreateRow
<1>7. Only(a)
  BY <1>1, <1>4 DEF Only, Write, CreateRow
<1>8. \A g \in Gens : proc[a][g] = "none"
  BY <1>1, Numbers DEF ProcInv, RowInv, Gens
<1>9. ProcInv(a)'
  BY <1>8 DEF ProcInv, Running, CreateRow
<1>10. SupInv(a)' /\ EngInv(a)'
  BY <1>1 DEF SupInv, EngInv, CreateRow
<1>11. CallInv(a)'
  BY <1>1, <1>2, <1>3, <1>5, <1>8 DEF CallInv, Origin, CreateRow
<1> QED BY <1>2, <1>5, <1>6, <1>7, <1>9, <1>10, <1>11, OneStep DEF AgentInv, RowInv

LEMMA SuperviseStep ==
  ASSUME Inv, NEW a \in Agents, Supervise(a)
  PROVE  Inv'
<1> DEFINE r == db[a]
           c == call[a]
           f == Finish(r, c.gen)
<1>1. /\ r \in Row /\ RowInv(r) /\ ProcInv(a) /\ SupInv(a) /\ CallInv(a) /\ EngInv(a)
      /\ db \in [Agents -> Row] /\ call \in [Agents -> Calls] /\ c \in Calls
      /\ sup \in [Agents -> Sups] /\ proc \in Procs /\ lost \subseteq Losses
      /\ c.pc \in {"create", "resume"} /\ Release(a)
      /\ UNCHANGED <<eng, boots, todo, proc, lost>>
  BY CallFacts DEF Supervise, Inv, TypeOK, Sups, Procs, Losses
<1>2. /\ c.gen = r.gen /\ r.gen # 0 /\ r.gen \in Gens /\ r.op[r.gen] = "row"
      /\ sup[a].at = "none" /\ proc[a][r.gen] = "none" /\ Origin(c.from, r.gen)
      /\ c.pc = "create" <=> c.from = "create"
      /\ eng \notin {"down", "reconcile"} /\ ~(eng = "resume" /\ a \in todo)
  BY <1>1, Finished, CallFacts DEF CallInv
<1>3. r.state \notin {"orphaned", "none"}
  BY <1>1, <1>2 DEF RowInv, Resting
<1>4. c.from # "create" => r.gen > 1 /\ c.from \in Resting
  BY <1>1, <1>2, Numbers DEF Origin, Gens, Calls
<1>5. f \in Row /\ f.gen = r.gen
  <2>1. TRUE \in BOOLEAN OBVIOUS
  <2> QED BY <1>1, <1>2, <2>1, ClosedRow, GenStays
<1>6. ASSUME NEW q \in Row, RowInv(q), q.gen = r.gen, Stores(a, q), UNCHANGED sup
      PROVE  Inv'
  <2>1. PICK h \in Gens : h = r.gen
    BY <1>2
  <2>2. ~Running(a, h)'
    BY <1>1, <1>2, <2>1 DEF Running
  <2>3. PICK z \in Row : RowInv(z) /\ z.gen = r.gen /\ Write(a, z)
    <3>1. CASE Write(a, q)
      BY <1>6, <3>1
    <3>2. CASE UNCHANGED db
      BY <1>1, <3>2 DEF Write
    <3> QED BY <1>6, <3>1, <3>2 DEF Stores
  <2>4. Only(a)
    BY <1>1, <1>6, <2>3 DEF Only, Write, Release
  <2> QED BY <1>1, <1>2, <1>6, <2>1, <2>2, <2>3, <2>4, RestStep
<1>7. CASE Draining \/ Stopping \/ sup[a].at # "none"
  <2>1. TRUE \in BOOLEAN OBVIOUS
  <2>2. CASE Draining /\ c.pc = "create"
    <3>1. Stores(a, r) /\ UNCHANGED sup
      BY <1>1, <1>7, <2>2 DEF Supervise, Stores, Write
    <3> QED BY <1>1, <1>6, <3>1
  <2>3. CASE Draining /\ c.pc # "create"
    <3>1. Stores(a, UndoResume(r, r.gen, c.from)) /\ UNCHANGED sup
      BY <1>2, <1>7, <2>3 DEF Supervise
    <3>2. c.from \in Resting /\ r.gen > 1
      BY <1>2, <1>4, <2>3
    <3>3. UndoResume(r, r.gen, c.from) \in Row
      BY <1>1, <1>2, <3>2, ResumeRow
    <3>4. RowInv(UndoResume(r, r.gen, c.from))
      BY <1>1, <1>2, <3>2, ResumeKeeps
    <3>5. UndoResume(r, r.gen, c.from).gen = r.gen
      BY ZenonT(60), <1>1, <1>2, <2>1, GenStays
    <3> QED BY <1>6, <3>1, <3>3, <3>4, <3>5
  <2>4. CASE ~Draining /\ c.pc = "create"
    <3>1. Stores(a, FailAgent(f)) /\ UNCHANGED sup
      BY <1>7, <2>4 DEF Supervise
    <3>2. RowInv(FailAgent(f))
      BY <1>1, <1>2, <1>3, EndKeeps
    <3> QED BY <1>2, <1>5, <1>6, <2>1, <3>1, <3>2, EndedRow, GenStays
  <2>5. CASE ~Draining /\ c.pc # "create"
    <3>1. Stores(a, ResumeFailed(f, c.from)) /\ UNCHANGED sup
      BY <1>7, <2>5 DEF Supervise
    <3>2. RowInv(ResumeFailed(f, c.from))
      BY <1>1, <1>2, <1>4, <2>5, ResumeKeeps
    <3>3. ResumeFailed(f, c.from) \in Row
      BY <1>2, <1>5, ResumeRow
    <3>4. ResumeFailed(f, c.from).gen = r.gen
      BY <1>2, <1>5, <2>1, GenStays
    <3> QED BY <1>6, <3>1, <3>2, <3>3, <3>4
  <2> QED BY <2>2, <2>3, <2>4, <2>5
<1>8. CASE ~(Draining \/ Stopping \/ sup[a].at # "none")
  <2> DEFINE t == [NoSup EXCEPT !.at = "begin", !.gen = c.gen, !.from = c.from]
  <2>1. /\ t.at = "begin" /\ t.gen = r.gen /\ t.from = c.from /\ t \in Sups
        /\ NoCall \in Calls
    BY <1>1, <1>2, Numbers DEF NoSup, Sups, Calls, SupAt, CallPc, NoCall
  <2>2. sup' = [sup EXCEPT ![a] = t] /\ UNCHANGED db
    BY <1>8 DEF Supervise
  <2>3. sup'[a] = t /\ call'[a] = NoCall /\ db' = db
    BY <1>1, <2>2 DEF Release
  <2>4. TypeOK'
    BY <1>1, <2>1, <2>2 DEF Inv, TypeOK, Sups, Calls, Release
  <2>5. Only(a)
    BY <1>1, <2>2 DEF Only, Release
  <2>6. SupInv(a)'
    BY <1>1, <1>2, <1>3, <2>1, <2>3 DEF SupInv, OpenOr, Recorded
  <2>7. ProcInv(a)'
    BY <1>1, <1>2, <2>3 DEF ProcInv, Running, Lost
  <2>8. CallInv(a)' /\ EngInv(a)'
    BY <1>1, <1>2, <2>3 DEF CallInv, NoCall, EngInv
  <2> QED BY <1>1, <2>3, <2>4, <2>5, <2>6, <2>7, <2>8, OneStep DEF AgentInv, RowInv
<1> QED BY <1>7, <1>8

-----------------------------------------------------------------------------
(* Steps of the engine.                                                    *)

\* A boot writes the row of an agent without thread and call.
LEMMA BootStep ==
  ASSUME Inv, NEW a \in Agents, sup[a].at = "none", call[a].pc = "none",
         NEW r \in Row, RowInv(r), r.gen = db[a].gen, Write(a, r),
         NEW h \in Gens, h = r.gen, Only(a), EngInv(a)',
         boots' = boots, todo' \subseteq todo, sup' = sup, call' = call, lost' = lost,
         proc' \in Procs, \A g \in Gens : g # h => proc'[a][g] = proc[a][g],
         Running(a, h)' => r.kept = h \/ Lost(a, h)
  PROVE  Inv'
<1>1. db' \in [Agents -> Row] /\ db'[a] = r
  BY CallFacts DEF Write
<1>2. TypeOK'
  BY <1>1 DEF Inv, TypeOK, Only, Procs
<1>3. ProcInv(a)'
  <2>1. r.gen \in Nat /\ Gens \subseteq Nat
    BY Numbers DEF Row, Gens
  <2>2. \A g \in Gens : Lost(a, g)' <=> Lost(a, g)
    BY DEF Lost
  <2>3. ProcInv(a) /\ db[a].gen = h
    BY CallFacts
  <2>4. Running(a, h)' => Kept(a, h)'
    BY <1>1, <2>2 DEF Kept
  <2> QED BY <1>1, <2>1, <2>2, <2>3, <2>4 DEF ProcInv, Running
<1>4. SupInv(a)' /\ CallInv(a)'
  BY CallFacts DEF SupInv, CallInv, NoCall
<1> QED BY <1>1, <1>2, <1>3, <1>4, OneStep DEF AgentInv, RowInv

LEMMA RestedRow ==
  ASSUME NEW r \in Row, RowInv(r), r.state \in Resting, ~AnyOpen(r), NEW from
  PROVE  LET q == ResumeFailed(r, from)
         IN  q \in Row /\ RowInv(q) /\ q.gen = r.gen /\ q.state \in Resting /\ ~AnyOpen(q)
<1> DEFINE q == ResumeFailed(r, from)
<1>1. q \in Row
  <2>1. 1 \in Gens BY Numbers
  <2> QED BY <2>1, ResumeRow
<1>2. q = [Forget(r) EXCEPT !.state = r.state, !.reason = "resume_failed"]
  BY DEF ResumeFailed
<1>3. q.gen = r.gen /\ q.state = r.state /\ q.op = r.op /\ q.kept = 0
  BY <1>2 DEF Forget, Row
<1>4. RowInv(q)
  BY <1>3 DEF RowInv, Resting, Active
<1> QED BY <1>1, <1>3, <1>4 DEF AnyOpen, IsOpen

\* What reconcile makes of a row.
LEMMA FixedRow ==
  ASSUME NEW r \in Row, RowInv(r), r.gen # 0, NEW q,
         \/ ~AnyOpen(r) /\ r.state \in Active /\ q = LiveFix(r)
         \/ IsOpen(r, r.gen) /\ q = OpFix(r, r.gen)
  PROVE  q \in Row /\ RowInv(q) /\ q.gen = r.gen /\ ~AnyOpen(q) /\ q.state \in Resting \cup Ended
<1>1. r.gen \in Gens /\ TRUE \in BOOLEAN
  BY Finished
<1>2. CASE ~AnyOpen(r) /\ r.state \in Active /\ q = LiveFix(r)
  <2>1. q = [Forget(r) EXCEPT !.state = "interrupted"]
    BY <1>2 DEF LiveFix, Active
  <2>2. q.op = r.op /\ q.state = "interrupted"
    BY <2>1 DEF Forget, Row
  <2>3. q \in Row /\ q.gen = r.gen
    BY <1>1, <1>2, BootRow, GenStays
  <2>4. RowInv(q)
    BY <1>1, <1>2, SettleKeeps
  <2> QED BY <1>2, <2>2, <2>3, <2>4 DEF AnyOpen, IsOpen, Resting
<1>3. CASE IsOpen(r, r.gen) /\ q = OpFix(r, r.gen)
  <2> DEFINE f == Finish(r, r.gen)
  <2>1. r.state \in Resting \cup {"creating", "starting"}
    BY <1>1, <1>3 DEF IsOpen, RowInv
  <2>2. f \in Row /\ f.state = r.state /\ ~AnyOpen(f)
    BY <1>1, Finished, ClosedRow DEF Finish, Row
  <2>3. q \in Row /\ q.gen = r.gen
    BY <1>1, <1>3, BootRow, GenStays
  <2>4. CASE r.gen > 1
    <3>1. q = ResumeFailed(f, "none") /\ RowInv(q)
      BY <1>3, <2>4, ResumeKeeps DEF OpFix
    <3>2. q.op = f.op /\ q.state \in Resting
      BY <2>1, <2>2, <2>4, <3>1 DEF ResumeFailed, Forget, Row, Resting, RowInv
    <3> QED BY <2>2, <2>3, <3>1, <3>2 DEF AnyOpen, IsOpen
  <2>5. CASE ~(r.gen > 1)
    <3>1. q = FailAgent(f) /\ RowInv(q)
      BY <1>3, <2>1, <2>5, EndKeeps DEF OpFix, Resting
    <3>2. q.op = f.op /\ q.state \in Ended
      BY <2>1, <2>2, <3>1 DEF FailAgent, Forget, Row, Ended
    <3> QED BY <2>2, <2>3, <3>1, <3>2 DEF AnyOpen, IsOpen
  <2> QED BY <2>4, <2>5
<1> QED BY <1>2, <1>3

LEMMA ReconcileStep ==
  ASSUME Inv, NEW a \in Agents, Reconcile(a)
  PROVE  Inv'
<1> DEFINE r == db[a]
<1>1. /\ r \in Row /\ RowInv(r) /\ ProcInv(a) /\ db \in [Agents -> Row]
      /\ proc \in Procs /\ EngInv(a) /\ eng = "reconcile" /\ a \in todo
      /\ sup[a].at = "none" /\ call[a].pc = "none"
  BY CallFacts DEF Reconcile, Inv, TypeOK, Procs, EngInv, Holds
<1>2. AnyOpen(r) \/ r.state \in Active \cup {"creating"}
  BY <1>1 DEF EngInv
<1>3. r.gen # 0 /\ r.gen \in Gens
  BY <1>1, <1>2, Numbers DEF RowInv, Row, Gens, Active, AnyOpen, IsOpen
<1>4. PICK h \in Gens : h = r.gen
  BY <1>3
<1>5. PICK g \in 0 .. MaxGen :
         /\ IF g = 0 THEN ~AnyOpen(r) ELSE IsOpen(r, g)
         /\ LET child == IF g = 0 THEN r.kept ELSE IF r.op[g] = "pty" THEN g ELSE 0
                fixed == IF g = 0 THEN LiveFix(r) ELSE OpFix(r, g)
            IN  \/ /\ IF child = 0 THEN UNCHANGED proc ELSE Dead(a, child)
                   /\ Write(a, fixed)
                \/ /\ child # 0 /\ proc[a][child] = "up"
                   /\ \E over \in BOOLEAN : Write(a, OrphanAgent(r, child, over))
                   /\ UNCHANGED proc
  BY DEF Reconcile
<1> DEFINE child == IF g = 0 THEN r.kept ELSE IF r.op[g] = "pty" THEN g ELSE 0
           fixed == IF g = 0 THEN LiveFix(r) ELSE OpFix(r, g)
<1>6. g # 0 => g = h
  <2>1. g # 0 => g \in Gens
    BY Numbers DEF Gens
  <2> QED BY <1>1, <1>3, <1>4, <1>5, <2>1, Finished
<1>7. g = 0 => r.state \in Active /\ ~AnyOpen(r)
  BY <1>1, <1>2, <1>3, <1>5 DEF AnyOpen, IsOpen, RowInv
<1>8. child = 0 => g = h /\ r.kept = 0
  BY <1>1, <1>3, <1>4, <1>5, <1>6, <1>7 DEF IsOpen, RowInv, Resting, Active
<1>9. child # 0 => child = h
  BY <1>1, <1>4, <1>6 DEF RowInv
<1>10. ASSUME NEW q \in Row, RowInv(q), q.gen = r.gen, Write(a, q), ~AnyOpen(q),
              q.state \notin Active \cup {"creating"}, proc' \in Procs,
              \A k \in Gens : k # h => proc'[a][k] = proc[a][k],
              Running(a, h)' => q.kept = h \/ Lost(a, h)
       PROVE  Inv'
  <2>1. Only(a) /\ db'[a] = q /\ todo' \subseteq todo /\ a \notin todo'
    <3>1. UNCHANGED <<eng, sup, call, lost>> /\ todo' = todo \ {a} /\ db'[a] = q
      BY <1>1, <1>10 DEF Reconcile, Write
    <3>2. \A b \in Agents : b # a => db'[b] = db[b]
      BY <1>1, <1>10 DEF Write
    <3>3. \A b \in Agents : b # a => proc'[b] = proc[b]
      BY <1>1, <1>5 DEF Dead, Procs
    <3> QED BY <3>1, <3>2, <3>3 DEF Only
  <2>2. EngInv(a)'
    BY <1>1, <1>10, <2>1 DEF EngInv, Holds, Reconcile
  <2> QED BY <1>1, <1>4, <1>10, <2>1, <2>2, BootStep DEF Reconcile
<1>11. Running(a, h) => r.kept = h \/ Lost(a, h)
  BY <1>1, <1>4 DEF ProcInv, Kept
<1>12. CASE (IF child = 0 THEN UNCHANGED proc ELSE Dead(a, child)) /\ Write(a, fixed)
  <2>1. /\ fixed \in Row /\ RowInv(fixed) /\ fixed.gen = r.gen /\ ~AnyOpen(fixed)
        /\ fixed.state \in Resting \cup Ended
    BY <1>1, <1>3, <1>4, <1>5, <1>6, <1>7, FixedRow
  <2>2. fixed.state \notin Active \cup {"creating"}
    BY <2>1 DEF Resting, Ended, Active
  <2>3. proc' \in Procs /\ (\A k \in Gens : k # h => proc'[a][k] = proc[a][k])
    BY <1>1, <1>9, <1>12 DEF Dead, Procs
  <2>4. Running(a, h)' => Lost(a, h)
    <3>1. CASE child = 0
      BY <1>4, <1>8, <1>11, <1>12, <3>1, Numbers DEF Running, Gens
    <3>2. CASE child # 0
      BY <1>1, <1>9, <1>12, <3>2 DEF Dead, Procs, Running
    <3> QED BY <3>1, <3>2
  <2> QED BY <1>10, <1>12, <2>1, <2>2, <2>3, <2>4
<1>13. ASSUME child # 0, NEW over \in BOOLEAN, Write(a, OrphanAgent(r, child, over)),
       UNCHANGED proc
       PROVE  Inv'
  <2> DEFINE q == OrphanAgent(r, h, over)
  <2>1. q \in Row /\ RowInv(q) /\ q.gen = r.gen /\ Write(a, q)
    BY <1>1, <1>3, <1>4, <1>9, <1>13, ChildRow, OrphanKeeps, GenStays
  <2>2. r.state # "orphaned"
    BY <1>1, <1>2, <1>3 DEF RowInv, AnyOpen, IsOpen, Resting, Active
  <2>3. q.state = "orphaned" /\ q.kept = h /\ q.op = FinishAll(r).op
    <3>1. FinishAll(r) \in Row BY <1>1, <1>4, ClosedRow
    <3> QED BY <2>2, <3>1 DEF OrphanAgent, Row
  <2>4. ~AnyOpen(q)
    BY <1>1, <1>3, <2>3, Finished DEF AnyOpen, IsOpen
  <2> QED BY <1>1, <1>10, <1>13, <2>1, <2>3, <2>4 DEF Active
<1> QED BY <1>5, <1>12, <1>13

LEMMA ResumeOneStep ==
  ASSUME Inv, NEW a \in Agents, ResumeOne(a)
  PROVE  Inv'
<1> DEFINE r == db[a]
<1>1. /\ r \in Row /\ RowInv(r) /\ ProcInv(a) /\ db \in [Agents -> Row]
      /\ proc \in Procs /\ eng = "resume" /\ a \in todo
      /\ sup[a].at = "none" /\ call[a].pc = "none" /\ r.state \in Resting /\ ~AnyOpen(r)
  BY CallFacts DEF ResumeOne, Inv, TypeOK, Procs, EngInv, Holds
<1>2. r.gen # 0 /\ r.gen \in Gens
  BY <1>1, Numbers DEF RowInv, Row, Gens, Resting
<1>3. PICK h \in Gens : h = r.gen
  BY <1>2
<1>4. Running(a, h) => Lost(a, h)
  BY <1>1, <1>2, <1>3 DEF ProcInv, Kept, RowInv, Resting, Active
<1>5. ASSUME NEW q \in Row, RowInv(q), q.gen = r.gen, Stores(a, q), UNCHANGED call
      PROVE  Inv'
  <2>1. PICK z \in Row : RowInv(z) /\ z.gen = r.gen /\ Write(a, z)
    <3>1. CASE Write(a, q) BY <1>5, <3>1
    <3>2. CASE UNCHANGED db BY <1>1, <3>2 DEF Write
    <3> QED BY <1>5, <3>1, <3>2 DEF Stores
  <2>2. Only(a) /\ todo' \subseteq todo /\ a \notin todo'
    BY <1>1, <1>5, <2>1 DEF Only, Write, ResumeOne
  <2>3. EngInv(a)'
    BY <1>1, <2>2 DEF EngInv, ResumeOne
  <2>4. Running(a, h)' => Lost(a, h)
    BY <1>4 DEF Running, ResumeOne
  <2> QED BY <1>1, <1>3, <1>5, <2>1, <2>2, <2>3, <2>4, BootStep DEF ResumeOne
<1>6. ASSUME Stores(a, ResumeFailed(r, r.state)), UNCHANGED call PROVE Inv'
  BY <1>1, <1>5, <1>6, RestedRow
<1>7. ASSUME Stores(a, FailAgent(r)), UNCHANGED call PROVE Inv'
  <2>1. r.state # "orphaned" /\ TRUE \in BOOLEAN
    BY <1>1 DEF Resting
  <2>2. RowInv(FailAgent(r)) /\ FailAgent(r) \in Row /\ FailAgent(r).gen = r.gen
    BY <1>1, <1>2, <2>1, EndKeeps, EndedRow, GenStays
  <2> QED BY <1>5, <1>7, <2>2
<1>8. ASSUME CanResume(a, r.state), r.gen < MaxGen, Write(a, Begin(r)),
             call' = [call EXCEPT ![a] = [pc |-> "resume", gen |-> r.gen + 1, from |-> r.state]]
      PROVE  Inv'
  <2>0. PICK from \in Resting : from = r.state
    BY <1>1
  <2>1. PICK c : c = [pc |-> "resume", gen |-> r.gen + 1, from |-> from]
    OBVIOUS
  <2>2. call' = [call EXCEPT ![a] = c] /\ CanResume(a, from)
    BY <1>8, <2>0, <2>1
  <2>3. /\ todo' \subseteq todo /\ a \notin todo' /\ eng \notin {"down", "reconcile"}
        /\ \A b \in Agents : b # a => (b \in todo' <=> b \in todo)
        /\ UNCHANGED <<eng, boots, proc, sup, lost>>
    BY <1>1 DEF ResumeOne
  <2>4. r.gen + 1 \in 0 .. MaxGen
    BY <1>1, <1>8, Numbers DEF Row
  <2>5. c \in Calls /\ c.pc = "resume" /\ c.gen = r.gen + 1 /\ c.from = from
    BY <2>1, <2>4 DEF Calls, CallPc
  <2> QED BY <1>8, <2>2, <2>3, <2>5, BeginStep
<1> QED BY <1>6, <1>7, <1>8 DEF ResumeOne

LEMMA EngineStep ==
  ASSUME Inv, Boot \/ BootResume \/ Serve \/ Drain \/ Stop
  PROVE  Inv'
<1>1. UNCHANGED <<db, proc, sup, call, lost>>
  BY DEF Boot, BootResume, Serve, Drain, Stop
<1>2. TypeOK'
  BY <1>1, LifecycleAssumption DEF Boot, BootResume, Serve, Drain, Stop, Inv, TypeOK
<1>3. ASSUME NEW a \in Agents PROVE AgentInv(a)'
  <2>1. RowInv(db[a])' /\ ProcInv(a)' /\ SupInv(a)' /\ CallInv(a)'
    <3>1. RowInv(db[a]) /\ ProcInv(a) /\ SupInv(a) /\ CallInv(a)
      BY DEF Inv, AgentInv
    <3>2. CallInv(a)'
      BY <1>1, <3>1 DEF CallInv, Origin
    <3> QED BY <1>1, <3>1, <3>2, Untouched
  <2>2. EngInv(a)'
    <3>1. EngInv(a) /\ RowInv(db[a]) /\ (AnyOpen(db[a])' <=> AnyOpen(db[a]))
      BY <1>1 DEF Inv, AgentInv, AnyOpen, IsOpen
    <3>2. CASE Boot
      BY <1>1, <3>1, <3>2 DEF EngInv, Boot, Holds
    <3>3. CASE BootResume
      BY <1>1, <3>1, <3>3 DEF EngInv, BootResume, Resumable, Holds, Resting
    <3>4. CASE Serve \/ Drain \/ Stop
      BY <1>1, <3>4 DEF EngInv, Serve, Drain, Stop
    <3> QED BY <3>2, <3>3, <3>4
  <2> QED BY <2>1, <2>2 DEF AgentInv
<1> QED BY <1>2, <1>3 DEF Inv

LEMMA CrashStep ==
  ASSUME Inv, Crash
  PROVE  Inv'
<1>1. TypeOK'
  <2>1. NoSup \in Sups /\ NoCall \in Calls
    BY Numbers DEF NoSup, NoCall, Sups, Calls, SupAt, CallPc
  <2>2. sup' \in [Agents -> Sups] /\ call' \in [Agents -> Calls]
    BY <2>1 DEF Crash
  <2>3. lost' \subseteq Losses
    <3>1. \A a \in Agents : sup[a].at # "none" => sup[a].gen \in Gens
      BY ThreadFacts
    <3> QED BY <3>1 DEF Crash, Losses, Inv, TypeOK
  <2> QED BY <2>2, <2>3 DEF Inv, TypeOK, Crash, Sups, Calls, Losses
<1>2. ASSUME NEW a \in Agents PROVE AgentInv(a)'
  <2>1. sup'[a] = NoSup /\ call'[a] = NoCall /\ db' = db /\ proc' = proc
    BY DEF Crash
  <2>2. RowInv(db[a])' /\ SupInv(a)' /\ CallInv(a)' /\ EngInv(a)'
    BY <2>1, CallFacts DEF RowInv, SupInv, CallInv, EngInv, NoSup, NoCall, Crash, Holds
  <2>3. ASSUME sup[a].at # "none", ~Recorded(db[a], sup[a].gen), Running(a, sup[a].gen)
        PROVE  <<a, sup[a].gen, "crashed">> \in lost'
    <3>1. sup[a].at \in {"spawned", "void"}
      BY <2>3, CallFacts DEF SupInv, Comes, Runs, Recorded, Running, Inv, TypeOK, SupAt
    <3> QED BY <3>1 DEF Crash
  <2>4. ProcInv(a)'
    <3>1. \A g \in Gens : Lost(a, g) => Lost(a, g)'
      BY DEF Crash, Lost
    <3>2. ASSUME NEW g \in Gens, sup[a].at # "none", sup[a].gen = g, ~Recorded(db[a], g),
                 Running(a, g)
          PROVE  Lost(a, g)'
      BY <2>3, <3>2 DEF Lost
    <3> QED BY <2>1, <3>1, <3>2, CallFacts DEF ProcInv, Running, Kept
  <2> QED BY <2>2, <2>4 DEF AgentInv
<1> QED BY <1>1, <1>2 DEF Inv

-----------------------------------------------------------------------------
(* The invariant, and what follows from it.                                *)

LEMMA InitInv == Init => Inv
<1> SUFFICES ASSUME Init PROVE Inv
  OBVIOUS
<1>1. /\ NoRow \in Row /\ NoSup \in Sups /\ NoCall \in Calls
      /\ [g \in Gens |-> "none"] \in [Gens -> {"none", "up", "gone"}] /\ 0 \in 0 .. MaxBoots
  BY Numbers, LifecycleAssumption
     DEF NoRow, Row, NoSup, Sups, NoCall, Calls, SupAt, CallPc, States, OpStates
<1>2. TypeOK
  BY <1>1 DEF Init, TypeOK, Sups, Calls
<1>3. ASSUME NEW a \in Agents PROVE AgentInv(a)
  <2>1. db[a] = NoRow /\ sup[a] = NoSup /\ call[a] = NoCall /\ eng = "down"
        /\ \A g \in Gens : proc[a][g] = "none"
    BY DEF Init
  <2>2. RowInv(NoRow)
    <3>1. NoAgent \in Agents \cup {NoAgent} OBVIOUS
    <3> QED BY <3>1, NewKeeps
  <2>3. ProcInv(a) /\ SupInv(a) /\ CallInv(a) /\ EngInv(a)
    BY <2>1 DEF ProcInv, Running, SupInv, NoSup, CallInv, NoCall, EngInv, Holds
  <2> QED BY <2>1, <2>2, <2>3 DEF AgentInv
<1> QED BY <1>2, <1>3 DEF Inv

LEMMA StutterInv == Inv /\ UNCHANGED vars => Inv'
<1> SUFFICES ASSUME Inv, UNCHANGED vars PROVE Inv'
  OBVIOUS
<1>1. TypeOK'
  BY DEF vars, Inv, TypeOK
<1>2. ASSUME NEW a \in Agents PROVE AgentInv(a)'
  <2>1. RowInv(db[a]) /\ ProcInv(a) /\ SupInv(a) /\ CallInv(a) /\ EngInv(a)
    BY DEF Inv, AgentInv
  <2>2. UNCHANGED <<eng, todo, db, proc, sup, call, lost>>
    BY DEF vars
  <2>3. CallInv(a)'
    BY <2>1, <2>2 DEF CallInv, Origin
  <2>4. EngInv(a)'
    BY <2>1, <2>2 DEF EngInv, AnyOpen, IsOpen, Holds
  <2> QED BY <2>1, <2>2, <2>3, <2>4, Untouched DEF AgentInv
<1> QED BY <1>1, <1>2 DEF Inv

LEMMA NextInv == Inv /\ Next => Inv'
<1> SUFFICES ASSUME Inv, Next PROVE Inv'
  OBVIOUS
<1>1. ASSUME NEW a \in Agents, NEW p \in Agents \cup {NoAgent}, CreateRow(a, p) PROVE Inv'
  BY <1>1, CreateRowStep
<1>2. ASSUME NEW a \in Agents,
             \/ PlanResume(a) \/ Retire(a) \/ Sweep(a) \/ Turn(a) \/ Dies(a)
             \/ Reconcile(a) \/ ResumeOne(a)
      PROVE  Inv'
  BY <1>2, PlanResumeStep, RetireSteps, TurnStep, DiesStep, ReconcileStep, ResumeOneStep
<1>3. ASSUME NEW a \in Agents, CallStep(a) PROVE Inv'
  BY <1>3, WriteResumeStep, SuperviseStep, RetireSteps, BuryStep, RetireOrphanStep DEF CallStep
<1>4. ASSUME NEW a \in Agents, Thread(a) PROVE Inv'
  BY <1>4, CheckSpawnStep, SpawnStep, RecordChildStep, BoundStep, KillStep, CutStep,
     RunShutdownStep, RunDrainStep, WriteEndStep DEF Thread
<1> QED BY <1>1, <1>2, <1>3, <1>4, EngineStep, CrashStep DEF Next

LEMMA Invariance == Spec => []Inv
<1>1. Inv /\ [Next]_vars => Inv'
  BY NextInv, StutterInv
<1> QED BY <1>1, InitInv, PTL DEF Spec

\* The rows, the ops journal and the records of a child agree in every
\* state (create.rs and ops.rs): what a boot reads is what it may rely on.
THEOREM RowsAlwaysAgree == Spec => []RowsAgree
<1>1. Inv => RowsAgree
  <2> SUFFICES ASSUME Inv PROVE RowsAgree
    OBVIOUS
  <2>1. ASSUME NEW a \in Agents
        PROVE  /\ \A g \in Gens : IsOpen(db[a], g) =>
                     g = db[a].gen /\ db[a].state \notin Ended \cup {"orphaned"}
               /\ db[a].state \in Active => db[a].kept = db[a].gen \/ AnyOpen(db[a])
    <3>1. db[a] \in Row /\ RowInv(db[a])
      BY CallFacts
    <3>2. ASSUME NEW g \in Gens, IsOpen(db[a], g) PROVE g = db[a].gen
      BY <3>1, <3>2 DEF IsOpen, RowInv, Row, Gens
    <3> QED BY <3>1, <3>2 DEF IsOpen, RowInv, Ended, Resting, Active
  <2> QED BY <2>1 DEF Inv, RowsAgree, OneOpenOp, ActiveIsRecorded
<1> QED BY <1>1, Invariance, PTL

\* Whatever is killed, fails, ends or restarts in between, every process that
\* runs has its thread, or is on record, or is one of the four losses that
\* the code takes; and none of them runs beside its successor unless it was
\* lost (create.rs and ops.rs).
THEOREM ProcessesAlwaysKept == Spec => []ProcessesKept
<1>1. Inv => ProcessesKept
  <2> SUFFICES ASSUME Inv PROVE ProcessesKept
    OBVIOUS
  <2>1. ASSUME NEW a \in Agents, NEW g \in Gens, Running(a, g)
        PROVE  /\ \/ sup[a].at # "none" /\ sup[a].gen = g
                  \/ db[a].kept = g /\ db[a].state \notin Ended
                  \/ db[a].op[g] = "pty"
                  \/ Lost(a, g)
               /\ g < db[a].gen => Lost(a, g)
               /\ g <= db[a].gen
    <3>1. db[a] \in Row /\ RowInv(db[a]) /\ ProcInv(a)
      BY CallFacts
    <3>2. db[a].gen \in Nat /\ g \in Nat /\ g # 0
      BY <3>1, Numbers DEF Row, Gens
    <3>3. g <= db[a].gen
      BY <2>1, <3>1, <3>2 DEF ProcInv, Running
    <3>4. CASE g < db[a].gen
      BY <2>1, <3>1, <3>2, <3>4 DEF ProcInv
    <3>5. CASE g = db[a].gen
      BY <2>1, <3>1, <3>2, <3>5 DEF ProcInv, Kept, RowInv, Ended, Active
    <3> QED BY <3>2, <3>3, <3>4, <3>5
  <2>2. Accounted
    BY <2>1 DEF Accounted
  <2>3. ASSUME NEW a \in Agents, NEW g \in Gens, NEW h \in Gens,
               g < h, Running(a, g), Running(a, h)
        PROVE  Lost(a, g)
    <3>1. db[a].gen \in Nat /\ g \in Nat /\ h \in Nat
      BY CallFacts, Numbers DEF Row, Gens
    <3> QED BY <2>1, <2>3, <3>1
  <2> QED BY <2>2, <2>3 DEF ProcessesKept, OneProcess
<1> QED BY <1>1, Invariance, PTL

-----------------------------------------------------------------------------
(* What a step does to the state of a row, and the promise of AgentPromise. *)

\* A new row; the moves of a row that the promise allows.
Appears(r, q) == r.state = "none" /\ q.state = "creating" /\ q.gen = 1
Moves(r, q) ==
  \/ /\ q.gen = r.gen /\ q.parent = r.parent
     /\ \/ q.state = r.state
        \/ {r.state, q.state} \subseteq Resting
        \/ {r.state, q.state} \subseteq {"ready", "working"}
        \/ r.state \in Resting \cup {"creating"} /\ q.state = "starting"
        \/ r.state = "starting" /\ q.state = "ready"
        \/ r.state \in {"ready", "working"} /\ q.state \in Resting
        \/ r.state = "starting" /\ r.gen > 1 /\ q.state \in Resting
        \/ r.state \notin {"none", "orphaned"} /\ q.state \in Ended \cup {"orphaned"}
        \/ r.state = "orphaned" /\ q.state \in Ended
  \/ /\ r.state \in Resting /\ q.state = r.state
     /\ q.gen = r.gen + 1 /\ q.parent = r.parent

LEMMA EndMoves ==
  ASSUME NEW r \in Row, RowInv(r), r.gen # 0
  PROVE  /\ Moves(r, RetireTx(r))
         /\ r.state # "orphaned" => Moves(r, FailAgent(r)) /\ Moves(r, FailAgent(Finish(r,
               r.gen)))
<1>1. r.gen \in Gens /\ TRUE \in BOOLEAN /\ r.state # "none"
  BY Finished DEF RowInv
<1>2. Finish(r, r.gen) \in Row /\ Finish(r, r.gen).state = r.state
  BY <1>1, ClosedRow DEF Finish, Row
<1>3. \A q \in Row : FailAgent(q).state \in Ended
  BY DEF FailAgent, Forget, Row, Ended
<1>4. /\ FailAgent(r).gen = r.gen /\ FailAgent(Finish(r, r.gen)).gen = r.gen
      /\ RetireTx(r).gen = r.gen
  BY <1>1, <1>2, GenStays
<1>5. RetireTx(r).state \in Ended
  BY RetiredRow
<1>6. /\ FailAgent(r).parent = r.parent /\ FailAgent(Finish(r, r.gen)).parent = r.parent
      /\ RetireTx(r).parent = r.parent
  BY <1>1, <1>2, ParentStays
<1> QED BY <1>1, <1>2, <1>3, <1>4, <1>5, <1>6 DEF Moves

LEMMA OrphanMoves ==
  ASSUME NEW r \in Row, RowInv(r), r.gen # 0, NEW over \in BOOLEAN
  PROVE  Moves(r, OrphanAgent(r, r.gen, over))
<1>1. FinishAll(r) \in Row /\ r.gen \in Gens /\ r.state # "none"
  BY Finished, ClosedRow DEF RowInv
<1>2. OrphanAgent(r, r.gen, over).state = "orphaned" /\ OrphanAgent(r, r.gen, over).gen = r.gen
  BY <1>1, GenStays DEF OrphanAgent, Row
<1>3. OrphanAgent(r, r.gen, over).parent = r.parent
  BY <1>1, ParentStays
<1> QED BY <1>1, <1>2, <1>3 DEF Moves

LEMMA ResumeMoves ==
  ASSUME NEW r \in Row, RowInv(r), NEW from, r.gen > 1 \/ r.state \in Resting, r.gen # 0
  PROVE  /\ Moves(r, ResumeFailed(r, from)) /\ Moves(r, ResumeFailed(Finish(r, r.gen), from))
         /\ from \in Resting => Moves(r, UndoResume(r, r.gen, from))
<1>1. r.gen \in Gens /\ TRUE \in BOOLEAN
  BY Finished
<1>2. Finish(r, r.gen) \in Row /\ Finish(r, r.gen).state = r.state
  BY <1>1, ClosedRow DEF Finish, Row
<1>3. /\ ResumeFailed(r, from).gen = r.gen /\ ResumeFailed(Finish(r, r.gen), from).gen = r.gen
      /\ UndoResume(r, r.gen, from).gen = r.gen
  <2>1. \A q \in Row : ResumeFailed(q, from).gen = q.gen
    BY <1>1, GenStays
  <2>2. Finish(r, r.gen).gen = r.gen /\ UndoResume(r, r.gen, from).gen = r.gen
    BY <1>1, GenStays
  <2> QED BY <1>2, <2>1, <2>2
<1>4. \A q \in Row : LET s == ResumeFailed(q, from).state
                     IN  IF q.state \in Resting \cup {"starting", "ready"}
                         THEN s \in Resting ELSE s = q.state
  BY DEF ResumeFailed, Forget, Row, Resting
<1>5. ASSUME from \in Resting
      PROVE  LET s == UndoResume(r, r.gen, from).state
             IN  IF r.state \in {"starting", from} THEN s = from ELSE s = r.state
  BY <1>2, <1>5 DEF UndoResume, Forget, Row
<1>6. /\ ResumeFailed(r, from).parent = r.parent
      /\ ResumeFailed(Finish(r, r.gen), from).parent = r.parent
      /\ UndoResume(r, r.gen, from).parent = r.parent
  <2>1. \A q \in Row : ResumeFailed(q, from).parent = q.parent
    BY <1>1, ParentStays
  <2>2. Finish(r, r.gen).parent = r.parent /\ UndoResume(r, r.gen, from).parent = r.parent
    BY <1>1, ParentStays
  <2> QED BY <1>2, <2>1, <2>2
<1>7. Moves(r, ResumeFailed(r, from)) /\ Moves(r, ResumeFailed(Finish(r, r.gen), from))
  BY <1>2, <1>3, <1>4, <1>6 DEF Moves, Resting
<1>8. ASSUME from \in Resting PROVE Moves(r, UndoResume(r, r.gen, from))
  BY <1>3, <1>5, <1>6, <1>8 DEF Moves, Resting
<1> QED BY <1>7, <1>8

LEMMA StoresMoves ==
  ASSUME Inv, NEW a \in Agents, NEW r, Moves(db[a], r), Stores(a, r)
  PROVE  Moves(db[a], db'[a]) /\ \A b \in Agents : b # a => db'[b] = db[b]
BY CallFacts DEF Stores, Write, Moves

LEMMA ThreadMoves ==
  ASSUME Inv, NEW a \in Agents, Thread(a)
  PROVE  Moves(db[a], db'[a]) /\ \A b \in Agents : b # a => db'[b] = db[b]
<1> DEFINE r == db[a]
           g == sup[a].gen
           Goal == Moves(db[a], db'[a]) /\ \A b \in Agents : b # a => db'[b] = db[b]
<1>1. /\ sup[a].at # "none" /\ r \in Row /\ RowInv(r) /\ r.gen # 0 /\ g = r.gen /\ g \in Gens
      /\ SupInv(a) /\ r.state # "orphaned" /\ Moves(r, r)
      /\ sup[a].from # "create" => r.gen > 1 /\ sup[a].from \in Resting
  <2>1. sup[a].at # "none"
    BY DEF Thread, CheckSpawn, Spawn, RecordChild, Bound, Kill, KillFail, KillRetire, KillVoid,
           KillExit, Cut, RunShutdown, RunDrain, WriteEnd, At
  <2> QED BY <2>1, ThreadFacts, CallFacts DEF SupInv, Moves
<1>2. ASSUME UNCHANGED db PROVE Goal
  BY <1>1, <1>2
<1>3. ASSUME Stores(a, FailCreate(a)) PROVE Goal
  <2>1. CASE sup[a].from = "create"
    BY <1>1, <1>3, <2>1, EndMoves, StoresMoves DEF FailCreate
  <2>2. CASE sup[a].from # "create"
    <3>1. FailCreate(a) = ResumeFailed(Finish(r, r.gen), sup[a].from)
      BY <1>1, <2>2 DEF FailCreate
    <3>2. Moves(r, ResumeFailed(Finish(r, r.gen), sup[a].from))
      BY <1>1, <2>2, ResumeMoves
    <3> QED BY <1>3, <3>1, <3>2, StoresMoves
  <2> QED BY <2>1, <2>2
<1>4. ASSUME sup[a].from # "create", Stores(a, UndoResume(r, g, sup[a].from)) PROVE Goal
  <2>1. Moves(r, UndoResume(r, g, sup[a].from))
    BY <1>1, <1>4, ResumeMoves
  <2> QED BY <1>4, <2>1, StoresMoves
<1>5. CASE CheckSpawn(a)
  BY <1>2, <1>3, <1>4, <1>5 DEF CheckSpawn
<1>6. CASE Spawn(a)
  BY <1>2, <1>3, <1>6 DEF Spawn
<1>7. CASE RecordChild(a)
  <2>1. CASE IsOpen(r, g)
    <3>1. /\ WritePty(r, g).gen = r.gen /\ WritePty(r, g).parent = r.parent
          /\ WritePty(r, g).state = "starting"
      BY <1>1, <2>1 DEF WritePty, Row, RowInv, IsOpen
    <3>2. r.state \in Resting \cup {"creating", "starting"}
      BY <1>1, <2>1 DEF RowInv, IsOpen
    <3>3. Stores(a, WritePty(r, g)) /\ Moves(r, WritePty(r, g))
      BY <1>7, <2>1, <3>1, <3>2 DEF RecordChild, Stores, Moves
    <3> QED BY <3>3, StoresMoves
  <2>2. CASE ~IsOpen(r, g)
    BY <1>2, <1>7, <2>2 DEF RecordChild
  <2> QED BY <2>1, <2>2
<1>8. CASE Bound(a)
  <2>1. CASE IsOpen(r, g)
    <3>0. /\ Finish(r, g).gen = r.gen /\ Finish(r, g).parent = r.parent
          /\ Finish(r, g).state = r.state /\ Finish(r, g) \in Row
      BY <1>1, ClosedRow DEF Finish, Row
    <3>1. /\ WriteBound(r, g).gen = r.gen /\ WriteBound(r, g).parent = r.parent
          /\ WriteBound(r, g).state = "ready" /\ r.state = "starting"
      BY <1>1, <1>8, <2>1, <3>0 DEF WriteBound, Row, RowInv, IsOpen, SupInv, Bound, At, Comes
    <3>3. Stores(a, WriteBound(r, g)) /\ Moves(r, WriteBound(r, g))
      BY <1>8, <2>1, <3>1 DEF Bound, Stores, Moves
    <3> QED BY <3>3, StoresMoves
  <2>2. CASE ~IsOpen(r, g)
    BY <1>2, <1>8, <2>2 DEF Bound
  <2> QED BY <2>1, <2>2
<1>9. CASE Kill(a)
  <2>1. UNCHANGED db \/ \E over \in BOOLEAN : Stores(a, OrphanAgent(r, g, over))
    BY <1>9 DEF Kill, KillFail, KillRetire, KillVoid, KillExit, Kills, Confirmed, Unconfirmed
  <2>2. ASSUME NEW over \in BOOLEAN, Stores(a, OrphanAgent(r, g, over)) PROVE Goal
    BY <1>1, <2>2, OrphanMoves, StoresMoves
  <2> QED BY <1>2, <2>1, <2>2
<1>10. CASE Cut(a) \/ RunShutdown(a) \/ RunDrain(a)
  BY <1>2, <1>10 DEF Cut, RunShutdown, RunDrain
<1>11. CASE WriteEnd(a)
  <2>1. CASE sup[a].at = "failing"
    BY <1>3, <1>11, <2>1 DEF WriteEnd, Epilogue
  <2>2. CASE sup[a].at = "killed"
    BY <1>1, <1>11, <2>2, EndMoves, StoresMoves DEF WriteEnd, Epilogue
  <2>3. CASE sup[a].at = "exited"
    BY <1>1, <1>11, <2>3, EndMoves, StoresMoves DEF WriteEnd, Epilogue
  <2>4. CASE sup[a].at = "drained"
    <3>1. r.state \in {"ready", "working"} \cup Ended /\ sup[a].busy \in BOOLEAN
      BY <1>1, <2>4 DEF SupInv, Runs, Inv, TypeOK
    <3>2. Moves(r, Settle(r, sup[a].busy))
      BY <1>1, <3>1 DEF Moves, Settle, Forget, Row, Ended, Resting, Active
    <3> QED BY <1>11, <2>4, <3>2, StoresMoves DEF WriteEnd, Epilogue
  <2>5. CASE sup[a].at = "undo"
    BY <1>1, <1>4, <1>11, <2>5 DEF WriteEnd, Epilogue, SupInv
  <2> QED BY <1>11, <2>1, <2>2, <2>3, <2>4, <2>5 DEF WriteEnd
<1> QED BY <1>5, <1>6, <1>7, <1>8, <1>9, <1>10, <1>11 DEF Thread

LEMMA CallMoves ==
  ASSUME Inv, NEW a \in Agents, CallStep(a) \/ ResumeOne(a) \/ Reconcile(a)
  PROVE  Moves(db[a], db'[a]) /\ \A b \in Agents : b # a => db'[b] = db[b]
<1> DEFINE r == db[a]
           Goal == Moves(db[a], db'[a]) /\ \A b \in Agents : b # a => db'[b] = db[b]
<1>1. /\ r \in Row /\ RowInv(r) /\ CallInv(a) /\ SupInv(a) /\ EngInv(a) /\ Moves(r, r)
      /\ db \in [Agents -> Row] /\ call[a] \in Calls
  BY CallFacts DEF Moves
<1>2. ASSUME UNCHANGED db PROVE Goal
  BY <1>1, <1>2
<1>3. ASSUME Write(a, Begin(r)), r.state \in Resting PROVE Goal
  <2>1. Begin(r).gen = r.gen + 1 /\ Begin(r).state = r.state /\ Begin(r).parent = r.parent
    BY <1>1 DEF Begin, Row
  <2>2. Moves(r, Begin(r)) /\ Stores(a, Begin(r))
    BY <1>3, <2>1 DEF Moves, Stores
  <2> QED BY <2>2, StoresMoves
<1>4. CASE WriteResume(a)
  <2>1. ASSUME CanResume(a, call[a].from), Write(a, Begin(r)) PROVE Goal
    <3>1. r.state \in Resting
      BY <1>1, <1>4, <2>1 DEF WriteResume, Holds, CallInv, CanResume
    <3> QED BY <1>3, <2>1, <3>1
  <2> QED BY <1>2, <1>4, <2>1 DEF WriteResume
<1>5. CASE Supervise(a)
  <2> DEFINE c == call[a]
  <2>1. /\ c.pc \in {"create", "resume"} /\ c.gen = r.gen /\ r.gen # 0 /\ r.gen \in Gens
        /\ r.state # "orphaned"
        /\ c.pc # "create" => r.gen > 1 /\ c.from \in Resting
    BY <1>1, <1>5, Finished, Numbers DEF Supervise, CallInv, RowInv, Resting, Origin, Gens, Calls
  <2>2. \/ UNCHANGED db
        \/ c.pc # "create" /\ Stores(a, UndoResume(r, r.gen, c.from))
        \/ c.pc = "create" /\ Stores(a, FailAgent(Finish(r, r.gen)))
        \/ c.pc # "create" /\ Stores(a, ResumeFailed(Finish(r, r.gen), c.from))
    BY <1>5, <2>1 DEF Supervise
  <2>3. ASSUME c.pc # "create", Stores(a, UndoResume(r, r.gen, c.from)) PROVE Goal
    <3>1. Moves(r, UndoResume(r, r.gen, c.from))
      BY <1>1, <2>1, <2>3, ResumeMoves
    <3> QED BY <2>3, <3>1, StoresMoves
  <2>4. ASSUME c.pc # "create", Stores(a, ResumeFailed(Finish(r, r.gen), c.from)) PROVE Goal
    <3>1. Moves(r, ResumeFailed(Finish(r, r.gen), c.from))
      BY <1>1, <2>1, <2>4, ResumeMoves
    <3> QED BY <2>4, <3>1, StoresMoves
  <2>5. ASSUME Stores(a, FailAgent(Finish(r, r.gen))) PROVE Goal
    BY <1>1, <2>1, <2>5, EndMoves, StoresMoves
  <2> QED BY <1>2, <2>2, <2>3, <2>4, <2>5
<1>6. CASE RetireLive(a) \/ RetireIdle(a)
  BY <1>2, <1>6 DEF RetireLive, RetireIdle
<1>7. CASE Bury(a)
  <2>1. r.gen # 0 /\ Stores(a, RetireTx(r))
    BY <1>1, <1>7 DEF Bury, Holds, CallInv, RowInv, Stores
  <2> QED BY <1>1, <2>1, EndMoves, StoresMoves
<1>8. CASE RetireOrphan(a)
  <2>1. r.gen # 0 /\ r.state = "orphaned"
    BY <1>1, <1>8 DEF RetireOrphan, Holds, CallInv, RowInv
  <2>2. Write(a, RetireTx(r)) \/ \E over \in BOOLEAN : Write(a,
         [r EXCEPT !.over = r.over \/ over])
    BY <1>8 DEF RetireOrphan
  <2>3. ASSUME Write(a, RetireTx(r)) PROVE Goal
    BY <1>1, <2>1, <2>3, EndMoves, StoresMoves DEF Stores
  <2>4. ASSUME NEW over \in BOOLEAN, Write(a, [r EXCEPT !.over = r.over \/ over]) PROVE Goal
    <3>1. Moves(r, [r EXCEPT !.over = r.over \/ over])
      BY <1>1 DEF Moves, Row
    <3> QED BY <2>4, <3>1, StoresMoves DEF Stores
  <2> QED BY <2>2, <2>3, <2>4
<1>9. CASE ResumeOne(a)
  <2>1. r.state \in Resting /\ r.gen # 0
    BY <1>1, <1>9 DEF ResumeOne, EngInv, RowInv, Resting
  <2>2. \/ Stores(a, ResumeFailed(r, r.state)) \/ Stores(a, FailAgent(r)) \/ Write(a, Begin(r))
    BY <1>9 DEF ResumeOne
  <2>3. ASSUME Stores(a, ResumeFailed(r, r.state)) PROVE Goal
    BY <1>1, <2>1, <2>3, ResumeMoves, StoresMoves
  <2>4. ASSUME Stores(a, FailAgent(r)) PROVE Goal
    <3>1. Moves(r, FailAgent(r))
      BY <1>1, <2>1, EndMoves DEF Resting
    <3> QED BY <2>4, <3>1, StoresMoves
  <2> QED BY <1>3, <2>1, <2>2, <2>3, <2>4
<1>10. CASE Reconcile(a)
  <2>1. AnyOpen(r) \/ r.state \in Active \cup {"creating"}
    BY <1>1, <1>10 DEF Reconcile, EngInv
  <2>2. r.gen # 0 /\ r.gen \in Gens /\ r.state # "orphaned"
    BY <1>1, <2>1, Numbers DEF RowInv, Row, Gens, Active, AnyOpen, IsOpen, Resting
  <2>3. PICK g \in 0 .. MaxGen, child \in 0 .. MaxGen :
           /\ IF g = 0 THEN ~AnyOpen(r) ELSE IsOpen(r, g)
           /\ child # 0 => IF g = 0 THEN child = r.kept ELSE child = g
           /\ \/ Write(a, IF g = 0 THEN LiveFix(r) ELSE OpFix(r, g))
              \/ child # 0 /\ \E over \in BOOLEAN : Write(a, OrphanAgent(r, child, over))
    BY <1>1, <1>10 DEF Reconcile, Row
  <2>4. g # 0 => g = r.gen
    <3>1. g # 0 => g \in Gens
      BY Numbers DEF Gens
    <3> QED BY <1>1, <2>2, <2>3, <3>1, Finished
  <2>5. g = 0 => r.state \in {"ready", "working"} /\ ~AnyOpen(r)
    BY <1>1, <2>1, <2>2, <2>3 DEF AnyOpen, IsOpen, RowInv, Active
  <2>6. CASE g = 0 /\ Write(a, LiveFix(r))
    <3>1. /\ LiveFix(r).gen = r.gen /\ LiveFix(r).parent = r.parent
          /\ LiveFix(r).state = "interrupted"
      BY <1>1, <2>5, <2>6 DEF LiveFix, Forget, Row
    <3>2. Moves(r, LiveFix(r))
      BY <2>5, <2>6, <3>1 DEF Moves, Resting
    <3> QED BY <2>6, <3>2, StoresMoves DEF Stores
  <2>7. CASE g # 0 /\ Write(a, OpFix(r, g))
    <3>1. CASE r.gen > 1
      BY <1>1, <2>2, <2>4, <2>7, <3>1, ResumeMoves, StoresMoves DEF OpFix, Stores
    <3>2. CASE ~(r.gen > 1)
      BY <1>1, <2>2, <2>4, <2>7, <3>2, EndMoves, StoresMoves DEF OpFix, Stores
    <3> QED BY <3>1, <3>2
  <2>8. ASSUME child # 0, NEW over \in BOOLEAN, Write(a, OrphanAgent(r, child, over)) PROVE Goal
    <3>1. child = r.gen
      BY <1>1, <2>3, <2>4, <2>8 DEF RowInv
    <3> QED BY <1>1, <2>2, <2>8, <3>1, OrphanMoves, StoresMoves DEF Stores
  <2> QED BY <2>3, <2>6, <2>7, <2>8
<1> QED BY <1>4, <1>5, <1>6, <1>7, <1>8, <1>9, <1>10 DEF CallStep

LEMMA CreateAppears ==
  ASSUME Inv, NEW b \in Agents, NEW p \in Agents \cup {NoAgent}, CreateRow(b, p)
  PROVE  Appears(db[b], db'[b]) /\ \A a \in Agents : a # b => db'[a] = db[a]
<1> DEFINE q == Begin([NoRow EXCEPT !.state = "creating", !.parent = p])
<1>1. q.gen = 1 /\ q.state = "creating"
  BY DEF Begin, NoRow
<1>2. db \in [Agents -> Row] /\ db[b].state = "none" /\ Write(b, q)
  BY DEF CreateRow, Inv, TypeOK
<1> QED BY <1>1, <1>2 DEF Write, Appears

\* No step but a create makes a row or puts one elsewhere in the tree.
Creates == \E a \in Agents, p \in Agents \cup {NoAgent} : CreateRow(a, p)

LEMMA OldMoves ==
  ASSUME Inv, Next, ~Creates, NEW a \in Agents
  PROVE  Moves(db[a], db'[a])
<1>1. Moves(db[a], db[a])
  BY DEF Moves
<1>2. ASSUME NEW b \in Agents, Turn(b) PROVE Moves(db[a], db'[a])
  <2> DEFINE q == [db[b] EXCEPT !.state = IF db[b].state = "ready" THEN "working" ELSE "ready"]
  <2>1. q.gen = db[b].gen /\ q.parent = db[b].parent /\ q.state \in {"ready", "working"}
    BY CallFacts DEF Row
  <2>2. Stores(b, q) /\ Moves(db[b], q)
    BY <1>2, <2>1 DEF Turn, Stores, Moves
  <2> QED BY <1>1, <2>2, StoresMoves
<1>3. ASSUME NEW b \in Agents, Thread(b) \/ CallStep(b) \/ ResumeOne(b) \/ Reconcile(b)
      PROVE  Moves(db[a], db'[a])
  BY <1>1, <1>3, ThreadMoves, CallMoves
<1>4. ASSUME UNCHANGED db PROVE Moves(db[a], db'[a])
  BY <1>1, <1>4
<1>5. ASSUME NEW b \in Agents, PlanResume(b) \/ Retire(b) \/ Sweep(b) \/ Dies(b)
      PROVE  Moves(db[a], db'[a])
  BY <1>4, <1>5 DEF PlanResume, Retire, Sweep, StartRetire, Dies
<1>6. ASSUME Boot \/ BootResume \/ Serve \/ Drain \/ Stop \/ Crash PROVE Moves(db[a], db'[a])
  BY <1>4, <1>6 DEF Boot, BootResume, Serve, Drain, Stop, Crash
<1> QED BY <1>2, <1>3, <1>5, <1>6 DEF Next, Creates

LEMMA NextMoves ==
  ASSUME Inv, Next, NEW a \in Agents
  PROVE  Moves(db[a], db'[a]) \/ Appears(db[a], db'[a])
<1>1. Moves(db[a], db[a])
  BY DEF Moves
<1> QED BY <1>1, OldMoves, CreateAppears DEF Creates

\* A move keeps the promise.
LEMMA MoveKeeps ==
  ASSUME Inv, NEW a \in Agents, Moves(db[a], db'[a]) \/ Appears(db[a], db'[a]),
         db' \in [Agents -> Row]
  PROVE  \/ Promise!Same(a) \/ Promise!Created(a) \/ Promise!Resumed(a)
         \/ Promise!CameUp(a) \/ Promise!Rested(a) \/ Promise!Over(a)
<1>1. /\ fate[a] = Fate(a) /\ fate'[a] = Fate(a)' /\ gen[a] = db[a].gen /\ gen'[a] = db'[a].gen
  BY DEF fate, gen
<1>2. db[a].state \in States /\ db'[a].state \in States /\ RowInv(db[a])
  BY CallFacts DEF Row
<1>3. db[a].state = "none" => db[a].gen = 0
  BY <1>2 DEF RowInv
<1> USE <1>1, <1>2, <1>3 DEF Fate, States, Ended, Resting, Active
<1>4. CASE db'[a].gen = db[a].gen /\ db'[a].state = db[a].state
  BY <1>4 DEF Promise!Same
<1>5. CASE db'[a].gen = db[a].gen /\ db'[a].state # db[a].state
  BY <1>5 DEF Moves, Appears, Promise!Same, Promise!CameUp, Promise!Rested, Promise!Over, Promise!Goes
<1>6. CASE db'[a].gen # db[a].gen
  BY <1>6 DEF Moves, Appears, Promise!Created, Promise!Resumed
<1> QED BY <1>4, <1>5, <1>6

\* The engine implements what AgentPromise promises of an agent: it comes up
\* once for each generation, rests between two of them, and never runs again
\* once it ended or was orphaned (create.rs, ops.rs and drain.rs).
THEOREM PromiseAlwaysKept == Spec => PromiseKept
<1>1. Init => Promise!PromiseInit
  <2> SUFFICES ASSUME Init PROVE Promise!PromiseInit
    OBVIOUS
  <2>1. ASSUME NEW a \in Agents PROVE Fate(a) = "absent" /\ db[a].gen = 0
    <3>1. db[a].state = "none" /\ db[a].gen = 0
      BY DEF Init, NoRow
    <3> QED BY <3>1 DEF Fate, Resting, Ended
  <2> QED BY <2>1 DEF Promise!PromiseInit, fate, gen
<1>2. Inv /\ Inv' /\ [Next]_vars => [Promise!PromiseNext]_(Promise!promiseVars)
  <2>1. ASSUME Inv, Inv', Next PROVE Promise!PromiseNext
    <3>1. db' \in [Agents -> Row]
      BY <2>1 DEF Inv, TypeOK
    <3> QED BY <2>1, <3>1, NextMoves, MoveKeeps DEF Promise!PromiseNext
  <2>2. ASSUME UNCHANGED vars PROVE UNCHANGED Promise!promiseVars
    BY <2>2 DEF vars, Promise!promiseVars, fate, gen, Fate
  <2> QED BY <2>1, <2>2
<1> QED BY <1>1, <1>2, Invariance, PTL DEF Spec, PromiseKept, Promise!PromiseSpec

\* drain.rs, settle: an agent that was in a turn when its drain killed it is
\* never noted down as paused, whatever the hooks write between the kill and
\* the settling.
THEOREM PausedAlwaysWasIdle == Spec => PausedWasIdle
<1> DEFINE P == \A a \in Agents : At(a, "drained") /\ sup[a].busy => db'[a].state # "paused"
<1>1. ASSUME Inv, Next PROVE P
  <2> SUFFICES ASSUME NEW a \in Agents, At(a, "drained"), sup[a].busy
               PROVE  db'[a].state # "paused"
    OBVIOUS
  <2>1. /\ db[a] \in Row /\ RowInv(db[a]) /\ db[a].state \in {"ready", "working"} \cup Ended
        /\ sup[a].at = "drained" /\ db \in [Agents -> Row]
        /\ call[a].pc \notin {"create", "resume", "orphan"} /\ db[a].gen # 0
        /\ eng # "reconcile" /\ ~(eng = "resume" /\ a \in todo)
    BY <1>1, ThreadFacts, CallFacts DEF At, SupInv, Runs
  <2>2. ASSUME UNCHANGED db PROVE db'[a].state # "paused"
    BY <2>1, <2>2 DEF Ended
  <2>3. ASSUME NEW b \in Agents, b # a, \A c \in Agents : c # b => db'[c] = db[c]
        PROVE  db'[a].state # "paused"
    BY <2>1, <2>3 DEF Ended
  <2>4. ASSUME NEW p \in Agents \cup {NoAgent}, NEW b \in Agents, CreateRow(b, p)
        PROVE  db'[a].state # "paused"
    <3>1. b # a
      BY <2>1, <2>4 DEF CreateRow, Ended
    <3> QED BY <2>1, <2>3, <2>4, <3>1 DEF CreateRow, Write
  <2>5. ASSUME NEW b \in Agents, Turn(b) PROVE db'[a].state # "paused"
    BY <1>1, <2>1, <2>5, CallFacts DEF Turn, Write, Row, Ended
  <2>6. ASSUME Thread(a) PROVE db'[a].state # "paused"
    <3>1. WriteEnd(a)
      BY <2>1, <2>6 DEF Thread, CheckSpawn, Spawn, RecordChild, Bound, Kill, KillFail, KillRetire,
             KillVoid, KillExit, Cut, RunShutdown, RunDrain, At
    <3>2. Settle(db[a], sup[a].busy).state # "paused"
      BY <2>1 DEF Settle, Forget, Row, Active, Ended
    <3> QED BY <2>1, <3>1, <3>2 DEF WriteEnd, Epilogue, Stores, Write, Ended
  <2>7. ASSUME CallStep(a) \/ ResumeOne(a) \/ Reconcile(a) PROVE db'[a].state # "paused"
    <3>1. RetireTx(db[a]).state \in Ended
      BY <2>1, RetiredRow
    <3>2. CASE WriteResume(a)
      BY <1>1, <2>1, <3>2, CallFacts DEF WriteResume, CanResume, Holds, CallInv, Resting, Ended
    <3>3. CASE Supervise(a) \/ RetireOrphan(a) \/ ResumeOne(a) \/ Reconcile(a)
      BY <2>1, <3>3 DEF Supervise, RetireOrphan, Holds, ResumeOne, Reconcile
    <3>4. CASE RetireLive(a) \/ RetireIdle(a)
      BY <2>2, <3>4 DEF RetireLive, RetireIdle
    <3>5. CASE Bury(a)
      BY <2>1, <3>1, <3>5 DEF Bury, Write, Ended
    <3> QED BY <2>7, <3>2, <3>3, <3>4, <3>5 DEF CallStep
  <2>8. ASSUME NEW b \in Agents, Thread(b) \/ CallStep(b) \/ ResumeOne(b) \/ Reconcile(b)
        PROVE  db'[a].state # "paused"
    BY <1>1, <2>3, <2>6, <2>7, <2>8, ThreadMoves, CallMoves
  <2>9. ASSUME NEW b \in Agents, PlanResume(b) \/ Retire(b) \/ Sweep(b) \/ Dies(b)
        PROVE  db'[a].state # "paused"
    BY <2>2, <2>9 DEF PlanResume, Retire, Sweep, StartRetire, Dies
  <2>10. ASSUME Boot \/ BootResume \/ Serve \/ Drain \/ Stop \/ Crash
         PROVE  db'[a].state # "paused"
    BY <2>2, <2>10 DEF Boot, BootResume, Serve, Drain, Stop, Crash
  <2> QED BY <1>1, <2>4, <2>5, <2>8, <2>9, <2>10 DEF Next
<1>2. Inv /\ [Next]_vars => [P]_vars
  BY <1>1
<1> QED BY <1>2, Invariance, PTL DEF Spec, PausedWasIdle
-----------------------------------------------------------------------------
(* The tree of agents.                                                     *)

\* An agent that was never created has no parent and is nobody's.
RootInv ==
  \A a \in Agents :
    /\ db[a].state = "none" => db[a].parent = NoAgent
    /\ db[a].parent # NoAgent => db[db[a].parent].state # "none"

TreeInv == RootInv /\ TreeIsShallow /\ CwdApart

LEMMA ParentsAreAgents ==
  ASSUME db \in [Agents -> Row], NEW S \in SUBSET Agents
  PROVE  Parents(S) \in SUBSET Agents
BY DEF Parents, Row

\* An agent's parent is among its ancestors, and so are theirs.
LEMMA AncestorsClosed ==
  ASSUME db \in [Agents -> Row], NEW a \in Agents
  PROVE  Parents(Ancestors(a) \cup {a}) \subseteq Ancestors(a)
<1>1. ASSUME NEW b \in Ancestors(a) \cup {a}, db[b].parent # NoAgent
      PROVE  db[b].parent \in Ancestors(a)
  <2>1. b \in Agents
    BY DEF Ancestors
  <2>2. ASSUME NEW S \in SUBSET Agents, Parents(S \cup {a}) \subseteq S
        PROVE  db[b].parent \in S
    <3>1. b \in S \cup {a}
      BY <2>2 DEF Ancestors
    <3>2. db[b].parent \in Parents(S \cup {a})
      BY <1>1, <3>1 DEF Parents
    <3> QED BY <2>2, <3>2
  <2>3. db[b].parent \in Agents
    BY <1>1, <2>1 DEF Row
  <2> QED BY <2>2, <2>3 DEF Ancestors
<1> QED BY <1>1 DEF Parents

\* Whatever is closed under parents holds the ancestors.
LEMMA AncestorsLeast ==
  ASSUME NEW a \in Agents, NEW S \in SUBSET Agents, Parents(S \cup {a}) \subseteq S
  PROVE  Ancestors(a) \subseteq S
BY DEF Ancestors

LEMMA AncestorsFinite ==
  ASSUME NEW a \in Agents
  PROVE  IsFiniteSet(Ancestors(a)) /\ Ancestors(a) \in SUBSET Agents
BY FS_Subset, LifecycleAssumption DEF Ancestors

\* Where parents stay, ancestors stay.
LEMMA AncestorsStay ==
  ASSUME \A b \in Agents : db'[b].parent = db[b].parent, NEW a \in Agents
  PROVE  Ancestors(a)' = Ancestors(a)
<1>1. \A S \in SUBSET Agents : Parents(S \cup {a})' = Parents(S \cup {a})
  BY DEF Parents
<1> QED BY <1>1 DEF Ancestors

\* Nobody is below an agent that was never created.
LEMMA NobodyBelow ==
  ASSUME db \in [Agents -> Row], RootInv, NEW a \in Agents, db[a].state = "none",
         NEW b \in Agents
  PROVE  a \notin Ancestors(b)
<1> DEFINE S == Ancestors(b) \ {a}
<1>1. S \in SUBSET Agents /\ Parents(S \cup {b}) \subseteq Parents(Ancestors(b) \cup {b})
  BY AncestorsFinite DEF Parents
<1>2. a \notin Parents(S \cup {b})
  <2> SUFFICES ASSUME NEW c \in S \cup {b}, db[c].parent = a PROVE FALSE
    BY DEF Parents
  <2>1. c \in Agents
    BY <1>1
  <2> QED BY <2>1, Numbers DEF RootInv
<1>3. Parents(S \cup {b}) \subseteq S
  BY <1>1, <1>2, AncestorsClosed
<1> HIDE DEF S
<1>4. Ancestors(b) \subseteq S
  BY <1>1, <1>3, AncestorsLeast
<1> QED BY <1>4 DEF S

\* A new agent comes below its parent, and nobody else moves.
LEMMA CreateTree ==
  ASSUME Inv, RootInv, NEW a \in Agents, NEW p \in Agents \cup {NoAgent}, CreateRow(a, p)
  PROVE  /\ Ancestors(a)' = IF p = NoAgent THEN {} ELSE Ancestors(p) \cup {p}
         /\ \A b \in Agents : b # a => Ancestors(b)' = Ancestors(b)
         /\ p # a
<1>1. db \in [Agents -> Row] /\ db' \in [Agents -> Row]
  BY CreateRowStep DEF Inv, TypeOK
<1>2. /\ db[a].state = "none" /\ db[a].parent = NoAgent /\ db'[a].parent = p
      /\ \A b \in Agents : b # a => db'[b] = db[b]
  BY <1>1 DEF CreateRow, Write, Begin, NoRow, RootInv
<1>3. p # a
  BY <1>2, Numbers DEF CreateRow, CheckLimits, LiveRow
<1>4. ASSUME NEW T \in SUBSET Agents, a \notin T PROVE Parents(T)' = Parents(T)
  BY <1>2, <1>4 DEF Parents
<1>5. ASSUME NEW T \in SUBSET Agents PROVE Parents(T) \subseteq Parents(T)'
  BY <1>2, <1>5 DEF Parents
<1>6. ASSUME NEW b \in Agents, b # a PROVE Ancestors(b)' = Ancestors(b)
  <2>1. PICK T \in SUBSET Agents : T = Ancestors(b)
    BY AncestorsFinite
  <2>2. a \notin T \cup {b} /\ Parents(T \cup {b}) \subseteq T
    BY <1>1, <1>2, <1>6, <2>1, NobodyBelow, AncestorsClosed
  <2>3. Parents(T \cup {b})' \subseteq T
    BY <1>4, <2>2
  <2>4. Ancestors(b)' \subseteq T
    BY <2>3 DEF Ancestors
  <2>5. T \subseteq Ancestors(b)'
    <3> SUFFICES ASSUME NEW x \in T, NEW S \in SUBSET Agents, Parents(S \cup {b})' \subseteq S
                 PROVE  x \in S
      BY DEF Ancestors
    <3>1. Parents(S \cup {b}) \subseteq S
      BY <1>5
    <3> QED BY <2>1, <3>1 DEF Ancestors
  <2> QED BY <2>1, <2>4, <2>5
<1>7. Ancestors(a)' = IF p = NoAgent THEN {} ELSE Ancestors(p) \cup {p}
  <2>1. CASE p = NoAgent
    <3>1. Parents({} \cup {a})' \subseteq {}
      BY <1>2, <2>1 DEF Parents
    <3> QED BY <2>1, <3>1 DEF Ancestors
  <2>2. CASE p # NoAgent
    <3>1. PICK T \in SUBSET Agents : T = Ancestors(p)
      BY <2>2, AncestorsFinite
    <3>2. a \notin T \cup {p} /\ Parents(T \cup {p}) \subseteq T
      BY <1>1, <1>2, <1>3, <2>2, <3>1, NobodyBelow, AncestorsClosed
    <3>3. Parents(T \cup {p} \cup {a})' \subseteq T \cup {p}
      <4>1. Parents(T \cup {p})' \subseteq T
        BY <1>4, <2>2, <3>2
      <4> QED BY <1>2, <4>1 DEF Parents
    <3>4. Ancestors(a)' \subseteq T \cup {p}
      BY <2>2, <3>3 DEF Ancestors
    <3>5. ASSUME NEW S \in SUBSET Agents, Parents(S \cup {a})' \subseteq S
          PROVE  T \cup {p} \subseteq S
      <4>1. p \in S
        BY <1>2, <2>2, <3>5 DEF Parents
      <4>2. Parents(S \cup {p})' \subseteq S
        BY <3>5, <4>1 DEF Parents
      <4>3. Parents(S \cup {p}) \subseteq S
        BY <1>5, <2>2, <4>2
      <4> QED BY <2>2, <3>1, <4>1, <4>3, AncestorsLeast
    <3>6. T \cup {p} \subseteq Ancestors(a)'
      BY <2>2, <3>5 DEF Ancestors
    <3> QED BY <2>2, <3>1, <3>4, <3>6
  <2> QED BY <2>1, <2>2
<1> QED BY <1>3, <1>6, <1>7

\* What a step keeps of the tree, but for a new agent.
LEMMA StillTree ==
  ASSUME Inv, TreeInv, \A a \in Agents : Moves(db[a], db'[a])
  PROVE  TreeInv'
<1>0. \A a \in Agents : /\ db'[a].parent = db[a].parent
                        /\ db[a].state = "none" <=> db'[a].state = "none"
  BY DEF Moves, Resting, Ended
<1>1. db \in [Agents -> Row]
  BY DEF Inv, TypeOK
<1>2. RootInv'
  <2>1. \A a \in Agents : db[a].parent \in Agents \cup {NoAgent}
    BY <1>1 DEF Row
  <2> QED BY <1>0, <2>1 DEF TreeInv, RootInv
<1>3. \A a \in Agents : Ancestors(a)' = Ancestors(a)
  BY <1>0, AncestorsStay
<1>4. \A a \in Agents :
        db'[a].state \in Active \cup Resting \cup {"creating"}
          => db[a].state \in Active \cup Resting \cup {"creating"}
  BY DEF Moves, Active, Resting, Ended
<1>5. CwdApart'
  BY <1>3, <1>4 DEF TreeInv, CwdApart
<1>6. TreeIsShallow'
  BY <1>3 DEF TreeInv, TreeIsShallow
<1> QED BY <1>2, <1>5, <1>6 DEF TreeInv

LEMMA CreateKeepsTree ==
  ASSUME Inv, TreeInv, NEW a \in Agents, NEW p \in Agents \cup {NoAgent}, CreateRow(a, p)
  PROVE  TreeInv'
<1>1. db \in [Agents -> Row] /\ db' \in [Agents -> Row]
  BY CreateRowStep DEF Inv, TypeOK
<1>2. /\ db[a].state = "none" /\ db'[a].parent = p /\ db'[a].state = "creating"
      /\ \A b \in Agents : b # a => db'[b] = db[b]
      /\ p # NoAgent => CheckLimits(p)
      /\ CwdFree(a, p)
  BY <1>1 DEF CreateRow, Write, Begin, NoRow
<1>3. /\ Ancestors(a)' = IF p = NoAgent THEN {} ELSE Ancestors(p) \cup {p}
      /\ \A b \in Agents : b # a => Ancestors(b)' = Ancestors(b)
      /\ p # a
  BY CreateTree DEF TreeInv
<1>4. RootInv'
  <2>1. p # NoAgent => db'[p].state # "none"
    BY <1>2, <1>3 DEF CheckLimits, LiveRow
  <2>2. \A b \in Agents : db[b].parent \in Agents \cup {NoAgent}
    BY <1>1 DEF Row
  <2> QED BY <1>2, <2>1, <2>2 DEF TreeInv, RootInv
<1>5. TreeIsShallow'
  <2>1. a \notin Ancestors(a)' /\ Cardinality(Ancestors(a)') <= MaxDepth
    <3>1. CASE p = NoAgent
      BY <1>3, <3>1, FS_EmptySet, LifecycleAssumption
    <3>2. CASE p # NoAgent
      <4>1. a \notin Ancestors(p)
        BY <1>1, <1>2, <3>2, NobodyBelow DEF TreeInv
      <4>2. PICK T \in SUBSET Agents : T = Ancestors(p) /\ IsFiniteSet(T)
        BY <3>2, AncestorsFinite
      <4>3. Cardinality(T) \in Nat /\ Cardinality(T) + 1 <= MaxDepth /\ MaxDepth \in Nat
        BY <1>2, <3>2, <4>2, FS_CardinalityType, LifecycleAssumption DEF CheckLimits
      <4>4. Cardinality(T \cup {p}) <= Cardinality(T) + 1
        <5>1. Cardinality(T \cup {p}) = IF p \in T THEN Cardinality(T) ELSE Cardinality(T) + 1
          BY <4>2, FS_AddElement
        <5> QED BY <4>3, <5>1
      <4>5. Cardinality(T \cup {p}) \in Nat
        BY <4>2, FS_AddElement, FS_CardinalityType
      <4> QED BY <1>3, <3>2, <4>1, <4>2, <4>3, <4>4, <4>5
    <3> QED BY <3>1, <3>2
  <2> QED BY <1>3, <2>1 DEF TreeInv, TreeIsShallow
<1>6. CwdApart'
  <2>1. ASSUME NEW b \in Agents, {a, b} \in Clash,
               db'[b].state \in Active \cup Resting \cup {"creating"}
        PROVE  b \in Ancestors(a)'
    <3>1. b # a
      BY <2>1, LifecycleAssumption
    <3>2. LiveRow(b)
      BY <1>2, <2>1, <3>1 DEF LiveRow, Active, Resting, Ended
    <3> QED BY <1>2, <1>3, <2>1, <3>1, <3>2 DEF CwdFree
  <2>2. ASSUME NEW b \in Agents, NEW c \in Agents, b # a, c # a, {b, c} \in Clash,
               {db'[b].state, db'[c].state} \subseteq Active \cup Resting \cup {"creating"}
        PROVE  b \in Ancestors(c)' \/ c \in Ancestors(b)'
    BY <1>2, <1>3, <2>2 DEF TreeInv, CwdApart
  <2>3. \A b \in Agents : {b, a} = {a, b}
    OBVIOUS
  <2> QED BY <2>1, <2>2, <2>3 DEF CwdApart
<1> QED BY <1>4, <1>5, <1>6 DEF TreeInv

-----------------------------------------------------------------------------
(* Whoever runs has a thread, where every write succeeds.                  *)

Quiet(r)  == ~AnyOpen(r) /\ r.state \notin Active \cup {"creating"}
Coming(a) == sup[a].at # "none" \/ call[a].pc \in {"create", "resume"}

\* Threads leave for a drain or a stop only in one.
GhostInv(a) ==
  eng \in {"resume", "serve"} =>
    /\ sup[a].at \notin {"cut", "undo", "drained"}
    /\ Quiet(db[a]) \/ Coming(a)

\* A step of agent a and what it owns.
Apart(a) ==
  /\ eng' = eng
  /\ \A b \in Agents : b # a => db'[b] = db[b] /\ sup'[b] = sup[b] /\ call'[b] = call[b]

LEMMA EndedQuiet ==
  ASSUME NEW r \in Row, RowInv(r), r.state \in Ended \cup {"orphaned"}
  PROVE  Quiet(r)
BY DEF RowInv, Quiet, AnyOpen, IsOpen, Ended, Active, Resting

\* A bring-up that failed leaves a quiet row.
LEMMA FailedQuiet ==
  ASSUME NEW r \in Row, RowInv(r), r.gen # 0, NEW from,
         r.state \in Ended \cup Resting \cup {"creating", "starting"}
  PROVE  /\ Quiet(FailAgent(Finish(r, r.gen)))
         /\ r.state # "creating" => Quiet(ResumeFailed(Finish(r, r.gen), from))
<1> DEFINE f == Finish(r, r.gen)
<1>1. f \in Row /\ f.state = r.state /\ ~AnyOpen(f)
  BY Finished, ClosedRow DEF Finish, Row
<1>2. Forget(f).op = f.op /\ Forget(f) \in Row /\ Forget(f).state = f.state
  BY <1>1, ClosedRow, Finished DEF Forget, Row
<1>3. FailAgent(f).op = f.op /\ FailAgent(f).state \in Ended
  BY <1>1, <1>2 DEF FailAgent, Row, Ended
<1>4. r.state # "creating" =>
        /\ ResumeFailed(f, from).op = f.op
        /\ ResumeFailed(f, from).state \in Resting \cup Ended
  BY <1>1, <1>2 DEF ResumeFailed, Row, Resting, Ended
<1> QED BY <1>1, <1>3, <1>4 DEF Quiet, AnyOpen, IsOpen, Ended, Resting, Active

LEMMA ThreadApart ==
  ASSUME Inv, NEW a \in Agents, Thread(a)
  PROVE  Apart(a)
<1>1. \A b \in Agents : b # a => db'[b] = db[b]
  BY ThreadMoves
<1>2. sup \in [Agents -> Sups] /\ call \in [Agents -> Calls]
  BY DEF Inv, TypeOK, Sups, Calls
<1>3. /\ sup' = sup \/ \E s : sup' = [sup EXCEPT ![a] = s]
      /\ call' = call \/ \E c : call' = [call EXCEPT ![a] = c]
      /\ eng' = eng
  BY DEF Thread, CheckSpawn, Spawn, RecordChild, Bound, Kill, KillFail, KillRetire, KillVoid,
         KillExit, Kills, Confirmed, Unconfirmed, Cut, RunShutdown, RunDrain, WriteEnd, Goto,
         EndThread
<1> QED BY <1>1, <1>2, <1>3 DEF Apart

LEMMA ThreadGhost ==
  ASSUME ~StoreFails, Inv, Inv', NEW a \in Agents, GhostInv(a), Thread(a)
  PROVE  GhostInv(a)'
<1> DEFINE r == db[a]
           s == sup[a]
<1> SUFFICES ASSUME eng \in {"resume", "serve"} PROVE GhostInv(a)'
  BY ThreadApart DEF Apart, GhostInv
<1>1. /\ s.at # "none" /\ r \in Row /\ RowInv(r) /\ r.gen # 0 /\ s.gen = r.gen /\ s.gen \in Gens
      /\ SupInv(a)
      /\ s.from # "create" => r.state # "creating"
      /\ db' \in [Agents -> Row] /\ db \in [Agents -> Row] /\ RowInv(db'[a])
      /\ ~Draining /\ ~Stopping /\ s.at \notin {"cut", "undo", "drained"}
  <2>1. s.at # "none"
    BY DEF Thread, CheckSpawn, Spawn, RecordChild, Bound, Kill, KillFail, KillRetire, KillVoid,
           KillExit, Cut, RunShutdown, RunDrain, WriteEnd, At
  <2>2. s.from # "create" => r.state # "creating"
    BY <2>1, ThreadFacts DEF RowInv, Resting
  <2> QED BY <2>1, <2>2, ThreadFacts, CallFacts
      DEF Draining, Stopping, GhostInv, Inv, TypeOK, AgentInv
<1>2. ASSUME sup'[a].at \notin {"none", "cut", "undo", "drained"} PROVE GhostInv(a)'
  BY <1>2 DEF GhostInv, Coming
<1>3. ASSUME sup' = [sup EXCEPT ![a] = NoSup], Quiet(db'[a]) PROVE GhostInv(a)'
  BY <1>3 DEF GhostInv, NoSup, Inv, TypeOK
<1>4. ASSUME sup' = [sup EXCEPT ![a] = NoSup], Stores(a, FailCreate(a)),
             s.at \in {"begin", "checked", "failing"}
      PROVE  GhostInv(a)'
  <2>1. r.state \in Ended \cup Resting \cup {"creating", "starting"}
    <3>1. r.op[s.gen] \in {"row", "pty"} \/ r.state \in Ended
      BY <1>1, <1>4 DEF SupInv, OpenOr, IsOpen
    <3>2. \A g \in Gens : /\ r.op[g] = "row" => r.state \in Resting \cup {"creating"}
                          /\ r.op[g] = "pty" => r.state = "starting"
      BY <1>1 DEF RowInv
    <3> QED BY <1>1, <3>1, <3>2
  <2>2. Quiet(FailAgent(Finish(r, r.gen)))
    BY <1>1, <2>1, FailedQuiet
  <2>3. r.state # "creating" => Quiet(ResumeFailed(Finish(r, r.gen), s.from))
    BY <1>1, <2>1, FailedQuiet
  <2>4. Quiet(FailCreate(a))
    BY <1>1, <2>2, <2>3 DEF FailCreate
  <2> QED BY <1>1, <1>3, <1>4, <2>4 DEF Stores, Write
<1>5. ASSUME Unconfirmed(a, TRUE) \/ Unconfirmed(a, FALSE) PROVE GhostInv(a)'
  <2>1. PICK over \in BOOLEAN : Stores(a, OrphanAgent(r, s.gen, over))
    BY <1>5 DEF Unconfirmed
  <2>2. db'[a] = OrphanAgent(r, s.gen, over) /\ FinishAll(r) \in Row
    BY <1>1, <2>1, ClosedRow DEF Stores, Write
  <2>3. db'[a].state = "orphaned"
    BY <1>1, <2>2 DEF OrphanAgent, Row
  <2>4. db'[a] \in Row
    BY <1>1
  <2>5. sup' = [sup EXCEPT ![a] = NoSup]
    BY <1>5 DEF Unconfirmed, EndThread
  <2> QED BY <1>1, <1>3, <2>3, <2>4, <2>5, EndedQuiet
<1>6. ASSUME NEW at \in {"checked", "spawned", "follow", "void", "run", "failing", "killed",
                         "exited"}, Goto(a, at)
      PROVE  GhostInv(a)'
  <2>1. sup'[a].at = at
    BY <1>6 DEF Goto, Inv, TypeOK
  <2> QED BY <1>2, <2>1
<1>7. ASSUME r.state \in Ended, UNCHANGED db, sup' = [sup EXCEPT ![a] = NoSup]
      PROVE  GhostInv(a)'
  BY <1>1, <1>3, <1>7, EndedQuiet
<1>8. CASE CheckSpawn(a)
  <2>1. CASE ~IsOpen(r, s.gen) /\ EndThread(a, FALSE) /\ UNCHANGED db
    <3>1. r.state \in Ended
      BY <1>1, <1>8, <2>1 DEF CheckSpawn, At, SupInv, OpenOr, IsOpen
    <3> QED BY <1>7, <2>1, <3>1 DEF EndThread
  <2>2. CASE Stores(a, FailCreate(a)) /\ EndThread(a, FALSE)
    BY <1>4, <1>8, <2>2 DEF CheckSpawn, At, EndThread
  <2> QED BY <1>1, <1>6, <1>8, <2>1, <2>2 DEF CheckSpawn
<1>9. CASE Spawn(a)
  BY <1>4, <1>6, <1>9 DEF Spawn, At, EndThread
<1>10. CASE RecordChild(a) \/ Bound(a)
  BY <1>1, <1>6, <1>10 DEF RecordChild, Bound
<1>11. CASE Kill(a)
  <2>1. CASE KillVoid(a) /\ Confirmed(a) /\ EndThread(a, FALSE)
    <3>1. r.state \in Ended
      BY <1>1, <2>1 DEF KillVoid, At, SupInv
    <3> QED BY <1>7, <2>1, <3>1 DEF Confirmed, EndThread
  <2> QED BY <1>5, <1>6, <1>11, <2>1 DEF Kill, KillFail, KillRetire, KillVoid, KillExit, Kills
<1>12. CASE Cut(a) \/ RunShutdown(a) \/ RunDrain(a)
  BY <1>1, <1>12 DEF Cut, RunShutdown, RunDrain, At
<1>13. CASE WriteEnd(a)
  <2>1. sup' = [sup EXCEPT ![a] = NoSup] /\ Stores(a, Epilogue(a))
    BY <1>13 DEF WriteEnd, EndThread
  <2>2. CASE s.at = "failing"
    BY <1>4, <2>1, <2>2 DEF Epilogue
  <2>3. CASE s.at \in {"killed", "exited"}
    <3>1. db'[a].state \in Ended
      <4>1. db'[a] = RetireTx(r) \/ db'[a] = FailAgent(r)
        BY <1>1, <2>1, <2>3 DEF Stores, Write, Epilogue
      <4>2. FailAgent(r).state \in Ended
        BY <1>1 DEF FailAgent, Forget, Row, Ended
      <4> QED BY <1>1, <4>1, <4>2, RetiredRow
    <3>2. db'[a] \in Row
      BY <1>1
    <3> QED BY <1>1, <1>3, <2>1, <3>1, <3>2, EndedQuiet
  <2> QED BY <1>1, <1>13, <2>2, <2>3 DEF WriteEnd
<1> QED BY <1>8, <1>9, <1>10, <1>11, <1>12, <1>13 DEF Thread

LEMMA CallApart ==
  ASSUME Inv, NEW a \in Agents, CallStep(a) \/ ResumeOne(a)
  PROVE  Apart(a)
<1>1. \A b \in Agents : b # a => db'[b] = db[b]
  BY CallMoves
<1>2. sup \in [Agents -> Sups] /\ call \in [Agents -> Calls]
  BY DEF Inv, TypeOK, Sups, Calls
<1>3. /\ sup' = sup \/ \E s : sup' = [sup EXCEPT ![a] = s]
      /\ call' = call \/ \E c : call' = [call EXCEPT ![a] = c]
      /\ eng' = eng
  BY DEF CallStep, WriteResume, Supervise, RetireLive, RetireIdle, Bury, RetireOrphan, ResumeOne,
         Release, CallGoto
<1> QED BY <1>1, <1>2, <1>3 DEF Apart

LEMMA CallGhost ==
  ASSUME ~StoreFails, Inv, Inv', NEW a \in Agents, GhostInv(a), CallStep(a) \/ ResumeOne(a)
  PROVE  GhostInv(a)'
<1> DEFINE r == db[a]
           c == call[a]
<1> SUFFICES ASSUME eng \in {"resume", "serve"} PROVE GhostInv(a)'
  BY CallApart DEF Apart, GhostInv
<1>1. /\ r \in Row /\ RowInv(r) /\ CallInv(a) /\ EngInv(a) /\ db' \in [Agents -> Row]
      /\ db \in [Agents -> Row] /\ RowInv(db'[a]) /\ db'[a] \in Row
      /\ call \in [Agents -> Calls] /\ sup \in [Agents -> Sups] /\ ~Draining /\ ~Stopping
      /\ sup[a].at \notin {"cut", "undo", "drained"} /\ (Quiet(r) \/ Coming(a))
  BY CallFacts DEF Draining, Stopping, GhostInv, Inv, TypeOK, AgentInv, Sups
<1>2. ASSUME UNCHANGED sup, Quiet(db'[a]) PROVE GhostInv(a)'
  BY <1>1, <1>2 DEF GhostInv
<1>3. ASSUME UNCHANGED sup, call'[a].pc = "resume" PROVE GhostInv(a)'
  BY <1>1, <1>3 DEF GhostInv, Coming
<1>4. ASSUME UNCHANGED <<db, sup>>, c.pc \notin {"create", "resume"} PROVE GhostInv(a)'
  BY <1>1, <1>4 DEF GhostInv, Coming
<1>5. ASSUME UNCHANGED sup, db'[a].state \in Ended \cup {"orphaned"} PROVE GhostInv(a)'
  BY <1>1, <1>2, <1>5, EndedQuiet
<1>6. CASE WriteResume(a)
  BY <1>1, <1>3, <1>4, <1>6 DEF WriteResume, Holds, Calls, Release
<1>7. CASE Supervise(a)
  <2>1. sup[a].at = "none" /\ sup' = [sup EXCEPT ![a] = [NoSup EXCEPT !.at = "begin",
                                               !.gen = c.gen, !.from = c.from]]
    BY <1>1, <1>7 DEF Supervise, CallInv
  <2>2. sup'[a].at = "begin"
    BY <1>1, <2>1 DEF NoSup
  <2> QED BY <2>2 DEF GhostInv, Coming
<1>8. CASE RetireLive(a) \/ RetireIdle(a)
  BY <1>4, <1>8 DEF RetireLive, RetireIdle, Holds
<1>9. CASE Bury(a)
  <2>1. db'[a] = RetireTx(r) /\ r.gen # 0
    BY <1>1, <1>9 DEF Bury, Write, Holds, CallInv, RowInv
  <2> QED BY <1>1, <1>5, <1>9, <2>1, RetiredRow DEF Bury
<1>10. CASE RetireOrphan(a)
  <2>1. r.state = "orphaned" /\ r.gen # 0
    BY <1>1, <1>10 DEF RetireOrphan, Holds, CallInv, RowInv
  <2>2. db'[a] = RetireTx(r) \/ \E over \in BOOLEAN : db'[a] = [r EXCEPT !.over = r.over \/ over]
    BY <1>1, <1>10 DEF RetireOrphan, Write
  <2>3. db'[a].state \in Ended \cup {"orphaned"}
    BY <1>1, <2>1, <2>2, RetiredRow DEF Row
  <2> QED BY <1>5, <1>10, <2>3 DEF RetireOrphan
<1>11. CASE ResumeOne(a)
  <2>1. r.state \in Resting /\ ~AnyOpen(r)
    BY <1>1, <1>11 DEF ResumeOne, EngInv
  <2>2. CASE Stores(a, ResumeFailed(r, r.state))
    <3>1. db'[a] = ResumeFailed(r, r.state)
      BY <1>1, <2>2 DEF Stores, Write
    <3>2. db'[a].op = r.op /\ db'[a].state \in Resting
      BY <1>1, <2>1, <3>1 DEF ResumeFailed, Forget, Row
    <3> QED BY <1>2, <1>11, <2>1, <3>2 DEF ResumeOne, Quiet, AnyOpen, IsOpen, Resting, Active
  <2>3. CASE Stores(a, FailAgent(r))
    <3>1. db'[a] = FailAgent(r)
      BY <1>1, <2>3 DEF Stores, Write
    <3>2. db'[a].state \in Ended
      BY <1>1, <3>1 DEF FailAgent, Forget, Row, Ended
    <3> QED BY <1>5, <1>11, <3>2 DEF ResumeOne
  <2> QED BY <1>1, <1>3, <1>11, <2>2, <2>3 DEF ResumeOne
<1> QED BY <1>6, <1>7, <1>8, <1>9, <1>10, <1>11 DEF CallStep

\* What is left: a step that starts a call, one of the agent, and the engine's.
LEMMA NextGhost ==
  ASSUME ~StoreFails, Inv, Inv', \A a \in Agents : GhostInv(a), [Next]_vars, NEW a \in Agents
  PROVE  GhostInv(a)'
<1>1. ASSUME NEW b \in Agents, Thread(b) \/ CallStep(b) \/ ResumeOne(b) PROVE GhostInv(a)'
  <2>1. CASE b = a
    BY <1>1, <2>1, ThreadGhost, CallGhost
  <2>2. CASE b # a
    <3>1. Apart(b)
      BY <1>1, ThreadApart, CallApart
    <3> QED BY <2>2, <3>1 DEF Apart, GhostInv, Coming
  <2> QED BY <2>1, <2>2
<1>2. ASSUME NEW b \in Agents, NEW p \in Agents \cup {NoAgent}, CreateRow(b, p)
      PROVE  GhostInv(a)'
  <2>0. /\ call' = [call EXCEPT ![b] = [pc |-> "create", gen |-> 1, from |-> "create"]]
        /\ call \in [Agents -> Calls] /\ UNCHANGED <<eng, sup>>
    BY <1>2 DEF CreateRow, Inv, TypeOK, Calls
  <2>1. \A d \in Agents : d # b => db'[d] = db[d] /\ call'[d] = call[d]
    <3>1. \A d \in Agents : d # b => db'[d] = db[d]
      BY <1>2, CreateAppears
    <3> QED BY <2>0, <3>1
  <2>2. call'[b].pc = "create" /\ UNCHANGED <<eng, sup>>
    BY <2>0
  <2> QED BY <2>1, <2>2 DEF GhostInv, Coming
<1>3. ASSUME NEW b \in Agents, PlanResume(b) \/ Retire(b) \/ Sweep(b) PROVE GhostInv(a)'
  <2>1. /\ UNCHANGED <<eng, db, sup>> /\ call[b].pc = "none"
        /\ \A d \in Agents : d # b => call'[d] = call[d]
    BY <1>3 DEF PlanResume, Retire, Sweep, StartRetire, Holds, CallGoto, Inv, TypeOK
  <2> QED BY <2>1 DEF GhostInv, Coming
<1>4. ASSUME NEW b \in Agents, Turn(b) PROVE GhostInv(a)'
  <2>1. /\ UNCHANGED <<eng, sup, call>> /\ sup[b].at # "none"
        /\ \A d \in Agents : d # b => db'[d] = db[d]
    BY <1>4 DEF Turn, Write, Inv, TypeOK
  <2> QED BY <2>1 DEF GhostInv, Coming
<1>5. ASSUME UNCHANGED <<eng, db, sup, call>> PROVE GhostInv(a)'
  BY <1>5 DEF GhostInv, Coming
<1>6. ASSUME NEW b \in Agents, Dies(b) \/ Reconcile(b) PROVE GhostInv(a)'
  BY <1>5, <1>6 DEF Dies, Reconcile, GhostInv
<1>7. CASE BootResume
  <2>1. EngInv(a)
    BY CallFacts
  <2>2. Quiet(db[a]) /\ sup[a].at = "none" /\ UNCHANGED <<db, sup>>
    BY <1>7, <2>1 DEF BootResume, EngInv, Quiet
  <2> QED BY <2>2 DEF GhostInv
<1>8. CASE Serve
  BY <1>8 DEF Serve, GhostInv, Coming
<1>9. CASE Boot \/ Drain \/ Stop \/ Crash
  BY <1>9 DEF Boot, Drain, Stop, Crash, GhostInv
<1> QED BY <1>1, <1>2, <1>3, <1>4, <1>5, <1>6, <1>7, <1>8, <1>9 DEF Next, vars

-----------------------------------------------------------------------------
LEMMA NextTree ==
  ASSUME Inv, TreeInv, [Next]_vars
  PROVE  TreeInv'
<1>1. CASE Creates
  BY <1>1, CreateKeepsTree DEF Creates
<1>2. CASE Next /\ ~Creates
  BY <1>2, OldMoves, StillTree
<1>3. CASE UNCHANGED vars
  BY <1>3, StillTree DEF vars, Moves
<1> QED BY <1>1, <1>2, <1>3

\* Before anybody is created nobody has a parent, and no engine is up.
LEMMA InitTree ==
  ASSUME Init
  PROVE  TreeInv /\ \A a \in Agents : GhostInv(a)
<1>1. \A a \in Agents : db[a].state = "none" /\ db[a].parent = NoAgent
  BY DEF Init, NoRow
<1>2. ASSUME NEW a \in Agents PROVE Ancestors(a) = {}
  <2>1. Parents({} \cup {a}) \subseteq {}
    BY <1>1 DEF Parents
  <2> QED BY <2>1 DEF Ancestors
<1>3. RootInv
  BY <1>1 DEF RootInv
<1>4. TreeIsShallow
  <2>1. Cardinality({}) = 0 /\ MaxDepth \in Nat
    BY FS_EmptySet, LifecycleAssumption
  <2> QED BY <1>2, <2>1 DEF TreeIsShallow
<1>5. CwdApart
  BY <1>1 DEF CwdApart, Active, Resting
<1> QED BY <1>3, <1>4, <1>5 DEF TreeInv, GhostInv, Init

\* Two agents in one directory are one above the other, and no tree grows
\* deeper than its limit, whatever fails (create.rs, write_row; lineage.rs).
THEOREM TreesAlwaysApart == Spec => [](CwdApart /\ TreeIsShallow)
<1>1. Init => TreeInv
  BY InitTree
<1>2. Inv /\ TreeInv /\ [Next]_vars => TreeInv'
  BY NextTree
<1>3. TreeInv => CwdApart /\ TreeIsShallow
  BY DEF TreeInv
<1> QED BY <1>1, <1>2, <1>3, Invariance, PTL DEF Spec

\* Where the store takes every write, an agent that runs also has a thread as
\* long as the engine serves (run.rs, boot order; create.rs).
THEOREM TreeIsAlwaysTrue == ASSUME ~StoreFails PROVE Spec => []TreeIsTrue
<1> DEFINE Ghosts == \A a \in Agents : GhostInv(a)
<1>1. Init => TreeInv /\ Ghosts
  BY InitTree
<1>2. Inv /\ Inv' /\ TreeInv /\ Ghosts /\ [Next]_vars => TreeInv' /\ Ghosts'
  BY NextTree, NextGhost
<1>3. Inv /\ TreeInv /\ Ghosts => TreeIsTrue
  <2> SUFFICES ASSUME Inv, TreeInv, Ghosts PROVE TreeIsTrue
    OBVIOUS
  <2>1. NoGhost
    BY DEF NoGhost, GhostInv, Quiet, Coming, Holds
  <2> QED BY <2>1 DEF TreeInv, TreeIsTrue
<1> HIDE DEF Ghosts
<1> QED BY <1>1, <1>2, <1>3, Invariance, PTL DEF Spec

=============================================================================
