-------------------------- MODULE EngineLock_proofs ---------------------------
(* Proofs about the engine lock, for every number of clients, engines,     *)
(* calls and faults.                                                       *)
EXTENDS EngineLock, TLAPS, FiniteSetTheorems

-----------------------------------------------------------------------------
(* The inductive invariant, in parts.                                      *)

\* Stages by what an engine owns in them: the socket's path, the pid in the
\* lock file, the database and the lock.
Listening == {"bound", "serving", "draining", "closing"}
Owning    == Listening \cup {"boot", "unlinked"}
Named     == Owning \cup {"closed"}
Holding   == Named \cup {"locked", "cleared"}

\* What the stage of an engine says about lock, database, file and socket.
EngineInv ==
  /\ \A e \in Engines :
       /\ stage[e] \in Holding <=> ex = e
       /\ e \in db <=> stage[e] \in Owning
       /\ stage[e] \in Named => pidfile = e
       /\ stage[e] \in Listening => socket = e
       /\ e \in term => stage[e] \in {"bound", "serving"}
       /\ e \in strangers => stage[e] = "dead"
  /\ sh # {} => ex = None
  /\ ~hit

\* A client between the check of a pid and its signal; behind the signal.
Verified == {"holder", "check", "hello", "kill"}
Waiting  == {"leaving", "holds", "reads"}

\* What a stop or restart knows of the pid it verified.
PidInv(c) ==
  /\ at[c] \in Verified \cup Waiting => pid[c] # None
  /\ at[c] \in Verified => pid[c] \notin strangers
  /\ pid[c] # None => stage[pid[c]] \in Listening \cup {"unlinked", "closed", "dead"}
  /\ result[c] # "none" => at[c] = "idle"
  /\ child[c] # None => at[c] \in {"wait", "idle"}
  /\ pid[c] # None /\ (at[c] \notin Verified \cup Waiting \cup {"refused",
        "idle"} \/ result[c] = "ok")
       => stage[pid[c]] = "dead"

\* An engine that has no lock yet has its spawner, and nobody spawns beside it.
SpawnInv ==
  /\ \A c \in Clients : at[c] \in {"reprobe", "spawn"} => spawning = c
  /\ spawning # Nobody => at[spawning] \in {"reprobe", "spawn", "wait"}
  /\ ~orphan =>
       /\ \A e, f \in Engines : Live(e) /\ Live(f) => e = f
       /\ \A e \in Engines : stage[e] = "new" =>
            spawning # Nobody /\ at[spawning] = "wait" /\ child[spawning] = e
       /\ \A c \in Clients : at[c] = "spawn" \/ (at[c] = "reprobe" /\ c \in sh) =>
            \A e \in Engines : ~Live(e)

\* A client whose call met nothing sees every engine rise, but for the one it
\* signalled itself.
CauseInv(c) ==
  c \notin spoiled =>
    /\ at[c] # "idle" =>
         \A e \in Engines : stage[e] \in Falling \/ e \in term =>
            at[c] \in Waiting /\ e = pid[c]
    /\ at[c] \in Verified => stage[pid[c]] \in {"bound", "serving"}
    /\ ~orphan =>
         /\ at[c] \in {"wait", "verify"} => Comes \/ Spawns
         /\ at[c] = "wait" /\ child[c] # None => stage[child[c]] \in Rising
         /\ at[c] # "refused" /\ result[c] # "failed"

Inv == TypeOK /\ EngineInv /\ (\A c \in Clients : PidInv(c)) /\ SpawnInv
       /\ (\A c \in Clients : CauseInv(c))

-----------------------------------------------------------------------------
(* Every action keeps each part of the invariant.                          *)

LEMMA NoneIsNoEngine == None \notin Engines
BY BoundsAreNumbers DEF None, Engines

\* While somebody holds the lock, a client that met nothing has an engine to
\* wait for.
LEMMA HolderRises ==
  ASSUME TypeOK, EngineInv, ex # None, NEW c \in Clients, CauseInv(c),
         c \notin spoiled, at[c] \notin Waiting \cup {"idle"}
  PROVE  Comes
<1>1. ex \in Engines /\ stage[ex] \in Holding
  BY DEF TypeOK, EngineInv
<1>2. stage[ex] \notin Falling
  BY <1>1 DEF CauseInv
<1> QED BY <1>1, <1>2 DEF Holding, Named, Owning, Listening, Rising, Falling, Comes

\* A pid that a client signals is an engine's: the type needs PidInv.
LEMMA TypeStep ==
  ASSUME TypeOK, EngineInv, \A c \in Clients : PidInv(c), Next
  PROVE  TypeOK'
<1> USE NobodyIsNoClient, NoneIsNoEngine DEF TypeOK, Places, ProbePlaces, Rising, Falling,
       EngineInv, Holding, Named, Owning, Listening, PidInv, Verified, Waiting
<1>1. ASSUME NEW e \in Engines, Lock(e) PROVE TypeOK'
  BY <1>1 DEF Lock, Becomes, rest, engineVars, clientVars
<1>2. ASSUME NEW e \in Engines, GiveUp(e) PROVE TypeOK'
  BY <1>2 DEF GiveUp, Becomes, rest, engineVars, clientVars
<1>3. ASSUME NEW e \in Engines, ClearPid(e) PROVE TypeOK'
  BY <1>3 DEF ClearPid, Becomes, rest, engineVars, clientVars
<1>4. ASSUME NEW e \in Engines, WritePid(e) PROVE TypeOK'
  BY <1>4 DEF WritePid, Becomes, rest, engineVars, clientVars
<1>5. ASSUME NEW e \in Engines, Bind(e) PROVE TypeOK'
  BY <1>5 DEF Bind, Becomes, rest, engineVars, clientVars
<1>6. ASSUME NEW e \in Engines, Serve(e) PROVE TypeOK'
  BY <1>6 DEF Serve, Moves, Becomes, rest, engineVars, clientVars
<1>7. ASSUME NEW e \in Engines, Drain(e) PROVE TypeOK'
  BY <1>7 DEF Drain, Moves, Becomes, rest, engineVars, clientVars
<1>8. ASSUME NEW e \in Engines, Drained(e) PROVE TypeOK'
  BY <1>8 DEF Drained, Moves, Becomes, rest, engineVars, clientVars
<1>9. ASSUME NEW e \in Engines, Unlink(e) PROVE TypeOK'
  BY <1>9 DEF Unlink, Becomes, rest, engineVars, clientVars
<1>10. ASSUME NEW e \in Engines, CloseDb(e) PROVE TypeOK'
  BY <1>10 DEF CloseDb, Becomes, rest, engineVars, clientVars
<1>11. ASSUME NEW e \in Engines, Unlock(e) PROVE TypeOK'
  BY <1>11 DEF Unlock, Becomes, rest, engineVars, clientVars
<1>12. ASSUME NEW e \in Engines, Crash(e) PROVE TypeOK'
  BY <1>12 DEF Crash, Becomes, Live, Busy, engineVars, clientVars
<1>13. ASSUME NEW e \in Engines, Sigint(e) PROVE TypeOK'
  BY <1>13 DEF Sigint, Becomes, Answers, Busy, engineVars, clientVars
<1>14. ASSUME NEW e \in Engines, Reuse(e) PROVE TypeOK'
  BY <1>14 DEF Reuse, engineVars, clientVars
<1>15. ASSUME NEW c \in Clients, NEW o \in {"ensure", "stop", "restart"}, Call(c, o) PROVE TypeOK'
  BY <1>15 DEF Call, Goes, engineVars
<1>16. ASSUME NEW c \in Clients, Hello(c) PROVE TypeOK'
  BY <1>16 DEF Hello, Returns, Goes, others, engineVars, clientVars
<1>17. ASSUME NEW c \in Clients, Unreachable(c) PROVE TypeOK'
  BY <1>17 DEF Unreachable, Goes, others, engineVars, clientVars
<1>18. ASSUME NEW c \in Clients, Probe(c, "probe", "wait", "queue") PROVE TypeOK'
  BY <1>18 DEF Probe, Goes, others, engineVars, clientVars
<1>19. ASSUME NEW c \in Clients, TakeSpawn(c) PROVE TypeOK'
  BY <1>19 DEF TakeSpawn, Goes, InVain, engineVars, clientVars
<1>20. ASSUME NEW c \in Clients, Recheck(c) PROVE TypeOK'
  BY <1>20 DEF Recheck, Probe, Goes, others, engineVars, clientVars
<1>21. ASSUME NEW c \in Clients, Spawn(c) PROVE TypeOK'
  BY <1>21 DEF Spawn, Goes, Becomes, engineVars, clientVars
<1>22. ASSUME NEW c \in Clients, ChildExited(c) PROVE TypeOK'
  BY <1>22 DEF ChildExited, Returns, Goes, others, engineVars, clientVars
<1>23. ASSUME NEW c \in Clients, TimeOut(c) PROVE TypeOK'
  BY <1>23 DEF TimeOut, Returns, Goes, others, engineVars, clientVars
<1>24. ASSUME NEW c \in Clients, Probe(c, "look", "verify", Then(c)) PROVE TypeOK'
  BY <1>24 DEF Probe, Goes, others, Then, engineVars, clientVars
<1>25. ASSUME NEW c \in Clients, Verify(c) PROVE TypeOK'
  BY <1>25 DEF Verify, Goes, others, Reachable, Listens, engineVars, clientVars
<1>26. ASSUME NEW c \in Clients, Probe(c, "holder", "check", "refused") PROVE TypeOK'
  BY <1>26 DEF Probe, Goes, others, engineVars, clientVars
<1>27. ASSUME NEW c \in Clients, Check(c) PROVE TypeOK'
  BY <1>27 DEF Check, Returns, Goes, others, engineVars, clientVars
<1>28. ASSUME NEW c \in Clients, Refused(c) PROVE TypeOK'
  BY <1>28 DEF Refused, Returns, Goes, others, engineVars, clientVars
<1>29. ASSUME NEW c \in Clients, AskVersion(c) PROVE TypeOK'
  BY <1>29 DEF AskVersion, Goes, others, Answered, Reachable, Answers, Listens, engineVars,
        clientVars
<1>30. ASSUME NEW c \in Clients, Kill(c) PROVE TypeOK'
  BY <1>30 DEF Kill, Goes, Live, Busy, engineVars, clientVars
<1>31. ASSUME NEW c \in Clients, Probe(c, "leaving", "holds", Then(c)) PROVE TypeOK'
  BY <1>31 DEF Probe, Goes, others, Then, engineVars, clientVars
<1>32. ASSUME NEW c \in Clients, Probe(c, "holds", "reads", Then(c)) PROVE TypeOK'
  BY <1>32 DEF Probe, Goes, others, Then, engineVars, clientVars
<1>33. ASSUME NEW c \in Clients, ReadPid(c) PROVE TypeOK'
  BY <1>33 DEF ReadPid, Goes, Then, others, engineVars, clientVars
<1>34. ASSUME NEW c \in Clients, Stopped(c) PROVE TypeOK'
  BY <1>34 DEF Stopped, Returns, Goes, others, engineVars, clientVars
<1>35. ASSUME NEW c \in Clients, Interrupt(c) PROVE TypeOK'
  BY <1>35 DEF Interrupt, Returns, Goes, Busy, engineVars, clientVars
<1>36. ASSUME NEW e \in Engines, EngineStep(e) PROVE TypeOK'
  BY <1>36, <1>1, <1>2, <1>3, <1>4, <1>5, <1>6, <1>7, <1>8, <1>9, <1>10, <1>11
  DEF EngineStep
<1>37. ASSUME NEW c \in Clients, EnsureStep(c) PROVE TypeOK'
  BY <1>37, <1>16, <1>17, <1>18, <1>19, <1>20, <1>21, <1>22, <1>23
  DEF EnsureStep
<1>38. ASSUME NEW c \in Clients, StopStep(c) PROVE TypeOK'
  BY <1>38, <1>24, <1>25, <1>26, <1>27, <1>28, <1>29, <1>30, <1>31, <1>32, <1>33, <1>34
  DEF StopStep, Leaving
<1> QED BY <1>12, <1>13, <1>14, <1>15, <1>35, <1>36, <1>37, <1>38 DEF Next, ClientStep

\* Only the holder of the lock writes file and socket, and opens the database.
LEMMA EngineInvStep ==
  ASSUME TypeOK, EngineInv, \A c \in Clients : PidInv(c), Next
  PROVE  EngineInv'
<1> USE NobodyIsNoClient, NoneIsNoEngine DEF TypeOK, Places, ProbePlaces, Rising, Falling,
       EngineInv, Holding, Named, Owning, Listening, PidInv, Verified, Waiting
<1>1. ASSUME NEW e \in Engines, Lock(e) PROVE EngineInv'
  BY <1>1 DEF Lock, Becomes, rest, engineVars, clientVars
<1>2. ASSUME NEW e \in Engines, GiveUp(e) PROVE EngineInv'
  BY <1>2 DEF GiveUp, Becomes, rest, engineVars, clientVars
<1>3. ASSUME NEW e \in Engines, ClearPid(e) PROVE EngineInv'
  BY <1>3 DEF ClearPid, Becomes, rest, engineVars, clientVars
<1>4. ASSUME NEW e \in Engines, WritePid(e) PROVE EngineInv'
  BY <1>4 DEF WritePid, Becomes, rest, engineVars, clientVars
<1>5. ASSUME NEW e \in Engines, Bind(e) PROVE EngineInv'
  BY <1>5 DEF Bind, Becomes, rest, engineVars, clientVars
<1>6. ASSUME NEW e \in Engines, Serve(e) PROVE EngineInv'
  BY <1>6 DEF Serve, Moves, Becomes, rest, engineVars, clientVars
<1>7. ASSUME NEW e \in Engines, Drain(e) PROVE EngineInv'
  BY <1>7 DEF Drain, Moves, Becomes, rest, engineVars, clientVars
<1>8. ASSUME NEW e \in Engines, Drained(e) PROVE EngineInv'
  BY <1>8 DEF Drained, Moves, Becomes, rest, engineVars, clientVars
<1>9. ASSUME NEW e \in Engines, Unlink(e) PROVE EngineInv'
  BY <1>9 DEF Unlink, Becomes, rest, engineVars, clientVars
<1>10. ASSUME NEW e \in Engines, CloseDb(e) PROVE EngineInv'
  BY <1>10 DEF CloseDb, Becomes, rest, engineVars, clientVars
<1>11. ASSUME NEW e \in Engines, Unlock(e) PROVE EngineInv'
  BY <1>11 DEF Unlock, Becomes, rest, engineVars, clientVars
<1>12. ASSUME NEW e \in Engines, Crash(e) PROVE EngineInv'
  BY <1>12 DEF Crash, Becomes, Live, Busy, engineVars, clientVars
<1>13. ASSUME NEW e \in Engines, Sigint(e) PROVE EngineInv'
  BY <1>13 DEF Sigint, Becomes, Answers, Busy, engineVars, clientVars
<1>14. ASSUME NEW e \in Engines, Reuse(e) PROVE EngineInv'
  BY <1>14 DEF Reuse, engineVars, clientVars
<1>15. ASSUME NEW c \in Clients, NEW o \in {"ensure", "stop", "restart"}, Call(c, o)
       PROVE  EngineInv'
  BY <1>15 DEF Call, Goes, engineVars
<1>16. ASSUME NEW c \in Clients, Hello(c) PROVE EngineInv'
  BY <1>16 DEF Hello, Returns, Goes, others, engineVars, clientVars
<1>17. ASSUME NEW c \in Clients, Unreachable(c) PROVE EngineInv'
  BY <1>17 DEF Unreachable, Goes, others, engineVars, clientVars
<1>18. ASSUME NEW c \in Clients, Probe(c, "probe", "wait", "queue") PROVE EngineInv'
  BY <1>18 DEF Probe, Goes, others, engineVars, clientVars
<1>19. ASSUME NEW c \in Clients, TakeSpawn(c) PROVE EngineInv'
  BY <1>19 DEF TakeSpawn, Goes, InVain, engineVars, clientVars
<1>20. ASSUME NEW c \in Clients, Recheck(c) PROVE EngineInv'
  BY <1>20 DEF Recheck, Probe, Goes, others, engineVars, clientVars
<1>21. ASSUME NEW c \in Clients, Spawn(c) PROVE EngineInv'
  BY <1>21 DEF Spawn, Goes, Becomes, engineVars, clientVars
<1>22. ASSUME NEW c \in Clients, ChildExited(c) PROVE EngineInv'
  BY <1>22 DEF ChildExited, Returns, Goes, others, engineVars, clientVars
<1>23. ASSUME NEW c \in Clients, TimeOut(c) PROVE EngineInv'
  BY <1>23 DEF TimeOut, Returns, Goes, others, engineVars, clientVars
<1>24. ASSUME NEW c \in Clients, Probe(c, "look", "verify", Then(c)) PROVE EngineInv'
  BY <1>24 DEF Probe, Goes, others, Then, engineVars, clientVars
<1>25. ASSUME NEW c \in Clients, Verify(c) PROVE EngineInv'
  BY <1>25 DEF Verify, Goes, others, Reachable, Listens, engineVars, clientVars
<1>26. ASSUME NEW c \in Clients, Probe(c, "holder", "check", "refused") PROVE EngineInv'
  BY <1>26 DEF Probe, Goes, others, engineVars, clientVars
<1>27. ASSUME NEW c \in Clients, Check(c) PROVE EngineInv'
  BY <1>27 DEF Check, Returns, Goes, others, engineVars, clientVars
<1>28. ASSUME NEW c \in Clients, Refused(c) PROVE EngineInv'
  BY <1>28 DEF Refused, Returns, Goes, others, engineVars, clientVars
<1>29. ASSUME NEW c \in Clients, AskVersion(c) PROVE EngineInv'
  BY <1>29 DEF AskVersion, Goes, others, Answered, Reachable, Answers, Listens, engineVars,
        clientVars
<1>30. ASSUME NEW c \in Clients, Kill(c) PROVE EngineInv'
  BY <1>30 DEF Kill, Goes, Live, Busy, engineVars, clientVars
<1>31. ASSUME NEW c \in Clients, Probe(c, "leaving", "holds", Then(c)) PROVE EngineInv'
  BY <1>31 DEF Probe, Goes, others, Then, engineVars, clientVars
<1>32. ASSUME NEW c \in Clients, Probe(c, "holds", "reads", Then(c)) PROVE EngineInv'
  BY <1>32 DEF Probe, Goes, others, Then, engineVars, clientVars
<1>33. ASSUME NEW c \in Clients, ReadPid(c) PROVE EngineInv'
  BY <1>33 DEF ReadPid, Goes, Then, others, engineVars, clientVars
<1>34. ASSUME NEW c \in Clients, Stopped(c) PROVE EngineInv'
  BY <1>34 DEF Stopped, Returns, Goes, others, engineVars, clientVars
<1>35. ASSUME NEW c \in Clients, Interrupt(c) PROVE EngineInv'
  BY <1>35 DEF Interrupt, Returns, Goes, Busy, engineVars, clientVars
<1>36. ASSUME NEW e \in Engines, EngineStep(e) PROVE EngineInv'
  BY <1>36, <1>1, <1>2, <1>3, <1>4, <1>5, <1>6, <1>7, <1>8, <1>9, <1>10, <1>11
  DEF EngineStep
<1>37. ASSUME NEW c \in Clients, EnsureStep(c) PROVE EngineInv'
  BY <1>37, <1>16, <1>17, <1>18, <1>19, <1>20, <1>21, <1>22, <1>23
  DEF EnsureStep
<1>38. ASSUME NEW c \in Clients, StopStep(c) PROVE EngineInv'
  BY <1>38, <1>24, <1>25, <1>26, <1>27, <1>28, <1>29, <1>30, <1>31, <1>32, <1>33, <1>34
  DEF StopStep, Leaving
<1> QED BY <1>12, <1>13, <1>14, <1>15, <1>35, <1>36, <1>37, <1>38 DEF Next, ClientStep

\* A wait ends when the lock is free or the file names another engine: in
\* both cases the one that was signalled is dead.
LEMMA PidInvStep ==
  ASSUME TypeOK, EngineInv, \A c \in Clients : PidInv(c), Next
  PROVE  \A d \in Clients : PidInv(d)'
<1> USE NobodyIsNoClient, NoneIsNoEngine DEF TypeOK, Places, ProbePlaces, Rising, Falling,
       EngineInv, Holding, Named, Owning, Listening, PidInv, Verified, Waiting
<1>1. ASSUME NEW e \in Engines, Lock(e) PROVE \A d \in Clients : PidInv(d)'
  BY <1>1 DEF Lock, Becomes, rest, engineVars, clientVars
<1>2. ASSUME NEW e \in Engines, GiveUp(e) PROVE \A d \in Clients : PidInv(d)'
  BY <1>2 DEF GiveUp, Becomes, rest, engineVars, clientVars
<1>3. ASSUME NEW e \in Engines, ClearPid(e) PROVE \A d \in Clients : PidInv(d)'
  BY <1>3 DEF ClearPid, Becomes, rest, engineVars, clientVars
<1>4. ASSUME NEW e \in Engines, WritePid(e) PROVE \A d \in Clients : PidInv(d)'
  BY <1>4 DEF WritePid, Becomes, rest, engineVars, clientVars
<1>5. ASSUME NEW e \in Engines, Bind(e) PROVE \A d \in Clients : PidInv(d)'
  BY <1>5 DEF Bind, Becomes, rest, engineVars, clientVars
<1>6. ASSUME NEW e \in Engines, Serve(e) PROVE \A d \in Clients : PidInv(d)'
  BY <1>6 DEF Serve, Moves, Becomes, rest, engineVars, clientVars
<1>7. ASSUME NEW e \in Engines, Drain(e) PROVE \A d \in Clients : PidInv(d)'
  BY <1>7 DEF Drain, Moves, Becomes, rest, engineVars, clientVars
<1>8. ASSUME NEW e \in Engines, Drained(e) PROVE \A d \in Clients : PidInv(d)'
  BY <1>8 DEF Drained, Moves, Becomes, rest, engineVars, clientVars
<1>9. ASSUME NEW e \in Engines, Unlink(e) PROVE \A d \in Clients : PidInv(d)'
  BY <1>9 DEF Unlink, Becomes, rest, engineVars, clientVars
<1>10. ASSUME NEW e \in Engines, CloseDb(e) PROVE \A d \in Clients : PidInv(d)'
  BY <1>10 DEF CloseDb, Becomes, rest, engineVars, clientVars
<1>11. ASSUME NEW e \in Engines, Unlock(e) PROVE \A d \in Clients : PidInv(d)'
  BY <1>11 DEF Unlock, Becomes, rest, engineVars, clientVars
<1>12. ASSUME NEW e \in Engines, Crash(e) PROVE \A d \in Clients : PidInv(d)'
  BY <1>12 DEF Crash, Becomes, Live, Busy, engineVars, clientVars
<1>13. ASSUME NEW e \in Engines, Sigint(e) PROVE \A d \in Clients : PidInv(d)'
  BY <1>13 DEF Sigint, Becomes, Answers, Busy, engineVars, clientVars
<1>14. ASSUME NEW e \in Engines, Reuse(e) PROVE \A d \in Clients : PidInv(d)'
  BY <1>14 DEF Reuse, engineVars, clientVars
<1>15. ASSUME NEW c \in Clients, NEW o \in {"ensure", "stop", "restart"}, Call(c, o)
       PROVE  \A d \in Clients : PidInv(d)'
  BY <1>15 DEF Call, Goes, engineVars
<1>16. ASSUME NEW c \in Clients, Hello(c) PROVE \A d \in Clients : PidInv(d)'
  BY <1>16 DEF Hello, Returns, Goes, others, engineVars, clientVars
<1>17. ASSUME NEW c \in Clients, Unreachable(c) PROVE \A d \in Clients : PidInv(d)'
  BY <1>17 DEF Unreachable, Goes, others, engineVars, clientVars
<1>18. ASSUME NEW c \in Clients, Probe(c, "probe", "wait", "queue")
       PROVE  \A d \in Clients : PidInv(d)'
  BY <1>18 DEF Probe, Goes, others, engineVars, clientVars
<1>19. ASSUME NEW c \in Clients, TakeSpawn(c) PROVE \A d \in Clients : PidInv(d)'
  BY <1>19 DEF TakeSpawn, Goes, InVain, engineVars, clientVars
<1>20. ASSUME NEW c \in Clients, Recheck(c) PROVE \A d \in Clients : PidInv(d)'
  BY <1>20 DEF Recheck, Probe, Goes, others, engineVars, clientVars
<1>21. ASSUME NEW c \in Clients, Spawn(c) PROVE \A d \in Clients : PidInv(d)'
  BY <1>21 DEF Spawn, Goes, Becomes, engineVars, clientVars
<1>22. ASSUME NEW c \in Clients, ChildExited(c) PROVE \A d \in Clients : PidInv(d)'
  BY <1>22 DEF ChildExited, Returns, Goes, others, engineVars, clientVars
<1>23. ASSUME NEW c \in Clients, TimeOut(c) PROVE \A d \in Clients : PidInv(d)'
  BY <1>23 DEF TimeOut, Returns, Goes, others, engineVars, clientVars
<1>24. ASSUME NEW c \in Clients, Probe(c, "look", "verify", Then(c))
       PROVE  \A d \in Clients : PidInv(d)'
  BY <1>24 DEF Probe, Goes, others, Then, engineVars, clientVars
<1>25. ASSUME NEW c \in Clients, Verify(c) PROVE \A d \in Clients : PidInv(d)'
  BY <1>25 DEF Verify, Goes, others, Reachable, Listens, engineVars, clientVars
<1>26. ASSUME NEW c \in Clients, Probe(c, "holder", "check", "refused")
       PROVE  \A d \in Clients : PidInv(d)'
  BY <1>26 DEF Probe, Goes, others, engineVars, clientVars
<1>27. ASSUME NEW c \in Clients, Check(c) PROVE \A d \in Clients : PidInv(d)'
  BY <1>27 DEF Check, Returns, Goes, others, engineVars, clientVars
<1>28. ASSUME NEW c \in Clients, Refused(c) PROVE \A d \in Clients : PidInv(d)'
  BY <1>28 DEF Refused, Returns, Goes, others, engineVars, clientVars
<1>29. ASSUME NEW c \in Clients, AskVersion(c) PROVE \A d \in Clients : PidInv(d)'
  BY <1>29 DEF AskVersion, Goes, others, Answered, Reachable, Answers, Listens, engineVars,
        clientVars
<1>30. ASSUME NEW c \in Clients, Kill(c) PROVE \A d \in Clients : PidInv(d)'
  BY <1>30 DEF Kill, Goes, Live, Busy, engineVars, clientVars
<1>31. ASSUME NEW c \in Clients, Probe(c, "leaving", "holds", Then(c))
       PROVE  \A d \in Clients : PidInv(d)'
  BY <1>31 DEF Probe, Goes, others, Then, engineVars, clientVars
<1>32. ASSUME NEW c \in Clients, Probe(c, "holds", "reads", Then(c))
       PROVE  \A d \in Clients : PidInv(d)'
  BY <1>32 DEF Probe, Goes, others, Then, engineVars, clientVars
<1>33. ASSUME NEW c \in Clients, ReadPid(c) PROVE \A d \in Clients : PidInv(d)'
  BY <1>33 DEF ReadPid, Goes, Then, others, engineVars, clientVars
<1>34. ASSUME NEW c \in Clients, Stopped(c) PROVE \A d \in Clients : PidInv(d)'
  BY <1>34 DEF Stopped, Returns, Goes, others, engineVars, clientVars
<1>35. ASSUME NEW c \in Clients, Interrupt(c) PROVE \A d \in Clients : PidInv(d)'
  BY <1>35 DEF Interrupt, Returns, Goes, Busy, engineVars, clientVars
<1>36. ASSUME NEW e \in Engines, EngineStep(e) PROVE \A d \in Clients : PidInv(d)'
  BY <1>36, <1>1, <1>2, <1>3, <1>4, <1>5, <1>6, <1>7, <1>8, <1>9, <1>10, <1>11
  DEF EngineStep
<1>37. ASSUME NEW c \in Clients, EnsureStep(c) PROVE \A d \in Clients : PidInv(d)'
  BY <1>37, <1>16, <1>17, <1>18, <1>19, <1>20, <1>21, <1>22, <1>23
  DEF EnsureStep
<1>38. ASSUME NEW c \in Clients, StopStep(c) PROVE \A d \in Clients : PidInv(d)'
  BY <1>38, <1>24, <1>25, <1>26, <1>27, <1>28, <1>29, <1>30, <1>31, <1>32, <1>33, <1>34
  DEF StopStep, Leaving
<1> QED BY <1>12, <1>13, <1>14, <1>15, <1>35, <1>36, <1>37, <1>38 DEF Next, ClientStep

\* The holder of the spawn lock leaves its wait only when its engine came up
\* or is dead; the lock it finds free in its second probe stays free.
LEMMA SpawnInvStep ==
  ASSUME TypeOK, EngineInv, \A c \in Clients : PidInv(c), SpawnInv, Next
  PROVE  SpawnInv'
<1> USE NobodyIsNoClient, NoneIsNoEngine DEF TypeOK, Places, ProbePlaces, Rising, Falling,
       EngineInv, Holding, Named, Owning, Listening, PidInv, Verified, Waiting, SpawnInv, Live,
       Answered, Answers, Spawns, Comes
<1>1. ASSUME NEW e \in Engines, Lock(e) PROVE SpawnInv'
  BY <1>1 DEF Lock, Becomes, rest, engineVars, clientVars
<1>2. ASSUME NEW e \in Engines, GiveUp(e) PROVE SpawnInv'
  BY <1>2 DEF GiveUp, Becomes, rest, engineVars, clientVars
<1>3. ASSUME NEW e \in Engines, ClearPid(e) PROVE SpawnInv'
  BY <1>3 DEF ClearPid, Becomes, rest, engineVars, clientVars
<1>4. ASSUME NEW e \in Engines, WritePid(e) PROVE SpawnInv'
  BY <1>4 DEF WritePid, Becomes, rest, engineVars, clientVars
<1>5. ASSUME NEW e \in Engines, Bind(e) PROVE SpawnInv'
  BY <1>5 DEF Bind, Becomes, rest, engineVars, clientVars
<1>6. ASSUME NEW e \in Engines, Serve(e) PROVE SpawnInv'
  BY <1>6 DEF Serve, Moves, Becomes, rest, engineVars, clientVars
<1>7. ASSUME NEW e \in Engines, Drain(e) PROVE SpawnInv'
  BY <1>7 DEF Drain, Moves, Becomes, rest, engineVars, clientVars
<1>8. ASSUME NEW e \in Engines, Drained(e) PROVE SpawnInv'
  BY <1>8 DEF Drained, Moves, Becomes, rest, engineVars, clientVars
<1>9. ASSUME NEW e \in Engines, Unlink(e) PROVE SpawnInv'
  BY <1>9 DEF Unlink, Becomes, rest, engineVars, clientVars
<1>10. ASSUME NEW e \in Engines, CloseDb(e) PROVE SpawnInv'
  BY <1>10 DEF CloseDb, Becomes, rest, engineVars, clientVars
<1>11. ASSUME NEW e \in Engines, Unlock(e) PROVE SpawnInv'
  BY <1>11 DEF Unlock, Becomes, rest, engineVars, clientVars
<1>12. ASSUME NEW e \in Engines, Crash(e) PROVE SpawnInv'
  BY <1>12 DEF Crash, Becomes, Live, Busy, engineVars, clientVars
<1>13. ASSUME NEW e \in Engines, Sigint(e) PROVE SpawnInv'
  BY <1>13 DEF Sigint, Becomes, Answers, Busy, engineVars, clientVars
<1>14. ASSUME NEW e \in Engines, Reuse(e) PROVE SpawnInv'
  BY <1>14 DEF Reuse, engineVars, clientVars
<1>15. ASSUME NEW c \in Clients, NEW o \in {"ensure", "stop", "restart"}, Call(c, o)
       PROVE  SpawnInv'
  BY <1>15 DEF Call, Goes, engineVars
<1>16. ASSUME NEW c \in Clients, Hello(c) PROVE SpawnInv'
  BY <1>16 DEF Hello, Returns, Goes, others, engineVars, clientVars
<1>17. ASSUME NEW c \in Clients, Unreachable(c) PROVE SpawnInv'
  BY <1>17 DEF Unreachable, Goes, others, engineVars, clientVars
<1>18. ASSUME NEW c \in Clients, Probe(c, "probe", "wait", "queue") PROVE SpawnInv'
  BY <1>18 DEF Probe, Goes, others, engineVars, clientVars
<1>19. ASSUME NEW c \in Clients, TakeSpawn(c) PROVE SpawnInv'
  BY <1>19 DEF TakeSpawn, Goes, InVain, engineVars, clientVars
<1>20. ASSUME NEW c \in Clients, Recheck(c) PROVE SpawnInv'
  BY <1>20 DEF Recheck, Probe, Goes, others, engineVars, clientVars
<1>21. ASSUME NEW c \in Clients, Spawn(c) PROVE SpawnInv'
  BY <1>21 DEF Spawn, Goes, Becomes, engineVars, clientVars
<1>22. ASSUME NEW c \in Clients, ChildExited(c) PROVE SpawnInv'
  BY <1>22 DEF ChildExited, Returns, Goes, others, engineVars, clientVars
<1>23. ASSUME NEW c \in Clients, TimeOut(c) PROVE SpawnInv'
  BY <1>23 DEF TimeOut, Returns, Goes, others, engineVars, clientVars
<1>24. ASSUME NEW c \in Clients, Probe(c, "look", "verify", Then(c)) PROVE SpawnInv'
  BY <1>24 DEF Probe, Goes, others, Then, engineVars, clientVars
<1>25. ASSUME NEW c \in Clients, Verify(c) PROVE SpawnInv'
  BY <1>25 DEF Verify, Goes, others, Reachable, Listens, engineVars, clientVars
<1>26. ASSUME NEW c \in Clients, Probe(c, "holder", "check", "refused") PROVE SpawnInv'
  BY <1>26 DEF Probe, Goes, others, engineVars, clientVars
<1>27. ASSUME NEW c \in Clients, Check(c) PROVE SpawnInv'
  BY <1>27 DEF Check, Returns, Goes, others, engineVars, clientVars
<1>28. ASSUME NEW c \in Clients, Refused(c) PROVE SpawnInv'
  BY <1>28 DEF Refused, Returns, Goes, others, engineVars, clientVars
<1>29. ASSUME NEW c \in Clients, AskVersion(c) PROVE SpawnInv'
  BY <1>29 DEF AskVersion, Goes, others, Answered, Reachable, Answers, Listens, engineVars,
        clientVars
<1>30. ASSUME NEW c \in Clients, Kill(c) PROVE SpawnInv'
  BY <1>30 DEF Kill, Goes, Live, Busy, engineVars, clientVars
<1>31. ASSUME NEW c \in Clients, Probe(c, "leaving", "holds", Then(c)) PROVE SpawnInv'
  BY <1>31 DEF Probe, Goes, others, Then, engineVars, clientVars
<1>32. ASSUME NEW c \in Clients, Probe(c, "holds", "reads", Then(c)) PROVE SpawnInv'
  BY <1>32 DEF Probe, Goes, others, Then, engineVars, clientVars
<1>33. ASSUME NEW c \in Clients, ReadPid(c) PROVE SpawnInv'
  BY <1>33 DEF ReadPid, Goes, Then, others, engineVars, clientVars
<1>34. ASSUME NEW c \in Clients, Stopped(c) PROVE SpawnInv'
  BY <1>34 DEF Stopped, Returns, Goes, others, engineVars, clientVars
<1>35. ASSUME NEW c \in Clients, Interrupt(c) PROVE SpawnInv'
  <2>1. CASE spawning = c
    <3>1. /\ UNCHANGED <<engineVars, child>> /\ spawning' = Nobody
          /\ at' = [at EXCEPT ![c] = "idle"] /\ sh' = sh \ {c}
          /\ orphan' = (orphan \/ (child[c] # None /\ stage[child[c]] = "new"))
      BY <1>35, <2>1 DEF Interrupt, Returns, Goes
    <3>2. ASSUME ~orphan' PROVE ~orphan /\ \A e \in Engines : stage[e] # "new"
      <4>1. ~orphan /\ ~(child[c] # None /\ stage[child[c]] = "new")
        BY <3>1, <3>2
      <4> QED BY <2>1, <4>1
    <3> QED BY <2>1, <3>1, <3>2 DEF engineVars
  <2>2. CASE spawning # c
    BY <1>35, <2>2 DEF Interrupt, Returns, Goes, Busy, engineVars, clientVars
  <2> QED BY <2>1, <2>2
<1>36. ASSUME NEW e \in Engines, EngineStep(e) PROVE SpawnInv'
  BY <1>36, <1>1, <1>2, <1>3, <1>4, <1>5, <1>6, <1>7, <1>8, <1>9, <1>10, <1>11
  DEF EngineStep
<1>37. ASSUME NEW c \in Clients, EnsureStep(c) PROVE SpawnInv'
  BY <1>37, <1>16, <1>17, <1>18, <1>19, <1>20, <1>21, <1>22, <1>23
  DEF EnsureStep
<1>38. ASSUME NEW c \in Clients, StopStep(c) PROVE SpawnInv'
  BY <1>38, <1>24, <1>25, <1>26, <1>27, <1>28, <1>29, <1>30, <1>31, <1>32, <1>33, <1>34
  DEF StopStep, Leaving
<1> QED BY <1>12, <1>13, <1>14, <1>15, <1>35, <1>36, <1>37, <1>38 DEF Next, ClientStep

\* An engine falls, or a wait becomes vain, only by what spoils the call.
LEMMA CauseInvStep ==
  ASSUME TypeOK, EngineInv, \A c \in Clients : PidInv(c), SpawnInv,
        \A c \in Clients : CauseInv(c), Next
  PROVE  \A d \in Clients : CauseInv(d)'
<1> USE NobodyIsNoClient, NoneIsNoEngine DEF TypeOK, Places, ProbePlaces, Rising, Falling,
       EngineInv, Holding, Named, Owning, Listening, PidInv, Verified, Waiting, SpawnInv,
       CauseInv, Live, Answered, Answers, Spawns, Comes
<1>1. ASSUME NEW e \in Engines, Lock(e) PROVE \A d \in Clients : CauseInv(d)'
  BY <1>1 DEF Lock, Becomes, rest, engineVars, clientVars
<1>2. ASSUME NEW e \in Engines, GiveUp(e) PROVE \A d \in Clients : CauseInv(d)'
  BY <1>2 DEF GiveUp, Becomes, rest, engineVars, clientVars
<1>3. ASSUME NEW e \in Engines, ClearPid(e) PROVE \A d \in Clients : CauseInv(d)'
  BY <1>3 DEF ClearPid, Becomes, rest, engineVars, clientVars
<1>4. ASSUME NEW e \in Engines, WritePid(e) PROVE \A d \in Clients : CauseInv(d)'
  BY <1>4 DEF WritePid, Becomes, rest, engineVars, clientVars
<1>5. ASSUME NEW e \in Engines, Bind(e) PROVE \A d \in Clients : CauseInv(d)'
  BY <1>5 DEF Bind, Becomes, rest, engineVars, clientVars
<1>6. ASSUME NEW e \in Engines, Serve(e) PROVE \A d \in Clients : CauseInv(d)'
  BY <1>6 DEF Serve, Moves, Becomes, rest, engineVars, clientVars
<1>7. ASSUME NEW e \in Engines, Drain(e) PROVE \A d \in Clients : CauseInv(d)'
  BY <1>7 DEF Drain, Moves, Becomes, rest, engineVars, clientVars
<1>8. ASSUME NEW e \in Engines, Drained(e) PROVE \A d \in Clients : CauseInv(d)'
  BY <1>8 DEF Drained, Moves, Becomes, rest, engineVars, clientVars
<1>9. ASSUME NEW e \in Engines, Unlink(e) PROVE \A d \in Clients : CauseInv(d)'
  BY <1>9 DEF Unlink, Becomes, rest, engineVars, clientVars
<1>10. ASSUME NEW e \in Engines, CloseDb(e) PROVE \A d \in Clients : CauseInv(d)'
  BY <1>10 DEF CloseDb, Becomes, rest, engineVars, clientVars
<1>11. ASSUME NEW e \in Engines, Unlock(e) PROVE \A d \in Clients : CauseInv(d)'
  BY <1>11 DEF Unlock, Becomes, rest, engineVars, clientVars
<1>12. ASSUME NEW e \in Engines, Crash(e) PROVE \A d \in Clients : CauseInv(d)'
  BY <1>12 DEF Crash, Becomes, Live, Busy, engineVars, clientVars
<1>13. ASSUME NEW e \in Engines, Sigint(e) PROVE \A d \in Clients : CauseInv(d)'
  BY <1>13 DEF Sigint, Becomes, Answers, Busy, engineVars, clientVars
<1>14. ASSUME NEW e \in Engines, Reuse(e) PROVE \A d \in Clients : CauseInv(d)'
  BY <1>14 DEF Reuse, engineVars, clientVars
<1>15. ASSUME NEW c \in Clients, NEW o \in {"ensure", "stop", "restart"}, Call(c, o)
       PROVE  \A d \in Clients : CauseInv(d)'
  BY <1>15 DEF Call, Goes, engineVars
<1>16. ASSUME NEW c \in Clients, Hello(c) PROVE \A d \in Clients : CauseInv(d)'
  BY <1>16 DEF Hello, Returns, Goes, others, engineVars, clientVars
<1>17. ASSUME NEW c \in Clients, Unreachable(c) PROVE \A d \in Clients : CauseInv(d)'
  BY <1>17 DEF Unreachable, Goes, others, engineVars, clientVars
<1>18. ASSUME NEW c \in Clients, Probe(c, "probe", "wait", "queue")
       PROVE  \A d \in Clients : CauseInv(d)'
  <2>1. CASE ex # None /\ c \notin sh
    <3>1. c \notin spoiled => Comes
      BY <1>18, <2>1, HolderRises DEF Probe
    <3>2. /\ UNCHANGED <<engineVars, spawning, op, pid, child, result, orphan, spoiled>>
          /\ at' = [at EXCEPT ![c] = "wait"] /\ at[c] = "probe"
      BY <1>18, <2>1 DEF Probe, Goes, others
    <3>3. (Comes' <=> Comes) /\ (Spawns' <=> Spawns)
      BY <3>2 DEF engineVars
    <3>4. ASSUME NEW d \in Clients PROVE CauseInv(d)'
      BY <3>1, <3>2, <3>3 DEF engineVars
    <3> QED BY <3>4
  <2>2. CASE ex = None /\ c \notin sh
    BY <1>18, <2>2 DEF Probe, Goes, others, engineVars, clientVars
  <2>3. CASE c \in sh
    BY <1>18, <2>3 DEF Probe, Goes, others, engineVars, clientVars
  <2> QED BY <2>1, <2>2, <2>3, <1>18 DEF TypeOK
<1>19. ASSUME NEW c \in Clients, TakeSpawn(c) PROVE \A d \in Clients : CauseInv(d)'
  <2>1. CASE spawning = Nobody
    BY <1>19, <2>1 DEF TakeSpawn, Goes, InVain, engineVars, clientVars
  <2>2. CASE spawning # Nobody
    <3>1. /\ UNCHANGED <<engineVars, spawning, op, pid, child, result, orphan>>
          /\ at' = [at EXCEPT ![c] = "wait"] /\ at[c] = "queue"
          /\ spoiled' = IF ~Comes /\ ~Spawns THEN spoiled \cup {c} ELSE spoiled
      BY <1>19, <2>2 DEF TakeSpawn, Goes, InVain
    <3>2. (Comes' <=> Comes) /\ (Spawns => Spawns')
      BY <3>1 DEF engineVars
    <3>3. ~orphan /\ c \notin spoiled' => Comes' \/ Spawns'
      BY <3>1, <3>2
    <3>4. ASSUME NEW d \in Clients PROVE CauseInv(d)'
      BY <3>1, <3>2, <3>3 DEF engineVars
    <3> QED BY <3>4
  <2> QED BY <2>1, <2>2
<1>20. ASSUME NEW c \in Clients, Recheck(c) PROVE \A d \in Clients : CauseInv(d)'
  <2>1. CASE ex # None /\ c \notin sh
    <3>1. \A d \in Clients : at[d] \in {"reprobe", "wait", "verify"} /\ d \notin spoiled => Comes
      BY <2>1, HolderRises
    <3>2. /\ UNCHANGED <<engineVars, spawning, op, pid, child, result, orphan, spoiled>>
          /\ at' = [at EXCEPT ![c] = "wait"] /\ at[c] = "reprobe"
      BY <1>20, <2>1 DEF Recheck, Probe, Goes, others
    <3>3. Comes' <=> Comes
      BY <3>2 DEF engineVars
    <3>4. ASSUME NEW d \in Clients PROVE CauseInv(d)'
      BY <3>1, <3>2, <3>3 DEF engineVars
    <3> QED BY <3>4
  <2>2. CASE ex = None /\ c \notin sh
    BY <1>20, <2>2 DEF Recheck, Probe, Goes, others, engineVars, clientVars
  <2>3. CASE c \in sh
    BY <1>20, <2>3 DEF Recheck, Probe, Goes, others, engineVars, clientVars
  <2> QED BY <2>1, <2>2, <2>3, <1>20 DEF TypeOK
<1>21. ASSUME NEW c \in Clients, Spawn(c) PROVE \A d \in Clients : CauseInv(d)'
  BY <1>21 DEF Spawn, Goes, Becomes, engineVars, clientVars
<1>22. ASSUME NEW c \in Clients, ChildExited(c) PROVE \A d \in Clients : CauseInv(d)'
  BY <1>22 DEF ChildExited, Returns, Goes, others, engineVars, clientVars
<1>23. ASSUME NEW c \in Clients, TimeOut(c) PROVE \A d \in Clients : CauseInv(d)'
  BY <1>23 DEF TimeOut, Returns, Goes, others, engineVars, clientVars
<1>24. ASSUME NEW c \in Clients, Probe(c, "look", "verify", Then(c))
       PROVE  \A d \in Clients : CauseInv(d)'
  <2>1. CASE ex # None /\ c \notin sh
    BY <1>24, <2>1 DEF Probe, Goes, others, Then, engineVars, clientVars
  <2>2. CASE ex = None /\ c \notin sh
    BY <1>24, <2>2 DEF Probe, Goes, others, Then, engineVars, clientVars
  <2>3. CASE c \in sh
    BY <1>24, <2>3 DEF Probe, Goes, others, Then, engineVars, clientVars
  <2> QED BY <2>1, <2>2, <2>3, <1>24 DEF TypeOK
<1>25. ASSUME NEW c \in Clients, Verify(c) PROVE \A d \in Clients : CauseInv(d)'
  BY <1>25 DEF Verify, Goes, others, Reachable, Listens, engineVars, clientVars
<1>26. ASSUME NEW c \in Clients, Probe(c, "holder", "check", "refused")
       PROVE  \A d \in Clients : CauseInv(d)'
  <2>1. CASE ex # None /\ c \notin sh
    BY <1>26, <2>1 DEF Probe, Goes, others, engineVars, clientVars
  <2>2. CASE ex = None /\ c \notin sh
    BY <1>26, <2>2 DEF Probe, Goes, others, engineVars, clientVars
  <2>3. CASE c \in sh
    BY <1>26, <2>3 DEF Probe, Goes, others, engineVars, clientVars
  <2> QED BY <2>1, <2>2, <2>3, <1>26 DEF TypeOK
<1>27. ASSUME NEW c \in Clients, Check(c) PROVE \A d \in Clients : CauseInv(d)'
  BY <1>27 DEF Check, Returns, Goes, others, engineVars, clientVars
<1>28. ASSUME NEW c \in Clients, Refused(c) PROVE \A d \in Clients : CauseInv(d)'
  BY <1>28 DEF Refused, Returns, Goes, others, engineVars, clientVars
<1>29. ASSUME NEW c \in Clients, AskVersion(c) PROVE \A d \in Clients : CauseInv(d)'
  BY <1>29 DEF AskVersion, Goes, others, Answered, Reachable, Answers, Listens, engineVars,
        clientVars
<1>30. ASSUME NEW c \in Clients, Kill(c) PROVE \A d \in Clients : CauseInv(d)'
  BY <1>30 DEF Kill, Goes, Live, Busy, engineVars, clientVars
<1>31. ASSUME NEW c \in Clients, Probe(c, "leaving", "holds", Then(c))
       PROVE  \A d \in Clients : CauseInv(d)'
  <2>1. CASE ex # None /\ c \notin sh
    BY <1>31, <2>1 DEF Probe, Goes, others, Then, engineVars, clientVars
  <2>2. CASE ex = None /\ c \notin sh
    BY <1>31, <2>2 DEF Probe, Goes, others, Then, engineVars, clientVars
  <2>3. CASE c \in sh
    BY <1>31, <2>3 DEF Probe, Goes, others, Then, engineVars, clientVars
  <2> QED BY <2>1, <2>2, <2>3, <1>31 DEF TypeOK
<1>32. ASSUME NEW c \in Clients, Probe(c, "holds", "reads", Then(c))
       PROVE  \A d \in Clients : CauseInv(d)'
  <2>1. CASE ex # None /\ c \notin sh
    BY <1>32, <2>1 DEF Probe, Goes, others, Then, engineVars, clientVars
  <2>2. CASE ex = None /\ c \notin sh
    BY <1>32, <2>2 DEF Probe, Goes, others, Then, engineVars, clientVars
  <2>3. CASE c \in sh
    BY <1>32, <2>3 DEF Probe, Goes, others, Then, engineVars, clientVars
  <2> QED BY <2>1, <2>2, <2>3, <1>32 DEF TypeOK
<1>33. ASSUME NEW c \in Clients, ReadPid(c) PROVE \A d \in Clients : CauseInv(d)'
  BY <1>33 DEF ReadPid, Goes, Then, others, engineVars, clientVars
<1>34. ASSUME NEW c \in Clients, Stopped(c) PROVE \A d \in Clients : CauseInv(d)'
  BY <1>34 DEF Stopped, Returns, Goes, others, engineVars, clientVars
<1>35. ASSUME NEW c \in Clients, Interrupt(c) PROVE \A d \in Clients : CauseInv(d)'
  BY <1>35 DEF Interrupt, Returns, Goes, Busy, engineVars, clientVars
<1>36. ASSUME NEW e \in Engines, EngineStep(e) PROVE \A d \in Clients : CauseInv(d)'
  BY <1>36, <1>1, <1>2, <1>3, <1>4, <1>5, <1>6, <1>7, <1>8, <1>9, <1>10, <1>11
  DEF EngineStep
<1>37. ASSUME NEW c \in Clients, EnsureStep(c) PROVE \A d \in Clients : CauseInv(d)'
  BY <1>37, <1>16, <1>17, <1>18, <1>19, <1>20, <1>21, <1>22, <1>23
  DEF EnsureStep
<1>38. ASSUME NEW c \in Clients, StopStep(c) PROVE \A d \in Clients : CauseInv(d)'
  BY <1>38, <1>24, <1>25, <1>26, <1>27, <1>28, <1>29, <1>30, <1>31, <1>32, <1>33, <1>34
  DEF StopStep, Leaving
<1> QED BY <1>12, <1>13, <1>14, <1>15, <1>35, <1>36, <1>37, <1>38 DEF Next, ClientStep

LEMMA InitInv == Init => Inv
<1> SUFFICES ASSUME Init PROVE Inv
  OBVIOUS
<1>1. TypeOK
  BY DEF Init, TypeOK, Places
<1>2. EngineInv
  BY NoneIsNoEngine DEF Init, EngineInv, Holding, Named, Owning, Listening, None
<1>3. ASSUME NEW c \in Clients PROVE PidInv(c) /\ CauseInv(c)
  BY <1>3 DEF Init, PidInv, CauseInv, Verified, Waiting, Falling
<1>4. SpawnInv
  BY DEF Init, SpawnInv, Live, Rising, Falling
<1> QED BY <1>1, <1>2, <1>3, <1>4 DEF Inv

LEMMA StutterInv == Inv /\ UNCHANGED vars => Inv'
BY DEF Inv, vars, engineVars, clientVars, TypeOK, EngineInv, PidInv, SpawnInv, CauseInv,
       Live, Comes, Spawns

\* The invariant holds at every step.
LEMMA Invariance == Spec => []Inv
<1>1. Inv /\ Next => Inv'
  BY TypeStep, EngineInvStep, PidInvStep, SpawnInvStep, CauseInvStep DEF Inv
<1> QED BY <1>1, InitInv, StutterInv, PTL DEF Spec

-----------------------------------------------------------------------------
(* The theorems.                                                           *)

LEMMA AtMostOne ==
  ASSUME NEW S, \A x, y \in S : x = y
  PROVE  Cardinality(S) <= 1
<1>1. CASE S = {}
  BY <1>1, FS_EmptySet
<1>2. CASE S # {}
  <2>1. PICK x \in S : S = {x}
    BY <1>2
  <2> QED BY <2>1, FS_Singleton
<1> QED BY <1>1, <1>2

\* Database, lock and socket belong to one engine, whatever engines start,
\* drain and crash and whatever clients do (lock.rs, sock.rs, run.rs).
THEOREM OneEngineOwnsAll == Spec => []OneEngine
<1>1. Inv => OneEngine
  <2> SUFFICES ASSUME Inv PROVE OneEngine
    OBVIOUS
  <2>1. \A e, f \in db : e = f
    BY DEF Inv, TypeOK, EngineInv, Holding, Named
  <2>2. SocketStays
    BY DEF Inv, EngineInv, SocketStays, Listens, Holding, Named, Owning, Listening
  <2> QED BY <2>1, <2>2, AtMostOne DEF Inv, OneEngine, OneOwner
<1> QED BY <1>1, Invariance, PTL

\* A signal hits the engine that was asked for, and a stop or restart that
\* succeeds has seen that engine off (spawn.rs, serving_engine_pid and the
\* wait for the lock).
THEOREM StopIsTrue == Spec => []StopsTheEngine
<1>1. Inv => StopsTheEngine
  BY DEF Inv, EngineInv, PidInv, StopsTheEngine, NoStranger, OldIsGone
<1> QED BY <1>1, Invariance, PTL

\* Racing clients get one engine between them, and a call fails only for a
\* cause (spawn.rs, ensure_engine and wait_until_ready).
THEOREM StartIsTrueAlways == Spec => []StartIsTrue
<1>1. Inv => StartIsTrue
  <2> SUFFICES ASSUME Inv PROVE OneComes /\ NoFalseAlarm
    BY DEF StartIsTrue
  <2>1. OneComes
    <3> SUFFICES ASSUME ~orphan PROVE Cardinality({e \in Engines : Live(e)}) <= 1
      BY DEF OneComes
    <3>1. \A e, f \in {g \in Engines : Live(g)} : e = f
      BY DEF Inv, SpawnInv
    <3> QED BY <3>1, AtMostOne
  <2>2. NoFalseAlarm
    BY DEF Inv, CauseInv, NoFalseAlarm
  <2> QED BY <2>1, <2>2
<1> QED BY <1>1, Invariance, PTL
=============================================================================
