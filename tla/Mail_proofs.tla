------------------------------ MODULE Mail_proofs ------------------------------
(***************************************************************************)
(* Proofs about the mail.  The first part is about the ledger alone, under *)
(* arbitrary callers: for every number of agents, rows, takes and keys,    *)
(* every delay and every clock.  The second part is about the delivery     *)
(* over it: for every number of attempts and notes, every gate and every   *)
(* way a session moves, refuses or loses a message.                        *)
(***************************************************************************)
EXTENDS MailDelivery, FiniteSetTheorems, TLAPS

-----------------------------------------------------------------------------
(* Part one: the ledger.                                                   *)

-----------------------------------------------------------------------------
(* Rows.                                                                   *)

LEMMA NewRowType ==
  ASSUME NEW kind \in Kind, NEW from \in Agents \union People \union {Engine},
         NEW to \in Agents, NEW body \in Bodies \union {NoBody}, NEW key \in Keys \union {NoKey},
         NEW hop \in Nat, NEW wait \in Nat, now \in Nat
  PROVE  LET r == NewRow(kind, from, to, body, key, hop, wait)
         IN /\ r \in Row /\ r.state = "queued" /\ r.kind = kind /\ r.to = to
            /\ r.from = from /\ r.key = key /\ r.notice = NoRow /\ r.attempts = 0
            /\ r.notBefore = wait /\ r.stateAt = 0
            /\ from \in Agents => r.createdAt = now
            /\ from \notin Agents => r.createdAt = 0
BY DEF NewRow, Row, MsgState, NoRow

\* The rows agree in what a result does not touch.
Alike(r, row) ==
  /\ r.kind = row.kind /\ r.from = row.from /\ r.to = row.to /\ r.body = row.body
  /\ r.key = row.key /\ r.hop = row.hop /\ r.via = row.via /\ r.attempts = row.attempts
  /\ r.createdAt = row.createdAt

LEMMA SetType ==
  ASSUME NEW row \in Row, NEW state \in MsgState, now \in Nat
  PROVE  /\ Set(row, state) \in Row
         /\ Set(row, state).state = state
         /\ Alike(Set(row, state), row)
         /\ Set(row, state).notice = row.notice
         /\ Set(row, state).lists = row.lists
         /\ Set(row, state).notBefore = 0
         /\ state = "uncertain" => Set(row, state).stateAt = now
<1> DEFINE at == IF state = "uncertain" THEN now ELSE 0
<1>1. at \in Nat
  OBVIOUS
<1> HIDE DEF at
<1> DEFINE r1 == [row EXCEPT !.state = state]
           r2 == [r1 EXCEPT !.notBefore = 0]
           r3 == [r2 EXCEPT !.stateAt = at]
<1>2. /\ r1 \in Row /\ r1.state = state /\ Alike(r1, row)
      /\ r1.notice = row.notice /\ r1.lists = row.lists
  BY DEF Row, Alike
<1> HIDE DEF r1
<1>3. /\ r2 \in Row /\ r2.state = r1.state /\ Alike(r2, r1)
      /\ r2.notice = r1.notice /\ r2.lists = r1.lists /\ r2.notBefore = 0
  BY <1>2 DEF Row, Alike
<1> HIDE DEF r2
<1>4. /\ r3 \in Row /\ r3.state = r2.state /\ Alike(r3, r2)
      /\ r3.notice = r2.notice /\ r3.lists = r2.lists /\ r3.notBefore = r2.notBefore
      /\ r3.stateAt = at
  BY <1>1, <1>3 DEF Row, Alike
<1>5. Set(row, state) = r3
  BY DEF Set, r1, r2, at
<1> HIDE DEF r3
<1> QED BY <1>2, <1>3, <1>4, <1>5 DEF Alike, at

\* What a step leaves of a row that exists.
Keeps(j) ==
  /\ mail'[j].to = mail[j].to /\ mail'[j].from = mail[j].from
  /\ mail'[j].kind = mail[j].kind /\ mail'[j].key = mail[j].key
  /\ mail'[j].createdAt = mail[j].createdAt

LEMMA MergedType ==
  ASSUME TypeOK, NEW n \in Rows, NEW s \in Agents, NEW about \in SUBSET Rows, NEW result,
         LedgerConstants
  PROVE  LET m == Merged(n, s, about, result)
         IN /\ m \in Row /\ m.lists = Unresolved(n) \union about
            /\ n \in Used => /\ m.state = mail[n].state /\ Alike(m, mail[n])
                             /\ m.notice = mail[n].notice
            /\ n \notin Used => /\ m.state = "queued" /\ m.kind = "notice" /\ m.to = s
                                /\ m.from = Engine /\ m.key = NoKey /\ m.notice = NoRow
                                /\ m.createdAt = 0
<1> DEFINE late == \E i \in about : result[i] = "uncertain"
           wait == now + IF late THEN NoticeDelay ELSE 0
           new  == NewRow("notice", Engine, s, NoBody, NoKey, 0, wait)
           old  == IF n \in Used THEN mail[n] ELSE new
           w    == IF old.notBefore > wait THEN old.notBefore ELSE wait
           l    == Unresolved(n) \union about
<1>1. wait \in Nat
  BY DEF TypeOK, LedgerConstants
<1> HIDE DEF late
<1>2. /\ new \in Row /\ new.state = "queued" /\ new.kind = "notice" /\ new.to = s
      /\ new.from = Engine /\ new.key = NoKey /\ new.notice = NoRow /\ new.createdAt = 0
  <2> HIDE DEF wait
  <2>1. Engine \notin Agents
    BY DEF LedgerConstants
  <2> QED BY <1>1, <2>1, NewRowType DEF TypeOK, Kind
<1>3. old \in Row
  BY <1>2 DEF TypeOK
<1>4. w \in Nat
  <2> HIDE DEF wait, old
  <2> QED BY <1>1, <1>3 DEF Row
<1>5. l \in SUBSET Rows
  BY DEF Unresolved, Used
<1> DEFINE m1 == [old EXCEPT !.notBefore = w]
           m2 == [m1 EXCEPT !.lists = l]
<1>6. Merged(n, s, about, result) = m2
  BY DEF Merged, late
<1> HIDE DEF wait, new, old, w, l
<1>7. /\ m1 \in Row /\ m1.state = old.state /\ Alike(m1, old)
      /\ m1.notice = old.notice
  BY <1>3, <1>4 DEF Row, Alike
<1> HIDE DEF m1
<1>8. /\ m2 \in Row /\ m2.state = m1.state /\ Alike(m2, m1)
      /\ m2.notice = m1.notice /\ m2.lists = l
  BY <1>5, <1>7 DEF Row, Alike
<1> HIDE DEF m2
<1> QED BY <1>2, <1>6, <1>7, <1>8 DEF old, l, Alike

LEMMA MergedRow ==
  ASSUME TypeOK, LedgerConstants, NEW n \in Rows, NEW s \in Agents, NEW about \in SUBSET Rows,
         NEW result, NEW m, m = Merged(n, s, about, result)
  PROVE  /\ m.lists = Unresolved(n) \union about
         /\ n \in Used => m.state = mail[n].state /\ Alike(m, mail[n])
                          /\ m.notice = mail[n].notice
         /\ n \notin Used => m.state = "queued" /\ m.kind = "notice" /\ m.to = s
                             /\ m.notice = NoRow
BY MergedType

\* Recording results moves the rows of D and may insert notices, each to an
\* agent that has not ended; it touches no state of another row.
LEMMA RecordRows ==
  ASSUME LedgerConstants, TypeOK,
         NEW D \in SUBSET Used, NEW result \in [D -> MsgState], NEW gone \in SUBSET Agents,
         Record(D, result, gone)
  PROVE  /\ mail' \in [Rows -> Row]
         /\ \A j \in D : mail'[j].state = result[j] /\ Alike(mail'[j], mail[j])
         /\ \A j \in Used \ D : /\ mail'[j].state = mail[j].state /\ Alike(mail'[j], mail[j])
                              /\ mail'[j].notice = mail[j].notice
         /\ \A j \in Rows \ Used :
              \/ mail'[j].state = Free
              \/ /\ mail'[j].state = "queued" /\ mail'[j].to \in Agents \ gone
                 /\ mail'[j].key = NoKey /\ mail'[j].from = Engine
                 /\ mail'[j].kind = "notice"
<1>0. ASSUME NEW n \in Rows, NEW s \in Agents, NEW q \in SUBSET Rows, NEW m,
             m = Merged(n, s, q, result)
      PROVE  /\ m \in Row
             /\ n \in Used => /\ m.state = mail[n].state /\ Alike(m, mail[n])
                              /\ m.notice = mail[n].notice
             /\ n \notin Used => /\ m.state = "queued" /\ m.to = s /\ m.key = NoKey
                                 /\ m.from = Engine /\ m.kind = "notice"
  BY <1>0, MergedType
<1> DEFINE T == {i \in D : Tells(i, result[i], gone)}
           S == {mail[i].from : i \in T}
           picked(pick, j) == \E s \in S : pick[s] = j
           chosen(pick, j) == CHOOSE s \in S : pick[s] = j
           about(s) == {i \in T : mail[i].from = s}
<1>1. PICK pick \in [S -> Rows] :
        /\ PicksNotices(pick, S)
        /\ mail' = [i \in Rows |->
             CASE i \in D ->
                    [Set(mail[i], result[i]) EXCEPT
                       !.notice = IF i \in T THEN pick[mail[i].from] ELSE @]
               [] i \notin D /\ picked(pick, i) ->
                    Merged(i, chosen(pick, i), about(chosen(pick, i)), result)
               [] OTHER -> mail[i]]
  BY DEF Record
<1>2. S \subseteq Agents \ gone
  BY DEF Tells
<1>3. D \subseteq Rows /\ now \in Nat
  BY DEF Used, TypeOK
<1>4. ASSUME NEW j \in Rows
      PROVE  /\ mail'[j] \in Row
             /\ j \in D => mail'[j].state = result[j] /\ Alike(mail'[j], mail[j])
             /\ j \in Used \ D => /\ mail'[j].state = mail[j].state
                                  /\ Alike(mail'[j], mail[j])
                                  /\ mail'[j].notice = mail[j].notice
             /\ j \in Rows \ Used =>
                  \/ mail'[j].state = Free
                  \/ /\ mail'[j].state = "queued" /\ mail'[j].to \in Agents \ gone
                     /\ mail'[j].key = NoKey /\ mail'[j].from = Engine
                     /\ mail'[j].kind = "notice"
  <2>1. CASE j \in D
    <3> DEFINE r == Set(mail[j], result[j])
               n == IF j \in T THEN pick[mail[j].from] ELSE r.notice
    <3>1. mail[j] \in Row /\ result[j] \in MsgState
      BY <2>1 DEF TypeOK
    <3>2. r \in Row /\ r.state = result[j] /\ Alike(r, mail[j])
      BY <1>3, <3>1, SetType
    <3>3. mail'[j] = [r EXCEPT !.notice = n]
      BY <1>1, <2>1
    <3>4. n \in Rows \union {NoRow}
      <4>1. CASE j \in T
        <5>1. mail[j].from \in S
          BY <4>1
        <5> QED BY <1>1, <4>1, <5>1
      <4>2. CASE j \notin T
        <5> HIDE DEF r
        <5> QED BY <3>2, <4>2 DEF Row
      <4> QED BY <4>1, <4>2
    <3> HIDE DEF r, n
    <3>5. mail'[j] \in Row /\ mail'[j].state = r.state /\ Alike(mail'[j], r)
      BY <3>2, <3>3, <3>4 DEF Row, Alike
    <3> QED BY <2>1, <3>2, <3>5 DEF Alike
  <2>2. CASE j \notin D /\ picked(pick, j)
    <3>1. PICK s \in S : pick[s] = j /\ s = chosen(pick, j)
      BY <2>2
    <3>2. PICK q \in SUBSET Rows : mail'[j] = Merged(j, s, q, result)
      <4>1. about(s) \in SUBSET Rows
        BY <1>3
      <4>2. mail'[j] = Merged(j, s, about(s), result)
        BY <1>1, <2>2, <3>1
      <4> QED BY <4>1, <4>2
    <3>3. s \in Agents \ gone
      BY <1>2
    <3> QED BY <1>0, <2>2, <3>2, <3>3
  <2>3. CASE j \notin D /\ ~picked(pick, j)
    <3>1. mail'[j] = mail[j]
      BY <1>1, <2>3
    <3> QED BY <2>3, <3>1 DEF TypeOK, Used, Alike
  <2> QED BY <2>1, <2>2, <2>3
<1>5. mail' \in [Rows -> Row]
  <2>1. mail' = [j \in Rows |-> mail'[j]]
    BY <1>1
  <2> QED BY <1>4, <2>1
<1> QED BY <1>3, <1>4, <1>5 DEF Used

-----------------------------------------------------------------------------
(* What every step does, and never does.                                   *)

Open == {"queued", "delivering"}

\* Rows keep their ends; ended agents stay ended; a row comes into flight
\* only from the queue of its target and alone; an open row is new or was
\* open, and its target has not just ended; a result stays, except for late
\* evidence; the way of a row changes only when it is taken; a new row is
\* queued; and one with a key, or of an agent, comes alone: its key is unused,
\* and its sender has room for it in the window.
StepOK ==
  /\ TypeOK'
  /\ ended \subseteq ended'
  /\ \A j \in Used : Keeps(j)
  /\ \A j \in Rows :
       mail'[j].state = "delivering" /\ mail[j].state # "delivering"
         => j \in Eligible(mail[j].to) /\ \A k \in Rows \ {j} : mail'[k] = mail[k]
  /\ \A j \in Rows :
       mail'[j].state \in Open
         => \/ j \in Used /\ mail[j].state \in Open /\ mail[j].to \notin ended' \ ended
            \/ j \notin Used /\ mail'[j].to \notin ended'
  /\ \A j \in Used :
       mail[j].state \notin Open /\ mail'[j].state # mail[j].state
         => /\ mail[j].state = "uncertain" /\ mail'[j].state = "delivered"
            /\ now <= mail[j].stateAt + LateWindow
  /\ \A j \in Used :
       mail'[j].via # mail[j].via => mail[j].state = "queued" /\ mail'[j].state = "delivering"
  /\ \A j \in Used : mail'[j].state # Free
  /\ \A j \in Rows \ Used : mail'[j].state \in {Free, "queued"}
  /\ \A j \in Rows \ Used :
       mail'[j].state # Free /\ mail'[j].key # NoKey
         => /\ ~Replays(mail'[j].from, mail'[j].key)
            /\ \A k \in Rows \ {j} : mail'[k] = mail[k]
  /\ \A j \in Rows \ Used :
       mail'[j].state # Free /\ mail'[j].from \in Agents
         => /\ mail'[j].createdAt = now
            /\ Cardinality(Recent(mail'[j].from, mail'[j].to)) < PairLimit
            /\ \A k \in Rows \ {j} : mail'[k] = mail[k]

LEMMA OneRow ==
  ASSUME TypeOK, NEW i \in Rows, NEW r \in Row, mail' = [mail EXCEPT ![i] = r]
  PROVE  /\ mail' \in [Rows -> Row] /\ mail'[i] = r
         /\ \A k \in Rows \ {i} : mail'[k] = mail[k]
BY DEF TypeOK

\* A new row for an agent that has not ended.
LEMMA InsertStep ==
  ASSUME TypeOK, NEW i \in Rows \ Used, NEW r \in Row, r.state = "queued", r.to \notin ended,
         r.key # NoKey => ~Replays(r.from, r.key),
         r.from \in Agents
           => r.createdAt = now /\ Cardinality(Recent(r.from, r.to)) < PairLimit,
         mail' = [mail EXCEPT ![i] = r], UNCHANGED <<paused, ended, now>>
  PROVE  StepOK
<1>1. /\ mail' \in [Rows -> Row] /\ mail'[i] = r
      /\ \A k \in Rows \ {i} : mail'[k] = mail[k]
  BY OneRow
<1> QED BY <1>1 DEF StepOK, TypeOK, Used, Keeps, Open, Free

\* An open row that goes back to the queue or leaves it.
LEMMA MoveStep ==
  ASSUME TypeOK, NEW i \in Used, NEW r \in Row,
         mail[i].state \in Open, r.state # "delivering", r.state # Free,
         Alike(r, mail[i]),
         mail' = [mail EXCEPT ![i] = r], UNCHANGED <<paused, ended, now>>
  PROVE  StepOK
<1>1. i \in Rows
  BY DEF Used
<1>2. /\ mail' \in [Rows -> Row] /\ mail'[i] = r
      /\ \A k \in Rows \ {i} : mail'[k] = mail[k]
  BY <1>1, OneRow
<1> QED BY <1>1, <1>2 DEF StepOK, TypeOK, Used, Keeps, Alike, Open, Free

\* A step that records results of open rows, and may end agents whose open
\* rows it records.
LEMMA RecordStep ==
  ASSUME LedgerConstants, TypeOK, NEW D \in SUBSET Used,
         NEW result \in [D -> MsgState \ Open], \A j \in D : mail[j].state \in Open,
         ended' \in SUBSET Agents, ended \subseteq ended',
         Record(D, result, ended'), UNCHANGED <<paused, now>>,
         \A j \in Used \ D : mail[j].state \in Open => mail[j].to \notin ended' \ ended
  PROVE  StepOK
<1>1. result \in [D -> MsgState]
  OBVIOUS
<1>2. /\ mail' \in [Rows -> Row]
      /\ \A j \in D : mail'[j].state = result[j] /\ Alike(mail'[j], mail[j])
      /\ \A j \in Used \ D : mail'[j].state = mail[j].state /\ Alike(mail'[j], mail[j])
      /\ \A j \in Rows \ Used :
           \/ mail'[j].state = Free
           \/ /\ mail'[j].state = "queued" /\ mail'[j].to \in Agents \ ended'
              /\ mail'[j].key = NoKey /\ mail'[j].from = Engine
  BY ZenonT(60), <1>1, RecordRows
<1>3. \A j \in D : mail'[j].state \notin Open
  BY <1>2
<1>4. \A j \in Used : Keeps(j) /\ mail'[j].via = mail[j].via
  BY <1>2 DEF Keeps, Alike
<1>5. \A j \in Used : mail'[j].state # Free
  BY <1>2 DEF Used, MsgState, Free
<1>6. Engine \notin Agents
  BY DEF LedgerConstants
<1> QED BY <1>2, <1>3, <1>4, <1>5, <1>6 DEF StepOK, TypeOK, Used, Open, Free

\* The row that a send, or the listener's correction, inserts.
LEMMA SentRow ==
  ASSUME LedgerConstants, TypeOK, NEW p \in Agents \union People, NEW a \in Agents,
         NEW b \in Bodies, NEW k \in Keys \union {NoKey}, NEW reply \in Used \union {NoRow},
         Send(p, a, b, k, reply)
  PROVE  /\ a \notin ended /\ ~Replays(p, k) /\ UNCHANGED <<paused, ended, now>>
         /\ p \in Agents => Cardinality(Recent(p, a)) < PairLimit
         /\ \E i \in Rows \ Used, r \in Row :
              /\ mail' = [mail EXCEPT ![i] = r] /\ r.state = "queued"
              /\ r.to = a /\ r.from = p /\ r.key = k /\ r.kind = "mail" /\ r.notice = NoRow
              /\ p \in Agents => r.createdAt = now
              /\ p \notin Agents => r.createdAt = 0
<1> DEFINE hop == IF reply = NoRow THEN 0 ELSE mail[reply].hop + 1
           r == NewRow("mail", p, a, b, k, hop, 0)
<1>1. PICK i \in Rows : IsNext(i) /\ mail' = [mail EXCEPT ![i] = r]
  BY DEF Send
<1>2. hop \in Nat
  BY DEF TypeOK, Row, Used
<1>3. /\ r \in Row /\ r.state = "queued" /\ r.to = a /\ r.from = p /\ r.key = k
      /\ r.kind = "mail" /\ r.notice = NoRow
      /\ p \in Agents => r.createdAt = now
      /\ p \notin Agents => r.createdAt = 0
  <2>1. /\ "mail" \in Kind /\ p \in Agents \union People \union {Engine}
        /\ b \in Bodies \union {NoBody} /\ 0 \in Nat /\ now \in Nat
    BY DEF Kind, TypeOK
  <2> HIDE DEF hop
  <2> QED BY ONLY <1>2, <2>1, NewRowType, a \in Agents, k \in Keys \union {NoKey}
<1>4. /\ a \notin ended /\ ~Replays(p, k) /\ UNCHANGED <<paused, ended, now>>
      /\ p \in Agents => Cardinality(Recent(p, a)) < PairLimit
  BY DEF Send, CheckTarget
<1>5. i \in Rows \ Used
  BY <1>1 DEF IsNext
<1> HIDE DEF r
<1> QED BY <1>1, <1>3, <1>4, <1>5

LEMMA SendStep ==
  ASSUME LedgerConstants, TypeOK, NEW p \in Agents \union People, NEW a \in Agents,
         NEW b \in Bodies, NEW k \in Keys \union {NoKey}, NEW reply \in Used \union {NoRow},
         Send(p, a, b, k, reply)
  PROVE  StepOK
<1>1. /\ a \notin ended /\ ~Replays(p, k) /\ UNCHANGED <<paused, ended, now>>
      /\ p \in Agents => Cardinality(Recent(p, a)) < PairLimit
      /\ \E i \in Rows \ Used, r \in Row :
           /\ mail' = [mail EXCEPT ![i] = r] /\ r.state = "queued"
           /\ r.to = a /\ r.from = p /\ r.key = k
           /\ p \in Agents => r.createdAt = now
  BY SentRow
<1>2. PICK i \in Rows \ Used, r \in Row :
        /\ mail' = [mail EXCEPT ![i] = r] /\ r.state = "queued"
        /\ r.to = a /\ r.from = p /\ r.key = k
        /\ p \in Agents => r.createdAt = now
  BY <1>1
<1> QED BY <1>1, <1>2, InsertStep

LEMMA CorrectionRow ==
  ASSUME LedgerConstants, TypeOK, NEW a \in Agents, SystemMail(a)
  PROVE  /\ a \notin ended /\ UNCHANGED <<paused, ended, now>>
         /\ \E i \in Rows \ Used, r \in Row :
              /\ mail' = [mail EXCEPT ![i] = r] /\ r.state = "queued"
              /\ r.to = a /\ r.key = NoKey /\ r.from = Engine /\ r.kind = "system"
              /\ r.notice = NoRow
<1> DEFINE r == NewRow("system", Engine, a, NoBody, NoKey, 0, now)
<1>1. PICK i \in Rows : IsNext(i) /\ mail' = [mail EXCEPT ![i] = r]
  BY DEF SystemMail
<1>2. /\ r \in Row /\ r.state = "queued" /\ r.to = a /\ r.key = NoKey
      /\ r.from = Engine /\ r.kind = "system" /\ r.notice = NoRow
  BY NewRowType DEF TypeOK, Kind
<1>3. a \notin ended /\ UNCHANGED <<paused, ended, now>> /\ i \in Rows \ Used
  BY <1>1 DEF SystemMail, IsNext
<1> HIDE DEF r
<1> QED BY <1>1, <1>2, <1>3

LEMMA SystemMailStep ==
  ASSUME LedgerConstants, TypeOK, NEW a \in Agents, SystemMail(a)
  PROVE  StepOK
<1>1. /\ a \notin ended /\ UNCHANGED <<paused, ended, now>>
      /\ \E i \in Rows \ Used, r \in Row :
           /\ mail' = [mail EXCEPT ![i] = r] /\ r.state = "queued"
           /\ r.to = a /\ r.key = NoKey /\ r.from = Engine
  BY CorrectionRow
<1>2. PICK i \in Rows \ Used, r \in Row :
        /\ mail' = [mail EXCEPT ![i] = r] /\ r.state = "queued"
        /\ r.to = a /\ r.key = NoKey /\ r.from = Engine
  BY <1>1
<1>3. Engine \notin Agents
  BY DEF LedgerConstants
<1> QED BY <1>1, <1>2, <1>3, InsertStep

\* The row that is taken, and its way.
LEMMA TakenRow ==
  ASSUME LedgerConstants, TypeOK, NEW a \in Agents, NEW i \in Rows, NEW via \in Routes,
         Take(a, i, via)
  PROVE  /\ mail' \in [Rows -> Row] /\ UNCHANGED <<paused, ended, now>>
         /\ i \in Eligible(a) /\ i \in Used /\ mail[i].state = "queued" /\ mail[i].to = a
         /\ mail'[i].state = "delivering" /\ mail'[i].via = via /\ Keeps(i)
         /\ mail'[i].notice = mail[i].notice /\ mail'[i].attempts # 0
         /\ \A k \in Rows \ {i} : mail'[k] = mail[k]
<1> DEFINE r1 == Set(mail[i], "delivering")
           r2 == [r1 EXCEPT !.attempts = mail[i].attempts + 1]
           r3 == [r2 EXCEPT !.via = via]
<1>1. i \in Eligible(a) /\ UNCHANGED <<paused, ended, now>>
  BY DEF Take, PeekNext
<1>2. mail' = [mail EXCEPT ![i] = r3]
  BY DEF Take
<1>3. /\ r1 \in Row /\ r1.state = "delivering" /\ Alike(r1, mail[i])
      /\ r1.notice = mail[i].notice
  BY SetType DEF TypeOK, MsgState
<1> HIDE DEF r1
<1>4. /\ r2 \in Row /\ r2.state = r1.state /\ r2.to = r1.to /\ r2.from = r1.from
      /\ r2.kind = r1.kind /\ r2.key = r1.key /\ r2.createdAt = r1.createdAt
      /\ r2.notice = r1.notice /\ r2.attempts # 0
  BY <1>3 DEF Row, TypeOK
<1> HIDE DEF r2
<1>5. /\ r3 \in Row /\ r3.state = r2.state /\ r3.to = r2.to /\ r3.from = r2.from
      /\ r3.kind = r2.kind /\ r3.key = r2.key /\ r3.createdAt = r2.createdAt
      /\ r3.notice = r2.notice /\ r3.via = via /\ r3.attempts = r2.attempts
  BY <1>4 DEF Row, LedgerConstants
<1> HIDE DEF r3
<1>6. /\ mail' \in [Rows -> Row] /\ mail'[i] = r3
      /\ \A k \in Rows \ {i} : mail'[k] = mail[k]
  BY <1>2, <1>5, OneRow
<1>7. i \in Used /\ mail[i].state = "queued" /\ mail[i].to = a
  BY <1>1 DEF Eligible
<1>8. Keeps(i)
  BY <1>3, <1>4, <1>5, <1>6 DEF Keeps, Alike
<1> QED BY <1>1, <1>3, <1>4, <1>5, <1>6, <1>7, <1>8

LEMMA TakeStep ==
  ASSUME LedgerConstants, TypeOK, NEW a \in Agents, NEW i \in Rows, NEW via \in Routes,
         Take(a, i, via)
  PROVE  StepOK
<1>1. /\ mail' \in [Rows -> Row] /\ UNCHANGED <<paused, ended, now>>
      /\ i \in Eligible(a) /\ i \in Used /\ mail[i].state = "queued" /\ mail[i].to = a
      /\ mail'[i].state = "delivering" /\ Keeps(i)
      /\ \A k \in Rows \ {i} : mail'[k] = mail[k]
  BY ZenonT(60), TakenRow
<1>8. /\ TypeOK' /\ ended \subseteq ended' /\ \A j \in Used : Keeps(j)
  BY <1>1 DEF TypeOK, Keeps, Used
<1>9. \A j \in Rows : mail'[j].state = "delivering" /\ mail[j].state # "delivering"
                      => j \in Eligible(mail[j].to) /\ \A k \in Rows \ {j} : mail'[k] = mail[k]
  BY <1>1
<1>10. \A j \in Rows :
         mail'[j].state \in Open => j \in Used /\ mail[j].state \in Open
  BY <1>1 DEF Open, Used, Free
<1>11. \A j \in Used : mail[j].state \notin Open => mail'[j].state = mail[j].state
  BY <1>1 DEF Open, Used
<1>12. \A j \in Rows \ Used : mail'[j].state = Free
  BY <1>1 DEF Used
<1>13. \A j \in Used :
         /\ mail'[j].via # mail[j].via
              => mail[j].state = "queued" /\ mail'[j].state = "delivering"
         /\ mail'[j].state # Free
  BY <1>1 DEF Used, Free
<1> QED BY <1>1, <1>8, <1>9, <1>10, <1>11, <1>12, <1>13 DEF StepOK

\* The row that goes back to the queue.
LEMMA RequeuedRow ==
  ASSUME LedgerConstants, TypeOK, NEW i \in Rows, NEW w \in Nat, Requeue(i, w)
  PROVE  /\ mail[i].state = "delivering" /\ UNCHANGED <<paused, ended, now>>
         /\ \E r \in Row : /\ mail' = [mail EXCEPT ![i] = r] /\ r.state = "queued"
                           /\ Alike(r, mail[i]) /\ r.notice = mail[i].notice
<1> DEFINE r1 == Set(mail[i], "queued")
           r2 == [r1 EXCEPT !.notBefore = w]
<1>1. /\ i \in Used /\ mail[i].state = "delivering"
      /\ mail' = [mail EXCEPT ![i] = r2] /\ UNCHANGED <<paused, ended, now>>
  BY DEF Requeue
<1>2. /\ r1 \in Row /\ r1.state = "queued" /\ Alike(r1, mail[i])
      /\ r1.notice = mail[i].notice
  BY SetType DEF TypeOK, MsgState
<1> HIDE DEF r1
<1>3. /\ r2 \in Row /\ r2.state = r1.state /\ Alike(r2, mail[i])
      /\ r2.notice = r1.notice
  BY <1>2 DEF Row, Alike
<1> HIDE DEF r2
<1> QED BY <1>1, <1>2, <1>3

LEMMA RequeueStep ==
  ASSUME LedgerConstants, TypeOK, NEW i \in Rows, NEW w \in Nat, Requeue(i, w)
  PROVE  StepOK
<1>1. /\ mail[i].state = "delivering" /\ UNCHANGED <<paused, ended, now>>
      /\ \E r \in Row : /\ mail' = [mail EXCEPT ![i] = r] /\ r.state = "queued"
                        /\ Alike(r, mail[i]) /\ r.notice = mail[i].notice
  BY RequeuedRow
<1> QED BY <1>1, MoveStep DEF Open, Free, Used

\* Recording one result that is not open.
LEMMA RecordOneStep ==
  ASSUME LedgerConstants, TypeOK, NEW i \in Used, NEW state \in MsgState \ Open,
         mail[i].state \in Open, RecordOne(i, state), UNCHANGED <<paused, ended, now>>
  PROVE  StepOK
<1>1. [j \in {i} |-> state] \in [{i} -> MsgState \ Open]
  OBVIOUS
<1>2. ended' \in SUBSET Agents /\ ended \subseteq ended'
  BY DEF TypeOK
<1> QED BY <1>1, <1>2, RecordStep DEF RecordOne

\* Late evidence delivers its row and may cancel a queued notice.
LEMMA LateEvidenceRows ==
  ASSUME LedgerConstants, TypeOK, NEW i \in Rows, LateEvidence(i)
  PROVE  /\ i \in Used /\ UNCHANGED <<paused, ended, now>>
         /\ mail[i].state = "uncertain" /\ mail[i].stateAt + LateWindow >= now
         /\ mail' \in [Rows -> Row] /\ mail'[i].state = "delivered"
         /\ \A j \in Rows :
              /\ Alike(mail'[j], mail[j]) /\ mail'[j].notice = mail[j].notice
              /\ \/ mail'[j].state = mail[j].state
                 \/ j = i /\ mail'[j].state = "delivered"
                 \/ j \in Used /\ mail[j].state = "queued" /\ mail'[j].state = "cancelled"
<1> DEFINE n == mail[i].notice
           left == Unresolved(n) \ {i}
<1>1. /\ i \in Used /\ UNCHANGED <<paused, ended, now>>
      /\ mail' = [j \in Rows |->
           CASE j = i -> Set(mail[i], "delivered")
             [] j = n /\ j # i /\ mail[n].state = "queued" ->
                  IF left = {}
                  THEN Set(mail[n], "cancelled")
                  ELSE [mail[n] EXCEPT !.lists = left]
             [] OTHER -> mail[j]]
  BY DEF LateEvidence
<1>2. left \in SUBSET Rows
  BY DEF Unresolved, Used
<1> HIDE DEF left
<1>3. ASSUME NEW j \in Rows
      PROVE  /\ mail'[j] \in Row /\ Alike(mail'[j], mail[j])
             /\ mail'[j].notice = mail[j].notice
             /\ j = i => mail'[j].state = "delivered"
             /\ \/ mail'[j].state = mail[j].state
                \/ j = i /\ mail'[j].state = "delivered"
                \/ j \in Used /\ mail[j].state = "queued" /\ mail'[j].state = "cancelled"
  <2>1. CASE j = i
    BY <1>1, <2>1, SetType DEF TypeOK, MsgState, Alike
  <2>2. CASE j = n /\ j # i /\ mail[n].state = "queued" /\ left = {}
    <3>1. mail'[j] = Set(mail[j], "cancelled")
      BY ZenonT(60), <1>1, <2>2
    <3>2. mail[j] \in Row /\ "cancelled" \in MsgState /\ now \in Nat
      BY DEF TypeOK, MsgState
    <3>3. /\ mail'[j] \in Row /\ Alike(mail'[j], mail[j])
          /\ mail'[j].notice = mail[j].notice /\ mail'[j].state = "cancelled"
      BY SMTT(60), <3>1, <3>2, SetType
    <3>4. j \in Used /\ mail[j].state = "queued"
      BY <2>2 DEF Used, Free
    <3> QED BY <2>2, <3>3, <3>4
  <2>3. CASE j = n /\ j # i /\ mail[n].state = "queued" /\ left # {}
    <3>1. mail'[j] = [mail[j] EXCEPT !.lists = left]
      BY <1>1, <2>3
    <3>2. mail[j] \in Row /\ left \in SUBSET Rows
      BY <1>2 DEF TypeOK
    <3>3. /\ mail'[j] \in Row /\ mail'[j].state = mail[j].state
          /\ mail'[j].notice = mail[j].notice
      BY <3>1, <3>2 DEF Row
    <3>4. Alike(mail'[j], mail[j])
      BY <3>1, <3>2 DEF Row, Alike
    <3> QED BY <2>3, <3>3, <3>4
  <2>4. CASE j # i /\ ~(j = n /\ mail[n].state = "queued")
    BY <1>1, <2>4 DEF TypeOK, Alike
  <2> QED BY <2>1, <2>2, <2>3, <2>4
<1>4. mail' \in [Rows -> Row]
  <2>1. mail' = [j \in Rows |-> mail'[j]]
    BY <1>1
  <2> QED BY <1>3, <2>1
<1>5. mail[i].state = "uncertain" /\ mail[i].stateAt + LateWindow >= now
  BY DEF LateEvidence
<1> QED BY <1>1, <1>3, <1>4, <1>5

LEMMA LateEvidenceStep ==
  ASSUME LedgerConstants, TypeOK, NEW i \in Rows, LateEvidence(i)
  PROVE  StepOK
<1>1. i \in Used /\ UNCHANGED <<paused, ended, now>>
  BY LateEvidenceRows
<1>3. \A j \in Rows :
        /\ Alike(mail'[j], mail[j])
        /\ \/ mail'[j].state = mail[j].state
           \/ j = i /\ mail'[j].state = "delivered"
           \/ j \in Used /\ mail[j].state = "queued" /\ mail'[j].state = "cancelled"
  BY LateEvidenceRows
<1>4. mail' \in [Rows -> Row]
  BY LateEvidenceRows
<1>5. mail[i].state = "uncertain" /\ mail[i].stateAt + LateWindow >= now
  BY LateEvidenceRows
<1>6. now <= mail[i].stateAt + LateWindow
  BY <1>1, <1>5 DEF TypeOK, Row, Used, LedgerConstants
<1>7. /\ \A j \in Rows : mail'[j].state # "delivering" \/ mail[j].state = "delivering"
      /\ \A j \in Rows : mail'[j].state \in Open => mail'[j].state = mail[j].state
      /\ \A j \in Rows \ Used : mail'[j].state = Free
  BY <1>1, <1>3, <1>5 DEF Open, Used, Free
<1>8. \A j \in Used :
        mail[j].state \notin Open /\ mail'[j].state # mail[j].state
          => j = i /\ mail'[j].state = "delivered"
  BY <1>3 DEF Open, Used
<1>9. TypeOK' /\ \A j \in Used : Keeps(j)
  BY <1>1, <1>3, <1>4 DEF TypeOK, Used, Keeps, Alike
<1>10. \A j \in Used : mail'[j].via = mail[j].via /\ mail'[j].state # Free
  BY <1>3 DEF Used, Alike, Free
<1> QED BY <1>1, <1>5, <1>6, <1>7, <1>8, <1>9, <1>10 DEF StepOK, Open, Used, Free

LEMMA AgentEndStep ==
  ASSUME LedgerConstants, TypeOK, NEW a \in Agents, AgentEnd(a)
  PROVE  StepOK
<1> DEFINE D == {i \in Used : mail[i].to = a /\ mail[i].state \in {"queued", "delivering"}}
           result == [i \in D |-> IF mail[i].state = "queued" THEN "failed" ELSE "uncertain"]
<1>1. /\ ended' = ended \union {a} /\ UNCHANGED <<paused, now>>
      /\ Record(D, result, ended \union {a})
  BY DEF AgentEnd
<1>2. Record(D, result, ended')
  BY <1>1
<1>3. result \in [D -> MsgState \ Open]
  BY DEF MsgState, Open
<1>4. D \in SUBSET Used /\ \A j \in D : mail[j].state \in Open
  BY DEF Open
<1>5. \A j \in Used \ D : mail[j].state \in Open => mail[j].to \notin ended' \ ended
  BY <1>1 DEF Open
<1>6. ended' \in SUBSET Agents /\ ended \subseteq ended'
  BY <1>1 DEF TypeOK
<1> HIDE DEF D, result
<1> QED BY <1>1, <1>2, <1>3, <1>4, <1>5, <1>6, RecordStep

LEMMA BootStep ==
  ASSUME LedgerConstants, TypeOK, Boot
  PROVE  StepOK
<1> DEFINE D == {i \in Used : \/ mail[i].state = "delivering"
                              \/ mail[i].state = "queued" /\ mail[i].to \in ended}
           result == [i \in D |-> IF mail[i].state = "queued" THEN "failed" ELSE "uncertain"]
<1>1. UNCHANGED <<paused, ended, now>> /\ Record(D, result, ended)
  BY DEF Boot
<1>2. Record(D, result, ended')
  BY <1>1
<1>3. result \in [D -> MsgState \ Open]
  BY DEF MsgState, Open
<1>4. D \in SUBSET Used /\ \A j \in D : mail[j].state \in Open
  BY DEF Open
<1>5. \A j \in Used \ D : mail[j].state \in Open => mail[j].to \notin ended' \ ended
  BY <1>1
<1>6. ended' \in SUBSET Agents /\ ended \subseteq ended'
  BY <1>1 DEF TypeOK
<1> HIDE DEF D, result
<1> QED BY <1>1, <1>2, <1>3, <1>4, <1>5, <1>6, RecordStep

\* A step that leaves the table alone.
LEMMA OtherStep ==
  ASSUME TypeOK, UNCHANGED <<mail, ended>>, now' \in Nat, paused' \subseteq Agents
  PROVE  StepOK
BY DEF StepOK, TypeOK, Used, Keeps, Open, Free

LEMMA NextStep ==
  ASSUME LedgerConstants, TypeOK, [Next]_vars
  PROVE  StepOK
<1>1. ASSUME NEW p \in Agents \union People, NEW a \in Agents, NEW b \in Bodies,
             NEW k \in Keys \union {NoKey}, NEW r \in Used \union {NoRow}, Send(p, a, b, k, r)
      PROVE  StepOK
  BY <1>1, SendStep
<1>2. ASSUME NEW a \in Corrected, SystemMail(a)
      PROVE  StepOK
  BY <1>2, SystemMailStep DEF LedgerConstants
<1>3. ASSUME NEW a \in Agents, AgentEnd(a)
      PROVE  StepOK
  BY <1>3, AgentEndStep
<1>4. ASSUME NEW a \in Agents, NEW i \in Rows, NEW via \in Routes, Take(a, i, via)
      PROVE  StepOK
  BY <1>4, TakeStep
<1>5. ASSUME NEW i \in Rows, NEW w \in {0} \union {now + d : d \in Backoffs}, Requeue(i, w)
      PROVE  StepOK
  <2>1. w \in Nat
    <3>1. now \in Nat
      BY DEF TypeOK
    <3>2. Backoffs \subseteq Nat
      BY LedgerConstants DEF LedgerConstants
    <3> QED BY <1>5, <3>1, <3>2
  <2> QED BY <1>5, <2>1, RequeueStep
<1>6. ASSUME NEW i \in Rows, NEW s \in Results, Mark(i, s)
      PROVE  StepOK
  <2>1. s \in MsgState \ Open
    BY DEF LedgerConstants, MsgState, Open
  <2>2. i \in Used /\ mail[i].state \in Open
    BY <1>6 DEF Mark, Open
  <2> QED BY <1>6, <2>1, <2>2, RecordOneStep DEF Mark
<1>7. ASSUME NEW i \in Rows, Evidence(i)
      PROVE  StepOK
  <2>1. "delivered" \in MsgState \ Open
    BY DEF MsgState, Open
  <2>2. i \in Used /\ mail[i].state \in Open
    BY <1>7 DEF Evidence, Open
  <2> QED BY <1>7, <2>1, <2>2, RecordOneStep DEF Evidence
<1>8. ASSUME NEW i \in Rows, LateEvidence(i)
      PROVE  StepOK
  BY <1>8, LateEvidenceStep
<1>9. ASSUME NEW i \in Rows, Cancel(i)
      PROVE  StepOK
  <2>1. "cancelled" \in MsgState \ Open
    BY DEF MsgState, Open
  <2>2. i \in Used /\ mail[i].state \in Open
    BY <1>9 DEF Cancel, Open
  <2> QED BY <1>9, <2>1, <2>2, RecordOneStep DEF Cancel
<1>10. ASSUME NEW a \in Pausable, NEW on \in BOOLEAN, Pause(a, on)
       PROVE  StepOK
  BY <1>10, OtherStep DEF Pause, TypeOK, LedgerConstants
<1>11. CASE Boot
  BY <1>11, BootStep
<1>12. CASE Tick
  BY <1>12, OtherStep DEF Tick, TypeOK
<1>13. CASE UNCHANGED vars
  BY <1>13, OtherStep DEF vars, TypeOK
<1> QED BY <1>1, <1>2, <1>3, <1>4, <1>5, <1>6, <1>7, <1>8, <1>9, <1>10, <1>11, <1>12, <1>13
        DEF Next

LEMMA InitState ==
  ASSUME LedgerConstants, Init
  PROVE  TypeOK /\ Used = {}
<1> DEFINE a == CHOOSE a \in Agents : TRUE
           r == NewRow("system", Engine, a, NoBody, NoKey, 0, 0)
           b == [r EXCEPT !.state = Free]
<1>1. a \in Agents
  BY DEF LedgerConstants
<1>2. now \in Nat
  BY DEF Init
<1> HIDE DEF a
<1>3. r \in Row
  BY <1>1, <1>2, NewRowType DEF Kind
<1> HIDE DEF r
<1>4. b \in Row /\ b.state = Free
  BY <1>3 DEF Row
<1>5. mail = [i \in Rows |-> b]
  BY DEF Init, BlankRow, b, r, a
<1> HIDE DEF b
<1> QED BY <1>4, <1>5 DEF Init, TypeOK, Used

-----------------------------------------------------------------------------
(* Theorems.                                                               *)

\* Every reachable table holds rows of the declared shape, whatever the
\* agents, the bounds and the delays are (the columns of `messages`).
THEOREM TypeCorrect == Spec => []TypeOK
<1>1. Init => TypeOK
  BY LedgerConstants, InitState
<1>2. TypeOK /\ [Next]_vars => TypeOK'
  BY LedgerConstants, NextStep DEF StepOK
<1> QED BY <1>1, <1>2, PTL DEF Spec

\* No two messages are in flight to one agent, however many agents and
\* callers there are (take_next_via re-checks inside its transaction).
THEOREM OneMessageInFlight == Spec => []OneInFlight
<1>1. Init => OneInFlight
  BY LedgerConstants, InitState DEF OneInFlight
<1>2. TypeOK /\ OneInFlight /\ [Next]_vars => OneInFlight'
  <2> SUFFICES ASSUME TypeOK, OneInFlight, StepOK,
                      NEW i \in Rows, NEW j \in Rows,
                      mail'[i].state = "delivering", mail'[j].state = "delivering",
                      mail'[i].to = mail'[j].to
               PROVE  i = j
    BY LedgerConstants, NextStep DEF OneInFlight, Used
  <2>1. /\ i \in Used /\ mail'[i].to = mail[i].to
        /\ j \in Used /\ mail'[j].to = mail[j].to
    <3>1. ASSUME NEW k \in Rows, mail'[k].state = "delivering"
          PROVE  k \in Used
      BY <3>1 DEF StepOK, Eligible, Used, Free
    <3> QED BY <3>1 DEF StepOK, Keeps
  <2>2. CASE mail[i].state = "delivering" /\ mail[j].state = "delivering"
    BY <2>1, <2>2 DEF OneInFlight
  <2>3. ASSUME NEW k \in Rows, NEW l \in Rows, mail[k].state # "delivering",
               mail'[k].state = "delivering", mail'[l].state = "delivering",
               k \in Used, l \in Used, mail[l].to = mail[k].to
        PROVE  k = l
    <3>1. /\ k \in Eligible(mail[k].to)
          /\ \A m \in Rows \ {k} : mail'[m] = mail[m]
      BY <2>3 DEF StepOK
    <3>2. ~\E d \in Used : mail[d].to = mail[k].to /\ mail[d].state = "delivering"
      BY <3>1 DEF Eligible
    <3> QED BY <2>3, <3>1, <3>2
  <2>4. mail[i].to = mail[j].to
    BY <2>1
  <2> QED BY <2>1, <2>2, <2>3, <2>4
<1> QED BY <1>1, <1>2, TypeCorrect, PTL DEF Spec

\* The table keeps its shape, and an agent gets its mail one at a time.
THEOREM QueueIsAlwaysTrue == Spec => []QueueIsTrue
BY TypeCorrect, OneMessageInFlight, PTL DEF QueueIsTrue

\* The queue of an agent that has ended is empty and stays empty
\* (on_agent_end in the transaction of the end; check_target and
\* notify_sender look at the state in theirs).
THEOREM EndedQueueEmpty == Spec => []NoMailAfterEnd
<1>1. Init => NoMailAfterEnd
  BY LedgerConstants, InitState DEF NoMailAfterEnd
<1>2. TypeOK /\ NoMailAfterEnd /\ [Next]_vars => NoMailAfterEnd'
  <2> SUFFICES ASSUME TypeOK, NoMailAfterEnd, StepOK, NEW i \in Rows,
                      mail'[i].state \in Open
               PROVE  mail'[i].to \notin ended'
    BY LedgerConstants, NextStep DEF NoMailAfterEnd, Used, Open
  <2>1. CASE i \in Used
    <3>1. mail'[i].to = mail[i].to
      BY <2>1 DEF StepOK, Keeps
    <3>2. mail[i].state \in Open /\ mail[i].to \notin ended' \ ended
      BY <2>1 DEF StepOK
    <3> QED BY <2>1, <3>1, <3>2 DEF NoMailAfterEnd, Open
  <2>2. CASE i \notin Used
    BY <2>2 DEF StepOK
  <2> QED BY <2>1, <2>2
<1> QED BY <1>1, <1>2, TypeCorrect, PTL DEF Spec

\* A result never changes but by evidence within the late window: nothing
\* re-opens, re-judges or re-delivers a settled message (mark, evidence,
\* late_evidence, cancel and on_agent_end check the state they replace).
THEOREM ResultsStay == Spec => FinalStays
<1>1. TypeOK /\ [Next]_vars =>
        [\A i \in Used :
           mail[i].state \notin {"queued", "delivering"} /\ mail'[i].state # mail[i].state
             => /\ mail[i].state = "uncertain" /\ mail'[i].state = "delivered"
                /\ now <= mail[i].stateAt + LateWindow]_vars
  BY LedgerConstants, NextStep DEF StepOK, Open
<1> QED BY <1>1, TypeCorrect, PTL DEF Spec, FinalStays

\* A key names one row of its sender, whatever the row's state and however
\* often the send is repeated (replay, in the transaction of the insert).
THEOREM KeysAreUnique == Spec => []KeyOnce
<1>1. Init => KeyOnce
  BY LedgerConstants, InitState DEF KeyOnce
<1>2. TypeOK /\ KeyOnce /\ [Next]_vars => KeyOnce'
  <2> SUFFICES ASSUME TypeOK, KeyOnce, StepOK, NEW i \in Used', NEW j \in Used',
                      mail'[i].key # NoKey, mail'[i].key = mail'[j].key,
                      mail'[i].from = mail'[j].from
               PROVE  i = j
    BY LedgerConstants, NextStep DEF KeyOnce
  <2>1. i \in Rows /\ j \in Rows /\ mail'[i].state # Free /\ mail'[j].state # Free
    BY DEF Used
  <2>2. CASE i \in Used /\ j \in Used
    BY <2>2 DEF StepOK, Keeps, KeyOnce
  <2>3. CASE i \notin Used
    <3>1. /\ ~Replays(mail'[i].from, mail'[i].key)
          /\ \A k \in Rows \ {i} : mail'[k] = mail[k]
      BY <2>1, <2>3 DEF StepOK
    <3> QED BY <2>1, <3>1 DEF Replays, Used
  <2>4. CASE j \notin Used
    <3>1. /\ ~Replays(mail'[j].from, mail'[j].key)
          /\ \A k \in Rows \ {j} : mail'[k] = mail[k]
      BY <2>1, <2>4 DEF StepOK
    <3> QED BY <2>1, <3>1 DEF Replays, Used
  <2> QED BY <2>2, <2>3, <2>4
<1> QED BY <1>1, <1>2, TypeCorrect, PTL DEF Spec

\* What an agent sent to another in a stretch of the window's length.
SentIn(p, a, t) ==
  {i \in Used : /\ mail[i].from = p /\ mail[i].to = a
                /\ mail[i].createdAt \in t..(t + Window - 1)}

LEMMA RowsAreFinite ==
  ASSUME LedgerConstants, NEW S \in SUBSET Rows
  PROVE  IsFiniteSet(S) /\ Cardinality(S) \in Nat
<1>1. IsFiniteSet(Rows)
  BY FS_Interval DEF Rows, LedgerConstants
<1> QED BY <1>1, FS_Subset, FS_CardinalityType

LEMMA PairStep ==
  ASSUME LedgerConstants, TypeOK, StepOK, NEW p \in Agents, NEW a \in Agents, NEW t \in Nat,
         Cardinality(SentIn(p, a, t)) <= PairLimit
  PROVE  Cardinality(SentIn(p, a, t)') <= PairLimit
<1>1. \A i \in Used : /\ i \in Used' /\ mail'[i].from = mail[i].from /\ mail'[i].to = mail[i].to
                      /\ mail'[i].createdAt = mail[i].createdAt
  BY DEF StepOK, Keeps, Used
<1>2. CASE SentIn(p, a, t)' = SentIn(p, a, t)
  BY <1>2
<1>3. ASSUME NEW j \in SentIn(p, a, t)', j \notin SentIn(p, a, t)
      PROVE  Cardinality(SentIn(p, a, t)') <= PairLimit
  <2>1. /\ j \in Rows \ Used /\ mail'[j].state # Free /\ mail'[j].from = p /\ mail'[j].to = a
        /\ mail'[j].createdAt \in t..(t + Window - 1)
    BY <1>1, <1>3 DEF SentIn, Used
  <2>2. /\ mail'[j].createdAt = now /\ Cardinality(Recent(p, a)) < PairLimit
        /\ \A k \in Rows \ {j} : mail'[k] = mail[k]
    BY <2>1 DEF StepOK
  <2>3. SentIn(p, a, t)' \subseteq Recent(p, a) \union {j}
    <3> SUFFICES ASSUME NEW i \in SentIn(p, a, t)', i # j
                 PROVE  i \in Recent(p, a)
      OBVIOUS
    <3>1. /\ i \in Used /\ mail[i].from = p /\ mail[i].to = a
          /\ mail[i].createdAt \in t..(t + Window - 1)
      BY <2>2 DEF SentIn, Used
    <3>2. mail[i].createdAt \in Nat /\ Window \in Nat /\ now \in Nat
      BY <3>1 DEF TypeOK, Row, Used, LedgerConstants
    <3>3. now \in t..(t + Window - 1)
      BY <2>1, <2>2
    <3>4. mail[i].createdAt + Window > now
      BY <3>1, <3>2, <3>3
    <3> QED BY <3>1, <3>4 DEF Recent
  <2>4. /\ IsFiniteSet(Recent(p, a)) /\ Cardinality(Recent(p, a)) \in Nat /\ j \notin Recent(p, a)
    BY <2>1, RowsAreFinite DEF Recent, Used
  <2>5. /\ IsFiniteSet(Recent(p, a) \union {j})
        /\ Cardinality(Recent(p, a) \union {j}) = Cardinality(Recent(p, a)) + 1
    BY <2>4, FS_AddElement
  <2>6. /\ Cardinality(SentIn(p, a, t)') \in Nat
        /\ Cardinality(SentIn(p, a, t)') <= Cardinality(Recent(p, a) \union {j})
    <3>1. SentIn(p, a, t)' \in SUBSET Rows
      BY DEF SentIn, Used
    <3> QED BY <2>3, <2>5, <3>1, FS_Subset, RowsAreFinite
  <2>7. PairLimit \in Nat
    BY DEF LedgerConstants
  <2> QED BY <2>2, <2>4, <2>5, <2>6, <2>7
<1>4. SentIn(p, a, t) \subseteq SentIn(p, a, t)'
  BY <1>1 DEF SentIn
<1> QED BY <1>2, <1>3, <1>4

\* In no stretch of the window's length does an agent send a target more than
\* PAIR_LIMIT messages, for every limit and window (the count of
\* enqueue, in the transaction of the insert).
THEOREM PairsAreBounded == Spec => []PairBound
<1> DEFINE Few == \A p, a \in Agents, t \in Nat : Cardinality(SentIn(p, a, t)) <= PairLimit
<1>1. Init => Few
  <2> SUFFICES ASSUME Init, NEW p \in Agents, NEW a \in Agents, NEW t \in Nat
               PROVE  Cardinality(SentIn(p, a, t)) <= PairLimit
    OBVIOUS
  <2>1. SentIn(p, a, t) = {}
    BY LedgerConstants, InitState DEF SentIn
  <2> QED BY <2>1, FS_EmptySet, LedgerConstants DEF LedgerConstants
<1>2. TypeOK /\ Few /\ [Next]_vars => Few'
  <2> SUFFICES ASSUME TypeOK, Few, [Next]_vars, NEW p \in Agents, NEW a \in Agents,
                      NEW t \in Nat
               PROVE  Cardinality(SentIn(p, a, t)') <= PairLimit
    OBVIOUS
  <2>1. StepOK
    BY LedgerConstants, NextStep
  <2> QED BY <2>1, LedgerConstants, PairStep
<1>3. Few => PairBound
  BY LedgerConstants DEF PairBound, SentIn, LedgerConstants
<1> HIDE DEF Few
<1> QED BY <1>1, <1>2, <1>3, TypeCorrect, PTL DEF Spec

-----------------------------------------------------------------------------
(* What senders are told.                                                  *)

\* Row i tells its sender in time: an unhappy result names a notice to the
\* sender, only a settled row of an agent's mail does, and what is in flight
\* was taken.
ToldInv(i) ==
  /\ mail[i].state \in Unhappy /\ mail[i].kind = "mail" /\ mail[i].from \in Agents \ ended
       => mail[i].notice # NoRow
  /\ mail[i].notice # NoRow
       => /\ mail[i].kind = "mail" /\ mail[i].state \notin Open
          /\ mail[i].notice \in Used
          /\ mail[mail[i].notice].kind = "notice"
          /\ mail[mail[i].notice].to = mail[i].from
  /\ mail[i].state = "delivering" => mail[i].attempts # 0

\* Notice n lists what stands until its first delivery.
CurrentInv(n) ==
  mail[n].kind = "notice" /\ mail[n].state = "queued" /\ mail[n].attempts = 0
    => mail[n].lists = Unresolved(n) /\ mail[n].lists # {}

\* Notice n waits for the late evidence of each of its uncertain rows.
WaitInv(n) ==
  mail[n].kind = "notice" =>
    \A i \in Unresolved(n) :
      mail[i].state = "uncertain"
        => /\ mail[n].state = "delivering" => mail[i].stateAt + NoticeDelay <= now
           /\ mail[n].state = "queued"
                => \/ mail[i].stateAt + NoticeDelay <= now
                   \/ mail[i].stateAt + NoticeDelay <= mail[n].notBefore

TellInv == \A i \in Used : ToldInv(i) /\ CurrentInv(i) /\ WaitInv(i)

LEMMA RowTypes ==
  ASSUME LedgerConstants, TypeOK, NEW i \in Rows
  PROVE  /\ mail[i].stateAt \in Nat /\ mail[i].notBefore \in Nat /\ NoticeDelay \in Nat
         /\ now \in Nat /\ mail[i].notice \in Rows \union {NoRow} /\ NoRow \notin Rows
BY DEF TypeOK, Row, LedgerConstants, NoRow, Rows

LEMMA TellSame ==
  ASSUME LedgerConstants, TypeOK, TellInv, UNCHANGED mail, ended \subseteq ended', now' \in Nat,
         now <= now'
  PROVE  TellInv'
<1>1. Used' = Used
  BY DEF Used
<1>2. ASSUME NEW i \in Used
      PROVE  ToldInv(i)' /\ CurrentInv(i)' /\ WaitInv(i)'
  <2>1. ToldInv(i) /\ CurrentInv(i) /\ WaitInv(i) /\ i \in Rows
    BY DEF TellInv, Used
  <2>2. Unresolved(i)' = Unresolved(i)
    BY <1>1 DEF Unresolved
  <2>3. ToldInv(i)' /\ CurrentInv(i)'
    BY <1>1, <2>1, <2>2 DEF ToldInv, CurrentInv
  <2>4. \A j \in Unresolved(i) : mail[j].stateAt \in Nat /\ NoticeDelay \in Nat /\ now \in Nat
    BY RowTypes DEF Unresolved, Used
  <2>5. WaitInv(i)'
    BY <2>1, <2>2, <2>4 DEF WaitInv
  <2> QED BY <2>3, <2>5
<1> QED BY <1>1, <1>2 DEF TellInv

\* A new row that is no notice.
LEMMA TellInsert ==
  ASSUME LedgerConstants, TypeOK, TellInv, NEW i \in Rows \ Used, NEW r \in Row,
         r.state = "queued", r.kind # "notice", r.notice = NoRow,
         mail' = [mail EXCEPT ![i] = r], UNCHANGED <<ended, now>>
  PROVE  TellInv'
<1>1. mail'[i] = r /\ \A k \in Rows \ {i} : mail'[k] = mail[k]
  BY OneRow
<1>2. Used' = Used \union {i}
  BY <1>1 DEF Used, Free
<1>3. ASSUME NEW n \in Rows
      PROVE  Unresolved(n)' = Unresolved(n)
  <2>1. NoRow # n
    BY DEF NoRow, Rows
  <2> QED BY <1>1, <1>2, <2>1 DEF Unresolved, Used
<1>4. ToldInv(i)' /\ CurrentInv(i)' /\ WaitInv(i)'
  BY <1>1 DEF ToldInv, CurrentInv, WaitInv, Unhappy
<1>5. ASSUME NEW k \in Used
      PROVE  ToldInv(k)' /\ CurrentInv(k)' /\ WaitInv(k)'
  <2>1. ToldInv(k) /\ CurrentInv(k) /\ WaitInv(k) /\ k \in Rows \ {i} /\ mail'[k] = mail[k]
    BY <1>1 DEF TellInv, Used
  <2>2. mail[k].notice # NoRow => mail'[mail[k].notice] = mail[mail[k].notice]
    BY <1>1, <2>1 DEF ToldInv, Used
  <2>3. ToldInv(k)'
    BY <1>2, <2>1, <2>2 DEF ToldInv
  <2>4. CurrentInv(k)'
    BY <1>3, <2>1 DEF CurrentInv
  <2>5. \A j \in Unresolved(k) : mail'[j] = mail[j]
    BY <1>1 DEF Unresolved, Used
  <2>6. WaitInv(k)'
    BY <1>3, <2>1, <2>5 DEF WaitInv
  <2> QED BY <2>3, <2>4, <2>6
<1> QED BY <1>2, <1>4, <1>5 DEF TellInv

\* A row that is taken, or goes back to the queue.
LEMMA TellMove ==
  ASSUME LedgerConstants, TypeOK, TellInv, NEW i \in Used,
         mail[i].state \in Open, mail'[i].state \in Open,
         mail'[i].kind = mail[i].kind, mail'[i].from = mail[i].from, mail'[i].to = mail[i].to,
         mail'[i].notice = mail[i].notice, mail'[i].attempts # 0,
         mail'[i].state = "delivering" => mail[i].state = "queued" /\ mail[i].notBefore <= now,
         mail'[i].state = "queued" => mail[i].state = "delivering",
         \A k \in Rows \ {i} : mail'[k] = mail[k], UNCHANGED <<ended, now>>
  PROVE  TellInv'
<1>1. Used' = Used /\ i \in Rows /\ mail[i].notice = NoRow
  BY DEF Used, Open, Free, TellInv, ToldInv
<1>2. ASSUME NEW n \in Rows
      PROVE  Unresolved(n)' = Unresolved(n) /\ \A j \in Unresolved(n) : mail'[j] = mail[j]
  <2>1. NoRow # n
    BY DEF NoRow, Rows
  <2> QED BY <1>1, <2>1 DEF Unresolved, Used
<1>3. ASSUME NEW k \in Used
      PROVE  ToldInv(k)' /\ CurrentInv(k)' /\ WaitInv(k)'
  <2>1. ToldInv(k) /\ CurrentInv(k) /\ WaitInv(k) /\ k \in Rows
    BY DEF TellInv, Used
  <2>2. ASSUME NEW n \in Used
        PROVE  mail'[n].kind = mail[n].kind /\ mail'[n].to = mail[n].to
    BY DEF Used
  <2>3. ToldInv(k)'
    <3>1. CASE k = i
      BY <1>1, <3>1 DEF ToldInv, Open, Unhappy
    <3>2. CASE k # i
      <4>1. mail'[k] = mail[k]
        BY <2>1, <3>2
      <4> QED BY <1>1, <2>1, <2>2, <4>1 DEF ToldInv
    <3> QED BY <3>1, <3>2
  <2>4. CurrentInv(k)'
    BY <1>2, <2>1 DEF CurrentInv
  <2>5. WaitInv(k)'
    <3>1. CASE k # i
      BY <1>2, <2>1, <3>1 DEF WaitInv
    <3>2. CASE k = i
      <4>1. \A j \in Unresolved(i) : /\ mail[j].stateAt \in Nat /\ NoticeDelay \in Nat
                                     /\ now \in Nat /\ mail[i].notBefore \in Nat
        BY <1>1, RowTypes DEF Unresolved, Used
      <4>2. ASSUME NEW j \in Unresolved(i), mail[j].state = "uncertain", mail[i].kind = "notice"
            PROVE  mail[j].stateAt + NoticeDelay <= now
        BY <2>1, <3>2, <4>1, <4>2 DEF WaitInv, Open
      <4> QED BY <1>1, <1>2, <3>2, <4>2 DEF WaitInv
    <3> QED BY <3>1, <3>2
  <2> QED BY <2>3, <2>4, <2>5
<1> QED BY <1>1, <1>3 DEF TellInv

\* Late evidence of a row.
LEMMA TellLate ==
  ASSUME LedgerConstants, TypeOK, TellInv, NEW i \in Rows, LateEvidence(i)
  PROVE  TellInv'
<1> DEFINE n == mail[i].notice
           left == Unresolved(n) \ {i}
<1>1. /\ i \in Used /\ mail[i].state = "uncertain" /\ UNCHANGED <<ended, now>>
      /\ mail' = [j \in Rows |->
           CASE j = i -> Set(mail[i], "delivered")
             [] j = n /\ j # i /\ mail[n].state = "queued" ->
                  IF left = {}
                  THEN Set(mail[n], "cancelled")
                  ELSE [mail[n] EXCEPT !.lists = left]
             [] OTHER -> mail[j]]
  BY DEF LateEvidence
<1>2. /\ mail'[i].state = "delivered"
      /\ \A j \in Rows :
           /\ Alike(mail'[j], mail[j]) /\ mail'[j].notice = mail[j].notice
           /\ \/ mail'[j].state = mail[j].state
              \/ j = i /\ mail'[j].state = "delivered"
              \/ j \in Used /\ mail[j].state = "queued" /\ mail'[j].state = "cancelled"
  BY LateEvidenceRows
<1>3. n # NoRow => mail[n].kind = "notice" /\ n \in Used /\ mail[i].kind = "mail"
  BY <1>1 DEF TellInv, ToldInv
<1>4. \A j \in Rows \ {i, n} : mail'[j] = mail[j]
  BY <1>1
<1>5. n \in Rows /\ mail[n].state # "queued" => mail'[n] = mail[n] \/ n = i
  BY <1>1
<1>6. n \in Rows /\ n # i /\ mail[n].state = "queued"
        => IF left = {} THEN mail'[n].state = "cancelled"
           ELSE mail'[n] = [mail[n] EXCEPT !.lists = left]
  <2>1. ASSUME n \in Rows, n # i, mail[n].state = "queued", left = {}
        PROVE  mail'[n].state = "cancelled"
    <3>1. mail'[n] = Set(mail[n], "cancelled")
      BY <1>1, <2>1
    <3> QED BY <2>1, <3>1, SetType DEF TypeOK, MsgState
  <2> QED BY <1>1, <2>1
<1>7. Used' = Used
  BY <1>1, <1>2 DEF Used, Free
<1>8. ASSUME NEW m \in Rows
      PROVE  Unresolved(m)' = Unresolved(m) \ {i}
  <2>1. \A j \in Used : j # i /\ mail[j].notice = m
                         => (mail'[j].state # "delivered" <=> mail[j].state # "delivered")
    BY <1>2 DEF Used
  <2> QED BY <1>2, <1>7, <2>1 DEF Unresolved, Used
<1>9. ASSUME NEW m \in Rows, NEW j \in Unresolved(m), j # i
      PROVE  mail'[j] = mail[j]
  <2>1. j \in Used /\ mail[j].notice # NoRow
    BY <1>9, RowTypes DEF Unresolved
  <2>2. mail[j].kind = "mail" /\ j \in Rows
    BY <2>1 DEF TellInv, ToldInv, Used
  <2> QED BY <1>3, <1>4, <1>9, <2>2, RowTypes
<1> HIDE DEF n, left
<1>10. ASSUME NEW k \in Used
       PROVE  ToldInv(k)' /\ CurrentInv(k)' /\ WaitInv(k)'
  <2>1. ToldInv(k) /\ CurrentInv(k) /\ WaitInv(k) /\ k \in Rows
    BY DEF TellInv, Used
  <2>2. ASSUME NEW m \in Used
        PROVE  mail'[m].kind = mail[m].kind /\ mail'[m].to = mail[m].to
    BY <1>2 DEF Used, Alike
  <2>3. /\ mail'[k].kind = mail[k].kind /\ mail'[k].from = mail[k].from
        /\ mail'[k].notice = mail[k].notice /\ mail'[k].attempts = mail[k].attempts
    BY <1>2, <2>1 DEF Alike
  <2>4. ToldInv(k)'
    <3>1. CASE mail'[k].state = mail[k].state
      <4>1. mail[k].notice # NoRow
              => /\ mail[k].notice \in Used' /\ mail'[mail[k].notice].kind = "notice"
                 /\ mail'[mail[k].notice].to = mail[k].from
        BY <1>7, <2>1, <2>2 DEF ToldInv
      <4> QED BY <1>1, <2>1, <2>3, <3>1, <4>1 DEF ToldInv
    <3>2. CASE k = i /\ mail'[k].state = "delivered"
      BY <1>7, <2>1, <2>2, <2>3, <3>2 DEF ToldInv, Unhappy, Open
    <3>3. CASE mail[k].state = "queued" /\ mail'[k].state = "cancelled" /\ k # i
      <4>1. k = n
        BY <1>4, <2>1, <3>3
      <4>2. mail[k].kind = "notice" /\ mail[k].notice = NoRow
        BY <1>3, <2>1, <4>1, RowTypes DEF ToldInv
      <4> QED BY <2>3, <3>3, <4>2 DEF ToldInv
    <3> QED BY <1>1, <1>2, <2>1, <3>1, <3>2, <3>3
  <2>5. CASE k = i
    <3>1. mail'[k].state = "delivered"
      BY <1>2, <2>5
    <3> QED BY <2>4, <3>1 DEF CurrentInv, WaitInv
  <2>6. CASE k # i /\ k # n
    <3>1. mail'[k] = mail[k]
      BY <1>4, <2>1, <2>6
    <3>2. i \notin Unresolved(k)
      BY <2>6 DEF Unresolved, n
    <3>3. \A j \in Unresolved(k) : mail'[j] = mail[j]
      BY <1>9, <2>1, <3>2
    <3>4. Unresolved(k)' = Unresolved(k)
      BY SMTT(60), <1>8, <2>1, <3>2
    <3>5. CurrentInv(k)'
      BY <2>1, <3>1, <3>4 DEF CurrentInv
    <3>6. WaitInv(k)'
      BY <1>1, <2>1, <3>1, <3>3, <3>4 DEF WaitInv
    <3> QED BY <2>4, <3>5, <3>6
  <2>7. CASE k # i /\ k = n
    <3>1. Unresolved(k)' = left
      BY <1>8, <2>1, <2>7 DEF left
    <3>2. \A j \in left : mail'[j] = mail[j] /\ j \in Unresolved(k)
      BY <1>9, <2>1, <2>7 DEF left
    <3>3. CASE mail[k].state = "queued" /\ left = {}
      BY <1>6, <2>1, <2>4, <2>7, <3>3 DEF CurrentInv, WaitInv
    <3>4. CASE mail[k].state = "queued" /\ left # {}
      <4>1. mail'[k] = [mail[k] EXCEPT !.lists = left]
        BY <1>6, <2>1, <2>7, <3>4
      <4>2. mail[k] \in Row
        BY <2>1 DEF TypeOK
      <4>3. /\ mail'[k].lists = left /\ mail'[k].state = mail[k].state
            /\ mail'[k].notBefore = mail[k].notBefore
        BY <4>1, <4>2 DEF Row
      <4>4. CurrentInv(k)'
        BY <3>1, <3>4, <4>3 DEF CurrentInv
      <4>5. WaitInv(k)'
        BY SMTT(60), <1>1, <2>1, <2>3, <3>1, <3>2, <4>3 DEF WaitInv
      <4> QED BY <2>4, <4>4, <4>5
    <3>5. CASE mail[k].state # "queued"
      <4>1. mail'[k] = mail[k]
        BY <1>5, <2>1, <2>7, <3>5
      <4> QED BY <1>1, <2>1, <2>4, <3>1, <3>2, <3>5, <4>1 DEF CurrentInv, WaitInv
    <3> QED BY <3>3, <3>4, <3>5
  <2> QED BY <2>5, <2>6, <2>7
<1> QED BY <1>7, <1>10 DEF TellInv

\* A merge never shortens the wait, and makes it whole for late evidence.
LEMMA MergedWait ==
  ASSUME LedgerConstants, TypeOK, NEW n \in Rows, NEW s \in Agents, NEW about \in SUBSET Rows,
         NEW result
  PROVE  LET m == Merged(n, s, about, result)
         IN /\ n \in Used => mail[n].notBefore <= m.notBefore
            /\ \A i \in about : result[i] = "uncertain" => now + NoticeDelay <= m.notBefore
<1> DEFINE late == \E i \in about : result[i] = "uncertain"
           wait == now + IF late THEN NoticeDelay ELSE 0
           new  == NewRow("notice", Engine, s, NoBody, NoKey, 0, wait)
           old  == IF n \in Used THEN mail[n] ELSE new
           w    == IF old.notBefore > wait THEN old.notBefore ELSE wait
           l    == Unresolved(n) \union about
           m1   == [old EXCEPT !.notBefore = w]
           m2   == [m1 EXCEPT !.lists = l]
<1>1. wait \in Nat /\ (late => now + NoticeDelay = wait)
  BY DEF TypeOK, LedgerConstants
<1>2. Merged(n, s, about, result) = m2
  BY DEF Merged
<1> HIDE DEF wait
<1>3. new \in Row
  <2>1. Engine \notin Agents
    BY DEF LedgerConstants
  <2> QED BY <1>1, <2>1, NewRowType DEF TypeOK, Kind
<1> HIDE DEF new
<1>4. old \in Row /\ (n \in Used => old = mail[n])
  BY <1>3 DEF TypeOK
<1> HIDE DEF old
<1>5. w \in Nat /\ wait <= w /\ old.notBefore <= w
  BY <1>1, <1>4 DEF Row
<1> HIDE DEF w, l
<1>6. m1.notBefore = w
  BY <1>4 DEF Row
<1>7. m1 \in Row
  BY <1>4, <1>5 DEF Row
<1> HIDE DEF m1
<1>8. m2.notBefore = w
  BY <1>6, <1>7 DEF Row
<1> HIDE DEF m2
<1> QED BY <1>1, <1>2, <1>4, <1>5, <1>8 DEF late

Told(D, result, gone) == {i \in D : Tells(i, result[i], gone)}
Senders(D, result, gone) == {mail[i].from : i \in Told(D, result, gone)}
About(D, result, gone, s) == {i \in Told(D, result, gone) : mail[i].from = s}

\* What a record does to its rows, and to the notices it picks.
Recorded(D, result, gone, pick) ==
  /\ PicksNotices(pick, Senders(D, result, gone))
  /\ \A j \in D :
       /\ mail'[j].state = result[j] /\ Alike(mail'[j], mail[j])
       /\ mail'[j].notice = IF j \in Told(D, result, gone) THEN pick[mail[j].from]
                            ELSE mail[j].notice
       /\ result[j] = "uncertain" => mail'[j].stateAt = now
  /\ \A s \in Senders(D, result, gone) :
       pick[s] \notin D =>
         mail'[pick[s]] = Merged(pick[s], s, About(D, result, gone, s), result)
  /\ \A j \in Rows \ D :
       (\A s \in Senders(D, result, gone) : pick[s] # j) => mail'[j] = mail[j]

LEMMA RecordNotices ==
  ASSUME LedgerConstants, TypeOK, NEW D \in SUBSET Used, NEW result \in [D -> MsgState],
         NEW gone \in SUBSET Agents, Record(D, result, gone)
  PROVE  \E pick \in [Senders(D, result, gone) -> Rows] : Recorded(D, result, gone, pick)
<1> DEFINE T == Told(D, result, gone)
           S == Senders(D, result, gone)
<1>1. PICK pick \in [S -> Rows] :
        /\ PicksNotices(pick, S)
        /\ mail' = [i \in Rows |->
             CASE i \in D ->
                    [Set(mail[i], result[i]) EXCEPT
                       !.notice = IF i \in T THEN pick[mail[i].from] ELSE @]
               [] i \notin D /\ \E s \in S : pick[s] = i ->
                    LET s == CHOOSE s \in S : pick[s] = i
                    IN Merged(i, s, {j \in T : mail[j].from = s}, result)
               [] OTHER -> mail[i]]
  BY DEF Record, Told, Senders
<1>2. \A s, t \in S : pick[s] = pick[t] => s = t
  BY <1>1 DEF PicksNotices
<1>3. ASSUME NEW j \in D
      PROVE  /\ mail'[j].state = result[j] /\ Alike(mail'[j], mail[j])
             /\ mail'[j].notice = IF j \in T THEN pick[mail[j].from] ELSE mail[j].notice
             /\ result[j] = "uncertain" => mail'[j].stateAt = now
  <2> DEFINE r == Set(mail[j], result[j])
             p == IF j \in T THEN pick[mail[j].from] ELSE r.notice
  <2>1. j \in Rows /\ mail[j] \in Row /\ result[j] \in MsgState
    BY DEF Used, TypeOK
  <2>2. mail'[j] = [r EXCEPT !.notice = p]
    BY <1>1, <2>1
  <2>3. /\ r \in Row /\ r.state = result[j] /\ Alike(r, mail[j]) /\ r.notice = mail[j].notice
        /\ result[j] = "uncertain" => r.stateAt = now
    BY <2>1, SetType DEF TypeOK
  <2>4. p = IF j \in T THEN pick[mail[j].from] ELSE mail[j].notice
    BY <2>3
  <2> HIDE DEF r, p
  <2>5. /\ mail'[j].state = r.state /\ Alike(mail'[j], r) /\ mail'[j].notice = p
        /\ mail'[j].stateAt = r.stateAt
    BY <2>2, <2>3 DEF Row, Alike
  <2> QED BY <2>3, <2>4, <2>5 DEF Alike
<1>4. ASSUME NEW s \in S, pick[s] \notin D
      PROVE  mail'[pick[s]] = Merged(pick[s], s, About(D, result, gone, s), result)
  <2>1. (CHOOSE t \in S : pick[t] = pick[s]) = s
    BY <1>2
  <2>2. pick[s] \in Rows /\ \E t \in S : pick[t] = pick[s]
    BY <1>1
  <2> DEFINE m(i, t) == Merged(i, t, {j \in T : mail[j].from = t}, result)
  <2>3. mail'[pick[s]] = m(pick[s], CHOOSE t \in S : pick[t] = pick[s])
    BY <1>1, <1>4, <2>2
  <2>4. mail'[pick[s]] = m(pick[s], s)
    BY <2>1, <2>3
  <2> QED BY <2>4 DEF About
<1>5. ASSUME NEW j \in Rows \ D, \A s \in S : pick[s] # j
      PROVE  mail'[j] = mail[j]
  BY <1>1, <1>5
<1> HIDE DEF T, S
<1>6. /\ \A j \in D : /\ mail'[j].state = result[j] /\ Alike(mail'[j], mail[j])
                      /\ mail'[j].notice = IF j \in T THEN pick[mail[j].from] ELSE mail[j].notice
                      /\ result[j] = "uncertain" => mail'[j].stateAt = now
      /\ \A s \in S : pick[s] \notin D =>
           mail'[pick[s]] = Merged(pick[s], s, About(D, result, gone, s), result)
      /\ \A j \in Rows \ D : (\A s \in S : pick[s] # j) => mail'[j] = mail[j]
  BY <1>3, <1>4, <1>5
<1> QED BY <1>1, <1>6 DEF T, S, Recorded

\* Recording results of open rows, which may end agents.
LEMMA TellRecord ==
  ASSUME LedgerConstants, TypeOK, TellInv, StepOK, NEW D \in SUBSET Used,
         NEW result \in [D -> MsgState \ Open], \A j \in D : mail[j].state \in Open,
         Record(D, result, ended'), now' = now
  PROVE  TellInv'
<1>0. PICK gone \in SUBSET Agents : gone = ended'
  BY DEF StepOK, TypeOK
<1> DEFINE T == Told(D, result, gone)
           S == Senders(D, result, gone)
           A(s) == About(D, result, gone, s)
<1>1. /\ result \in [D -> MsgState] /\ ended \subseteq ended' /\ ended' \in SUBSET Agents
      /\ \A j \in Used : Keeps(j) /\ j \in Used'
      /\ mail' \in [Rows -> Row]
  BY DEF StepOK, TypeOK, Used
<1>2a. PICK pick \in [Senders(D, result, gone) -> Rows] : Recorded(D, result, gone, pick)
  <2>1. Record(D, result, gone)
    BY <1>0
  <2> QED BY ONLY <1>1, <2>1, RecordNotices, LedgerConstants, TypeOK, D \in SUBSET Used,
                  gone \in SUBSET Agents
<1>2. /\ pick \in [S -> Rows] /\ PicksNotices(pick, S)
      /\ \A j \in D :
           /\ mail'[j].state = result[j] /\ Alike(mail'[j], mail[j])
           /\ mail'[j].notice = IF j \in T THEN pick[mail[j].from] ELSE mail[j].notice
           /\ result[j] = "uncertain" => mail'[j].stateAt = now
      /\ \A s \in S : pick[s] \notin D => mail'[pick[s]] = Merged(pick[s], s, A(s), result)
      /\ \A j \in Rows \ D : (\A s \in S : pick[s] # j) => mail'[j] = mail[j]
  BY <1>2a DEF Recorded
<1>3. /\ T \subseteq D /\ \A s \in S : A(s) \subseteq T /\ A(s) # {} /\ s \in Agents \ ended'
      /\ \A i \in T : /\ result[i] \in Unhappy /\ mail[i].kind = "mail" /\ mail[i].from \in S
                      /\ mail[i].notice = NoRow /\ i \in A(mail[i].from)
      /\ \A s \in S : \A i \in A(s) : mail[i].from = s
  BY <1>0 DEF Told, Senders, About, Tells
<1>4. \A i \in D : /\ i \in Rows /\ mail[i].notice = NoRow
                   /\ i \in T \/ ~Tells(i, result[i], ended')
  BY <1>0 DEF TellInv, ToldInv, Used, Told
<1> HIDE DEF T, S, A
<1>5. ASSUME NEW s \in S
      PROVE  /\ pick[s] \in Rows
             /\ pick[s] \in Used => /\ mail[pick[s]].kind = "notice" /\ mail[pick[s]].to = s
                                    /\ mail[pick[s]].state = "queued"
  BY <1>2 DEF PicksNotices, QueuedNotices
<1>6. \A s, t \in S : pick[s] = pick[t] => s = t
  BY <1>2 DEF PicksNotices
<1>7. ASSUME NEW s \in S, pick[s] \notin D
      PROVE  /\ pick[s] \in Used' /\ mail'[pick[s]].kind = "notice" /\ mail'[pick[s]].to = s
             /\ mail'[pick[s]].state = "queued" /\ mail'[pick[s]].notice = NoRow
             /\ mail'[pick[s]].lists = Unresolved(pick[s]) \union A(s)
             /\ pick[s] \in Used => mail[pick[s]].notBefore <= mail'[pick[s]].notBefore
             /\ \A i \in A(s) : result[i] = "uncertain"
                                  => now + NoticeDelay <= mail'[pick[s]].notBefore
  <2>1. PICK n \in Rows, q \in SUBSET Rows, m \in {Merged(pick[s], s, A(s), result)} :
          n = pick[s] /\ q = A(s)
    BY <1>3, <1>4, <1>5
  <2>2. m = Merged(n, s, q, result) /\ mail'[n] = m /\ s \in Agents
    BY <1>2, <1>3, <1>7, <2>1
  <2>3. /\ m.lists = Unresolved(n) \union q
        /\ n \in Used => /\ m.state = mail[n].state /\ Alike(m, mail[n])
                         /\ m.notice = mail[n].notice
        /\ n \notin Used => /\ m.state = "queued" /\ m.kind = "notice" /\ m.to = s
                            /\ m.notice = NoRow
    BY ONLY <2>2, n \in Rows, q \in SUBSET Rows, LedgerConstants, TypeOK, MergedRow
  <2>4. /\ n \in Used => mail[n].notBefore <= m.notBefore
        /\ \A i \in q : result[i] = "uncertain" => now + NoticeDelay <= m.notBefore
    BY <2>2, MergedWait
  <2>5. n \in Used => mail[n].kind = "notice" /\ mail[n].to = s /\ mail[n].state = "queued"
    BY <1>5, <2>1
  <2>6. n \in Used => mail[n].notice = NoRow
    BY <2>5 DEF TellInv, ToldInv
  <2>7. /\ m.state = "queued" /\ m.kind = "notice" /\ m.to = s /\ m.notice = NoRow
    BY <2>3, <2>5, <2>6 DEF Alike
  <2>8. n \in Used'
    BY <2>2, <2>7 DEF Used, Free
  <2> QED BY <2>1, <2>2, <2>3, <2>4, <2>7, <2>8
<1>8. ASSUME NEW j \in Used, mail[j].kind = "mail", j \notin D
      PROVE  mail'[j] = mail[j]
  <2>1. \A s \in S : pick[s] # j
    BY <1>5, <1>8
  <2> QED BY <1>2, <1>8, <2>1 DEF Used
<1>9. ASSUME NEW n \in Rows, NEW i \in Unresolved(n)
      PROVE  /\ i \in Used /\ i \in Rows \ D /\ mail'[i] = mail[i]
             /\ n \in Used /\ mail[n].kind = "notice"
  <2>1. i \in Used /\ mail[i].notice = n /\ mail[i].notice # NoRow
    BY RowTypes DEF Unresolved
  <2>2. /\ mail[i].kind = "mail" /\ mail[i].state \notin Open /\ n \in Used
        /\ mail[n].kind = "notice"
    BY <2>1 DEF TellInv, ToldInv
  <2> QED BY <1>8, <2>1, <2>2 DEF Used
<1>10. ASSUME NEW n \in Rows
       PROVE  Unresolved(n)' = Unresolved(n) \union {i \in T : pick[mail[i].from] = n}
  <2>1. ASSUME NEW i \in Unresolved(n)
        PROVE  i \in Unresolved(n)'
    BY <1>1, <1>9 DEF Unresolved
  <2>2. ASSUME NEW i \in T, pick[mail[i].from] = n
        PROVE  i \in Unresolved(n)'
    <3>1. i \in Used' /\ mail'[i].notice = n /\ mail'[i].state \in Unhappy
      BY <1>1, <1>2, <1>3, <2>2
    <3> QED BY <3>1 DEF Unresolved, Unhappy
  <2>3. ASSUME NEW i \in Unresolved(n)'
        PROVE  i \in Unresolved(n) \/ (i \in T /\ pick[mail[i].from] = n)
    <3>1. /\ i \in Used' /\ mail'[i].notice = n /\ mail'[i].state # "delivered"
          /\ n # NoRow /\ i \in Rows
      BY RowTypes DEF Unresolved, Used
    <3>2. CASE i \in D
      BY <1>2, <1>4, <3>1, <3>2
    <3>3. CASE i \notin D /\ \E s \in S : pick[s] = i
      BY <1>7, <3>1, <3>3
    <3>4. CASE i \notin D /\ \A s \in S : pick[s] # i
      <4>1. mail'[i] = mail[i]
        BY <1>2, <3>1, <3>4
      <4> QED BY <3>1, <4>1 DEF Unresolved, Used
    <3> QED BY <3>2, <3>3, <3>4
  <2> QED BY <2>1, <2>2, <2>3
<1>11. ASSUME NEW k \in Used'
       PROVE  ToldInv(k)'
  <2>0. k \in Rows
    BY DEF Used
  <2>1. CASE k \in D
    <3>1. /\ mail'[k].state = result[k]
          /\ mail'[k].kind = mail[k].kind /\ mail'[k].from = mail[k].from
          /\ mail'[k].notice = IF k \in T THEN pick[mail[k].from] ELSE NoRow
          /\ mail'[k].state \notin Open /\ mail'[k].state # "delivering"
      BY <1>2, <1>4, <2>1 DEF Alike, Open
    <3>2. CASE k \in T
      <4>1. /\ mail[k].from \in S /\ mail[k].kind = "mail" /\ mail'[k].notice = pick[mail[k].from]
        BY <1>3, <3>1, <3>2
      <4>2. PICK s \in S : s = mail[k].from
        BY <4>1
      <4>3. pick[s] \in Rows /\ pick[s] # NoRow
        BY <1>5 DEF NoRow, Rows
      <4>4. pick[s] \in Used' /\ mail'[pick[s]].kind = "notice" /\ mail'[pick[s]].to = s
        <5>1. CASE pick[s] \notin D
          BY <1>7, <5>1
        <5>2. CASE pick[s] \in D
          BY <1>1, <1>5, <5>2 DEF Keeps
        <5> QED BY <5>1, <5>2
      <4> QED BY <3>1, <4>1, <4>2, <4>3, <4>4 DEF ToldInv
    <3>3. CASE k \notin T
      <4>1. ~Tells(k, result[k], ended')
        BY <1>4, <2>1, <3>3
      <4> QED BY <1>4, <2>1, <3>1, <3>3, <4>1 DEF ToldInv, Tells
    <3> QED BY <3>2, <3>3
  <2>2. CASE k \notin D /\ \E s \in S : pick[s] = k
    <3>1. mail'[k].state = "queued" /\ mail'[k].notice = NoRow /\ mail'[k].kind = "notice"
      BY <1>7, <2>2
    <3> QED BY <3>1 DEF ToldInv
  <2>3. CASE k \notin D /\ \A s \in S : pick[s] # k
    <3>1. mail'[k] = mail[k]
      BY <1>2, <2>0, <2>3
    <3>2. k \in Used /\ ToldInv(k)
      BY <3>1 DEF TellInv, Used
    <3>3. \A n \in Used : n \in Used' /\ mail'[n].kind = mail[n].kind /\ mail'[n].to = mail[n].to
      BY <1>1 DEF Keeps
    <3> QED BY <1>1, <3>1, <3>2, <3>3 DEF ToldInv
  <2> QED BY <2>1, <2>2, <2>3
<1>12. ASSUME NEW n \in Used'
       PROVE  CurrentInv(n)' /\ WaitInv(n)'
  <2>0. n \in Rows
    BY DEF Used
  <2>1. CASE n \in D
    <3>1. mail'[n].state \notin Open
      BY <1>2, <2>1
    <3> QED BY <3>1 DEF CurrentInv, WaitInv, Open
  <2>2. ASSUME NEW s \in S, pick[s] = n, n \notin D
        PROVE  CurrentInv(n)' /\ WaitInv(n)'
    <3>1. {i \in T : pick[mail[i].from] = n} = A(s)
      <4>1. \A i \in T : pick[mail[i].from] = n => i \in A(s)
        BY <1>3, <1>6, <2>2
      <4> QED BY <1>3, <2>2, <4>1
    <3>2. Unresolved(n)' = Unresolved(n) \union A(s) /\ A(s) # {}
      BY <1>3, <1>10, <2>0, <3>1
    <3>3. /\ mail'[n].lists = Unresolved(n) \union A(s) /\ mail'[n].state = "queued"
          /\ n \in Used => mail[n].notBefore <= mail'[n].notBefore /\ mail[n].state = "queued"
          /\ \A i \in A(s) : result[i] = "uncertain" => now + NoticeDelay <= mail'[n].notBefore
      BY <1>5, <1>7, <2>2
    <3>4. CurrentInv(n)'
      BY <3>2, <3>3 DEF CurrentInv
    <3>5. ASSUME NEW i \in Unresolved(n), mail'[i].state = "uncertain"
          PROVE  \/ mail'[i].stateAt + NoticeDelay <= now
                 \/ mail'[i].stateAt + NoticeDelay <= mail'[n].notBefore
      <4>1. mail'[i] = mail[i] /\ n \in Used /\ mail[n].kind = "notice" /\ i \in Rows
        BY <1>9, <2>0
      <4>2. \/ mail[i].stateAt + NoticeDelay <= now
            \/ mail[i].stateAt + NoticeDelay <= mail[n].notBefore
        BY <3>3, <3>5, <4>1 DEF TellInv, WaitInv
      <4>3. mail[n].notBefore <= mail'[n].notBefore
        BY <3>3, <4>1
      <4>4. /\ mail[i].stateAt \in Nat /\ NoticeDelay \in Nat /\ mail[n].notBefore \in Nat
            /\ mail'[n].notBefore \in Nat
        BY <1>1, <2>0, <4>1, RowTypes DEF Row
      <4> QED BY <4>1, <4>2, <4>3, <4>4
    <3>6. ASSUME NEW i \in A(s), mail'[i].state = "uncertain"
          PROVE  mail'[i].stateAt + NoticeDelay <= mail'[n].notBefore
      <4>1. i \in D
        BY <1>3
      <4>2. result[i] = "uncertain" /\ mail'[i].stateAt = now
        BY <1>2, <3>6, <4>1
      <4> QED BY <3>3, <4>2
    <3>7. WaitInv(n)'
      BY <3>2, <3>3, <3>5, <3>6 DEF WaitInv
    <3> QED BY <3>4, <3>7
  <2>3. CASE n \notin D /\ \A s \in S : pick[s] # n
    <3>1. mail'[n] = mail[n]
      BY <1>2, <2>0, <2>3
    <3>2. n \in Used /\ CurrentInv(n) /\ WaitInv(n)
      BY <3>1 DEF TellInv, Used
    <3>3. {i \in T : pick[mail[i].from] = n} = {}
      BY <1>3, <2>3
    <3>4. Unresolved(n)' = Unresolved(n)
      BY <1>10, <2>0, <3>3
    <3>5. \A i \in Unresolved(n) : mail'[i] = mail[i]
      BY <1>9, <2>0
    <3>6. CurrentInv(n)'
      BY <3>1, <3>2, <3>4 DEF CurrentInv
    <3>7. WaitInv(n)'
      BY <3>1, <3>2, <3>4, <3>5 DEF WaitInv
    <3> QED BY <3>6, <3>7
  <2> QED BY <2>1, <2>2, <2>3
<1> QED BY <1>11, <1>12 DEF TellInv

\* Recording one result that is not open.
LEMMA TellRecordOne ==
  ASSUME LedgerConstants, TypeOK, TellInv, NEW i \in Used, NEW state \in MsgState \ Open,
         mail[i].state \in Open, RecordOne(i, state), UNCHANGED <<paused, ended, now>>
  PROVE  TellInv'
<1> DEFINE result == [j \in {i} |-> state]
<1>1. result \in [{i} -> MsgState \ Open]
  OBVIOUS
<1>2. StepOK
  BY RecordOneStep
<1>3. Record({i}, result, ended')
  BY DEF RecordOne
<1> HIDE DEF result
<1> QED BY <1>1, <1>2, <1>3, TellRecord

LEMMA TellStep ==
  ASSUME LedgerConstants, TypeOK, TellInv, [Next]_vars
  PROVE  TellInv'
<1>1. ASSUME NEW p \in Agents \union People, NEW a \in Agents, NEW b \in Bodies,
             NEW k \in Keys \union {NoKey}, NEW r \in Used \union {NoRow}, Send(p, a, b, k, r)
      PROVE  TellInv'
  <2>1. /\ UNCHANGED <<ended, now>>
        /\ \E i \in Rows \ Used, m \in Row :
             /\ mail' = [mail EXCEPT ![i] = m] /\ m.state = "queued"
             /\ m.kind = "mail" /\ m.notice = NoRow
    BY <1>1, SentRow
  <2> QED BY <2>1, TellInsert
<1>2. ASSUME NEW a \in Corrected, SystemMail(a)
      PROVE  TellInv'
  <2>1. a \in Agents
    BY DEF LedgerConstants
  <2>2. /\ UNCHANGED <<ended, now>>
        /\ \E i \in Rows \ Used, m \in Row :
             /\ mail' = [mail EXCEPT ![i] = m] /\ m.state = "queued"
             /\ m.kind = "system" /\ m.notice = NoRow
    BY <1>2, <2>1, CorrectionRow
  <2> QED BY <2>2, TellInsert
<1>3. ASSUME NEW a \in Agents, AgentEnd(a)
      PROVE  TellInv'
  <2> DEFINE D == {i \in Used : mail[i].to = a /\ mail[i].state \in {"queued", "delivering"}}
             result == [i \in D |-> IF mail[i].state = "queued" THEN "failed" ELSE "uncertain"]
  <2>1. ended' = ended \union {a} /\ now' = now /\ Record(D, result, ended \union {a})
    BY <1>3 DEF AgentEnd
  <2>2. Record(D, result, ended')
    BY <2>1
  <2>3. result \in [D -> MsgState \ Open] /\ D \in SUBSET Used
        /\ \A j \in D : mail[j].state \in Open
    BY DEF MsgState, Open
  <2>4. StepOK
    BY <1>3, AgentEndStep
  <2> HIDE DEF D, result
  <2> QED BY <2>1, <2>2, <2>3, <2>4, TellRecord
<1>4. ASSUME NEW a \in Agents, NEW i \in Rows, NEW via \in Routes, Take(a, i, via)
      PROVE  TellInv'
  <2>1. /\ UNCHANGED <<paused, ended, now>>
        /\ i \in Eligible(a) /\ i \in Used /\ mail[i].state = "queued"
        /\ mail'[i].state = "delivering" /\ Keeps(i)
        /\ mail'[i].notice = mail[i].notice /\ mail'[i].attempts # 0
        /\ \A k \in Rows \ {i} : mail'[k] = mail[k]
    <3> HIDE DEF Keeps
    <3> QED BY <1>4, TakenRow
  <2>2. mail[i].notBefore <= now
    BY <2>1 DEF Eligible
  <2> QED BY <2>1, <2>2, TellMove DEF Keeps, Open
<1>5. ASSUME NEW i \in Rows, NEW w \in {0} \union {now + d : d \in Backoffs}, Requeue(i, w)
      PROVE  TellInv'
  <2>1. w \in Nat
    <3>1. now \in Nat
      BY DEF TypeOK
    <3>2. Backoffs \subseteq Nat
      BY LedgerConstants DEF LedgerConstants
    <3> QED BY <1>5, <3>1, <3>2
  <2>2. PICK r \in Row : /\ mail' = [mail EXCEPT ![i] = r] /\ r.state = "queued"
                         /\ Alike(r, mail[i]) /\ r.notice = mail[i].notice
    BY <1>5, <2>1, RequeuedRow
  <2>3. mail[i].state = "delivering" /\ i \in Used /\ UNCHANGED <<ended, now>>
    BY <1>5 DEF Requeue
  <2>4. mail'[i] = r /\ \A k \in Rows \ {i} : mail'[k] = mail[k]
    BY <2>2, OneRow
  <2>5. mail[i].attempts # 0
    BY <2>3 DEF TellInv, ToldInv
  <2> QED BY <2>2, <2>3, <2>4, <2>5, TellMove DEF Alike, Open
<1>6. ASSUME NEW i \in Rows, NEW s \in Results, Mark(i, s)
      PROVE  TellInv'
  <2>1. s \in MsgState \ Open
    BY DEF LedgerConstants, MsgState, Open
  <2>2. i \in Used /\ mail[i].state \in Open
    BY <1>6 DEF Mark, Open
  <2> QED BY <1>6, <2>1, <2>2, TellRecordOne DEF Mark
<1>7. ASSUME NEW i \in Rows, Evidence(i)
      PROVE  TellInv'
  <2>1. "delivered" \in MsgState \ Open
    BY DEF MsgState, Open
  <2>2. i \in Used /\ mail[i].state \in Open
    BY <1>7 DEF Evidence, Open
  <2> QED BY <1>7, <2>1, <2>2, TellRecordOne DEF Evidence
<1>8. ASSUME NEW i \in Rows, LateEvidence(i)
      PROVE  TellInv'
  BY <1>8, TellLate
<1>9. ASSUME NEW i \in Rows, Cancel(i)
      PROVE  TellInv'
  <2>1. "cancelled" \in MsgState \ Open
    BY DEF MsgState, Open
  <2>2. i \in Used /\ mail[i].state \in Open
    BY <1>9 DEF Cancel, Open
  <2> QED BY <1>9, <2>1, <2>2, TellRecordOne DEF Cancel
<1>10. ASSUME NEW a \in Pausable, NEW on \in BOOLEAN, Pause(a, on)
       PROVE  TellInv'
  BY <1>10, TellSame DEF Pause, TypeOK
<1>11. CASE Boot
  <2> DEFINE D == {i \in Used : \/ mail[i].state = "delivering"
                                \/ mail[i].state = "queued" /\ mail[i].to \in ended}
             result == [i \in D |-> IF mail[i].state = "queued" THEN "failed" ELSE "uncertain"]
  <2>1. ended' = ended /\ now' = now /\ Record(D, result, ended)
    BY <1>11 DEF Boot
  <2>2. Record(D, result, ended')
    BY <2>1
  <2>3. result \in [D -> MsgState \ Open] /\ D \in SUBSET Used
        /\ \A j \in D : mail[j].state \in Open
    BY DEF MsgState, Open
  <2>4. StepOK
    BY <1>11, BootStep
  <2> HIDE DEF D, result
  <2> QED BY <2>1, <2>2, <2>3, <2>4, TellRecord
<1>12. CASE Tick
  BY <1>12, TellSame DEF Tick, TypeOK
<1>13. CASE UNCHANGED vars
  BY <1>13, TellSame DEF vars, TypeOK
<1> QED BY <1>1, <1>2, <1>3, <1>4, <1>5, <1>6, <1>7, <1>8, <1>9, <1>10, <1>11, <1>12, <1>13
        DEF Next

\* Who sent a message that came to no good end is told: its row names a
\* notice to the sender, a notice not yet delivered lists what stands, and
\* none is taken before each uncertain result in it had its delay for late
\* evidence, whatever records, agents' ends, boots and late evidence came
\* between (notify_sender, refresh_notice, late_evidence).
THEOREM SendersAreTold == Spec => NoticesTell
<1>1. Init => TellInv
  BY LedgerConstants, InitState DEF TellInv
<1>2. TypeOK /\ TellInv /\ [Next]_vars => TellInv'
  BY LedgerConstants, TellStep
<1>3. TellInv => SenderIsTold /\ NoticeIsCurrent
  BY DEF TellInv, ToldInv, CurrentInv, SenderIsTold, NoticeIsCurrent
<1>4. TypeOK /\ TellInv /\ [Next]_vars =>
        [\A n \in Used :
           mail[n].kind = "notice" /\ mail[n].state = "queued" /\ mail'[n].state = "delivering"
             => \A i \in Unresolved(n) :
                  mail[i].state = "uncertain" => mail[i].stateAt + NoticeDelay <= now]_vars
  <2> SUFFICES ASSUME TypeOK, TellInv, [Next]_vars, NEW n \in Used, mail[n].kind = "notice",
                      mail[n].state = "queued", mail'[n].state = "delivering",
                      NEW i \in Unresolved(n), mail[i].state = "uncertain"
               PROVE  mail[i].stateAt + NoticeDelay <= now
    OBVIOUS
  <2>1. n \in Rows /\ i \in Rows
    BY DEF Used, Unresolved
  <2>2. mail[n].notBefore <= now
    BY <2>1, LedgerConstants, NextStep DEF StepOK, Eligible
  <2>3. \/ mail[i].stateAt + NoticeDelay <= now
        \/ mail[i].stateAt + NoticeDelay <= mail[n].notBefore
    BY DEF TellInv, WaitInv
  <2>4. /\ mail[i].stateAt \in Nat /\ mail[n].notBefore \in Nat /\ NoticeDelay \in Nat
        /\ now \in Nat
    BY <2>1, LedgerConstants, RowTypes
  <2> QED BY <2>2, <2>3, <2>4
<1> QED BY <1>1, <1>2, <1>3, <1>4, TypeCorrect, PTL DEF Spec, NoticesTell, NoticeWaits
-----------------------------------------------------------------------------
(* Part two: the delivery.                                                 *)

-----------------------------------------------------------------------------
(* The delivery runs the ledger's operations.                              *)

LEMMA MarkIsLedger ==
  ASSUME NEW i, NEW s \in {"delivered", "failed", "uncertain", "rejected", "expired"}, Mark(i, s)
  PROVE  Next
<1>1. i \in Rows /\ s \in Results
  BY LedgerServes DEF Mark, Used
<1> QED BY <1>1 DEF Next

LEMMA RequeueIsLedger ==
  ASSUME NEW i, NEW w \in {0} \union {now + d : d \in Backoffs}, Requeue(i, w)
  PROVE  Next
<1>1. i \in Rows
  BY DEF Requeue, Used
<1> QED BY <1>1 DEF Next

LEMMA RetryIsLedger ==
  ASSUME NEW i, RetrySocket(i)
  PROVE  Next
<1>1. CASE Mark(i, "failed")
  BY <1>1, MarkIsLedger
<1>2. CASE \E w \in Backoffs : Requeue(i, now + w)
  <2>1. PICK w \in Backoffs : Requeue(i, now + w)
    BY <1>2
  <2> QED BY <2>1, RequeueIsLedger
<1> QED BY <1>1, <1>2 DEF RetrySocket

LEMMA StopIsLedger ==
  ASSUME NEW a, StopDelivery(a)
  PROVE  [Next]_vars
<1> DEFINE i == sup[a].row
<1>1. CASE MailWrite(Requeue(i, 0))
  BY <1>1, RequeueIsLedger DEF MailWrite, Skip, vars
<1>2. CASE MailWrite(Mark(i, "uncertain"))
  BY <1>2, MarkIsLedger DEF MailWrite, Skip, vars
<1>3. CASE Skip
  BY <1>3 DEF Skip, vars
<1> HIDE DEF i
<1>4. Skip \/ MailWrite(Requeue(i, 0)) \/ MailWrite(Mark(i, "uncertain"))
  BY DEF StopDelivery, i
<1> QED BY <1>1, <1>2, <1>3, <1>4

LEMMA SupervisorIsLedger ==
  ASSUME NEW a \in Served, Supervisor(a)
  PROVE  [Next]_vars
<1> DEFINE i == sup[a].row
<1>1. ASSUME MailWrite(Requeue(i, 0))
      PROVE  [Next]_vars
  BY <1>1, RequeueIsLedger DEF MailWrite, Skip, vars
<1>2. ASSUME NEW s \in {"delivered", "failed", "uncertain", "rejected", "expired"},
             MailWrite(Mark(i, s))
      PROVE  [Next]_vars
  BY <1>2, MarkIsLedger DEF MailWrite, Skip, vars
<1>3. ASSUME MailWrite(RetrySocket(i))
      PROVE  [Next]_vars
  BY <1>3, RetryIsLedger DEF MailWrite, Skip, vars
<1>4. ASSUME Skip
      PROVE  [Next]_vars
  BY <1>4 DEF Skip, vars
<1>5. CASE \/ Adopt(a) \/ Choose(a) \/ Settled(a) \/ Unhold(a) \/ ReadNote(a) \/ Overdue(a)
  BY <1>5 DEF Adopt, Choose, Settled, Unhold, ReadNote, Overdue, vars
<1>6. CASE TakeChosen(a)
  <2>1. CASE Skip
    BY <2>1, <1>4
  <2>2. CASE Take(a, i, IF sup[a].gate = "pty" THEN "pty" ELSE "socket")
    <3>1. PICK via \in Routes : Take(a, i, via)
      BY <2>2, LedgerServes
    <3>2. a \in Agents /\ i \in Rows
      BY <3>1, DeliveryConstants DEF Take, PeekNext, Eligible, Used
    <3> QED BY <3>1, <3>2 DEF Next
  <2> QED BY <1>6, <2>1, <2>2 DEF TakeChosen
<1>7. CASE Paste(a)
  <2>1. Skip \/ MailWrite(Requeue(i, 0)) \/ MailWrite(Mark(i, "failed"))
             \/ MailWrite(Mark(i, "uncertain"))
    BY <1>7 DEF Paste
  <2> QED BY <2>1, <1>1, <1>2, <1>4
<1>8. CASE Submit(a)
  <2>1. Skip \/ MailWrite(Requeue(i, 0)) \/ MailWrite(Mark(i, "uncertain"))
    BY <1>8 DEF Submit
  <2> QED BY <2>1, <1>1, <1>2, <1>4
<1>9. CASE PasteTimeout(a)
  BY <1>9, <1>2 DEF PasteTimeout
<1>10. CASE Confirm(a)
  <2>1. MailWrite(Mark(i, "delivered")) \/ MailWrite(Mark(i, "uncertain"))
    BY <1>10 DEF Confirm
  <2> QED BY <2>1, <1>2
<1>11. CASE StartSocket(a)
  <2>1. Skip \/ MailWrite(Requeue(i, 0)) \/ MailWrite(RetrySocket(i))
    BY <1>11 DEF StartSocket
  <2> QED BY <2>1, <1>1, <1>3, <1>4
<1>12. CASE SocketResult(a)
  <2>1. Skip \/ MailWrite(Requeue(i, 0)) \/ MailWrite(RetrySocket(i))
    BY <1>12 DEF SocketResult
  <2> QED BY <2>1, <1>1, <1>3, <1>4
<1>13. CASE GiveUp(a)
  <2>1. Skip \/ MailWrite(Mark(i, "uncertain"))
    BY <1>13 DEF GiveUp
  <2> QED BY <2>1, <1>2, <1>4
<1> QED BY <1>5, <1>6, <1>7, <1>8, <1>9, <1>10, <1>11, <1>12, <1>13 DEF Supervisor

LEMMA ReceiptIsLedger ==
  ASSUME NEW r, Receipt(r)
  PROVE  [Next]_vars
<1> DEFINE i  == r.row
           as == CASE r.kind = "denied" -> "rejected" [] r.kind = "expired" -> "expired"
                   [] r.kind = "duplicate" -> "uncertain" [] OTHER -> "failed"
<1>1. as \in {"delivered", "failed", "uncertain", "rejected", "expired"}
  OBVIOUS
<1>2. Skip \/ (\E w \in Backoffs : Requeue(i, now + w)) \/ Mark(i, as)
  BY DEF Receipt
<1> HIDE DEF as
<1>3. CASE Skip
  BY <1>3 DEF Skip, vars
<1>4. CASE \E w \in Backoffs : Requeue(i, now + w)
  <2>1. PICK w \in Backoffs : Requeue(i, now + w)
    BY <1>4
  <2> QED BY <2>1, RequeueIsLedger
<1>5. CASE Mark(i, as)
  BY <1>1, <1>5, MarkIsLedger
<1> QED BY <1>2, <1>3, <1>4, <1>5

LEMMA EndingIsLedger ==
  ASSUME NEW a \in Served, Ending(a) \/ Retire(a) \/ Shutdown(a)
  PROVE  [Next]_vars
<1> DEFINE i == sup[a].row
<1>1. CASE Retire(a) \/ Shutdown(a)
  BY <1>1, StopIsLedger DEF Retire, Shutdown
<1>2. CASE End(a)
  <2>1. a \in Agents
    BY DeliveryConstants
  <2> QED BY <1>2, <2>1 DEF End, MailWrite, Skip, vars, Next
<1>3. CASE ShutdownKill(a)
  BY <1>3 DEF ShutdownKill, vars
<1>4. CASE DrainStop(a)
  <2>1. Skip \/ MailWrite(Requeue(i, 0)) \/ StopDelivery(a)
    BY <1>4 DEF DrainStop
  <2>2. CASE MailWrite(Requeue(i, 0))
    BY <2>2, RequeueIsLedger DEF MailWrite, Skip, vars
  <2>3. CASE Skip
    BY <2>3 DEF Skip, vars
  <2> QED BY <2>1, <2>2, <2>3, StopIsLedger
<1>5. CASE DrainKill(a)
  <2>1. Skip \/ \E j \in Used : MailWrite(Mark(j, "uncertain"))
    BY <1>5 DEF DrainKill
  <2>2. CASE Skip
    BY <2>2 DEF Skip, vars
  <2>3. ASSUME NEW j \in Used, MailWrite(Mark(j, "uncertain"))
        PROVE  [Next]_vars
    BY <2>3, MarkIsLedger DEF MailWrite, Skip, vars
  <2> QED BY <2>1, <2>2, <2>3
<1> QED BY <1>1, <1>2, <1>3, <1>4, <1>5 DEF Ending

LEMMA DeliveryStepIsLedger ==
  ASSUME [DeliveryNext]_allVars
  PROVE  [Next]_vars
<1>1. CASE User
  <2>1. ASSUME NEW p \in Agents \union People, NEW a \in Served, NEW b \in Bodies,
               Send(p, a, b, NoKey, NoRow)
        PROVE  Next
    <3>1. a \in Agents /\ NoKey \in Keys \union {NoKey} /\ NoRow \in Used \union {NoRow}
      BY DeliveryConstants
    <3> QED BY <2>1, <3>1 DEF Next
  <2>2. ASSUME NEW a \in Corrected, SystemMail(a)
        PROVE  Next
    BY <2>2 DEF Next
  <2>3. ASSUME NEW i \in Rows, Cancel(i)
        PROVE  Next
    BY <2>3 DEF Next
  <2>4. ASSUME NEW a \in Pausable, NEW on \in BOOLEAN, Pause(a, on)
        PROVE  Next
    BY <2>4 DEF Next
  <2>5. CASE Tick
    BY <2>5 DEF Next
  <2> QED BY <1>1, <2>1, <2>2, <2>3, <2>4, <2>5 DEF User
<1>2. ASSUME NEW a \in Served, Supervisor(a)
      PROVE  [Next]_vars
  BY <1>2, SupervisorIsLedger
<1>3. ASSUME NEW a \in Served, SocketJob(a) \/ Session(a)
      PROVE  [Next]_vars
  BY <1>3 DEF SocketJob, Session, ReadTty, TurnStart, TurnEnd, ClearBox, Die, ReadInbox, Lose,
              Move, Refuse, vars
<1>4. ASSUME NEW a \in Served, Ending(a) \/ Retire(a) \/ Shutdown(a)
      PROVE  [Next]_vars
  BY <1>4, EndingIsLedger
<1>5. ASSUME NEW i \in Rows, Hint(i)
      PROVE  [Next]_vars
  BY <1>5 DEF Hint, Skip, vars, Next
<1>6. ASSUME NEW r \in receipts, Receipt(r)
      PROVE  [Next]_vars
  BY <1>6, ReceiptIsLedger
<1>7. CASE DrainOn \/ Stop
  BY <1>7 DEF DrainOn, Stop, vars
<1>8. CASE Start
  BY <1>8 DEF Start, Next
<1>9. CASE UNCHANGED allVars
  BY <1>9 DEF allVars, vars
<1> QED BY <1>1, <1>2, <1>3, <1>4, <1>5, <1>6, <1>7, <1>8, <1>9 DEF DeliveryNext

\* Supervisors, receipts, hooks and boot together do nothing but the ledger's
\* operations, so whatever is proved of the ledger holds of the delivery.
THEOREM DeliveryRunsTheLedger == DeliverySpec => LedgerSpec
<1>1. DeliveryInit => Init
  BY DEF DeliveryInit
<1>2. [DeliveryNext]_allVars => [Next]_vars
  BY DeliveryStepIsLedger
<1> QED BY <1>1, <1>2, PTL DEF DeliverySpec, LedgerSpec, Spec

-----------------------------------------------------------------------------
(* What an operation of the ledger does to the rows.                       *)

\* The states of a row that nobody may receive.
Withdrawn == {Free, "queued", "cancelled", "failed", "rejected", "expired"}

\* A step of the ledger: only the rows of X leave the flight, only those of F
\* are withdrawn in it, and only those of E are called delivered in it.
Shifts(X, F, E) ==
  /\ mail' \in [Rows -> Row]
  /\ \A j \in Used :
       /\ mail'[j].to = mail[j].to /\ mail'[j].via = mail[j].via
       /\ mail'[j].state # Free
       /\ mail[j].state = "delivering" => mail'[j].state = "delivering" \/ j \in X
       /\ mail'[j].state = "delivering" => mail[j].state = "delivering"
       /\ mail'[j].state \in Withdrawn => mail[j].state \in Withdrawn \/ j \in F
       /\ mail'[j].state = "delivered" => mail[j].state = "delivered" \/ j \in E
  /\ \A j \in Rows \ Used : mail'[j].state \in {Free, "queued"}

LEMMA SkipMoves ==
  ASSUME TypeOK, UNCHANGED mail
  PROVE  Shifts({}, {}, {})
BY DEF Shifts, TypeOK, Used, Free

LEMMA InsertMoves ==
  ASSUME TypeOK, NEW i \in Rows \ Used, NEW r \in Row, r.state = "queued",
         mail' = [mail EXCEPT ![i] = r]
  PROVE  Shifts({}, {}, {})
<1>1. /\ mail' \in [Rows -> Row] /\ mail'[i] = r
      /\ \A k \in Rows \ {i} : mail'[k] = mail[k]
  BY OneRow
<1> QED BY <1>1 DEF Shifts, Used, Free

LEMMA RequeueMoves ==
  ASSUME LedgerConstants, TypeOK, NEW i \in Rows, NEW w \in Nat, Requeue(i, w)
  PROVE  /\ Shifts({i}, {i}, {}) /\ mail'[i].state = "queued"
         /\ mail[i].state = "delivering" /\ UNCHANGED <<paused, ended, now>>
<1>1. /\ mail[i].state = "delivering" /\ UNCHANGED <<paused, ended, now>>
      /\ \E r \in Row : /\ mail' = [mail EXCEPT ![i] = r] /\ r.state = "queued"
                        /\ Alike(r, mail[i]) /\ r.notice = mail[i].notice
  BY RequeuedRow
<1>2. PICK r \in Row : /\ mail' = [mail EXCEPT ![i] = r] /\ r.state = "queued"
                       /\ Alike(r, mail[i])
  BY <1>1
<1>3. /\ mail' \in [Rows -> Row] /\ mail'[i] = r
      /\ \A k \in Rows \ {i} : mail'[k] = mail[k]
  BY <1>2, OneRow
<1>4. r.to = mail[i].to /\ r.via = mail[i].via
  BY <1>2 DEF Alike
<1> QED BY <1>1, <1>2, <1>3, <1>4 DEF Shifts, Used, Free

LEMMA RecordMoves ==
  ASSUME LedgerConstants, TypeOK, NEW D \in SUBSET Used, NEW result \in [D -> MsgState \ Open],
         NEW gone \in SUBSET Agents, Record(D, result, gone),
         NEW F, NEW E,
         \A j \in D : result[j] \in Withdrawn => mail[j].state \in Withdrawn \/ j \in F,
         \A j \in D : result[j] = "delivered" => j \in E
  PROVE  Shifts(D, F, E) /\ \A j \in D : mail'[j].state = result[j]
<1>1. result \in [D -> MsgState]
  OBVIOUS
<1>2. /\ mail' \in [Rows -> Row]
      /\ \A j \in D : mail'[j].state = result[j] /\ Alike(mail'[j], mail[j])
      /\ \A j \in Used \ D : mail'[j].state = mail[j].state /\ Alike(mail'[j], mail[j])
      /\ \A j \in Rows \ Used :
           \/ mail'[j].state = Free
           \/ mail'[j].state = "queued"
  BY ZenonT(60), <1>1, RecordRows
<1>3. \A j \in Used : mail'[j].to = mail[j].to /\ mail'[j].via = mail[j].via
  BY <1>2 DEF Alike
<1>4. \A j \in D : result[j] \notin {"delivering", Free}
  BY DEF MsgState, Open, Free
<1> QED BY <1>2, <1>3, <1>4 DEF Shifts, Used

LEMMA RecordOneMoves ==
  ASSUME LedgerConstants, TypeOK, NEW i \in Used, NEW s \in MsgState \ Open, RecordOne(i, s),
         NEW F, NEW E, s \in Withdrawn => mail[i].state \in Withdrawn \/ i \in F,
         s = "delivered" => i \in E
  PROVE  Shifts({i}, F, E) /\ mail'[i].state = s
<1> DEFINE result == [j \in {i} |-> s]
<1>1. result \in [{i} -> MsgState \ Open] /\ result[i] = s
  OBVIOUS
<1>2. ended \in SUBSET Agents /\ {i} \in SUBSET Used
  BY DEF TypeOK
<1>3. Record({i}, result, ended)
  BY DEF RecordOne
<1> HIDE DEF result
<1> QED BY <1>1, <1>2, <1>3, RecordMoves

Marks == {"delivered", "failed", "uncertain", "rejected", "expired"}

LEMMA MarkMoves ==
  ASSUME LedgerConstants, TypeOK, NEW i, NEW s \in Marks, Mark(i, s)
  PROVE  /\ i \in Used /\ mail[i].state \in Open /\ mail'[i].state = s
         /\ UNCHANGED <<paused, ended, now>>
         /\ s = "uncertain" => Shifts({i}, {}, {})
         /\ s = "delivered" => Shifts({i}, {}, {i})
         /\ s \notin {"uncertain", "delivered"} => Shifts({i}, {i}, {})
<1>1. /\ i \in Used /\ mail[i].state \in Open /\ RecordOne(i, s)
      /\ UNCHANGED <<paused, ended, now>>
  BY DEF Mark, Open
<1>2. s \in MsgState \ Open /\ ("uncertain" \notin Withdrawn) /\ ("delivered" \notin Withdrawn)
  BY DEF Marks, MsgState, Open, Withdrawn, Free
<1> QED BY <1>1, <1>2, RecordOneMoves

LEMMA EvidenceMoves ==
  ASSUME LedgerConstants, TypeOK, NEW i \in Rows, Evidence(i) \/ LateEvidence(i)
  PROVE  /\ Shifts({i}, {}, {i}) /\ i \in Used /\ mail'[i].state = "delivered"
         /\ UNCHANGED <<paused, ended, now>>
<1>1. CASE Evidence(i)
  <2>1. i \in Used /\ RecordOne(i, "delivered") /\ UNCHANGED <<paused, ended, now>>
    BY <1>1 DEF Evidence
  <2>2. "delivered" \in MsgState \ Open /\ "delivered" \notin Withdrawn
    BY DEF MsgState, Open, Withdrawn, Free
  <2> QED BY <2>1, <2>2, RecordOneMoves
<1>2. CASE LateEvidence(i)
  <2>1. /\ i \in Used /\ UNCHANGED <<paused, ended, now>>
        /\ mail' \in [Rows -> Row] /\ mail'[i].state = "delivered"
        /\ \A j \in Rows :
             /\ Alike(mail'[j], mail[j])
             /\ \/ mail'[j].state = mail[j].state
                \/ j = i /\ mail'[j].state = "delivered"
                \/ j \in Used /\ mail[j].state = "queued" /\ mail'[j].state = "cancelled"
    BY <1>2, LateEvidenceRows
  <2>2. \A j \in Rows : mail'[j].to = mail[j].to /\ mail'[j].via = mail[j].via
    BY <2>1 DEF Alike
  <2> QED BY <2>1, <2>2 DEF Shifts, Used, Withdrawn, Free
<1> QED BY <1>1, <1>2

LEMMA CancelMoves ==
  ASSUME LedgerConstants, TypeOK, NEW i \in Rows, Cancel(i)
  PROVE  Shifts({i}, {}, {}) /\ mail[i].state = "queued" /\ UNCHANGED <<paused, ended, now>>
<1>1. /\ i \in Used /\ RecordOne(i, "cancelled") /\ mail[i].state = "queued"
      /\ UNCHANGED <<paused, ended, now>>
  BY DEF Cancel
<1>2. "cancelled" \in MsgState \ Open /\ "queued" \in Withdrawn
  BY DEF MsgState, Open, Withdrawn
<1> QED BY <1>1, <1>2, RecordOneMoves

LEMMA AgentEndMoves ==
  ASSUME LedgerConstants, TypeOK, NEW a \in Agents, AgentEnd(a)
  PROVE  /\ Shifts({j \in Used : mail[j].to = a}, {}, {})
         /\ ended' = ended \union {a} /\ UNCHANGED <<paused, now>>
<1> DEFINE D == {i \in Used : mail[i].to = a /\ mail[i].state \in {"queued", "delivering"}}
           result == [i \in D |-> IF mail[i].state = "queued" THEN "failed" ELSE "uncertain"]
<1>1. /\ ended' = ended \union {a} /\ UNCHANGED <<paused, now>>
      /\ Record(D, result, ended \union {a})
  BY DEF AgentEnd
<1>2. result \in [D -> MsgState \ Open]
  BY DEF MsgState, Open
<1>3. \A j \in D : /\ result[j] \in Withdrawn => mail[j].state \in Withdrawn
                   /\ result[j] # "delivered"
  BY DEF Withdrawn, Free
<1>4. D \in SUBSET Used /\ ended \union {a} \in SUBSET Agents
  BY DEF TypeOK
<1>5. \A j \in D : mail[j].to = a
  OBVIOUS
<1> HIDE DEF D, result
<1>6. Shifts(D, {}, {})
  BY <1>1, <1>2, <1>3, <1>4, RecordMoves
<1> QED BY <1>1, <1>4, <1>5, <1>6 DEF Shifts

LEMMA BootMoves ==
  ASSUME LedgerConstants, TypeOK, Boot
  PROVE  Shifts(Used, {}, {}) /\ UNCHANGED <<paused, ended, now>>
<1> DEFINE D == {i \in Used : \/ mail[i].state = "delivering"
                              \/ mail[i].state = "queued" /\ mail[i].to \in ended}
           result == [i \in D |-> IF mail[i].state = "queued" THEN "failed" ELSE "uncertain"]
<1>1. UNCHANGED <<paused, ended, now>> /\ Record(D, result, ended)
  BY DEF Boot
<1>2. result \in [D -> MsgState \ Open]
  BY DEF MsgState, Open
<1>3. \A j \in D : /\ result[j] \in Withdrawn => mail[j].state \in Withdrawn
                   /\ result[j] # "delivered"
  BY DEF Withdrawn, Free
<1>4. D \in SUBSET Used /\ ended \in SUBSET Agents
  BY DEF TypeOK
<1> HIDE DEF D, result
<1>5. Shifts(D, {}, {})
  BY <1>1, <1>2, <1>3, <1>4, RecordMoves
<1> QED BY <1>1, <1>4, <1>5 DEF Shifts

\* A wider licence.
LEMMA MovesWiden ==
  ASSUME NEW X, NEW F, NEW E, Shifts(X, F, E), NEW Y, NEW G, NEW H,
         X \subseteq Y, F \subseteq G, E \subseteq H
  PROVE  Shifts(Y, G, H)
BY DEF Shifts

-----------------------------------------------------------------------------
(* Types.                                                                  *)

Jobs == [row : Rows \union {NoRow},
         out : {"none", "running", "blocked", "notsent", "sent", "maybesent"}]
Message == [row : Rows, at : Stage]
SessionState == [alive : BOOLEAN, box : SUBSET Rows, turn : BOOLEAN, inbox : SUBSET Message]
Report == [row : Rows, kind : Refusals \union Stage]
Note == [what : Stage, take : Nat]

MoreTypes ==
  /\ engine \in {"up", "draining", "down"}
  /\ sup \in [Served -> Delivery]
  /\ job \in [Served -> Jobs]
  /\ tty \in [Served -> Seq(Rows \union {Return})]
  /\ cc \in [Served -> SessionState]
  /\ got \in [Rows -> Nat]
  /\ hints \subseteq Rows
  /\ receipts \subseteq Report
  /\ notes \in [Rows -> Seq(Note)]

LEMMA TypesTogether == DeliveryTypeOK <=> TypeOK /\ MoreTypes
BY DEF DeliveryTypeOK, MoreTypes, Jobs, Message, SessionState, Report, Note

\* Where a supervisor goes.
LEMMA PhaseType ==
  ASSUME MoreTypes, NEW a \in Served
  PROVE  /\ Idle \in Delivery /\ Idle.at = "idle" /\ Off \in Delivery /\ Off.at = "off"
         /\ \A ph \in Phase :
              /\ Now(a, ph) \in Delivery /\ Now(a, ph).at = ph /\ Now(a, ph).row = sup[a].row
              /\ Now(a, ph).gate = sup[a].gate
              /\ [Off EXCEPT !.at = ph] \in Delivery /\ [Off EXCEPT !.at = ph].at = ph
         /\ \A ph \in Phase, i \in Rows, g \in {"socket", "bad", "pty"} :
              LET d == [Idle EXCEPT !.at = ph, !.row = i, !.gate = g]
              IN d \in Delivery /\ d.at = ph /\ d.row = i /\ d.gate = g
<1>1. Off \in Delivery /\ Off.at = "off"
  BY DEF Off, Delivery, Phase
<1>2. Idle \in Delivery /\ Idle.at = "idle"
  BY <1>1 DEF Idle, Delivery, Phase
<1>3. ASSUME NEW ph \in Phase
      PROVE  /\ Now(a, ph) \in Delivery /\ Now(a, ph).at = ph /\ Now(a, ph).row = sup[a].row
             /\ Now(a, ph).gate = sup[a].gate
             /\ [Off EXCEPT !.at = ph] \in Delivery /\ [Off EXCEPT !.at = ph].at = ph
  BY <1>1 DEF Now, Delivery, MoreTypes
<1>4. ASSUME NEW ph \in Phase, NEW i \in Rows, NEW g \in {"socket", "bad", "pty"}
      PROVE  LET d == [Idle EXCEPT !.at = ph, !.row = i, !.gate = g]
             IN d \in Delivery /\ d.at = ph /\ d.row = i /\ d.gate = g
  <2> DEFINE d1 == [Idle EXCEPT !.at = ph]
             d2 == [d1 EXCEPT !.row = i]
             d3 == [d2 EXCEPT !.gate = g]
  <2>1. d1 \in Delivery /\ d1.at = ph
    BY <1>2 DEF Delivery
  <2> HIDE DEF d1
  <2>2. d2 \in Delivery /\ d2.at = ph /\ d2.row = i
    BY <2>1 DEF Delivery
  <2> HIDE DEF d2
  <2>3. d3 \in Delivery /\ d3.at = ph /\ d3.row = i /\ d3.gate = g
    BY <2>2 DEF Delivery
  <2>4. d3 = [Idle EXCEPT !.at = ph, !.row = i, !.gate = g]
    BY DEF d1, d2
  <2> QED BY <2>3, <2>4
<1> QED BY <1>1, <1>2, <1>3, <1>4

With(ph, i, g) == [Idle EXCEPT !.at = ph, !.row = i, !.gate = g]
OffTo(ph) == [Off EXCEPT !.at = ph]

LEMMA ChosenType ==
  ASSUME NEW ph \in Phase, NEW i \in Rows, NEW g \in {"socket", "bad", "pty"}
  PROVE  With(ph, i, g) \in Delivery /\ With(ph, i, g).at = ph /\ With(ph, i, g).row = i
<1> DEFINE d1 == [Idle EXCEPT !.at = ph]
           d2 == [d1 EXCEPT !.row = i]
           d3 == [d2 EXCEPT !.gate = g]
<1>1. Idle \in Delivery
  BY DEF Idle, Off, Delivery, Phase
<1>2. d1 \in Delivery /\ d1.at = ph
  BY <1>1 DEF Delivery
<1> HIDE DEF d1
<1>3. d2 \in Delivery /\ d2.at = ph /\ d2.row = i
  BY <1>2 DEF Delivery
<1> HIDE DEF d2
<1>4. d3 \in Delivery /\ d3.at = ph /\ d3.row = i /\ d3.gate = g
  BY <1>3 DEF Delivery
<1>5. d3 = With(ph, i, g)
  BY DEF d1, d2, With
<1> HIDE DEF d3
<1> QED BY <1>4, <1>5

LEMMA OffType ==
  ASSUME NEW ph \in Phase
  PROVE  OffTo(ph) \in Delivery /\ OffTo(ph).at = ph
<1>1. Off \in Delivery
  BY DEF Off, Delivery, Phase
<1> QED BY <1>1 DEF Delivery, OffTo

LEMMA NowType ==
  ASSUME MoreTypes, NEW a \in Served, NEW ph \in Phase
  PROVE  /\ Now(a, ph) \in Delivery /\ Now(a, ph).at = ph /\ Now(a, ph).row = sup[a].row
         /\ Now(a, ph).gate = sup[a].gate
BY DEF Now, Delivery, MoreTypes

LEMMA GotoType ==
  ASSUME MoreTypes, NEW a \in Served, NEW d \in Delivery, Goto(a, d)
  PROVE  /\ sup' \in [Served -> Delivery] /\ sup'[a] = d
         /\ \A b \in Served \ {a} : sup'[b] = sup[b]
BY DEF Goto, MoreTypes

\* The session's record and the receipts after each of its moves.
LEMMA SessionTypes ==
  ASSUME MoreTypes, NEW a \in Served
  PROVE  /\ Fresh \in SessionState /\ Dead \in SessionState
         /\ \A B \in SUBSET Rows : [cc[a] EXCEPT !.box = B] \in SessionState
         /\ \A t \in BOOLEAN : [cc[a] EXCEPT !.turn = t] \in SessionState
         /\ \A I \in SUBSET Message : [cc[a] EXCEPT !.inbox = I] \in SessionState
         /\ \A B \in SUBSET Rows, t \in BOOLEAN :
              [cc[a] EXCEPT !.box = B, !.turn = t] \in SessionState
         /\ \A I \in SUBSET Message, t \in BOOLEAN :
              [cc[a] EXCEPT !.inbox = I, !.turn = t] \in SessionState
<1>1. cc[a] \in SessionState
  BY DEF MoreTypes
<1>2. Fresh \in SessionState /\ Dead \in SessionState
  BY DEF Fresh, Dead, SessionState
<1>3. /\ \A B \in SUBSET Rows : [cc[a] EXCEPT !.box = B] \in SessionState
      /\ \A t \in BOOLEAN : [cc[a] EXCEPT !.turn = t] \in SessionState
      /\ \A I \in SUBSET Message : [cc[a] EXCEPT !.inbox = I] \in SessionState
  BY <1>1 DEF SessionState
<1>4. /\ \A B \in SUBSET Rows, t \in BOOLEAN :
           [cc[a] EXCEPT !.box = B, !.turn = t] \in SessionState
      /\ \A I \in SUBSET Message, t \in BOOLEAN :
           [cc[a] EXCEPT !.inbox = I, !.turn = t] \in SessionState
  BY <1>1 DEF SessionState
<1> QED BY <1>2, <1>3, <1>4

LEMMA SupervisorTypes ==
  ASSUME MoreTypes, TypeOK, NEW a \in Served, Supervisor(a)
  PROVE  MoreTypes'
<1>1. /\ Idle \in Delivery
      /\ \A ph \in Phase : Now(a, ph) \in Delivery
      /\ \A ph \in Phase, i \in Rows, g \in {"socket", "bad", "pty"} :
           [Idle EXCEPT !.at = ph, !.row = i, !.gate = g] \in Delivery
  BY PhaseType
<1>2. ASSUME NEW d \in Delivery, Goto(a, d)
      PROVE  sup' \in [Served -> Delivery]
  BY <1>2, GotoType
<1>3. {"idle", "chosen", "taken", "pasted", "submitted", "pasteheld", "sending", "awaiting",
       "enqueued", "held", "givingup"} \subseteq Phase
  BY DEF Phase
<1>4. CASE Adopt(a)
  <2>1. PICK i \in Used : Goto(a, [Idle EXCEPT !.at = "awaiting", !.row = i, !.gate = "socket"])
    BY <1>4 DEF Adopt
  <2>2. sup' \in [Served -> Delivery]
    BY <2>1, <1>1, <1>2, <1>3 DEF Used
  <2> QED BY <1>4, <2>2 DEF Adopt, MoreTypes
<1>5. CASE Choose(a)
  <2>1. PICK i \in Rows, g \in Gates \union {"pty"} :
          Goto(a, [Idle EXCEPT !.at = "chosen", !.row = i, !.gate = g])
    BY <1>5 DEF Choose
  <2>2. g \in {"socket", "bad", "pty"}
    BY DeliveryConstants
  <2>3. sup' \in [Served -> Delivery]
    BY <2>1, <2>2, <1>1, <1>2, <1>3
  <2> QED BY <1>5, <2>3 DEF Choose, MoreTypes
<1>6. CASE TakeChosen(a)
  <2>1. sup' \in [Served -> Delivery]
    BY <1>6, <1>1, <1>2, <1>3 DEF TakeChosen
  <2> QED BY <1>6, <2>1 DEF TakeChosen, MoreTypes
<1>7. ASSUME NEW x \in Rows \union {Return}
      PROVE  [tty EXCEPT ![a] = Append(@, x)] \in [Served -> Seq(Rows \union {Return})]
  <2>1. Append(tty[a], x) \in Seq(Rows \union {Return})
    BY DEF MoreTypes
  <2> QED BY <2>1 DEF MoreTypes
<1>8. CASE Paste(a)
  <2>1. sup' \in [Served -> Delivery]
    BY <1>8, <1>1, <1>2, <1>3 DEF Paste
  <2>2. sup[a].row \in Rows \union {Return}
    BY DEF MoreTypes, Delivery, Return
  <2>3. tty' \in [Served -> Seq(Rows \union {Return})]
    BY <1>8, <1>7, <2>2 DEF Paste, MoreTypes
  <2> QED BY <1>8, <2>1, <2>3 DEF Paste, MoreTypes
<1>9. CASE Submit(a)
  <2>1. sup' \in [Served -> Delivery]
    BY <1>9, <1>1, <1>2, <1>3 DEF Submit
  <2>2. tty' \in [Served -> Seq(Rows \union {Return})]
    BY <1>9, <1>7 DEF Submit, MoreTypes
  <2> QED BY <1>9, <2>1, <2>2 DEF Submit, MoreTypes
<1>10. CASE PasteTimeout(a) \/ Settled(a) \/ Confirm(a) \/ Unhold(a) \/ Overdue(a) \/ GiveUp(a)
  <2>1. sup' \in [Served -> Delivery]
    BY <1>10, <1>1, <1>2, <1>3 DEF PasteTimeout, Settled, Confirm, Unhold, Overdue, GiveUp
  <2> QED BY <1>10, <2>1 DEF PasteTimeout, Settled, Confirm, Unhold, Overdue, GiveUp, MoreTypes
<1>11. CASE StartSocket(a)
  <2>1. sup' \in [Served -> Delivery]
    BY <1>11, <1>1, <1>2, <1>3 DEF StartSocket
  <2>2. [row |-> sup[a].row, out |-> "running"] \in Jobs
    BY DEF Jobs, MoreTypes, Delivery
  <2>3. job' \in [Served -> Jobs]
    BY <1>11, <2>2 DEF StartSocket, MoreTypes
  <2> QED BY <1>11, <2>1, <2>3 DEF StartSocket, MoreTypes
<1>12. CASE SocketResult(a)
  <2>1. sup' \in [Served -> Delivery]
    BY <1>12, <1>1, <1>2, <1>3 DEF SocketResult
  <2>2. NoJob \in Jobs
    BY DEF Jobs, NoJob
  <2>3. job' \in [Served -> Jobs]
    BY <1>12, <2>2 DEF SocketResult, MoreTypes
  <2> QED BY <1>12, <2>1, <2>3 DEF SocketResult, MoreTypes
<1>13. CASE ReadNote(a)
  <2> DEFINE d == sup[a]
             e == sup'[a]
             d1 == [d EXCEPT !.seen = @ + 1]
  <2>1. d \in Delivery
    BY DEF MoreTypes
  <2>2. PICK d2 : Goto(a, d2) /\
          \/ d2 = [d EXCEPT !.seen = @ + 1, !.at = "held"]
          \/ d2 = [d EXCEPT !.seen = @ + 1, !.at = "awaiting", !.turn = "no"]
          \/ d2 = [d EXCEPT !.seen = @ + 1, !.at = "enqueued"]
          \/ d2 = d1
    BY <1>13 DEF ReadNote
  <2>3. d1 \in Delivery
    BY <2>1 DEF Delivery
  <2>4. \A ph \in Phase : [d1 EXCEPT !.at = ph] \in Delivery
    BY <2>3 DEF Delivery
  <2>5. \A ph \in Phase : [[d1 EXCEPT !.at = ph] EXCEPT !.turn = "no"] \in Delivery
    BY <2>4 DEF Delivery
  <2>6. d2 \in Delivery
    BY <2>2, <2>3, <2>4, <2>5, <1>3
  <2>7. sup' \in [Served -> Delivery]
    BY <2>2, <2>6, <1>2
  <2> QED BY <1>13, <2>7 DEF ReadNote, MoreTypes
<1> QED BY <1>4, <1>5, <1>6, <1>8, <1>9, <1>10, <1>11, <1>12, <1>13 DEF Supervisor

LEMMA SocketJobTypes ==
  ASSUME MoreTypes, NEW a \in Served, SocketJob(a), job[a].row \in Rows
  PROVE  MoreTypes'
<1> DEFINE m == [row |-> job[a].row, at |-> "new"]
<1>1. \A o \in {"none", "running", "blocked", "notsent", "sent", "maybesent"} :
        [job[a] EXCEPT !.out = o] \in Jobs
  BY DEF MoreTypes, Jobs
<1>2. job' \in [Served -> Jobs]
  BY <1>1 DEF SocketJob, MoreTypes
<1>3. cc' = cc \/ cc' = [cc EXCEPT ![a].inbox = @ \union {m}]
  BY DEF SocketJob
<1>4. m \in Message
  BY DEF Message, Stage
<1> HIDE DEF m
<1>5. cc[a].inbox \union {m} \in SUBSET Message
  BY <1>4 DEF MoreTypes, SessionState
<1>6. [cc[a] EXCEPT !.inbox = cc[a].inbox \union {m}] \in SessionState
  BY <1>5, SessionTypes
<1>7. cc' \in [Served -> SessionState]
  BY <1>3, <1>6 DEF MoreTypes
<1> QED BY <1>2, <1>7 DEF SocketJob, MoreTypes

LEMMA MessageType ==
  ASSUME MoreTypes, NEW a \in Served, NEW m \in cc[a].inbox
  PROVE  m \in Message /\ m.row \in Rows /\ m.at \in Stage /\ cc[a].inbox \in SUBSET Message
BY DEF MoreTypes, SessionState, Message

LEMMA SessionStepTypes ==
  ASSUME MoreTypes, NEW a \in Served, Session(a)
  PROVE  MoreTypes'
<1>1. ASSUME NEW c \in SessionState, cc' = [cc EXCEPT ![a] = c]
      PROVE  cc' \in [Served -> SessionState]
  BY <1>1 DEF MoreTypes
<1>2. \A I \in SUBSET Message :
        [cc EXCEPT ![a].inbox = I] = [cc EXCEPT ![a] = [cc[a] EXCEPT !.inbox = I]]
  OBVIOUS
<1>3. CASE ReadTty(a)
  <2> DEFINE x == Head(tty[a])
  <2>1. tty[a] \in Seq(Rows \union {Return}) /\ tty[a] # <<>>
    BY <1>3 DEF ReadTty, MoreTypes
  <2>2. x \in Rows \union {Return} /\ Tail(tty[a]) \in Seq(Rows \union {Return})
    BY <2>1
  <2>3. tty' \in [Served -> Seq(Rows \union {Return})]
    BY <1>3, <2>2 DEF ReadTty, MoreTypes
  <2>4. cc[a].box \in SUBSET Rows
    BY DEF MoreTypes, SessionState
  <2>5. CASE UNCHANGED <<cc, got, hints, notes>>
    BY <1>3, <2>3, <2>5 DEF ReadTty, MoreTypes
  <2>6. CASE /\ x # Return /\ cc' = [cc EXCEPT ![a].box = @ \union {x}]
             /\ UNCHANGED <<got, hints, notes>>
    <3>1. cc[a].box \union {x} \in SUBSET Rows
      BY <2>2, <2>4, <2>6
    <3>2. [cc[a] EXCEPT !.box = cc[a].box \union {x}] \in SessionState
      BY <3>1, SessionTypes
    <3> HIDE DEF x
    <3>3. cc' \in [Served -> SessionState]
      BY <2>6, <3>2 DEF MoreTypes
    <3> QED BY <1>3, <2>3, <2>6, <3>3 DEF ReadTty, MoreTypes
  <2>7. CASE /\ x = Return /\ cc[a].box # {}
             /\ cc' = [cc EXCEPT ![a].box = {}, ![a].turn = TRUE]
             /\ got' = [i \in Rows |-> IF i \in cc[a].box THEN got[i] + 1 ELSE got[i]]
             /\ hints' = hints \union cc[a].box
    <3>1. [cc[a] EXCEPT !.box = {}, !.turn = TRUE] \in SessionState
      BY SessionTypes
    <3>2. cc' = [cc EXCEPT ![a] = [cc[a] EXCEPT !.box = {}, !.turn = TRUE]]
      BY <2>7 DEF MoreTypes
    <3>3. cc' \in [Served -> SessionState]
      BY <3>1, <3>2 DEF MoreTypes
    <3>4. got' \in [Rows -> Nat] /\ hints' \subseteq Rows
      BY <2>4, <2>7 DEF MoreTypes
    <3> QED BY <1>3, <2>3, <3>3, <3>4 DEF ReadTty, MoreTypes
  <2> QED BY <1>3, <2>5, <2>6, <2>7 DEF ReadTty
<1>4. CASE TurnStart(a) \/ ClearBox(a)
  <2>1. /\ [cc[a] EXCEPT !.turn = TRUE] \in SessionState
        /\ [cc[a] EXCEPT !.box = {}] \in SessionState
    BY SessionTypes
  <2>2. cc' \in [Served -> SessionState]
    BY <1>4, <2>1 DEF TurnStart, ClearBox, MoreTypes
  <2> QED BY <1>4, <2>2 DEF TurnStart, ClearBox, MoreTypes
<1>5. CASE TurnEnd(a)
  <2>1. [cc[a] EXCEPT !.turn = FALSE] \in SessionState
    BY SessionTypes
  <2>2. cc' \in [Served -> SessionState]
    BY <1>5, <2>1 DEF TurnEnd, MoreTypes
  <2>3. \A t \in {"no", "old", "new"} : [sup[a] EXCEPT !.turn = t] \in Delivery
    BY DEF MoreTypes, Delivery
  <2> DEFINE u == CASE At(a, "enqueued") -> "new"
                    [] sup[a].at \in {"sending", "awaiting", "held"} -> "old"
                    [] OTHER -> sup[a].turn
  <2>4. sup[a].turn \in {"no", "old", "new"} /\ sup \in [Served -> Delivery]
    BY DEF MoreTypes, Delivery
  <2>6. u \in {"no", "old", "new"}
    BY <2>4
  <2>7. sup' = [sup EXCEPT ![a].turn = u]
    BY <1>5, <2>4 DEF TurnEnd
  <2> HIDE DEF u
  <2>5. sup' \in [Served -> Delivery]
    BY <2>3, <2>6, <2>7 DEF MoreTypes
  <2> QED BY <1>5, <2>2, <2>5 DEF TurnEnd, MoreTypes
<1>6. CASE Die(a)
  <2>1. Dead \in SessionState
    BY SessionTypes
  <2>2. cc' \in [Served -> SessionState]
    BY <1>6, <2>1 DEF Die, MoreTypes
  <2>3. tty' \in [Served -> Seq(Rows \union {Return})]
    BY <1>6 DEF Die, MoreTypes
  <2> QED BY <1>6, <2>2, <2>3 DEF Die, MoreTypes
<1>7. ASSUME NEW m \in cc[a].inbox, ReadInbox(a, m)
      PROVE  MoreTypes'
  <2>1. m.row \in Rows /\ cc[a].inbox \ {m} \in SUBSET Message
    BY MessageType
  <2>2. [cc[a] EXCEPT !.inbox = cc[a].inbox \ {m}, !.turn = TRUE] \in SessionState
    BY <2>1, SessionTypes
  <2>3. cc' = [cc EXCEPT ![a] = [cc[a] EXCEPT !.inbox = cc[a].inbox \ {m}, !.turn = TRUE]]
    BY <1>7 DEF ReadInbox, MoreTypes
  <2>4. cc' \in [Served -> SessionState]
    BY <2>2, <2>3 DEF MoreTypes
  <2>5. got' \in [Rows -> Nat] /\ hints' \subseteq Rows
    BY <1>7, <2>1 DEF ReadInbox, MoreTypes
  <2> QED BY <1>7, <2>4, <2>5 DEF ReadInbox, MoreTypes
<1>8. ASSUME NEW m \in cc[a].inbox, Lose(a, m)
      PROVE  MoreTypes'
  <2>1. cc[a].inbox \ {m} \in SUBSET Message
    BY MessageType
  <2>2. [cc[a] EXCEPT !.inbox = cc[a].inbox \ {m}] \in SessionState
    BY <2>1, SessionTypes
  <2>3. cc' \in [Served -> SessionState]
    BY <1>8, <2>2 DEF Lose, MoreTypes
  <2> QED BY <1>8, <2>3 DEF Lose, MoreTypes
<1>9. ASSUME NEW m \in cc[a].inbox, NEW at \in Stage, Move(a, m, at)
      PROVE  MoreTypes'
  <2> DEFINE n == [m EXCEPT !.at = at]
             p == [row |-> m.row, kind |-> at]
  <2>1. n \in Message /\ p \in Report
    BY MessageType DEF Message, Report
  <2>2. (cc[a].inbox \ {m}) \union {n} \in SUBSET Message
    BY <2>1, MessageType
  <2>3. /\ cc' = [cc EXCEPT ![a].inbox = (cc[a].inbox \ {m}) \union {n}]
        /\ receipts' = receipts \union {p}
    BY <1>9 DEF Move, MoreTypes
  <2> HIDE DEF n, p
  <2>4. [cc[a] EXCEPT !.inbox = (cc[a].inbox \ {m}) \union {n}] \in SessionState
    BY <2>2, SessionTypes
  <2>5. cc' \in [Served -> SessionState]
    BY <2>3, <2>4 DEF MoreTypes
  <2> QED BY <1>9, <2>1, <2>3, <2>5 DEF Move, MoreTypes
<1>10. ASSUME NEW m \in cc[a].inbox, NEW kind \in Refusals, Refuse(a, m, kind)
       PROVE  MoreTypes'
  <2>1. m.row \in Rows /\ cc[a].inbox \ {m} \in SUBSET Message
    BY MessageType
  <2>2. [cc[a] EXCEPT !.inbox = cc[a].inbox \ {m}] \in SessionState
    BY <2>1, SessionTypes
  <2>3. cc' \in [Served -> SessionState]
    BY <1>10, <2>2 DEF Refuse, MoreTypes
  <2>4. receipts' \subseteq Report
    BY <1>10, <2>1 DEF Refuse, MoreTypes, Report
  <2> QED BY <1>10, <2>3, <2>4 DEF Refuse, MoreTypes
<1> QED BY <1>3, <1>4, <1>5, <1>6, <1>7, <1>8, <1>9, <1>10 DEF Session

LEMMA ReceiptTypes ==
  ASSUME MoreTypes, TypeOK, NEW r \in receipts, Receipt(r)
  PROVE  MoreTypes'
<1> DEFINE i == r.row
           note == [what |-> r.kind, take |-> mail[i].attempts]
<1>1. i \in Rows /\ r.kind \in Refusals \union Stage
  BY DEF MoreTypes, Report
<1>2. notes' = notes \/ (r.kind \notin Refusals /\ notes' = [notes EXCEPT ![i] = Append(@, note)])
  BY DEF Receipt
<1>3. notes' \in [Rows -> Seq(Note)]
  <2>1. CASE r.kind \notin Refusals
    <3>1. note \in Note
      BY <1>1, <2>1 DEF Note, TypeOK, Row
    <3> HIDE DEF note, i
    <3>2. Append(notes[i], note) \in Seq(Note)
      BY <1>1, <3>1 DEF MoreTypes
    <3> QED BY <1>1, <1>2, <3>2 DEF MoreTypes
  <2>2. CASE notes' = notes
    BY <2>2 DEF MoreTypes
  <2> QED BY <1>2, <2>1, <2>2
<1> QED BY <1>3 DEF Receipt, MoreTypes

LEMMA KilledTypes ==
  ASSUME MoreTypes, NEW a \in Served, Killed(a)
  PROVE  cc' \in [Served -> SessionState] /\ tty' \in [Served -> Seq(Rows \union {Return})]
<1>1. Dead \in SessionState /\ <<>> \in Seq(Rows \union {Return})
  BY DEF Dead, SessionState
<1>2. /\ cc' = cc \/ cc' = [cc EXCEPT ![a] = Dead]
      /\ tty' = tty \/ tty' = [tty EXCEPT ![a] = <<>>]
  BY DEF Killed
<1> QED BY <1>1, <1>2 DEF MoreTypes

LEMMA EndingTypes ==
  ASSUME MoreTypes, NEW a \in Served, Ending(a) \/ Retire(a) \/ Shutdown(a)
  PROVE  MoreTypes'
<1>0. {"killing", "stopping", "retiring"} \subseteq Phase
  BY DEF Phase
<1>1. Off \in Delivery /\ \A ph \in Phase : [Off EXCEPT !.at = ph] \in Delivery
  BY PhaseType
<1>2. ASSUME NEW d \in Delivery, Goto(a, d)
      PROVE  sup' \in [Served -> Delivery]
  BY <1>2, GotoType
<1>3. CASE Retire(a) \/ Shutdown(a)
  <2>1. sup' \in [Served -> Delivery]
    BY <1>0, <1>1, <1>2, <1>3 DEF Retire, Shutdown
  <2> QED BY <1>3, <2>1 DEF Retire, Shutdown, MoreTypes
<1>4. CASE End(a) \/ ShutdownKill(a) \/ DrainKill(a)
  <2>1. sup' \in [Served -> Delivery]
    BY <1>0, <1>1, <1>2, <1>4 DEF End, ShutdownKill, DrainKill
  <2>2. cc' \in [Served -> SessionState] /\ tty' \in [Served -> Seq(Rows \union {Return})]
    BY <1>4, KilledTypes DEF End, ShutdownKill, DrainKill
  <2> QED BY <1>4, <2>1, <2>2 DEF End, ShutdownKill, DrainKill, MoreTypes
<1>5. CASE DrainStop(a)
  <2>1. sup' \in [Served -> Delivery]
    BY <1>0, <1>1, <1>2, <1>5 DEF DrainStop
  <2>2. NoJob \in Jobs
    BY DEF Jobs, NoJob
  <2>3. job' \in [Served -> Jobs]
    BY <1>5, <2>2 DEF DrainStop, MoreTypes
  <2> QED BY <1>5, <2>1, <2>3 DEF DrainStop, MoreTypes
<1> QED BY <1>3, <1>4, <1>5 DEF Ending

LEMMA EngineTypes ==
  ASSUME MoreTypes, DrainOn \/ Stop \/ Start
  PROVE  MoreTypes'
<1>1. /\ Off \in Delivery /\ Idle \in Delivery /\ NoJob \in Jobs
      /\ <<>> \in Seq(Rows \union {Return})
  BY DEF Off, Idle, Delivery, Phase, NoJob, Jobs
<1>2. Fresh \in SessionState /\ Dead \in SessionState
  BY DEF Fresh, Dead, SessionState
<1>3. CASE DrainOn
  BY <1>3 DEF DrainOn, MoreTypes
<1>4. CASE Stop
  BY <1>1, <1>4 DEF Stop, MoreTypes
<1>5. CASE Start
  <2>1. /\ sup' \in [Served -> Delivery] /\ cc' \in [Served -> SessionState]
        /\ tty' \in [Served -> Seq(Rows \union {Return})]
    BY <1>1, <1>2, <1>5 DEF Start
  <2> QED BY <1>5, <2>1 DEF Start, MoreTypes
<1> QED BY <1>3, <1>4, <1>5

LEMMA InitTypes ==
  ASSUME DeliveryInit
  PROVE  MoreTypes
<1>1. /\ Off \in Delivery /\ Idle \in Delivery /\ NoJob \in Jobs
      /\ <<>> \in Seq(Rows \union {Return})
  BY DEF Off, Idle, Delivery, Phase, NoJob, Jobs
<1>2. Fresh \in SessionState /\ <<>> \in Seq(Note)
  BY DEF Fresh, SessionState
<1> QED BY <1>1, <1>2 DEF DeliveryInit, MoreTypes

-----------------------------------------------------------------------------
(* The invariant: where the copies of a row may be.                        *)

\* Until the next start, no supervisor presses return for agent a.
Quiet(a) ==
  \/ sup[a].at \in {"off", "retiring", "killing", "stopping"}
  \/ engine # "up" /\ At(a, "idle")

\* Row i is in the box or on the way to it; a return follows it; it is in the
\* socket inbox; a job may still write it there; a refusal of it is under way.
Pasted(a, i)  == i \in cc[a].box \/ \E n \in DOMAIN tty[a] : tty[a][n] = i
Armed(a, i)   ==
  \E n \in DOMAIN tty[a] :
    tty[a][n] = Return /\ (i \in cc[a].box \/ \E m \in 1..n : tty[a][m] = i)
Boxed(a, i)   == \E m \in cc[a].inbox : m.row = i
Running(a, i) == job[a].row = i /\ job[a].out = "running"
Refused(i)    == \E r \in receipts : r.row = i /\ r.kind \in Refusals

\* No context received row i, and none can: at most a paste without a return
\* is left of it.
Unsent(i) ==
  /\ got[i] = 0 /\ ~Refused(i)
  /\ \A a \in Served : /\ ~Boxed(a, i) /\ ~Running(a, i) /\ ~Armed(a, i)
                       /\ Pasted(a, i) => Quiet(a)

\* Nothing at all is left of row i.
Clean(i) ==
  /\ got[i] = 0 /\ ~Refused(i)
  /\ \A a \in Served : ~Boxed(a, i) /\ ~Running(a, i) /\ ~Pasted(a, i)

\* A copy of a row is where the row is addressed to.
PlaceInv ==
  /\ \A a \in Served : job[a].out = "running" => job[a].row \in Rows
  /\ \A a \in Served, i \in Rows :
       Pasted(a, i) \/ Boxed(a, i) \/ Running(a, i) => i \in Used /\ mail[i].to = a

\* Of each row there is one copy, or a refusal, or one reception.
OneCopy(i) ==
  /\ got[i] \in {0, 1} /\ (i \in hints => got[i] = 1)
  /\ Refused(i) => got[i] = 0
  /\ \A a \in Served :
       /\ Pasted(a, i) \/ Boxed(a, i) \/ Running(a, i) => got[i] = 0 /\ ~Refused(i)
       /\ Running(a, i) => ~Boxed(a, i) /\ ~Pasted(a, i)
       /\ Boxed(a, i) => ~Pasted(a, i)

Unique ==
  /\ \A r, s \in receipts :
       r.row = s.row /\ r.kind \in Refusals /\ s.kind \in Refusals => r = s
  /\ \A a \in Served :
       /\ \A m, n \in cc[a].inbox : m.row = n.row => m = n
       /\ \A m, n \in DOMAIN tty[a] : tty[a][m] \in Rows /\ tty[a][m] = tty[a][n] => m = n
       /\ \A n \in DOMAIN tty[a] : tty[a][n] \notin cc[a].box

\* What the ledger says of row i is so.
Held(i) ==
  /\ mail[i].state \in Withdrawn => Unsent(i)
  /\ mail[i].state = "delivered" /\ mail[i].via # "pty" => got[i] = 1

\* What a supervisor knows of its row in each phase.
TakenInv(a, i) ==
  /\ i \in Used /\ InFlight(i) /\ mail[i].to = a /\ Clean(i)
  /\ mail[i].via = IF sup[a].gate = "pty" THEN "pty" ELSE "socket"

PastedInv(a, i) ==
  /\ i \in Used /\ InFlight(i) /\ mail[i].to = a /\ mail[i].via = "pty"
  /\ got[i] = 0 /\ ~Refused(i)
  /\ \A b \in Served : ~Boxed(b, i) /\ ~Running(b, i) /\ ~Armed(b, i)

SendingInv(a, i) ==
  /\ i \in Used /\ mail[i].to = a /\ mail[i].via = "socket" /\ job[a].row = i
  /\ job[a].out \in {"notsent", "blocked"} => Clean(i)

SupInv(a) ==
  /\ At(a, "chosen") => sup[a].row \in Rows
  /\ At(a, "taken") => TakenInv(a, sup[a].row)
  /\ At(a, "pasted") => PastedInv(a, sup[a].row)
  /\ sup[a].at \in Awaiting \union {"submitted", "givingup"}
       => sup[a].row \in Used /\ mail[sup[a].row].to = a
  /\ At(a, "submitted") => mail[sup[a].row].via = "pty"
  /\ At(a, "sending") => SendingInv(a, sup[a].row)

CopyInv ==
  /\ PlaceInv /\ Unique
  /\ \A i \in Rows : OneCopy(i) /\ Held(i)
  /\ \A a \in Served : SupInv(a)

Inv == TypeOK /\ MoreTypes /\ CopyInv

-----------------------------------------------------------------------------
(* What a step leaves as it is.                                            *)

\* A step brings no new copy of row i, and no context receives it.
Fades(i) ==
  /\ got'[i] = got[i] /\ (Refused(i)' => Refused(i))
  /\ \A a \in Served :
       /\ Pasted(a, i)' => Pasted(a, i)
       /\ Boxed(a, i)' => Boxed(a, i)
       /\ Running(a, i)' => Running(a, i)
       /\ Armed(a, i)' => Armed(a, i)

\* A step in which copies only get lost.
Vanish ==
  /\ got' = got /\ hints' \subseteq hints
  /\ \A r \in receipts' : r \in receipts \/ r.kind \notin Refusals
  /\ \A a \in Served :
       /\ cc'[a].box \subseteq cc[a].box /\ cc'[a].inbox \subseteq cc[a].inbox
       /\ tty'[a] = tty[a] \/ tty'[a] = <<>>
       /\ job'[a] = job[a] \/ job'[a].out # "running"

QuietStays ==
  \A a \in Served : Quiet(a) => Quiet(a)' \/ \A i \in Rows : ~Pasted(a, i)'

LEMMA VanishFades ==
  ASSUME Vanish, NEW i
  PROVE  Fades(i)
<1>1. Refused(i)' => Refused(i)
  BY DEF Vanish, Refused
<1>2. ASSUME NEW a \in Served
      PROVE  /\ Pasted(a, i)' => Pasted(a, i)
             /\ Boxed(a, i)' => Boxed(a, i)
             /\ Running(a, i)' => Running(a, i)
             /\ Armed(a, i)' => Armed(a, i)
  <2>1. CASE tty'[a] = tty[a]
    BY <2>1 DEF Vanish, Pasted, Boxed, Running, Armed
  <2>2. CASE tty'[a] = <<>>
    <3>1. DOMAIN tty'[a] = {}
      BY <2>2
    <3> QED BY <3>1 DEF Vanish, Pasted, Boxed, Running, Armed
  <2> QED BY <2>1, <2>2 DEF Vanish
<1> QED BY <1>1, <1>2 DEF Fades, Vanish

LEMMA VanishUnique ==
  ASSUME Vanish, Unique
  PROVE  Unique'
<1>1. \A r, s \in receipts' :
        r.row = s.row /\ r.kind \in Refusals /\ s.kind \in Refusals => r = s
  BY DEF Vanish, Unique
<1>2. ASSUME NEW a \in Served
      PROVE  /\ \A m, n \in cc'[a].inbox : m.row = n.row => m = n
             /\ \A m, n \in DOMAIN tty'[a] :
                  tty'[a][m] \in Rows /\ tty'[a][m] = tty'[a][n] => m = n
             /\ \A n \in DOMAIN tty'[a] : tty'[a][n] \notin cc'[a].box
  <2>1. CASE tty'[a] = tty[a]
    BY <2>1 DEF Vanish, Unique
  <2>2. CASE tty'[a] = <<>>
    <3>1. DOMAIN tty'[a] = {}
      BY <2>2
    <3> QED BY <3>1 DEF Vanish, Unique
  <2> QED BY <2>1, <2>2 DEF Vanish
<1> QED BY <1>1, <1>2 DEF Unique

LEMMA FadesOneCopy ==
  ASSUME NEW i, OneCopy(i), Fades(i), i \in hints' => i \in hints
  PROVE  OneCopy(i)'
BY DEF OneCopy, Fades

LEMMA FadesUnsent ==
  ASSUME NEW i \in Rows, Unsent(i), Fades(i), QuietStays
  PROVE  Unsent(i)'
BY DEF Unsent, Fades, QuietStays

LEMMA FadesClean ==
  ASSUME NEW i, Clean(i), Fades(i)
  PROVE  Clean(i)'
BY DEF Clean, Fades

LEMMA HeldStays ==
  ASSUME NEW X, NEW F, NEW E, Shifts(X, F, E), NEW i \in Rows, Held(i), Fades(i), QuietStays,
         i \in F => Unsent(i)', i \in E /\ mail[i].via # "pty" => got[i] = 1
  PROVE  Held(i)'
<1>1. CASE i \in Used
  <2>1. mail'[i].state \in Withdrawn => Unsent(i)'
    <3>1. mail'[i].state \in Withdrawn => mail[i].state \in Withdrawn \/ i \in F
      BY <1>1 DEF Shifts
    <3> QED BY <3>1, FadesUnsent DEF Held
  <2>2. mail'[i].state = "delivered" /\ mail'[i].via # "pty" => got'[i] = 1
    <3>1. /\ mail'[i].state = "delivered" => mail[i].state = "delivered" \/ i \in E
          /\ mail'[i].via = mail[i].via
      BY <1>1 DEF Shifts
    <3>2. got'[i] = got[i]
      BY DEF Fades
    <3> QED BY <3>1, <3>2 DEF Held
  <2> QED BY <2>1, <2>2 DEF Held
<1>2. CASE i \notin Used
  <2>1. mail[i].state \in Withdrawn
    BY <1>2 DEF Used, Withdrawn
  <2>2. Unsent(i)'
    BY <2>1, FadesUnsent DEF Held
  <2>3. mail'[i].state # "delivered"
    BY <1>2 DEF Shifts, Free
  <2> QED BY <2>2, <2>3 DEF Held
<1> QED BY <1>1, <1>2

\* Row i keeps its address and its place.
LEMMA PlaceStays ==
  ASSUME NEW X, NEW F, NEW E, Shifts(X, F, E), PlaceInv, NEW a \in Served, NEW i \in Rows,
         (Pasted(a, i) \/ Boxed(a, i) \/ Running(a, i))'
           => Pasted(a, i) \/ Boxed(a, i) \/ Running(a, i) \/ (i \in Used /\ mail[i].to = a),
         (Pasted(a, i) \/ Boxed(a, i) \/ Running(a, i))'
  PROVE  i \in Used' /\ mail'[i].to = a
<1>1. i \in Used /\ mail[i].to = a
  BY DEF PlaceInv
<1> QED BY <1>1 DEF Shifts, Used

LEMMA SupStays ==
  ASSUME NEW X, NEW F, NEW E, Shifts(X, F, E), NEW a \in Served, SupInv(a),
         sup'[a].at = sup[a].at, sup'[a].row = sup[a].row, sup'[a].gate = sup[a].gate,
         job'[a] = job[a] \/ ~At(a, "sending"),
         sup[a].at \in {"taken", "pasted"} \/ (At(a, "sending") /\ Clean(sup[a].row))
           => Fades(sup[a].row),
         sup[a].row \in X => sup[a].at \notin {"taken", "pasted"}
  PROVE  SupInv(a)'
<1>5. PICK i : i = sup[a].row /\ i = sup'[a].row
  OBVIOUS
<1>1. i \in Used => /\ i \in Used' /\ mail'[i].to = mail[i].to /\ mail'[i].via = mail[i].via
                    /\ mail[i].state = "delivering" => mail'[i].state = "delivering" \/ i \in X
  BY DEF Shifts, Used
<1>2. At(a, "taken") => TakenInv(a, i)'
  <2> SUFFICES ASSUME At(a, "taken")
               PROVE  TakenInv(a, i)'
    OBVIOUS
  <2>1. TakenInv(a, i)
    BY <1>5 DEF SupInv
  <2>2. Clean(i)'
    BY <1>5, <2>1, FadesClean DEF TakenInv, At
  <2> QED BY <1>1, <1>5, <2>1, <2>2 DEF TakenInv, InFlight, At
<1>3. At(a, "pasted") => PastedInv(a, i)'
  <2> SUFFICES ASSUME At(a, "pasted")
               PROVE  PastedInv(a, i)'
    OBVIOUS
  <2>1. PastedInv(a, i)
    BY <1>5 DEF SupInv
  <2>2. /\ got'[i] = 0 /\ ~Refused(i)'
        /\ \A b \in Served : ~Boxed(b, i)' /\ ~Running(b, i)' /\ ~Armed(b, i)'
    BY <1>5, <2>1 DEF PastedInv, Fades, At
  <2>3. mail'[i].to = a /\ mail'[i].via = "pty" /\ i \in Used' /\ mail'[i].state = "delivering"
    BY <1>1, <1>5, <2>1 DEF PastedInv, InFlight, At
  <2> QED BY <2>2, <2>3 DEF PastedInv, InFlight
<1>4. At(a, "sending") => SendingInv(a, i)'
  <2> SUFFICES ASSUME At(a, "sending")
               PROVE  SendingInv(a, i)'
    OBVIOUS
  <2>1. SendingInv(a, i)
    BY <1>5 DEF SupInv
  <2>2. Clean(i) => Clean(i)'
    BY <1>5, FadesClean DEF At
  <2> QED BY <1>1, <1>5, <2>1, <2>2 DEF SendingInv, At
<1>6. /\ sup[a].at \in Awaiting \union {"submitted", "givingup"}
           => i \in Used' /\ mail'[i].to = a
      /\ At(a, "submitted") => mail'[i].via = "pty"
  BY <1>1, <1>5 DEF SupInv, At
<1>7. At(a, "chosen") => i \in Rows
  BY <1>5 DEF SupInv
<1> QED BY <1>2, <1>3, <1>4, <1>5, <1>6, <1>7 DEF SupInv, At

LEMMA CopyStep ==
  ASSUME CopyInv, NEW X, NEW F, NEW E, Shifts(X, F, E), QuietStays, NEW Z \in SUBSET Rows,
         \A i \in Rows \ Z : Fades(i) /\ (i \in hints' => i \in hints),
         \A i \in F \intersect (Rows \ Z) : Unsent(i)',
         \A i \in E \intersect (Rows \ Z) : mail[i].via # "pty" => got[i] = 1,
         \A i \in Z : /\ OneCopy(i)' /\ Held(i)'
                      /\ \A a \in Served : (Pasted(a, i) \/ Boxed(a, i) \/ Running(a, i))'
                                             => i \in Used /\ mail[i].to = a,
         \A a \in Served : job'[a].out = "running" => job'[a].row \in Rows,
         Unique', \A a \in Served : SupInv(a)'
  PROVE  CopyInv'
<1>1. ASSUME NEW i \in Rows
      PROVE  OneCopy(i)' /\ Held(i)'
  <2>1. CASE i \in Z
    BY <2>1
  <2>2. CASE i \notin Z
    <3>1. OneCopy(i) /\ Held(i) /\ Fades(i) /\ (i \in hints' => i \in hints)
      BY <2>2 DEF CopyInv
    <3>2. OneCopy(i)'
      BY <3>1, FadesOneCopy
    <3>3. Held(i)'
      BY <2>2, <3>1, HeldStays
    <3> QED BY <3>2, <3>3
  <2> QED BY <2>1, <2>2
<1>2. ASSUME NEW a \in Served, NEW i \in Rows, (Pasted(a, i) \/ Boxed(a, i) \/ Running(a, i))'
      PROVE  i \in Used' /\ mail'[i].to = a
  <2>1. Pasted(a, i) \/ Boxed(a, i) \/ Running(a, i) \/ (i \in Used /\ mail[i].to = a)
    BY <1>2 DEF Fades
  <2>2. i \in Used /\ mail[i].to = a
    BY <2>1 DEF CopyInv, PlaceInv
  <2> QED BY <2>2 DEF Shifts, Used
<1>3. PlaceInv'
  BY <1>2 DEF PlaceInv
<1> QED BY <1>1, <1>3 DEF CopyInv

\* The supervisors of other agents than a, whose rows the step may touch.
LEMMA OtherSups ==
  ASSUME CopyInv, NEW X, NEW F, NEW E, Shifts(X, F, E), NEW Z, NEW a \in Served,
         \A i \in Rows \ Z : Fades(i),
         \A i \in X \union Z : i \in Used => mail[i].to = a,
         NEW b \in Served \ {a}, sup'[b] = sup[b], job'[b] = job[b]
  PROVE  SupInv(b)'
<1>1. SupInv(b)
  BY DEF CopyInv
<1>2. sup[b].at \in {"taken", "pasted", "sending"}
        => /\ sup[b].row \in Rows /\ sup[b].row \in Used /\ mail[sup[b].row].to = b
  BY <1>1 DEF SupInv, At, TakenInv, PastedInv, SendingInv, Used
<1>3. sup[b].at \in {"taken", "pasted", "sending"}
        => Fades(sup[b].row) /\ sup[b].row \notin X
  BY <1>2
<1>4. /\ sup[b].at \in {"taken", "pasted"} \/ (At(b, "sending") /\ Clean(sup[b].row))
           => Fades(sup[b].row)
      /\ sup[b].row \in X => sup[b].at \notin {"taken", "pasted"}
  BY <1>3 DEF At
<1>5. sup'[b].at = sup[b].at /\ sup'[b].row = sup[b].row /\ sup'[b].gate = sup[b].gate
  OBVIOUS
<1> QED BY <1>1, <1>4, <1>5, SupStays

\* A supervisor without a row of its own.
LEMMA FreePhase ==
  ASSUME NEW a \in Served,
         sup'[a].at \in {"idle", "off", "pasteheld", "retiring", "killing", "stopping"}
  PROVE  SupInv(a)'
BY DEF SupInv, At, Awaiting

\* A step of agent a in which copies only get lost.
LEMMA VanishStep ==
  ASSUME CopyInv, NEW X, NEW F, NEW E, Shifts(X, F, E), QuietStays, Vanish,
         \A i \in F \intersect Rows : Unsent(i)',
         \A i \in E \intersect Rows : mail[i].via # "pty" => got[i] = 1,
         \A a \in Served : SupInv(a)'
  PROVE  CopyInv'
<1>1. \A i \in Rows : Fades(i) /\ (i \in hints' => i \in hints)
  BY VanishFades DEF Vanish
<1>2. Unique'
  BY VanishUnique DEF CopyInv
<1>3. \A a \in Served : job'[a].out = "running" => job'[a].row \in Rows
  BY DEF Vanish, CopyInv, PlaceInv
<1>4. PICK Z \in SUBSET Rows : Z = {}
  OBVIOUS
<1>5. /\ \A i \in Rows \ Z : Fades(i) /\ (i \in hints' => i \in hints)
      /\ \A i \in F \intersect (Rows \ Z) : Unsent(i)'
      /\ \A i \in E \intersect (Rows \ Z) : mail[i].via # "pty" => got[i] = 1
  BY <1>1
<1>6. \A i \in Z : /\ OneCopy(i)' /\ Held(i)'
                   /\ \A a \in Served : (Pasted(a, i) \/ Boxed(a, i) \/ Running(a, i))'
                                          => i \in Used /\ mail[i].to = a
  BY <1>4
<1> QED BY <1>2, <1>3, <1>5, <1>6, CopyStep

-----------------------------------------------------------------------------
(* The supervisor's steps.                                                 *)

\* A step of agent a's supervisor leaves the others alone.
Local(a) == engine' = engine /\ \A b \in Served \ {a} : sup'[b] = sup[b] /\ job'[b] = job[b]

LEMMA LocalQuiet ==
  ASSUME NEW a \in Served, Local(a), Quiet(a) => Quiet(a)'
  PROVE  QuietStays
BY DEF QuietStays, Local, Quiet, At

LEMMA LocalStep ==
  ASSUME CopyInv, NEW X, NEW F, NEW E, Shifts(X, F, E), NEW a \in Served, Local(a), Vanish,
         Quiet(a) => Quiet(a)', SupInv(a)',
         \A i \in X : i \in Used => mail[i].to = a,
         \A i \in F \intersect Rows : Unsent(i)',
         \A i \in E \intersect Rows : mail[i].via # "pty" => got[i] = 1
  PROVE  CopyInv'
<1>1. \A i \in Rows : Fades(i)
  BY VanishFades
<1>2. PICK Z : Z = {}
  OBVIOUS
<1>3. (\A i \in Rows \ Z : Fades(i)) /\ (\A i \in X \union Z : i \in Used => mail[i].to = a)
  BY <1>1, <1>2
<1>4. ASSUME NEW b \in Served \ {a}
      PROVE  SupInv(b)'
  <2>1. sup'[b] = sup[b] /\ job'[b] = job[b]
    BY DEF Local
  <2> QED BY <1>3, <2>1, OtherSups
<1>5. \A b \in Served : SupInv(b)'
  BY <1>4
<1>6. QuietStays
  BY LocalQuiet
<1> QED BY <1>5, <1>6, VanishStep

LEMMA CleanUnarmed ==
  ASSUME MoreTypes, NEW i \in Rows, Clean(i), NEW a \in Served
  PROVE  ~Armed(a, i)
<1>1. tty[a] \in Seq(Rows \union {Return})
  BY DEF MoreTypes
<1>2. \A n \in DOMAIN tty[a] : \A m \in 1..n : m \in DOMAIN tty[a]
  BY <1>1
<1> QED BY <1>2 DEF Clean, Armed, Pasted

LEMMA CleanUnsent ==
  ASSUME MoreTypes, NEW i \in Rows, Clean(i), Fades(i)
  PROVE  Unsent(i)'
<1>1. Clean(i)'
  BY FadesClean
<1>2. \A a \in Served : ~Armed(a, i)'
  BY CleanUnarmed DEF Fades
<1> QED BY <1>1, <1>2 DEF Clean, Unsent

\* What a supervisor writes, should the write not fail.
LEMMA RequeueWrite ==
  ASSUME TypeOK, NEW i \in Rows, MailWrite(Requeue(i, 0)) \/ MailWrite(RetrySocket(i))
  PROVE  Shifts({i}, {i}, {})
<1>1. CASE Skip
  <2>1. Shifts({}, {}, {})
    BY <1>1, SkipMoves DEF Skip
  <2> QED BY <2>1, MovesWiden
<1>2. ASSUME NEW w \in Nat, Requeue(i, w)
      PROVE  Shifts({i}, {i}, {})
  BY <1>2, LedgerConstants, RequeueMoves
<1>3. CASE Mark(i, "failed")
  BY <1>3, LedgerConstants, MarkMoves DEF Marks
<1>4. CASE \E w \in Backoffs : Requeue(i, now + w)
  <2>1. PICK w \in Backoffs : Requeue(i, now + w)
    BY <1>4
  <2>2. now + w \in Nat
    BY LedgerConstants DEF TypeOK
  <2> QED BY <2>1, <2>2, <1>2
<1>5. Skip \/ Requeue(i, 0) \/ RetrySocket(i)
  BY DEF MailWrite
<1> QED BY <1>1, <1>2, <1>3, <1>4, <1>5 DEF RetrySocket

LEMMA MarkWrite ==
  ASSUME TypeOK, NEW i \in Rows, NEW s \in Marks, MailWrite(Mark(i, s))
  PROVE  /\ s = "uncertain" => Shifts({i}, {}, {})
         /\ s = "delivered" => Shifts({i}, {}, {i})
         /\ s \notin {"uncertain", "delivered"} => Shifts({i}, {i}, {})
<1>1. CASE Skip
  <2>1. Shifts({}, {}, {})
    BY <1>1, SkipMoves DEF Skip
  <2>2. Shifts({i}, {}, {}) /\ Shifts({i}, {}, {i}) /\ Shifts({i}, {i}, {})
    BY <2>1, MovesWiden
  <2> QED BY <2>2
<1>2. CASE Mark(i, s)
  BY <1>2, LedgerConstants, MarkMoves
<1> QED BY <1>1, <1>2 DEF MailWrite

LEMMA SkipWrite ==
  ASSUME TypeOK, Skip
  PROVE  Shifts({}, {}, {})
BY SkipMoves DEF Skip

LEMMA StillVanish ==
  ASSUME UNCHANGED <<job, tty, cc, got, hints, receipts>>
  PROVE  Vanish
BY DEF Vanish

LEMMA GotoLocal ==
  ASSUME MoreTypes, NEW a \in Served, NEW d \in Delivery, Goto(a, d), engine' = engine,
         \A b \in Served \ {a} : job'[b] = job[b]
  PROVE  Local(a) /\ sup'[a] = d
BY GotoType DEF Local

Resting == {"idle", "off", "pasteheld", "retiring", "killing", "stopping"}

\* The supervisor lets go of its row.
LEMMA RestStep ==
  ASSUME Inv, NEW a \in Served, NEW d \in Delivery, Goto(a, d), d.at \in Resting,
         UNCHANGED <<engine, tty, cc, got, hints, receipts>>,
         job' = job \/ job' = [job EXCEPT ![a] = NoJob],
         NEW X, NEW F, NEW E, Shifts(X, F, E), Quiet(a) => Quiet(a)',
         \A i \in X : i \in Used => mail[i].to = a,
         \A i \in F \intersect Rows : Unsent(i)',
         \A i \in E \intersect Rows : mail[i].via # "pty" => got[i] = 1
  PROVE  CopyInv'
<1>1. Vanish /\ \A b \in Served \ {a} : job'[b] = job[b]
  BY DEF Vanish, NoJob, Inv, MoreTypes
<1>2. Local(a) /\ sup'[a] = d
  BY <1>1, GotoLocal DEF Inv
<1>3. SupInv(a)'
  BY <1>2, FreePhase DEF Resting
<1>4. CopyInv
  BY DEF Inv
<1> QED BY <1>1, <1>2, <1>3, <1>4, LocalStep

\* It waits for row i.
LEMMA WaitingPhase ==
  ASSUME NEW X, NEW F, NEW E, Shifts(X, F, E), NEW a \in Served, NEW i \in Used, mail[i].to = a,
         sup'[a].row = i, sup'[a].at \in Awaiting \union {"givingup"}
  PROVE  SupInv(a)'
<1>1. i \in Used' /\ mail'[i].to = a
  BY DEF Shifts, Used
<1> QED BY <1>1 DEF SupInv, At, Awaiting

LEMMA WaitStep ==
  ASSUME Inv, NEW a \in Served, NEW d \in Delivery, Goto(a, d),
         d.at \in Awaiting \union {"givingup"}, d.row \in Used, mail[d.row].to = a,
         UNCHANGED <<engine, tty, cc, got, hints, receipts, mail>>,
         job' = job \/ job' = [job EXCEPT ![a] = NoJob], ~Quiet(a)
  PROVE  CopyInv'
<1>1. Vanish /\ \A b \in Served \ {a} : job'[b] = job[b]
  BY DEF Vanish, NoJob, Inv, MoreTypes
<1>2. Local(a) /\ sup'[a] = d
  BY <1>1, GotoLocal DEF Inv
<1>3. Shifts({}, {}, {})
  BY SkipMoves DEF Inv
<1>4. SupInv(a)'
  BY <1>2, <1>3, WaitingPhase
<1>5. CopyInv
  BY DEF Inv
<1> QED BY <1>1, <1>2, <1>3, <1>4, <1>5, LocalStep

LEMMA PastedUnsent ==
  ASSUME PlaceInv, NEW a \in Served, NEW i \in Rows, PastedInv(a, i), Fades(i), Quiet(a)'
  PROVE  Unsent(i)'
<1>1. \A b \in Served : Pasted(b, i)' => b = a
  BY DEF Fades, PlaceInv, PastedInv
<1> QED BY <1>1 DEF Unsent, PastedInv, Fades

LEMMA AdoptKeeps ==
  ASSUME Inv, NEW a \in Served, Adopt(a)
  PROVE  CopyInv'
<1>1. PICK i \in Used : mail[i].to = a /\ Goto(a, With("awaiting", i, "socket"))
  BY DEF Adopt, With
<1>2. "awaiting" \in Phase /\ i \in Rows
  BY DEF Phase, Used
<1>3. PICK d \in Delivery : /\ d = With("awaiting", i, "socket")
                            /\ d.at = "awaiting" /\ d.row = i
  BY <1>2, ChosenType
<1>4. ~Quiet(a)
  BY DEF Adopt, Quiet, At
<1>5. UNCHANGED <<engine, job, tty, cc, got, hints, receipts, mail>> /\ "awaiting" \in Awaiting
  BY DEF Adopt, Awaiting
<1>6. Goto(a, d)
  BY <1>1, <1>3
<1> QED BY <1>1, <1>3, <1>4, <1>5, <1>6, WaitStep

LEMMA ChooseKeeps ==
  ASSUME Inv, NEW a \in Served, Choose(a)
  PROVE  CopyInv'
<1>1. PICK i \in Rows, g \in Gates \union {"pty"} : Goto(a, With("chosen", i, g))
  BY DEF Choose, With
<1>2. g \in {"socket", "bad", "pty"} /\ "chosen" \in Phase
  BY DeliveryConstants DEF Phase
<1>3. PICK d \in Delivery : d = With("chosen", i, g) /\ d.at = "chosen" /\ d.row = i
  BY <1>2, ChosenType
<1>4. Goto(a, d) /\ engine' = engine /\ ~Quiet(a) /\ job' = job
  BY <1>1, <1>3 DEF Choose, Quiet, At
<1>5. Local(a) /\ sup'[a] = d
  BY <1>3, <1>4, GotoLocal DEF Inv
<1>6. SupInv(a)'
  BY <1>3, <1>5 DEF SupInv, At, Awaiting
<1>7. Vanish
  BY StillVanish DEF Choose
<1>8. Shifts({}, {}, {})
  BY SkipMoves DEF Choose, Inv
<1> QED BY <1>4, <1>5, <1>6, <1>7, <1>8, LocalStep DEF Inv

\* Where the supervisor rests, and that a phase of work is not quiet.
LEMMA RestPhases ==
  ASSUME MoreTypes, NEW a \in Served
  PROVE  /\ Idle \in Delivery /\ Idle.at \in Resting
         /\ Now(a, "pasteheld") \in Delivery /\ Now(a, "pasteheld").at \in Resting
         /\ Off \in Delivery /\ Off.at \in Resting
         /\ sup[a].at \in {"chosen", "taken", "pasted", "submitted", "pasteheld", "sending",
                           "givingup"} \union Awaiting => ~Quiet(a)
<1>1. "pasteheld" \in Phase
  BY DEF Phase
<1>2. sup[a].at \in {"chosen", "taken", "pasted", "submitted", "pasteheld", "sending",
                     "givingup"} \union Awaiting => ~Quiet(a)
  BY DEF Quiet, At, Awaiting
<1>3. Idle \in Delivery /\ Idle.at = "idle" /\ Off \in Delivery /\ Off.at = "off"
  BY DEF Idle, Off, Delivery, Phase
<1> QED BY <1>1, <1>2, <1>3, NowType DEF Resting

\* It rests and leaves the ledger alone.
LEMMA RestSkip ==
  ASSUME Inv, NEW a \in Served, NEW d \in Delivery, Goto(a, d), d.at \in Resting, ~Quiet(a),
         UNCHANGED <<engine, tty, cc, got, hints, receipts>>, UNCHANGED mail,
         job' = job \/ job' = [job EXCEPT ![a] = NoJob]
  PROVE  CopyInv'
<1>1. Shifts({}, {}, {})
  BY SkipMoves DEF Inv
<1> QED BY <1>1, RestStep

\* It rests, after its row, of which nothing is left, went back or failed.
LEMMA RestClean ==
  ASSUME Inv, NEW a \in Served, NEW d \in Delivery, Goto(a, d), d.at \in Resting, ~Quiet(a),
         UNCHANGED <<engine, tty, cc, got, hints, receipts>>,
         job' = job \/ job' = [job EXCEPT ![a] = NoJob],
         NEW i \in Used, mail[i].to = a, Clean(i),
         \/ MailWrite(Requeue(i, 0)) \/ MailWrite(RetrySocket(i)) \/ MailWrite(Mark(i, "failed"))
  PROVE  CopyInv'
<1>1. i \in Rows /\ TypeOK /\ MoreTypes
  BY DEF Used, Inv
<1>2. Shifts({i}, {i}, {})
  BY <1>1, RequeueWrite, MarkWrite DEF Marks
<1>3. Vanish
  BY DEF Vanish, NoJob, Inv, MoreTypes
<1>4. Unsent(i)'
  BY <1>1, <1>3, VanishFades, CleanUnsent
<1>5. PICK X, F, E : X = {i} /\ F = {i} /\ E = {}
  OBVIOUS
<1>6. /\ Shifts(X, F, E) /\ \A j \in X : j \in Used => mail[j].to = a
      /\ \A j \in F \intersect Rows : Unsent(j)'
      /\ \A j \in E \intersect Rows : mail[j].via # "pty" => got[j] = 1
  BY <1>2, <1>4, <1>5
<1> QED BY <1>6, RestStep

\* It rests, after its row became uncertain.
LEMMA RestUncertain ==
  ASSUME Inv, NEW a \in Served, NEW d \in Delivery, Goto(a, d), d.at \in Resting,
         Quiet(a) => Quiet(a)',
         UNCHANGED <<engine, tty, cc, got, hints, receipts>>,
         job' = job \/ job' = [job EXCEPT ![a] = NoJob],
         NEW i \in Used, mail[i].to = a, MailWrite(Mark(i, "uncertain"))
  PROVE  CopyInv'
<1>1. i \in Rows /\ TypeOK
  BY DEF Used, Inv
<1>2. Shifts({i}, {}, {})
  BY <1>1, MarkWrite DEF Marks
<1>3. PICK X, F, E : X = {i} /\ F = {} /\ E = {}
  OBVIOUS
<1>4. /\ Shifts(X, F, E) /\ \A j \in X : j \in Used => mail[j].to = a
      /\ \A j \in F \intersect Rows : Unsent(j)'
      /\ \A j \in E \intersect Rows : mail[j].via # "pty" => got[j] = 1
  BY <1>2, <1>3
<1> QED BY <1>4, RestStep

\* A waiting supervisor: its row is settled, it reads a note, its deadline
\* passes, it gives the row up.
LEMMA WaitingKeeps ==
  ASSUME Inv, NEW a \in Served, Settled(a) \/ Unhold(a) \/ ReadNote(a) \/ Overdue(a) \/ GiveUp(a)
  PROVE  CopyInv'
<1> DEFINE i == sup[a].row
<1>1. MoreTypes /\ TypeOK /\ sup[a] \in Delivery
  BY DEF Inv, MoreTypes
<1>2. /\ Idle \in Delivery /\ Idle.at \in Resting
      /\ sup[a].at \in {"submitted", "pasteheld", "givingup"} \union Awaiting => ~Quiet(a)
  BY <1>1, RestPhases
<1>3. sup[a].at \in Awaiting \union {"submitted", "givingup"} => i \in Used /\ mail[i].to = a
  BY DEF Inv, CopyInv, SupInv
<1>4. CASE Settled(a) \/ Unhold(a)
  <2>1. /\ Goto(a, Idle) /\ ~Quiet(a) /\ UNCHANGED <<engine, tty, cc, got, hints, receipts>>
        /\ UNCHANGED mail /\ job' = job
    BY <1>2, <1>4 DEF Settled, Unhold, At
  <2> QED BY <1>2, <2>1, RestSkip
<1>5. CASE ReadNote(a)
  <2> DEFINE d == sup[a]
             d1 == [d EXCEPT !.seen = @ + 1]
  <2>1. PICK d2 : Goto(a, d2) /\
          \/ d2 = [d EXCEPT !.seen = @ + 1, !.at = "held"]
          \/ d2 = [d EXCEPT !.seen = @ + 1, !.at = "awaiting", !.turn = "no"]
          \/ d2 = [d EXCEPT !.seen = @ + 1, !.at = "enqueued"]
          \/ d2 = d1
    BY <1>5 DEF ReadNote
  <2>2. d1 \in Delivery /\ d1.row = i /\ d1.at = d.at
    BY <1>1 DEF Delivery
  <2>3. {"held", "awaiting", "enqueued"} \subseteq Phase
    BY DEF Phase
  <2>4. \A ph \in Phase : /\ [d1 EXCEPT !.at = ph] \in Delivery
                          /\ [d1 EXCEPT !.at = ph].at = ph /\ [d1 EXCEPT !.at = ph].row = i
    BY <2>2 DEF Delivery
  <2>5. \A ph \in Phase : LET d3 == [[d1 EXCEPT !.at = ph] EXCEPT !.turn = "no"]
                          IN d3 \in Delivery /\ d3.at = ph /\ d3.row = i
    BY <2>4 DEF Delivery
  <2>6. d.at \in Awaiting
    BY <1>5 DEF ReadNote
  <2>10. \/ d2 = d1
         \/ \E ph \in Awaiting : d2 = [d1 EXCEPT !.at = ph]
         \/ d2 = [[d1 EXCEPT !.at = "awaiting"] EXCEPT !.turn = "no"]
    BY <2>1 DEF Awaiting
  <2> HIDE DEF d1, d
  <2>11. Awaiting \subseteq Phase /\ "awaiting" \in Awaiting
    BY <2>3 DEF Awaiting
  <2>7. d2 \in Delivery /\ d2.row = i /\ d2.at \in Awaiting
    <3>1. CASE d2 = d1
      BY <2>2, <2>6, <3>1
    <3>2. CASE \E ph \in Awaiting : d2 = [d1 EXCEPT !.at = ph]
      <4>1. PICK ph \in Awaiting : d2 = [d1 EXCEPT !.at = ph]
        BY <3>2
      <4> QED BY <2>4, <2>11, <4>1
    <3>3. CASE d2 = [[d1 EXCEPT !.at = "awaiting"] EXCEPT !.turn = "no"]
      BY <2>5, <2>11, <3>3
    <3> QED BY <2>10, <3>1, <3>2, <3>3
  <2>8. UNCHANGED <<engine, tty, cc, got, hints, receipts, mail>> /\ job' = job
    BY <1>5 DEF ReadNote
  <2>9. ~Quiet(a) /\ i \in Used /\ mail[i].to = a /\ Goto(a, d2)
    BY <1>2, <1>3, <2>1, <2>6 DEF d
  <2> QED BY <2>7, <2>8, <2>9, WaitStep
<1>6. CASE Overdue(a)
  <2>1. "givingup" \in Phase /\ sup[a].at \in Awaiting
    BY <1>6 DEF Phase, Overdue
  <2>2. PICK d \in Delivery : d = Now(a, "givingup") /\ d.at = "givingup" /\ d.row = i
    BY <1>1, <2>1, NowType
  <2>3. /\ Goto(a, d) /\ UNCHANGED <<engine, tty, cc, got, hints, receipts, mail>> /\ job' = job
        /\ ~Quiet(a) /\ i \in Used /\ mail[i].to = a
    BY <1>2, <1>3, <1>6, <2>1, <2>2 DEF Overdue
  <2> QED BY <2>2, <2>3, WaitStep
<1>7. CASE GiveUp(a)
  <2>1. /\ Goto(a, Idle) /\ ~Quiet(a) /\ UNCHANGED <<engine, tty, cc, got, hints, receipts>>
        /\ job' = job /\ i \in Used /\ mail[i].to = a
    BY <1>2, <1>3, <1>7 DEF GiveUp, At
  <2>2. MailWrite(Mark(i, "uncertain"))  \/ Skip
    BY <1>7 DEF GiveUp
  <2>3. CASE Skip
    <3>1. UNCHANGED mail
      BY <2>3 DEF Skip
    <3> QED BY <1>2, <2>1, <3>1, RestSkip
  <2>4. CASE MailWrite(Mark(i, "uncertain"))
    <3> HIDE DEF i
    <3> QED BY <1>2, <2>1, <2>4, RestUncertain
  <2> QED BY <2>2, <2>3, <2>4
<1> QED BY <1>4, <1>5, <1>6, <1>7

\* The paste never showed, or the submission's outcome is judged.
LEMMA JudgeKeeps ==
  ASSUME Inv, NEW a \in Served, PasteTimeout(a) \/ Confirm(a)
  PROVE  CopyInv'
<1>0. PICK i : i = sup[a].row
  OBVIOUS
<1>1. MoreTypes /\ TypeOK /\ SupInv(a)
  BY DEF Inv, CopyInv
<1>2. /\ Idle \in Delivery /\ Idle.at \in Resting
      /\ Now(a, "pasteheld") \in Delivery /\ Now(a, "pasteheld").at \in Resting
      /\ sup[a].at \in {"submitted", "pasted"} => ~Quiet(a)
  BY <1>1, RestPhases
<1>3. sup[a].at \in {"submitted", "pasted"}
  BY DEF PasteTimeout, Confirm, At
<1>4. i \in Used /\ mail[i].to = a /\ mail[i].via = "pty"
  BY <1>0, <1>1, <1>3 DEF SupInv, At, PastedInv
<1>5. UNCHANGED <<engine, job, tty, cc, got, hints, receipts>>
  BY DEF PasteTimeout, Confirm
<1>6. CASE MailWrite(Mark(i, "uncertain"))
  <2>1. PICK d : d \in {Idle, Now(a, "pasteheld")} /\ Goto(a, d)
    BY DEF PasteTimeout, Confirm
  <2> QED BY <1>2, <1>3, <1>4, <1>5, <1>6, <2>1, RestUncertain
<1>7. CASE MailWrite(Mark(i, "delivered")) /\ Goto(a, Idle)
  <2>1. i \in Rows
    BY <1>4 DEF Used
  <2>2. Shifts({i}, {}, {i})
    BY <1>1, <1>7, <2>1, MarkWrite DEF Marks
  <2>3. PICK X, F, E : X = {i} /\ F = {} /\ E = {i}
    OBVIOUS
  <2>4. /\ Shifts(X, F, E) /\ \A j \in X : j \in Used => mail[j].to = a
        /\ \A j \in F \intersect Rows : Unsent(j)'
        /\ \A j \in E \intersect Rows : mail[j].via # "pty" => got[j] = 1
    BY <1>4, <2>2, <2>3
  <2> QED BY <1>2, <1>3, <1>5, <1>7, <2>4, RestStep
<1>8. \/ MailWrite(Mark(i, "uncertain"))
      \/ MailWrite(Mark(i, "delivered")) /\ Goto(a, Idle)
  BY <1>0 DEF PasteTimeout, Confirm
<1> QED BY <1>6, <1>7, <1>8

\* The socket job's result.
LEMMA SocketResultKeeps ==
  ASSUME Inv, NEW a \in Served, SocketResult(a)
  PROVE  CopyInv'
<1>0. PICK i : i = sup[a].row
  OBVIOUS
<1>1. MoreTypes /\ TypeOK /\ SupInv(a) /\ At(a, "sending")
  BY DEF Inv, CopyInv, SocketResult
<1>2. Idle \in Delivery /\ Idle.at \in Resting /\ ~Quiet(a)
  BY <1>1, RestPhases DEF At
<1>3. SendingInv(a, i)
  BY <1>0, <1>1 DEF SupInv
<1>4. /\ UNCHANGED <<engine, tty, cc, got, hints, receipts>> /\ job' = [job EXCEPT ![a] = NoJob]
  BY DEF SocketResult
<1>5. CASE Goto(a, Idle) /\ Skip
  <2>1. UNCHANGED mail
    BY <1>5 DEF Skip
  <2> QED BY <1>2, <1>4, <1>5, <2>1, RestSkip
<1>6. CASE /\ job[a].out \in {"notsent", "blocked"} /\ Goto(a, Idle)
           /\ MailWrite(Requeue(i, 0)) \/ MailWrite(RetrySocket(i))
  <2>1. i \in Used /\ mail[i].to = a /\ Clean(i)
    BY <1>3, <1>6 DEF SendingInv
  <2> QED BY <1>2, <1>4, <1>6, <2>1, RestClean
<1>7. CASE Goto(a, Now(a, "awaiting")) /\ Skip
  <2>1. "awaiting" \in Phase /\ "awaiting" \in Awaiting
    BY DEF Phase, Awaiting
  <2>2. PICK d \in Delivery : d = Now(a, "awaiting") /\ d.at = "awaiting" /\ d.row = i
    BY <1>0, <1>1, <2>1, NowType
  <2>3. UNCHANGED mail
    BY <1>7 DEF Skip
  <2> QED BY <1>2, <1>3, <1>4, <1>7, <2>1, <2>2, <2>3, WaitStep DEF SendingInv
<1> QED BY <1>0, <1>5, <1>6, <1>7 DEF SocketResult

\* Another agent's copies of row i there are none, when i is addressed to a.
LEMMA OnlyAt ==
  ASSUME PlaceInv, NEW a \in Served, NEW i \in Rows, mail[i].to = a, NEW b \in Served \ {a}
  PROVE  ~Pasted(b, i) /\ ~Boxed(b, i) /\ ~Running(b, i)
BY DEF PlaceInv

\* The take: the row is next in the queue, so nothing is left of it.
LEMMA TakeKeeps ==
  ASSUME Inv, NEW a \in Served, TakeChosen(a)
  PROVE  CopyInv'
<1>0. PICK i : i = sup[a].row
  OBVIOUS
<1>1. MoreTypes /\ TypeOK /\ CopyInv /\ SupInv(a) /\ At(a, "chosen")
  BY DEF Inv, CopyInv, TakeChosen
<1>2. Idle \in Delivery /\ Idle.at \in Resting /\ ~Quiet(a)
  BY <1>1, RestPhases DEF At
<1>3. UNCHANGED <<engine, job, tty, cc, got, hints, receipts>>
  BY DEF TakeChosen
<1>4. CASE Goto(a, Idle) /\ Skip
  <2>1. UNCHANGED mail /\ job' = job
    BY <1>3, <1>4 DEF Skip
  <2> QED BY <1>2, <1>3, <1>4, <2>1, RestSkip
<1>5. CASE /\ Take(a, i, IF sup[a].gate = "pty" THEN "pty" ELSE "socket")
           /\ Goto(a, Now(a, "taken"))
  <2>1. PICK via \in {"pty", "socket"} : /\ via = IF sup[a].gate = "pty" THEN "pty" ELSE "socket"
                                         /\ Take(a, i, via)
    BY <1>5
  <2>2. i \in Rows /\ a \in Agents /\ via \in Routes
    BY <1>0, <1>1, DeliveryConstants, LedgerServes DEF SupInv
  <2>3. /\ mail' \in [Rows -> Row]
        /\ i \in Used /\ mail[i].state = "queued" /\ mail[i].to = a
        /\ mail'[i].state = "delivering" /\ mail'[i].via = via /\ Keeps(i)
        /\ \A k \in Rows \ {i} : mail'[k] = mail[k]
    BY <1>1, <2>1, <2>2, TakenRow, LedgerConstants
  <2>4. mail'[i].to = a
    BY <2>3 DEF Keeps
  <2>5. Unsent(i)
    BY <1>1, <2>2, <2>3 DEF CopyInv, Held, Withdrawn
  <2>6. Clean(i)
    <3>1. ~Pasted(a, i)
      BY <1>2, <2>5 DEF Unsent
    <3>2. \A b \in Served \ {a} : ~Pasted(b, i)
      BY <1>1, <2>2, <2>3, OnlyAt DEF CopyInv
    <3> QED BY <2>5, <3>1, <3>2 DEF Unsent, Clean
  <2>7. Vanish
    BY <1>3, StillVanish
  <2>8. \A j \in Rows : Fades(j)
    BY <2>7, VanishFades
  <2>9. "taken" \in Phase
    BY DEF Phase
  <2>10. PICK d \in Delivery : d = Now(a, "taken") /\ d.at = "taken" /\ d.row = i
                               /\ d.gate = sup[a].gate
    BY <1>0, <1>1, <2>9, NowType
  <2>11. Local(a) /\ sup'[a] = d
    BY <1>1, <1>3, <1>5, <2>10, GotoLocal
  <2>12. QuietStays
    BY <1>2, <2>11, LocalQuiet
  <2>13. Clean(i)'
    BY <2>6, <2>8, <2>2, FadesClean
  <2>14. SupInv(a)'
    <3>1. TakenInv(a, i)'
      BY <2>1, <2>2, <2>3, <2>4, <2>10, <2>11, <2>13 DEF TakenInv, Used, InFlight, Free
    <3> QED BY <2>10, <2>11, <3>1 DEF SupInv, At, Awaiting
  <2>15. \A j \in Used : mail'[j].to = mail[j].to /\ mail'[j].state # Free
    BY <2>2, <2>3, <2>4 DEF Used, Free
  <2>16. ASSUME NEW b \in Served \ {a}
         PROVE  SupInv(b)'
    <3>1. sup'[b] = sup[b] /\ job'[b] = job[b]
      BY <2>11 DEF Local
    <3>2. SupInv(b)
      BY <1>1 DEF CopyInv
    <3>3. PICK k : k = sup[b].row /\ k = sup'[b].row
      BY <3>1
    <3>4. sup[b].at \in {"taken", "pasted", "sending", "submitted", "givingup"} \union Awaiting
            => k \in Rows \ {i}
      BY <2>2, <2>3, <3>2, <3>3 DEF SupInv, At, TakenInv, PastedInv, SendingInv, Awaiting, Used
    <3>5. k \in Rows \ {i} => mail'[k] = mail[k] /\ Fades(k) /\ (Clean(k) => Clean(k)')
      BY <2>3, <2>8, FadesClean
    <3>6. At(b, "taken") => TakenInv(b, k)'
      BY <3>1, <3>2, <3>3, <3>4, <3>5 DEF SupInv, At, TakenInv, InFlight, Used
    <3>7. At(b, "pasted") => PastedInv(b, k)'
      BY <3>1, <3>2, <3>3, <3>4, <3>5 DEF SupInv, At, PastedInv, InFlight, Used, Fades
    <3>8. At(b, "sending") => SendingInv(b, k)'
      BY <3>1, <3>2, <3>3, <3>4, <3>5 DEF SupInv, At, SendingInv, Used
    <3>9. /\ sup[b].at \in Awaiting \union {"submitted", "givingup"}
               => k \in Used' /\ mail'[k].to = b
          /\ At(b, "submitted") => mail'[k].via = "pty"
          /\ At(b, "chosen") => k \in Rows
      BY <3>1, <3>2, <3>3, <3>4, <3>5 DEF SupInv, At, Used
    <3> QED BY <3>1, <3>3, <3>6, <3>7, <3>8, <3>9 DEF SupInv, At
  <2>17. ASSUME NEW j \in Rows
         PROVE  OneCopy(j)' /\ Held(j)'
    <3>1. OneCopy(j) /\ Held(j) /\ Fades(j) /\ (j \in hints' => j \in hints)
      BY <1>1, <2>8, <1>3 DEF CopyInv
    <3>2. OneCopy(j)'
      BY <3>1, FadesOneCopy
    <3>3. CASE j = i
      BY <2>3, <2>4, <3>2, <3>3 DEF Held, Withdrawn, Free
    <3>4. CASE j # i
      <4>1. mail'[j] = mail[j] /\ (Unsent(j) => Unsent(j)')
        BY <2>3, <2>12, <3>1, <3>4, FadesUnsent
      <4> QED BY <3>1, <3>2, <4>1 DEF Held, Fades
    <3> QED BY <3>2, <3>3, <3>4
  <2>18. PlaceInv'
    <3>1. ASSUME NEW b \in Served, NEW j \in Rows, (Pasted(b, j) \/ Boxed(b, j) \/ Running(b, j))'
          PROVE  j \in Used' /\ mail'[j].to = b
      <4>1. j \in Used /\ mail[j].to = b
        BY <1>1, <2>8, <3>1 DEF Fades, CopyInv, PlaceInv
      <4> QED BY <2>15, <4>1 DEF Used
    <3> QED BY <1>1, <1>3, <3>1 DEF CopyInv, PlaceInv
  <2>19. Unique'
    BY <1>1, <2>7, VanishUnique DEF CopyInv
  <2> QED BY <2>14, <2>16, <2>17, <2>18, <2>19 DEF CopyInv
<1> QED BY <1>0, <1>4, <1>5 DEF TakeChosen

-----------------------------------------------------------------------------
(* The steps that make a copy.                                             *)

LEMMA Appended ==
  ASSUME MoreTypes, NEW a \in Served, NEW x \in Rows \union {Return},
         tty' = [tty EXCEPT ![a] = Append(@, x)]
  PROVE  /\ \A b \in Served \ {a} : tty'[b] = tty[b]
         /\ \E L \in Nat : /\ DOMAIN tty[a] = 1..L /\ DOMAIN tty'[a] = 1..(L + 1)
                           /\ tty'[a][L + 1] = x
                           /\ \A n \in 1..L : tty'[a][n] = tty[a][n]
<1>1. tty[a] \in Seq(Rows \union {Return}) /\ tty'[a] = Append(tty[a], x)
  BY DEF MoreTypes
<1>2. PICK L \in Nat : L = Len(tty[a])
  BY <1>1
<1>3. /\ DOMAIN tty[a] = 1..L /\ DOMAIN tty'[a] = 1..(L + 1)
      /\ tty'[a][L + 1] = x /\ \A n \in 1..L : tty'[a][n] = tty[a][n]
  BY <1>1, <1>2
<1>4. \A b \in Served \ {a} : tty'[b] = tty[b]
  BY DEF MoreTypes
<1> QED BY <1>3, <1>4

LEMMA OnlyRow ==
  ASSUME Inv, NEW a \in Served, NEW i \in Rows, i \in Used, mail[i].to = a, Local(a),
         Quiet(a) => Quiet(a)', NEW X, Shifts(X, {}, {}), X \subseteq {i}, hints' = hints,
         \A j \in Rows \ {i} : Fades(j),
         OneCopy(i)', Held(i)', \A b \in Served \ {a} : (~Pasted(b, i) /\ ~Boxed(b,
               i) /\ ~Running(b, i))',
         \A b \in Served : job'[b].out = "running" => job'[b].row \in Rows,
         Unique', SupInv(a)'
  PROVE  CopyInv'
<1>1. PICK Z \in SUBSET Rows : Z = {i}
  OBVIOUS
<1>2. PICK F, E : F = {} /\ E = {}
  OBVIOUS
<1>3. Shifts(X, F, E) /\ CopyInv /\ QuietStays
  BY <1>2, LocalQuiet DEF Inv
<1>4. (\A j \in Rows \ Z : Fades(j)) /\ (\A j \in X \union Z : j \in Used => mail[j].to = a)
  BY <1>1
<1>5. ASSUME NEW b \in Served \ {a}
      PROVE  SupInv(b)'
  <2>1. sup'[b] = sup[b] /\ job'[b] = job[b]
    BY DEF Local
  <2> QED BY <1>3, <1>4, <2>1, OtherSups
<1>6. \A b \in Served : SupInv(b)'
  BY <1>5
<1>8. \A j \in Z : /\ OneCopy(j)' /\ Held(j)'
                   /\ \A b \in Served : (Pasted(b, j) \/ Boxed(b, j) \/ Running(b, j))'
                                          => j \in Used /\ mail[j].to = b
  BY <1>1
<1>9. /\ \A j \in Rows \ Z : Fades(j) /\ (j \in hints' => j \in hints)
      /\ \A j \in F \intersect (Rows \ Z) : Unsent(j)'
      /\ \A j \in E \intersect (Rows \ Z) : mail[j].via # "pty" => got[j] = 1
  BY <1>2, <1>4
<1> QED BY <1>3, <1>6, <1>8, <1>9, CopyStep

\* The paste of a row of which nothing is left.
LEMMA PasteCopy ==
  ASSUME MoreTypes, CopyInv, NEW a \in Served, NEW i \in Rows, Clean(i),
         tty' = [tty EXCEPT ![a] = Append(@, i)],
         UNCHANGED <<job, cc, got, hints, receipts>>
  PROVE  /\ \A j \in Rows \ {i} : Fades(j)
         /\ OneCopy(i)' /\ Unique' /\ got'[i] = 0 /\ ~Refused(i)'
         /\ \A b \in Served : (~Boxed(b, i) /\ ~Running(b, i) /\ ~Armed(b, i))'
         /\ \A b \in Served \ {a} : ~Pasted(b, i)'
<1>1. i # Return /\ i \in Rows \union {Return}
  BY LedgerConstants DEF Return, Rows, NoRow
<1>2. PICK L \in Nat : /\ DOMAIN tty[a] = 1..L /\ DOMAIN tty'[a] = 1..(L + 1)
                       /\ tty'[a][L + 1] = i
                       /\ \A n \in 1..L : tty'[a][n] = tty[a][n]
  BY <1>1, Appended
<1>3. \A b \in Served \ {a} : tty'[b] = tty[b]
  BY <1>1, Appended
<1>4. \A b \in Served : \A j \in Rows \ {i} :
        (Pasted(b, j)' => Pasted(b, j)) /\ (Armed(b, j)' => Armed(b, j))
  <2> SUFFICES ASSUME NEW j \in Rows \ {i}
               PROVE  (Pasted(a, j)' => Pasted(a, j)) /\ (Armed(a, j)' => Armed(a, j))
    BY <1>3 DEF Pasted, Armed
  <2>1. Pasted(a, j)' => Pasted(a, j)
    BY <1>2 DEF Pasted
  <2>2. ASSUME Armed(a, j)'
        PROVE  Armed(a, j)
    <3>1. PICK n \in 1..(L + 1) :
            tty'[a][n] = Return /\ (j \in cc[a].box \/ \E m \in 1..n : tty'[a][m] = j)
      BY <1>2, <2>2 DEF Armed
    <3>2. n \in 1..L
      BY <1>1, <1>2, <3>1
    <3>3. \A m \in 1..n : m \in 1..L
      BY <3>2
    <3> QED BY <1>2, <3>1, <3>2, <3>3 DEF Armed
  <2> QED BY <2>1, <2>2
<1>5. ASSUME NEW b \in Served
      PROVE  ~Armed(b, i)'
  <2>1. CASE b # a
    BY <1>3, <2>1, CleanUnarmed DEF Armed
  <2>2. CASE b = a
    <3> SUFFICES ASSUME NEW n \in 1..(L + 1), tty'[a][n] = Return,
                        i \in cc[a].box \/ \E m \in 1..n : tty'[a][m] = i
                 PROVE  FALSE
      BY <1>2, <2>2 DEF Armed
    <3>1. n \in 1..L
      BY <1>1, <1>2
    <3>2. \A m \in 1..n : m \in 1..L
      BY <3>1
    <3>3. i \notin cc[a].box /\ \A m \in 1..L : tty[a][m] # i
      BY <1>2 DEF Clean, Pasted
    <3> QED BY <1>2, <3>2, <3>3
  <2> QED BY <2>1, <2>2
<1>6. /\ got'[i] = 0 /\ ~Refused(i)' /\ \A b \in Served : ~Boxed(b, i)' /\ ~Running(b, i)'
  BY DEF Clean, Refused, Boxed, Running
<1>7. \A b \in Served \ {a} : ~Pasted(b, i)'
  BY <1>3 DEF Clean, Pasted
<1>8. \A j \in Rows \ {i} : Fades(j)
  BY <1>4 DEF Fades, Refused, Boxed, Running
<1>9. OneCopy(i)'
  <2>1. i \notin hints'
    BY DEF CopyInv, OneCopy, Clean
  <2> QED BY <1>6, <2>1 DEF OneCopy
<1>10. Unique'
  <2>1. \A r, s \in receipts' :
          r.row = s.row /\ r.kind \in Refusals /\ s.kind \in Refusals => r = s
    BY DEF CopyInv, Unique
  <2>2. i \notin cc[a].box /\ \A n \in 1..L : tty[a][n] # i
    BY <1>2 DEF Clean, Pasted
  <2>3. /\ \A m, n \in 1..L : tty[a][m] \in Rows /\ tty[a][m] = tty[a][n] => m = n
        /\ \A n \in 1..L : tty[a][n] \notin cc[a].box
    BY <1>2 DEF CopyInv, Unique
  <2>4. 1..(L + 1) = (1..L) \union {L + 1}
    OBVIOUS
  <2>5. /\ \A m, n \in DOMAIN tty'[a] : tty'[a][m] \in Rows /\ tty'[a][m] = tty'[a][n] => m = n
        /\ \A n \in DOMAIN tty'[a] : tty'[a][n] \notin cc'[a].box
    BY <1>2, <2>2, <2>3, <2>4
  <2>6. ASSUME NEW b \in Served
        PROVE  /\ \A m, n \in cc'[b].inbox : m.row = n.row => m = n
               /\ \A m, n \in DOMAIN tty'[b] :
                    tty'[b][m] \in Rows /\ tty'[b][m] = tty'[b][n] => m = n
               /\ \A n \in DOMAIN tty'[b] : tty'[b][n] \notin cc'[b].box
    BY <1>3, <2>5 DEF CopyInv, Unique
  <2> QED BY <2>1, <2>6 DEF Unique
<1> QED BY <1>5, <1>6, <1>7, <1>8, <1>9, <1>10

LEMMA PasteKeeps ==
  ASSUME Inv, NEW a \in Served, Paste(a)
  PROVE  CopyInv'
<1>0. PICK i : i = sup[a].row
  OBVIOUS
<1>1. MoreTypes /\ TypeOK /\ CopyInv /\ SupInv(a) /\ At(a, "taken") /\ sup[a].gate = "pty"
  BY DEF Inv, CopyInv, Paste
<1>2. /\ Idle \in Delivery /\ Idle.at \in Resting /\ ~Quiet(a)
      /\ Now(a, "pasteheld") \in Delivery /\ Now(a, "pasteheld").at \in Resting
  BY <1>1, RestPhases DEF At
<1>3. /\ i \in Used /\ i \in Rows /\ InFlight(i) /\ mail[i].to = a /\ Clean(i)
      /\ mail[i].via = "pty"
  BY <1>0, <1>1 DEF SupInv, TakenInv, Used
<1>4. UNCHANGED <<engine, job, cc, got, hints, receipts>>
  BY DEF Paste
<1>5. CASE /\ MailWrite(Requeue(i, 0)) \/ MailWrite(Mark(i, "failed"))
           /\ Goto(a, Idle) /\ UNCHANGED tty
  BY <1>2, <1>3, <1>4, <1>5, RestClean
<1>6. CASE MailWrite(Mark(i, "uncertain")) /\ Goto(a, Now(a, "pasteheld")) /\ UNCHANGED tty
  <2>1. PICK d : d = Now(a, "pasteheld")
    OBVIOUS
  <2>2. d \in Delivery /\ d.at \in Resting /\ Goto(a, d)
    BY <1>2, <1>6, <2>1
  <2> QED BY <1>2, <1>3, <1>4, <1>6, <2>2, RestUncertain
<1>7. ASSUME NEW d \in Delivery, Goto(a, d), NEW X, Shifts(X, {}, {}), X \subseteq {i},
             tty' = [tty EXCEPT ![a] = Append(@, i)],
             mail'[i].state \notin Withdrawn \union {"delivered"},
             PastedInv(a, i)' => SupInv(a)', mail'[i].state = "delivering" \/ SupInv(a)'
      PROVE  CopyInv'
  <2>1. /\ \A j \in Rows \ {i} : Fades(j)
        /\ OneCopy(i)' /\ Unique' /\ got'[i] = 0 /\ ~Refused(i)'
        /\ \A b \in Served : (~Boxed(b, i) /\ ~Running(b, i) /\ ~Armed(b, i))'
        /\ \A b \in Served \ {a} : ~Pasted(b, i)'
    BY <1>1, <1>3, <1>4, <1>7, PasteCopy
  <2>2. Local(a)
    BY <1>1, <1>4, <1>7, GotoLocal
  <2>3. \A b \in Served : job'[b].out = "running" => job'[b].row \in Rows
    BY <1>1, <1>4 DEF CopyInv, PlaceInv
  <2>4. SupInv(a)'
    <3>1. mail'[i].to = a /\ mail'[i].via = "pty" /\ i \in Used'
      BY <1>3, <1>7 DEF Shifts, Used
    <3>2. mail'[i].state = "delivering" => PastedInv(a, i)'
      BY <2>1, <3>1 DEF PastedInv, InFlight
    <3> QED BY <1>7, <3>2
  <2>5. hints' = hints
    BY <1>4
  <2>6. \A b \in Served \ {a} : (~Pasted(b, i) /\ ~Boxed(b, i) /\ ~Running(b, i))'
    BY <2>1
  <2>7. Held(i)'
    BY <1>7 DEF Held
  <2> QED BY <1>2, <1>3, <1>7, <2>1, <2>2, <2>3, <2>4, <2>5, <2>6, <2>7, OnlyRow
<1>8. CASE tty' = [tty EXCEPT ![a] = Append(@, i)] /\ Goto(a, Now(a, "pasted")) /\ Skip
  <2>1. "pasted" \in Phase
    BY DEF Phase
  <2>2. PICK d \in Delivery : d = Now(a, "pasted") /\ d.at = "pasted" /\ d.row = i
    BY <1>0, <1>1, <2>1, NowType
  <2>3. sup'[a] = d /\ Goto(a, d)
    BY <1>1, <1>8, <2>2, GotoType
  <2>4. PastedInv(a, i)' => SupInv(a)'
    BY <2>2, <2>3 DEF SupInv, At, Awaiting
  <2>5. PICK X : X = {}
    OBVIOUS
  <2>6. Shifts(X, {}, {}) /\ X \subseteq {i}
    BY <1>1, <1>8, <2>5, SkipWrite
  <2>7. mail'[i].state = "delivering" /\ "delivering" \notin Withdrawn \union {"delivered"}
    BY <1>3, <1>8 DEF Skip, InFlight, Withdrawn, Free
  <2> QED BY <1>7, <1>8, <2>3, <2>4, <2>6, <2>7
<1>9. CASE /\ tty' = [tty EXCEPT ![a] = Append(@, i)] /\ Goto(a, Now(a, "pasteheld"))
           /\ MailWrite(Mark(i, "uncertain"))
  <2>1. PICK d : d = Now(a, "pasteheld")
    OBVIOUS
  <2>2. d \in Delivery /\ d.at \in Resting /\ Goto(a, d)
    BY <1>2, <1>9, <2>1
  <2>3. sup'[a] = d
    BY <1>1, <2>2, GotoType
  <2>4. SupInv(a)'
    BY <2>2, <2>3, FreePhase DEF Resting
  <2>5. PICK X : X = {i}
    OBVIOUS
  <2>6. Shifts(X, {}, {}) /\ X \subseteq {i}
    BY <1>1, <1>3, <1>9, <2>5, MarkWrite DEF Marks
  <2>7. mail'[i].state \in {"delivering", "uncertain"}
    <3>1. CASE Skip
      BY <1>3, <3>1 DEF Skip, InFlight
    <3>2. CASE Mark(i, "uncertain")
      BY <1>1, <3>2, LedgerConstants, MarkMoves DEF Marks
    <3> QED BY <1>9, <3>1, <3>2 DEF MailWrite
  <2>8. mail'[i].state \notin Withdrawn \union {"delivered"}
    BY <2>7 DEF Withdrawn, Free
  <2> QED BY <1>7, <1>9, <2>2, <2>4, <2>6, <2>8
<1>10. \/ /\ MailWrite(Requeue(i, 0)) \/ MailWrite(Mark(i, "failed"))
          /\ Goto(a, Idle) /\ UNCHANGED tty
       \/ tty' = [tty EXCEPT ![a] = Append(@, i)] /\ Goto(a, Now(a, "pasted")) /\ Skip
       \/ /\ MailWrite(Mark(i, "uncertain")) /\ Goto(a, Now(a, "pasteheld"))
          /\ UNCHANGED tty \/ tty' = [tty EXCEPT ![a] = Append(@, i)]
  BY <1>0 DEF Paste
<1> QED BY <1>5, <1>6, <1>8, <1>9, <1>10

\* A paste without a return goes back, and nobody will press return.
LEMMA RestPasted ==
  ASSUME Inv, NEW a \in Served, NEW d \in Delivery, Goto(a, d), d.at \in Resting, Quiet(a)',
         UNCHANGED <<engine, job, tty, cc, got, hints, receipts>>,
         NEW i \in Rows, PastedInv(a, i), MailWrite(Requeue(i, 0))
  PROVE  CopyInv'
<1>1. TypeOK /\ MoreTypes /\ PlaceInv /\ mail[i].to = a
  BY DEF Inv, CopyInv, PastedInv
<1>2. Shifts({i}, {i}, {})
  BY <1>1, RequeueWrite
<1>3. Vanish
  BY StillVanish
<1>4. Unsent(i)'
  BY <1>1, <1>3, VanishFades, PastedUnsent
<1>5. PICK X, F, E : X = {i} /\ F = {i} /\ E = {}
  OBVIOUS
<1>6. /\ Shifts(X, F, E) /\ \A j \in X : j \in Used => mail[j].to = a
      /\ \A j \in F \intersect Rows : Unsent(j)'
      /\ \A j \in E \intersect Rows : mail[j].via # "pty" => got[j] = 1
  BY <1>1, <1>2, <1>4, <1>5
<1> QED BY <1>6, RestStep

\* A return arms what agent a's box and PTY hold, all of it in flight or
\* uncertain.
LEMMA ReturnStep ==
  ASSUME Inv, NEW a \in Served, NEW d \in Delivery, Goto(a, d), ~Quiet(a),
         tty' = [tty EXCEPT ![a] = Append(@, Return)],
         UNCHANGED <<engine, job, cc, got, hints, receipts>>,
         NEW X, Shifts(X, {}, {}), \A j \in X : j \in Used => mail[j].to = a, SupInv(a)'
  PROVE  CopyInv'
<1>1. MoreTypes /\ CopyInv /\ Return \notin Rows
  BY DEF Inv, Return, NoRow, Rows
<1>2. PICK L \in Nat : /\ DOMAIN tty[a] = 1..L /\ DOMAIN tty'[a] = 1..(L + 1)
                       /\ tty'[a][L + 1] = Return
                       /\ \A n \in 1..L : tty'[a][n] = tty[a][n]
  BY ZenonT(60), <1>1, Appended
<1>3. \A b \in Served \ {a} : tty'[b] = tty[b]
  BY <1>1, Appended
<1>4. 1..(L + 1) = (1..L) \union {L + 1}
  OBVIOUS
<1>5. ASSUME NEW b \in Served, NEW j \in Rows
      PROVE  Pasted(b, j)' <=> Pasted(b, j)
  BY <1>1, <1>2, <1>3, <1>4 DEF Pasted
<1>6. ASSUME NEW j \in Rows
      PROVE  /\ got'[j] = got[j] /\ (Refused(j)' <=> Refused(j)) /\ (j \in hints' <=> j \in hints)
             /\ \A b \in Served : (Boxed(b, j)' <=> Boxed(b, j)) /\ (Running(b,
                   j)' <=> Running(b, j))
  BY DEF Refused, Boxed, Running
<1>7. Local(a) /\ QuietStays
  BY <1>1, GotoLocal, LocalQuiet
<1>8. PICK Z \in SUBSET Rows : Z = {j \in Rows : Pasted(a, j)}
  OBVIOUS
<1>9. ASSUME NEW j \in Rows \ Z
      PROVE  Fades(j)
  <2>1. ~Pasted(a, j)'
    BY <1>5, <1>8
  <2>2. ~Armed(a, j)'
    <3>1. \A n \in 1..(L + 1) : \A m \in 1..n : m \in 1..(L + 1)
      OBVIOUS
    <3> QED BY <1>2, <2>1, <3>1 DEF Armed, Pasted
  <2>3. \A b \in Served : Armed(b, j)' => Armed(b, j)
    BY <1>3, <2>2 DEF Armed
  <2> QED BY <1>5, <1>6, <2>3 DEF Fades
<1>10. ASSUME NEW j \in Z
       PROVE  /\ OneCopy(j)' /\ Held(j)' /\ j \in Used /\ mail[j].to = a
              /\ \A b \in Served : (Pasted(b, j) \/ Boxed(b, j) \/ Running(b, j))'
                                     => j \in Used /\ mail[j].to = b
  <2>1. OneCopy(j) /\ Held(j) /\ Pasted(a, j) /\ j \in Rows
    BY <1>1, <1>8 DEF CopyInv
  <2>2. OneCopy(j)'
    BY <1>5, <1>6, <2>1 DEF OneCopy
  <2>3. /\ j \in Used /\ mail[j].to = a
        /\ \A b \in Served : (Pasted(b, j) \/ Boxed(b, j) \/ Running(b, j))'
                               => j \in Used /\ mail[j].to = b
    BY <1>1, <1>5, <1>6, <2>1 DEF CopyInv, PlaceInv
  <2>4. mail[j].state \notin Withdrawn
    BY <2>1 DEF Held, Unsent
  <2>5. Held(j)'
    BY <1>6, <2>1, <2>3, <2>4 DEF Held, Shifts
  <2> QED BY <2>2, <2>3, <2>5
<1>11. PICK F, E : F = {} /\ E = {}
  OBVIOUS
<1>12. Shifts(X, F, E)
  BY <1>11
<1>13. \A j \in X \union Z : j \in Used => mail[j].to = a
  BY <1>10
<1>14. ASSUME NEW b \in Served \ {a}
       PROVE  SupInv(b)'
  <2>1. sup'[b] = sup[b] /\ job'[b] = job[b]
    BY <1>7 DEF Local
  <2> QED BY ZenonT(60), <1>1, <1>9, <1>12, <1>13, <2>1, OtherSups
<1>15. \A b \in Served : SupInv(b)'
  BY <1>14
<1>16. Unique'
  <2>1. \A r, s \in receipts' :
          r.row = s.row /\ r.kind \in Refusals /\ s.kind \in Refusals => r = s
    BY <1>1 DEF CopyInv, Unique
  <2>2. cc[a].box \subseteq Rows
    BY <1>1 DEF MoreTypes, SessionState
  <2>3. /\ \A m, n \in 1..L : tty[a][m] \in Rows /\ tty[a][m] = tty[a][n] => m = n
        /\ \A n \in 1..L : tty[a][n] \notin cc[a].box
    BY <1>1, <1>2 DEF CopyInv, Unique
  <2>4. /\ \A m, n \in DOMAIN tty'[a] : tty'[a][m] \in Rows /\ tty'[a][m] = tty'[a][n] => m = n
        /\ \A n \in DOMAIN tty'[a] : tty'[a][n] \notin cc'[a].box
    BY <1>1, <1>2, <1>4, <2>2, <2>3
  <2>5. ASSUME NEW b \in Served
        PROVE  /\ \A m, n \in cc'[b].inbox : m.row = n.row => m = n
               /\ \A m, n \in DOMAIN tty'[b] :
                    tty'[b][m] \in Rows /\ tty'[b][m] = tty'[b][n] => m = n
               /\ \A n \in DOMAIN tty'[b] : tty'[b][n] \notin cc'[b].box
    BY <1>1, <1>3, <2>4 DEF CopyInv, Unique
  <2> QED BY <2>1, <2>5 DEF Unique
<1>17. \A b \in Served : job'[b].out = "running" => job'[b].row \in Rows
  BY <1>1 DEF CopyInv, PlaceInv
<1>18. /\ \A j \in Rows \ Z : Fades(j) /\ (j \in hints' => j \in hints)
       /\ \A j \in F \intersect (Rows \ Z) : Unsent(j)'
       /\ \A j \in E \intersect (Rows \ Z) : mail[j].via # "pty" => got[j] = 1
  BY <1>6, <1>9, <1>11
<1>19. \A j \in Z : /\ OneCopy(j)' /\ Held(j)'
                    /\ \A b \in Served : (Pasted(b, j) \/ Boxed(b, j) \/ Running(b, j))'
                                           => j \in Used /\ mail[j].to = b
  BY <1>10
<1>20. CopyInv /\ QuietStays /\ Shifts(X, F, E) /\ Z \in SUBSET Rows
  BY <1>1, <1>7, <1>8, <1>12
<1> QED BY ONLY <1>15, <1>16, <1>17, <1>18, <1>19, <1>20, CopyStep

LEMMA SubmitKeeps ==
  ASSUME Inv, NEW a \in Served, Submit(a)
  PROVE  CopyInv'
<1>0. PICK i : i = sup[a].row
  OBVIOUS
<1>1. MoreTypes /\ TypeOK /\ SupInv(a) /\ At(a, "pasted")
  BY DEF Inv, CopyInv, Submit
<1>2. /\ Idle \in Delivery /\ Idle.at \in Resting /\ ~Quiet(a)
      /\ Now(a, "pasteheld") \in Delivery /\ Now(a, "pasteheld").at \in Resting
  BY <1>1, RestPhases DEF At
<1>3. PastedInv(a, i)
  BY <1>0, <1>1 DEF SupInv
<1>4. i \in Used /\ i \in Rows /\ mail[i].to = a /\ mail[i].via = "pty"
  BY <1>3 DEF PastedInv, Used
<1>5. UNCHANGED <<engine, job, cc, got, hints, receipts>>
  BY DEF Submit
<1>6. CASE engine = "draining" /\ MailWrite(Requeue(i, 0)) /\ Goto(a, Idle) /\ UNCHANGED tty
  <2>1. sup'[a] = Idle /\ Idle.at = "idle"
    BY <1>1, <1>2, <1>6, GotoType DEF Idle, Off
  <2>2. Quiet(a)'
    BY <1>5, <1>6, <2>1 DEF Quiet, At
  <2> QED BY <1>2, <1>3, <1>4, <1>5, <1>6, <2>2, RestPasted
<1>7. CASE MailWrite(Mark(i, "uncertain")) /\ Goto(a, Now(a, "pasteheld")) /\ UNCHANGED tty
  <2>1. PICK d \in Delivery : d = Now(a, "pasteheld") /\ d.at \in Resting /\ Goto(a, d)
    BY <1>2, <1>7
  <2> QED BY <1>2, <1>4, <1>5, <1>7, <2>1, RestUncertain
<1>8. CASE tty' = [tty EXCEPT ![a] = Append(@, Return)] /\ Goto(a, Now(a, "submitted")) /\ Skip
  <2>1. "submitted" \in Phase
    BY DEF Phase
  <2>2. PICK d \in Delivery : d = Now(a, "submitted") /\ d.at = "submitted" /\ d.row = i
    BY <1>0, <1>1, <2>1, NowType
  <2>3. PICK X : X = {}
    OBVIOUS
  <2>4. Shifts(X, {}, {}) /\ \A j \in X : j \in Used => mail[j].to = a
    BY <1>1, <1>8, <2>3, SkipWrite
  <2>5. sup'[a] = d /\ Goto(a, d)
    BY <1>1, <1>8, <2>2, GotoType
  <2>6. i \in Used' /\ mail'[i].to = a /\ mail'[i].via = "pty"
    BY <1>4, <1>8 DEF Skip, Used
  <2>7. SupInv(a)'
    BY <2>2, <2>5, <2>6 DEF SupInv, At, Awaiting
  <2> QED BY <1>2, <1>5, <1>8, <2>4, <2>5, <2>7, ReturnStep
<1>9. CASE /\ tty' = [tty EXCEPT ![a] = Append(@, Return)] /\ Goto(a, Now(a, "pasteheld"))
           /\ MailWrite(Mark(i, "uncertain"))
  <2>1. PICK d \in Delivery : d = Now(a, "pasteheld") /\ d.at \in Resting /\ Goto(a, d)
    BY <1>2, <1>9
  <2>2. sup'[a] = d
    BY <1>1, <2>1, GotoType
  <2>3. SupInv(a)'
    BY <2>1, <2>2, FreePhase DEF Resting
  <2>4. PICK X : X = {i}
    OBVIOUS
  <2>5. Shifts(X, {}, {}) /\ \A j \in X : j \in Used => mail[j].to = a
    BY <1>1, <1>4, <1>9, <2>4, MarkWrite DEF Marks
  <2> QED BY <1>2, <1>5, <1>9, <2>1, <2>3, <2>5, ReturnStep
<1> QED BY <1>0, <1>6, <1>7, <1>8, <1>9 DEF Submit

LEMMA StartSocketKeeps ==
  ASSUME Inv, NEW a \in Served, StartSocket(a)
  PROVE  CopyInv'
<1>0. PICK i : i = sup[a].row
  OBVIOUS
<1>1. MoreTypes /\ TypeOK /\ CopyInv /\ SupInv(a) /\ At(a, "taken") /\ sup[a].gate # "pty"
  BY DEF Inv, CopyInv, StartSocket
<1>2. Idle \in Delivery /\ Idle.at \in Resting /\ ~Quiet(a)
  BY <1>1, RestPhases DEF At
<1>3. /\ i \in Used /\ i \in Rows /\ InFlight(i) /\ mail[i].to = a /\ Clean(i)
      /\ mail[i].via = "socket"
  BY <1>0, <1>1 DEF SupInv, TakenInv, Used
<1>4. UNCHANGED <<engine, tty, cc, got, hints, receipts>>
  BY DEF StartSocket
<1>5. CASE /\ MailWrite(RetrySocket(i)) \/ MailWrite(Requeue(i, 0))
           /\ Goto(a, Idle) /\ UNCHANGED job
  BY <1>2, <1>3, <1>4, <1>5, RestClean
<1>6. CASE Skip /\ Goto(a, Idle) /\ UNCHANGED job
  <2>1. UNCHANGED mail /\ job' = job
    BY <1>6 DEF Skip
  <2> QED BY <1>2, <1>4, <1>6, <2>1, RestSkip
<1>7. CASE /\ job' = [job EXCEPT ![a] = [row |-> i, out |-> "running"]]
           /\ Goto(a, Now(a, "sending")) /\ Skip
  <2>1. "sending" \in Phase
    BY DEF Phase
  <2>2. PICK d \in Delivery : d = Now(a, "sending") /\ d.at = "sending" /\ d.row = i
    BY <1>0, <1>1, <2>1, NowType
  <2>3. job'[a] = [row |-> i, out |-> "running"] /\ \A b \in Served \ {a} : job'[b] = job[b]
    BY <1>1, <1>7 DEF MoreTypes
  <2>4. Local(a) /\ sup'[a] = d
    BY <1>1, <1>4, <1>7, <2>2, <2>3, GotoLocal
  <2>5. PICK X : X = {}
    OBVIOUS
  <2>6. Shifts(X, {}, {}) /\ X \subseteq {i}
    BY <1>1, <1>7, <2>5, SkipWrite
  <2>7. mail' = mail /\ mail'[i].state \notin Withdrawn \union {"delivered"}
    BY <1>3, <1>7 DEF Skip, InFlight, Withdrawn, Free
  <2>8. \A j \in Rows \ {i} : Fades(j)
    BY <1>4, <2>3 DEF Fades, Refused, Pasted, Boxed, Running, Armed
  <2>9. OneCopy(i)'
    <3>1. i \notin hints /\ got[i] = 0 /\ ~Refused(i)
      BY <1>1, <1>3 DEF CopyInv, OneCopy, Clean
    <3>2. (~Refused(i))' /\ \A b \in Served : (~Boxed(b, i) /\ ~Pasted(b, i))'
      BY <1>3, <1>4 DEF Clean, Refused, Boxed, Pasted
    <3> QED BY <1>4, <3>1, <3>2 DEF OneCopy
  <2>10. \A b \in Served \ {a} : (~Pasted(b, i) /\ ~Boxed(b, i) /\ ~Running(b, i))'
    BY <1>3, <1>4, <2>3 DEF Clean, Pasted, Boxed, Running
  <2>11. \A b \in Served : job'[b].out = "running" => job'[b].row \in Rows
    BY <1>1, <1>3, <2>3 DEF CopyInv, PlaceInv
  <2>12. Unique'
    BY <1>1, <1>4 DEF CopyInv, Unique
  <2>13. SendingInv(a, i)'
    BY <1>3, <2>3, <2>7 DEF SendingInv, Used
  <2>14. SupInv(a)'
    BY <2>2, <2>4, <2>13 DEF SupInv, At, Awaiting
  <2>15. hints' = hints
    BY <1>4
  <2>16. Held(i)'
    BY <2>7 DEF Held
  <2> QED BY <1>2, <1>3, <2>4, <2>6, <2>8, <2>9, <2>10, <2>11, <2>12, <2>14, <2>15, <2>16, OnlyRow
<1> QED BY <1>0, <1>5, <1>6, <1>7 DEF StartSocket

LEMMA SupervisorKeeps ==
  ASSUME Inv, NEW a \in Served, Supervisor(a)
  PROVE  CopyInv'
BY AdoptKeeps, ChooseKeeps, TakeKeeps, PasteKeeps, SubmitKeeps, JudgeKeeps, WaitingKeeps,
   StartSocketKeeps, SocketResultKeeps DEF Supervisor

\* The socket job: the row reaches the inbox, or nothing is left of it.
LEMMA SocketJobKeeps ==
  ASSUME Inv, NEW a \in Served, SocketJob(a)
  PROVE  CopyInv'
<1>0. PICK i : i = job[a].row
  OBVIOUS
<1>1. MoreTypes /\ TypeOK /\ CopyInv /\ SupInv(a) /\ PlaceInv /\ Unique
  BY DEF Inv, CopyInv
<1>2. /\ job[a].out = "running" /\ UNCHANGED <<mail, engine, sup, tty, got, hints, receipts>>
      /\ i \in Rows /\ Running(a, i) /\ i \in Used /\ mail[i].to = a
  BY <1>0, <1>1 DEF SocketJob, PlaceInv, Running
<1>3. PICK o \in {"blocked", "notsent", "sent", "maybesent"} :
        /\ job' = [job EXCEPT ![a].out = o]
        /\ \/ UNCHANGED cc
           \/ /\ cc' = [cc EXCEPT ![a].inbox = @ \union {[row |-> i, at |-> "new"]}]
              /\ o \notin {"blocked", "notsent"}
  BY <1>0 DEF SocketJob
<1>4. /\ job'[a].out = o /\ \A b \in Served \ {a} : job'[b] = job[b]
      /\ job'[a].row = job[a].row
  BY <1>1, <1>3 DEF MoreTypes, Jobs
<1>5. Local(a) /\ (Quiet(a) => Quiet(a)')
  BY <1>2, <1>4 DEF Local, Quiet, At
<1>6. /\ OneCopy(i) /\ got[i] = 0 /\ ~Refused(i) /\ ~Boxed(a, i) /\ ~Pasted(a, i)
      /\ i \notin hints /\ mail[i].state \notin Withdrawn
      /\ \A b \in Served \ {a} : ~Pasted(b, i) /\ ~Boxed(b, i) /\ ~Running(b, i)
  <2>1. OneCopy(i) /\ Held(i)
    BY <1>1, <1>2 DEF CopyInv
  <2>2. \A b \in Served \ {a} : ~Pasted(b, i) /\ ~Boxed(b, i) /\ ~Running(b, i)
    BY <1>1, <1>2, OnlyAt
  <2> QED BY <1>2, <2>1, <2>2 DEF OneCopy, Held, Unsent
<1>7. PICK X, F, E : X = {} /\ F = {} /\ E = {}
  OBVIOUS
<1>8. Shifts(X, F, E) /\ Shifts(X, {}, {}) /\ X \subseteq {i}
  BY <1>1, <1>2, <1>7, SkipMoves
<1>9. ASSUME \A j \in Rows \ {i} : Fades(j), o \in {"blocked", "notsent"} => Clean(i)'
      PROVE  SupInv(a)'
  <2>1. CASE At(a, "sending")
    <3>1. PICK k : k = sup[a].row /\ k = sup'[a].row
      BY <1>2
    <3>2. SendingInv(a, k) /\ k = i
      BY <1>0, <1>1, <2>1, <3>1 DEF SupInv, SendingInv
    <3>3. SendingInv(a, k)'
      BY <1>0, <1>2, <1>4, <1>9, <3>2 DEF SendingInv, Used
    <3> QED BY <1>2, <2>1, <3>1, <3>3 DEF SupInv, At, Awaiting
  <2>2. CASE ~At(a, "sending")
    <3>1. PICK k : k = sup[a].row
      OBVIOUS
    <3>2. sup[a].at \in {"taken", "pasted"} => k \in Rows \ {i}
      BY <1>1, <1>2, <3>1 DEF SupInv, At, TakenInv, PastedInv, Clean, Used
    <3>3. sup[a].at \in {"taken", "pasted"} => Fades(k)
      BY <1>9, <3>2
    <3>4. /\ sup'[a].at = sup[a].at /\ sup'[a].row = sup[a].row /\ sup'[a].gate = sup[a].gate
          /\ sup[a].row \in X => sup[a].at \notin {"taken", "pasted"}
          /\ sup[a].at \in {"taken", "pasted"} \/ (At(a, "sending") /\ Clean(sup[a].row))
               => Fades(sup[a].row)
      BY <1>2, <1>7, <2>2, <3>1, <3>3
    <3> QED BY <1>1, <1>8, <2>2, <3>4, SupStays
  <2> QED BY <2>1, <2>2
<1>10. CASE UNCHANGED cc
  <2>1. Vanish
    BY <1>2, <1>4, <1>10 DEF Vanish
  <2>2. \A j \in Rows : Fades(j)
    BY <2>1, VanishFades
  <2>3. Clean(i)'
    <3>1. ~Running(a, i)'
      BY <1>4 DEF Running
    <3>2. \A b \in Served : (~Pasted(b, i) /\ ~Boxed(b, i))' /\ (b # a => ~Running(b, i)')
      BY <1>2, <1>4, <1>6, <1>10 DEF Pasted, Boxed, Running
    <3>3. got'[i] = 0 /\ ~Refused(i)'
      BY <1>2, <1>6 DEF Refused
    <3> QED BY <3>1, <3>2, <3>3 DEF Clean
  <2>4. SupInv(a)'
    BY <1>9, <2>2, <2>3
  <2>5. /\ \A j \in X : j \in Used => mail[j].to = a
        /\ \A j \in F \intersect Rows : Unsent(j)'
        /\ \A j \in E \intersect Rows : mail[j].via # "pty" => got[j] = 1
    BY <1>7
  <2> QED BY <1>1, <1>5, <1>8, <2>1, <2>4, <2>5, LocalStep
<1>11. CASE /\ cc' = [cc EXCEPT ![a].inbox = @ \union {[row |-> i, at |-> "new"]}]
            /\ o \notin {"blocked", "notsent"}
  <2>0. PICK m : m = [row |-> i, at |-> "new"]
    OBVIOUS
  <2>1. /\ cc'[a].inbox = cc[a].inbox \union {m} /\ cc'[a].box = cc[a].box /\ m.row = i
        /\ \A b \in Served \ {a} : cc'[b] = cc[b]
    BY <1>1, <1>11, <2>0 DEF MoreTypes, SessionState
  <2>2. \A j \in Rows \ {i} : Fades(j)
    <3>1. \A j \in Rows \ {i}, b \in Served : Boxed(b, j)' => Boxed(b, j)
      BY <2>1 DEF Boxed
    <3>2. \A b \in Served : cc'[b].box = cc[b].box
      BY <2>1
    <3>3. \A j \in Rows, b \in Served : /\ Pasted(b, j)' => Pasted(b, j)
                                        /\ Armed(b, j)' => Armed(b, j)
      BY <1>2, <3>2 DEF Pasted, Armed
    <3>4. \A j \in Rows, b \in Served : Running(b, j)' => Running(b, j)
      BY <1>4 DEF Running
    <3> QED BY <1>2, <3>1, <3>3, <3>4 DEF Fades, Refused
  <2>3. SupInv(a)'
    BY <1>9, <1>11, <2>2
  <2>4. \A b \in Served \ {a} : (~Pasted(b, i) /\ ~Boxed(b, i) /\ ~Running(b, i))'
    BY <1>2, <1>4, <1>6, <2>1 DEF Pasted, Boxed, Running
  <2>5. (~Pasted(a, i) /\ ~Running(a, i))'
    BY <1>2, <1>4, <1>6, <2>1 DEF Pasted, Running
  <2>6. got'[i] = 0 /\ (~Refused(i))' /\ i \notin hints'
    BY <1>2, <1>6 DEF Refused
  <2>7. OneCopy(i)'
    BY <2>4, <2>5, <2>6 DEF OneCopy
  <2>8. Held(i)'
    <3>1. Held(i)
      BY <1>1, <1>2 DEF CopyInv
    <3> QED BY <1>2, <1>6, <3>1 DEF Held
  <2>9. Unique'
    <3>1. \A n \in cc[a].inbox : n.row # i
      BY <1>6 DEF Boxed
    <3>2. \A n, p \in cc'[a].inbox : n.row = p.row => n = p
      BY <1>1, <2>1, <3>1 DEF Unique
    <3>3. ASSUME NEW b \in Served
          PROVE  /\ \A n, p \in cc'[b].inbox : n.row = p.row => n = p
                 /\ \A k, n \in DOMAIN tty'[b] :
                      tty'[b][k] \in Rows /\ tty'[b][k] = tty'[b][n] => k = n
                 /\ \A n \in DOMAIN tty'[b] : tty'[b][n] \notin cc'[b].box
      BY <1>1, <1>2, <2>1, <3>2 DEF Unique
    <3>4. \A r, s \in receipts' :
            r.row = s.row /\ r.kind \in Refusals /\ s.kind \in Refusals => r = s
      BY <1>1, <1>2 DEF Unique
    <3> QED BY <3>3, <3>4 DEF Unique
  <2>10. \A b \in Served : job'[b].out = "running" => job'[b].row \in Rows
    BY <1>0, <1>1, <1>2, <1>4 DEF PlaceInv
  <2>11. hints' = hints
    BY <1>2
  <2> QED BY <1>2, <1>5, <1>8, <2>2, <2>3, <2>4, <2>7, <2>8, <2>9, <2>10, <2>11, OnlyRow
<1> QED BY <1>3, <1>10, <1>11

-----------------------------------------------------------------------------
(* The session's steps.                                                    *)

\* A step of the session touches the rows of Z alone, of which there was a
\* copy that no supervisor holds as a paste.
LEMMA SessionKeeps ==
  ASSUME Inv, UNCHANGED <<mail, engine, job>>, NEW Z \in SUBSET Rows,
         \A b \in Served : /\ sup'[b].at = sup[b].at /\ sup'[b].row = sup[b].row
                           /\ sup'[b].gate = sup[b].gate,
         \A i \in Rows \ Z : Fades(i) /\ (i \in hints' => i \in hints),
         \A i \in Z : /\ ~Clean(i) /\ OneCopy(i)' /\ Held(i)'
                      /\ \A b \in Served :
                           /\ ~PastedInv(b, i)
                           /\ (Pasted(b, i) \/ Boxed(b, i) \/ Running(b, i))'
                                => i \in Used /\ mail[i].to = b,
         Unique'
  PROVE  CopyInv'
<1>1. CopyInv
  BY DEF Inv
<1>2. PICK X, F, E : X = {} /\ F = {} /\ E = {}
  OBVIOUS
<1>3. Shifts(X, F, E)
  BY <1>2, SkipMoves DEF Inv
<1>4. QuietStays
  BY DEF QuietStays, Quiet, At
<1>5. ASSUME NEW b \in Served
      PROVE  SupInv(b)'
  <2>1. SupInv(b)
    BY <1>1 DEF CopyInv
  <2>2. PICK k : k = sup[b].row
    OBVIOUS
  <2>3. sup[b].at \in {"taken", "pasted"} \/ (At(b, "sending") /\ Clean(k))
          => k \in Rows \ Z
    BY <2>1, <2>2 DEF SupInv, At, TakenInv, PastedInv, SendingInv, Used
  <2>4. /\ sup[b].at \in {"taken", "pasted"} \/ (At(b, "sending") /\ Clean(sup[b].row))
             => Fades(sup[b].row)
        /\ sup[b].row \in X => sup[b].at \notin {"taken", "pasted"}
    BY <1>2, <2>2, <2>3
  <2>5. job'[b] = job[b]
    OBVIOUS
  <2> QED BY <1>3, <2>1, <2>4, <2>5, SupStays
<1>6. \A b \in Served : job'[b].out = "running" => job'[b].row \in Rows
  BY <1>1 DEF CopyInv, PlaceInv
<1>7. /\ \A i \in F \intersect (Rows \ Z) : Unsent(i)'
      /\ \A i \in E \intersect (Rows \ Z) : mail[i].via # "pty" => got[i] = 1
  BY <1>2
<1> QED BY <1>1, <1>3, <1>4, <1>5, <1>6, <1>7, CopyStep

\* A step of the session in which copies only get lost.
LEMMA SessionLoses ==
  ASSUME Inv, UNCHANGED <<mail, engine, job>>, Vanish,
         \A b \in Served : /\ sup'[b].at = sup[b].at /\ sup'[b].row = sup[b].row
                           /\ sup'[b].gate = sup[b].gate
  PROVE  CopyInv'
<1>1. PICK Z \in SUBSET Rows : Z = {}
  OBVIOUS
<1>2. \A i \in Rows \ Z : Fades(i) /\ (i \in hints' => i \in hints)
  BY VanishFades DEF Vanish
<1>3. Unique'
  BY VanishUnique DEF Inv, CopyInv
<1>4. \A i \in Z : /\ ~Clean(i) /\ OneCopy(i)' /\ Held(i)'
                   /\ \A b \in Served :
                        /\ ~PastedInv(b, i)
                        /\ (Pasted(b, i) \/ Boxed(b, i) \/ Running(b, i))'
                             => i \in Used /\ mail[i].to = b
  BY <1>1
<1> QED BY <1>2, <1>3, <1>4, SessionKeeps

LEMMA TurnKeeps ==
  ASSUME Inv, NEW a \in Served, TurnStart(a) \/ TurnEnd(a) \/ ClearBox(a) \/ Die(a)
  PROVE  CopyInv'
<1>1. MoreTypes
  BY DEF Inv
<1>2. Dead.box = {} /\ Dead.inbox = {}
  BY DEF Dead
<1>3. UNCHANGED <<mail, engine, job, got, hints, receipts>>
  BY DEF TurnStart, TurnEnd, ClearBox, Die
<1>4. \A b \in Served : cc'[b].box \subseteq cc[b].box /\ cc'[b].inbox \subseteq cc[b].inbox
  <2>1. CASE TurnStart(a)
    BY <1>1, <2>1 DEF TurnStart, MoreTypes, SessionState
  <2>2. CASE TurnEnd(a)
    BY <1>1, <2>2 DEF TurnEnd, MoreTypes, SessionState
  <2>3. CASE ClearBox(a)
    BY <1>1, <2>3 DEF ClearBox, MoreTypes, SessionState
  <2>4. CASE Die(a)
    BY <1>1, <1>2, <2>4 DEF Die, MoreTypes, SessionState
  <2> QED BY <2>1, <2>2, <2>3, <2>4
<1>5. \A b \in Served : tty'[b] = tty[b] \/ tty'[b] = <<>>
  BY <1>1 DEF TurnStart, TurnEnd, ClearBox, Die, MoreTypes
<1>6. Vanish
  BY <1>3, <1>4, <1>5 DEF Vanish
<1>7. \A b \in Served : /\ sup'[b].at = sup[b].at /\ sup'[b].row = sup[b].row
                        /\ sup'[b].gate = sup[b].gate
  <2>1. CASE TurnEnd(a)
    <3>1. PICK u : sup' = [sup EXCEPT ![a].turn = u]
      BY <1>1, <2>1 DEF TurnEnd, MoreTypes
    <3> QED BY <1>1, <3>1 DEF MoreTypes, Delivery
  <2>2. CASE sup' = sup
    BY <2>2
  <2> QED BY <2>1, <2>2 DEF TurnStart, ClearBox, Die
<1> QED BY <1>3, <1>6, <1>7, SessionLoses

LEMMA LoseKeeps ==
  ASSUME Inv, NEW a \in Served, NEW m \in cc[a].inbox, Lose(a, m)
  PROVE  CopyInv'
<1>1. MoreTypes
  BY DEF Inv
<1>2. UNCHANGED <<mail, engine, job, got, hints, receipts, tty, sup>>
  BY DEF Lose
<1>3. \A b \in Served : cc'[b].box \subseteq cc[b].box /\ cc'[b].inbox \subseteq cc[b].inbox
  BY <1>1 DEF Lose, MoreTypes, SessionState
<1>4. Vanish
  BY <1>2, <1>3 DEF Vanish
<1> QED BY <1>2, <1>4, SessionLoses

\* What the session takes from agent a's inbox leaves it.
LEMMA InboxRow ==
  ASSUME Inv, NEW a \in Served, NEW m \in cc[a].inbox
  PROVE  /\ m.row \in Rows /\ m.row \in Used /\ mail[m.row].to = a
         /\ got[m.row] = 0 /\ ~Refused(m.row) /\ m.row \notin hints
         /\ mail[m.row].state \notin Withdrawn
         /\ OneCopy(m.row) /\ Held(m.row) /\ ~Clean(m.row) /\ \A b \in Served : ~PastedInv(b,
               m.row)
         /\ ~Pasted(a, m.row) /\ ~Running(a, m.row)
         /\ \A n \in cc[a].inbox \ {m} : n.row # m.row
         /\ \A b \in Served \ {a} : ~Pasted(b, m.row) /\ ~Boxed(b, m.row) /\ ~Running(b, m.row)
<1>0. PICK i : i = m.row
  OBVIOUS
<1>1. MoreTypes /\ CopyInv /\ PlaceInv /\ Unique /\ i \in Rows
  BY <1>0, MessageType DEF Inv, CopyInv
<1>2. Boxed(a, i)
  BY <1>0 DEF Boxed
<1>3. OneCopy(i) /\ Held(i)
  BY <1>1 DEF CopyInv
<1>4. i \in Used /\ mail[i].to = a
  BY <1>1, <1>2 DEF PlaceInv
<1>5. /\ got[i] = 0 /\ ~Refused(i) /\ i \notin hints /\ ~Pasted(a, i) /\ ~Running(a, i)
      /\ mail[i].state \notin Withdrawn /\ ~Clean(i) /\ \A b \in Served : ~PastedInv(b, i)
  BY <1>2, <1>3 DEF OneCopy, Held, Unsent, Clean, PastedInv
<1>6. \A b \in Served \ {a} : ~Pasted(b, i) /\ ~Boxed(b, i) /\ ~Running(b, i)
  BY <1>1, <1>4, OnlyAt
<1>7. \A n \in cc[a].inbox \ {m} : n.row # i
  BY <1>0, <1>1 DEF Unique
<1> QED BY <1>0, <1>1, <1>3, <1>4, <1>5, <1>6, <1>7

\* One message leaves the inbox and nothing else of the other rows moves.
LEMMA InboxFades ==
  ASSUME Inv, NEW a \in Served, NEW m \in cc[a].inbox, UNCHANGED <<job, tty>>,
         cc'[a].box = cc[a].box, cc'[a].inbox = cc[a].inbox \ {m},
         \A b \in Served \ {a} : cc'[b] = cc[b],
         \A i \in Rows \ {m.row} : got'[i] = got[i] /\ (Refused(i)' => Refused(i)),
         \A r, s \in receipts' :
           r.row = s.row /\ r.kind \in Refusals /\ s.kind \in Refusals => r = s
  PROVE  /\ \A i \in Rows \ {m.row} : Fades(i)
         /\ Unique'
         /\ \A b \in Served : (~Pasted(b, m.row) /\ ~Boxed(b, m.row) /\ ~Running(b, m.row))'
<1>1. Unique
  BY DEF Inv, CopyInv
<1>2. \A b \in Served : /\ cc'[b].box = cc[b].box /\ cc'[b].inbox \subseteq cc[b].inbox
                        /\ tty'[b] = tty[b] /\ job'[b] = job[b]
  OBVIOUS
<1>3. \A i \in Rows, b \in Served : /\ Pasted(b, i)' => Pasted(b, i)
                                    /\ Boxed(b, i)' => Boxed(b, i)
                                    /\ Running(b, i)' => Running(b, i)
                                    /\ Armed(b, i)' => Armed(b, i)
  BY <1>2 DEF Pasted, Boxed, Running, Armed
<1>4. \A i \in Rows \ {m.row} : Fades(i)
  BY <1>3 DEF Fades
<1>5. Unique'
  BY <1>1, <1>2 DEF Unique
<1>6. PICK i : i = m.row
  OBVIOUS
<1>7. /\ ~Pasted(a, i) /\ ~Running(a, i) /\ i \in Rows
      /\ \A n \in cc[a].inbox \ {m} : n.row # i
      /\ \A b \in Served \ {a} : ~Pasted(b, i) /\ ~Boxed(b, i) /\ ~Running(b, i)
  BY <1>6, InboxRow
<1>8. ~Boxed(a, i)'
  BY <1>7 DEF Boxed
<1> QED BY <1>3, <1>4, <1>5, <1>6, <1>7, <1>8

LEMMA ReadInboxKeeps ==
  ASSUME Inv, NEW a \in Served, NEW m \in cc[a].inbox, ReadInbox(a, m)
  PROVE  CopyInv'
<1>0. PICK i : i = m.row
  OBVIOUS
<1>1. MoreTypes /\ Unique
  BY DEF Inv, CopyInv
<1>2. /\ i \in Rows /\ i \in Used /\ mail[i].to = a /\ got[i] = 0 /\ ~Refused(i)
      /\ mail[i].state \notin Withdrawn /\ ~Clean(i) /\ \A b \in Served : ~PastedInv(b, i)
  BY <1>0, InboxRow
<1>3. /\ cc'[a].box = cc[a].box /\ cc'[a].inbox = cc[a].inbox \ {m}
      /\ \A b \in Served \ {a} : cc'[b] = cc[b]
  BY <1>1 DEF ReadInbox, MoreTypes, SessionState
<1>4. /\ UNCHANGED <<mail, engine, sup, job, tty, receipts>> /\ hints' = hints \union {i}
      /\ got'[i] = 1 /\ \A j \in Rows \ {i} : got'[j] = got[j]
  BY <1>0, <1>1, <1>2 DEF ReadInbox, MoreTypes
<1>5. \A j \in Rows : Refused(j)' => Refused(j)
  BY <1>4 DEF Refused
<1>6. \A r, s \in receipts' :
        r.row = s.row /\ r.kind \in Refusals /\ s.kind \in Refusals => r = s
  BY <1>1, <1>4 DEF Unique
<1>7. /\ \A j \in Rows \ {i} : Fades(j)
      /\ Unique'
      /\ \A b \in Served : (~Pasted(b, i) /\ ~Boxed(b, i) /\ ~Running(b, i))'
  BY <1>0, <1>3, <1>4, <1>5, <1>6, InboxFades
<1>8. OneCopy(i)'
  BY <1>2, <1>4, <1>5, <1>7 DEF OneCopy
<1>9. Held(i)'
  BY <1>2, <1>4 DEF Held
<1>10. PICK Z \in SUBSET Rows : Z = {i}
  BY <1>2
<1>11. \A j \in Rows \ Z : Fades(j) /\ (j \in hints' => j \in hints)
  BY <1>4, <1>7, <1>10
<1>12. \A j \in Z : /\ ~Clean(j) /\ OneCopy(j)' /\ Held(j)'
                    /\ \A b \in Served :
                         /\ ~PastedInv(b, j)
                         /\ (Pasted(b, j) \/ Boxed(b, j) \/ Running(b, j))'
                              => j \in Used /\ mail[j].to = b
  BY <1>2, <1>7, <1>8, <1>9, <1>10
<1>13. \A b \in Served : /\ sup'[b].at = sup[b].at /\ sup'[b].row = sup[b].row
                         /\ sup'[b].gate = sup[b].gate
  BY <1>4
<1>14. UNCHANGED <<mail, engine, job>>
  BY <1>4
<1> QED BY <1>7, <1>11, <1>12, <1>13, <1>14, SessionKeeps

LEMMA RefuseKeeps ==
  ASSUME Inv, NEW a \in Served, NEW m \in cc[a].inbox, NEW kind \in Refusals, Refuse(a, m, kind)
  PROVE  CopyInv'
<1>0. PICK i : i = m.row
  OBVIOUS
<1>1. MoreTypes /\ Unique
  BY DEF Inv, CopyInv
<1>2. /\ i \in Rows /\ i \in Used /\ mail[i].to = a /\ got[i] = 0 /\ ~Refused(i)
      /\ mail[i].state \notin Withdrawn /\ ~Clean(i) /\ \A b \in Served : ~PastedInv(b, i)
      /\ i \notin hints /\ Held(i)
  BY <1>0, InboxRow
<1>3. /\ cc'[a].box = cc[a].box /\ cc'[a].inbox = cc[a].inbox \ {m}
      /\ \A b \in Served \ {a} : cc'[b] = cc[b]
  BY <1>1 DEF Refuse, MoreTypes, SessionState
<1>4. PICK p : p = [row |-> i, kind |-> kind]
  OBVIOUS
<1>5. /\ UNCHANGED <<mail, engine, sup, job, tty, got, hints>> /\ receipts' = receipts \union {p}
      /\ p.row = i
  BY <1>0, <1>4 DEF Refuse
<1>6. \A j \in Rows \ {i} : Refused(j)' => Refused(j)
  BY <1>5 DEF Refused
<1>7. \A r, s \in receipts' :
        r.row = s.row /\ r.kind \in Refusals /\ s.kind \in Refusals => r = s
  <2>1. \A r \in receipts : r.row = i => r.kind \notin Refusals
    BY <1>2 DEF Refused
  <2> QED BY <1>1, <1>5, <2>1 DEF Unique
<1>8. /\ \A j \in Rows \ {i} : Fades(j)
      /\ Unique'
      /\ \A b \in Served : (~Pasted(b, i) /\ ~Boxed(b, i) /\ ~Running(b, i))'
  BY <1>0, <1>3, <1>5, <1>6, <1>7, InboxFades
<1>9. OneCopy(i)'
  BY <1>2, <1>5, <1>8 DEF OneCopy
<1>10. Held(i)'
  BY <1>2, <1>5 DEF Held
<1>11. PICK Z \in SUBSET Rows : Z = {i}
  BY <1>2
<1>12. \A j \in Rows \ Z : Fades(j) /\ (j \in hints' => j \in hints)
  BY <1>5, <1>8, <1>11
<1>13. \A j \in Z : /\ ~Clean(j) /\ OneCopy(j)' /\ Held(j)'
                    /\ \A b \in Served :
                         /\ ~PastedInv(b, j)
                         /\ (Pasted(b, j) \/ Boxed(b, j) \/ Running(b, j))'
                              => j \in Used /\ mail[j].to = b
  BY <1>2, <1>8, <1>9, <1>10, <1>11
<1>14. \A b \in Served : /\ sup'[b].at = sup[b].at /\ sup'[b].row = sup[b].row
                         /\ sup'[b].gate = sup[b].gate
  BY <1>5
<1>15. UNCHANGED <<mail, engine, job>>
  BY <1>5
<1> QED BY <1>8, <1>12, <1>13, <1>14, <1>15, SessionKeeps

\* A move in the inbox keeps each message's row, and its receipt is no refusal.
LEMMA MoveKeeps ==
  ASSUME Inv, NEW a \in Served, NEW m \in cc[a].inbox, NEW at \in Stage, Move(a, m, at)
  PROVE  CopyInv'
<1>0. PICK n : n = [m EXCEPT !.at = at]
  OBVIOUS
<1>1. MoreTypes /\ Unique /\ m \in Message
  BY MessageType DEF Inv, CopyInv
<1>2. n.row = m.row
  BY <1>0, <1>1 DEF Message
<1>3. /\ cc'[a].box = cc[a].box /\ cc'[a].inbox = (cc[a].inbox \ {m}) \union {n}
      /\ \A b \in Served \ {a} : cc'[b] = cc[b]
  BY <1>0, <1>1 DEF Move, MoreTypes, SessionState
<1>4. PICK p : p = [row |-> m.row, kind |-> at]
  OBVIOUS
<1>5. /\ UNCHANGED <<mail, engine, sup, job, tty, got, hints>> /\ receipts' = receipts \union {p}
      /\ p.kind \notin Refusals
  BY <1>4, DeliveryConstants DEF Move, Stage
<1>6. \A b \in Served, i \in Rows : Boxed(b, i)' => Boxed(b, i)
  BY <1>2, <1>3 DEF Boxed
<1>7. \A b \in Served : cc'[b].box = cc[b].box
  BY <1>3
<1>8. \A b \in Served, i \in Rows : /\ Pasted(b, i)' => Pasted(b, i)
                                    /\ Running(b, i)' => Running(b, i)
                                    /\ Armed(b, i)' => Armed(b, i)
  BY <1>5, <1>7 DEF Pasted, Running, Armed
<1>9. \A i \in Rows : Refused(i)' => Refused(i)
  BY <1>5 DEF Refused
<1>10. \A i \in Rows : Fades(i)
  BY <1>5, <1>6, <1>8, <1>9 DEF Fades
<1>11. Unique'
  <2>1. \A r, s \in receipts' :
          r.row = s.row /\ r.kind \in Refusals /\ s.kind \in Refusals => r = s
    BY <1>1, <1>5 DEF Unique
  <2>2. \A k, l \in cc'[a].inbox : k.row = l.row => k = l
    BY <1>1, <1>2, <1>3 DEF Unique
  <2>3. ASSUME NEW b \in Served
        PROVE  /\ \A k, l \in cc'[b].inbox : k.row = l.row => k = l
               /\ \A k, l \in DOMAIN tty'[b] :
                    tty'[b][k] \in Rows /\ tty'[b][k] = tty'[b][l] => k = l
               /\ \A l \in DOMAIN tty'[b] : tty'[b][l] \notin cc'[b].box
    BY <1>1, <1>3, <1>5, <2>2 DEF Unique
  <2> QED BY <2>1, <2>3 DEF Unique
<1>12. PICK Z \in SUBSET Rows : Z = {}
  OBVIOUS
<1>13. \A j \in Rows \ Z : Fades(j) /\ (j \in hints' => j \in hints)
  BY <1>5, <1>10
<1>14. \A j \in Z : /\ ~Clean(j) /\ OneCopy(j)' /\ Held(j)'
                    /\ \A b \in Served :
                         /\ ~PastedInv(b, j)
                         /\ (Pasted(b, j) \/ Boxed(b, j) \/ Running(b, j))'
                              => j \in Used /\ mail[j].to = b
  BY <1>12
<1>15. \A b \in Served : /\ sup'[b].at = sup[b].at /\ sup'[b].row = sup[b].row
                         /\ sup'[b].gate = sup[b].gate
  BY <1>5
<1>16. UNCHANGED <<mail, engine, job>>
  BY <1>5
<1> QED BY <1>11, <1>13, <1>14, <1>15, <1>16, SessionKeeps

\* What is left of agent a's PTY after the session read from it.
LEMMA TtyTail ==
  ASSUME MoreTypes, NEW a \in Served, tty[a] # <<>>, tty' = [tty EXCEPT ![a] = Tail(@)]
  PROVE  /\ \A b \in Served \ {a} : tty'[b] = tty[b]
         /\ \E L \in Nat : /\ DOMAIN tty[a] = 1..(L + 1) /\ DOMAIN tty'[a] = 1..L
                           /\ tty[a][1] = Head(tty[a])
                           /\ \A n \in 1..L : tty'[a][n] = tty[a][n + 1]
<1>1. tty[a] \in Seq(Rows \union {Return}) /\ tty'[a] = Tail(tty[a])
  BY DEF MoreTypes
<1>2. PICK L \in Nat : Len(tty[a]) = L + 1
  <2>1. Len(tty[a]) \in Nat \ {0}
    BY <1>1
  <2>2. Len(tty[a]) - 1 \in Nat /\ Len(tty[a]) = (Len(tty[a]) - 1) + 1
    BY <2>1
  <2> QED BY <2>2
<1>5. PICK t \in Seq(Rows \union {Return}) : t = tty[a]
  BY <1>1
<1>6. Len(t) = L + 1 /\ t # <<>> /\ Tail(t) \in Seq(Rows \union {Return}) /\ Len(Tail(t)) = L
  BY <1>2, <1>5
<1>7. DOMAIN t = 1..(L + 1) /\ DOMAIN Tail(t) = 1..L /\ t[1] = Head(t)
  BY <1>6
<1>8. \A n \in 1..L : Tail(t)[n] = t[n + 1]
  BY <1>6
<1>3. /\ DOMAIN tty[a] = 1..(L + 1) /\ DOMAIN tty'[a] = 1..L
      /\ tty[a][1] = Head(tty[a]) /\ \A n \in 1..L : tty'[a][n] = tty[a][n + 1]
  BY <1>1, <1>5, <1>7, <1>8
<1>4. \A b \in Served \ {a} : tty'[b] = tty[b]
  BY DEF MoreTypes
<1> QED BY <1>3, <1>4

\* The PTY read, with the box as it was, with what was read, or emptied.
LEMMA TtyFades ==
  ASSUME Inv, NEW a \in Served, tty[a] # <<>>, tty' = [tty EXCEPT ![a] = Tail(@)],
         NEW B, \/ B \in {cc[a].box, {}}
                \/ B = cc[a].box \union {Head(tty[a])} /\ Head(tty[a]) # Return,
         cc'[a].box = B, \A b \in Served : cc'[b].inbox = cc[b].inbox,
         \A b \in Served \ {a} : cc'[b].box = cc[b].box,
         UNCHANGED <<job, receipts>>
  PROVE  /\ Unique'
         /\ \A i \in Rows : /\ Refused(i)' <=> Refused(i)
                            /\ \A b \in Served : /\ Pasted(b, i)' => Pasted(b, i)
                                                 /\ Boxed(b, i)' <=> Boxed(b, i)
                                                 /\ Running(b, i)' <=> Running(b, i)
                                                 /\ Armed(b, i)' => Armed(b, i)
<1>1. MoreTypes /\ Unique
  BY DEF Inv, CopyInv
<1>2. PICK L \in Nat : /\ DOMAIN tty[a] = 1..(L + 1) /\ DOMAIN tty'[a] = 1..L
                       /\ tty[a][1] = Head(tty[a])
                       /\ \A n \in 1..L : tty'[a][n] = tty[a][n + 1]
  BY <1>1, TtyTail
<1>3. \A b \in Served \ {a} : tty'[b] = tty[b]
  BY <1>1, TtyTail
<1>4. 1 \in 1..(L + 1) /\ \A n \in 1..L : n + 1 \in 1..(L + 1) /\ n + 1 # 1
  OBVIOUS
<1>5. \A i : i \in B => i \in cc[a].box \/ i = tty[a][1]
  BY <1>2
<1>6. ASSUME NEW i \in Rows
      PROVE  Pasted(a, i)' => Pasted(a, i)
  BY SMTT(60), <1>2, <1>4, <1>5 DEF Pasted
<1>7. ASSUME NEW i \in Rows, Armed(a, i)'
      PROVE  Armed(a, i)
  <2>1. PICK n \in 1..L : /\ tty[a][n + 1] = Return
                          /\ i \in B \/ \E m \in 1..n : tty'[a][m] = i
    BY <1>2, <1>7 DEF Armed
  <2>2. n + 1 \in DOMAIN tty[a] /\ tty[a][n + 1] = Return
    BY <1>2, <1>4, <2>1
  <2>3. CASE i \in B
    <3>1. 1 \in 1..(n + 1)
      OBVIOUS
    <3> QED BY <1>5, <2>2, <2>3, <3>1 DEF Armed
  <2>4. CASE \E m \in 1..n : tty'[a][m] = i
    <3>1. PICK m \in 1..n : tty'[a][m] = i
      BY <2>4
    <3>2. m \in 1..L /\ m + 1 \in 1..(n + 1)
      BY <2>1
    <3>3. tty[a][m + 1] = i
      BY <1>2, <3>1, <3>2
    <3> QED BY <2>2, <3>2, <3>3 DEF Armed
  <2> QED BY <2>1, <2>3, <2>4
<1>8. \A i \in Rows : /\ Refused(i)' <=> Refused(i)
                      /\ \A b \in Served : /\ Pasted(b, i)' => Pasted(b, i)
                                           /\ Boxed(b, i)' <=> Boxed(b, i)
                                           /\ Running(b, i)' <=> Running(b, i)
                                           /\ Armed(b, i)' => Armed(b, i)
  <2>1. \A i \in Rows, b \in Served \ {a} : /\ Pasted(b, i)' => Pasted(b, i)
                                            /\ Armed(b, i)' => Armed(b, i)
    BY <1>3 DEF Pasted, Armed
  <2> QED BY <1>6, <1>7, <2>1 DEF Refused, Boxed, Running
<1>9. Unique'
  <2>1. \A r, s \in receipts' :
          r.row = s.row /\ r.kind \in Refusals /\ s.kind \in Refusals => r = s
    BY <1>1 DEF Unique
  <2>2. /\ \A m, n \in 1..(L + 1) : tty[a][m] \in Rows /\ tty[a][m] = tty[a][n] => m = n
        /\ \A n \in 1..(L + 1) : tty[a][n] \notin cc[a].box
    BY <1>1, <1>2 DEF Unique
  <2>3. \A m, n \in 1..L : tty'[a][m] \in Rows /\ tty'[a][m] = tty'[a][n] => m = n
    <3>1. \A m, n \in 1..L : m + 1 = n + 1 => m = n
      OBVIOUS
    <3> QED BY <1>2, <1>4, <2>2, <3>1
  <2>4. \A n \in 1..L : tty'[a][n] \notin B
    <3>1. \A n \in 1..L : tty[a][n + 1] \notin cc[a].box
      BY <1>4, <2>2
    <3>2. cc[a].box \subseteq Rows
      BY <1>1 DEF MoreTypes, SessionState
    <3>3. CASE tty[a][1] \in Rows
      <4>1. \A n \in 1..L : tty[a][n + 1] # tty[a][1]
        BY <1>4, <2>2, <3>3
      <4> QED BY <1>2, <1>5, <3>1, <4>1
    <3>4. CASE tty[a][1] \notin Rows /\ B \subseteq cc[a].box
      BY <1>2, <3>1, <3>4
    <3>5. tty[a][1] \in Rows \/ B \subseteq cc[a].box
      <4>1. tty[a][1] \in Rows \union {Return}
        BY <1>1, <1>2 DEF MoreTypes
      <4> QED BY <1>2, <4>1
    <3> QED BY <3>3, <3>4, <3>5
  <2>5. ASSUME NEW b \in Served
        PROVE  /\ \A m, n \in cc'[b].inbox : m.row = n.row => m = n
               /\ \A m, n \in DOMAIN tty'[b] :
                    tty'[b][m] \in Rows /\ tty'[b][m] = tty'[b][n] => m = n
               /\ \A n \in DOMAIN tty'[b] : tty'[b][n] \notin cc'[b].box
    <3>1. CASE b = a
      BY <1>1, <1>2, <2>3, <2>4, <3>1 DEF Unique
    <3>2. CASE b # a
      BY <1>1, <1>3, <3>2 DEF Unique
    <3> QED BY <3>1, <3>2
  <2> QED BY <2>1, <2>5 DEF Unique
<1> QED BY <1>8, <1>9

LEMMA ReadTtyKeeps ==
  ASSUME Inv, NEW a \in Served, ReadTty(a)
  PROVE  CopyInv'
<1>1. MoreTypes /\ Unique /\ CopyInv /\ PlaceInv /\ cc[a].box \subseteq Rows
  BY DEF Inv, CopyInv, MoreTypes, SessionState
<1>2. /\ UNCHANGED <<mail, engine, sup, job, receipts>> /\ tty[a] # <<>>
      /\ tty' = [tty EXCEPT ![a] = Tail(@)]
  BY DEF ReadTty
<1>3. \A b \in Served : /\ sup'[b].at = sup[b].at /\ sup'[b].row = sup[b].row
                        /\ sup'[b].gate = sup[b].gate
  BY <1>2
<1>4. ASSUME NEW B, \/ B \in {cc[a].box, {}}
                    \/ B = cc[a].box \union {Head(tty[a])} /\ Head(tty[a]) # Return,
             cc'[a].box = B, \A b \in Served : cc'[b].inbox = cc[b].inbox,
             \A b \in Served \ {a} : cc'[b].box = cc[b].box
      PROVE  /\ Unique'
             /\ \A i \in Rows : /\ Refused(i)' <=> Refused(i)
                                /\ \A b \in Served : /\ Pasted(b, i)' => Pasted(b, i)
                                                     /\ Boxed(b, i)' <=> Boxed(b, i)
                                                     /\ Running(b, i)' <=> Running(b, i)
                                                     /\ Armed(b, i)' => Armed(b, i)
  BY <1>2, <1>4, TtyFades
<1>5. ASSUME UNCHANGED <<got, hints>>,
             Unique' /\ \A i \in Rows :
               /\ Refused(i)' <=> Refused(i)
               /\ \A b \in Served : /\ Pasted(b, i)' => Pasted(b, i)
                                    /\ Boxed(b, i)' <=> Boxed(b, i)
                                    /\ Running(b, i)' <=> Running(b, i)
                                    /\ Armed(b, i)' => Armed(b, i)
      PROVE  CopyInv'
  <2>1. PICK Z \in SUBSET Rows : Z = {}
    OBVIOUS
  <2>2. \A j \in Rows \ Z : Fades(j) /\ (j \in hints' => j \in hints)
    BY <1>5 DEF Fades
  <2>3. \A j \in Z : /\ ~Clean(j) /\ OneCopy(j)' /\ Held(j)'
                     /\ \A b \in Served :
                          /\ ~PastedInv(b, j)
                          /\ (Pasted(b, j) \/ Boxed(b, j) \/ Running(b, j))'
                               => j \in Used /\ mail[j].to = b
    BY <2>1
  <2> QED BY <1>2, <1>3, <1>5, <2>2, <2>3, SessionKeeps
<1>6. CASE UNCHANGED <<cc, got, hints, notes>>
  <2>1. PICK B : B = cc[a].box
    OBVIOUS
  <2>2. /\ cc'[a].box = B /\ \A b \in Served : cc'[b].inbox = cc[b].inbox
        /\ \A b \in Served \ {a} : cc'[b].box = cc[b].box
    BY <1>6, <2>1
  <2> QED BY <1>4, <1>5, <1>6, <2>1, <2>2
<1>7. CASE /\ Head(tty[a]) # Return /\ cc' = [cc EXCEPT ![a].box = @ \union {Head(tty[a])}]
           /\ UNCHANGED <<got, hints, notes>>
  <2>1. PICK B : B = cc[a].box \union {Head(tty[a])}
    OBVIOUS
  <2>2. /\ cc'[a].box = B /\ \A b \in Served : cc'[b].inbox = cc[b].inbox
        /\ \A b \in Served \ {a} : cc'[b].box = cc[b].box
    BY <1>1, <1>7, <2>1 DEF MoreTypes, SessionState
  <2> QED BY <1>4, <1>5, <1>7, <2>1, <2>2
<1>8. CASE /\ Head(tty[a]) = Return /\ cc[a].box # {}
           /\ cc'    = [cc EXCEPT ![a].box = {}, ![a].turn = TRUE]
           /\ got'   = [i \in Rows |-> IF i \in cc[a].box THEN got[i] + 1 ELSE got[i]]
           /\ hints' = hints \union cc[a].box
  <2>1. PICK B : B = {}
    OBVIOUS
  <2>2. /\ cc'[a].box = B /\ \A b \in Served : cc'[b].inbox = cc[b].inbox
        /\ \A b \in Served \ {a} : cc'[b].box = cc[b].box
    BY <1>1, <1>8, <2>1 DEF MoreTypes, SessionState
  <2>3. /\ Unique'
        /\ \A i \in Rows : /\ Refused(i)' <=> Refused(i)
                           /\ \A b \in Served : /\ Pasted(b, i)' => Pasted(b, i)
                                                /\ Boxed(b, i)' <=> Boxed(b, i)
                                                /\ Running(b, i)' <=> Running(b, i)
                                                /\ Armed(b, i)' => Armed(b, i)
    BY <1>4, <2>1, <2>2
  <2>4. PICK Z \in SUBSET Rows : Z = cc[a].box
    BY <1>1
  <2>5. \A j \in Rows \ Z : Fades(j) /\ (j \in hints' => j \in hints)
    BY <1>8, <2>3, <2>4 DEF Fades
  <2>6. PICK L \in Nat : /\ DOMAIN tty[a] = 1..(L + 1) /\ DOMAIN tty'[a] = 1..L
                         /\ tty[a][1] = Head(tty[a])
                         /\ \A n \in 1..L : tty'[a][n] = tty[a][n + 1]
    BY <1>1, <1>2, TtyTail
  <2>7. 1 \in 1..(L + 1) /\ \A n \in 1..L : n + 1 \in 1..(L + 1)
    OBVIOUS
  <2>8. ASSUME NEW j \in Z
        PROVE  /\ ~Clean(j) /\ OneCopy(j)' /\ Held(j)'
               /\ \A b \in Served :
                    /\ ~PastedInv(b, j)
                    /\ (Pasted(b, j) \/ Boxed(b, j) \/ Running(b, j))'
                         => j \in Used /\ mail[j].to = b
    <3>1. j \in Rows /\ Pasted(a, j) /\ Armed(a, j)
      BY <1>8, <2>4, <2>6, <2>7 DEF Pasted, Armed
    <3>2. OneCopy(j) /\ Held(j) /\ j \in Used /\ mail[j].to = a
      BY <1>1, <3>1 DEF CopyInv, PlaceInv
    <3>3. /\ got[j] = 0 /\ ~Refused(j) /\ ~Boxed(a, j) /\ ~Running(a, j)
          /\ mail[j].state \notin Withdrawn /\ ~Clean(j) /\ \A b \in Served : ~PastedInv(b, j)
      <4>1. got[j] = 0 /\ ~Refused(j) /\ ~Boxed(a, j) /\ ~Running(a, j)
        BY <3>1, <3>2 DEF OneCopy
      <4>2. mail[j].state \notin Withdrawn
        BY <3>1, <3>2 DEF Held, Unsent
      <4> QED BY <3>1, <4>1, <4>2 DEF Clean, PastedInv
    <3>4. \A b \in Served \ {a} : ~Pasted(b, j) /\ ~Boxed(b, j) /\ ~Running(b, j)
      BY <1>1, <3>1, <3>2, OnlyAt
    <3>5. ~Pasted(a, j)'
      <4>1. \A n \in 1..L : tty'[a][n] # j
        BY <1>1, <2>4, <2>6, <2>7 DEF Unique
      <4> QED BY <2>1, <2>2, <2>6, <4>1 DEF Pasted
    <3>6. \A b \in Served : (~Pasted(b, j) /\ ~Boxed(b, j) /\ ~Running(b, j))'
      BY <2>3, <3>1, <3>3, <3>4, <3>5
    <3>7. got'[j] = 1 /\ ~Refused(j)'
      BY <1>8, <2>3, <2>4, <3>1, <3>3
    <3>8. OneCopy(j)'
      BY <3>6, <3>7 DEF OneCopy
    <3>9. Held(j)'
      BY <1>2, <3>3, <3>7 DEF Held
    <3> QED BY <3>3, <3>6, <3>8, <3>9
  <2> QED BY <1>2, <1>3, <2>3, <2>5, <2>8, SessionKeeps
<1> QED BY <1>6, <1>7, <1>8 DEF ReadTty

LEMMA SessionStepKeeps ==
  ASSUME Inv, NEW a \in Served, Session(a)
  PROVE  CopyInv'
BY ReadTtyKeeps, TurnKeeps, LoseKeeps, ReadInboxKeeps, MoveKeeps, RefuseKeeps DEF Session

-----------------------------------------------------------------------------
(* The ends.                                                               *)

LEMMA StopKeeps ==
  ASSUME Inv, NEW a \in Served, NEW d \in Delivery, Goto(a, d),
         d.at \in {"retiring", "killing", "stopping"}, StopDelivery(a),
         UNCHANGED <<engine, job, tty, cc, got, hints, receipts>>
  PROVE  CopyInv'
<1>0. PICK i : i = sup[a].row
  OBVIOUS
<1>1. MoreTypes /\ TypeOK /\ SupInv(a) /\ sup'[a] = d /\ d.at \in Resting
  BY GotoType DEF Inv, CopyInv, Resting
<1>2. Quiet(a)'
  BY <1>1 DEF Quiet
<1>3. CASE At(a, "pasted") /\ MailWrite(Requeue(i, 0))
  <2>1. PastedInv(a, i) /\ i \in Rows
    BY <1>0, <1>1, <1>3 DEF SupInv, PastedInv, Used
  <2> QED BY <1>1, <1>2, <1>3, <2>1, RestPasted
<1>4. CASE /\ sup[a].at \in {"submitted", "sending"} \union Awaiting
           /\ MailWrite(Mark(i, "uncertain"))
  <2>1. i \in Used /\ mail[i].to = a
    BY <1>0, <1>1, <1>4 DEF SupInv, SendingInv, At
  <2> QED BY <1>1, <1>2, <1>4, <2>1, RestUncertain
<1>5. CASE Skip
  <2>1. PICK X, F, E : X = {} /\ F = {} /\ E = {}
    OBVIOUS
  <2>2. /\ Shifts(X, F, E) /\ \A j \in X : j \in Used => mail[j].to = a
        /\ \A j \in F \intersect Rows : Unsent(j)'
        /\ \A j \in E \intersect Rows : mail[j].via # "pty" => got[j] = 1
    BY <1>1, <1>5, <2>1, SkipWrite
  <2> QED BY <1>1, <1>2, <2>2, RestStep
<1>6. \/ At(a, "pasted") /\ MailWrite(Requeue(i, 0))
      \/ /\ sup[a].at \in {"submitted", "sending"} \union Awaiting
         /\ MailWrite(Mark(i, "uncertain"))
      \/ Skip
  BY <1>0 DEF StopDelivery, At
<1> QED BY <1>3, <1>4, <1>5, <1>6

\* The agent is over, its session killed or not.
LEMMA OverKeeps ==
  ASSUME Inv, NEW a \in Served, Goto(a, Off), Killed(a),
         UNCHANGED <<engine, job, got, hints, receipts>>,
         NEW X, Shifts(X, {}, {}), \A j \in X : j \in Used => mail[j].to = a
  PROVE  CopyInv'
<1>1. MoreTypes /\ CopyInv
  BY DEF Inv
<1>2. Off \in Delivery /\ Off.at = "off" /\ Dead.box = {} /\ Dead.inbox = {}
  BY DEF Off, Delivery, Phase, Dead
<1>3. Local(a) /\ sup'[a] = Off
  BY <1>1, <1>2, GotoLocal
<1>4. Quiet(a)'
  BY <1>2, <1>3 DEF Quiet
<1>5. SupInv(a)'
  BY <1>2, <1>3, FreePhase
<1>6. \A b \in Served : /\ cc'[b].box \subseteq cc[b].box /\ cc'[b].inbox \subseteq cc[b].inbox
                        /\ tty'[b] = tty[b] \/ tty'[b] = <<>>
  BY <1>1, <1>2 DEF Killed, MoreTypes
<1>7. Vanish
  BY <1>6 DEF Vanish
<1>8. PICK F, E : F = {} /\ E = {}
  OBVIOUS
<1>9. /\ Shifts(X, F, E)
      /\ \A j \in F \intersect Rows : Unsent(j)'
      /\ \A j \in E \intersect Rows : mail[j].via # "pty" => got[j] = 1
  BY <1>8
<1> QED BY <1>1, <1>3, <1>4, <1>5, <1>7, <1>9, LocalStep

LEMMA EndingKeeps ==
  ASSUME Inv, NEW a \in Served, Ending(a) \/ Retire(a) \/ Shutdown(a)
  PROVE  CopyInv'
<1>0. PICK i : i = sup[a].row
  OBVIOUS
<1>1. MoreTypes /\ TypeOK /\ SupInv(a)
  BY DEF Inv, CopyInv
<1>2. \A ph \in {"retiring", "killing", "stopping"} :
        OffTo(ph) \in Delivery /\ OffTo(ph).at = ph /\ OffTo(ph).at \in Resting
  BY OffType DEF Phase, Resting
<1>3. CASE Retire(a)
  <2>1. PICK d \in Delivery : d = OffTo("retiring") /\ d.at = "retiring"
    BY <1>2
  <2>2. /\ Goto(a, d) /\ StopDelivery(a)
        /\ UNCHANGED <<engine, job, tty, cc, got, hints, receipts>>
    BY <1>3, <2>1 DEF Retire, OffTo
  <2> QED BY <2>1, <2>2, StopKeeps
<1>4. CASE Shutdown(a)
  <2>1. PICK d \in Delivery : d = OffTo("stopping") /\ d.at = "stopping"
    BY <1>2
  <2>2. /\ Goto(a, d) /\ StopDelivery(a)
        /\ UNCHANGED <<engine, job, tty, cc, got, hints, receipts>>
    BY <1>4, <2>1 DEF Shutdown, OffTo
  <2> QED BY <2>1, <2>2, StopKeeps
<1>5. CASE End(a)
  <2>1. a \in Agents
    BY DeliveryConstants
  <2>2. PICK X : X = {j \in Used : mail[j].to = a}
    OBVIOUS
  <2>3. Shifts(X, {}, {})
    <3>1. CASE Skip
      <4>1. Shifts({}, {}, {})
        BY <1>1, <3>1, SkipWrite
      <4> QED BY <4>1, MovesWiden
    <3>2. CASE AgentEnd(a)
      BY <1>1, <2>1, <2>2, <3>2, AgentEndMoves, LedgerConstants
    <3> QED BY <1>5, <3>1, <3>2 DEF End, MailWrite
  <2>4. \A j \in X : j \in Used => mail[j].to = a
    BY <2>2
  <2>5. Goto(a, Off) /\ Killed(a) /\ UNCHANGED <<engine, job, got, hints, receipts>>
    BY <1>5 DEF End
  <2> QED BY <2>3, <2>4, <2>5, OverKeeps
<1>6. CASE ShutdownKill(a)
  <2>1. PICK X : X = {}
    OBVIOUS
  <2>2. Shifts(X, {}, {}) /\ \A j \in X : j \in Used => mail[j].to = a
    BY <1>1, <1>6, <2>1, SkipMoves DEF ShutdownKill
  <2>3. Goto(a, Off) /\ Killed(a) /\ UNCHANGED <<engine, job, got, hints, receipts>>
    BY <1>6 DEF ShutdownKill
  <2> QED BY <2>2, <2>3, OverKeeps
<1>7. CASE DrainKill(a)
  <2>1. Goto(a, Off) /\ Killed(a) /\ UNCHANGED <<engine, job, got, hints, receipts>>
    BY <1>7 DEF DrainKill
  <2>2. \/ Skip
        \/ \E j \in Used : mail[j].to = a /\ MailWrite(Mark(j, "uncertain"))
    BY <1>7 DEF DrainKill
  <2>3. CASE Skip
    <3>1. PICK X : X = {}
      OBVIOUS
    <3>2. Shifts(X, {}, {}) /\ \A j \in X : j \in Used => mail[j].to = a
      BY <1>1, <2>3, <3>1, SkipWrite
    <3> QED BY <2>1, <3>2, OverKeeps
  <2>4. CASE \E j \in Used : mail[j].to = a /\ MailWrite(Mark(j, "uncertain"))
    <3>1. PICK j \in Used : mail[j].to = a /\ MailWrite(Mark(j, "uncertain"))
      BY <2>4
    <3>2. PICK X : X = {j}
      OBVIOUS
    <3>3. Shifts(X, {}, {}) /\ \A k \in X : k \in Used => mail[k].to = a
      BY <1>1, <3>1, <3>2, MarkWrite DEF Marks, Used
    <3> QED BY <2>1, <3>3, OverKeeps
  <2> QED BY <2>2, <2>3, <2>4
<1>8. CASE DrainStop(a)
  <2>1. PICK d \in Delivery : d = OffTo("killing") /\ d.at = "killing" /\ d.at \in Resting
    BY <1>2
  <2>2. Goto(a, d) /\ UNCHANGED <<engine, tty, cc, got, hints, receipts>>
    BY <1>8, <2>1 DEF DrainStop, OffTo
  <2>3. sup[a].at \in {"sending"} \union Awaiting => ~Quiet(a)
    BY <1>1, RestPhases
  <2>4. CASE At(a, "sending")
    <3>1. /\ job' = [job EXCEPT ![a] = IF job[a].out = "running" THEN job[a] ELSE NoJob]
          /\ \/ job[a].out \in {"notsent", "blocked"} /\ MailWrite(Requeue(i, 0))
             \/ Skip
      BY <1>0, <1>1, <1>8, <2>4 DEF DrainStop, MoreTypes
    <3>2. job' = job \/ job' = [job EXCEPT ![a] = NoJob]
      BY <1>1, <3>1 DEF MoreTypes
    <3>3. SendingInv(a, i)
      BY <1>0, <1>1, <2>4 DEF SupInv
    <3>4. CASE Skip
      <4>1. UNCHANGED mail
        BY <3>4 DEF Skip
      <4> QED BY <2>1, <2>2, <2>3, <2>4, <3>2, <4>1, RestSkip DEF At
    <3>5. CASE job[a].out \in {"notsent", "blocked"} /\ MailWrite(Requeue(i, 0))
      <4>1. i \in Used /\ mail[i].to = a /\ Clean(i)
        BY <3>3, <3>5 DEF SendingInv
      <4> QED BY <2>1, <2>2, <2>3, <2>4, <3>2, <3>5, <4>1, RestClean DEF At
    <3> QED BY <3>1, <3>4, <3>5
  <2>5. CASE ~At(a, "sending")
    <3>1. job' = job /\ IF sup[a].at \in Awaiting THEN Skip ELSE StopDelivery(a)
      BY <1>8, <2>5 DEF DrainStop
    <3>2. CASE sup[a].at \in Awaiting
      <4>1. UNCHANGED mail
        BY <3>1, <3>2 DEF Skip
      <4> QED BY <2>1, <2>2, <2>3, <3>1, <3>2, <4>1, RestSkip
    <3>3. CASE sup[a].at \notin Awaiting
      BY <2>1, <2>2, <3>1, <3>3, StopKeeps
    <3> QED BY <3>2, <3>3
  <2> QED BY <2>4, <2>5
<1> QED BY <1>3, <1>4, <1>5, <1>6, <1>7, <1>8 DEF Ending

-----------------------------------------------------------------------------
(* What comes back, the users, and the engine's start and end.             *)

\* A step of none of the supervisors.
LEMMA AsideStep ==
  ASSUME CopyInv, NEW X, NEW F, NEW E, Shifts(X, F, E), Vanish, QuietStays,
         UNCHANGED <<sup, job>>,
         \A i \in X : \A b \in Served : sup[b].row = i => sup[b].at \notin {"taken", "pasted"},
         \A i \in F \intersect Rows : Unsent(i)',
         \A i \in E \intersect Rows : mail[i].via # "pty" => got[i] = 1
  PROVE  CopyInv'
<1>1. ASSUME NEW b \in Served
      PROVE  SupInv(b)'
  <2>1. SupInv(b) /\ Fades(sup[b].row)
    BY VanishFades DEF CopyInv
  <2>2. /\ sup'[b].at = sup[b].at /\ sup'[b].row = sup[b].row /\ sup'[b].gate = sup[b].gate
        /\ job'[b] = job[b]
        /\ sup[b].at \in {"taken", "pasted"} \/ (At(b, "sending") /\ Clean(sup[b].row))
             => Fades(sup[b].row)
        /\ sup[b].row \in X => sup[b].at \notin {"taken", "pasted"}
    BY <2>1
  <2> QED BY <2>1, <2>2, SupStays
<1> QED BY <1>1, VanishStep

LEMMA SameQuiet ==
  ASSUME UNCHANGED <<engine, sup>>
  PROVE  QuietStays
BY DEF QuietStays, Quiet, At

LEMMA UserKeeps ==
  ASSUME Inv, User
  PROVE  CopyInv' /\ MoreTypes'
<1>1. TypeOK /\ MoreTypes /\ CopyInv /\ UNCHANGED deliveryVars
  BY DEF Inv, User
<1>2. UNCHANGED <<engine, sup, job, tty, cc, got, hints, receipts, notes>>
  BY <1>1 DEF deliveryVars
<1>3. MoreTypes'
  BY <1>1, <1>2 DEF MoreTypes
<1>4. Vanish /\ QuietStays
  BY <1>2, StillVanish, SameQuiet
<1>5. ASSUME Shifts({}, {}, {})
      PROVE  CopyInv'
  <2>1. PICK X, F, E : X = {} /\ F = {} /\ E = {}
    OBVIOUS
  <2>2. /\ Shifts(X, F, E)
        /\ \A i \in X : \A b \in Served : sup[b].row = i => sup[b].at \notin {"taken", "pasted"}
        /\ \A i \in F \intersect Rows : Unsent(i)'
        /\ \A i \in E \intersect Rows : mail[i].via # "pty" => got[i] = 1
    BY <1>5, <2>1
  <2> QED BY <1>1, <1>2, <1>4, <2>2, AsideStep
<1>6. ASSUME NEW p \in Agents \union People, NEW a \in Served, NEW b \in Bodies,
             Send(p, a, b, NoKey, NoRow)
      PROVE  CopyInv'
  <2>1. a \in Agents /\ NoKey \in Keys \union {NoKey} /\ NoRow \in Used \union {NoRow}
    BY DeliveryConstants
  <2>2. PICK i \in Rows \ Used, r \in Row : mail' = [mail EXCEPT ![i] = r] /\ r.state = "queued"
    BY <1>1, <1>6, <2>1, SentRow, LedgerConstants
  <2> QED BY <1>1, <1>5, <2>2, InsertMoves
<1>7. ASSUME NEW a \in Corrected \intersect Served, SystemMail(a)
      PROVE  CopyInv'
  <2>1. a \in Agents
    BY DeliveryConstants
  <2>2. PICK i \in Rows \ Used, r \in Row : mail' = [mail EXCEPT ![i] = r] /\ r.state = "queued"
    BY <1>1, <1>7, <2>1, CorrectionRow, LedgerConstants
  <2> QED BY <1>1, <1>5, <2>2, InsertMoves
<1>8. ASSUME NEW i \in Rows, Cancel(i)
      PROVE  CopyInv'
  <2>1. PICK X, F, E : X = {i} /\ F = {} /\ E = {}
    OBVIOUS
  <2>2. Shifts(X, F, E) /\ mail[i].state = "queued"
    BY <1>1, <1>8, <2>1, CancelMoves, LedgerConstants
  <2>3. \A b \in Served : sup[b].row = i => sup[b].at \notin {"taken", "pasted"}
    BY <1>1, <2>2 DEF CopyInv, SupInv, At, TakenInv, PastedInv, InFlight
  <2>4. /\ \A j \in X : \A b \in Served : sup[b].row = j => sup[b].at \notin {"taken", "pasted"}
        /\ \A j \in F \intersect Rows : Unsent(j)'
        /\ \A j \in E \intersect Rows : mail[j].via # "pty" => got[j] = 1
    BY <2>1, <2>3
  <2> QED BY <1>1, <1>2, <1>4, <2>2, <2>4, AsideStep
<1>9. ASSUME UNCHANGED mail
      PROVE  CopyInv'
  BY <1>1, <1>5, <1>9, SkipMoves
<1>10. \/ \E p \in Agents \union People, a \in Served, b \in Bodies : Send(p, a, b, NoKey, NoRow)
       \/ \E a \in Corrected \intersect Served : SystemMail(a)
       \/ \E i \in Rows : Cancel(i)
       \/ UNCHANGED mail
  BY DEF User, Pause, Tick
<1> QED BY <1>3, <1>6, <1>7, <1>8, <1>9, <1>10

\* A hint of a row comes from a context that received it.
LEMMA HintKeeps ==
  ASSUME Inv, NEW i \in Rows, Hint(i)
  PROVE  CopyInv' /\ MoreTypes'
<1>1. TypeOK /\ MoreTypes /\ CopyInv
  BY DEF Inv
<1>2. /\ UNCHANGED <<engine, sup, job, tty, cc, got, receipts, notes>> /\ hints' = hints \ {i}
      /\ i \in hints /\ (Evidence(i) \/ LateEvidence(i) \/ Skip)
  BY DEF Hint
<1>3. MoreTypes'
  BY <1>1, <1>2 DEF MoreTypes
<1>4. Vanish /\ QuietStays
  BY <1>2, SameQuiet DEF Vanish
<1>5. got[i] = 1
  BY <1>1, <1>2 DEF CopyInv, OneCopy
<1>6. PICK X, F, E : X = {i} /\ F = {} /\ E = {i}
  OBVIOUS
<1>7. Shifts(X, F, E)
  <2>1. CASE Skip
    <3>1. Shifts({}, {}, {})
      BY <1>1, <2>1, SkipWrite
    <3> QED BY <1>6, <3>1, MovesWiden
  <2>2. CASE Evidence(i) \/ LateEvidence(i)
    BY <1>1, <1>6, <2>2, EvidenceMoves, LedgerConstants
  <2> QED BY <1>2, <2>1, <2>2
<1>8. \A b \in Served : sup[b].row = i => sup[b].at \notin {"taken", "pasted"}
  BY <1>1, <1>5 DEF CopyInv, SupInv, At, TakenInv, PastedInv, Clean
<1>9. /\ \A j \in X : \A b \in Served : sup[b].row = j => sup[b].at \notin {"taken", "pasted"}
      /\ \A j \in F \intersect Rows : Unsent(j)'
      /\ \A j \in E \intersect Rows : mail[j].via # "pty" => got[j] = 1
  BY <1>5, <1>6, <1>8
<1>10. CopyInv'
  BY <1>1, <1>2, <1>4, <1>7, <1>9, AsideStep
<1> QED BY <1>3, <1>10

\* A refusal is all that is left of its row.
LEMMA ReceiptKeeps ==
  ASSUME Inv, NEW r \in receipts, Receipt(r)
  PROVE  CopyInv'
<1>0. PICK i : i = r.row
  OBVIOUS
<1>1. TypeOK /\ MoreTypes /\ CopyInv /\ Unique
  BY DEF Inv, CopyInv
<1>2. i \in Rows
  BY <1>0, <1>1 DEF MoreTypes, Report
<1>3. UNCHANGED <<engine, sup, job, tty, cc, got, hints>> /\ receipts' = receipts \ {r}
  BY DEF Receipt
<1>4. Vanish /\ QuietStays
  BY <1>3, SameQuiet DEF Vanish
<1>5. CASE Skip
  <2>1. PICK X, F, E : X = {} /\ F = {} /\ E = {}
    OBVIOUS
  <2>2. /\ Shifts(X, F, E)
        /\ \A j \in X : \A b \in Served : sup[b].row = j => sup[b].at \notin {"taken", "pasted"}
        /\ \A j \in F \intersect Rows : Unsent(j)'
        /\ \A j \in E \intersect Rows : mail[j].via # "pty" => got[j] = 1
    BY <1>1, <1>5, <2>1, SkipWrite
  <2> QED BY <1>1, <1>3, <1>4, <2>2, AsideStep
<1>6. CASE /\ r.kind \in Refusals
           /\ \/ \E w \in Backoffs : Requeue(i, now + w)
              \/ \E s \in Marks : Mark(i, s) /\ s # "delivered"
  <2>1. Refused(i) /\ OneCopy(i)
    BY <1>0, <1>1, <1>2, <1>6 DEF Refused, CopyInv
  <2>2. got[i] = 0 /\ \A b \in Served : ~Pasted(b, i) /\ ~Boxed(b, i) /\ ~Running(b, i)
    BY <2>1 DEF OneCopy
  <2>3. ~Refused(i)'
    BY <1>0, <1>1, <1>3, <1>6 DEF Refused, Unique
  <2>4. Clean(i)'
    BY <1>3, <2>2, <2>3 DEF Clean, Pasted, Boxed, Running
  <2>5. \A b \in Served : ~Armed(b, i)'
    <3>1. \A b \in Served : \A n \in DOMAIN tty[b] : \A m \in 1..n : m \in DOMAIN tty[b]
      <4>1. \A b \in Served : tty[b] \in Seq(Rows \union {Return})
        BY <1>1 DEF MoreTypes
      <4> QED BY <4>1
    <3> QED BY <1>3, <2>2, <3>1 DEF Armed, Pasted
  <2>6. Unsent(i)'
    BY <2>4, <2>5 DEF Clean, Unsent
  <2>7. PICK X, F, E : X = {i} /\ F = {i} /\ E = {}
    OBVIOUS
  <2>8. Shifts(X, F, E)
    <3>1. ASSUME NEW w \in Backoffs, Requeue(i, now + w)
          PROVE  Shifts({i}, {i}, {})
      <4>1. now + w \in Nat
        BY <1>1, LedgerConstants DEF TypeOK
      <4> QED BY <1>1, <1>2, <3>1, <4>1, RequeueMoves, LedgerConstants
    <3>2. ASSUME NEW s \in Marks, Mark(i, s), s # "delivered"
          PROVE  Shifts({i}, {i}, {})
      <4>1. CASE s = "uncertain"
        <5>1. Shifts({i}, {}, {})
          BY <1>1, <3>2, <4>1, MarkMoves, LedgerConstants
        <5> QED BY <5>1, MovesWiden
      <4>2. CASE s # "uncertain"
        BY <1>1, <3>2, <4>2, MarkMoves, LedgerConstants
      <4> QED BY <4>1, <4>2
    <3> QED BY <1>6, <2>7, <3>1, <3>2
  <2>9. \A b \in Served : sup[b].row = i => sup[b].at \notin {"taken", "pasted"}
    BY <1>1, <2>1 DEF CopyInv, SupInv, At, TakenInv, PastedInv, Clean
  <2>10. /\ \A j \in X : \A b \in Served : sup[b].row = j => sup[b].at \notin {"taken", "pasted"}
         /\ \A j \in F \intersect Rows : Unsent(j)'
         /\ \A j \in E \intersect Rows : mail[j].via # "pty" => got[j] = 1
    BY <2>6, <2>7, <2>9
  <2> QED BY <1>1, <1>3, <1>4, <2>8, <2>10, AsideStep
<1>7. \/ Skip
      \/ /\ r.kind \in Refusals
         /\ \/ \E w \in Backoffs : Requeue(i, now + w)
            \/ \E s \in Marks : Mark(i, s) /\ s # "delivered"
  <2> DEFINE as == CASE r.kind = "denied" -> "rejected" [] r.kind = "expired" -> "expired"
                     [] r.kind = "duplicate" -> "uncertain" [] OTHER -> "failed"
  <2>1. as \in Marks /\ as # "delivered"
    BY DEF Marks
  <2>2. \/ Skip
        \/ /\ r.kind \in Refusals
           /\ (\E w \in Backoffs : Requeue(i, now + w)) \/ Mark(i, as)
    BY <1>0 DEF Receipt
  <2> HIDE DEF as
  <2> QED BY <2>1, <2>2
<1> QED BY <1>5, <1>6, <1>7

LEMMA EngineKeeps ==
  ASSUME Inv, DrainOn \/ Stop \/ Start
  PROVE  CopyInv'
<1>1. TypeOK /\ MoreTypes /\ CopyInv
  BY DEF Inv
<1>2. PICK F, E : F = {} /\ E = {}
  OBVIOUS
<1>3. /\ \A i \in F \intersect Rows : Unsent(i)'
      /\ \A i \in E \intersect Rows : mail[i].via # "pty" => got[i] = 1
  BY <1>2
<1>4. CASE DrainOn
  <2>1. UNCHANGED <<mail, sup, job, tty, cc, got, hints, receipts>> /\ engine = "up"
        /\ engine' = "draining"
    BY <1>4 DEF DrainOn
  <2>2. PICK X : X = {}
    OBVIOUS
  <2>3. /\ Shifts(X, F, E)
        /\ \A i \in X : \A b \in Served : sup[b].row = i => sup[b].at \notin {"taken", "pasted"}
    BY <1>1, <1>2, <2>1, <2>2, SkipMoves
  <2>4. Vanish
    BY <2>1, StillVanish
  <2>5. QuietStays
    BY <2>1 DEF QuietStays, Quiet, At
  <2> QED BY <1>1, <1>3, <2>1, <2>3, <2>4, <2>5, AsideStep
<1>5. CASE Stop
  <2>1. /\ UNCHANGED <<mail, tty, cc, got, hints, receipts>>
        /\ \A a \in Served : sup'[a].at = "off" /\ job'[a].out = "none"
    BY <1>5 DEF Stop, Off, NoJob
  <2>2. PICK X : X = {}
    OBVIOUS
  <2>3. Shifts(X, F, E)
    BY <1>1, <1>2, <2>1, <2>2, SkipMoves
  <2>4. Vanish
    BY <2>1 DEF Vanish
  <2>5. QuietStays
    BY <2>1 DEF QuietStays, Quiet
  <2>6. \A a \in Served : SupInv(a)'
    BY <2>1, FreePhase
  <2> QED BY <1>1, <1>3, <2>3, <2>4, <2>5, <2>6, VanishStep
<1>6. CASE Start
  <2>1. /\ Boot /\ UNCHANGED <<job, got>> /\ hints' \subseteq hints /\ receipts' = {}
        /\ \A a \in Served : /\ sup'[a].at \in {"idle", "off"} /\ tty'[a] = <<>>
                             /\ cc'[a].box = {} /\ cc'[a].inbox = {}
    BY <1>6 DEF Start, Off, Idle, Fresh, Dead
  <2>2. PICK X : X = Used
    OBVIOUS
  <2>3. Shifts(X, F, E)
    BY <1>1, <1>2, <2>1, <2>2, BootMoves, LedgerConstants
  <2>4. Vanish
    BY <2>1 DEF Vanish
  <2>5. \A a \in Served, i \in Rows : ~Pasted(a, i)'
    <3>1. \A a \in Served : DOMAIN tty'[a] = {}
      BY <2>1
    <3> QED BY <2>1, <3>1 DEF Pasted
  <2>6. QuietStays
    BY <2>5 DEF QuietStays
  <2>7. \A a \in Served : SupInv(a)'
    BY <2>1, FreePhase
  <2> QED BY <1>1, <1>3, <2>3, <2>4, <2>6, <2>7, VanishStep
<1> QED BY <1>4, <1>5, <1>6

-----------------------------------------------------------------------------
(* The invariant holds of every reachable state.                           *)

LEMMA InvInit ==
  ASSUME DeliveryInit
  PROVE  Inv
<1>1. TypeOK /\ Used = {} /\ MoreTypes
  BY LedgerConstants, InitState, InitTypes DEF DeliveryInit
<1>2. /\ got = [i \in Rows |-> 0] /\ hints = {} /\ receipts = {}
      /\ \A a \in Served : /\ sup[a].at = "idle" /\ job[a].out = "none" /\ tty[a] = <<>>
                           /\ cc[a].box = {} /\ cc[a].inbox = {}
  BY DEF DeliveryInit, Idle, Off, NoJob, Fresh
<1>3. \A a \in Served : DOMAIN tty[a] = {}
  BY <1>2
<1>4. \A a \in Served, i \in Rows :
        ~Pasted(a, i) /\ ~Boxed(a, i) /\ ~Running(a, i) /\ ~Armed(a, i)
  BY <1>2, <1>3 DEF Pasted, Boxed, Running, Armed
<1>5. \A i \in Rows : mail[i].state = Free /\ got[i] = 0 /\ ~Refused(i)
  BY <1>1, <1>2 DEF Used, Refused
<1>6. \A i \in Rows : OneCopy(i) /\ Held(i)
  BY <1>2, <1>4, <1>5 DEF OneCopy, Held, Unsent, Free
<1>7. PlaceInv /\ Unique
  BY <1>2, <1>3, <1>4 DEF PlaceInv, Unique
<1>8. \A a \in Served : SupInv(a)
  BY <1>2 DEF SupInv, At, Awaiting
<1> QED BY <1>1, <1>6, <1>7, <1>8 DEF Inv, CopyInv

LEMMA InvStep ==
  ASSUME Inv, [DeliveryNext]_allVars
  PROVE  Inv'
<1>1. TypeOK /\ MoreTypes /\ CopyInv
  BY DEF Inv
<1>2. TypeOK'
  BY <1>1, LedgerConstants, DeliveryStepIsLedger, NextStep DEF StepOK
<1>3. ASSUME User
      PROVE  CopyInv' /\ MoreTypes'
  BY <1>3, UserKeeps
<1>4. ASSUME NEW a \in Served, Supervisor(a)
      PROVE  CopyInv' /\ MoreTypes'
  BY <1>1, <1>4, SupervisorKeeps, SupervisorTypes
<1>5. ASSUME NEW a \in Served, SocketJob(a)
      PROVE  CopyInv' /\ MoreTypes'
  <2>1. job[a].row \in Rows
    BY <1>1, <1>5 DEF SocketJob, CopyInv, PlaceInv
  <2> QED BY <1>1, <1>5, <2>1, SocketJobKeeps, SocketJobTypes
<1>6. ASSUME NEW a \in Served, Session(a)
      PROVE  CopyInv' /\ MoreTypes'
  BY <1>1, <1>6, SessionStepKeeps, SessionStepTypes
<1>7. ASSUME NEW a \in Served, Retire(a) \/ Shutdown(a) \/ Ending(a)
      PROVE  CopyInv' /\ MoreTypes'
  BY <1>1, <1>7, EndingKeeps, EndingTypes
<1>8. ASSUME NEW i \in Rows, Hint(i)
      PROVE  CopyInv' /\ MoreTypes'
  BY <1>8, HintKeeps
<1>9. ASSUME NEW r \in receipts, Receipt(r)
      PROVE  CopyInv' /\ MoreTypes'
  BY <1>1, <1>9, ReceiptKeeps, ReceiptTypes
<1>10. ASSUME DrainOn \/ Stop \/ Start
       PROVE  CopyInv' /\ MoreTypes'
  BY <1>1, <1>10, EngineKeeps, EngineTypes
<1>11. ASSUME UNCHANGED allVars
       PROVE  CopyInv' /\ MoreTypes'
  <2>1. UNCHANGED <<mail, engine, sup, job, tty, cc, got, hints, receipts, notes>>
    BY <1>11 DEF allVars
  <2>2. MoreTypes'
    BY <1>1, <2>1 DEF MoreTypes
  <2>3. PICK X, F, E : X = {} /\ F = {} /\ E = {}
    OBVIOUS
  <2>4. /\ Shifts(X, F, E)
        /\ \A i \in X : \A b \in Served : sup[b].row = i => sup[b].at \notin {"taken", "pasted"}
        /\ \A i \in F \intersect Rows : Unsent(i)'
        /\ \A i \in E \intersect Rows : mail[i].via # "pty" => got[i] = 1
    BY <1>1, <2>1, <2>3, SkipMoves
  <2>5. Vanish /\ QuietStays
    BY <2>1, StillVanish, SameQuiet
  <2>6. CopyInv'
    BY <1>1, <2>1, <2>4, <2>5, AsideStep
  <2> QED BY <2>2, <2>6
<1>12. CopyInv' /\ MoreTypes'
  BY <1>3, <1>4, <1>5, <1>6, <1>7, <1>8, <1>9, <1>10, <1>11 DEF DeliveryNext
<1> QED BY <1>2, <1>12 DEF Inv

LEMMA Invariant == DeliverySpec => []Inv
<1>1. DeliveryInit => Inv
  BY InvInit
<1>2. Inv /\ [DeliveryNext]_allVars => Inv'
  BY InvStep
<1> QED BY <1>1, <1>2, PTL DEF DeliverySpec

LEMMA InvWithheld ==
  ASSUME Inv
  PROVE  Withheld
<1>1. CopyInv
  BY DEF Inv
<1> SUFFICES ASSUME NEW i \in Used, mail[i].state \in Withdrawn
             PROVE  got[i] = 0 /\ ~MayArrive(i)
  BY DEF Withheld, Withdrawn
<1>2. Unsent(i)
  BY <1>1 DEF CopyInv, Held, Used
<1> QED BY <1>2 DEF Unsent, MayArrive, Boxed, Running, Armed

\* What the ledger calls not delivered was not, and cannot be any more, for
\* every number of agents and rows, every mix of retries, receipts, drains,
\* crashes and restarts, and every order of a hook, a receipt and a deadline
\* (stop_delivery and drain_delivery requeue only what was not submitted,
\* retry_socket only what was not written).
THEOREM WithheldForGood == DeliverySpec => []Withheld
<1>1. Inv => Withheld
  BY InvWithheld
<1> QED BY <1>1, Invariant, PTL

\* What the socket route says of a message is so: delivered only after a
\* context read it, withdrawn only when none did (cc_listener's apply, the
\* evidence of hooks and transcripts).
THEOREM SocketAlwaysTrue == DeliverySpec => []SocketIsTrue
<1>1. Inv => SocketIsTrue
  <2> SUFFICES ASSUME Inv
               PROVE  SocketIsTrue
    OBVIOUS
  <2>1. DeliveryTypeOK /\ Withheld
    BY TypesTogether, InvWithheld DEF Inv
  <2>2. SocketDelivered
    BY DEF SocketDelivered, Inv, CopyInv, Held, Used
  <2> QED BY <2>1, <2>2 DEF SocketIsTrue
<1> QED BY <1>1, Invariant, PTL

-----------------------------------------------------------------------------
(* The promise, of each row.                                               *)

Fates == {"open", "delivered", "uncertain", "withdrawn"}

LEMMA FateOfState ==
  ASSUME NEW s \in MsgState \union {Free}
  PROVE  /\ FateOf(s) \in Fates
         /\ FateOf(s) = "open" <=> s \in {Free, "queued", "delivering"}
         /\ FateOf(s) = "delivered" <=> s = "delivered"
         /\ FateOf(s) = "uncertain" <=> s = "uncertain"
BY DEF FateOf, Fates, MsgState, Free

\* A context receives a row in two steps only, each at most once per row.
Receives ==
  \/ got' = got
  \/ /\ mail' = mail
     /\ \A i \in Rows : got'[i] = got[i] \/ (got[i] = 0 /\ got'[i] = 1 /\ ~Unsent(i))

LEMMA StepReceives ==
  ASSUME Inv, [DeliveryNext]_allVars
  PROVE  Receives
<1>1. MoreTypes /\ CopyInv
  BY DEF Inv
<1>2. CASE got' = got
  BY <1>2 DEF Receives
<1>3. ASSUME NEW a \in Served, ReadTty(a), got' # got
      PROVE  Receives
  <2>1. /\ mail' = mail /\ tty[a] # <<>> /\ Head(tty[a]) = Return
        /\ got' = [i \in Rows |-> IF i \in cc[a].box THEN got[i] + 1 ELSE got[i]]
    BY <1>3 DEF ReadTty
  <2>2. ASSUME NEW i \in Rows, i \in cc[a].box
        PROVE  got[i] = 0 /\ ~Unsent(i)
    <3>1. Pasted(a, i)
      BY <2>2 DEF Pasted
    <3>2. got[i] = 0
      BY <1>1, <3>1 DEF CopyInv, OneCopy
    <3>3. tty[a] \in Seq(Rows \union {Return})
      BY <1>1 DEF MoreTypes
    <3>4. 1 \in DOMAIN tty[a] /\ tty[a][1] = Return
      BY <2>1, <3>3
    <3>5. Armed(a, i)
      BY <2>2, <3>4 DEF Armed
    <3> QED BY <3>2, <3>5 DEF Unsent
  <2>3. \A i \in Rows : got'[i] = got[i] \/ (got[i] = 0 /\ got'[i] = 1 /\ ~Unsent(i))
    BY <2>1, <2>2
  <2> QED BY <2>1, <2>3 DEF Receives
<1>4. ASSUME NEW a \in Served, NEW m \in cc[a].inbox, ReadInbox(a, m)
      PROVE  Receives
  <2>1. mail' = mail /\ got' = [got EXCEPT ![m.row] = @ + 1]
    BY <1>4 DEF ReadInbox
  <2>2. m.row \in Rows /\ got \in [Rows -> Nat]
    BY <1>1, MessageType DEF MoreTypes
  <2>3. Boxed(a, m.row)
    BY DEF Boxed
  <2>4. got[m.row] = 0 /\ ~Unsent(m.row)
    BY <1>1, <2>2, <2>3 DEF CopyInv, OneCopy, Unsent
  <2>5. \A i \in Rows : got'[i] = got[i] \/ (got[i] = 0 /\ got'[i] = 1 /\ ~Unsent(i))
    BY <2>1, <2>2, <2>4
  <2> QED BY <2>1, <2>5 DEF Receives
<1>5. ASSUME NEW a \in Served, Session(a), got' # got
      PROVE  Receives
  BY <1>3, <1>4, <1>5
     DEF Session, TurnStart, TurnEnd, ClearBox, Die, Lose, Move, Refuse
<1>6. ASSUME NEW a \in Served, Supervisor(a)
      PROVE  got' = got
  BY <1>6 DEF Supervisor, Adopt, Choose, TakeChosen, Paste, Submit, PasteTimeout, Settled,
              Confirm, Unhold, StartSocket, SocketResult, ReadNote, Overdue, GiveUp
<1>7. ASSUME NEW a \in Served, SocketJob(a) \/ Retire(a) \/ Shutdown(a) \/ Ending(a)
      PROVE  got' = got
  BY <1>7 DEF SocketJob, Retire, Shutdown, Ending, End, ShutdownKill, DrainStop, DrainKill
<1>8. User \/ DrainOn \/ Stop \/ Start \/ UNCHANGED allVars => got' = got
  BY DEF User, deliveryVars, DrainOn, Stop, Start, allVars
<1>9. (\E i \in Rows : Hint(i)) \/ (\E r \in receipts : Receipt(r)) => got' = got
  BY DEF Hint, Receipt
<1> QED BY <1>2, <1>5, <1>6, <1>7, <1>8, <1>9 DEF DeliveryNext

LEMMA RowKeepsPromise ==
  ASSUME Inv, Inv', StepOK, Receives, NEW i \in Rows
  PROVE  \/ Promise!Received(i) \/ Promise!Attempted(i)
         \/ Promise!Settled(i) \/ Promise!Unmoved(i)
<1> DEFINE f  == FateOf(mail[i].state)
           f1 == FateOf(mail'[i].state)
           b  == i \in {j \in Rows : mail[j].via = "pty"}
           b1 == i \in {j \in Rows : mail'[j].via = "pty"}
<1>1. /\ mail[i].state \in MsgState \union {Free}
      /\ mail'[i].state \in MsgState \union {Free}
  <2>1. TypeOK /\ TypeOK'
    BY DEF Inv
  <2>2. mail[i] \in Row /\ mail'[i] \in Row
    BY <2>1 DEF TypeOK
  <2> QED BY <2>2 DEF Row
<1>2. /\ b <=> mail[i].via = "pty"
      /\ b1 <=> mail'[i].via = "pty"
  OBVIOUS
<1>3. /\ Promise!Received(i) <=> /\ f # "withdrawn" /\ got[i] = 0
                                /\ got'[i] = 1 /\ f1 = f /\ (b1 <=> b)
      /\ Promise!Attempted(i) <=> f = "open" /\ got[i] = 0 /\ f1 = "open" /\ got'[i] = got[i]
      /\ Promise!Settled(i) <=>
           /\ got'[i] = got[i] /\ (b1 <=> b)
           /\ \/ f = "open" /\ f1 = "uncertain"
              \/ f = "open" /\ got[i] = 0 /\ f1 = "withdrawn"
              \/ f \in {"open", "uncertain"} /\ f1 = "delivered" /\ (got[i] = 1 \/ b)
      /\ Promise!Unmoved(i) <=> f1 = f /\ got'[i] = got[i] /\ (b1 <=> b)
  BY DEF Promise!Received, Promise!Attempted, Promise!Settled, Promise!Unmoved
<1>4. /\ f \in Fates /\ f1 \in Fates
      /\ f = "open" <=> mail[i].state \in {Free, "queued", "delivering"}
      /\ f1 = "open" <=> mail'[i].state \in {Free, "queued", "delivering"}
      /\ f = "delivered" <=> mail[i].state = "delivered"
      /\ f1 = "delivered" <=> mail'[i].state = "delivered"
      /\ f = "uncertain" <=> mail[i].state = "uncertain"
  BY <1>1, FateOfState
<1>5. /\ mail[i].state \in Withdrawn => Unsent(i) /\ got[i] = 0
      /\ mail'[i].state \in Withdrawn => got'[i] = 0
      /\ mail'[i].state = "delivered" /\ mail'[i].via # "pty" => got'[i] = 1
  BY DEF Inv, CopyInv, Held, Unsent
<1> HIDE DEF f, f1, b, b1
<1>6. CASE got'[i] # got[i]
  <2>1. mail' = mail /\ got[i] = 0 /\ got'[i] = 1 /\ ~Unsent(i)
    BY <1>6 DEF Receives
  <2>2. f1 = f /\ (b1 <=> b)
    BY <2>1 DEF f, f1, b, b1
  <2>3. f # "withdrawn"
    BY <1>1, <1>5, <2>1 DEF f, FateOf, Withdrawn, MsgState, Free
  <2> QED BY <1>3, <2>1, <2>2, <2>3
<1>7. CASE got'[i] = got[i] /\ i \notin Used
  <2>1. mail[i].state = Free /\ mail'[i].state \in {Free, "queued"}
    BY <1>7 DEF Used, StepOK
  <2>2. f = "open" /\ f1 = "open" /\ got[i] = 0
    BY <1>4, <1>5, <2>1 DEF Withdrawn
  <2> QED BY <1>3, <1>7, <2>2
<1>8. CASE got'[i] = got[i] /\ i \in Used /\ mail'[i].via # mail[i].via
  <2>1. mail[i].state = "queued" /\ mail'[i].state = "delivering"
    BY <1>8 DEF StepOK
  <2>2. f = "open" /\ f1 = "open" /\ got[i] = 0
    BY <1>4, <1>5, <2>1 DEF Withdrawn
  <2> QED BY <1>3, <1>8, <2>2
<1>9. CASE got'[i] = got[i] /\ i \in Used /\ mail'[i].via = mail[i].via
  <2>1. b1 <=> b
    BY <1>2, <1>9
  <2>2. CASE f1 = f
    BY <1>3, <1>9, <2>1, <2>2
  <2>3. CASE f1 # f /\ f = "open"
    <3>1. f1 = "withdrawn" => got[i] = 0
      BY <1>1, <1>5, <1>9 DEF f1, FateOf, Withdrawn, MsgState, Free
    <3>2. f1 = "delivered" => got[i] = 1 \/ b
      BY <1>2, <1>4, <1>5, <1>9
    <3> QED BY <1>3, <1>4, <1>9, <2>1, <2>3, <3>1, <3>2 DEF Fates
  <2>4. CASE f1 # f /\ f # "open"
    <3>1. mail[i].state \notin Open /\ mail'[i].state # mail[i].state
      BY <1>4, <2>4 DEF f, f1, Open
    <3>2. mail[i].state = "uncertain" /\ mail'[i].state = "delivered"
      BY <1>9, <3>1 DEF StepOK
    <3>3. f = "uncertain" /\ f1 = "delivered"
      BY <1>4, <3>2
    <3>4. got[i] = 1 \/ b
      BY <1>2, <1>5, <1>9, <3>2
    <3> QED BY <1>3, <1>9, <2>1, <3>3, <3>4
  <2> QED BY <2>2, <2>3, <2>4
<1> QED BY <1>6, <1>7, <1>8, <1>9

LEMMA BlankIsFree == BlankRow.state = Free /\ BlankRow.via = "none"
BY DEF BlankRow, NewRow

\* A message is received at most once and never after the ledger called it
\* not delivered, and nothing is called delivered for no reason: the delivery
\* implements MailPromise, whatever the session loses, swallows or reorders.
THEOREM PromiseIsKept == DeliverySpec => KeepsPromise
<1>1. DeliveryInit => Promise!PromiseInit
  <2> SUFFICES ASSUME DeliveryInit
               PROVE  Promise!PromiseInit
    OBVIOUS
  <2>1. Inv /\ \A i \in Rows : mail[i].state = Free /\ mail[i].via = "none"
    <3>1. \A i \in Rows : mail[i] = BlankRow
      BY DEF DeliveryInit, Init
    <3> QED BY <3>1, InvInit, BlankIsFree
  <2>2. [i \in Rows |-> FateOf(mail[i].state)] = [i \in Rows |-> "open"]
    <3>1. FateOf(Free) = "open"
      BY DEF FateOf, Free
    <3> QED BY <2>1, <3>1
  <2>3. {i \in Rows : mail[i].via = "pty"} = {}
    BY <2>1
  <2> QED BY <2>2, <2>3 DEF Promise!PromiseInit, DeliveryInit
<1>2. Inv /\ Inv' /\ [DeliveryNext]_allVars => [Promise!PromiseNext]_(Promise!promiseVars)
  <2> SUFFICES ASSUME Inv, Inv', [DeliveryNext]_allVars
               PROVE  Promise!PromiseNext
    OBVIOUS
  <2>1. StepOK
    BY LedgerConstants, DeliveryStepIsLedger, NextStep DEF Inv
  <2>2. \A i \in Rows : \/ Promise!Received(i) \/ Promise!Attempted(i)
                        \/ Promise!Settled(i) \/ Promise!Unmoved(i)
    BY <2>1, StepReceives, RowKeepsPromise
  <2>3. [i \in Rows |-> FateOf(mail'[i].state)] \in [Rows -> Fates]
    <3>1. \A i \in Rows : mail'[i].state \in MsgState \union {Free}
      <4>1. TypeOK'
        BY DEF Inv
      <4>2. \A i \in Rows : mail'[i] \in Row
        BY <4>1 DEF TypeOK
      <4> QED BY <4>2 DEF Row
    <3> QED BY <3>1, FateOfState
  <2> QED BY <2>2, <2>3 DEF Promise!PromiseNext, Promise!Fate, Fates
<1> QED BY <1>1, <1>2, Invariant, PTL DEF DeliverySpec, KeepsPromise, Promise!PromiseSpec

-----------------------------------------------------------------------------
(* A message in flight is in hand.                                         *)

\* A step of the ledger that puts no row into flight.
Calm ==
  \A j \in Used' : InFlight(j)' =>
    j \in Used /\ InFlight(j) /\ mail'[j].to = mail[j].to /\ mail'[j].via = mail[j].via

LEMMA ShiftsCalm ==
  ASSUME NEW X, NEW F, NEW E, Shifts(X, F, E)
  PROVE  Calm
BY DEF Shifts, Calm, InFlight, Used, Free

\* A step of supervisor a, or of nobody: what a had in hand it settles or
\* keeps in hand.
LEMMA HandStep ==
  ASSUME InHand, engine # "down", Calm, NEW a \in Served,
         \A b \in Served \ {a} : sup'[b] = sup[b],
         \A j \in Used : InFlight(j) /\ mail[j].to = a /\ Handles(a, j) /\ InFlight(j)'
                         /\ mail'[j].via = mail[j].via => Handles(a, j)'
  PROVE  InHand'
<1> SUFFICES ASSUME NEW j \in Used', InFlight(j)'
             PROVE  \E b \in Served : mail'[j].to = b /\ Handles(b, j)'
  BY DEF InHand
<1>1. j \in Used /\ InFlight(j) /\ mail'[j].to = mail[j].to /\ mail'[j].via = mail[j].via
  BY DEF Calm
<1>2. PICK b \in Served : mail[j].to = b /\ Handles(b, j)
  BY <1>1 DEF InHand
<1>3. Handles(b, j)'
  BY <1>1, <1>2 DEF Handles, At
<1> QED BY <1>1, <1>2, <1>3

\* A step that moves no supervisor to another phase or row.
LEMMA HandAside ==
  ASSUME InHand, engine # "down", Calm,
         \A b \in Served : sup'[b].at = sup[b].at /\ sup'[b].row = sup[b].row
  PROVE  InHand'
BY DEF InHand, Calm, Handles, At

\* The supervisor had nothing in hand.
EmptyHanded == {"off", "idle", "chosen", "pasteheld", "retiring", "stopping"}

LEMMA HandEmpty ==
  ASSUME InHand, engine # "down", Calm, NEW a \in Served, sup[a].at \in EmptyHanded,
         \A b \in Served \ {a} : sup'[b] = sup[b]
  PROVE  InHand'
<1>1. \A j \in Used : ~Handles(a, j)
  BY DEF EmptyHanded, Handles, At, Awaiting
<1> QED BY <1>1, HandStep

\* Its row leaves the flight.
LEMMA HandSettles ==
  ASSUME InHand, engine # "down", Calm, NEW a \in Served, ~At(a, "killing"),
         \A b \in Served \ {a} : sup'[b] = sup[b],
         mail'[sup[a].row].state # "delivering"
  PROVE  InHand'
<1>1. \A j \in Used : Handles(a, j) => ~InFlight(j)'
  BY DEF Handles, InFlight
<1> QED BY <1>1, HandStep

\* It keeps its row, in another phase of the same route.
LEMMA HandKeepsBox ==
  ASSUME InHand, engine # "down", Calm, NEW a \in Served,
         \A b \in Served \ {a} : sup'[b] = sup[b], sup'[a].row = sup[a].row,
         ~At(a, "killing"), mail[sup[a].row].via = "pty", sup'[a].at \in {"pasted", "submitted"}
  PROVE  InHand'
<1>1. ASSUME NEW j \in Used, Handles(a, j), mail'[j].via = mail[j].via
      PROVE  Handles(a, j)'
  BY <1>1 DEF Handles
<1> QED BY <1>1, HandStep

LEMMA HandKeepsSocket ==
  ASSUME InHand, engine # "down", Calm, NEW a \in Served,
         \A b \in Served \ {a} : sup'[b] = sup[b], sup'[a].row = sup[a].row,
         \/ At(a, "taken") /\ mail[sup[a].row].via = "socket"
         \/ sup[a].at \in {"sending"} \union Awaiting,
         sup'[a].at \in {"sending", "givingup"} \union Awaiting
  PROVE  InHand'
<1>1. ASSUME NEW j \in Used, Handles(a, j), mail'[j].via = mail[j].via
      PROVE  Handles(a, j)'
  BY <1>1 DEF Handles, At, Awaiting
<1> QED BY <1>1, HandStep

LEMMA GotoAlone ==
  ASSUME MoreTypes, NEW a \in Served, \E d : Goto(a, d)
  PROVE  \A b \in Served \ {a} : sup'[b] = sup[b]
BY DEF Goto, MoreTypes

\* A step of the user, of a hook, of a receipt or of the session.
LEMMA SkipCalm ==
  ASSUME TypeOK, UNCHANGED mail
  PROVE  Calm
BY SkipMoves, ShiftsCalm

LEMMA UserCalm ==
  ASSUME TypeOK, User
  PROVE  Calm
<1>1. ASSUME NEW p \in Agents \union People, NEW a \in Served, NEW b \in Bodies,
             Send(p, a, b, NoKey, NoRow)
      PROVE  Calm
  <2>1. a \in Agents /\ NoKey \in Keys \union {NoKey} /\ NoRow \in Used \union {NoRow}
    BY DeliveryConstants
  <2>2. PICK i \in Rows \ Used, r \in Row : mail' = [mail EXCEPT ![i] = r] /\ r.state = "queued"
    BY <1>1, <2>1, SentRow, LedgerConstants
  <2> QED BY <2>2, InsertMoves, ShiftsCalm
<1>2. ASSUME NEW a \in Corrected \intersect Served, SystemMail(a)
      PROVE  Calm
  <2>1. a \in Agents
    BY DeliveryConstants
  <2>2. PICK i \in Rows \ Used, r \in Row : mail' = [mail EXCEPT ![i] = r] /\ r.state = "queued"
    BY <1>2, <2>1, CorrectionRow, LedgerConstants
  <2> QED BY <2>2, InsertMoves, ShiftsCalm
<1>3. ASSUME NEW i \in Rows, Cancel(i)
      PROVE  Calm
  <2>1. Shifts({i}, {}, {})
    BY <1>3, CancelMoves, LedgerConstants
  <2> QED BY <2>1, ShiftsCalm
<1>4. \/ \E p \in Agents \union People, a \in Served, b \in Bodies : Send(p, a, b, NoKey, NoRow)
      \/ \E a \in Corrected \intersect Served : SystemMail(a)
      \/ \E i \in Rows : Cancel(i)
      \/ UNCHANGED mail
  BY DEF User, Pause, Tick
<1> QED BY <1>1, <1>2, <1>3, <1>4, SkipCalm

\* A result, and a row that goes back.
LEMMA MarkCalm ==
  ASSUME TypeOK, NEW i, NEW s \in Marks, Mark(i, s)
  PROVE  Calm /\ mail'[i].state # "delivering"
<1>1. mail'[i].state = s /\ (Shifts({i}, {}, {}) \/ Shifts({i}, {}, {i}) \/ Shifts({i}, {i}, {}))
  BY MarkMoves, LedgerConstants
<1> QED BY <1>1, ShiftsCalm DEF Marks

LEMMA RequeueCalm ==
  ASSUME TypeOK, NEW i \in Rows, NEW w \in Nat, Requeue(i, w)
  PROVE  Calm /\ mail'[i].state # "delivering"
<1>1. mail'[i].state = "queued" /\ Shifts({i}, {i}, {})
  BY RequeueMoves, LedgerConstants
<1> QED BY <1>1, ShiftsCalm

LEMMA BackoffCalm ==
  ASSUME TypeOK, NEW i \in Rows, NEW w \in Backoffs, Requeue(i, now + w)
  PROVE  Calm /\ mail'[i].state # "delivering"
<1>1. now + w \in Nat
  BY LedgerConstants DEF TypeOK
<1> QED BY <1>1, RequeueCalm

\* What a supervisor writes, where writes succeed.
LEMMA WriteCalm ==
  ASSUME ~StoreFails, TypeOK, NEW i \in Rows,
         \/ MailWrite(Requeue(i, 0)) \/ MailWrite(RetrySocket(i))
         \/ \E s \in Marks : MailWrite(Mark(i, s))
  PROVE  Calm /\ mail'[i].state # "delivering"
<1>1. \/ Requeue(i, 0) \/ Mark(i, "failed") \/ (\E w \in Backoffs : Requeue(i, now + w))
      \/ \E s \in Marks : Mark(i, s)
  BY DEF MailWrite, RetrySocket
<1> QED BY <1>1, MarkCalm, RequeueCalm, BackoffCalm DEF Marks

LEMMA HintCalm ==
  ASSUME TypeOK, NEW i \in Rows, Hint(i)
  PROVE  Calm
<1>1. CASE Evidence(i) \/ LateEvidence(i)
  <2>1. Shifts({i}, {}, {i})
    BY <1>1, EvidenceMoves, LedgerConstants
  <2> QED BY <2>1, ShiftsCalm
<1> QED BY <1>1, SkipCalm DEF Hint, Skip

LEMMA ReceiptCalm ==
  ASSUME TypeOK, NEW r \in receipts, r.row \in Rows, Receipt(r)
  PROVE  Calm
<1> DEFINE as == CASE r.kind = "denied" -> "rejected" [] r.kind = "expired" -> "expired"
                   [] r.kind = "duplicate" -> "uncertain" [] OTHER -> "failed"
<1>1. as \in Marks
  BY DEF Marks
<1>2. Skip \/ (\E w \in Backoffs : Requeue(r.row, now + w)) \/ Mark(r.row, as)
  BY DEF Receipt
<1> HIDE DEF as
<1> QED BY <1>1, <1>2, SkipCalm, MarkCalm, BackoffCalm DEF Skip

\* Steps that move no supervisor.
LEMMA AsideHand ==
  ASSUME Inv, InHand,
         \/ User \/ DrainOn
         \/ \E i \in Rows : Hint(i)
         \/ \E r \in receipts : Receipt(r)
         \/ \E a \in Served : SocketJob(a) \/ Session(a)
  PROVE  InHand'
<1>1. TypeOK /\ MoreTypes
  BY DEF Inv
<1>2. CASE User
  <2>1. engine # "down" /\ sup' = sup
    BY <1>2 DEF User, deliveryVars
  <2> QED BY <1>1, <1>2, <2>1, UserCalm, HandAside
<1>3. CASE DrainOn
  <2>1. engine # "down" /\ sup' = sup /\ UNCHANGED mail
    BY <1>3 DEF DrainOn
  <2> QED BY <1>1, <2>1, SkipCalm, HandAside
<1>4. ASSUME NEW i \in Rows, Hint(i) PROVE InHand'
  <2>1. engine # "down" /\ sup' = sup
    BY <1>4 DEF Hint
  <2> QED BY <1>1, <1>4, <2>1, HintCalm, HandAside
<1>5. ASSUME NEW r \in receipts, Receipt(r) PROVE InHand'
  <2>1. engine # "down" /\ sup' = sup /\ r.row \in Rows
    BY <1>1, <1>5 DEF Receipt, MoreTypes, Report
  <2> QED BY <1>1, <1>5, <2>1, ReceiptCalm, HandAside
<1>6. ASSUME NEW a \in Served, SocketJob(a) PROVE InHand'
  <2>1. engine # "down" /\ sup' = sup /\ UNCHANGED mail
    BY <1>6 DEF SocketJob
  <2> QED BY <1>1, <2>1, SkipCalm, HandAside
<1>7. ASSUME NEW a \in Served, Session(a) PROVE InHand'
  <2>1. UNCHANGED <<mail, engine>>
    BY <1>7 DEF Session, ReadTty, TurnStart, TurnEnd, ClearBox, Die, ReadInbox, Lose, Move, Refuse
  <2>2. \/ sup' = sup
        \/ \E t : sup' = [sup EXCEPT ![a].turn = t]
    BY <1>7 DEF Session, ReadTty, TurnStart, TurnEnd, ClearBox, Die, ReadInbox, Lose, Move, Refuse
  <2>3. \A b \in Served : sup'[b].at = sup[b].at /\ sup'[b].row = sup[b].row
    <3>1. CASE sup' = sup
      BY <3>1
    <3>2. ASSUME NEW t, sup' = [sup EXCEPT ![a].turn = t]
          PROVE  \A b \in Served : sup'[b].at = sup[b].at /\ sup'[b].row = sup[b].row
      <4>1. sup'[a] = [sup[a] EXCEPT !.turn = t] /\ \A b \in Served \ {a} : sup'[b] = sup[b]
        BY <1>1, <3>2 DEF MoreTypes
      <4>2. sup[a] \in Delivery
        BY <1>1 DEF MoreTypes
      <4>3. sup'[a].at = sup[a].at /\ sup'[a].row = sup[a].row
        BY <4>1, <4>2 DEF Delivery
      <4> QED BY <4>1, <4>3
    <3> QED BY <2>2, <3>1, <3>2
  <2>4. CASE engine = "down"
    BY <2>1, <2>4 DEF InHand
  <2> QED BY <1>1, <2>1, <2>3, <2>4, SkipCalm, HandAside
<1> QED BY <1>2, <1>3, <1>4, <1>5, <1>6, <1>7

\* Boot leaves nothing in flight.
LEMMA BootSettles ==
  ASSUME TypeOK, Boot
  PROVE  \A i \in Rows : mail'[i].state # "delivering"
<1> DEFINE D == {i \in Used : \/ mail[i].state = "delivering"
                              \/ mail[i].state = "queued" /\ mail[i].to \in ended}
           result == [i \in D |-> IF mail[i].state = "queued" THEN "failed" ELSE "uncertain"]
<1>1. Record(D, result, ended)
  BY DEF Boot
<1>2. result \in [D -> MsgState \ Open] /\ D \in SUBSET Used /\ ended \in SUBSET Agents
  BY DEF MsgState, Open, TypeOK
<1>3. \A j \in D : /\ result[j] \in Withdrawn => mail[j].state \in Withdrawn
                   /\ result[j] # "delivered"
  BY DEF Withdrawn, Free
<1>4. \A j \in D : result[j] # "delivering"
  OBVIOUS
<1>5. \A j \in Used \ D : mail[j].state # "delivering"
  OBVIOUS
<1> HIDE DEF D, result
<1>6. Shifts(D, {}, {}) /\ \A j \in D : mail'[j].state = result[j]
  BY <1>1, <1>2, <1>3, RecordMoves, LedgerConstants
<1> QED BY <1>4, <1>5, <1>6 DEF Shifts, Free

\* The engine stops, or boots.
LEMMA EngineHand ==
  ASSUME Inv, InHand, Stop \/ Start
  PROVE  InHand'
<1>1. CASE Stop
  BY <1>1 DEF Stop, InHand
<1>2. CASE Start
  BY <1>2, BootSettles DEF Start, Inv, InHand, InFlight, Used
<1> QED BY <1>1, <1>2

-----------------------------------------------------------------------------
(* The supervisor's steps.                                                 *)

\* The take puts its row in the taker's hands.
LEMMA TakeHand ==
  ASSUME ~StoreFails, Inv, InHand, NEW a \in Served, TakeChosen(a)
  PROVE  InHand'
<1>0. PICK i, via : i = sup[a].row /\ via = IF sup[a].gate = "pty" THEN "pty" ELSE "socket"
  OBVIOUS
<1>1. TypeOK /\ MoreTypes /\ SupInv(a) /\ At(a, "chosen") /\ engine' = engine /\ engine # "down"
  BY DEF Inv, CopyInv, TakeChosen
<1>2. CASE Skip /\ Goto(a, Idle)
  <2>1. \A b \in Served \ {a} : sup'[b] = sup[b]
    BY <1>2 DEF Goto
  <2>2. sup[a].at \in EmptyHanded
    BY <1>1 DEF At, EmptyHanded
  <2> QED BY <1>1, <1>2, <2>1, <2>2, SkipCalm, HandEmpty DEF Skip
<1>3. CASE Take(a, i, via) /\ Goto(a, Now(a, "taken"))
  <2>1. "taken" \in Phase
    BY DEF Phase
  <2>2. /\ sup'[a].at = "taken" /\ sup'[a].row = i
        /\ \A b \in Served \ {a} : sup'[b] = sup[b]
    BY <1>0, <1>1, <1>3, <2>1, NowType, GotoType
  <2>3. i \in Used /\ mail[i].to = a
    BY <1>3 DEF Take, PeekNext, Eligible
  <2>4. /\ \A j \in Rows \ {i} : mail'[j] = mail[j]
        /\ mail'[i].to = mail[i].to /\ mail'[i].via = via
    <3>1. i \in Rows /\ mail \in [Rows -> Row] /\ mail[i] \in Row
      BY <1>1, <2>3 DEF Used, TypeOK
    <3>2. mail'[i] = [Set(mail[i], "delivering") EXCEPT
                        !.attempts = mail[i].attempts + 1, !.via = via]
          /\ \A j \in Rows \ {i} : mail'[j] = mail[j]
      BY <1>3, <3>1 DEF Take
    <3> QED BY <3>1, <3>2 DEF Set, Row
  <2>5. ASSUME NEW j \in Used', InFlight(j)'
        PROVE  \E b \in Served : mail'[j].to = b /\ Handles(b, j)'
    <3>1. CASE j = i
      <4>1. via \in {"pty", "socket"}
        BY <1>0
      <4>2. Handles(a, j)'
        BY <2>2, <2>4, <3>1, <4>1 DEF Handles
      <4> QED BY <2>3, <2>4, <3>1, <4>2
    <3>2. CASE j # i
      <4>1. j \in Used /\ InFlight(j) /\ mail'[j] = mail[j]
        BY <2>4, <2>5, <3>2 DEF Used, InFlight
      <4>2. PICK b \in Served : mail[j].to = b /\ Handles(b, j)
        BY <1>1, <4>1 DEF InHand
      <4>3. b # a
        BY <1>1, <4>2 DEF Handles, At, Awaiting
      <4>4. Handles(b, j)'
        BY <2>2, <4>1, <4>2, <4>3 DEF Handles, At
      <4> QED BY <4>1, <4>2, <4>4
    <3> QED BY <3>1, <3>2
  <2> QED BY <2>5 DEF InHand
<1>4. \/ Take(a, i, via) /\ Goto(a, Now(a, "taken"))
      \/ Skip /\ Goto(a, Idle)
  BY <1>0 DEF TakeChosen
<1> QED BY <1>2, <1>3, <1>4

\* The input box, after the take.
LEMMA BoxHand ==
  ASSUME ~StoreFails, Inv, InHand, NEW a \in Served,
         Paste(a) \/ Submit(a) \/ PasteTimeout(a) \/ Confirm(a)
  PROVE  InHand'
<1>0. PICK i : i = sup[a].row
  OBVIOUS
<1>1. TypeOK /\ MoreTypes /\ SupInv(a) /\ engine # "down" /\ ~At(a, "killing")
  BY DEF Inv, CopyInv, Paste, Submit, PasteTimeout, Confirm, At
<1>2. i \in Rows /\ mail[i].via = "pty"
  BY <1>0, <1>1 DEF SupInv, TakenInv, PastedInv, Used, Paste, Submit, PasteTimeout, Confirm, At
<1>3. \A b \in Served \ {a} : sup'[b] = sup[b]
  <2>1. \E d : Goto(a, d)
    BY DEF Paste, Submit, PasteTimeout, Confirm
  <2> QED BY <1>1, <2>1, GotoAlone
<1>4. CASE \/ MailWrite(Requeue(i, 0)) \/ \E s \in Marks : MailWrite(Mark(i, s))
  BY <1>0, <1>1, <1>2, <1>3, <1>4, WriteCalm, HandSettles
<1>5. CASE Skip /\ \E ph \in {"pasted", "submitted"} : Goto(a, Now(a, ph))
  <2>1. PICK ph \in {"pasted", "submitted"} : Goto(a, Now(a, ph))
    BY <1>5
  <2>2. ph \in Phase
    BY DEF Phase
  <2>3. sup'[a].at = ph /\ sup'[a].row = i
    BY <1>0, <1>1, <2>1, <2>2, NowType, GotoType
  <2>4. Calm
    BY <1>1, <1>5, SkipCalm DEF Skip
  <2> QED BY <1>0, <1>1, <1>2, <1>3, <2>3, <2>4, HandKeepsBox
<1>6. \/ MailWrite(Requeue(i, 0)) \/ (\E s \in Marks : MailWrite(Mark(i, s)))
      \/ Skip /\ \E ph \in {"pasted", "submitted"} : Goto(a, Now(a, ph))
  <2>1. CASE Paste(a) \/ Submit(a)
    BY <1>0, <2>1 DEF Paste, Submit, Marks
  <2>2. CASE PasteTimeout(a)
    BY <1>0, <2>2 DEF PasteTimeout, Marks
  <2>3. CASE Confirm(a)
    <3>1. PICK s \in {"delivered", "uncertain"} : MailWrite(Mark(i, s))
      BY <1>0, <2>3 DEF Confirm
    <3> QED BY <3>1 DEF Marks
  <2> QED BY <2>1, <2>2, <2>3
<1> QED BY <1>4, <1>5, <1>6

\* The socket, from the start of the write to the deadline.
LEMMA SocketHand ==
  ASSUME ~StoreFails, Inv, InHand, NEW a \in Served,
         StartSocket(a) \/ SocketResult(a) \/ ReadNote(a) \/ Overdue(a) \/ GiveUp(a) \/ Settled(a)
  PROVE  InHand'
<1>0. PICK i : i = sup[a].row
  OBVIOUS
<1>1. TypeOK /\ MoreTypes /\ SupInv(a) /\ engine # "down" /\ ~At(a, "killing")
      /\ sup[a].at \in {"taken", "sending", "givingup", "submitted"} \union Awaiting
  BY DEF Inv, CopyInv, StartSocket, SocketResult, ReadNote, Overdue, GiveUp, Settled, At, Awaiting
<1>2. i \in Rows /\ (At(a, "taken") => sup[a].gate # "pty" /\ mail[i].via = "socket")
  <2>1. At(a, "taken") => sup[a].gate # "pty"
    BY DEF StartSocket, SocketResult, ReadNote, Overdue, GiveUp, Settled, At, Awaiting
  <2> QED BY <1>0, <1>1, <2>1 DEF SupInv, TakenInv, SendingInv, Used, At
<1>3. \A b \in Served \ {a} : sup'[b] = sup[b]
  <2>1. \E d : Goto(a, d)
    BY DEF StartSocket, SocketResult, ReadNote, Overdue, GiveUp, Settled
  <2> QED BY <1>1, <2>1, GotoAlone
<1>4. CASE \/ MailWrite(Requeue(i, 0)) \/ MailWrite(RetrySocket(i))
           \/ MailWrite(Mark(i, "uncertain"))
  BY <1>0, <1>1, <1>2, <1>3, <1>4, WriteCalm, HandSettles DEF Marks
<1>5. CASE Skip /\ ~InFlight(i)
  <2>1. Calm /\ mail'[i].state # "delivering"
    BY <1>1, <1>5, SkipCalm DEF Skip, InFlight
  <2> QED BY <1>0, <1>1, <1>3, <2>1, HandSettles
<1>6. CASE /\ Skip /\ sup[a].at \in {"taken", "sending"} \union Awaiting
           /\ sup'[a].row = i /\ sup'[a].at \in {"sending", "givingup"} \union Awaiting
  <2>1. Calm
    BY <1>1, <1>6, SkipCalm DEF Skip
  <2> QED BY <1>0, <1>1, <1>2, <1>3, <1>6, <2>1, HandKeepsSocket DEF At
<1>7. \/ MailWrite(Requeue(i, 0)) \/ MailWrite(RetrySocket(i)) \/ MailWrite(Mark(i, "uncertain"))
      \/ Skip /\ ~InFlight(i)
      \/ /\ Skip /\ sup[a].at \in {"taken", "sending"} \union Awaiting
         /\ sup'[a].row = i /\ sup'[a].at \in {"sending", "givingup"} \union Awaiting
  <2>1. \A ph \in {"sending", "awaiting", "givingup"} :
          Goto(a, Now(a, ph)) => sup'[a].at = ph /\ sup'[a].row = i
    <3>1. \A ph \in {"sending", "awaiting", "givingup"} : ph \in Phase
      BY DEF Phase
    <3> QED BY <1>0, <1>1, <3>1, NowType, GotoType
  <2>2. CASE StartSocket(a)
    BY <1>0, <2>1, <2>2 DEF StartSocket, At
  <2>3. CASE SocketResult(a)
    <3>1. \/ MailWrite(Requeue(i, 0)) \/ MailWrite(RetrySocket(i))
          \/ Skip /\ ~InFlight(i)
          \/ Skip /\ Goto(a, Now(a, "awaiting"))
      BY <1>0, <2>3 DEF SocketResult, MailWrite
    <3> QED BY <2>1, <2>3, <3>1 DEF SocketResult, At, Awaiting
  <2>4. CASE ReadNote(a)
    <3>1. sup[a] \in Delivery /\ sup[a].at \in Awaiting
      BY <1>1, <2>4 DEF MoreTypes, ReadNote
    <3>2. PICK d2 : Goto(a, d2) /\
            \/ d2 = [sup[a] EXCEPT !.seen = @ + 1, !.at = "held"]
            \/ d2 = [sup[a] EXCEPT !.seen = @ + 1, !.at = "awaiting", !.turn = "no"]
            \/ d2 = [sup[a] EXCEPT !.seen = @ + 1, !.at = "enqueued"]
            \/ d2 = [sup[a] EXCEPT !.seen = @ + 1]
      BY <2>4 DEF ReadNote
    <3>3. d2.row = i /\ d2.at \in Awaiting
      BY <1>0, <3>1, <3>2 DEF Delivery, Awaiting
    <3>4. sup'[a] = d2
      BY <1>1, <3>2 DEF Goto, MoreTypes
    <3>5. Skip
      BY <2>4 DEF ReadNote, Skip
    <3> QED BY <3>1, <3>3, <3>4, <3>5
  <2>5. CASE Overdue(a)
    <3>1. Skip /\ sup[a].at \in Awaiting /\ Goto(a, Now(a, "givingup"))
      BY <2>5 DEF Overdue, Skip
    <3> QED BY <2>1, <3>1
  <2>6. CASE GiveUp(a)
    BY <1>0, <2>6 DEF GiveUp, InFlight
  <2>7. CASE Settled(a)
    BY <1>0, <2>7 DEF Settled, Skip
  <2> QED BY <2>2, <2>3, <2>4, <2>5, <2>6, <2>7
<1> QED BY <1>4, <1>5, <1>6, <1>7

LEMMA SupervisorHand ==
  ASSUME ~StoreFails, Inv, InHand, NEW a \in Served, Supervisor(a)
  PROVE  InHand'
<1>1. CASE Adopt(a) \/ Choose(a) \/ Unhold(a)
  <2>1. /\ engine # "down" /\ UNCHANGED mail /\ sup[a].at \in EmptyHanded
        /\ \E d : Goto(a, d)
    BY <1>1 DEF Adopt, Choose, Unhold, At, EmptyHanded
  <2>2. \A b \in Served \ {a} : sup'[b] = sup[b]
    BY <2>1, GotoAlone DEF Inv
  <2> QED BY <2>1, <2>2, SkipCalm, HandEmpty DEF Inv
<1> QED BY <1>1, TakeHand, BoxHand, SocketHand DEF Supervisor

-----------------------------------------------------------------------------
(* The ends.                                                               *)

\* stop_delivery settles what the agent has in hand between two ticks.
LEMMA StopHand ==
  ASSUME ~StoreFails, Inv, InHand, NEW a \in Served, engine # "down", BetweenTicks(a),
         StopDelivery(a), \E d : Goto(a, d)
  PROVE  InHand'
<1>0. PICK i : i = sup[a].row
  OBVIOUS
<1>1. TypeOK /\ MoreTypes /\ SupInv(a) /\ ~At(a, "killing")
  BY DEF Inv, CopyInv, BetweenTicks, At, Awaiting
<1>2. \A b \in Served \ {a} : sup'[b] = sup[b]
  BY <1>1, GotoAlone
<1>3. CASE sup[a].at \in {"idle", "pasteheld"}
  <2>1. Skip
    BY <1>3 DEF StopDelivery, At, Awaiting
  <2>2. sup[a].at \in EmptyHanded /\ Calm
    BY <1>1, <1>3, <2>1, SkipCalm DEF EmptyHanded, Skip
  <2> QED BY <1>2, <2>2, HandEmpty
<1>4. CASE sup[a].at \in {"pasted", "submitted", "sending"} \union Awaiting
  <2>1. i \in Used
    BY <1>0, <1>1, <1>4 DEF SupInv, PastedInv, SendingInv, At
  <2>2. i \in Rows
    BY <2>1 DEF Used
  <2>3. CASE InFlight(i)
    <3>1. MailWrite(Requeue(i, 0)) \/ MailWrite(Mark(i, "uncertain"))
      BY <1>0, <1>4, <2>3 DEF StopDelivery, At, InFlight, Awaiting
    <3> QED BY <1>0, <1>1, <1>2, <2>2, <3>1, WriteCalm, HandSettles DEF Marks
  <2>4. CASE ~InFlight(i)
    <3>1. Skip \/ MailWrite(Mark(i, "uncertain"))
      BY <1>0, <1>4, <2>4 DEF StopDelivery, At, Awaiting
    <3>2. CASE Skip
      <4>1. Calm /\ mail'[i].state # "delivering"
        BY <1>1, <2>4, <3>2, SkipCalm DEF Skip, InFlight
      <4> QED BY <1>0, <1>1, <1>2, <4>1, HandSettles
    <3>3. CASE MailWrite(Mark(i, "uncertain"))
      BY <1>0, <1>1, <1>2, <2>2, <3>3, WriteCalm, HandSettles DEF Marks
    <3> QED BY <3>1, <3>2, <3>3
  <2> QED BY <2>3, <2>4
<1> QED BY <1>3, <1>4 DEF BetweenTicks

\* A write of the socket that may have started goes into the drain's kill,
\* as does a message that waits in the session.
LEMMA DrainStopHand ==
  ASSUME ~StoreFails, Inv, InHand, NEW a \in Served, DrainStop(a)
  PROVE  InHand'
<1>0. PICK i : i = sup[a].row
  OBVIOUS
<1>1. /\ TypeOK /\ MoreTypes /\ SupInv(a) /\ engine # "down" /\ BetweenTicks(a)
      /\ Goto(a, OffTo("killing"))
  BY DEF Inv, CopyInv, DrainStop, OffTo
<1>2. sup'[a].at = "killing" /\ \A b \in Served \ {a} : sup'[b] = sup[b]
  <2>1. "killing" \in Phase
    BY DEF Phase
  <2> QED BY <1>1, <2>1, OffType, GotoType
<1>3. CASE Skip /\ sup[a].at \in {"sending"} \union Awaiting
  <2>1. Calm
    BY <1>1, <1>3, SkipCalm DEF Skip
  <2>2. ASSUME NEW j \in Used, Handles(a, j), mail'[j].via = mail[j].via
        PROVE  Handles(a, j)'
    BY <1>2, <1>3, <2>2 DEF Handles, At, Awaiting
  <2> QED BY <1>1, <1>2, <2>1, <2>2, HandStep
<1>4. CASE At(a, "sending") /\ MailWrite(Requeue(i, 0))
  <2>1. i \in Rows /\ ~At(a, "killing")
    BY <1>0, <1>1, <1>4 DEF SupInv, SendingInv, Used, At
  <2> QED BY <1>0, <1>1, <1>2, <1>4, <2>1, WriteCalm, HandSettles
<1>5. CASE StopDelivery(a)
  BY <1>1, <1>5, StopHand
<1>6. \/ Skip /\ sup[a].at \in {"sending"} \union Awaiting
      \/ At(a, "sending") /\ MailWrite(Requeue(i, 0))
      \/ StopDelivery(a)
  BY <1>0 DEF DrainStop, At
<1> QED BY <1>3, <1>4, <1>5, <1>6

\* The kill of a drain settles the one message the socket still has.
LEMMA DrainKillHand ==
  ASSUME ~StoreFails, Inv, InHand, OneInFlight, NEW a \in Served, DrainKill(a)
  PROVE  InHand'
<1>1. TypeOK /\ MoreTypes /\ engine # "down" /\ At(a, "killing")
  BY DEF Inv, DrainKill
<1>2. \A b \in Served \ {a} : sup'[b] = sup[b]
  BY <1>1, GotoAlone DEF DrainKill
<1>3. \A j \in Used : Handles(a, j) => mail[j].via = "socket"
  BY <1>1 DEF Handles, At, Awaiting
<1>4. CASE /\ Skip
           /\ \A j \in Used : ~(InFlight(j) /\ mail[j].to = a /\ mail[j].via = "socket")
  <2>1. Calm
    BY <1>1, <1>4, SkipCalm DEF Skip
  <2> QED BY <1>1, <1>2, <1>3, <1>4, <2>1, HandStep
<1>5. CASE \E i \in Used : InFlight(i) /\ mail[i].to = a /\ MailWrite(Mark(i, "uncertain"))
  <2>1. PICK i \in Used : InFlight(i) /\ mail[i].to = a /\ MailWrite(Mark(i, "uncertain"))
    BY <1>5
  <2>2. i \in Rows
    BY DEF Used
  <2>3. Calm /\ mail'[i].state # "delivering"
    BY <1>1, <2>1, <2>2, WriteCalm DEF Marks
  <2>4. \A j \in Used : InFlight(j) /\ mail[j].to = a => j = i
    BY <2>1 DEF OneInFlight, InFlight
  <2>5. \A j \in Used : InFlight(j) /\ mail[j].to = a => ~InFlight(j)'
    BY <2>3, <2>4 DEF InFlight
  <2> QED BY <1>1, <1>2, <2>3, <2>5, HandStep
<1>6. \/ /\ Skip
         /\ \A j \in Used : ~(InFlight(j) /\ mail[j].to = a /\ mail[j].via = "socket")
      \/ \E i \in Used : InFlight(i) /\ mail[i].to = a /\ MailWrite(Mark(i, "uncertain"))
  BY DEF DrainKill
<1> QED BY <1>4, <1>5, <1>6

\* The end of an agent settles all mail to it.
LEMMA EndHand ==
  ASSUME ~StoreFails, Inv, InHand, NoMailAfterEnd', NEW a \in Served, End(a)
  PROVE  InHand'
<1>1. TypeOK /\ MoreTypes /\ engine # "down" /\ a \in Agents /\ AgentEnd(a)
  BY DeliveryConstants DEF Inv, End, MailWrite
<1>2. \A b \in Served \ {a} : sup'[b] = sup[b]
  BY <1>1, GotoAlone DEF End
<1>3. Shifts({j \in Used : mail[j].to = a}, {}, {}) /\ a \in ended'
  BY <1>1, AgentEndMoves, LedgerConstants
<1>4. Calm
  BY <1>3, ShiftsCalm
<1>5. ASSUME NEW j \in Used, mail[j].to = a
      PROVE  ~InFlight(j)'
  BY <1>3, <1>5 DEF NoMailAfterEnd, Shifts, Used, InFlight, Free
<1> QED BY <1>1, <1>2, <1>4, <1>5, HandStep

LEMMA EndsHand ==
  ASSUME ~StoreFails, Inv, InHand, OneInFlight, NoMailAfterEnd', NEW a \in Served,
         Ending(a) \/ Retire(a) \/ Shutdown(a)
  PROVE  InHand'
<1>1. CASE Retire(a) \/ Shutdown(a)
  <2>1. engine # "down" /\ BetweenTicks(a) /\ StopDelivery(a) /\ \E d : Goto(a, d)
    BY <1>1 DEF Retire, Shutdown
  <2> QED BY <2>1, StopHand
<1>2. CASE ShutdownKill(a)
  <2>1. /\ engine # "down" /\ UNCHANGED mail /\ sup[a].at \in EmptyHanded
        /\ \E d : Goto(a, d)
    BY <1>2 DEF ShutdownKill, At, EmptyHanded
  <2>2. \A b \in Served \ {a} : sup'[b] = sup[b]
    BY <2>1, GotoAlone DEF Inv
  <2> QED BY <2>1, <2>2, SkipCalm, HandEmpty DEF Inv
<1> QED BY <1>1, <1>2, EndHand, DrainStopHand, DrainKillHand DEF Ending

\* While the engine runs and its writes succeed, a message in flight is in
\* the hands of its target's supervisor, in a phase that ends in a result:
\* what the wait for a result rests on, over retires, exits, drains, hooks
\* and receipts in any order (stop_delivery, drain_delivery, drain_now).
THEOREM AlwaysInHand ==
  ASSUME ~StoreFails
  PROVE  DeliverySpec => []InHand
<1>1. DeliveryInit => InHand
  <2> SUFFICES ASSUME DeliveryInit
               PROVE  InHand
    OBVIOUS
  <2>1. Used = {}
    BY LedgerConstants, InitState DEF DeliveryInit
  <2> QED BY <2>1 DEF InHand
<1>2. Inv /\ OneInFlight /\ NoMailAfterEnd' /\ InHand /\ [DeliveryNext]_allVars => InHand'
  <2> SUFFICES ASSUME Inv, OneInFlight, NoMailAfterEnd', InHand, [DeliveryNext]_allVars
               PROVE  InHand'
    OBVIOUS
  <2>1. CASE UNCHANGED allVars
    BY <2>1 DEF allVars, InHand, Used, InFlight, Handles, At
  <2>2. CASE \/ User \/ DrainOn
             \/ \E i \in Rows : Hint(i)
             \/ \E r \in receipts : Receipt(r)
             \/ \E a \in Served : SocketJob(a) \/ Session(a)
    BY <2>2, AsideHand
  <2>3. ASSUME NEW a \in Served, Supervisor(a)
        PROVE  InHand'
    BY <2>3, SupervisorHand
  <2>4. ASSUME NEW a \in Served, Ending(a) \/ Retire(a) \/ Shutdown(a)
        PROVE  InHand'
    BY <2>4, EndsHand
  <2>5. CASE Stop \/ Start
    BY <2>5, EngineHand
  <2> QED BY <2>1, <2>2, <2>3, <2>4, <2>5 DEF DeliveryNext
<1>3. DeliverySpec => Spec
  BY DeliveryRunsTheLedger DEF LedgerSpec
<1> QED
  BY <1>1, <1>2, <1>3, Invariant, OneMessageInFlight, EndedQueueEmpty, PTL DEF DeliverySpec

-----------------------------------------------------------------------------
(* The delivery and the ledger.                                            *)

\* The deliveries of all supervisors keep what the ledger promises: however
\* hooks, transcripts, receipts, timeouts and crashes interleave with them,
\* an agent has one message in flight, an ended agent none, a final result
\* stays, a key is used once, a pair sends no more than its limit, and a
\* sender is told.
THEOREM DeliveryKeepsTheLedger ==
  DeliverySpec => /\ [](OneInFlight /\ NoMailAfterEnd /\ KeyOnce /\ PairBound)
                  /\ FinalStays /\ NoticesTell
<1>1. DeliverySpec => Spec
  BY DeliveryRunsTheLedger DEF LedgerSpec
<1>2. Spec => /\ []OneInFlight /\ []NoMailAfterEnd /\ []KeyOnce /\ []PairBound
              /\ FinalStays /\ NoticesTell
  BY OneMessageInFlight, EndedQueueEmpty, KeysAreUnique, PairsAreBounded, ResultsStay,
     SendersAreTold
<1> QED BY <1>1, <1>2, PTL
=============================================================================
