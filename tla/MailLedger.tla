----------------------------- MODULE MailLedger -----------------------------
(***************************************************************************)
(* The mail ledger of the engine (engine/mail.rs): the `messages` table,   *)
(* the mailbox pauses, and the operations that the API handlers, the       *)
(* supervisors, the receipt listener and boot run on them.  Every action   *)
(* is one transaction of the single writer thread.  Callers are arbitrary  *)
(* here: what holds in this module holds whatever order they call in.      *)
(* MailDelivery restricts the callers to the supervisor's delivery loop.   *)
(*                                                                         *)
(* Rows are numbered in the order they are inserted (created_at, rowid).   *)
(* A row's body is abstracted to a value that the body dedupe compares; a  *)
(* notice's body to the set of rows its text lists.                        *)
(***************************************************************************)
EXTENDS Integers, FiniteSets

CONSTANTS
  Agents,       \* the agents the engine drives on a PTY
  Managed,      \* those that are managed workers of another agent
  Parent,       \* the agent that owns each managed worker
  People,       \* persons at a terminal: origin local-unverified
  Engine,       \* the author of system mail
  Bodies,       \* message bodies
  NoBody,       \* the body of system mail, which no dedupe compares
  Keys,         \* idempotency keys a caller may give
  NoKey,        \* a send without one
  MaxRows,      \* bound: rows of the messages table
  MaxTakes,     \* bound: times a row is taken from the queue
  MaxNow,       \* bound: the clock
  Window,       \* WINDOW_MS: body dedupe and pair limit
  PairLimit,    \* PAIR_LIMIT
  MaxHop,       \* replies in a row
  LateWindow,   \* LATE_WINDOW_MS: how long evidence still counts
  NoticeDelay,  \* the wait of a notice about an uncertain message
  Backoffs,     \* the waits a requeue may set (backoff and receipts)
  Routes,       \* the ways to the agent in use: pty, socket
  Results,      \* the results a caller may mark
  Pausable,     \* the mailboxes a person pauses
  Corrected     \* the agents that answer in-band and are corrected

ASSUME LedgerConstants ==
  /\ Agents # {} /\ Managed \subseteq Agents /\ Parent \in [Managed -> Agents]
  /\ People \intersect Agents = {} /\ Engine \notin Agents \union People
  /\ NoKey \notin Keys /\ NoBody \notin Bodies
  /\ MaxRows \in Nat /\ MaxTakes \in Nat /\ MaxNow \in Nat
  /\ Window \in Nat /\ PairLimit \in Nat /\ MaxHop \in Nat
  /\ LateWindow \in Nat /\ NoticeDelay \in Nat
  /\ Backoffs \subseteq Nat /\ Pausable \subseteq Agents /\ Corrected \subseteq Agents
  /\ Routes \subseteq {"pty", "socket"}
  /\ Results \subseteq {"delivered", "failed", "uncertain", "rejected", "expired"}

VARIABLES
  mail,    \* [Rows -> Row], the messages table
  paused,  \* the agents in mail_pause
  ended,   \* the agents in a TERMINAL state
  now      \* now_ms() at the writer, in units of the shortest delay

vars == <<mail, paused, ended, now>>

-----------------------------------------------------------------------------
(* Rows and states.                                                        *)

Rows  == 1..MaxRows
NoRow == 0
Free  == "none"    \* the state of a row not inserted yet

MsgState == {"queued", "delivering", "delivered", "failed",
             "uncertain", "rejected", "expired", "cancelled"}
\* The results the sender is told about.
Unhappy  == {"uncertain", "failed", "rejected", "expired", "cancelled"}

\* A notice reports results to a sender; other system mail (the receipt
\* listener's correction) reports none.
Kind == {"mail", "notice", "system"}

Row == [state     : MsgState \union {Free},
        kind      : Kind,
        from      : Agents \union People \union {Engine},
        to        : Agents,
        body      : Bodies \union {NoBody},
        key       : Keys \union {NoKey},
        hop       : Nat,
        via       : {"none", "pty", "socket"},
        attempts  : Nat,
        notBefore : Nat,                  \* NULL is 0; kept for a queued row
        createdAt : Nat,                  \* kept for an agent's mail, which the window counts
        stateAt   : Nat,                  \* kept for an uncertain row, whose evidence may be late
        notice    : Rows \union {NoRow},  \* the notice about this row
        lists     : SUBSET Rows]          \* the rows a notice's text names

Used == {i \in Rows : mail[i].state # Free}

\* A row as it is inserted: queued, not taken yet.
NewRow(kind, from, to, body, key, hop, wait) ==
  [state |-> "queued", kind |-> kind, from |-> from, to |-> to, body |-> body,
   key |-> key, hop |-> hop, via |-> "none", attempts |-> 0,
   notBefore |-> wait, createdAt |-> IF from \in Agents THEN now ELSE 0, stateAt |-> 0,
   notice |-> NoRow, lists |-> {}]

\* A row that takes a state now.
Set(row, state) ==
  [row EXCEPT !.state = state, !.notBefore = 0,
              !.stateAt = IF state = "uncertain" THEN now ELSE 0]

\* The next rowid, when the bound leaves one.
IsNext(i) == i \notin Used /\ \A j \in Rows : j < i => j \in Used

-----------------------------------------------------------------------------
(* record and notify_sender.  One transaction may record several results   *)
(* (an agent's end, boot).  Each unhappy result of an agent's mail goes    *)
(* into the sender's oldest queued notice, or into a new one.  No two      *)
(* senders share a notice, so the order of the records does not matter.    *)

\* The result of row i must be told to its sender; gone have ended.
Tells(i, result, gone) ==
  /\ result \in Unhappy
  /\ mail[i].kind = "mail"
  /\ mail[i].from \in Agents \ gone
  /\ mail[i].notice = NoRow

QueuedNotices(s) ==
  {n \in Used : mail[n].kind = "notice" /\ mail[n].to = s /\ mail[n].state = "queued"}

\* pick names the notice of each sender in S.
PicksNotices(pick, S) ==
  /\ \A s \in S :
       IF QueuedNotices(s) = {}
       THEN /\ pick[s] \notin Used
            /\ \A j \in Rows : j < pick[s] => j \in Used \/ \E t \in S : pick[t] = j
       ELSE /\ pick[s] \in QueuedNotices(s)
            /\ \A n \in QueuedNotices(s) : pick[s] <= n
  /\ \A s, t \in S : pick[s] = pick[t] => s = t

\* The rows that refresh_notice lists for n: its subjects not delivered.
Unresolved(n) == {i \in Used : mail[i].notice = n /\ mail[i].state # "delivered"}

\* Notice n of sender s, with the results of the rows in about merged in.
\* An uncertain result never shortens the wait.
Merged(n, s, about, result) ==
  LET wait == now + IF \E i \in about : result[i] = "uncertain" THEN NoticeDelay ELSE 0
      old  == IF n \in Used THEN mail[n]
              ELSE NewRow("notice", Engine, s, NoBody, NoKey, 0, wait)
  IN [old EXCEPT !.notBefore = IF @ > wait THEN @ ELSE wait,
                 !.lists = Unresolved(n) \union about]

\* The rows of D take the states that result gives them.
Record(D, result, gone) ==
  LET T == {i \in D : Tells(i, result[i], gone)}
      S == {mail[i].from : i \in T}
  IN \E pick \in [S -> Rows] :
       /\ PicksNotices(pick, S)
       /\ mail' = [i \in Rows |->
            CASE i \in D ->
                   [Set(mail[i], result[i]) EXCEPT
                      !.notice = IF i \in T THEN pick[mail[i].from] ELSE @]
              [] i \notin D /\ \E s \in S : pick[s] = i ->
                   LET s == CHOOSE s \in S : pick[s] = i
                   IN Merged(i, s, {j \in T : mail[j].from = s}, result)
              [] OTHER -> mail[i]]

RecordOne(i, state) == Record({i}, [j \in {i} |-> state], ended)

-----------------------------------------------------------------------------
(* The operations.                                                         *)

\* Mutant of CheckTarget: an agent that has ended still gets mail.
CheckTargetNotState(p, a) ==
  /\ p # a
  /\ p \in Agents => /\ a \in Managed => Parent[a] = p
                     /\ p \in Managed => Parent[p] = a

\* check_target: not oneself, not an agent that has ended, and managed
\* workers and their parents only with each other.
CheckTarget(p, a) ==
  /\ p # a
  /\ a \notin ended
  /\ p \in Agents => /\ a \in Managed => Parent[a] = p
                     /\ p \in Managed => Parent[p] = a

\* Mutant of Recent: the window is one short.
RecentShort(p, a) ==
  {i \in Used : mail[i].from = p /\ mail[i].to = a /\ mail[i].createdAt + Window > now + 1}

\* What p sent to a within the window.
Recent(p, a) ==
  {i \in Used : mail[i].from = p /\ mail[i].to = a /\ mail[i].createdAt + Window > now}

\* An agent without a key may not repeat a body, unless the first one did
\* not arrive or may not have.
SameBody(p, a, b) ==
  \E i \in Recent(p, a) : mail[i].body = b /\ mail[i].state \notin {"failed", "uncertain"}

\* Mutant of Replays: a settled message frees its key.
ReplaysOpen(p, k) ==
  k # NoKey /\ \E i \in Used : /\ mail[i].from = p /\ mail[i].key = k
                              /\ mail[i].state \in {"queued", "delivering"}

\* A key p has used replays the first send and changes nothing.
Replays(p, k) == k # NoKey /\ \E i \in Used : mail[i].from = p /\ mail[i].key = k

\* msg.send.  reply is the row answered, or NoRow.
Send(p, a, b, k, reply) ==
  LET hop == IF reply = NoRow THEN 0 ELSE mail[reply].hop + 1
  IN /\ ~Replays(p, k)
     /\ CheckTarget(p, a)
     /\ p \in Agents => /\ k = NoKey => ~SameBody(p, a, b)
                        /\ Cardinality(Recent(p, a)) < PairLimit
     /\ hop <= MaxHop
     /\ \E i \in Rows :
          /\ IsNext(i)
          /\ mail' = [mail EXCEPT ![i] = NewRow("mail", p, a, b, k, hop, 0)]
     /\ UNCHANGED <<paused, ended, now>>

\* The receipt listener's correction to an agent that answers in-band.
SystemMail(a) ==
  /\ a \notin ended
  /\ \E i \in Rows :
       /\ IsNext(i)
       /\ mail' = [mail EXCEPT ![i] = NewRow("system", Engine, a, NoBody, NoKey, 0, now)]
  /\ UNCHANGED <<paused, ended, now>>

\* Mutant of Eligible: mail in flight does not hold the queue.
EligibleAnyway(a) ==
  {i \in Used : /\ mail[i].to = a /\ mail[i].state = "queued"
                /\ mail[i].notBefore <= now
                /\ mail[i].from \in People \/ a \notin paused}

\* peek_next_id: due mail of an agent with nothing in flight; a pause holds
\* back all but a person's mail.
Eligible(a) ==
  {i \in Used : /\ mail[i].to = a /\ mail[i].state = "queued"
                /\ mail[i].notBefore <= now
                /\ ~\E d \in Used : mail[d].to = a /\ mail[d].state = "delivering"
                /\ mail[i].from \in People \/ a \notin paused}

PeekNext(a, i) == i \in Eligible(a) /\ \A j \in Eligible(a) : i <= j

\* take_next_via.
Take(a, i, via) ==
  /\ PeekNext(a, i)
  /\ mail[i].attempts < MaxTakes
  /\ mail' = [mail EXCEPT ![i] = [Set(mail[i], "delivering") EXCEPT
                                   !.attempts = mail[i].attempts + 1, !.via = via]]
  /\ UNCHANGED <<paused, ended, now>>

\* requeue and requeue_after: wait is the delay, NULL is NoRow's 0.
Requeue(i, notBefore) ==
  /\ i \in Used /\ mail[i].state = "delivering"
  /\ mail' = [mail EXCEPT ![i] = [Set(@, "queued") EXCEPT !.notBefore = notBefore]]
  /\ UNCHANGED <<paused, ended, now>>

\* Mutant of Mark: the state is not checked in the transaction.
MarkUnchecked(i, state) ==
  /\ i \in Used
  /\ RecordOne(i, state)
  /\ UNCHANGED <<paused, ended, now>>

\* mark, which takes a row that is still open.
Mark(i, state) ==
  /\ i \in Used /\ mail[i].state \in {"queued", "delivering"}
  /\ RecordOne(i, state)
  /\ UNCHANGED <<paused, ended, now>>

\* evidence, on a row in flight.
Evidence(i) ==
  /\ i \in Used /\ mail[i].state = "delivering"
  /\ RecordOne(i, "delivered")
  /\ UNCHANGED <<paused, ended, now>>

\* Mutant of LateEvidence: a notice with subjects left keeps its text.
LateEvidenceNoRefresh(i) ==
  LET n == mail[i].notice
  IN /\ i \in Used /\ mail[i].state = "uncertain"
     /\ mail[i].stateAt + LateWindow >= now
     /\ mail' = [j \in Rows |->
          CASE j = i -> Set(mail[i], "delivered")
            [] j = n /\ j # i /\ mail[n].state = "queued" /\ Unresolved(n) = {i} ->
                 Set(mail[n], "cancelled")
            [] OTHER -> mail[j]]
     /\ UNCHANGED <<paused, ended, now>>

\* late_evidence.  The last resolved subject cancels a queued notice; with
\* others left, the notice's text is refreshed.
LateEvidence(i) ==
  LET n    == mail[i].notice
      left == Unresolved(n) \ {i}
  IN /\ i \in Used /\ mail[i].state = "uncertain"
     /\ mail[i].stateAt + LateWindow >= now
     /\ mail' = [j \in Rows |->
          CASE j = i -> Set(mail[i], "delivered")
            [] j = n /\ j # i /\ mail[n].state = "queued" ->
                 IF left = {}
                 THEN Set(mail[n], "cancelled")
                 ELSE [mail[n] EXCEPT !.lists = left]
            [] OTHER -> mail[j]]
     /\ UNCHANGED <<paused, ended, now>>

\* cancel, by a person.
Cancel(i) ==
  /\ i \in Used /\ mail[i].state = "queued"
  /\ RecordOne(i, "cancelled")
  /\ UNCHANGED <<paused, ended, now>>

\* pause and its end.
Pause(a, on) ==
  /\ paused' = IF on THEN paused \union {a} ELSE paused \ {a}
  /\ UNCHANGED <<mail, ended, now>>

\* An agent's row becomes terminal and on_agent_end runs in the same
\* transaction: queued mail to it fails, mail in flight is uncertain.
AgentEnd(a) ==
  LET D == {i \in Used : mail[i].to = a /\ mail[i].state \in {"queued", "delivering"}}
  IN /\ a \notin ended
     /\ ended' = ended \union {a}
     /\ Record(D, [i \in D |-> IF mail[i].state = "queued" THEN "failed" ELSE "uncertain"],
               ended \union {a})
     /\ UNCHANGED <<paused, now>>

\* reconcile_on_boot: nobody holds a message in flight any more, and mail
\* queued for an agent that has ended fails.
Boot ==
  LET D == {i \in Used : \/ mail[i].state = "delivering"
                         \/ mail[i].state = "queued" /\ mail[i].to \in ended}
  IN /\ Record(D, [i \in D |-> IF mail[i].state = "queued" THEN "failed" ELSE "uncertain"],
               ended)
     /\ UNCHANGED <<paused, ended, now>>

Tick == now < MaxNow /\ now' = now + 1 /\ UNCHANGED <<mail, paused, ended>>

-----------------------------------------------------------------------------
BlankRow == [NewRow("system", Engine, CHOOSE a \in Agents : TRUE, NoBody, NoKey, 0, 0)
               EXCEPT !.state = Free]

Init ==
  /\ now = 0 /\ paused = {} /\ ended = {}
  /\ mail = [i \in Rows |-> BlankRow]

Next ==
  \/ \E p \in Agents \union People, a \in Agents, b \in Bodies,
        k \in Keys \union {NoKey}, r \in Used \union {NoRow} : Send(p, a, b, k, r)
  \/ \E a \in Corrected : SystemMail(a)
  \/ \E a \in Agents : AgentEnd(a)
  \/ \E a \in Agents, i \in Rows, via \in Routes : Take(a, i, via)
  \/ \E i \in Rows, w \in {0} \union {now + d : d \in Backoffs} : Requeue(i, w)
  \/ \E i \in Rows, s \in Results : Mark(i, s)
  \/ \E i \in Rows : Evidence(i) \/ LateEvidence(i) \/ Cancel(i)
  \/ \E a \in Pausable, on \in BOOLEAN : Pause(a, on)
  \/ Boot
  \/ Tick

Spec == Init /\ [][Next]_vars
-----------------------------------------------------------------------------
(* Properties.                                                             *)

TypeOK ==
  /\ mail \in [Rows -> Row]
  /\ paused \subseteq Agents /\ ended \subseteq Agents
  /\ now \in Nat

\* Only one message per target is in flight, whichever mix of takes,
\* requeues, receipts and restarts led here (take_next_via, peek_next_id).
OneInFlight ==
  \A i, j \in Used :
    mail[i].state = "delivering" /\ mail[j].state = "delivering" /\ mail[i].to = mail[j].to
      => i = j

\* The table keeps its shape, and an agent gets its mail one at a time.
QueueIsTrue == TypeOK /\ OneInFlight

\* An agent that has ended has no open mail: neither a send, a notice nor a
\* requeue puts a row back into its queue (on_agent_end, notify_sender).
NoMailAfterEnd ==
  \A i \in Used : mail[i].to \in ended => mail[i].state \notin {"queued", "delivering"}

\* A result is final: no operation moves it, except that evidence delivers
\* an uncertain row within the late window, and never one later.
FinalStays ==
  [][\A i \in Used :
       mail[i].state \notin {"queued", "delivering"} /\ mail'[i].state # mail[i].state
         => /\ mail[i].state = "uncertain" /\ mail'[i].state = "delivered"
            /\ now <= mail[i].stateAt + LateWindow]_vars

\* Every agent that is still there has been told of each unhappy result of
\* its mail: the row names a notice, addressed to that agent and about no
\* notice, whether the result came alone or with an agent's end or a boot.
SenderIsTold ==
  \A i \in Used :
    /\ mail[i].state \in Unhappy /\ mail[i].kind = "mail" /\ mail[i].from \in Agents \ ended
         => mail[i].notice # NoRow
    /\ mail[i].notice # NoRow
         => /\ mail[i].kind = "mail"
            /\ mail[i].notice \in Used
            /\ mail[mail[i].notice].kind = "notice"
            /\ mail[mail[i].notice].to = mail[i].from

\* A notice that still waits for its first delivery lists exactly the
\* results that stand: merges and late evidence keep the text current, and
\* a notice with nothing left to say is not sent (refresh_notice).
NoticeIsCurrent ==
  \A n \in Used :
    mail[n].kind = "notice" /\ mail[n].state = "queued" /\ mail[n].attempts = 0
      => mail[n].lists = Unresolved(n) /\ mail[n].lists # {}

\* A notice is not taken before every uncertain result in it has had the
\* whole delay for late evidence, however results were merged into it and
\* however often it was requeued.
NoticeWaits ==
  [][\A n \in Used :
       mail[n].kind = "notice" /\ mail[n].state = "queued" /\ mail'[n].state = "delivering"
         => \A i \in Unresolved(n) :
              mail[i].state = "uncertain" => mail[i].stateAt + NoticeDelay <= now]_vars

\* Who sent a message that came to no good end hears of it once, in time and
\* as it stands.
NoticesTell == [](SenderIsTold /\ NoticeIsCurrent) /\ NoticeWaits

\* A key names one row of its sender for good, so a retried send adds none.
KeyOnce ==
  \A i, j \in Used :
    mail[i].key # NoKey /\ mail[i].key = mail[j].key /\ mail[i].from = mail[j].from => i = j

\* In every stretch of the window's length an agent sends a target at most
\* PAIR_LIMIT messages, although sends at the edge of two windows count in
\* both.
PairBound ==
  \A p, a \in Agents : \A t \in 0..MaxNow :
    Cardinality({i \in Used : /\ mail[i].from = p /\ mail[i].to = a
                             /\ mail[i].createdAt \in t..(t + Window - 1)}) <= PairLimit
=============================================================================
