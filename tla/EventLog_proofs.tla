--------------------------- MODULE EventLog_proofs --------------------------
(* Proofs about the event log, for every number of clients, every batch    *)
(* size and retention, and logs and epochs of any length.                  *)
EXTENDS EventLog, TLAPS, WellFoundedInduction

-----------------------------------------------------------------------------
(* The newest and the oldest row.                                          *)

LEMMA NewestIs ==
  ASSUME NEW ev \in SUBSET Row, NEW n \in ev, \A r \in ev : r.seq <= n.seq
  PROVE  Newest(ev) = n.seq
<1> DEFINE S == {r.seq : r \in ev}
<1>1. n.seq \in S /\ S \subseteq Nat
  BY DEF Row
<1>2. PICK m \in S : m = Newest(ev) /\ \A r \in ev : r.seq <= m
  BY <1>1 DEF Newest
<1>3. n.seq <= m /\ m <= n.seq
  BY <1>2
<1> QED BY <1>1, <1>2, <1>3

LEMMA OldestExists ==
  ASSUME NEW ev \in SUBSET Row, ev # {}
  PROVE  \E o \in ev : \A r \in ev : o.seq <= r.seq
<1> DEFINE S == {r.seq : r \in ev}
<1>1. S \subseteq Nat /\ S # {}
  BY DEF Row
<1> DEFINE R == OpToRel(<, Nat)
<1>2. IsWellFoundedOn(R, Nat)
  BY NatLessThanWellFounded
<1>3. \A x, y \in Nat : x < y => <<x, y>> \in R
  BY Zenon DEF OpToRel
<1> HIDE DEF R
<1>4. PICK x \in S : \A y \in S : ~ (<<y, x>> \in R)
  BY <1>1, <1>2, WFMin
<1> HIDE DEF S
<1>5. \A y \in S : x <= y
  <2> SUFFICES ASSUME NEW y \in S, ~ (x <= y) PROVE FALSE
    OBVIOUS
  <2>1. x \in Nat /\ y \in Nat /\ y < x
    BY <1>1
  <2>2. <<y, x>> \in R
    BY <2>1, <1>3, Zenon
  <2> QED BY <2>2, <1>4, Zenon
<1> USE DEF S
<1>6. PICK o \in ev : o.seq = x
  OBVIOUS
<1> QED BY <1>5, <1>6

-----------------------------------------------------------------------------
(* The inductive invariant.                                                *)

\* Of the rows ever committed, the newest is still stored.
NewestStays == log # {} => \E n \in events : \A r \in log : r.seq <= n.seq

\* A row that is gone was a session view, or everything up to it is gone.
HolesAreViews ==
  \A r \in log \ events : r.event \in ViewEvents \/ \A e \in events : r.seq < e.seq

LogInv ==
  /\ events \subseteq log
  /\ NewestStays
  /\ HolesAreViews
  /\ \A a, b \in log : a.seq = b.seq => a = b

\* The rows of `from`..`upto` that c must get.
Owed(c, from, upto) ==
  {r \in log : from < r.seq /\ r.seq <= upto /\ r.event \in Wanted[c] \ ViewEvents}

ClientInv(c) ==
  /\ client[c].epoch <= epoch
  /\ client[c].epoch = epoch =>
       /\ client[c].seq <= Newest(events)
       /\ Owed(c, client[c].from, client[c].seq) \subseteq client[c].got

StreamInv(c) ==
  /\ sub[c].state = "off" => sub[c].wire = {}
  /\ sub[c].state # "off" =>
       /\ client[c].epoch = epoch
       /\ client[c].seq <= sub[c].after /\ sub[c].after <= Newest(events)
       /\ sub[c].wire \subseteq log
       /\ \A w \in sub[c].wire : client[c].seq < w.seq /\ w.seq <= sub[c].after
       /\ Owed(c, client[c].seq, sub[c].after) \subseteq sub[c].wire

Inv ==
  /\ TypeOK
  /\ LogInv
  /\ \A c \in Clients : ClientInv(c) /\ StreamInv(c)

LEMMA NewestOfLog ==
  ASSUME TypeOK, events \subseteq log, NewestStays
  PROVE  /\ Newest(events) \in Nat
         /\ \A r \in log : r.seq <= Newest(events)
         /\ log # {} => \E n \in events : n.seq = Newest(events)
<1>1. CASE log = {}
  BY <1>1 DEF Newest
<1>2. CASE log # {}
  <2>1. PICK n \in events : \A r \in log : r.seq <= n.seq
    BY <1>2 DEF NewestStays
  <2>2. Newest(events) = n.seq
    BY <2>1, NewestIs DEF TypeOK
  <2> QED BY <2>1, <2>2 DEF TypeOK, Row
<1> QED BY <1>1, <1>2

LEMMA InitInv == Init => Inv
BY DEF Init, Inv, TypeOK, LogInv, NewestStays, HolesAreViews, ClientInv, StreamInv,
       Owed, Off, NoCursor, Stream, ClientState

-----------------------------------------------------------------------------
(* Steps of the writer.                                                    *)

\* What a transaction does to the table.
LEMMA WriteTable ==
  ASSUME Inv, NEW n \in Nat \ {0}, NEW new \in [1 .. n -> Events],
         NEW dead \in SUBSET {r.seq : r \in events}, Write(new, dead)
  PROVE  /\ events' \subseteq Row /\ log' \subseteq Row /\ unsent' \in Nat
         /\ LogInv'
         /\ Newest(events') = Newest(events) + n
         /\ log \subseteq log' /\ log' # log
         /\ \A r \in log' \ log : Newest(events) < r.seq
         /\ \A q \in Nat : ~Expired(events, q) => ~Expired(events', q)
<1> DEFINE N == Newest(events)
           added == Appended(events, new)
           all == events \cup added
           gone == Compacted(all, dead)
           top == [seq |-> N + n, event |-> new[n]]
<1>1. /\ N \in Nat /\ \A r \in log : r.seq <= N
      /\ events \subseteq Row /\ log \subseteq Row /\ events \subseteq log
      /\ HolesAreViews
      /\ \A a, b \in log : a.seq = b.seq => a = b
  BY NewestOfLog DEF Inv, LogInv, TypeOK
<1>2. Len(new) = n /\ DOMAIN new = 1 .. n
  <2>1. new \in Seq(Events)
    OBVIOUS
  <2> QED BY <2>1
<1>3. /\ events' = all \ gone /\ log' = log \cup added
      /\ unsent' = IF new = <<>> THEN 0 ELSE N + n
  BY <1>2 DEF Write
<1>4. /\ added \subseteq Row
      /\ \A r \in added : N < r.seq /\ r.seq <= N + n
      /\ \A a, b \in added : a.seq = b.seq => a = b
      /\ \A i \in 1 .. n : [seq |-> N + i, event |-> new[i]] \in added
  <2>1. added = {[seq |-> N + i, event |-> new[i]] : i \in 1 .. n}
    BY <1>2 DEF Appended
  <2>2. \A i \in 1 .. n : new[i] \in Events /\ N + i \in Nat \ {0} /\ i <= n
    BY <1>1
  <2>3. \A r \in added : \E i \in 1 .. n : r = [seq |-> N + i, event |-> new[i]]
    BY <2>1
  <2>4. added \subseteq Row
    BY <2>2, <2>3 DEF Row
  <2>5. \A r \in added : N < r.seq /\ r.seq <= N + n
    <3> SUFFICES ASSUME NEW r \in added PROVE N < r.seq /\ r.seq <= N + n
      OBVIOUS
    <3>1. PICK i \in 1 .. n : r = [seq |-> N + i, event |-> new[i]]
      BY <2>3
    <3> QED BY <3>1, <1>1
  <2>6. \A a, b \in added : a.seq = b.seq => a = b
    <3> SUFFICES ASSUME NEW a \in added, NEW b \in added, a.seq = b.seq PROVE a = b
      OBVIOUS
    <3>1. PICK i \in 1 .. n : a = [seq |-> N + i, event |-> new[i]]
      BY <2>3
    <3>2. PICK j \in 1 .. n : b = [seq |-> N + j, event |-> new[j]]
      BY <2>3
    <3>3. i = j
      BY <3>1, <3>2, <1>1
    <3> QED BY <3>1, <3>2, <3>3
  <2> QED BY <2>1, <2>4, <2>5, <2>6
<1>5. top \in added /\ top.seq = N + n
  BY <1>4
<1> HIDE DEF N, added
<1>6. gone \subseteq events
  <2> SUFFICES ASSUME NEW r \in gone PROVE r \in events
    OBVIOUS
  <2>1. PICK e \in events : r.seq = e.seq
    BY DEF Compacted
  <2> QED BY <2>1, <1>1, <1>4 DEF Compacted, Row
<1>7. gone \subseteq {r \in all : r.event \in ViewEvents /\ \E o \in all : o.seq < r.seq}
  BY DEF Compacted
<1> HIDE DEF gone
<1>8. top \in events' /\ \A r \in log' : r.seq <= top.seq
  <2>1. top \notin events
    BY <1>1, <1>4, <1>5 DEF Row
  <2>2. \A r \in log : r.seq <= N /\ r.seq \in Nat
    BY <1>1 DEF Row
  <2>3. \A r \in log : r.seq <= N + n
    BY <2>2, <1>1
  <2> QED BY <2>1, <2>3, <1>3, <1>4, <1>5, <1>6
<1> HIDE DEF top
<1>9. events' \subseteq Row /\ log' \subseteq Row /\ unsent' \in Nat
  BY <1>1, <1>3, <1>4
<1>10. Newest(events') = N + n
  <2>1. \A r \in events' : r.seq <= top.seq
    BY <1>1, <1>3, <1>8
  <2> QED BY <2>1, <1>5, <1>8, <1>9, NewestIs
<1>11. LogInv'
  <2>1. events' \subseteq log'
    BY <1>1, <1>3
  <2>2. NewestStays'
    BY <1>8 DEF NewestStays
  <2>3. HolesAreViews'
    <3> SUFFICES ASSUME NEW r \in log' \ events', r.event \notin ViewEvents,
                        NEW e \in events'
                 PROVE  r.seq < e.seq
      BY DEF HolesAreViews
    <3>1. r \in log \ events
      BY <1>3, <1>6, <1>7
    <3>2. CASE e \in events
      BY <3>1, <3>2, <1>1 DEF HolesAreViews
    <3>3. CASE e \in added
      BY <3>1, <3>3, <1>1, <1>4 DEF Row
    <3> QED BY <3>2, <3>3, <1>3
  <2>4. \A a, b \in log' : a.seq = b.seq => a = b
    <3>1. \A a \in log, b \in added : a.seq < b.seq
      BY <1>1, <1>4 DEF Row
    <3> QED BY <3>1, <1>1, <1>3, <1>4 DEF Row
  <2> QED BY <2>1, <2>2, <2>3, <2>4 DEF LogInv
<1>12. log \subseteq log' /\ log' # log
  BY <1>1, <1>3, <1>4, <1>5 DEF Row
<1>13. \A r \in log' \ log : N < r.seq
  BY <1>3, <1>4
<1>14. \A q \in Nat : ~Expired(events, q) => ~Expired(events', q)
  <2> SUFFICES ASSUME NEW q \in Nat, ~Expired(events, q)
               PROVE  ~Expired(events', q)
    OBVIOUS
  <2>1. q <= N /\ (events = {} \/ \E r \in events : r.seq <= q + 1)
    BY <1>1 DEF Expired, Row, N
  <2>2. q <= Newest(events')
    BY <2>1, <1>1, <1>10
  <2>3. PICK o \in all : \A r \in all : o.seq <= r.seq
    BY <1>1, <1>4, <1>5, OldestExists
  <2>4. o \in events'
    BY <2>3, <1>1, <1>3, <1>4, <1>7 DEF Row
  <2>5. o.seq <= q + 1
    <3>1. CASE events = {}
      <4>1. N = 0 /\ q = 0
        BY <3>1, <2>1 DEF Newest, N
      <4>2. [seq |-> N + 1, event |-> new[1]] \in all
        BY <1>4
      <4> QED BY <4>1, <4>2, <2>3
    <3>2. CASE \E r \in events : r.seq <= q + 1
      BY <3>2, <2>3, <1>1, <1>4 DEF Row
    <3> QED BY <3>1, <3>2, <2>1
  <2>6. ~ (Newest(events') < q)
    BY <2>2, <1>1, <1>10
  <2>7. ~ (q + 1 < o.seq)
    BY <2>4, <2>5, <1>9 DEF Row
  <2> QED BY <2>4, <2>6, <2>7 DEF Expired
<1> QED BY <1>9, <1>10, <1>11, <1>12, <1>13, <1>14 DEF N

\* What retention does to the table.
LEMMA PruneTable ==
  ASSUME Inv, NEW old \in Int, NEW kept, kept = events \ Prunable(events, old)
  PROVE  /\ kept \subseteq events
         /\ log # {} => \E n \in kept : \A r \in log : r.seq <= n.seq
         /\ \A r \in log \ kept :
              r.event \in ViewEvents \/ \A e \in kept : r.seq < e.seq
         /\ Newest(kept) = Newest(events)
<1> DEFINE gone == Prunable(events, old)
<1>1. /\ Newest(events) \in Nat /\ events \subseteq log
      /\ events \subseteq Row /\ log \subseteq Row
      /\ HolesAreViews /\ NewestStays /\ Keep \in Nat
  BY NewestOfLog, EventLogAssumption DEF Inv, LogInv, TypeOK
<1>2. \A n \in events : (\A r \in events : r.seq <= n.seq) => n \in kept
  BY <1>1 DEF Prunable, Row
<1>3. log # {} => \E n \in kept : \A r \in log : r.seq <= n.seq
  BY <1>1, <1>2 DEF NewestStays
<1>4. \A r \in log \ kept : r.event \in ViewEvents \/ \A e \in kept : r.seq < e.seq
  <2> SUFFICES ASSUME NEW r \in log \ kept, r.event \notin ViewEvents, NEW e \in kept
               PROVE  r.seq < e.seq
    OBVIOUS
  <2>1. CASE r \notin events
    BY <2>1, <1>1 DEF HolesAreViews
  <2>2. CASE r \in events
    <3>1. /\ \E n \in events : r.seq < n.seq
          /\ r.seq <= old \/ r.seq <= Newest(events) - Keep
      BY <2>2 DEF Prunable
    <3>2. \/ \A n \in events : ~ (e.seq < n.seq)
          \/ ~ (e.seq <= old) /\ ~ (e.seq <= Newest(events) - Keep)
      BY DEF Prunable
    <3>3. \A n \in events : n.seq \in Nat
      BY <1>1 DEF Row
    <3>4. r.seq \in Nat /\ e.seq \in Nat
      BY <3>3, <2>2
    <3>5. CASE \A n \in events : ~ (e.seq < n.seq)
      BY <3>1, <3>3, <3>4, <3>5
    <3>6. CASE ~ (e.seq <= old) /\ ~ (e.seq <= Newest(events) - Keep)
      BY <3>1, <3>4, <3>6, <1>1
    <3> QED BY <3>2, <3>5, <3>6
  <2> QED BY <2>1, <2>2
<1>5. Newest(kept) = Newest(events)
  <2>1. CASE log = {}
    BY <2>1, <1>1
  <2>2. CASE log # {}
    <3>1. PICK n \in kept : \A r \in log : r.seq <= n.seq
      BY <2>2, <1>3
    <3>2. Newest(events) = n.seq
      BY <3>1, <1>1, NewestIs
    <3>3. Newest(kept) = n.seq
      BY <3>1, <1>1, NewestIs
    <3> QED BY <3>2, <3>3
  <2> QED BY <2>1, <2>2
<1> QED BY <1>3, <1>4, <1>5

-----------------------------------------------------------------------------
(* Steps that leave the clients' cursors alone.                            *)

SubKept(c) ==
  \/ sub'[c] = Off
  \/ /\ sub'[c].state = "off" <=> sub[c].state = "off"
     /\ sub'[c].after = sub[c].after
     /\ sub'[c].wire = sub[c].wire

\* New rows are above every cursor, so nobody is owed them yet.
LEMMA CursorsKept ==
  ASSUME Inv, TypeOK', UNCHANGED <<client, epoch>>, log \subseteq log',
         \A r \in log' \ log : Newest(events) < r.seq,
         Newest(events) <= Newest(events'), Newest(events') \in Nat,
         \A c \in Clients : SubKept(c)
  PROVE  \A c \in Clients : ClientInv(c)' /\ StreamInv(c)'
<1> SUFFICES ASSUME NEW c \in Clients PROVE ClientInv(c)' /\ StreamInv(c)'
  OBVIOUS
<1>1. /\ Newest(events) \in Nat
      /\ client[c].epoch \in Nat /\ client[c].seq \in Nat /\ client[c].from \in Nat
      /\ sub[c].after \in Nat
      /\ ClientInv(c) /\ StreamInv(c)
      /\ \A r \in log' : r.seq \in Nat
  BY NewestOfLog DEF Inv, LogInv, TypeOK, ClientState, Stream, Row
<1>2. \A from, upto \in Nat : upto <= Newest(events) =>
        Owed(c, from, upto)' = Owed(c, from, upto)
  <2> SUFFICES ASSUME NEW from \in Nat, NEW upto \in Nat, upto <= Newest(events),
                      NEW r \in log'
               PROVE  r.seq <= upto => r \in log
    BY DEF Owed
  <2> QED BY <1>1
<1>3. ClientInv(c)'
  <2>1. client[c].epoch = epoch =>
          Owed(c, client[c].from, client[c].seq)' = Owed(c, client[c].from, client[c].seq)
    BY <1>1, <1>2 DEF ClientInv, Owed
  <2> QED BY <2>1, <1>1 DEF ClientInv
<1>4. StreamInv(c)'
  <2>1. CASE sub'[c] = Off
    BY <2>1 DEF StreamInv, Off
  <2>2. CASE /\ sub'[c].state = "off" <=> sub[c].state = "off"
             /\ sub'[c].after = sub[c].after
             /\ sub'[c].wire = sub[c].wire
    <3>1. sub[c].state # "off" =>
            Owed(c, client[c].seq, sub[c].after)' = Owed(c, client[c].seq, sub[c].after)
      BY <1>1, <1>2, <2>2 DEF StreamInv, Owed
    <3> QED BY <2>2, <3>1, <1>1 DEF StreamInv
  <2> QED BY <2>1, <2>2 DEF SubKept
<1> QED BY <1>3, <1>4

LEMMA WriteStep ==
  ASSUME Inv, LogWrite
  PROVE  /\ Inv'
         /\ \A r \in log' \ log : \A o \in log : o.seq < r.seq
         /\ \A q \in Nat : ~Expired(events, q) => ~Expired(events', q)
<1>0. PICK n \in 1 .. MaxWrite :
        \E new \in [1 .. n -> Events] :
          \E dead \in SUBSET {r.seq : r \in events} : Write(new, dead)
  BY DEF LogWrite
<1>1. PICK new \in [1 .. n -> Events], dead \in SUBSET {r.seq : r \in events} :
        Write(new, dead)
  BY <1>0
<1>2. n \in Nat \ {0}
  BY EventLogAssumption
<1>3. /\ events' \subseteq Row /\ log' \subseteq Row /\ unsent' \in Nat
      /\ LogInv'
      /\ Newest(events') = Newest(events) + n
      /\ log \subseteq log'
      /\ \A r \in log' \ log : Newest(events) < r.seq
      /\ \A q \in Nat : ~Expired(events, q) => ~Expired(events', q)
  BY <1>1, <1>2, WriteTable
<1>4. UNCHANGED <<epoch, head, sub, client>>
  BY <1>1 DEF Write
<1>5. TypeOK'
  BY <1>3, <1>4 DEF Inv, TypeOK
<1>6. Newest(events) \in Nat /\ \A o \in log : o.seq <= Newest(events) /\ o.seq \in Nat
  BY NewestOfLog DEF Inv, LogInv, TypeOK, Row
<1>7. Newest(events) <= Newest(events') /\ Newest(events') \in Nat
  BY <1>2, <1>3, <1>6
<1>8. \A c \in Clients : SubKept(c)
  BY <1>4 DEF SubKept
<1>9. \A c \in Clients : ClientInv(c)' /\ StreamInv(c)'
  BY <1>3, <1>4, <1>5, <1>7, <1>8, CursorsKept
<1>10. \A r \in log' \ log : \A o \in log : o.seq < r.seq
  BY <1>3, <1>6 DEF Row
<1> QED BY <1>3, <1>5, <1>9, <1>10 DEF Inv

\* A step that leaves the table alone, or only prunes it.
LEMMA TableKept ==
  ASSUME Inv, TypeOK', UNCHANGED <<log, epoch, client>>,
         \/ UNCHANGED events
         \/ \E old \in Int : events' = events \ Prunable(events, old),
         \A c \in Clients : SubKept(c)
  PROVE  Inv'
<1>1. /\ LogInv' /\ Newest(events') = Newest(events)
  <2>1. CASE UNCHANGED events
    BY <2>1 DEF Inv, LogInv, NewestStays, HolesAreViews
  <2>2. CASE \E old \in Int : events' = events \ Prunable(events, old)
    <3>1. PICK old \in Int : events' = events \ Prunable(events, old)
      BY <2>2
    <3>2. /\ events' \subseteq events
          /\ log # {} => \E n \in events' : \A r \in log : r.seq <= n.seq
          /\ \A r \in log \ events' :
               r.event \in ViewEvents \/ \A e \in events' : r.seq < e.seq
          /\ Newest(events') = Newest(events)
      BY <3>1, PruneTable
    <3> QED BY <3>2 DEF Inv, LogInv, NewestStays, HolesAreViews
  <2> QED BY <2>1, <2>2
<1>2. Newest(events) \in Nat
  BY NewestOfLog DEF Inv, LogInv
<1>3. \A c \in Clients : ClientInv(c)' /\ StreamInv(c)'
  BY <1>1, <1>2, CursorsKept
<1> QED BY <1>1, <1>3 DEF Inv

LEMMA PublishStep == ASSUME Inv, Publish PROVE Inv'
<1>1. TypeOK'
  BY DEF Inv, TypeOK, Publish, Stream
<1>2. \A c \in Clients : SubKept(c)
  BY DEF Inv, TypeOK, Publish, Stream, SubKept
<1> QED BY <1>1, <1>2, TableKept DEF Publish

LEMMA PruneStep == ASSUME Inv, NEW old \in Int, Prune(old) PROVE Inv'
<1>1. TypeOK'
  BY DEF Inv, TypeOK, Prune
<1>2. \A c \in Clients : SubKept(c)
  BY DEF Prune, SubKept
<1> QED BY <1>1, <1>2, TableKept DEF Prune

LEMMA RestartStep == ASSUME Inv, NEW old \in Int, Restart(old) PROVE Inv'
<1>1. Newest(events') \in Nat
  <2>1. Newest(events') = Newest(events)
    BY PruneTable DEF Restart
  <2> QED BY <2>1, NewestOfLog DEF Inv, LogInv
<1>2. Off \in Stream
  BY DEF Off, Stream
<1>3. TypeOK'
  BY <1>1, <1>2 DEF Inv, TypeOK, Restart
<1>4. \A c \in Clients : SubKept(c)
  BY DEF Restart, SubKept
<1> QED BY <1>3, <1>4, TableKept DEF Restart

LEMMA RecreateStep == ASSUME Inv, Recreate PROVE Inv'
<1>1. TypeOK'
  BY DEF Inv, TypeOK, Recreate, Stream, Off
<1>2. LogInv'
  BY DEF Recreate, LogInv, NewestStays, HolesAreViews
<1>3. \A c \in Clients : ClientInv(c)'
  BY DEF Inv, TypeOK, ClientState, Recreate, ClientInv
<1>4. \A c \in Clients : StreamInv(c)'
  BY DEF Recreate, StreamInv, Off
<1> QED BY <1>1, <1>2, <1>3, <1>4 DEF Inv

\* The steps of a stream that move no cursor, and a broken connection.
LEMMA IdleStep ==
  ASSUME Inv, NEW c \in Clients,
         ReadNothing(c) \/ Park(c) \/ ReadExpired(c) \/ Wake(c) \/ Drop(c)
  PROVE  Inv'
<1>1. TypeOK'
  <2>1. CASE ReadNothing(c)
    BY <2>1 DEF Inv, TypeOK, ReadNothing, Stream
  <2>2. CASE ReadExpired(c)
    BY <2>2 DEF Inv, TypeOK, ReadExpired, Stream
  <2>3. CASE Wake(c)
    BY <2>3 DEF Inv, TypeOK, Wake, Stream
  <2>4. CASE Park(c)
    BY <2>4 DEF Inv, TypeOK, Park, Stream
  <2>5. CASE Drop(c)
    BY <2>5 DEF Inv, TypeOK, Drop, Stream, Off
  <2> QED BY <2>1, <2>2, <2>3, <2>4, <2>5
<1>2. \A d \in Clients : SubKept(d)
  BY DEF Inv, TypeOK, ReadNothing, Park, ReadExpired, MayRead, Wake, Drop, Stream, SubKept
<1> QED BY <1>1, <1>2, TableKept DEF ReadNothing, Park, ReadExpired, Wake, Drop

-----------------------------------------------------------------------------
(* Steps of one client.                                                    *)

\* What a step of client c leaves of the others.
LEMMA OthersKept ==
  ASSUME Inv, TypeOK', NEW c \in Clients, UNCHANGED <<events, log, epoch>>,
         \A d \in Clients \ {c} : UNCHANGED <<sub[d], client[d]>>,
         ClientInv(c)', StreamInv(c)'
  PROVE  Inv'
<1>1. LogInv'
  BY DEF Inv, LogInv, NewestStays, HolesAreViews
<1>2. \A d \in Clients \ {c} : ClientInv(d)' /\ StreamInv(d)'
  BY DEF Inv, ClientInv, StreamInv, Owed
<1> QED BY <1>1, <1>2 DEF Inv

LEMMA SnapshotStep ==
  ASSUME Inv, NEW c \in Clients, NEW at \in Nat, Snapshot(c, at)
  PROVE  Inv'
<1>1. TypeOK'
  BY DEF Inv, TypeOK, Snapshot, ClientState
<1>2. ClientInv(c)'
  BY DEF Inv, TypeOK, Snapshot, ClientInv, ClientState, Owed, Row
<1>3. StreamInv(c)'
  BY DEF Inv, TypeOK, Snapshot, StreamInv
<1> QED BY <1>1, <1>2, <1>3, OthersKept DEF Inv, TypeOK, Snapshot

LEMMA SubscribeStep == ASSUME Inv, NEW c \in Clients, Subscribe(c) PROVE Inv'
<1>1. TypeOK'
  BY DEF Inv, TypeOK, Subscribe, ClientState, Stream, Off
<1>2. ClientInv(c)'
  BY DEF Inv, Subscribe, ClientInv, Owed
<1>3. StreamInv(c)'
  <2>1. /\ sub'[c].state = "read" /\ sub'[c].after = client[c].seq
        /\ sub'[c].wire = {}
    BY DEF Inv, TypeOK, Subscribe, Off
  <2>2. client[c].epoch = epoch /\ client[c].seq <= Newest(events)
    BY DEF Inv, ClientInv, Subscribe, CursorOk
  <2>3. Owed(c, client[c].seq, client[c].seq) = {} /\ client[c].seq <= client[c].seq
    BY DEF Inv, TypeOK, ClientState, Row, Owed
  <2> QED BY <2>1, <2>2, <2>3 DEF Subscribe, StreamInv, Owed
<1> QED BY <1>1, <1>2, <1>3, OthersKept DEF Inv, TypeOK, Subscribe

LEMMA CursorLost ==
  ASSUME Inv, NEW c \in Clients, Refused(c) \/ Ended(c)
  PROVE  Inv'
<1>1. TypeOK'
  <2>1. Off \in Stream /\ NoCursor \in ClientState
    BY DEF Off, Stream, NoCursor, ClientState
  <2>2. CASE Refused(c)
    BY <2>1, <2>2 DEF Inv, TypeOK, Refused
  <2>3. CASE Ended(c)
    BY <2>1, <2>3 DEF Inv, TypeOK, Ended
  <2> QED BY <2>2, <2>3
<1>2. client'[c] = NoCursor /\ sub'[c].state = "off" /\ sub'[c].wire = {}
  BY DEF Inv, TypeOK, StreamInv, Refused, Ended, Off
<1>3. ClientInv(c)'
  BY <1>2 DEF Inv, TypeOK, Refused, Ended, ClientInv, NoCursor
<1>4. StreamInv(c)'
  BY <1>2 DEF StreamInv
<1> QED BY <1>1, <1>3, <1>4, OthersKept DEF Inv, TypeOK, Refused, Ended

\* A read takes every row from the last one read on: what is missing was
\* pruned before it, which check_after excludes, or is a view.
LEMMA ReadRowsStep == ASSUME Inv, NEW c \in Clients, ReadRows(c) PROVE Inv'
<1>1. PICK last \in events :
        LET batch == Between(events, sub[c].after, last.seq)
        IN  /\ last \in batch
            /\ sub' = [sub EXCEPT
                         ![c].after = last.seq,
                         ![c].wire = sub[c].wire \cup
                                     {r \in batch : r.event \in Wanted[c]}]
  BY DEF ReadRows
<1> DEFINE batch == Between(events, sub[c].after, last.seq)
           sent == {r \in batch : r.event \in Wanted[c]}
<1>2. /\ sub[c].state = "read" /\ ~Expired(events, sub[c].after)
      /\ UNCHANGED <<events, log, epoch, client>>
  BY DEF ReadRows, MayRead
<1>3. /\ events \subseteq Row /\ log \subseteq Row /\ events \subseteq log
      /\ HolesAreViews
      /\ last.seq <= Newest(events)
      /\ sub[c] \in Stream /\ client[c] \in ClientState
      /\ last.seq \in Nat
  BY NewestOfLog DEF Inv, LogInv, TypeOK, Row
<1>4. /\ sub'[c].state = sub[c].state
      /\ sub'[c].after = last.seq
      /\ sub'[c].wire = sub[c].wire \cup sent
      /\ sub' = [sub EXCEPT ![c] = sub'[c]]
      /\ sub'[c].woken = sub[c].woken
      /\ sub'[c] \in Stream
  BY <1>1, <1>3 DEF Inv, TypeOK, Stream, Between
<1>5. sub[c].after < last.seq
  BY <1>1 DEF Between
<1>6. TypeOK'
  <2>1. sub' \in [Clients -> Stream]
    BY <1>4 DEF Inv, TypeOK
  <2> QED BY <2>1 DEF Inv, TypeOK, ReadRows
<1>7. ClientInv(c)'
  BY <1>2 DEF Inv, ClientInv, Owed
<1>8. /\ client[c].epoch = epoch /\ sub[c].wire \subseteq log
      /\ client[c].seq <= sub[c].after
      /\ \A w \in sub[c].wire : client[c].seq < w.seq /\ w.seq <= sub[c].after
      /\ Owed(c, client[c].seq, sub[c].after) \subseteq sub[c].wire
      /\ client[c].seq \in Nat /\ sub[c].after \in Nat
  BY <1>2, <1>3 DEF Inv, StreamInv, Stream, ClientState
<1>9. \A r \in log : r.seq \in Nat
  BY <1>3 DEF Row
<1>10. Owed(c, client[c].seq, last.seq) \subseteq sub[c].wire \cup sent
  <2> SUFFICES ASSUME NEW r \in log, client[c].seq < r.seq, r.seq <= last.seq,
                      r.event \in Wanted[c] \ ViewEvents,
                      ~ (r.seq <= sub[c].after)
               PROVE  r \in sent
    BY <1>8 DEF Owed
  <2>1. PICK e \in events : ~ (sub[c].after + 1 < e.seq)
    BY <1>2 DEF Expired
  <2>2. r \in events
    BY <2>1, <1>3, <1>8, <1>9 DEF HolesAreViews
  <2> QED BY <2>2, <1>8, <1>9 DEF Between
<1>11. /\ sub[c].wire \cup sent \subseteq log
       /\ \A w \in sub[c].wire \cup sent : client[c].seq < w.seq /\ w.seq <= last.seq
  <2>1. \A w \in sent : /\ w \in log /\ w.seq \in Nat
                        /\ sub[c].after < w.seq /\ w.seq <= last.seq
    BY <1>3, <1>9 DEF Between
  <2>2. \A w \in sent : client[c].seq < w.seq
    BY <2>1, <1>8
  <2>3. \A w \in sub[c].wire : w \in log /\ client[c].seq < w.seq /\ w.seq <= last.seq
    BY <1>3, <1>5, <1>8, <1>9
  <2> QED BY <2>1, <2>2, <2>3
<1> HIDE DEF sent
<1>12. StreamInv(c)'
  <2>1. sub'[c].state # "off" /\ client' = client /\ log' = log /\ epoch' = epoch
    BY <1>2, <1>4
  <2>2. Owed(c, client[c].seq, sub[c].after)' = Owed(c, client[c].seq, last.seq)
    BY <1>4, <2>1 DEF Owed
  <2>3. Newest(events') = Newest(events) /\ client[c].seq <= last.seq
    BY <1>2, <1>3, <1>5, <1>8
  <2> QED BY <1>3, <1>4, <1>8, <1>10, <1>11, <2>1, <2>2, <2>3 DEF StreamInv
<1>13. \A d \in Clients \ {c} : UNCHANGED <<sub[d], client[d]>>
  BY <1>1, <1>2 DEF Inv, TypeOK
<1> QED BY <1>2, <1>6, <1>7, <1>12, <1>13, OthersKept

\* The frame with the lowest seq of those in flight is the next event owed.
LEMMA DeliverStep ==
  ASSUME Inv, NEW c \in Clients, NEW r \in sub[c].wire, Deliver(c, r)
  PROVE  Inv'
<1>1. /\ sub' = [sub EXCEPT ![c].wire = sub[c].wire \ {r}]
      /\ client' = [client EXCEPT ![c].seq = r.seq,
                                  ![c].got = client[c].got \cup {r}]
      /\ UNCHANGED <<events, log, epoch, head, unsent>>
      /\ \A o \in sub[c].wire : r.seq <= o.seq
  BY DEF Deliver
<1>2. /\ log \subseteq Row /\ \A a, b \in log : a.seq = b.seq => a = b
      /\ sub[c] \in Stream /\ client[c] \in ClientState
      /\ \A o \in log : o.seq \in Nat
      /\ Newest(events) \in Nat
  BY NewestOfLog DEF Inv, LogInv, TypeOK, Row
<1>3. /\ client[c].epoch = epoch /\ sub[c].wire \subseteq log /\ r \in log
      /\ sub[c].after <= Newest(events)
      /\ \A w \in sub[c].wire : client[c].seq < w.seq /\ w.seq <= sub[c].after
      /\ Owed(c, client[c].seq, sub[c].after) \subseteq sub[c].wire
      /\ Owed(c, client[c].from, client[c].seq) \subseteq client[c].got
      /\ client[c].seq \in Nat /\ client[c].from \in Nat
      /\ sub[c].after \in Nat /\ r.seq \in Nat
  BY <1>2 DEF Inv, StreamInv, ClientInv, Stream, ClientState
<1>4. /\ sub'[c] = [sub[c] EXCEPT !.wire = sub[c].wire \ {r}]
      /\ client'[c] = [client[c] EXCEPT !.seq = r.seq, !.got = client[c].got \cup {r}]
  BY <1>1 DEF Inv, TypeOK
<1>5. /\ sub'[c] \in Stream /\ client'[c] \in ClientState
      /\ sub'[c].wire = sub[c].wire \ {r} /\ sub'[c].after = sub[c].after
      /\ sub'[c].state = sub[c].state
      /\ client'[c].seq = r.seq /\ client'[c].from = client[c].from
      /\ client'[c].epoch = client[c].epoch
      /\ client'[c].got = client[c].got \cup {r}
  <2>1. /\ sub'[c] \in Stream
        /\ sub'[c].wire = sub[c].wire \ {r} /\ sub'[c].after = sub[c].after
        /\ sub'[c].state = sub[c].state
    BY <1>2, <1>4 DEF Stream
  <2>2. client[c].got \cup {r} \subseteq Row
    BY <1>2, <1>3 DEF ClientState
  <2>3. /\ client'[c].seq = r.seq /\ client'[c].from = client[c].from
        /\ client'[c].epoch = client[c].epoch
        /\ client'[c].got = client[c].got \cup {r}
    BY <1>2, <1>4 DEF ClientState
  <2>4. client'[c] \in ClientState
    BY <2>2, <1>2, <1>3, <1>4 DEF ClientState
  <2> QED BY <2>1, <2>3, <2>4
<1>6. TypeOK'
  <2>1. sub' \in [Clients -> Stream] /\ client' \in [Clients -> ClientState]
    BY <1>1, <1>5 DEF Inv, TypeOK
  <2> QED BY <2>1, <1>1 DEF Inv, TypeOK
\* What lies between the old cursor and r's is r itself.
<1>7. \A o \in log : /\ client[c].seq < o.seq /\ o.seq <= r.seq
                     /\ o.event \in Wanted[c] \ ViewEvents
                     => o = r
  <2> SUFFICES ASSUME NEW o \in log, client[c].seq < o.seq, o.seq <= r.seq,
                      o.event \in Wanted[c] \ ViewEvents
               PROVE  o = r
    OBVIOUS
  <2>1. o.seq <= sub[c].after
    BY <1>2, <1>3
  <2>2. o \in sub[c].wire
    BY <2>1, <1>3 DEF Owed
  <2>3. o.seq = r.seq
    BY <2>2, <1>1, <1>2, <1>3
  <2> QED BY <2>3, <1>2, <1>3
<1>8. ClientInv(c)'
  <2>1. Owed(c, client[c].from, r.seq) \subseteq client[c].got \cup {r}
    <3> SUFFICES ASSUME NEW o \in log, client[c].from < o.seq, o.seq <= r.seq,
                        o.event \in Wanted[c] \ ViewEvents,
                        ~ (client[c].seq < o.seq)
                 PROVE  o \in client[c].got
      BY <1>7 DEF Owed
    <3>1. o.seq <= client[c].seq
      BY <1>2, <1>3
    <3> QED BY <3>1, <1>3 DEF Owed
  <2>2. Owed(c, client[c].from, client[c].seq)' = Owed(c, client[c].from, r.seq)
    BY <1>1, <1>5 DEF Owed
  <2>3. r.seq <= Newest(events)
    BY <1>2, <1>3
  <2> QED BY <1>1, <1>3, <1>5, <2>1, <2>2, <2>3 DEF Inv, ClientInv
<1>9. StreamInv(c)'
  <2>1. \A w \in sub[c].wire \ {r} : r.seq < w.seq
    <3> SUFFICES ASSUME NEW w \in sub[c].wire, w # r PROVE r.seq < w.seq
      OBVIOUS
    <3>1. w.seq # r.seq /\ w.seq \in Nat /\ r.seq <= w.seq
      BY <1>1, <1>2, <1>3
    <3> QED BY <3>1, <1>3
  <2>2. Owed(c, r.seq, sub[c].after) \subseteq sub[c].wire \ {r}
    <3> SUFFICES ASSUME NEW o \in log, r.seq < o.seq, o.seq <= sub[c].after,
                        o.event \in Wanted[c] \ ViewEvents
                 PROVE  o \in sub[c].wire /\ o # r
      BY DEF Owed
    <3>1. client[c].seq < o.seq
      BY <1>2, <1>3
    <3> QED BY <3>1, <1>3 DEF Owed
  <2>3. Owed(c, client[c].seq, sub[c].after)' = Owed(c, r.seq, sub[c].after)
    BY <1>1, <1>5 DEF Owed
  <2>4. r.seq <= sub[c].after
    BY <1>3
  <2>5. sub[c].state # "off"
    BY DEF Inv, StreamInv
  <2> QED BY <1>1, <1>3, <1>5, <2>1, <2>2, <2>3, <2>4, <2>5 DEF StreamInv
<1>10. \A d \in Clients \ {c} : UNCHANGED <<sub[d], client[d]>>
  BY <1>1 DEF Inv, TypeOK
<1> QED BY <1>1, <1>6, <1>8, <1>9, <1>10, OthersKept

-----------------------------------------------------------------------------
LEMMA StutterStep == ASSUME Inv, UNCHANGED vars PROVE Inv'
BY DEF Inv, TypeOK, LogInv, NewestStays, HolesAreViews, ClientInv, StreamInv, Owed, vars

LEMMA NextInv == Inv /\ [Next]_vars => Inv'
<1> SUFFICES ASSUME Inv, [Next]_vars PROVE Inv'
  OBVIOUS
<1>1. CASE LogWrite
  BY <1>1, WriteStep
<1>2. CASE Publish
  BY <1>2, PublishStep
<1>3. CASE \E old \in 0 .. MaxSeq : Prune(old)
  <2>1. PICK old \in 0 .. MaxSeq : Prune(old)
    BY <1>3
  <2> QED BY <2>1, PruneStep
<1>4. CASE \E old \in 0 .. MaxSeq : Restart(old)
  <2>1. PICK old \in 0 .. MaxSeq : Restart(old)
    BY <1>4
  <2> QED BY <2>1, RestartStep
<1>5. CASE Recreate
  BY <1>5, RecreateStep
<1>6. ASSUME NEW c \in Clients, \E at \in 0 .. MaxSeq : Snapshot(c, at) PROVE Inv'
  <2>1. PICK at \in 0 .. MaxSeq : Snapshot(c, at)
    BY <1>6
  <2>2. at \in Nat
    OBVIOUS
  <2> QED BY <2>1, <2>2, SnapshotStep
<1>7. ASSUME NEW c \in Clients, Subscribe(c) PROVE Inv'
  BY <1>7, SubscribeStep
<1>8. ASSUME NEW c \in Clients, Refused(c) \/ Ended(c) PROVE Inv'
  BY <1>8, CursorLost
<1>9. ASSUME NEW c \in Clients, ReadRows(c) PROVE Inv'
  BY <1>9, ReadRowsStep
<1>10. ASSUME NEW c \in Clients, ReadNothing(c) \/ Park(c) \/ ReadExpired(c) \/ Wake(c) \/ Drop(c)
       PROVE  Inv'
  BY <1>10, IdleStep
<1>11. ASSUME NEW c \in Clients, NEW r \in sub[c].wire, Deliver(c, r) PROVE Inv'
  BY <1>11, DeliverStep
<1>12. CASE UNCHANGED vars
  BY <1>12, StutterStep
<1> QED
  BY <1>1, <1>2, <1>3, <1>4, <1>5, <1>6, <1>7, <1>8, <1>9, <1>10, <1>11, <1>12 DEF Next

LEMMA InvHolds == Spec => []Inv
BY InitInv, NextInv, PTL DEF Spec

-----------------------------------------------------------------------------
\* A client that resumes with a cursor the engine accepts was delivered
\* every event it wanted that compaction may not delete: only
\* cursor_expired means events are missing.
THEOREM NothingIsSkipped == Spec => []NoSilentGap
<1>1. Inv => NoSilentGap
  BY DEF Inv, ClientInv, Owed, NoSilentGap
<1> QED BY <1>1, InvHolds, PTL

\* A stream that read to the end has read up to the newest row, until a commit
\* puts its seq into `unsent` and the broadcast marks every receiver.
LEMMA WakeStep == Inv /\ NoWakeIsLost /\ [Next]_vars => NoWakeIsLost'
<1> SUFFICES ASSUME Inv, NoWakeIsLost, [Next]_vars,
                    NEW c \in Clients, sub'[c].state \in {"empty", "wait"}
             PROVE  sub'[c].after = Newest(events') \/ sub'[c].woken \/ unsent' # 0
  BY DEF NoWakeIsLost
<1>1. /\ sub \in [Clients -> Stream] /\ sub[c] \in Stream /\ events \subseteq Row
      /\ Newest(events) \in Nat /\ StreamInv(c) /\ \A r \in log : r.seq \in Nat
      /\ events \subseteq log
      /\ log # {} => \E n \in events : n.seq = Newest(events)
  BY NewestOfLog DEF Inv, LogInv, TypeOK, Row
<1>2. sub[c].state \in {"empty", "wait"} =>
        sub[c].after = Newest(events) \/ sub[c].woken \/ unsent # 0
  BY DEF NoWakeIsLost
<1>3. ASSUME sub'[c] = sub[c], Newest(events') = Newest(events), unsent' = unsent
      PROVE  sub'[c].after = Newest(events') \/ sub'[c].woken \/ unsent' # 0
  BY <1>2, <1>3
<1>4. CASE LogWrite
  <2>1. PICK n \in 1 .. MaxWrite :
        \E new \in [1 .. n -> Events] :
          \E dead \in SUBSET {r.seq : r \in events} : Write(new, dead)
    BY <1>4 DEF LogWrite
  <2>2. PICK new \in [1 .. n -> Events],
             dead \in SUBSET {r.seq : r \in events} : Write(new, dead)
    BY <2>1
  <2>3. n \in Nat /\ n > 0 /\ Len(new) = n /\ new # <<>>
    BY EventLogAssumption
  <2>4. unsent' = Newest(events) + n
    BY <2>2, <2>3 DEF Write
  <2> QED BY <1>1, <2>3, <2>4
<1>5. CASE Publish
  BY <1>1, <1>5 DEF Publish, Stream
<1>6. ASSUME NEW old \in 0 .. MaxSeq, Prune(old)
      PROVE  sub'[c].after = Newest(events') \/ sub'[c].woken \/ unsent' # 0
  BY <1>3, <1>6, PruneTable DEF Prune
<1>7. CASE Recreate \/ \E old \in 0 .. MaxSeq : Restart(old)
  <2>1. sub'[c] = Off
    BY <1>7 DEF Recreate, Restart
  <2> QED BY <2>1 DEF Off
<1>8. ASSUME NEW d \in Clients,
             \/ \E at \in 0 .. MaxSeq : Snapshot(d, at)
             \/ Subscribe(d) \/ Refused(d) \/ ReadRows(d) \/ ReadExpired(d) \/ Wake(d)
             \/ Ended(d) \/ Drop(d)
      PROVE  sub'[c].after = Newest(events') \/ sub'[c].woken \/ unsent' # 0
  <2>1. events' = events /\ unsent' = unsent
    BY <1>8 DEF Snapshot, Subscribe, Refused, ReadRows, ReadExpired, Wake, Ended, Drop
  <2>2. sub'[c] = sub[c] \/ sub'[c].state \in {"off", "read", "ended"}
    <3>1. CASE \E at \in 0 .. MaxSeq : Snapshot(d, at)
      BY <3>1 DEF Snapshot
    <3>2. CASE Subscribe(d) \/ Ended(d) \/ Drop(d)
      <4>1. sub'[c] = sub[c] \/ sub'[c] = Off
              \/ sub'[c] = [Off EXCEPT !.state = "read", !.after = client[d].seq]
        BY <1>1, <3>2 DEF Subscribe, Ended, Drop
      <4>2. Off.state = "off" /\ \A n : [Off EXCEPT !.state = "read", !.after = n].state = "read"
        BY DEF Off
      <4> QED BY <4>1, <4>2
    <3>3. CASE Refused(d)
      BY <3>3 DEF Refused
    <3>4. CASE ReadRows(d)
      BY <1>1, <3>4 DEF ReadRows, MayRead, Stream
    <3>5. CASE ReadExpired(d) \/ Wake(d)
      BY <1>1, <3>5 DEF ReadExpired, Wake, Stream
    <3> QED BY <1>8, <3>1, <3>2, <3>3, <3>4, <3>5
  <2> QED BY <1>3, <2>1, <2>2
<1>9. ASSUME NEW d \in Clients, ReadNothing(d)
      PROVE  sub'[c].after = Newest(events') \/ sub'[c].woken \/ unsent' # 0
  <2>1. events' = events /\ unsent' = unsent /\ (d # c => sub'[c] = sub[c])
    BY <1>1, <1>9 DEF ReadNothing
  <2>2. CASE d = c
    <3>1. sub[c].state # "off" /\ sub'[c].after = sub[c].after /\ sub[c].after \in Nat
      BY <1>1, <1>9, <2>2 DEF ReadNothing, MayRead, Stream
    <3>2. sub[c].after <= Newest(events) /\ \A r \in events : r.seq <= sub[c].after
      BY <1>1, <1>9, <2>2, <3>1 DEF ReadNothing, StreamInv
    <3>3. CASE log = {}
      <4>1. Newest(events) = 0
        BY <1>1, <3>3 DEF Newest
      <4> QED BY <2>1, <3>1, <3>2, <4>1
    <3>4. CASE log # {}
      <4>1. Newest(events) <= sub[c].after
        BY <1>1, <3>2, <3>4
      <4> QED BY <1>1, <2>1, <3>1, <3>2, <4>1
    <3> QED BY <3>3, <3>4
  <2> QED BY <1>3, <2>1, <2>2
<1>10. ASSUME NEW d \in Clients, Park(d)
       PROVE  sub'[c].after = Newest(events') \/ sub'[c].woken \/ unsent' # 0
  <2>1. events' = events /\ unsent' = unsent /\ (d # c => sub'[c] = sub[c])
    BY <1>1, <1>10 DEF Park
  <2>2. CASE d = c
    BY <1>1, <1>2, <1>10, <2>1, <2>2 DEF Park, Stream
  <2> QED BY <1>3, <2>1, <2>2
<1>11. ASSUME NEW d \in Clients, NEW r \in sub[d].wire, Deliver(d, r)
       PROVE  sub'[c].after = Newest(events') \/ sub'[c].woken \/ unsent' # 0
  <2>1. events' = events /\ unsent' = unsent
    BY <1>11 DEF Deliver
  <2>2. /\ sub'[c].state = sub[c].state /\ sub'[c].after = sub[c].after
        /\ sub'[c].woken = sub[c].woken
    BY <1>1, <1>11 DEF Deliver, Stream
  <2> QED BY <1>2, <2>1, <2>2
<1>12. CASE UNCHANGED vars
  BY <1>3, <1>12 DEF vars
<1> QED
  BY <1>4, <1>5, <1>6, <1>7, <1>8, <1>9, <1>10, <1>11, <1>12 DEF Next

\* No stream sleeps over a commit, though the commit and its broadcast may
\* come at any moment of its reading and parking.
THEOREM StreamsAreWoken == Spec => []NoWakeIsLost
<1>1. Init => NoWakeIsLost
  BY DEF Init, NoWakeIsLost, Off
<1> QED BY <1>1, WakeStep, InvHolds, PTL DEF Spec

\* The log and its clients: besides, every variable keeps its type.
THEOREM LogIsAlwaysTrue == Spec => []LogIsTrue
<1>1. Inv => TypeOK
  BY DEF Inv
<1> QED BY <1>1, InvHolds, NothingIsSkipped, StreamsAreWoken, PTL DEF LogIsTrue

\* Only a write adds rows, all above every seq the epoch has had.
THEOREM SeqIsFresh == Spec => SeqNeverReused
<1>1. Inv /\ [Next]_vars =>
        [epoch' = epoch => \A r \in log' \ log : \A o \in log : o.seq < r.seq]_vars
  <2> SUFFICES ASSUME Inv, Next, epoch' = epoch
               PROVE  \A r \in log' \ log : \A o \in log : o.seq < r.seq
    OBVIOUS
  <2>1. CASE LogWrite
    BY <2>1, WriteStep
  <2>2. CASE log' = log
    BY <2>2
  <2>3. CASE Recreate
    BY <2>3 DEF Recreate
  <2> QED
    BY <2>1, <2>2, <2>3
    DEF Next, Publish, Prune, Restart, Snapshot, Subscribe, Refused, ReadRows,
        ReadNothing, Park, ReadExpired, Wake, Deliver, Ended, Drop
<1> QED BY <1>1, InvHolds, PTL DEF Spec, SeqNeverReused

\* A commit, with the compaction in its transaction, makes no cursor expire.
THEOREM CompactionExpiresNobody == Spec => CommitExpiresNobody
<1>1. Inv /\ [Next]_vars =>
        [log' # log /\ epoch' = epoch =>
           \A q \in 0 .. MaxSeq : ~Expired(events, q) => ~Expired(events', q)]_vars
  <2> SUFFICES ASSUME Inv, Next, log' # log, epoch' = epoch
               PROVE  \A q \in 0 .. MaxSeq : ~Expired(events, q) => ~Expired(events', q)
    OBVIOUS
  <2>1. CASE LogWrite
    BY <2>1, WriteStep
  <2>2. CASE Recreate
    BY <2>2 DEF Recreate, Inv, TypeOK
  <2> QED
    BY <2>1, <2>2
    DEF Next, Publish, Prune, Restart, Snapshot, Subscribe, Refused, ReadRows,
        ReadNothing, Park, ReadExpired, Wake, Deliver, Ended, Drop
<1> QED BY <1>1, InvHolds, PTL DEF Spec, CommitExpiresNobody
=============================================================================
