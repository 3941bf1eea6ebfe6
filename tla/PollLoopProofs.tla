--------------------------- MODULE PollLoopProofs ---------------------------
(***************************************************************************)
(* Theorems about PollLoop: the compaction of the vector neither loses nor *)
(* duplicates a session, and a pass serves each session once, for any      *)
(* number of clients and any size of the vector.                           *)
(***************************************************************************)
EXTENDS PollLoop, TLAPS

USE PollLoopAssumptions

LEMMA RoomNat == Room \in Nat
BY DEF Room

\* Where the loop variable is, and that a listener poll reported still has the
\* connection.
LoopShape ==
    /\ pc = "service" => ix <= nsess
    /\ pc \in {"dispatch", "send"} => ix < nsess
    /\ pc = "inet" => \A l \in pending : backlog[l] # <<>>
    /\ pc = "unix" => ("unix" \in pending => backlog["unix"] # <<>>)

\* What waits in a queue is not in the vector yet, and waits once.
QueueShape ==
    /\ \A l \in {"inet", "unix"} : \A i \in 1..Len(backlog[l]) :
           conn[backlog[l][i]] = "queued"
    /\ \A l, m \in {"inet", "unix"} :
           \A i \in 1..Len(backlog[l]), j \in 1..Len(backlog[m]) :
               backlog[l][i] = backlog[m][j] => l = m /\ i = j

VectorInv == TypeOK /\ VectorIsExact /\ LoopShape /\ QueueShape

\* VectorIsExact without the set of sessions.
LEMMA Exact ==
    VectorIsExact <=>
        /\ \A i \in 0..(nsess - 1) : fds[i].fd \in Clients /\ conn[fds[i].fd] = "open"
        /\ \A c \in Clients : conn[c] = "open" => \E i \in 0..(nsess - 1) : fds[i].fd = c
        /\ \A i, j \in 0..(nsess - 1) : fds[i].fd = fds[j].fd => i = j
BY DEF VectorIsExact, Sessions

LEMMA VectorInit == Init => VectorInv
<1> SUFFICES ASSUME Init PROVE VectorInv
    OBVIOUS
<1>1. TypeOK
    <2>1. 0 \in 0..Room
        BY RoomNat
    <2>2. <<>> \in Seq(Clients)
        OBVIOUS
    <2> QED
        BY <2>1, <2>2 DEF Init, TypeOK
<1>2. VectorIsExact
    BY DEF Init, VectorIsExact, Sessions
<1>3. LoopShape /\ QueueShape
    BY DEF Init, LoopShape, QueueShape
<1> QED
    BY <1>1, <1>2, <1>3 DEF VectorInv

-----------------------------------------------------------------------------
(* The vector                                                               *)

\* A connection taken: an entry is added at the end, or the connection is closed.
LEMMA TakeKeeps ==
    ASSUME VectorInv, NEW l \in {"inet", "unix"}, backlog[l] # <<>>, TakeConnection(l)
    PROVE  /\ fds' \in [0..(Room - 1) -> [fd : Clients \cup {None}, revents : BOOLEAN]]
           /\ nsess' \in 0..Room
           /\ backlog' \in [{"inet", "unix"} -> Seq(Clients)]
           /\ \A m \in {"inet", "unix"} : m # l => backlog'[m] = backlog[m]
           /\ conn' \in [Clients -> {"off", "queued", "open"}]
           /\ inbox' \in [Clients -> {"empty", "partial", "reply"} \cup Messages]
           /\ eof' \in [Clients -> BOOLEAN]
           /\ VectorIsExact' /\ QueueShape'
           /\ nsess' >= nsess
           /\ \A i \in 0..(nsess - 1) : fds'[i] = fds[i]
<1> DEFINE h == Head(backlog[l])
<1>t. /\ fds \in [0..(Room - 1) -> [fd : Clients \cup {None}, revents : BOOLEAN]]
      /\ nsess \in 0..Room /\ Room \in Nat
      /\ backlog \in [{"inet", "unix"} -> Seq(Clients)]
      /\ conn \in [Clients -> {"off", "queued", "open"}]
      /\ inbox \in [Clients -> {"empty", "partial", "reply"} \cup Messages]
      /\ eof \in [Clients -> BOOLEAN]
    BY RoomNat DEF VectorInv, TypeOK
<1>s. backlog[l] \in Seq(Clients) /\ Len(backlog[l]) >= 1
    BY <1>t
<1>h. /\ h \in Clients /\ h = backlog[l][1]
      /\ Tail(backlog[l]) \in Seq(Clients)
      /\ Len(Tail(backlog[l])) = Len(backlog[l]) - 1
      /\ \A i \in 1..(Len(backlog[l]) - 1) : Tail(backlog[l])[i] = backlog[l][i + 1]
    BY <1>s
<1>q. conn[h] = "queued"
    BY <1>s, <1>h DEF VectorInv, QueueShape
<1>b. backlog' = [backlog EXCEPT ![l] = Tail(backlog[l])]
    BY DEF TakeConnection
<1>b1. backlog' \in [{"inet", "unix"} -> Seq(Clients)]
    BY <1>t, <1>h, <1>b
<1>b2. \A m \in {"inet", "unix"} : m # l => backlog'[m] = backlog[m]
    BY <1>t, <1>b
<1>b3. backlog'[l] = Tail(backlog[l])
    BY <1>t, <1>b
<1>c. conn' \in [Clients -> {"off", "queued", "open"}]
      /\ \A c \in Clients : c # h => conn'[c] = conn[c]
    BY <1>t, <1>h DEF TakeConnection
<1>1. QueueShape'
    <2>1. \A m \in {"inet", "unix"} : \A i \in 1..Len(backlog'[m]) :
             \E k \in 1..Len(backlog[m]) :
                 /\ backlog'[m][i] = backlog[m][k]
                 /\ k = IF m = l THEN i + 1 ELSE i
        <3> TAKE m \in {"inet", "unix"}
        <3>1. CASE m = l
            BY <3>1, <1>b3, <1>h, <1>s
        <3>2. CASE m # l
            BY <3>2, <1>b2
        <3> QED
            BY <3>1, <3>2
    <2>2. \A m \in {"inet", "unix"} : \A i \in 1..Len(backlog'[m]) :
             backlog'[m][i] \in Clients /\ backlog'[m][i] # h /\ conn[backlog'[m][i]] = "queued"
        <3> TAKE m \in {"inet", "unix"}
        <3> TAKE i \in 1..Len(backlog'[m])
        <3>1. PICK k \in 1..Len(backlog[m]) :
                 /\ backlog'[m][i] = backlog[m][k]
                 /\ k = IF m = l THEN i + 1 ELSE i
            BY <2>1
        <3>2. backlog[m][k] \in Clients
            BY <1>t
        <3>3. conn[backlog[m][k]] = "queued"
            BY DEF VectorInv, QueueShape
        <3>4. 1 \in 1..Len(backlog[l])
            BY <1>s
        <3>5. ~(m = l /\ k = 1)
            BY <3>1, <1>b1
        <3>6. backlog[m][k] # backlog[l][1]
            BY <3>4, <3>5 DEF VectorInv, QueueShape
        <3> QED
            BY <3>1, <3>2, <3>3, <3>6, <1>h
    <2>3. \A m \in {"inet", "unix"} : \A i \in 1..Len(backlog'[m]) :
             conn'[backlog'[m][i]] = "queued"
        BY <2>2, <1>c
    <2>4. ASSUME NEW m \in {"inet", "unix"}, NEW n \in {"inet", "unix"},
                 NEW i \in 1..Len(backlog'[m]), NEW j \in 1..Len(backlog'[n]),
                 backlog'[m][i] = backlog'[n][j]
          PROVE  m = n /\ i = j
        <3>1. PICK k \in 1..Len(backlog[m]) :
                 /\ backlog'[m][i] = backlog[m][k]
                 /\ k = IF m = l THEN i + 1 ELSE i
            BY <2>1
        <3>2. PICK k2 \in 1..Len(backlog[n]) :
                 /\ backlog'[n][j] = backlog[n][k2]
                 /\ k2 = IF n = l THEN j + 1 ELSE j
            BY <2>1
        <3>a. backlog[m][k] = backlog[n][k2]
            BY <2>4, <3>1, <3>2
        <3>3. m = n /\ k = k2
            BY <3>a DEF VectorInv, QueueShape
        <3>4. i \in Int /\ j \in Int
            BY <1>b1
        <3> QED
            BY <3>1, <3>2, <3>3, <3>4
    <2> QED
        BY <2>3, <2>4 DEF QueueShape
<1>2. CASE nsess < Room
    <2>1. /\ fds' = [fds EXCEPT ![nsess].fd = h]
          /\ nsess' = nsess + 1
          /\ conn' = [conn EXCEPT ![h] = "open"]
          /\ UNCHANGED <<inbox, eof>>
        BY <1>2 DEF TakeConnection
    <2>2. nsess \in 0..(Room - 1)
        BY <1>t, <1>2
    <2>3. fds[nsess] \in [fd : Clients \cup {None}, revents : BOOLEAN]
        BY <2>2, <1>t
    <2>4. [fds[nsess] EXCEPT !.fd = h] \in [fd : Clients \cup {None}, revents : BOOLEAN]
        BY <2>3, <1>h
    <2>5. fds' \in [0..(Room - 1) -> [fd : Clients \cup {None}, revents : BOOLEAN]]
        BY <2>1, <2>2, <2>4, <1>t
    <2>6. fds'[nsess].fd = h
        BY <2>1, <2>2, <2>3, <1>t
    <2>7. \A i \in 0..(Room - 1) : i # nsess => fds'[i] = fds[i]
        BY <2>1, <1>t
    <2>8. nsess' \in 0..Room /\ nsess' >= nsess
        BY <2>1, <1>2, <1>t
    <2>9. \A i \in 0..(nsess - 1) : fds'[i] = fds[i]
        BY <2>7, <1>t
    <2>10. \A i \in 0..(nsess' - 1) : i = nsess \/ i \in 0..(nsess - 1)
        BY <2>1, <1>t
    <2>11. conn'[h] = "open"
        BY <2>1, <1>h, <1>t
    <2>12. \A i \in 0..(nsess - 1) : /\ fds[i].fd \in Clients
                                     /\ conn[fds[i].fd] = "open"
                                     /\ fds[i].fd # h
        BY Exact, <1>q DEF VectorInv
    <2>13. \A i \in 0..(nsess' - 1) : fds'[i].fd \in Clients /\ conn'[fds'[i].fd] = "open"
        BY <2>6, <2>9, <2>10, <2>11, <2>12, <1>c, <1>h
    <2>14. ASSUME NEW c \in Clients, conn'[c] = "open"
           PROVE  \E i \in 0..(nsess' - 1) : fds'[i].fd = c
        <3>1. CASE c = h
            <4>1. nsess \in 0..(nsess' - 1)
                BY <2>1, <1>t
            <4> QED
                BY <3>1, <4>1, <2>6
        <3>2. CASE c # h
            <4>1. PICK i \in 0..(nsess - 1) : fds[i].fd = c
                BY <3>2, <2>14, <1>c, Exact DEF VectorInv
            <4>2. i \in 0..(nsess' - 1)
                BY <2>1, <1>t
            <4> QED
                BY <4>1, <4>2, <2>9
        <3> QED
            BY <3>1, <3>2
    <2>15. \A i, j \in 0..(nsess' - 1) : fds'[i].fd = fds'[j].fd => i = j
        <3>1. \A i, j \in 0..(nsess - 1) : fds[i].fd = fds[j].fd => i = j
            BY Exact DEF VectorInv
        <3> QED
            BY <3>1, <2>6, <2>9, <2>10, <2>12
    <2>16. VectorIsExact'
        BY <2>13, <2>14, <2>15 DEF VectorIsExact, Sessions
    <2>17. /\ inbox' \in [Clients -> {"empty", "partial", "reply"} \cup Messages]
           /\ eof' \in [Clients -> BOOLEAN]
        BY <2>1, <1>t
    <2> QED
        BY <2>5, <2>8, <2>9, <2>16, <2>17, <1>1, <1>b1, <1>b2, <1>c
<1>3. CASE ~(nsess < Room)
    <2>1. /\ conn' = [conn EXCEPT ![h] = "off"]
          /\ inbox' = [inbox EXCEPT ![h] = "empty"]
          /\ eof' = [eof EXCEPT ![h] = FALSE]
          /\ UNCHANGED <<fds, nsess>>
        BY <1>3 DEF TakeConnection
    <2>2. \A c \in Clients : conn'[c] = "open" <=> conn[c] = "open"
        BY <2>1, <1>q, <1>h, <1>t
    <2>3. VectorIsExact'
        BY <2>1, <2>2 DEF VectorInv, VectorIsExact, Sessions
    <2>4. /\ inbox' \in [Clients -> {"empty", "partial", "reply"} \cup Messages]
          /\ eof' \in [Clients -> BOOLEAN]
        BY <2>1, <1>t
    <2>5. nsess' >= nsess
        BY <2>1, <1>t
    <2> QED
        BY <2>1, <2>3, <2>4, <2>5, <1>1, <1>b1, <1>b2, <1>c, <1>t
<1> QED
    BY <1>2, <1>3

\* accept takes a connection, or fails and changes nothing.
LEMMA AcceptKeeps ==
    ASSUME VectorInv, NEW l \in {"inet", "unix"}, backlog[l] # <<>>, AcceptNewClient(l)
    PROVE  /\ fds' \in [0..(Room - 1) -> [fd : Clients \cup {None}, revents : BOOLEAN]]
           /\ nsess' \in 0..Room
           /\ backlog' \in [{"inet", "unix"} -> Seq(Clients)]
           /\ \A m \in {"inet", "unix"} : m # l => backlog'[m] = backlog[m]
           /\ conn' \in [Clients -> {"off", "queued", "open"}]
           /\ inbox' \in [Clients -> {"empty", "partial", "reply"} \cup Messages]
           /\ eof' \in [Clients -> BOOLEAN]
           /\ VectorIsExact' /\ QueueShape'
           /\ nsess' >= nsess
           /\ \A i \in 0..(nsess - 1) : fds'[i] = fds[i]
<1>1. CASE TakeConnection(l)
    BY <1>1, TakeKeeps
<1>2. CASE UNCHANGED <<fds, nsess, netVars>>
    <2>1. UNCHANGED <<fds, nsess, backlog, conn, inbox, eof>>
        BY <1>2 DEF netVars
    <2>2. nsess \in Int
        BY RoomNat DEF VectorInv, TypeOK
    <2> QED
        BY <2>1, <2>2 DEF VectorInv, TypeOK, VectorIsExact, Sessions, QueueShape
<1> QED
    BY <1>1, <1>2 DEF AcceptNewClient

-----------------------------------------------------------------------------
\* Closing the session at ix: the last one takes its place.
LEMMA CloseKeeps ==
    ASSUME VectorInv, ix < nsess, CloseSession(Current), UNCHANGED backlog
    PROVE  /\ fds' \in [0..(Room - 1) -> [fd : Clients \cup {None}, revents : BOOLEAN]]
           /\ nsess' \in 0..Room /\ nsess' = nsess - 1 /\ ix' = ix
           /\ conn' \in [Clients -> {"off", "queued", "open"}]
           /\ inbox' \in [Clients -> {"empty", "partial", "reply"} \cup Messages]
           /\ eof' \in [Clients -> BOOLEAN]
           /\ VectorIsExact' /\ QueueShape'
           /\ fds'[ix] = fds[nsess - 1]
           /\ \A i \in 0..(Room - 1) : i # ix => fds'[i] = fds[i]
<1> DEFINE last == nsess - 1
<1>t. /\ fds \in [0..(Room - 1) -> [fd : Clients \cup {None}, revents : BOOLEAN]]
      /\ nsess \in 0..Room /\ Room \in Nat /\ ix \in 0..Room
      /\ conn \in [Clients -> {"off", "queued", "open"}]
      /\ inbox \in [Clients -> {"empty", "partial", "reply"} \cup Messages]
      /\ eof \in [Clients -> BOOLEAN]
    BY RoomNat DEF VectorInv, TypeOK
<1>r. ix \in 0..(nsess - 1) /\ last \in 0..(nsess - 1) /\ last \in 0..(Room - 1)
      /\ ix \in 0..(Room - 1)
    BY <1>t
<1>e. /\ \A i \in 0..(nsess - 1) : fds[i].fd \in Clients /\ conn[fds[i].fd] = "open"
      /\ \A c \in Clients : conn[c] = "open" => \E i \in 0..(nsess - 1) : fds[i].fd = c
      /\ \A i, j \in 0..(nsess - 1) : fds[i].fd = fds[j].fd => i = j
    BY Exact DEF VectorInv
<1>c. Current \in Clients /\ conn[Current] = "open" /\ Current = fds[ix].fd
    BY <1>e, <1>r DEF Current
<1>d. /\ fds' = [fds EXCEPT ![ix] = fds[last]]
      /\ nsess' = nsess - 1
      /\ ix' = ix
      /\ conn' = [conn EXCEPT ![Current] = "off"]
      /\ inbox' = [inbox EXCEPT ![Current] = "empty"]
      /\ eof' = [eof EXCEPT ![Current] = FALSE]
    BY DEF CloseSession
<1>f. fds' \in [0..(Room - 1) -> [fd : Clients \cup {None}, revents : BOOLEAN]]
    BY <1>d, <1>t, <1>r
<1>g. fds'[ix] = fds[last] /\ \A i \in 0..(Room - 1) : i # ix => fds'[i] = fds[i]
    BY <1>d, <1>t, <1>r
<1>n. nsess' \in 0..Room
    BY <1>d, <1>t, <1>r
<1>k. /\ conn' \in [Clients -> {"off", "queued", "open"}]
      /\ inbox' \in [Clients -> {"empty", "partial", "reply"} \cup Messages]
      /\ eof' \in [Clients -> BOOLEAN]
    BY <1>d, <1>t
<1>o. conn'[Current] = "off" /\ \A c \in Clients : c # Current => conn'[c] = conn[c]
    BY <1>d, <1>t, <1>c
<1>1. QueueShape'
    <2>1. ASSUME NEW l \in {"inet", "unix"}, NEW i \in 1..Len(backlog[l])
          PROVE  conn'[backlog[l][i]] = "queued"
        <3>1. conn[backlog[l][i]] = "queued"
            BY DEF VectorInv, QueueShape
        <3>2. backlog[l][i] \in Clients
            BY DEF VectorInv, TypeOK
        <3> QED
            BY <3>1, <3>2, <1>c, <1>o
    <2> QED
        BY <2>1 DEF VectorInv, QueueShape
<1>2. \A i \in 0..(nsess' - 1) :
          /\ i \in 0..(nsess - 1) /\ i \in 0..(Room - 1) /\ i # last
    BY <1>d, <1>t
<1>3. \A i \in 0..(nsess' - 1) : fds'[i].fd \in Clients /\ fds'[i].fd # Current
                                 /\ conn[fds'[i].fd] = "open"
    BY <1>2, <1>e, <1>g, <1>r, <1>c
<1>4. \A i \in 0..(nsess' - 1) : fds'[i].fd \in Clients /\ conn'[fds'[i].fd] = "open"
    BY <1>3, <1>o
<1>5. ASSUME NEW c \in Clients, conn'[c] = "open"
      PROVE  \E i \in 0..(nsess' - 1) : fds'[i].fd = c
    <2>1. c # Current /\ conn[c] = "open"
        BY <1>5, <1>o
    <2>2. PICK i \in 0..(nsess - 1) : fds[i].fd = c
        BY <2>1, <1>e
    <2>3. i # ix
        BY <2>1, <2>2, <1>c
    <2>4. CASE i = last
        <3>1. ix \in 0..(nsess' - 1)
            BY <2>3, <2>4, <1>d, <1>r, <1>t
        <3> QED
            BY <3>1, <2>2, <2>4, <1>g
    <2>5. CASE i # last
        <3>1. i \in 0..(nsess' - 1) /\ i \in 0..(Room - 1)
            BY <2>5, <1>d, <1>t
        <3> QED
            BY <3>1, <2>2, <2>3, <1>g
    <2> QED
        BY <2>4, <2>5
<1>6. ASSUME NEW i \in 0..(nsess' - 1), NEW j \in 0..(nsess' - 1), fds'[i].fd = fds'[j].fd
      PROVE  i = j
    <2>1. fds'[i] = (IF i = ix THEN fds[last] ELSE fds[i])
          /\ fds'[j] = (IF j = ix THEN fds[last] ELSE fds[j])
        BY <1>2, <1>g
    <2> QED
        BY <2>1, <1>6, <1>2, <1>e, <1>r
<1>7. VectorIsExact'
    BY <1>4, <1>5, <1>6 DEF VectorIsExact, Sessions
<1> QED
    BY <1>1, <1>7, <1>d, <1>f, <1>g, <1>k, <1>n

\* A handler that returns 0.
LEMMA KeepKeeps ==
    ASSUME VectorInv, ix < nsess, KeepSession(Current), UNCHANGED backlog
    PROVE  /\ ix' = ix + 1 /\ ix' \in 0..Room
           /\ inbox' \in [Clients -> {"empty", "partial", "reply"} \cup Messages]
           /\ UNCHANGED <<fds, nsess, conn, eof>>
           /\ VectorIsExact' /\ QueueShape'
<1>1. UNCHANGED <<fds, nsess, conn, eof>> /\ ix' = ix + 1
      /\ inbox' = [inbox EXCEPT ![Current] = "empty"]
    BY DEF KeepSession
<1>2. ix' \in 0..Room
    BY <1>1, RoomNat DEF VectorInv, TypeOK
<1>3. inbox' \in [Clients -> {"empty", "partial", "reply"} \cup Messages]
    BY <1>1 DEF VectorInv, TypeOK
<1>4. VectorIsExact'
    BY <1>1 DEF VectorInv, VectorIsExact, Sessions
<1>5. QueueShape'
    BY <1>1 DEF VectorInv, QueueShape
<1> QED
    BY <1>1, <1>2, <1>3, <1>4, <1>5

-----------------------------------------------------------------------------
(* The steps                                                                *)

\* Steps that leave the vector, the queues and the connections as they are.
LEMMA QuietShapes ==
    ASSUME VectorInv, UNCHANGED <<nsess, backlog, conn>>,
           \A i \in 0..(nsess - 1) : fds'[i].fd = fds[i].fd
    PROVE  VectorIsExact' /\ QueueShape'
<1>1. VectorIsExact'
    BY DEF VectorInv, VectorIsExact, Sessions
<1>2. QueueShape'
    BY DEF VectorInv, QueueShape
<1> QED
    BY <1>1, <1>2

LEMMA PollStep == ASSUME VectorInv, Poll PROVE VectorInv'
<1>1. /\ UNCHANGED <<nsess, ix, g_stop, backlog, conn, inbox, eof>>
      /\ pc' = "inet" /\ served' = {}
      /\ pending' = {l \in Listeners : backlog[l] # <<>>}
      /\ reported' = {c \in Sessions : Readable(c)}
      /\ fds' = [i \in DOMAIN fds |->
                    IF i < nsess THEN [fds[i] EXCEPT !.revents = Readable(fds[i].fd)]
                    ELSE fds[i]]
    BY DEF Poll, netVars
<1>2. /\ fds \in [0..(Room - 1) -> [fd : Clients \cup {None}, revents : BOOLEAN]]
      /\ nsess \in 0..Room /\ Room \in Nat
    BY RoomNat DEF VectorInv, TypeOK
<1>3. ASSUME NEW i \in 0..(Room - 1)
      PROVE  /\ fds'[i] \in [fd : Clients \cup {None}, revents : BOOLEAN]
             /\ fds'[i].fd = fds[i].fd
    <2>1. fds[i] \in [fd : Clients \cup {None}, revents : BOOLEAN]
        BY <1>2
    <2>2. Readable(fds[i].fd) \in BOOLEAN
        BY DEF Readable
    <2>3. fds'[i] = IF i < nsess THEN [fds[i] EXCEPT !.revents = Readable(fds[i].fd)]
                    ELSE fds[i]
        BY <1>1, <1>2
    <2>4. /\ [fds[i] EXCEPT !.revents = Readable(fds[i].fd)]
                 \in [fd : Clients \cup {None}, revents : BOOLEAN]
          /\ [fds[i] EXCEPT !.revents = Readable(fds[i].fd)].fd = fds[i].fd
        BY <2>1, <2>2
    <2> QED
        BY <2>1, <2>3, <2>4
<1>4. fds' \in [0..(Room - 1) -> [fd : Clients \cup {None}, revents : BOOLEAN]]
    <2>1. DOMAIN fds = 0..(Room - 1)
        BY <1>2
    <2> QED
        BY <1>1, <1>3, <2>1
<1>5. reported' \subseteq Clients
    BY <1>1 DEF VectorInv, VectorIsExact
<1>6. pending' \subseteq {"inet", "unix"}
    BY <1>1 DEF Listeners
<1>7. TypeOK'
    BY <1>1, <1>4, <1>5, <1>6 DEF VectorInv, TypeOK
<1>8. VectorIsExact' /\ QueueShape'
    <2>1. \A i \in 0..(nsess - 1) : fds'[i].fd = fds[i].fd
        BY <1>2, <1>3
    <2> QED
        BY <1>1, <2>1, QuietShapes
<1>9. LoopShape'
    BY <1>1 DEF LoopShape
<1> QED
    BY <1>7, <1>8, <1>9 DEF VectorInv

LEMMA AcceptStep == ASSUME VectorInv, AcceptInet \/ AcceptUnix PROVE VectorInv'
<1>1. ASSUME AcceptInet PROVE VectorInv'
    <2>1. pc = "inet" /\ pc' = "unix" /\ UNCHANGED <<pending, ix, g_stop, reported, served>>
        BY <1>1 DEF AcceptInet
    <2>2. CASE "inet" \in pending
        <3>1. AcceptNewClient("inet") /\ backlog["inet"] # <<>>
            BY <1>1, <2>1, <2>2 DEF AcceptInet, VectorInv, LoopShape
        <3>2. TypeOK'
            BY <2>1, <3>1, AcceptKeeps DEF VectorInv, TypeOK
        <3>3. backlog'["unix"] = backlog["unix"]
            BY <3>1, AcceptKeeps
        <3>4. LoopShape'
            BY <2>1, <3>3 DEF VectorInv, LoopShape
        <3> QED
            BY <3>1, <3>2, <3>4, AcceptKeeps DEF VectorInv
    <2>3. CASE "inet" \notin pending
        <3>1. UNCHANGED <<fds, nsess, backlog, conn, inbox, eof>>
            BY <1>1, <2>3 DEF AcceptInet, netVars
        <3> QED
            BY <2>1, <3>1, QuietShapes DEF VectorInv, TypeOK, LoopShape
    <2> QED
        BY <2>2, <2>3
<1>2. ASSUME AcceptUnix PROVE VectorInv'
    <2>1. pc = "unix" /\ pc' = "service" /\ ix' = 0
          /\ UNCHANGED <<pending, g_stop, reported, served>>
        BY <1>2 DEF AcceptUnix
    <2>2. 0 \in 0..Room /\ nsess \in Nat
        BY RoomNat DEF VectorInv, TypeOK
    <2>3. CASE "unix" \in pending
        <3>1. AcceptNewClient("unix") /\ backlog["unix"] # <<>>
            BY <1>2, <2>1, <2>3 DEF AcceptUnix, VectorInv, LoopShape
        <3>2. TypeOK'
            BY <2>1, <2>2, <3>1, AcceptKeeps DEF VectorInv, TypeOK
        <3>3. nsess' \in 0..Room
            BY <3>1, AcceptKeeps
        <3>4. LoopShape'
            BY <2>1, <3>3, RoomNat DEF LoopShape
        <3> QED
            BY <3>1, <3>2, <3>4, AcceptKeeps DEF VectorInv
    <2>4. CASE "unix" \notin pending
        <3>1. UNCHANGED <<fds, nsess, backlog, conn, inbox, eof>>
            BY <1>2, <2>4 DEF AcceptUnix, netVars
        <3> QED
            BY <2>1, <2>2, <3>1, QuietShapes DEF VectorInv, TypeOK, LoopShape
    <2> QED
        BY <2>3, <2>4
<1> QED
    BY <1>1, <1>2

\* The end of a handler, whichever it was.
LEMMA HandledStep ==
    ASSUME VectorInv, pc \in {"dispatch", "send"}, pc' = "service", g_stop' \in BOOLEAN,
           UNCHANGED <<pending, reported, served, backlog>>,
           KeepSession(Current) \/ CloseSession(Current)
    PROVE  VectorInv'
<1>1. ix < nsess /\ nsess \in 0..Room /\ Room \in Nat /\ ix \in 0..Room
    BY RoomNat DEF VectorInv, LoopShape, TypeOK
<1>2. CASE KeepSession(Current)
    <2>1. TypeOK'
        BY <1>1, <1>2, KeepKeeps DEF VectorInv, TypeOK
    <2>2. LoopShape'
        BY <1>1, <1>2, KeepKeeps DEF LoopShape
    <2> QED
        BY <1>1, <1>2, <2>1, <2>2, KeepKeeps DEF VectorInv
<1>3. CASE CloseSession(Current)
    <2>1. TypeOK'
        BY <1>1, <1>3, CloseKeeps DEF VectorInv, TypeOK
    <2>2. LoopShape'
        BY <1>1, <1>3, CloseKeeps DEF LoopShape
    <2> QED
        BY <1>1, <1>3, <2>1, <2>2, CloseKeeps DEF VectorInv
<1> QED
    BY <1>2, <1>3

LEMMA ServiceStep ==
    ASSUME VectorInv, Skip \/ Select \/ PassEnd \/ AnswerDownload PROVE VectorInv'
<1>1. /\ UNCHANGED <<fds, nsess, pending, g_stop, reported, backlog, conn, eof>>
      /\ \A i \in 0..(nsess - 1) : fds'[i].fd = fds[i].fd
    BY DEF Skip, Select, PassEnd, AnswerDownload, netVars
<1>2. VectorIsExact' /\ QueueShape'
    BY <1>1, QuietShapes
<1>3. nsess \in 0..Room /\ ix \in 0..Room /\ Room \in Nat
    BY RoomNat DEF VectorInv, TypeOK
<1>4. CASE Skip
    <2>1. ix < nsess /\ ix' = ix + 1 /\ pc' = "service" /\ UNCHANGED <<inbox, served>>
        BY <1>4 DEF Skip, InLoop, netVars
    <2> QED
        BY <1>1, <1>2, <1>3, <2>1 DEF VectorInv, TypeOK, LoopShape
<1>5. CASE Select
    <2>1. ix < nsess /\ ix' = ix /\ pc' = "dispatch" /\ UNCHANGED inbox
          /\ served' = served \cup {fds[ix].fd}
        BY <1>5 DEF Select, InLoop, netVars
    <2>2. fds[ix].fd \in Clients
        BY <2>1, <1>3, Exact DEF VectorInv
    <2> QED
        BY <1>1, <1>2, <1>3, <2>1, <2>2 DEF VectorInv, TypeOK, LoopShape
<1>6. CASE PassEnd
    <2>1. ix' = ix /\ pc' = "poll" /\ UNCHANGED <<inbox, served>>
        BY <1>6 DEF PassEnd, netVars
    <2> QED
        BY <1>1, <1>2, <1>3, <2>1 DEF VectorInv, TypeOK, LoopShape
<1>7. CASE AnswerDownload
    <2>1. pc = "dispatch" /\ ix' = ix /\ pc' = "send" /\ UNCHANGED served
          /\ inbox' = [inbox EXCEPT ![Current] = "reply"]
        BY <1>7 DEF AnswerDownload
    <2>2. inbox' \in [Clients -> {"empty", "partial", "reply"} \cup Messages]
        BY <2>1 DEF VectorInv, TypeOK
    <2> QED
        BY <1>1, <1>2, <1>3, <2>1, <2>2 DEF VectorInv, TypeOK, LoopShape
<1> QED
    BY <1>4, <1>5, <1>6, <1>7

LEMMA HandlerStep == ASSUME VectorInv, Answer \/ ReplyTaken \/ Hangup PROVE VectorInv'
<1>1. CASE Answer
    <2>1. g_stop' \in BOOLEAN
        BY <1>1 DEF Answer, VectorInv, TypeOK
    <2> QED
        BY <1>1, <2>1, HandledStep DEF Answer
<1>2. CASE Hangup
    <2>1. g_stop' \in BOOLEAN
        BY <1>2 DEF Hangup, VectorInv, TypeOK
    <2> QED
        BY <1>2, <2>1, HandledStep DEF Hangup
<1>3. CASE ReplyTaken
    <2>1. pc = "send" /\ pc' = "service"
          /\ UNCHANGED <<pending, g_stop, reported, served, backlog>>
        BY <1>3 DEF ReplyTaken
    <2>2. CASE CloseSession(Current)
        BY <2>1, <2>2, HandledStep DEF VectorInv, TypeOK
    <2>3. CASE ix' = ix + 1 /\ UNCHANGED <<fds, nsess, conn, inbox, eof>>
        <3>1. ix < nsess /\ nsess \in 0..Room /\ ix \in 0..Room /\ Room \in Nat
            BY <2>1, RoomNat DEF VectorInv, LoopShape, TypeOK
        <3>2. VectorIsExact' /\ QueueShape'
            BY <2>1, <2>3, QuietShapes
        <3> QED
            BY <2>1, <2>3, <3>1, <3>2 DEF VectorInv, TypeOK, LoopShape
    <2> QED
        BY <1>3, <2>2, <2>3 DEF ReplyTaken
<1> QED
    BY <1>1, <1>2, <1>3

LEMMA LeaveStep == ASSUME VectorInv, Leave PROVE VectorInv'
<1>1. /\ UNCHANGED <<fds, pending, ix, g_stop, reported, served>>
      /\ pc' = "exited" /\ nsess' = 0
      /\ backlog' = [l \in DOMAIN backlog |-> <<>>]
      /\ conn' = [c \in Clients |-> "off"]
      /\ inbox' = [c \in Clients |-> "empty"]
      /\ eof' = [c \in Clients |-> FALSE]
    BY DEF Leave
<1>2. DOMAIN backlog = {"inet", "unix"} /\ <<>> \in Seq(Clients) /\ 0 \in 0..Room
    BY RoomNat DEF VectorInv, TypeOK
<1>3. TypeOK'
    BY <1>1, <1>2 DEF VectorInv, TypeOK
<1>4. VectorIsExact'
    BY <1>1 DEF VectorIsExact, Sessions
<1>5. QueueShape' /\ LoopShape'
    BY <1>1, <1>2 DEF QueueShape, LoopShape
<1> QED
    BY <1>3, <1>4, <1>5 DEF VectorInv

LEMMA ConnectStep == ASSUME VectorInv, NEW c \in Clients, Connect(c) PROVE VectorInv'
<1>1. PICK l \in Listeners : backlog' = [backlog EXCEPT ![l] = Append(@, c)]
    BY DEF Connect
<1>2. /\ conn[c] = "off" /\ conn' = [conn EXCEPT ![c] = "queued"]
      /\ UNCHANGED <<fds, nsess, pending, ix, pc, g_stop, reported, served, inbox, eof>>
    BY DEF Connect, serverVars
<1>3. l \in {"inet", "unix"} /\ backlog[l] \in Seq(Clients)
      /\ backlog \in [{"inet", "unix"} -> Seq(Clients)]
      /\ conn \in [Clients -> {"off", "queued", "open"}]
    BY DEF Listeners, VectorInv, TypeOK
<1>4. /\ Append(backlog[l], c) \in Seq(Clients)
      /\ Len(Append(backlog[l], c)) = Len(backlog[l]) + 1
      /\ Append(backlog[l], c)[Len(backlog[l]) + 1] = c
      /\ \A i \in 1..Len(backlog[l]) : Append(backlog[l], c)[i] = backlog[l][i]
      /\ Append(backlog[l], c) # <<>>
    BY <1>3
<1>5. /\ backlog' \in [{"inet", "unix"} -> Seq(Clients)]
      /\ backlog'[l] = Append(backlog[l], c)
      /\ \A m \in {"inet", "unix"} : m # l => backlog'[m] = backlog[m]
    BY <1>1, <1>3, <1>4
<1>6. conn' \in [Clients -> {"off", "queued", "open"}] /\ conn'[c] = "queued"
      /\ \A d \in Clients : d # c => conn'[d] = conn[d]
    BY <1>2, <1>3
<1>7. TypeOK'
    BY <1>2, <1>5, <1>6 DEF VectorInv, TypeOK
<1>8. VectorIsExact'
    <2>1. \A d \in Clients : conn'[d] = "open" <=> conn[d] = "open"
        BY <1>2, <1>6
    <2> QED
        BY <1>2, <2>1 DEF VectorInv, VectorIsExact, Sessions
<1>9. LoopShape'
    BY <1>2, <1>3, <1>4, <1>5 DEF VectorInv, TypeOK, LoopShape
<1>10. QueueShape'
    <2>1. \A m \in {"inet", "unix"} : \A i \in 1..Len(backlog'[m]) :
              \/ m = l /\ i = Len(backlog[l]) + 1 /\ backlog'[m][i] = c
              \/ i \in 1..Len(backlog[m]) /\ backlog'[m][i] = backlog[m][i]
        <3> TAKE m \in {"inet", "unix"}
        <3> TAKE i \in 1..Len(backlog'[m])
        <3>1. CASE m = l
            BY <3>1, <1>3, <1>4, <1>5
        <3>2. CASE m # l
            BY <3>2, <1>5
        <3> QED
            BY <3>1, <3>2
    <2>2. \A m \in {"inet", "unix"} : \A i \in 1..Len(backlog[m]) :
              /\ backlog[m][i] \in Clients /\ conn[backlog[m][i]] = "queued"
              /\ backlog[m][i] # c
        BY <1>2, <1>3 DEF VectorInv, QueueShape
    <2>3. \A m \in {"inet", "unix"} : \A i \in 1..Len(backlog'[m]) :
              conn'[backlog'[m][i]] = "queued"
        BY <2>1, <2>2, <1>6
    <2>4. ASSUME NEW m \in {"inet", "unix"}, NEW n \in {"inet", "unix"},
                 NEW i \in 1..Len(backlog'[m]), NEW j \in 1..Len(backlog'[n]),
                 backlog'[m][i] = backlog'[n][j]
          PROVE  m = n /\ i = j
        <3>1. CASE backlog'[m][i] = c
            BY <3>1, <2>1, <2>2, <2>4
        <3>2. CASE backlog'[m][i] # c
            <4>1. /\ i \in 1..Len(backlog[m]) /\ j \in 1..Len(backlog[n])
                  /\ backlog[m][i] = backlog[n][j]
                BY <3>2, <2>1, <2>4
            <4> QED
                BY <4>1 DEF VectorInv, QueueShape
        <3> QED
            BY <3>1, <3>2
    <2> QED
        BY <2>3, <2>4 DEF QueueShape
<1> QED
    BY <1>7, <1>8, <1>9, <1>10 DEF VectorInv

\* Clients and signals change neither the vector nor the queues.
LEMMA OutsideStep ==
    ASSUME VectorInv,
           \/ \E c \in Clients : Send(c) \/ Receive(c) \/ Close(c)
           \/ OnSignal \/ Terminated \/ UNCHANGED vars
    PROVE  VectorInv'
<1>1. /\ UNCHANGED <<fds, nsess, pending, ix, pc, reported, served, backlog, conn>>
      /\ \A i \in 0..(nsess - 1) : fds'[i].fd = fds[i].fd
    BY DEF Send, Receive, Close, OnSignal, Terminated, vars, serverVars, netVars
<1>2. VectorIsExact' /\ QueueShape'
    BY <1>1, QuietShapes
<1>3. LoopShape'
    BY <1>1 DEF VectorInv, LoopShape
<1>4. g_stop' \in BOOLEAN
    BY DEF Send, Receive, Close, OnSignal, Terminated, vars, serverVars, netVars,
       VectorInv, TypeOK
<1>5. eof' \in [Clients -> BOOLEAN]
    BY DEF Send, Receive, Close, OnSignal, Terminated, vars, serverVars, netVars,
       VectorInv, TypeOK
<1>6. inbox' \in [Clients -> {"empty", "partial", "reply"} \cup Messages]
    BY DEF Send, Receive, Close, OnSignal, Terminated, vars, serverVars, netVars,
       VectorInv, TypeOK
<1>7. TypeOK'
    BY <1>1, <1>4, <1>5, <1>6 DEF VectorInv, TypeOK
<1> QED
    BY <1>2, <1>3, <1>7 DEF VectorInv

LEMMA VectorStep == VectorInv /\ [Next]_vars => VectorInv'
BY PollStep, AcceptStep, ServiceStep, HandlerStep, LeaveStep, ConnectStep, OutsideStep
   DEF Next, Server

LEMMA VectorAlways == Spec => []VectorInv
BY VectorInit, VectorStep, PTL DEF Spec

\* The type invariant of PollLoop: in particular nothing is written past the end of
\* the vector, and the walk stays inside it.
THEOREM PollTypeCorrect == Spec => []TypeOK
BY VectorAlways, PTL DEF VectorInv

\* The first nsess entries are the open connections, each once, for any vector.
THEOREM VectorStaysExact == Spec => []VectorIsExact
BY VectorAlways, PTL DEF VectorInv

-----------------------------------------------------------------------------
(* A pass                                                                   *)

\* The entries from k on have not been dispatched in this pass, and all reported
\* sessions that were not are among them, with their revents.
Ahead(k) ==
    /\ \A i \in k..(nsess - 1) : fds[i].fd \notin served
    /\ \A c \in reported :
           c \in served \/ \E i \in k..(nsess - 1) : fds[i].fd = c /\ fds[i].revents

PassInv ==
    /\ pc \in {"inet", "unix"} => Ahead(0) /\ served = {}
    /\ pc = "service" => Ahead(ix)
    /\ pc \in {"dispatch", "send"} => Ahead(ix + 1)

\* A position in a vector is one in a longer vector.
LEMMA Longer == ASSUME NEW m \in Int, NEW n \in Int, m <= n, NEW i \in 0..(m - 1)
                PROVE  i \in 0..(n - 1)
    OBVIOUS

LEMMA PassPoll == ASSUME VectorInv, Poll PROVE PassInv'
<1>1. /\ nsess' = nsess /\ pc' = "inet" /\ served' = {}
      /\ reported' = {c \in Sessions : Readable(c)}
      /\ fds' = [i \in DOMAIN fds |->
                    IF i < nsess THEN [fds[i] EXCEPT !.revents = Readable(fds[i].fd)]
                    ELSE fds[i]]
    BY DEF Poll
<1>2. /\ fds \in [0..(Room - 1) -> [fd : Clients \cup {None}, revents : BOOLEAN]]
      /\ nsess \in 0..Room /\ Room \in Nat /\ Sessions \subseteq Clients
    BY RoomNat DEF VectorInv, TypeOK, VectorIsExact
<1>3. ASSUME NEW i \in 0..(nsess - 1)
      PROVE  fds'[i].fd = fds[i].fd /\ fds'[i].revents = Readable(fds[i].fd)
    <2>1. i \in 0..(Room - 1) /\ i < nsess
        BY <1>2
    <2>2. fds'[i] = [fds[i] EXCEPT !.revents = Readable(fds[i].fd)]
        BY <1>1, <1>2, <2>1
    <2>3. fds[i] \in [fd : Clients \cup {None}, revents : BOOLEAN]
        BY <1>2, <2>1
    <2> QED
        BY <2>2, <2>3
<1>4. ASSUME NEW c \in reported'
      PROVE  \E i \in 0..(nsess - 1) : fds'[i].fd = c /\ fds'[i].revents
    <2>1. c \in Sessions /\ Readable(c)
        BY <1>1
    <2>2. PICK i \in 0..(nsess - 1) : fds[i].fd = c
        BY <2>1 DEF Sessions
    <2> QED
        BY <2>1, <2>2, <1>3
<1>5. Ahead(0)'
    BY <1>1, <1>4 DEF Ahead
<1> QED
    BY <1>1, <1>5 DEF PassInv

\* New sessions come behind the ones that were reported.
LEMMA PassAccept == ASSUME VectorInv, PassInv, AcceptInet \/ AcceptUnix PROVE PassInv'
<1>1. /\ pc \in {"inet", "unix"} /\ pc' \in {"unix", "service"}
      /\ pc' = "service" => ix' = 0
      /\ reported' = reported /\ served' = served
    BY DEF AcceptInet, AcceptUnix
<1>2. Ahead(0) /\ served = {}
    BY <1>1 DEF PassInv
<1>3. /\ nsess \in Int /\ nsess' \in Int /\ nsess <= nsess'
      /\ \A i \in 0..(nsess - 1) : fds'[i] = fds[i]
    <2>0. nsess \in Int
        BY RoomNat DEF VectorInv, TypeOK
    <2>1. ASSUME NEW l \in {"inet", "unix"}, l \in pending, AcceptNewClient(l), pc = l
          PROVE  /\ nsess' >= nsess /\ nsess' \in 0..Room
                 /\ \A i \in 0..(nsess - 1) : fds'[i] = fds[i]
        <3>1. backlog[l] # <<>>
            BY <2>1 DEF VectorInv, LoopShape
        <3> QED
            BY <2>1, <3>1, AcceptKeeps
    <2>2. \/ AcceptNewClient("inet") /\ "inet" \in pending /\ pc = "inet"
          \/ AcceptNewClient("unix") /\ "unix" \in pending /\ pc = "unix"
          \/ UNCHANGED <<fds, nsess>>
        BY DEF AcceptInet, AcceptUnix
    <2> QED
        BY <2>0, <2>1, <2>2, RoomNat
<1>4. Ahead(0)'
    <2>1. ASSUME NEW i \in 0..(nsess - 1) PROVE i \in 0..(nsess' - 1)
        BY <1>3, Longer
    <2>2. \A c \in reported : \E i \in 0..(nsess - 1) : fds[i].fd = c /\ fds[i].revents
        BY <1>2 DEF Ahead
    <2>3. \A c \in reported : \E i \in 0..(nsess' - 1) : fds'[i].fd = c /\ fds'[i].revents
        BY <2>1, <2>2, <1>3
    <2> QED
        BY <1>1, <1>2, <2>3 DEF Ahead
<1> QED
    BY <1>1, <1>2, <1>4 DEF PassInv

\* A handler that goes on to the next entry, or puts the last one in this place.
LEMMA PassHandled ==
    ASSUME VectorInv, Ahead(ix + 1), pc \in {"dispatch", "send"}, pc' = "service",
           UNCHANGED <<reported, served, backlog>>,
           \/ ix' = ix + 1 /\ UNCHANGED <<fds, nsess>>
           \/ CloseSession(Current)
    PROVE  PassInv'
<1>1. /\ ix < nsess /\ nsess \in Int /\ ix \in Nat /\ Room \in Nat /\ nsess <= Room
    BY RoomNat DEF VectorInv, LoopShape, TypeOK
<1>2. CASE ix' = ix + 1 /\ UNCHANGED <<fds, nsess>>
    BY <1>2 DEF PassInv, Ahead
<1>3. CASE CloseSession(Current)
    <2>1. /\ nsess' = nsess - 1 /\ ix' = ix
          /\ fds'[ix] = fds[nsess - 1]
          /\ \A i \in 0..(Room - 1) : i # ix => fds'[i] = fds[i]
        BY <1>1, <1>3, CloseKeeps
    <2>2. \A i \in ix..(nsess' - 1) :
              \E j \in (ix + 1)..(nsess - 1) : fds'[i] = fds[j]
        <3> TAKE i \in ix..(nsess' - 1)
        <3>1. CASE i = ix
            <4>1. nsess - 1 \in (ix + 1)..(nsess - 1)
                BY <1>1, <2>1
            <4> QED
                BY <3>1, <4>1, <2>1
        <3>2. CASE i # ix
            <4>1. i \in (ix + 1)..(nsess - 1) /\ i \in 0..(Room - 1)
                BY <3>2, <1>1, <2>1
            <4> QED
                BY <3>2, <4>1, <2>1
        <3> QED
            BY <3>1, <3>2
    <2>3. \A j \in (ix + 1)..(nsess - 1) :
              \E i \in ix..(nsess' - 1) : fds'[i] = fds[j]
        <3> TAKE j \in (ix + 1)..(nsess - 1)
        <3>1. CASE j = nsess - 1
            <4>1. ix \in ix..(nsess' - 1)
                BY <3>1, <1>1, <2>1
            <4> QED
                BY <3>1, <4>1, <2>1
        <3>2. CASE j # nsess - 1
            <4>1. j \in ix..(nsess' - 1) /\ j \in 0..(Room - 1) /\ j # ix
                BY <3>2, <1>1, <2>1
            <4> QED
                BY <4>1, <2>1
        <3> QED
            BY <3>1, <3>2
    <2>4. \A i \in ix..(nsess' - 1) : fds'[i].fd \notin served
        BY <2>2 DEF Ahead
    <2>5. ASSUME NEW c \in reported, c \notin served
          PROVE  \E i \in ix..(nsess' - 1) : fds'[i].fd = c /\ fds'[i].revents
        <3>1. PICK j \in (ix + 1)..(nsess - 1) : fds[j].fd = c /\ fds[j].revents
            BY <2>5 DEF Ahead
        <3> QED
            BY <3>1, <2>3
    <2>6. Ahead(ix)'
        BY <2>1, <2>4, <2>5 DEF Ahead
    <2> QED
        BY <2>6 DEF PassInv
<1> QED
    BY <1>2, <1>3

LEMMA PassStep == ASSUME VectorInv, PassInv, [Next]_vars PROVE PassInv'
<1>n. nsess \in 0..Room /\ ix \in Nat /\ Room \in Nat
    BY RoomNat DEF VectorInv, TypeOK
<1>1. CASE Poll
    BY <1>1, PassPoll
<1>2. CASE AcceptInet \/ AcceptUnix
    BY <1>2, PassAccept
<1>3. CASE Skip
    <2>1. /\ ix < nsess /\ ~fds[ix].revents /\ ix' = ix + 1
          /\ pc = "service" /\ UNCHANGED <<fds, nsess, pc, reported, served>>
        BY <1>3 DEF Skip, InLoop
    <2>2. Ahead(ix)
        BY <2>1 DEF PassInv
    <2>3. \A i \in ix..(nsess - 1) : i = ix \/ i \in (ix + 1)..(nsess - 1)
        BY <1>n
    <2>4. \A i \in (ix + 1)..(nsess - 1) : i \in ix..(nsess - 1)
        BY <1>n
    <2>5. Ahead(ix + 1)
        BY <2>1, <2>2, <2>3, <2>4 DEF Ahead
    <2> QED
        BY <2>1, <2>5 DEF PassInv, Ahead
<1>4. CASE Select
    <2>1. /\ ix < nsess /\ ix' = ix /\ pc = "service" /\ pc' = "dispatch"
          /\ served' = served \cup {fds[ix].fd} /\ UNCHANGED <<fds, nsess, reported>>
        BY <1>4 DEF Select, InLoop
    <2>2. Ahead(ix)
        BY <2>1 DEF PassInv
    <2>3. \A i \in ix..(nsess - 1) : i = ix \/ i \in (ix + 1)..(nsess - 1)
        BY <1>n
    <2>4. ASSUME NEW i \in (ix + 1)..(nsess - 1) PROVE fds[i].fd \notin served'
        <3>1. i \in ix..(nsess - 1) /\ i # ix /\ i \in 0..(nsess - 1) /\ ix \in 0..(nsess - 1)
            BY <1>n, <2>1
        <3>2. fds[i].fd # fds[ix].fd
            BY <3>1, Exact DEF VectorInv
        <3> QED
            BY <3>1, <3>2, <2>1, <2>2 DEF Ahead
    <2>5. ASSUME NEW c \in reported, c \notin served'
          PROVE  \E i \in (ix + 1)..(nsess - 1) : fds[i].fd = c /\ fds[i].revents
        <3>1. PICK i \in ix..(nsess - 1) : fds[i].fd = c /\ fds[i].revents
            BY <2>1, <2>2, <2>5 DEF Ahead
        <3>2. i # ix
            BY <3>1, <2>1, <2>5
        <3> QED
            BY <3>1, <3>2, <2>3
    <2>6. Ahead(ix + 1)'
        BY <2>1, <2>4, <2>5 DEF Ahead
    <2> QED
        BY <2>1, <2>6 DEF PassInv
<1>5. CASE PassEnd \/ Leave
    BY <1>5 DEF PassEnd, Leave, PassInv
<1>6. CASE AnswerDownload
    BY <1>6 DEF AnswerDownload, PassInv, Ahead
<1>7. CASE Answer \/ Hangup \/ ReplyTaken
    <2>1. /\ pc \in {"dispatch", "send"} /\ pc' = "service"
          /\ UNCHANGED <<reported, served, backlog>>
        BY <1>7 DEF Answer, Hangup, ReplyTaken
    <2>2. \/ ix' = ix + 1 /\ UNCHANGED <<fds, nsess>>
          \/ CloseSession(Current)
        BY <1>7 DEF Answer, Hangup, ReplyTaken, KeepSession
    <2>3. Ahead(ix + 1)
        BY <2>1 DEF PassInv
    <2> QED
        BY <2>1, <2>2, <2>3, PassHandled
<1>8. CASE \/ \E c \in Clients : Connect(c) \/ Send(c) \/ Receive(c) \/ Close(c)
           \/ OnSignal \/ Terminated \/ UNCHANGED vars
    <2>1. UNCHANGED <<fds, nsess, ix, pc, reported, served>>
        BY <1>8 DEF Connect, Send, Receive, Close, OnSignal, Terminated, vars, serverVars,
           netVars
    <2> QED
        BY <2>1 DEF PassInv, Ahead
<1> QED
    BY <1>1, <1>2, <1>3, <1>4, <1>5, <1>6, <1>7, <1>8 DEF Next, Server

\* However many sessions close in a pass, each reported one is dispatched, and none
\* twice, for any vector.
THEOREM PassesServeEachOnce == Spec => PassServesEachOnce
<1> DEFINE Step == /\ pc = "service" /\ pc' = "dispatch" => Current \notin served
                   /\ pc = "service" /\ pc' = "poll" => reported \subseteq served
<1>1. Init => PassInv
    BY DEF Init, PassInv
<1>2. VectorInv /\ PassInv /\ [Next]_vars => [Step]_vars
    <2> SUFFICES ASSUME VectorInv, PassInv, Next, pc = "service" PROVE Step
        BY DEF vars
    <2>0. nsess \in Nat /\ ix \in Nat /\ Ahead(ix)
        BY RoomNat DEF VectorInv, TypeOK, PassInv
    <2>1. ASSUME pc' = "dispatch" PROVE Current \notin served
        <3>1. Select
            BY <2>1 DEF Next, Server, Poll, AcceptInet, AcceptUnix, Skip, PassEnd, Answer,
               AnswerDownload, ReplyTaken, Hangup, Leave, Connect, Send, Receive, Close,
               OnSignal, Terminated, serverVars, vars
        <3>2. ix \in ix..(nsess - 1)
            BY <3>1, <2>0 DEF Select, InLoop
        <3> QED
            BY <2>0, <3>2 DEF Ahead, Current
    <2>2. ASSUME pc' = "poll" PROVE reported \subseteq served
        <3>1. PassEnd
            BY <2>2 DEF Next, Server, Poll, AcceptInet, AcceptUnix, Skip, Select, Answer,
               AnswerDownload, ReplyTaken, Hangup, Leave, Connect, Send, Receive, Close,
               OnSignal, Terminated, serverVars, vars
        <3>2. ix..(nsess - 1) = {}
            BY <3>1, <2>0 DEF PassEnd, InLoop
        <3> QED
            BY <2>0, <3>2 DEF Ahead
    <2> QED
        BY <2>1, <2>2
<1>3. VectorInv /\ PassInv /\ [Next]_vars => PassInv'
    BY PassStep
<1> QED
    BY <1>1, <1>2, <1>3, VectorAlways, PTL DEF Spec, PassServesEachOnce
=============================================================================
