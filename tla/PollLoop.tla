------------------------------ MODULE PollLoop ------------------------------
(***************************************************************************)
(* The connection side of vps_server: the loop of net_server_run, the      *)
(* pollfd vector with its in-place compaction, and the handlers as calls   *)
(* that read a whole message from one client before anything else happens. *)
(*                                                                         *)
(* Job handling (JobTable) happens between poll and the accepts and inside *)
(* the handlers; it never blocks and never touches the vector.             *)
(***************************************************************************)
EXTENDS Integers, Sequences

CONSTANTS
    Clients,        \* the client processes
    None,           \* fd of a vector entry that was never used
    Messages,       \* the whole messages clients send, by what they do
    MaxClients,     \* max_clients of server.conf
    HasUnix,        \* the AF_UNIX listener could be opened
    HasInotify      \* the inotify watch could be opened

ASSUME PollLoopAssumptions ==
    /\ None \notin Clients
    /\ Messages \subseteq {"request", "bye", "shutdown", "download"}
    /\ MaxClients \in Nat
    /\ HasUnix \in BOOLEAN /\ HasInotify \in BOOLEAN

VARIABLES
    fds,            \* session part of the vector, beyond nsess too
    nsess,          \* nfds - sessions_start
    pending,        \* listeners whose revents has POLLIN
    ix,             \* loop variable of service_session_fds
    pc,             \* where the server is in its loop
    g_stop,
    backlog,        \* connections that wait in each listener's queue
    conn,           \* the server's end of a client's connection
    inbox,          \* what the client has sent and the server not yet read
    eof,            \* the client has closed its end
    reported,       \* sessions poll reported in this pass (ghost)
    served          \* sessions dispatched in this pass (ghost)

serverVars == <<fds, nsess, pending, ix, pc, g_stop, reported, served>>
netVars    == <<backlog, conn, inbox, eof>>
vars == <<serverVars, netVars>>

Listeners == IF HasUnix THEN {"inet", "unix"} ELSE {"inet"}

\* limit = max_clients + 3 entries, of which the listeners and the inotify watch
\* that could be opened take one each.
Room == MaxClients + 3 - (1 + (IF HasUnix THEN 1 ELSE 0) + (IF HasInotify THEN 1 ELSE 0))

Sessions == {fds[i].fd : i \in 0..(nsess - 1)}

Readable(c) == inbox[c] # "empty" \/ eof[c]   \* poll: POLLIN or POLLHUP

-----------------------------------------------------------------------------
Init ==
    /\ fds = [i \in 0..(Room - 1) |-> [fd |-> None, revents |-> FALSE]]
    /\ nsess = 0
    /\ pending = {}
    /\ ix = 0
    /\ pc = "poll"
    /\ g_stop = FALSE
    /\ backlog = [l \in {"inet", "unix"} |-> <<>>]
    /\ conn = [c \in Clients |-> "off"]
    /\ inbox = [c \in Clients |-> "empty"]
    /\ eof = [c \in Clients |-> FALSE]
    /\ reported = {} /\ served = {}

-----------------------------------------------------------------------------
(* poll and accept                                                          *)

\* poll() writes revents of the first nfds entries only. With nothing ready it
\* times out and the loop goes round, which changes nothing here.
Poll ==
    /\ pc = "poll"
    /\ ~g_stop
    /\ pending' = {l \in Listeners : backlog[l] # <<>>}
    /\ reported' = {c \in Sessions : Readable(c)}
    /\ pending' # {} \/ reported' # {}
    /\ fds' = [i \in DOMAIN fds |->
                  IF i < nsess THEN [fds[i] EXCEPT !.revents = Readable(fds[i].fd)]
                  ELSE fds[i]]
    /\ served' = {}
    /\ pc' = "inet"
    /\ UNCHANGED <<nsess, ix, g_stop, netVars>>

\* Mutant: the vector's limit is not looked at.
TakeConnection_NoLimit(l) ==
    LET c == Head(backlog[l]) IN
    /\ backlog' = [backlog EXCEPT ![l] = Tail(@)]
    /\ fds' = [fds EXCEPT ![nsess].fd = c]
    /\ nsess' = nsess + 1
    /\ conn' = [conn EXCEPT ![c] = "open"]
    /\ UNCHANGED <<inbox, eof>>

\* The entry gets a descriptor, and its revents stay as they were; a connection that
\* finds the vector full is closed.
TakeConnection(l) ==
    LET c == Head(backlog[l]) IN
    /\ backlog' = [backlog EXCEPT ![l] = Tail(@)]
    /\ IF nsess < Room
       THEN /\ fds' = [fds EXCEPT ![nsess].fd = c]
            /\ nsess' = nsess + 1
            /\ conn' = [conn EXCEPT ![c] = "open"]
            /\ UNCHANGED <<inbox, eof>>
       ELSE /\ conn' = [conn EXCEPT ![c] = "off"]
            /\ inbox' = [inbox EXCEPT ![c] = "empty"]
            /\ eof' = [eof EXCEPT ![c] = FALSE]
            /\ UNCHANGED <<fds, nsess>>

\* accept takes the oldest connection, or fails, without a free descriptor for one,
\* and leaves them all where they are.
AcceptNewClient(l) == TakeConnection(l) \/ UNCHANGED <<fds, nsess, netVars>>

AcceptInet ==
    /\ pc = "inet"
    /\ IF "inet" \in pending THEN AcceptNewClient("inet")
                             ELSE UNCHANGED <<fds, nsess, netVars>>
    /\ pc' = "unix"
    /\ UNCHANGED <<pending, ix, g_stop, reported, served>>

\* Mutant: the AF_UNIX listener is polled and never accepted from.
AcceptUnix_Never ==
    /\ pc = "unix"
    /\ pc' = "service"
    /\ ix' = 0
    /\ UNCHANGED <<fds, nsess, netVars, pending, g_stop, reported, served>>

AcceptUnix ==
    /\ pc = "unix"
    /\ IF "unix" \in pending THEN AcceptNewClient("unix")
                             ELSE UNCHANGED <<fds, nsess, netVars>>
    /\ pc' = "service"
    /\ ix' = 0
    /\ UNCHANGED <<pending, g_stop, reported, served>>

-----------------------------------------------------------------------------
(* service_session_fds and dispatch_one                                     *)

\* Mutant: the last entry of the vector is left out.
InLoop_Short == ix < nsess - 1

InLoop == ix < nsess

Skip ==
    /\ pc = "service"
    /\ InLoop
    /\ ~fds[ix].revents
    /\ ix' = ix + 1
    /\ UNCHANGED <<fds, nsess, pending, pc, g_stop, reported, served, netVars>>

Select ==
    /\ pc = "service"
    /\ InLoop
    /\ fds[ix].revents
    /\ pc' = "dispatch"
    /\ served' = served \cup {fds[ix].fd}
    /\ UNCHANGED <<fds, nsess, pending, ix, g_stop, reported, netVars>>

PassEnd ==
    /\ pc = "service"
    /\ ~InLoop
    /\ pc' = "poll"
    /\ UNCHANGED <<fds, nsess, pending, ix, g_stop, reported, served, netVars>>

\* Mutants: the entry that takes the closed one's place is passed over; the
\* last entry is not moved.
CloseSession_NoStepBack(c) ==
    /\ fds' = [fds EXCEPT ![ix] = fds[nsess - 1]]
    /\ nsess' = nsess - 1
    /\ ix' = ix + 1
    /\ conn' = [conn EXCEPT ![c] = "off"]
    /\ inbox' = [inbox EXCEPT ![c] = "empty"]
    /\ eof' = [eof EXCEPT ![c] = FALSE]
CloseSession_NoMove(c) ==
    /\ nsess' = nsess - 1
    /\ conn' = [conn EXCEPT ![c] = "off"]
    /\ inbox' = [inbox EXCEPT ![c] = "empty"]
    /\ eof' = [eof EXCEPT ![c] = FALSE]
    /\ UNCHANGED <<fds, ix>>

\* close(sock); fds[ix] = fds[nfds - 1]; nfds--; ix--; and the loop's ix++
CloseSession(c) ==
    /\ fds' = [fds EXCEPT ![ix] = fds[nsess - 1]]
    /\ nsess' = nsess - 1
    /\ conn' = [conn EXCEPT ![c] = "off"]
    /\ inbox' = [inbox EXCEPT ![c] = "empty"]
    /\ eof' = [eof EXCEPT ![c] = FALSE]
    /\ UNCHANGED ix

KeepSession(c) ==
    /\ ix' = ix + 1
    /\ inbox' = [inbox EXCEPT ![c] = "empty"]
    /\ UNCHANGED <<fds, nsess, conn, eof>>

Current == fds[ix].fd

\* A whole message is there: it is handled and answered. BYE and unknown
\* operations close; so does a reply that cannot be written any more.
Answer ==
    /\ pc = "dispatch"
    /\ inbox[Current] \in Messages \ {"download"}
    /\ \/ inbox[Current] # "bye" /\ KeepSession(Current)
       \/ inbox[Current] = "bye" /\ CloseSession(Current)
       \/ eof[Current] /\ CloseSession(Current)
    /\ g_stop' = (g_stop \/ inbox[Current] = "shutdown")
    /\ pc' = "service"
    /\ UNCHANGED <<pending, reported, served, backlog>>

\* A download is more than the socket takes: proto_send_file goes on as the client
\* reads, and waits when it does not.
AnswerDownload ==
    /\ pc = "dispatch"
    /\ inbox[Current] = "download"
    /\ inbox' = [inbox EXCEPT ![Current] = "reply"]
    /\ pc' = "send"
    /\ UNCHANGED <<fds, nsess, pending, ix, g_stop, reported, served, backlog, conn, eof>>

ReplyTaken ==
    /\ pc = "send"
    /\ \/ inbox[Current] # "reply" /\ ix' = ix + 1
                                   /\ UNCHANGED <<fds, nsess, conn, inbox, eof>>
       \/ eof[Current] /\ CloseSession(Current)
    /\ pc' = "service"
    /\ UNCHANGED <<pending, g_stop, reported, served, backlog>>

\* proto_read_full meets the end of the stream before a whole message. Without
\* an end it waits: no signal and no timeout ends the read.
Hangup ==
    /\ pc = "dispatch"
    /\ inbox[Current] \notin Messages
    /\ eof[Current]
    /\ CloseSession(Current)
    /\ pc' = "service"
    /\ UNCHANGED <<pending, g_stop, reported, served, backlog>>

\* Mutant: the server waits for its sessions to leave.
Leave_WhenEmpty ==
    /\ pc = "poll"
    /\ g_stop
    /\ nsess = 0
    /\ pc' = "exited"
    /\ backlog' = [l \in DOMAIN backlog |-> <<>>]
    /\ conn' = [c \in Clients |-> "off"]
    /\ UNCHANGED <<fds, nsess, pending, ix, g_stop, reported, served, inbox, eof>>

\* while (g_stop == 0): the descriptors are closed and the process ends.
Leave ==
    /\ pc = "poll"
    /\ g_stop
    /\ pc' = "exited"
    /\ nsess' = 0
    /\ backlog' = [l \in DOMAIN backlog |-> <<>>]
    /\ conn' = [c \in Clients |-> "off"]
    /\ inbox' = [c \in Clients |-> "empty"]
    /\ eof' = [c \in Clients |-> FALSE]
    /\ UNCHANGED <<fds, pending, ix, g_stop, reported, served>>

-----------------------------------------------------------------------------
(* Clients and signals                                                      *)

Connect(c) ==
    /\ pc # "exited"
    /\ conn[c] = "off"
    /\ \E l \in Listeners : backlog' = [backlog EXCEPT ![l] = Append(@, c)]
    /\ conn' = [conn EXCEPT ![c] = "queued"]
    /\ UNCHANGED <<serverVars, inbox, eof>>

\* A message arrives in one piece or in two; the client waits for the reply.
Send(c) ==
    /\ conn[c] # "off" /\ ~eof[c]
    /\ \/ inbox[c] = "empty" /\ inbox' = [inbox EXCEPT ![c] = "partial"]
       \/ /\ inbox[c] \in {"empty", "partial"}
          /\ \E m \in Messages : inbox' = [inbox EXCEPT ![c] = m]
    /\ UNCHANGED <<serverVars, backlog, conn, eof>>

\* It reads the whole download.
Receive(c) ==
    /\ inbox[c] = "reply" /\ ~eof[c]
    /\ inbox' = [inbox EXCEPT ![c] = "empty"]
    /\ UNCHANGED <<serverVars, backlog, conn, eof>>

Close(c) ==
    /\ conn[c] # "off" /\ ~eof[c]
    /\ eof' = [eof EXCEPT ![c] = TRUE]
    /\ UNCHANGED <<serverVars, backlog, conn, inbox>>

OnSignal ==
    /\ pc # "exited"
    /\ g_stop' = TRUE
    /\ UNCHANGED <<fds, nsess, pending, ix, pc, reported, served, netVars>>

-----------------------------------------------------------------------------
Server == Poll \/ AcceptInet \/ AcceptUnix \/ Skip \/ Select \/ PassEnd \/ Answer
          \/ AnswerDownload \/ ReplyTaken \/ Hangup \/ Leave

\* What a client in the middle of a message or of a download does to finish it.
Proceed(c) == inbox[c] \in {"partial", "reply"} /\ (Send(c) \/ Receive(c) \/ Close(c))

Terminated == pc = "exited" /\ UNCHANGED vars

Next == \/ Server
        \/ \E c \in Clients : Connect(c) \/ Send(c) \/ Receive(c) \/ Close(c)
        \/ OnSignal
        \/ Terminated

Spec == Init /\ [][Next]_vars

\* The server runs whenever it is not blocked, and a client finishes, or closes, what it
\* began. A client between two messages may keep its connection open for ever.
FairSpec == Spec /\ WF_vars(Server) /\ \A c \in Clients : WF_vars(Proceed(c))

-----------------------------------------------------------------------------
(* Properties                                                               *)

\* The values the variables can have; a connection waits in one queue, once.
TypeOK ==
    /\ fds \in [0..(Room - 1) -> [fd : Clients \cup {None}, revents : BOOLEAN]]
    /\ nsess \in 0..Room /\ ix \in 0..Room
    /\ pending \subseteq {"inet", "unix"}
    /\ pc \in {"poll", "inet", "unix", "service", "dispatch", "send", "exited"}
    /\ g_stop \in BOOLEAN
    /\ backlog \in [{"inet", "unix"} -> Seq(Clients)]
    /\ conn \in [Clients -> {"off", "queued", "open"}]
    /\ inbox \in [Clients -> {"empty", "partial", "reply"} \cup Messages]
    /\ eof \in [Clients -> BOOLEAN]
    /\ reported \subseteq Clients /\ served \subseteq Clients

\* The compaction neither loses nor duplicates a descriptor: the first nsess
\* entries are exactly the connections the server has open, each once. A lost
\* one would never be served or closed again, a duplicate would be closed twice.
VectorIsExact ==
    /\ Sessions = {c \in Clients : conn[c] = "open"}
    /\ \A i, j \in 0..(nsess - 1) : fds[i].fd = fds[j].fd => i = j

\* However many sessions close while the vector is walked, a pass dispatches
\* every session that poll reported, and none twice.
PassServesEachOnce ==
    [][/\ pc = "service" /\ pc' = "dispatch" => Current \notin served
       /\ pc = "service" /\ pc' = "poll" => reported \subseteq served]_vars

\* The server reads from a client that has sent nothing, and nothing ends that read but
\* this client. It gets there by DispatchesOnlyReady's violation only.
AwaitsIdle == pc = "dispatch" /\ inbox[Current] = "empty" /\ ~eof[Current]

\* With clients that stall neither in a message nor in front of their reply, a request
\* on an accepted connection is answered, or the connection is closed: nobody else's
\* session, however busy, keeps the loop from it. The exception is a server that is left reading
\* from an idle client.
EveryRequestAnswered ==
    \A c \in Clients :
        conn[c] = "open" /\ inbox[c] \in Messages ~> inbox[c] = "empty" \/ []AwaitsIdle

\* A connection, on either listener, is accepted or refused, if accept does not fail for
\* ever; with the same exception.
EveryConnectionTaken ==
    SF_vars(AcceptInet /\ backlog' # backlog) /\ SF_vars(AcceptUnix /\ backlog' # backlog)
    => \A c \in Clients : conn[c] = "queued" ~> conn[c] # "queued" \/ []AwaitsIdle

\* SIGTERM, SIGINT and the SHUTDOWN request end the server, even while clients stay
\* connected, silent or busy, and a SHUTDOWN whose reply fails as well; with the same
\* exception.
StopsOnRequest ==
    g_stop \/ (pc = "dispatch" /\ inbox[Current] = "shutdown")
        ~> pc = "exited" \/ []AwaitsIdle

-----------------------------------------------------------------------------
(* What the documentation and the comments say, and the code does not do    *)

\* net_server.c:561 "proceseaza fd-urile de sesiune gata de I/O": a session is
\* dispatched, that is read from, only when it is ready for I/O.
DispatchesOnlyReady == pc = "dispatch" => Readable(Current)
=============================================================================
