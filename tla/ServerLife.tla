----------------------------- MODULE ServerLife -----------------------------
(***************************************************************************)
(* Servers come and go: what main and the two ends of net_server_run do to *)
(* the TCP port and to the path of the AF_UNIX socket, which all servers   *)
(* of a machine share (a server started with -p has another port and the   *)
(* same path).  No descriptor is close-on-exec but the watch, so a worker  *)
(* has copies of its server's listeners and keeps them open when the       *)
(* server ends.                                                            *)
(*                                                                         *)
(* What happens on a connection after accept is in Session.                *)
(***************************************************************************)
EXTENDS Naturals

CONSTANTS
    Servers,        \* processes that run vps_server, one after the other each
    Clients,
    None,
    Ports,
    PortOf,         \* listen_port of server.conf, or the port given with -p
    UserOf          \* the user that each server runs as

ASSUME ServerLifeAssumptions ==
    /\ None \notin Servers
    /\ PortOf \in [Servers -> Ports]

VARIABLES
    pc,             \* where each server is in main and net_server_run
    unix_fd,        \* its AF_UNIX listener could be opened
    worker,         \* some worker it forked is running
    tcp, ux,        \* its listening sockets exist: somebody has them open
    path,           \* the server whose socket /tmp/vps_admin.sock is
    queue,          \* the connection of each client that waits for accept
    dirty,          \* a server left its path behind (ghost)
    shared,         \* another server lived at the same time (ghost)
    denied          \* the system did not let it have its AF_UNIX listener (ghost)

ghosts == <<dirty, shared, denied>>
vars == <<pc, unix_fd, worker, tcp, ux, path, queue, ghosts>>

NotQueued == [to |-> None, via |-> "none"]

-----------------------------------------------------------------------------
Init ==
    /\ pc = [p \in Servers |-> "off"]
    /\ unix_fd = [p \in Servers |-> FALSE]
    /\ worker = [p \in Servers |-> FALSE]
    /\ tcp = [p \in Servers |-> FALSE]
    /\ ux = [p \in Servers |-> FALSE]
    /\ path = None
    /\ queue = [c \in Clients |-> NotQueued]
    /\ dirty = FALSE
    /\ shared = [p \in Servers |-> FALSE]
    /\ denied = [p \in Servers |-> FALSE]

Goto(p, from, to) == pc[p] = from /\ pc' = [pc EXCEPT ![p] = to]

\* Some holder of p's listeners closes them; with the last one the sockets go, and
\* the connections that wait on them.
Release(p, heldOn) ==
    /\ tcp' = [tcp EXCEPT ![p] = @ /\ heldOn]
    /\ ux' = [ux EXCEPT ![p] = @ /\ heldOn]
    /\ queue' = [c \in Clients |->
                    IF queue[c].to = p /\ ~heldOn THEN NotQueued ELSE queue[c]]

-----------------------------------------------------------------------------
(* main and the beginning of net_server_run                                 *)

\* The name of a process is used again when nothing is left of it.
Start(p) ==
    /\ ~worker[p]
    /\ Goto(p, "off", "config")
    /\ shared' = [q \in Servers |->
                     IF q = p THEN \E r \in Servers \ {p} : pc[r] # "off"
                     ELSE pc[q] # "off"]
    /\ denied' = [q \in Servers |-> q # p /\ pc[q] # "off" /\ denied[q]]
    /\ UNCHANGED <<unix_fd, worker, tcp, ux, path, queue, dirty>>

\* A bad option, no configuration file or a malformed one, libav; a call of
\* open_listener that fails for want of resources.
ConfigFails(p) ==
    /\ Goto(p, "config", "off")
    /\ UNCHANGED <<unix_fd, worker, tcp, ux, path, queue, ghosts>>

Taken(p) == \E q \in Servers : PortOf[q] = PortOf[p] /\ tcp[q]

\* Mutant: a failure is not noticed.
OpenListener_Unchecked(p) ==
    /\ Goto(p, "config", "unlink")
    /\ tcp' = [tcp EXCEPT ![p] = ~Taken(p)]
    /\ UNCHANGED <<unix_fd, worker, ux, path, queue, ghosts>>

\* SO_REUSEADDR lets bind and listen succeed unless somebody listens on the port.
OpenListener(p) ==
    /\ IF Taken(p)
       THEN Goto(p, "config", "off") /\ UNCHANGED tcp
       ELSE Goto(p, "config", "unlink") /\ tcp' = [tcp EXCEPT ![p] = TRUE]
    /\ UNCHANGED <<unix_fd, worker, ux, path, queue, ghosts>>

\* open_unix_listener: without a socket it touches no path. Whatever fails in it, the
\* server goes on with the TCP listener only.
UnixSocketFails(p) ==
    /\ Goto(p, "unlink", "alloc")
    /\ denied' = [denied EXCEPT ![p] = TRUE]
    /\ UNCHANGED <<unix_fd, worker, tcp, ux, path, queue, dirty, shared>>

\* /tmp is sticky: only the user that made a path may remove it.
MayUnlink(p) == path # None => UserOf[path] = UserOf[p]

\* Mutant: the path an earlier server left is not removed.
UnlinkPath_Never(p) ==
    /\ Goto(p, "unlink", "unix")
    /\ UNCHANGED <<unix_fd, worker, tcp, ux, path, queue, ghosts>>

\* It removes the path, whoever has it, and does not look at the result ...
UnlinkPath(p) ==
    /\ Goto(p, "unlink", "unix")
    /\ path' = IF MayUnlink(p) THEN None ELSE path
    /\ denied' = [denied EXCEPT ![p] = ~MayUnlink(p)]
    /\ UNCHANGED <<unix_fd, worker, tcp, ux, queue, dirty, shared>>

\* ... and binds its own socket there, unless the path is in the way, because it could
\* not be removed or another server was faster.
BindUnix(p) ==
    /\ Goto(p, "unix", "alloc")
    /\ path' = IF path = None THEN p ELSE path
    /\ unix_fd' = [unix_fd EXCEPT ![p] = (path = None)]
    /\ ux' = [ux EXCEPT ![p] = (path = None)]
    /\ UNCHANGED <<worker, tcp, queue, ghosts>>

\* bind fails for another reason, or listen does; a path that was bound stays.
BindUnixFails(p) ==
    /\ Goto(p, "unix", "alloc")
    /\ \/ UNCHANGED <<path, dirty>>
       \/ path = None /\ path' = p /\ dirty' = TRUE
    /\ denied' = [denied EXCEPT ![p] = TRUE]
    /\ UNCHANGED <<unix_fd, worker, tcp, ux, queue, shared>>

Alloc(p) ==
    /\ Goto(p, "alloc", "run")
    /\ UNCHANGED <<unix_fd, worker, tcp, ux, path, queue, ghosts>>

\* calloc fails: the listeners are closed, the path stays.
AllocFails(p) ==
    /\ Goto(p, "alloc", "off")
    /\ Release(p, FALSE)
    /\ unix_fd' = [unix_fd EXCEPT ![p] = FALSE]
    /\ dirty' = (dirty \/ unix_fd[p])
    /\ UNCHANGED <<worker, path, shared, denied>>

-----------------------------------------------------------------------------
(* The loop                                                                 *)

\* Mutant: the AF_UNIX listener is polled and never accepted from.
Accept_Inet(p, c) ==
    /\ pc[p] = "run"
    /\ queue[c] = [to |-> p, via |-> "inet"]
    /\ queue' = [queue EXCEPT ![c] = NotQueued]
    /\ UNCHANGED <<pc, unix_fd, worker, tcp, ux, path, ghosts>>

Accept(p, c) ==
    /\ pc[p] = "run"
    /\ queue[c].to = p
    /\ queue' = [queue EXCEPT ![c] = NotQueued]
    /\ UNCHANGED <<pc, unix_fd, worker, tcp, ux, path, ghosts>>

Fork(p) ==
    /\ pc[p] = "run"
    /\ worker' = [worker EXCEPT ![p] = TRUE]
    /\ UNCHANGED <<pc, unix_fd, tcp, ux, path, queue, ghosts>>

\* The last worker of p ends.
WorkerEnds(p) ==
    /\ worker[p]
    /\ worker' = [worker EXCEPT ![p] = FALSE]
    /\ Release(p, pc[p] # "off" /\ pc[p] # "rmpath")
    /\ UNCHANGED <<pc, unix_fd, path, ghosts>>

-----------------------------------------------------------------------------
(* The end of net_server_run                                                *)

CloseFds(p) ==
    /\ Goto(p, "run", "rmpath")
    /\ Release(p, worker[p])
    /\ UNCHANGED <<unix_fd, worker, path, ghosts>>

\* Mutant: the path is left.
RemovePath_Never(p) ==
    /\ Goto(p, "rmpath", "off")
    /\ unix_fd' = [unix_fd EXCEPT ![p] = FALSE]
    /\ UNCHANGED <<worker, tcp, ux, path, queue, ghosts>>

\* The path is removed by its name: it may be another server's by now. The workers
\* are left running.
RemovePath(p) ==
    /\ Goto(p, "rmpath", "off")
    /\ path' = IF unix_fd[p] /\ MayUnlink(p) THEN None ELSE path
    /\ unix_fd' = [unix_fd EXCEPT ![p] = FALSE]
    /\ UNCHANGED <<worker, tcp, ux, queue, ghosts>>

Crash(p) ==
    /\ pc[p] # "off"
    /\ pc' = [pc EXCEPT ![p] = "off"]
    /\ Release(p, worker[p])
    /\ unix_fd' = [unix_fd EXCEPT ![p] = FALSE]
    /\ dirty' = (dirty \/ unix_fd[p])
    /\ UNCHANGED <<worker, path, shared, denied>>

-----------------------------------------------------------------------------
(* Clients                                                                  *)

\* connect succeeds when the socket listens, whether or not anybody accepts; when
\* it does not the client ends.
DialInet(c) ==
    /\ queue[c] = NotQueued
    /\ \E p \in Servers : tcp[p] /\ queue' = [queue EXCEPT ![c] = [to |-> p, via |-> "inet"]]
    /\ UNCHANGED <<pc, unix_fd, worker, tcp, ux, path, ghosts>>

\* vps_admin -U
DialUnix(c) ==
    /\ queue[c] = NotQueued
    /\ path # None
    /\ ux[path]
    /\ queue' = [queue EXCEPT ![c] = [to |-> path, via |-> "unix"]]
    /\ UNCHANGED <<pc, unix_fd, worker, tcp, ux, path, ghosts>>

-----------------------------------------------------------------------------
\* From main to the loop.
Begin(p) == \/ ConfigFails(p) \/ OpenListener(p) \/ UnixSocketFails(p) \/ UnlinkPath(p)
            \/ BindUnix(p) \/ BindUnixFails(p) \/ Alloc(p) \/ AllocFails(p)

Server(p) == \/ Start(p) \/ Begin(p) \/ Fork(p) \/ (\E c \in Clients : Accept(p, c))
             \/ CloseFds(p) \/ RemovePath(p) \/ Crash(p)

Next == \/ \E p \in Servers : Server(p) \/ WorkerEnds(p)
        \/ \E c \in Clients : DialInet(c) \/ DialUnix(c)

\* Workers end, a server that starts runs, and a running one accepts each connection:
\* one from each listener in a pass, the oldest first.
Spec == /\ Init /\ [][Next]_vars
        /\ \A p \in Servers : /\ WF_vars(WorkerEnds(p)) /\ WF_vars(Begin(p))
                               /\ \A c \in Clients : WF_vars(Accept(p, c))

-----------------------------------------------------------------------------
(* Properties                                                               *)

\* The values the variables can have. A server that runs listens, and only a socket
\* that somebody has open does.
TypeOK ==
    /\ pc \in [Servers -> {"off", "config", "unlink", "unix", "alloc", "run", "rmpath"}]
    /\ unix_fd \in [Servers -> BOOLEAN] /\ worker \in [Servers -> BOOLEAN]
    /\ tcp \in [Servers -> BOOLEAN] /\ ux \in [Servers -> BOOLEAN]
    /\ path \in Servers \cup {None}
    /\ queue \in [Clients -> {NotQueued} \cup [to : Servers, via : {"inet", "unix"}]]
    /\ dirty \in BOOLEAN
    /\ shared \in [Servers -> BOOLEAN] /\ denied \in [Servers -> BOOLEAN]
    /\ \A p \in Servers : /\ pc[p] = "run" => tcp[p]
                          /\ tcp[p] /\ ~worker[p] =>
                                 pc[p] \in {"unlink", "unix", "alloc", "run"}
                          /\ ux[p] => tcp[p]

\* A server that was alone from its start to now has the path if it has an AF_UNIX
\* listener, and it has one unless the system denied it (a failed call, or a path of
\* another user that could not be removed), however its predecessors ended: stopped,
\* crashed, or with workers still running.
AdminReaches ==
    \A p \in Servers : pc[p] = "run" /\ ~shared[p] =>
        /\ unix_fd[p] => path = p
        /\ ~denied[p] => unix_fd[p]

\* Only a crash, a start without memory or a listen that fails after its bind leaves a
\* path that no server has: servers that stop leave nothing, in whatever order they
\* started and stopped.
OrphanOnlyAfterFailure == path # None /\ ~dirty => unix_fd[path]

\* No connection waits for ever on a server that is gone: the server accepts it, or it
\* is reset when the last worker that has the listener ends.
EveryDialEnds == \A c \in Clients : queue[c] # NotQueued ~> queue[c] = NotQueued
=============================================================================
