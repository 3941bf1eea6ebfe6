-------------------------- MODULE ServerLifeProofs --------------------------
(***************************************************************************)
(* Theorems about ServerLife: which sockets listen and whose the path of   *)
(* the AF_UNIX socket is, for any number of servers, ports and clients.    *)
(***************************************************************************)
EXTENDS ServerLife, TLAPS

USE ServerLifeAssumptions

Listening == {"unlink", "unix", "alloc", "run"}

\* What TypeOK needs to be inductive: a server listens from open_listener to the end
\* of its loop, and has workers in its loop and later only.
LifeShape ==
    \A p \in Servers :
        /\ pc[p] \in Listening => tcp[p]
        /\ worker[p] => pc[p] \in {"run", "rmpath", "off"}
        /\ unix_fd[p] => pc[p] \in {"alloc", "run", "rmpath"}

LifeInv == TypeOK /\ LifeShape

LEMMA LifeInit == Init => LifeInv
BY DEF Init, LifeInv, TypeOK, LifeShape, NotQueued, Listening

\* What remains open after one of several holders closed.
LEMMA ReleaseType ==
    ASSUME TypeOK, NEW p \in Servers, NEW h \in BOOLEAN, Release(p, h)
    PROVE  /\ tcp' \in [Servers -> BOOLEAN] /\ ux' \in [Servers -> BOOLEAN]
           /\ queue' \in [Clients -> {NotQueued} \cup [to : Servers, via : {"inet", "unix"}]]
           /\ tcp'[p] = (tcp[p] /\ h) /\ ux'[p] = (ux[p] /\ h)
           /\ \A q \in Servers \ {p} : tcp'[q] = tcp[q] /\ ux'[q] = ux[q]
BY DEF Release, TypeOK

LEMMA LifeStep == LifeInv /\ [Next]_vars => LifeInv'
<1> SUFFICES ASSUME LifeInv, [Next]_vars PROVE LifeInv'
    OBVIOUS
<1> USE DEF LifeInv, LifeShape, Listening, Goto, ghosts
<1>1. ASSUME NEW p \in Servers, Start(p) PROVE LifeInv'
    BY <1>1 DEF Start, TypeOK
<1>2. ASSUME NEW p \in Servers, ConfigFails(p) PROVE LifeInv'
    BY <1>2 DEF ConfigFails, TypeOK
<1>3. ASSUME NEW p \in Servers, OpenListener(p) PROVE LifeInv'
    <2>1. CASE Taken(p)
        BY <1>3, <2>1 DEF OpenListener, TypeOK
    <2>2. CASE ~Taken(p)
        BY <1>3, <2>2, ZenonT(40) DEF OpenListener, TypeOK
    <2> QED
        BY <2>1, <2>2
<1>4. ASSUME NEW p \in Servers, UnlinkPath(p) PROVE LifeInv'
    BY <1>4 DEF UnlinkPath, TypeOK
<1>5. ASSUME NEW p \in Servers, BindUnix(p) PROVE LifeInv'
    BY <1>5 DEF BindUnix, TypeOK
<1>17. ASSUME NEW p \in Servers, UnixSocketFails(p) PROVE LifeInv'
    BY <1>17 DEF UnixSocketFails, TypeOK
<1>18. ASSUME NEW p \in Servers, BindUnixFails(p) PROVE LifeInv'
    BY <1>18 DEF BindUnixFails, TypeOK
<1>6. ASSUME NEW p \in Servers, Alloc(p) PROVE LifeInv'
    BY <1>6 DEF Alloc, TypeOK
<1>7. ASSUME NEW p \in Servers, AllocFails(p) PROVE LifeInv'
    BY <1>7, ReleaseType, ZenonT(40) DEF AllocFails, TypeOK
<1>8. ASSUME NEW p \in Servers, Fork(p) PROVE LifeInv'
    BY <1>8 DEF Fork, TypeOK
<1>9. ASSUME NEW p \in Servers, NEW c \in Clients, Accept(p, c) PROVE LifeInv'
    BY <1>9 DEF Accept, TypeOK
<1>10. ASSUME NEW p \in Servers, CloseFds(p) PROVE LifeInv'
    BY <1>10, ReleaseType DEF CloseFds, TypeOK
<1>11. ASSUME NEW p \in Servers, RemovePath(p) PROVE LifeInv'
    BY <1>11 DEF RemovePath, TypeOK
<1>12. ASSUME NEW p \in Servers, Crash(p) PROVE LifeInv'
    BY <1>12, ReleaseType DEF Crash, TypeOK
<1>13. ASSUME NEW p \in Servers, WorkerEnds(p) PROVE LifeInv'
    <2> DEFINE h == pc[p] # "off" /\ pc[p] # "rmpath"
    <2>1. Release(p, h) /\ h \in BOOLEAN
        BY <1>13 DEF WorkerEnds
    <2>2. /\ tcp' \in [Servers -> BOOLEAN] /\ ux' \in [Servers -> BOOLEAN]
          /\ queue' \in [Clients -> {NotQueued} \cup [to : Servers, via : {"inet", "unix"}]]
          /\ tcp'[p] = (tcp[p] /\ h) /\ ux'[p] = (ux[p] /\ h)
          /\ \A q \in Servers \ {p} : tcp'[q] = tcp[q] /\ ux'[q] = ux[q]
        BY <2>1, ReleaseType
    <2> QED
        BY <1>13, <2>2, ZenonT(40) DEF WorkerEnds, TypeOK
<1>14. ASSUME NEW c \in Clients, DialInet(c) PROVE LifeInv'
    BY <1>14 DEF DialInet, TypeOK
<1>15. ASSUME NEW c \in Clients, DialUnix(c) PROVE LifeInv'
    BY <1>15 DEF DialUnix, TypeOK
<1>16. CASE UNCHANGED vars
    BY <1>16 DEF vars, TypeOK
<1> QED
    BY <1>1, <1>2, <1>3, <1>4, <1>5, <1>6, <1>7, <1>8, <1>9, <1>10, <1>11, <1>12, <1>13,
       <1>14, <1>15, <1>16, <1>17, <1>18 DEF Next, Server, Begin

LEMMA LifeAlways == Spec => []LifeInv
BY LifeInit, LifeStep, PTL DEF Spec

\* The type invariant of ServerLife: a server that runs listens, and a socket listens
\* only while the server or one of its workers has it open.
THEOREM LifeTypeCorrect == Spec => []TypeOK
BY LifeAlways, PTL DEF LifeInv

-----------------------------------------------------------------------------
(* The path                                                                 *)

\* The path changes in a few actions only.
LEMMA PathStep ==
    ASSUME LifeInv, OrphanOnlyAfterFailure, [Next]_vars PROVE OrphanOnlyAfterFailure'
<1> USE DEF OrphanOnlyAfterFailure
<1>1. ASSUME NEW p \in Servers, UnlinkPath(p) PROVE OrphanOnlyAfterFailure'
    BY <1>1 DEF UnlinkPath
<1>2. ASSUME NEW p \in Servers, BindUnix(p) PROVE OrphanOnlyAfterFailure'
    <2>1. ~unix_fd[p]
        BY <1>2 DEF BindUnix, Goto, LifeInv, LifeShape
    <2> QED
        BY <1>2, <2>1 DEF BindUnix, ghosts, LifeInv, TypeOK
<1>6. ASSUME NEW p \in Servers, BindUnixFails(p) PROVE OrphanOnlyAfterFailure'
    BY <1>6 DEF BindUnixFails
<1>3. ASSUME NEW p \in Servers, RemovePath(p) PROVE OrphanOnlyAfterFailure'
    <2>1. /\ path' = path \/ path' = None
          /\ unix_fd' = [unix_fd EXCEPT ![p] = FALSE] /\ dirty' = dirty
        BY <1>3 DEF RemovePath, ghosts
    <2>2. path = p /\ unix_fd[p] => path' = None
        BY <1>3, ServerLifeAssumptions DEF RemovePath, MayUnlink
    <2> QED
        BY <2>1, <2>2 DEF LifeInv, TypeOK
<1>4. ASSUME NEW p \in Servers, AllocFails(p) \/ Crash(p) PROVE OrphanOnlyAfterFailure'
    <2>1. /\ path' = path /\ (dirty' <=> dirty \/ unix_fd[p])
          /\ \A q \in Servers \ {p} : unix_fd'[q] = unix_fd[q]
        BY <1>4 DEF AllocFails, Crash, LifeInv, TypeOK
    <2>2. CASE path = p
        BY <2>1, <2>2
    <2>3. CASE path # p
        BY <2>1, <2>3 DEF LifeInv, TypeOK
    <2> QED
        BY <2>2, <2>3
<1>5. CASE UNCHANGED <<path, unix_fd, dirty>>
    BY <1>5
<1> QED
    BY <1>1, <1>2, <1>3, <1>4, <1>5, <1>6
    DEF Next, Server, Begin, vars, ghosts, Start, ConfigFails, OpenListener, UnixSocketFails,
       Alloc, Fork, Accept, CloseFds, WorkerEnds, DialInet, DialUnix

\* A path that belongs to no server was left by a crash, a failed calloc or a failed listen.
THEOREM OrphansComeFromFailures == Spec => []OrphanOnlyAfterFailure
<1>1. Init => OrphanOnlyAfterFailure
    BY DEF Init, OrphanOnlyAfterFailure
<1> QED
    BY <1>1, PathStep, LifeAlways, PTL DEF Spec

\* A server that was alone since its start: the others are off, and the path is what
\* its own steps made of it.
AloneShape ==
    \A p \in Servers : pc[p] # "off" /\ ~shared[p] =>
        /\ \A q \in Servers \ {p} : pc[q] = "off"
        /\ pc[p] = "unix" /\ ~denied[p] => path = None
        /\ pc[p] \in {"alloc", "run"} => /\ unix_fd[p] => path = p
                                         /\ ~denied[p] => unix_fd[p]

LEMMA AloneStep == ASSUME LifeInv, AloneShape, [Next]_vars PROVE AloneShape'
<1> USE DEF AloneShape, Goto, ghosts, LifeInv, TypeOK
<1>1. ASSUME NEW p \in Servers, Start(p) PROVE AloneShape'
    BY <1>1, ZenonT(40) DEF Start
<1>2. ASSUME NEW p \in Servers, ConfigFails(p) PROVE AloneShape'
    BY <1>2 DEF ConfigFails
<1>3. ASSUME NEW p \in Servers, OpenListener(p) PROVE AloneShape'
    BY <1>3 DEF OpenListener
<1>4. ASSUME NEW p \in Servers, UnlinkPath(p) PROVE AloneShape'
    <2>1. /\ pc[p] = "unlink" /\ shared' = shared /\ unix_fd' = unix_fd
          /\ pc'[p] = "unix" /\ \A q \in Servers \ {p} : pc'[q] = pc[q]
        BY <1>4 DEF UnlinkPath
    <2>2. ~denied'[p] => path' = None
        <3>1. denied'[p] = ~MayUnlink(p)
            BY <1>4 DEF UnlinkPath
        <3>2. MayUnlink(p) => path' = None
            BY <1>4 DEF UnlinkPath
        <3> QED
            BY <3>1, <3>2
    <2>3. \A q \in Servers \ {p} : pc[q] = "off" \/ shared[q]
        BY <2>1
    <2> QED
        BY <2>1, <2>2, <2>3
<1>5. ASSUME NEW p \in Servers, BindUnix(p) PROVE AloneShape'
    <2>1. /\ pc[p] = "unix" /\ shared' = shared /\ denied' = denied
          /\ pc'[p] = "alloc" /\ \A q \in Servers \ {p} : pc'[q] = pc[q]
        BY <1>5 DEF BindUnix
    <2>2. CASE path = None
        <3>1. unix_fd'[p] /\ path' = p
            BY <1>5, <2>2 DEF BindUnix
        <3> QED
            BY <2>1, <3>1
    <2>3. CASE path # None
        <3>1. ~unix_fd'[p]
            <4>1. unix_fd' = [unix_fd EXCEPT ![p] = (path = None)]
                BY <1>5 DEF BindUnix
            <4>2. unix_fd'[p] = (path = None)
                BY <4>1
            <4> QED
                BY <2>3, <4>2
        <3> QED
            BY <2>1, <2>3, <3>1
    <2> QED
        BY <2>2, <2>3
<1>12. ASSUME NEW p \in Servers, UnixSocketFails(p) PROVE AloneShape'
    <2>1. ~unix_fd[p]
        BY <1>12 DEF UnixSocketFails, LifeShape
    <2> QED
        BY <1>12, <2>1 DEF UnixSocketFails
<1>13. ASSUME NEW p \in Servers, BindUnixFails(p) PROVE AloneShape'
    <2>1. /\ pc[p] = "unix" /\ shared' = shared /\ unix_fd' = unix_fd /\ denied'[p]
          /\ pc'[p] = "alloc" /\ \A q \in Servers \ {p} : pc'[q] = pc[q]
        BY <1>13 DEF BindUnixFails
    <2>2. ~unix_fd[p]
        BY <2>1 DEF LifeShape
    <2>3. \A q \in Servers \ {p} : pc[q] = "off" \/ shared[q]
        BY <2>1
    <2> QED
        BY <2>1, <2>2, <2>3
<1>6. ASSUME NEW p \in Servers, Alloc(p) PROVE AloneShape'
    BY <1>6 DEF Alloc
<1>7. ASSUME NEW p \in Servers, AllocFails(p) PROVE AloneShape'
    BY <1>7 DEF AllocFails
<1>8. ASSUME NEW p \in Servers, CloseFds(p) PROVE AloneShape'
    BY <1>8 DEF CloseFds
<1>9. ASSUME NEW p \in Servers, RemovePath(p) PROVE AloneShape'
    BY <1>9 DEF RemovePath
<1>10. ASSUME NEW p \in Servers, Crash(p) PROVE AloneShape'
    BY <1>10 DEF Crash
<1>11. CASE UNCHANGED <<pc, unix_fd, path, shared, denied>>
    BY <1>11
<1> QED
    BY <1>1, <1>2, <1>3, <1>4, <1>5, <1>6, <1>7, <1>8, <1>9, <1>10, <1>11,
       <1>12, <1>13
    DEF Next, Server, Begin, vars, Fork, Accept, WorkerEnds, DialInet, DialUnix

\* A server that was alone since its start has the path when it has an AF_UNIX listener,
\* whatever earlier servers left behind, and is without one only if the system denied it.
THEOREM AdminReachesLoneServer == Spec => []AdminReaches
<1>1. Init => AloneShape
    BY DEF Init, AloneShape
<1>2. AloneShape => AdminReaches
    BY DEF AloneShape, AdminReaches
<1> QED
    BY <1>1, <1>2, AloneStep, LifeAlways, PTL DEF Spec
=============================================================================
