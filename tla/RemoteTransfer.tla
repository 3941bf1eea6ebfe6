--------------------------- MODULE RemoteTransfer ---------------------------
(***************************************************************************)
(* The file path of a remote job: vps_remote uploads its files, submits an *)
(* operation on them, polls the job and downloads the result (remote.c),   *)
(* against the upload and download handlers and the duplicate sweep of     *)
(* vps_server, the ffmpeg workers, and restarts of the server, which keep  *)
(* the files and lose the job table.                                       *)
(*                                                                         *)
(* A request and its reply are one step: the server handles one request at *)
(* a time and the client waits for the reply. The job table is the one of  *)
(* JobTable, with the task ids replaced by the client they belong to.      *)
(***************************************************************************)
EXTENDS Integers, FiniteSets, Sequences

CONSTANTS
    Clients,        \* runs of vps_remote
    Nobody,         \* no client
    ClientPids,     \* process ids of runs of vps_remote
    PidChoices,     \* how the runs can get theirs: runs on one host at a time have
                    \* different ones, runs on two hosts, or after each other, may not
    Files,          \* files an operation needs: 1 for trim, 2 for mixaudio
    FixtureSized,   \* clients whose files have the size of the fixture
    ServerPids,     \* process ids a started server can get
    JobsMax,        \* slots of the job table
    MaxAttempts,    \* POLL_MAX_ATTEMPTS
    MaxUploads,     \* bound: uploads to one server
    MaxRestarts     \* bound: restarts of the server

ASSUME RemoteTransferAssumptions ==
    /\ Nobody \notin Clients
    /\ PidChoices \subseteq [Clients -> ClientPids]
    /\ Files \in Nat \ {0}
    /\ FixtureSized \subseteq Clients
    /\ JobsMax \in Nat \ {0} /\ MaxAttempts \in Nat
    /\ MaxUploads \in Nat /\ MaxRestarts \in Nat

VARIABLES
    pid,            \* getpid() of each client
    cl,             \* where each client is
    paths,          \* server paths of the files it has uploaded
    attempts,       \* STATUS requests it has sent
    local,          \* the file it downloaded
    spid,           \* getpid() of the server
    counter,        \* upload_counter
    restarts,
    job,            \* state of each client's job in the table, "none" if not there
    incoming,       \* the files of uploads_dir/incoming
    outputs,        \* the files of outputs_dir
    worker,         \* the ffmpeg of each client's job
    read            \* what that ffmpeg has read

clientVars == <<pid, cl, paths, attempts, local>>
serverVars == <<spid, counter, restarts, job>>
diskVars   == <<incoming, outputs>>
workerVars == <<worker, read>>
vars == <<clientVars, serverVars, diskVars, workerVars>>

\* Contents of an uploaded file: the n-th file of a client, or less than that.
File(c, n) == [of |-> c, nr |-> n]
Absent     == File(Nobody, 0)
Partial    == File(Nobody, 1)
Own(c)     == [n \in 1..Files |-> File(c, n)]

\* Contents of an output: made of the files read, or not there, or unfinished.
NoOutput   == <<>>
Unfinished == <<Partial>>

\* <pid>_<counter>_<base name>; every client's file has the base name of the
\* fixture, which is the case in which names can meet.
Paths == ServerPids \X (1..MaxUploads)

\* Mutant: the name holds the operation and not the client's pid.
OutPath_NoPid(c) == CHOOSE p \in ClientPids : TRUE

\* make_output_path: remote_<pid>_<operation>.mp4; all runs do the same operation,
\* which is the case in which names can meet.
OutPath(c) == pid[c]

Connected(c) == cl[c] \in {"upload", "submit", "poll", "download"}
Ended(c)     == cl[c] \in {"ok", "checked", "failed"}

-----------------------------------------------------------------------------
Init ==
    /\ pid \in PidChoices
    /\ cl = [c \in Clients |-> "idle"]
    /\ paths = [c \in Clients |-> <<>>]
    /\ attempts = [c \in Clients |-> 0]
    /\ local = [c \in Clients |-> NoOutput]
    /\ spid \in ServerPids
    /\ counter = 0 /\ restarts = 0
    /\ job = [c \in Clients |-> "none"]
    /\ incoming = [p \in Paths |-> Absent]
    /\ outputs = [p \in ClientPids |-> NoOutput]
    /\ worker = [c \in Clients |-> "none"]
    /\ read = [c \in Clients |-> NoOutput]

Goto(c, where) == cl' = [cl EXCEPT ![c] = where]

-----------------------------------------------------------------------------
(* Requests of vps_remote, with the handler of vps_server that answers them *)

\* dial
Connect(c) ==
    /\ cl[c] = "idle"
    /\ Goto(c, "upload")
    /\ UNCHANGED <<pid, paths, attempts, local, serverVars, diskVars, workerVars>>

\* Mutant: the counter is not advanced.
StoredPath_NoCount == <<spid, 1>>

\* upload_counter++ and the name made with it
StoredPath == <<spid, counter + 1>>

\* upload_file and handle_upload: O_CREAT | O_TRUNC, then the bytes.
Upload(c) ==
    LET n == Len(paths[c]) + 1 IN
    /\ cl[c] = "upload" /\ counter < MaxUploads
    /\ counter' = counter + 1
    /\ incoming' = [incoming EXCEPT ![StoredPath] = File(c, n)]
    /\ paths' = [paths EXCEPT ![c] = Append(@, StoredPath)]
    /\ Goto(c, IF n = Files THEN "submit" ELSE "upload")
    /\ UNCHANGED <<pid, attempts, local, spid, restarts, job, outputs, workerVars>>

\* The connection ends inside the file, or the disk is full: what was received
\* stays in incoming, and both ends give up.
UploadBreaks(c) ==
    /\ cl[c] = "upload" /\ counter < MaxUploads
    /\ counter' = counter + 1
    /\ incoming' = [incoming EXCEPT ![StoredPath] = Partial]
    /\ Goto(c, "failed")
    /\ UNCHANGED <<pid, paths, attempts, local, spid, restarts, job, outputs, workerVars>>

TableFull == Cardinality({c \in Clients : job[c] # "none"}) >= JobsMax

\* The request is submitted; a full table refuses it, and the worker that was
\* forked for it may run on or not (Refuse in JobTable).
Submit(c) ==
    /\ cl[c] = "submit"
    /\ \/ ~TableFull /\ job' = [job EXCEPT ![c] = "running"]
                     /\ worker' = [worker EXCEPT ![c] = "started"]
       \/ TableFull /\ UNCHANGED job
                    /\ \E w \in {"started", "fail"} : worker' = [worker EXCEPT ![c] = w]
    /\ Goto(c, "poll")
    /\ UNCHANGED <<pid, paths, attempts, local, spid, counter, restarts, diskVars, read>>

\* The argv cannot be built or the fork fails: task id 0, which is polled too.
SubmitFails(c) ==
    /\ cl[c] = "submit"
    /\ Goto(c, "poll")
    /\ UNCHANGED <<pid, paths, attempts, local, serverVars, diskVars, workerVars>>

\* handle_status: a job that is not in the table is reported as ERR.
Status(c) == IF job[c] = "none" THEN "err" ELSE job[c]

\* Mutants: the attempts are not limited; a job that is no longer running is taken
\* for done; the attempts are not counted.
Poll_NoLimit(c) ==
    /\ cl[c] = "poll"
    /\ attempts' = [attempts EXCEPT ![c] = @ + 1]
    /\ CASE Status(c) = "done" -> \E next \in {"download", "checked"} : Goto(c, next)
         [] Status(c) = "err"  -> Goto(c, "failed")
         [] OTHER              -> Goto(c, "poll")
    /\ UNCHANGED <<pid, paths, local, serverVars, diskVars, workerVars>>
Poll_NotRunningIsDone(c) ==
    /\ cl[c] = "poll" /\ attempts[c] < MaxAttempts
    /\ attempts' = [attempts EXCEPT ![c] = @ + 1]
    /\ CASE Status(c) \in {"done", "err"} -> Goto(c, "download")
         [] OTHER                         -> Goto(c, "poll")
    /\ UNCHANGED <<pid, paths, local, serverVars, diskVars, workerVars>>

\* One round of poll_until_done; without -O, or with -N, DONE is all the client
\* wants to know.
Poll(c) ==
    /\ cl[c] = "poll" /\ attempts[c] < MaxAttempts
    /\ attempts' = [attempts EXCEPT ![c] = @ + 1]
    /\ CASE Status(c) = "done" -> \E next \in {"download", "checked"} : Goto(c, next)
         [] Status(c) = "err"  -> Goto(c, "failed")
         [] OTHER              -> Goto(c, "poll")
    /\ UNCHANGED <<pid, paths, local, serverVars, diskVars, workerVars>>

GiveUp(c) ==
    /\ cl[c] = "poll" /\ attempts[c] >= MaxAttempts
    /\ Goto(c, "failed")
    /\ UNCHANGED <<pid, paths, attempts, local, serverVars, diskVars, workerVars>>

\* download_file and handle_download: whatever the file holds is sent.
Download(c) ==
    /\ cl[c] = "download"
    /\ IF outputs[OutPath(c)] = NoOutput
       THEN Goto(c, "failed") /\ UNCHANGED local
       ELSE Goto(c, "ok") /\ local' = [local EXCEPT ![c] = outputs[OutPath(c)]]
    /\ UNCHANGED <<pid, paths, attempts, serverVars, diskVars, workerVars>>

\* The client is interrupted, or cannot read or write its local files.
Quit(c) ==
    /\ Connected(c)
    /\ Goto(c, "failed")
    /\ UNCHANGED <<pid, paths, attempts, local, serverVars, diskVars, workerVars>>

-----------------------------------------------------------------------------
(* The server between requests                                              *)

\* jobs_reap_running, for one job
Reap(c) ==
    /\ job[c] = "running"
    /\ \/ worker[c] = "ok"   /\ job' = [job EXCEPT ![c] = "done"]
       \/ worker[c] = "fail" /\ job' = [job EXCEPT ![c] = "err"]
    /\ UNCHANGED <<clientVars, spid, counter, restarts, diskVars, workerVars>>

\* jobs_evict_old, for one job
Evict(c) ==
    /\ job[c] \in {"done", "err"}
    /\ job' = [job EXCEPT ![c] = "none"]
    /\ UNCHANGED <<clientVars, spid, counter, restarts, diskVars, workerVars>>

\* Mutant: the sizes are not compared.
Duplicate_AnySize(p) == incoming[p] # Absent

\* A file with the base name and the size of the fixture
Duplicate(p) == incoming[p].of \in FixtureSized

\* cleanup_incoming_duplicates
Sweep ==
    /\ \E p \in Paths : Duplicate(p)
    /\ incoming' = [p \in Paths |-> IF Duplicate(p) THEN Absent ELSE incoming[p]]
    /\ UNCHANGED <<clientVars, serverVars, outputs, workerVars>>

\* The server ends, for whatever reason, and is started again. Its connections
\* break, its table is gone, its workers are orphans that go on.
Restart ==
    /\ restarts < MaxRestarts
    /\ restarts' = restarts + 1
    /\ spid' \in ServerPids
    /\ counter' = 0
    /\ job' = [c \in Clients |-> "none"]
    /\ cl' = [c \in Clients |-> IF Connected(c) THEN "failed" ELSE cl[c]]
    /\ UNCHANGED <<pid, paths, attempts, local, diskVars, workerVars>>

-----------------------------------------------------------------------------
(* ffmpeg                                                                   *)

\* It opens its inputs, and only then truncates the output (-y).
Open(c) ==
    LET inputs == [n \in 1..Len(paths[c]) |-> incoming[paths[c][n]]] IN
    /\ worker[c] = "started"
    /\ \/ /\ \A n \in 1..Len(paths[c]) : inputs[n] # Absent
          /\ worker' = [worker EXCEPT ![c] = "encoding"]
          /\ read' = [read EXCEPT ![c] = inputs]
          /\ outputs' = [outputs EXCEPT ![OutPath(c)] = Unfinished]
       \/ worker' = [worker EXCEPT ![c] = "fail"] /\ UNCHANGED <<read, outputs>>
    /\ UNCHANGED <<clientVars, serverVars, incoming>>

Encode(c) ==
    /\ worker[c] = "encoding"
    /\ \/ /\ worker' = [worker EXCEPT ![c] = "ok"]
          /\ outputs' = [outputs EXCEPT ![OutPath(c)] = read[c]]
       \/ worker' = [worker EXCEPT ![c] = "fail"] /\ UNCHANGED outputs
    /\ UNCHANGED <<clientVars, serverVars, incoming, read>>

-----------------------------------------------------------------------------
Request(c) == Upload(c) \/ UploadBreaks(c) \/ Submit(c) \/ SubmitFails(c) \/ Poll(c)
              \/ GiveUp(c) \/ Download(c)

Done == \A c \in Clients : Ended(c)

Next == \/ \E c \in Clients : \/ Connect(c) \/ Request(c) \/ Quit(c)
                              \/ Reap(c) \/ Evict(c) \/ Open(c) \/ Encode(c)
        \/ Sweep
        \/ Restart
        \/ Done /\ UNCHANGED vars

Spec == Init /\ [][Next]_vars

\* A connected client goes on and the server answers it; a worker may hang.
FairSpec == Spec /\ \A c \in Clients : WF_vars(Request(c))

-----------------------------------------------------------------------------
(* Properties                                                               *)

Contents == {Absent, Partial} \cup {File(c, n) : c \in Clients, n \in 1..MaxUploads}

\* The values the variables can have.
TypeOK ==
    /\ pid \in PidChoices
    /\ cl \in [Clients -> {"idle", "upload", "submit", "poll", "download",
                           "ok", "checked", "failed"}]
    /\ paths \in [Clients -> Seq(Paths)]
    /\ attempts \in [Clients -> 0..MaxAttempts]
    /\ local \in [Clients -> Seq(Contents)]
    /\ spid \in ServerPids /\ counter \in 0..MaxUploads /\ restarts \in 0..MaxRestarts
    /\ job \in [Clients -> {"none", "running", "done", "err"}]
    /\ incoming \in [Paths -> Contents]
    /\ outputs \in [ClientPids -> Seq(Contents)]
    /\ worker \in [Clients -> {"none", "started", "encoding", "ok", "fail"}]
    /\ read \in [Clients -> Seq(Contents)]

\* The paths a connected client was given name its own files, whole: no other
\* client, no earlier server and no sweep has touched them, except that the
\* sweep takes those that duplicate the fixture.
HeldFilesIntact ==
    \A c \in Clients : Connected(c) =>
        \A n \in 1..Len(paths[c]) :
            \/ incoming[paths[c][n]] = File(c, n)
            \/ incoming[paths[c][n]] = Absent /\ c \in FixtureSized

\* Another run has the pid of c, and an ffmpeg of its has opened the output they
\* share: remote.c:261 calls the name unique, but it holds the pid and nothing else.
NameTaken(c) == \E d \in Clients \ {c} : pid[d] = pid[c] /\ read[d] # NoOutput

\* A client that ends with success has downloaded what ffmpeg made of exactly
\* the files this client uploaded, in their order, and all of it: not an
\* unfinished output, not another client's, not that of an earlier server, unless
\* a run with the same pid has written to the same name.
ResultIsOwn == \A c \in Clients : cl[c] = "ok" => local[c] = Own(c) \/ NameTaken(c)


=============================================================================
