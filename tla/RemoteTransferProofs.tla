------------------------ MODULE RemoteTransferProofs ------------------------
(***************************************************************************)
(* Theorems about RemoteTransfer: the files of a connected client stay     *)
(* untouched, and a client that ends well has its own result, for any      *)
(* number of clients, files and restarts.                                  *)
(***************************************************************************)
EXTENDS RemoteTransfer, TLAPS

USE RemoteTransferAssumptions

\* What a client has done so far, by the place it is at.
ClientShape ==
    \A c \in Clients :
        /\ cl[c] = "idle" => paths[c] = <<>>
        /\ cl[c] \in {"idle", "upload", "submit"} => worker[c] = "none" /\ job[c] = "none"
        /\ cl[c] = "upload" => Len(paths[c]) < Files
        /\ cl[c] \in {"submit", "poll", "download"} => Len(paths[c]) = Files

\* The paths of connected clients were given by this server, each once.
PathShape ==
    /\ \A c \in Clients : Connected(c) =>
          /\ Len(paths[c]) <= counter
          /\ \A n \in 1..Len(paths[c]) : /\ paths[c][n][1] = spid
                                         /\ paths[c][n][2] \in 1..counter
    /\ \A c, d \in Clients : Connected(c) /\ Connected(d) =>
          \A m \in 1..Len(paths[c]), n \in 1..Len(paths[d]) :
              paths[c][m] = paths[d][n] => c = d /\ m = n

FilesInv == TypeOK /\ ClientShape /\ PathShape /\ HeldFilesIntact

-----------------------------------------------------------------------------
(* Contents, paths and stored files                                         *)

LEMMA ContentTypes ==
    /\ Absent \in Contents /\ Partial \in Contents
    /\ \A c \in Clients, n \in 1..MaxUploads : File(c, n) \in Contents
    /\ NoOutput \in Seq(Contents) /\ Unfinished \in Seq(Contents)
    /\ \A c \in Clients, n \in Nat : File(c, n) # Absent
<1>1. Absent \in Contents /\ Partial \in Contents
    BY DEF Contents
<1>2. NoOutput \in Seq(Contents) /\ Unfinished \in Seq(Contents)
    BY <1>1 DEF NoOutput, Unfinished
<1>3. \A c \in Clients, n \in 1..MaxUploads : File(c, n) \in Contents
    BY DEF Contents
<1>4. ASSUME NEW c \in Clients, NEW n \in Nat PROVE File(c, n) # Absent
    <2>1. File(c, n).of = c /\ Absent.of = Nobody
        BY DEF File, Absent
    <2> QED
        BY <2>1
<1> QED
    BY <1>1, <1>2, <1>3, <1>4

LEMMA StoredPathFacts ==
    ASSUME TypeOK, counter < MaxUploads
    PROVE  /\ StoredPath \in Paths /\ StoredPath[1] = spid /\ StoredPath[2] = counter + 1
           /\ counter + 1 \in 1..MaxUploads
BY DEF TypeOK, StoredPath, Paths

\* Appending the path of the next upload to what a client has.
LEMMA AppendPath ==
    ASSUME NEW s \in Seq(Paths), NEW p \in Paths
    PROVE  /\ Append(s, p) \in Seq(Paths) /\ Len(Append(s, p)) = Len(s) + 1
           /\ Len(s) \in Nat
           /\ Append(s, p)[Len(s) + 1] = p
           /\ \A n \in 1..Len(s) : Append(s, p)[n] = s[n]
OBVIOUS

-----------------------------------------------------------------------------
(* The steps of a client                                                    *)

\* The requests that only move the client on.
Moves(c) == \/ Connect(c) \/ SubmitFails(c) \/ Poll(c) \/ GiveUp(c) \/ Download(c) \/ Quit(c)

LEMMA MoveFacts ==
    ASSUME TypeOK, NEW c \in Clients, Moves(c)
    PROVE  /\ UNCHANGED <<pid, paths, serverVars, diskVars, workerVars>>
           /\ \E next \in {"upload", "poll", "download", "checked", "ok", "failed"} :
                 /\ cl' = [cl EXCEPT ![c] = next]
                 /\ next = "upload" => cl[c] = "idle"
                 /\ next = "poll" => cl[c] \in {"submit", "poll"}
                 /\ next = "download" => cl[c] = "poll" /\ job[c] = "done"
                 /\ next = "ok" => cl[c] = "download"
<1>1. CASE Connect(c)
    BY <1>1 DEF Connect, Goto
<1>2. CASE SubmitFails(c) \/ GiveUp(c) \/ Quit(c)
    BY <1>2 DEF SubmitFails, GiveUp, Quit, Goto
<1>3. CASE Poll(c)
    <2>1. CASE Status(c) = "done"
        <3>1. job[c] = "done"
            BY <2>1 DEF Status
        <3> QED
            BY <1>3, <2>1, <3>1 DEF Poll, Goto
    <2>2. CASE Status(c) = "err"
        BY <1>3, <2>2 DEF Poll, Goto
    <2>3. CASE Status(c) \notin {"done", "err"}
        BY <1>3, <2>3 DEF Poll, Goto
    <2> QED
        BY <2>1, <2>2, <2>3
<1>4. CASE Download(c)
    BY <1>4 DEF Download, Goto
<1> QED
    BY <1>1, <1>2, <1>3, <1>4 DEF Moves

LEMMA MoveType == ASSUME TypeOK, NEW c \in Clients, Moves(c) PROVE TypeOK'
<1>1. /\ UNCHANGED <<pid, paths, serverVars, diskVars, workerVars>>
      /\ cl' \in [Clients -> {"idle", "upload", "submit", "poll", "download",
                              "ok", "checked", "failed"}]
    <2>1. PICK next \in {"upload", "poll", "download", "checked", "ok", "failed"} :
              cl' = [cl EXCEPT ![c] = next]
        BY MoveFacts
    <2> QED
        BY <2>1, MoveFacts DEF TypeOK
<1>2. attempts' \in [Clients -> 0..MaxAttempts]
    <2>1. CASE Poll(c)
        <3>1. attempts[c] + 1 \in 0..MaxAttempts /\ attempts' = [attempts EXCEPT ![c] = attempts[c] + 1]
            BY <2>1 DEF Poll, TypeOK
        <3> QED
            BY <3>1 DEF TypeOK
    <2>2. CASE ~Poll(c)
        BY <2>2 DEF Moves, Connect, SubmitFails, GiveUp, Download, Quit, TypeOK
    <2> QED
        BY <2>1, <2>2
<1>3. local' \in [Clients -> Seq(Contents)]
    <2>1. outputs[OutPath(c)] \in Seq(Contents)
        BY DEF TypeOK, OutPath
    <2> QED
        BY <2>1 DEF Moves, Connect, SubmitFails, Poll, GiveUp, Download, Quit, TypeOK
<1> QED
    BY <1>1, <1>2, <1>3 DEF TypeOK, serverVars, diskVars, workerVars

LEMMA MoveStep == ASSUME FilesInv, NEW c \in Clients, Moves(c) PROVE FilesInv'
<1>1. PICK next \in {"upload", "poll", "download", "checked", "ok", "failed"} :
          /\ cl' = [cl EXCEPT ![c] = next]
          /\ next = "upload" => cl[c] = "idle"
          /\ next = "poll" => cl[c] \in {"submit", "poll"}
          /\ next = "download" => cl[c] = "poll"
    BY MoveFacts DEF FilesInv
<1>2. UNCHANGED <<pid, paths, serverVars, diskVars, workerVars>>
    BY MoveFacts DEF FilesInv
<1>3. /\ cl'[c] = next /\ \A d \in Clients : d # c => cl'[d] = cl[d]
      /\ Files \in Nat \ {0} /\ counter \in Nat
    BY <1>1 DEF FilesInv, TypeOK
<1>4. ClientShape'
    BY <1>1, <1>2, <1>3 DEF FilesInv, ClientShape, serverVars, workerVars
<1>5. \A d \in Clients : Connected(d)' => Connected(d) \/ paths[d] = <<>>
    BY <1>1, <1>3 DEF FilesInv, ClientShape, Connected
<1>6. PathShape'
    <2>1. paths' = paths /\ counter' = counter /\ spid' = spid
        BY <1>2 DEF serverVars
    <2>2. \A d \in Clients : paths[d] = <<>> => Len(paths[d]) = 0 /\ 1..Len(paths[d]) = {}
        OBVIOUS
    <2>3. \A d \in Clients : Connected(d)' =>
              /\ Len(paths[d]) <= counter
              /\ \A n \in 1..Len(paths[d]) : /\ paths[d][n][1] = spid
                                             /\ paths[d][n][2] \in 1..counter
        BY <1>3, <1>5, <2>2 DEF FilesInv, PathShape
    <2>4. \A d, e \in Clients : Connected(d)' /\ Connected(e)' =>
              \A m \in 1..Len(paths[d]), n \in 1..Len(paths[e]) :
                  paths[d][m] = paths[e][n] => d = e /\ m = n
        BY <1>5, <2>2 DEF FilesInv, PathShape
    <2> QED
        BY <2>1, <2>3, <2>4, SMTT(30) DEF PathShape
<1>7. HeldFilesIntact'
    BY <1>2, <1>5 DEF FilesInv, HeldFilesIntact, diskVars
<1> QED
    BY <1>4, <1>6, <1>7, MoveType DEF FilesInv

\* upload_file: the path is new among those of connected clients, so no file that is
\* held is written to.
LEMMA UploadStep ==
    ASSUME FilesInv, NEW c \in Clients, Upload(c)
    PROVE  FilesInv'
<1> DEFINE n == Len(paths[c]) + 1
<1>1. /\ cl[c] = "upload" /\ counter < MaxUploads /\ counter' = counter + 1
      /\ incoming' = [incoming EXCEPT ![StoredPath] = File(c, n)]
      /\ paths' = [paths EXCEPT ![c] = Append(paths[c], StoredPath)]
      /\ cl' = [cl EXCEPT ![c] = IF n = Files THEN "submit" ELSE "upload"]
      /\ UNCHANGED <<pid, attempts, local, spid, restarts, job, outputs, workerVars>>
    BY DEF Upload, Goto
<1>2. TypeOK /\ ClientShape /\ PathShape /\ HeldFilesIntact
    BY DEF FilesInv
<1>3. /\ StoredPath \in Paths /\ StoredPath[1] = spid /\ StoredPath[2] = counter + 1
      /\ counter + 1 \in 1..MaxUploads /\ counter \in Nat
    BY <1>1, <1>2, StoredPathFacts DEF TypeOK
<1>4. paths[c] \in Seq(Paths) /\ Len(paths[c]) \in Nat
    BY <1>2 DEF TypeOK
<1>5. /\ paths'[c] \in Seq(Paths) /\ Len(paths'[c]) = n /\ paths'[c][n] = StoredPath
      /\ \A i \in 1..Len(paths[c]) : paths'[c][i] = paths[c][i]
      /\ \A d \in Clients : d # c => paths'[d] = paths[d]
    BY <1>1, <1>2, <1>3, <1>4, AppendPath DEF TypeOK
<1>6. /\ Connected(c) /\ Len(paths[c]) < Files /\ Len(paths[c]) <= counter
      /\ worker[c] = "none" /\ job[c] = "none" /\ n \in 1..MaxUploads
    BY <1>1, <1>2, <1>3, <1>4 DEF Connected, ClientShape, PathShape
<1>7. /\ cl'[c] = IF n = Files THEN "submit" ELSE "upload"
      /\ \A d \in Clients : d # c => cl'[d] = cl[d]
      /\ \A d \in Clients : Connected(d)' <=> Connected(d)
    BY <1>1, <1>2, <1>6 DEF TypeOK, Connected
<1>8. /\ incoming'[StoredPath] = File(c, n)
      /\ \A p \in Paths : p # StoredPath => incoming'[p] = incoming[p]
    BY <1>1, <1>2, <1>3 DEF TypeOK
<1>9. ASSUME NEW d \in Clients, Connected(d), NEW i \in 1..Len(paths[d])
      PROVE  paths[d][i] \in Paths /\ paths[d][i] # StoredPath
    <2>1. paths[d][i] \in Paths
        BY <1>2 DEF TypeOK
    <2>2. paths[d][i][2] \in 1..counter
        BY <1>2, <1>9 DEF PathShape
    <2> QED
        BY <2>1, <2>2, <1>3
<1>10. TypeOK'
    <2>1. File(c, n) \in Contents
        BY <1>6, ContentTypes
    <2>2. incoming' \in [Paths -> Contents]
        BY <1>1, <1>2, <2>1 DEF TypeOK
    <2>3. paths' \in [Clients -> Seq(Paths)]
        BY <1>1, <1>2, <1>5 DEF TypeOK
    <2>4. cl' \in [Clients -> {"idle", "upload", "submit", "poll", "download",
                               "ok", "checked", "failed"}]
        BY <1>1, <1>2 DEF TypeOK
    <2> QED
        BY <1>1, <1>2, <1>3, <2>2, <2>3, <2>4 DEF TypeOK, workerVars
<1>11. ClientShape'
    BY <1>1, <1>2, <1>4, <1>5, <1>6, <1>7 DEF ClientShape, workerVars
<1>12. \A d \in Clients : \A i \in 1..Len(paths'[d]) :
           \/ d = c /\ i = n /\ paths'[d][i] = StoredPath
           \/ i \in 1..Len(paths[d]) /\ paths'[d][i] = paths[d][i]
    BY <1>4, <1>5
<1>13. PathShape'
    <2>1. ASSUME NEW d \in Clients, Connected(d)
          PROVE  /\ Len(paths'[d]) <= counter'
                 /\ \A i \in 1..Len(paths'[d]) : /\ paths'[d][i][1] = spid'
                                                 /\ paths'[d][i][2] \in 1..counter'
        <3>1. Len(paths[d]) <= counter /\ Len(paths[d]) \in Nat
            BY <1>2, <2>1 DEF PathShape, TypeOK
        <3>2. Len(paths'[d]) <= counter'
            BY <1>1, <1>3, <1>5, <3>1
        <3>3. ASSUME NEW i \in 1..Len(paths'[d])
              PROVE  paths'[d][i][1] = spid' /\ paths'[d][i][2] \in 1..counter'
            <4>1. CASE i \in 1..Len(paths[d]) /\ paths'[d][i] = paths[d][i]
                BY <1>1, <1>2, <1>3, <2>1, <4>1, SMTT(30) DEF PathShape
            <4>2. CASE paths'[d][i] = StoredPath
                BY <1>1, <1>3, <4>2
            <4> QED
                BY <1>12, <4>1, <4>2
        <3> QED
            BY <3>2, <3>3
    <2>2. ASSUME NEW d \in Clients, NEW e \in Clients, Connected(d), Connected(e),
                 NEW i \in 1..Len(paths'[d]), NEW j \in 1..Len(paths'[e]),
                 paths'[d][i] = paths'[e][j]
          PROVE  d = e /\ i = j
        <3>1. CASE paths'[d][i] = StoredPath
            <4>1. d = c /\ i = n
                BY <1>9, <1>12, <2>2, <3>1
            <4>2. paths'[e][j] = StoredPath
                BY <2>2, <3>1
            <4>3. e = c /\ j = n
                BY <1>9, <1>12, <2>2, <4>2
            <4> QED
                BY <4>1, <4>3
        <3>2. CASE paths'[d][i] # StoredPath
            <4>1. /\ i \in 1..Len(paths[d]) /\ paths'[d][i] = paths[d][i]
                  /\ j \in 1..Len(paths[e]) /\ paths'[e][j] = paths[e][j]
                BY <1>12, <2>2, <3>2
            <4>2. paths[d][i] = paths[e][j]
                BY <2>2, <4>1
            <4> QED
                BY <1>2, <2>2, <4>1, <4>2 DEF PathShape
        <3> QED
            BY <3>1, <3>2
    <2> QED
        BY <1>7, <2>1, <2>2 DEF PathShape
<1>14. HeldFilesIntact'
    <2> SUFFICES ASSUME NEW d \in Clients, Connected(d), NEW i \in 1..Len(paths'[d])
                 PROVE  \/ incoming'[paths'[d][i]] = File(d, i)
                        \/ incoming'[paths'[d][i]] = Absent /\ d \in FixtureSized
        BY <1>7 DEF HeldFilesIntact
    <2>1. CASE d = c /\ i = n /\ paths'[d][i] = StoredPath
        BY <1>8, <2>1
    <2>2. CASE i \in 1..Len(paths[d]) /\ paths'[d][i] = paths[d][i]
        <3>1. incoming'[paths'[d][i]] = incoming[paths[d][i]]
            BY <1>8, <1>9, <2>2
        <3> QED
            BY <1>2, <2>2, <3>1 DEF HeldFilesIntact
    <2> QED
        BY <1>12, <2>1, <2>2
<1> QED
    BY <1>10, <1>11, <1>13, <1>14 DEF FilesInv

\* A broken upload only writes to a path that no connected client holds.
LEMMA UploadBreaksStep ==
    ASSUME FilesInv, NEW c \in Clients, UploadBreaks(c)
    PROVE  FilesInv'
<1>1. /\ cl[c] = "upload" /\ counter < MaxUploads /\ counter' = counter + 1
      /\ incoming' = [incoming EXCEPT ![StoredPath] = Partial]
      /\ cl' = [cl EXCEPT ![c] = "failed"]
      /\ UNCHANGED <<pid, paths, attempts, local, spid, restarts, job, outputs, workerVars>>
    BY DEF UploadBreaks, Goto
<1>2. TypeOK /\ ClientShape /\ PathShape /\ HeldFilesIntact
    BY DEF FilesInv
<1>3. /\ StoredPath \in Paths /\ StoredPath[1] = spid /\ StoredPath[2] = counter + 1
      /\ counter + 1 \in 1..MaxUploads /\ counter \in Nat
    BY <1>1, <1>2, StoredPathFacts DEF TypeOK
<1>4. /\ cl'[c] = "failed" /\ \A d \in Clients : d # c => cl'[d] = cl[d]
      /\ \A d \in Clients : Connected(d)' => Connected(d)
    BY <1>1, <1>2 DEF TypeOK, Connected
<1>5. ASSUME NEW d \in Clients, Connected(d), NEW i \in 1..Len(paths[d])
      PROVE  incoming'[paths[d][i]] = incoming[paths[d][i]]
    <2>1. paths[d][i] \in Paths
        BY <1>2 DEF TypeOK
    <2>2. paths[d][i][2] \in 1..counter
        BY <1>2, <1>5 DEF PathShape
    <2>3. paths[d][i] # StoredPath
        BY <2>2, <1>3
    <2> QED
        BY <1>1, <1>2, <2>1, <2>3 DEF TypeOK
<1>6. TypeOK'
    <2>1. incoming' \in [Paths -> Contents]
        BY <1>1, <1>2, ContentTypes DEF TypeOK
    <2>2. cl' \in [Clients -> {"idle", "upload", "submit", "poll", "download",
                               "ok", "checked", "failed"}]
        BY <1>1, <1>2 DEF TypeOK
    <2> QED
        BY <1>1, <1>2, <1>3, <2>1, <2>2 DEF TypeOK, workerVars
<1>7. ClientShape'
    BY <1>1, <1>2, <1>4 DEF ClientShape, workerVars
<1>8. PathShape'
    <2>1. ASSUME NEW d \in Clients, Connected(d)'
          PROVE  /\ Len(paths'[d]) <= counter'
                 /\ \A i \in 1..Len(paths'[d]) : /\ paths'[d][i][1] = spid'
                                                 /\ paths'[d][i][2] \in 1..counter'
        <3>1. Len(paths[d]) \in Nat /\ paths' = paths /\ spid' = spid /\ Connected(d)
            BY <1>1, <1>2, <1>4, <2>1 DEF TypeOK
        <3> QED
            BY <1>1, <1>2, <1>3, <3>1 DEF PathShape
    <2>2. \A d, e \in Clients : Connected(d)' /\ Connected(e)' =>
              \A m \in 1..Len(paths'[d]), n \in 1..Len(paths'[e]) :
                  paths'[d][m] = paths'[e][n] => d = e /\ m = n
        BY <1>1, <1>2, <1>4 DEF PathShape
    <2> QED
        BY <2>1, <2>2 DEF PathShape
<1>9. HeldFilesIntact'
    BY <1>1, <1>2, <1>4, <1>5 DEF HeldFilesIntact
<1> QED
    BY <1>6, <1>7, <1>8, <1>9 DEF FilesInv

-----------------------------------------------------------------------------
(* The server, ffmpeg, and all steps                                        *)

\* Steps that change neither the clients' paths nor the stored files nor what the
\* server knows of its uploads.
LEMMA FilesKept ==
    ASSUME FilesInv, UNCHANGED <<pid, cl, paths, spid, counter, incoming>>, TypeOK', ClientShape'
    PROVE  FilesInv'
<1>1. \A d \in Clients : Connected(d)' <=> Connected(d)
    BY DEF Connected
<1>2. PathShape'
    BY <1>1 DEF FilesInv, PathShape
<1>3. HeldFilesIntact'
    BY <1>1 DEF FilesInv, HeldFilesIntact
<1> QED
    BY <1>2, <1>3 DEF FilesInv

LEMMA SubmitStep == ASSUME FilesInv, NEW c \in Clients, Submit(c) PROVE FilesInv'
<1>1. /\ cl[c] = "submit" /\ cl' = [cl EXCEPT ![c] = "poll"]
      /\ UNCHANGED <<pid, paths, attempts, local, spid, counter, restarts, diskVars, read>>
      /\ job' = [job EXCEPT ![c] = "running"] \/ job' = job
      /\ \E w \in {"started", "fail"} : worker' = [worker EXCEPT ![c] = w]
    BY DEF Submit, Goto
<1>2. TypeOK /\ ClientShape /\ PathShape /\ HeldFilesIntact
    BY DEF FilesInv
<1>3. TypeOK'
    BY <1>1, <1>2 DEF TypeOK, diskVars
<1>4. /\ \A d \in Clients : Connected(d)' <=> Connected(d)
      /\ \A d \in Clients : d # c => cl'[d] = cl[d] /\ job'[d] = job[d] /\ worker'[d] = worker[d]
      /\ cl'[c] = "poll"
    BY <1>1, <1>2 DEF TypeOK, Connected
<1>5. ClientShape'
    BY <1>1, <1>2, <1>4 DEF ClientShape
<1>6. PathShape'
    BY <1>1, <1>2, <1>4 DEF PathShape
<1>7. HeldFilesIntact'
    BY <1>1, <1>2, <1>4 DEF HeldFilesIntact, diskVars
<1> QED
    BY <1>3, <1>5, <1>6, <1>7 DEF FilesInv

LEMMA ServerStep ==
    ASSUME FilesInv, NEW c \in Clients, Reap(c) \/ Evict(c)
    PROVE  FilesInv'
<1>1. /\ job[c] # "none"
      /\ \E j \in {"none", "done", "err"} : job' = [job EXCEPT ![c] = j]
      /\ UNCHANGED <<clientVars, spid, counter, restarts, diskVars, workerVars>>
    BY DEF Reap, Evict
<1>2. TypeOK'
    BY <1>1 DEF FilesInv, TypeOK, clientVars, diskVars, workerVars
<1>3. ClientShape'
    BY <1>1 DEF FilesInv, TypeOK, ClientShape, clientVars, workerVars
<1> QED
    BY <1>1, <1>2, <1>3, FilesKept DEF clientVars, diskVars

\* The sweep takes nothing but copies of the fixture.
LEMMA SweepStep == ASSUME FilesInv, Sweep PROVE FilesInv'
<1>1. /\ incoming' = [p \in Paths |-> IF Duplicate(p) THEN Absent ELSE incoming[p]]
      /\ UNCHANGED <<clientVars, serverVars, outputs, workerVars>>
    BY DEF Sweep
<1>2. TypeOK /\ ClientShape /\ PathShape /\ HeldFilesIntact
    BY DEF FilesInv
<1>3. TypeOK'
    <2>1. incoming' \in [Paths -> Contents]
        BY <1>1, <1>2, ContentTypes DEF TypeOK
    <2> QED
        BY <1>1, <1>2, <2>1 DEF TypeOK, clientVars, serverVars, workerVars
<1>4. \A d \in Clients : Connected(d)' <=> Connected(d)
    BY <1>1 DEF Connected, clientVars
<1>5. ClientShape'
    BY <1>1, <1>2 DEF ClientShape, clientVars, serverVars, workerVars
<1>6. PathShape'
    BY <1>1, <1>2, <1>4 DEF PathShape, clientVars, serverVars
<1>7. HeldFilesIntact'
    <2> SUFFICES ASSUME NEW d \in Clients, Connected(d), NEW i \in 1..Len(paths[d])
                 PROVE  \/ incoming'[paths[d][i]] = File(d, i)
                        \/ incoming'[paths[d][i]] = Absent /\ d \in FixtureSized
        BY <1>1, <1>4 DEF HeldFilesIntact, clientVars
    <2> DEFINE p == paths[d][i]
    <2>1. p \in Paths
        BY <1>2 DEF TypeOK
    <2>2. incoming'[p] = IF Duplicate(p) THEN Absent ELSE incoming[p]
        BY <1>1, <2>1
    <2>3. \/ incoming[p] = File(d, i)
          \/ incoming[p] = Absent /\ d \in FixtureSized
        BY <1>2 DEF HeldFilesIntact
    <2>4. File(d, i).of = d
        BY DEF File
    <2> QED
        BY <2>2, <2>3, <2>4 DEF Duplicate
<1> QED
    BY <1>3, <1>5, <1>6, <1>7 DEF FilesInv

\* No client stays connected over a restart.
LEMMA RestartStep == ASSUME FilesInv, Restart PROVE FilesInv'
<1>1. /\ restarts < MaxRestarts /\ restarts' = restarts + 1
      /\ spid' \in ServerPids /\ counter' = 0
      /\ job' = [c \in Clients |-> "none"]
      /\ cl' = [c \in Clients |-> IF Connected(c) THEN "failed" ELSE cl[c]]
      /\ UNCHANGED <<pid, paths, attempts, local, diskVars, workerVars>>
    BY DEF Restart
<1>2. TypeOK /\ ClientShape
    BY DEF FilesInv
<1>3. TypeOK'
    <2>1. cl' \in [Clients -> {"idle", "upload", "submit", "poll", "download",
                               "ok", "checked", "failed"}]
        BY <1>1, <1>2 DEF TypeOK
    <2>2. restarts' \in 0..MaxRestarts /\ counter' \in 0..MaxUploads
        BY <1>1, <1>2 DEF TypeOK
    <2> QED
        BY <1>1, <1>2, <2>1, <2>2 DEF TypeOK, diskVars, workerVars
<1>4. \A d \in Clients : ~Connected(d)'
    BY <1>1 DEF Connected
<1>5. ClientShape'
    BY <1>1, <1>2 DEF ClientShape, Connected, workerVars
<1> QED
    BY <1>3, <1>4, <1>5 DEF FilesInv, PathShape, HeldFilesIntact

\* What ffmpeg reads.
Inputs(c) == [n \in 1..Len(paths[c]) |-> incoming[paths[c][n]]]

LEMMA InputsType == ASSUME TypeOK, NEW c \in Clients PROVE Inputs(c) \in Seq(Contents)
<1>1. paths[c] \in Seq(Paths) /\ Len(paths[c]) \in Nat
    BY DEF TypeOK
<1>2. \A n \in 1..Len(paths[c]) : incoming[paths[c][n]] \in Contents
    BY <1>1 DEF TypeOK
<1> QED
    BY <1>1, <1>2 DEF Inputs

LEMMA FfmpegStep ==
    ASSUME FilesInv, NEW c \in Clients, Open(c) \/ Encode(c)
    PROVE  FilesInv'
<1>1. TypeOK /\ ClientShape
    BY DEF FilesInv
<1>2. /\ worker[c] \in {"started", "encoding"}
      /\ \E w \in {"encoding", "ok", "fail"} : worker' = [worker EXCEPT ![c] = w]
      /\ read' = read \/ read' = [read EXCEPT ![c] = Inputs(c)]
      /\ \/ outputs' = outputs
         \/ outputs' = [outputs EXCEPT ![OutPath(c)] = Unfinished]
         \/ outputs' = [outputs EXCEPT ![OutPath(c)] = read[c]]
      /\ UNCHANGED <<clientVars, serverVars, incoming>>
    BY DEF Open, Encode, Inputs
<1>3. read' \in [Clients -> Seq(Contents)]
    <2>1. Inputs(c) \in Seq(Contents) /\ read \in [Clients -> Seq(Contents)]
        BY <1>1, InputsType DEF TypeOK
    <2> QED
        BY <1>2, <2>1
<1>4. outputs' \in [ClientPids -> Seq(Contents)]
    BY <1>1, <1>2, ContentTypes DEF TypeOK, OutPath
<1>5. TypeOK'
    BY <1>1, <1>2, <1>3, <1>4, ZenonT(40) DEF TypeOK, clientVars, serverVars
<1>6. ClientShape'
    BY <1>1, <1>2 DEF TypeOK, ClientShape, clientVars, serverVars
<1> QED
    BY <1>2, <1>5, <1>6, FilesKept DEF clientVars, serverVars

LEMMA FilesInit == Init => FilesInv
<1> SUFFICES ASSUME Init PROVE FilesInv
    OBVIOUS
<1>1. TypeOK
    <2>1. <<>> \in Seq(Paths) /\ 0 \in 0..MaxAttempts /\ 0 \in 0..MaxUploads /\ 0 \in 0..MaxRestarts
        OBVIOUS
    <2> QED
        BY <2>1, ContentTypes DEF Init, TypeOK
<1>2. \A c \in Clients : ~Connected(c) /\ paths[c] = <<>> /\ cl[c] = "idle"
                         /\ worker[c] = "none" /\ job[c] = "none"
    BY DEF Init, Connected
<1> QED
    BY <1>1, <1>2 DEF FilesInv, ClientShape, PathShape, HeldFilesIntact

LEMMA FilesStep == FilesInv /\ [Next]_vars => FilesInv'
<1> SUFFICES ASSUME FilesInv, [Next]_vars PROVE FilesInv'
    OBVIOUS
<1>1. ASSUME NEW c \in Clients, Moves(c) PROVE FilesInv'
    BY <1>1, MoveStep
<1>2. ASSUME NEW c \in Clients, Upload(c) \/ UploadBreaks(c) \/ Submit(c) PROVE FilesInv'
    BY <1>2, UploadStep, UploadBreaksStep, SubmitStep
<1>3. ASSUME NEW c \in Clients, Reap(c) \/ Evict(c) \/ Open(c) \/ Encode(c) PROVE FilesInv'
    BY <1>3, ServerStep, FfmpegStep
<1>4. CASE Sweep \/ Restart
    BY <1>4, SweepStep, RestartStep
<1>5. CASE UNCHANGED vars
    <2>1. TypeOK' /\ ClientShape'
        BY <1>5 DEF vars, clientVars, serverVars, diskVars, workerVars, FilesInv, TypeOK,
                    ClientShape
    <2> QED
        BY <1>5, <2>1, FilesKept DEF vars, clientVars, serverVars, diskVars
<1> QED
    BY <1>1, <1>2, <1>3, <1>4, <1>5 DEF Next, Request, Moves

LEMMA FilesInvariant == Spec => []FilesInv
BY FilesInit, FilesStep, PTL DEF Spec

\* The type invariant of RemoteTransfer; in particular no client waits longer than
\* POLL_MAX_ATTEMPTS allows.
THEOREM TransferTypeCorrect == Spec => []TypeOK
<1>1. FilesInv => TypeOK
    BY DEF FilesInv
<1> QED
    BY <1>1, FilesInvariant, PTL

\* Whatever other clients upload, sweeps remove and restarts reuse, the files a
\* connected client was given a path for are its own, whole, unless the sweep takes
\* them for the fixture.
THEOREM HeldFilesStayIntact == Spec => []HeldFilesIntact
<1>1. FilesInv => HeldFilesIntact
    BY DEF FilesInv
<1> QED
    BY <1>1, FilesInvariant, PTL

-----------------------------------------------------------------------------
(* Results                                                                  *)

\* A worker has been given the files its operation needs, and has read them once it
\* writes.
WriterShape ==
    \A c \in Clients : /\ worker[c] # "none" => Len(paths[c]) = Files
                       /\ worker[c] \in {"encoding", "ok"} => read[c] # NoOutput

\* What the worker of a connected client reads and writes is the client's own, unless
\* another worker has written to the same name.
WorkShape ==
    \A c \in Clients : Connected(c) =>
        /\ worker[c] \in {"encoding", "ok"} => read[c] = Own(c)
        /\ worker[c] = "ok" => outputs[OutPath(c)] = Own(c) \/ NameTaken(c)
        /\ job[c] = "done" => worker[c] = "ok"
        /\ cl[c] = "download" => worker[c] = "ok"

ResultInv == FilesInv /\ WriterShape /\ WorkShape /\ ResultIsOwn

\* A client that is connected after a step was so before, or has just come.
LEMMA StaysConnected ==
    ASSUME TypeOK, [Next]_vars, NEW c \in Clients, Connected(c)'
    PROVE  Connected(c) \/ cl[c] = "idle"
<1>1. ASSUME NEW d \in Clients, Moves(d) PROVE Connected(c) \/ cl[c] = "idle"
    <2>1. PICK next \in {"upload", "poll", "download", "checked", "ok", "failed"} :
              /\ cl' = [cl EXCEPT ![d] = next]
              /\ next = "upload" => cl[d] = "idle"
              /\ next = "poll" => cl[d] \in {"submit", "poll"}
              /\ next = "download" => cl[d] = "poll"
        BY <1>1, MoveFacts
    <2> QED
        BY <2>1 DEF Connected, TypeOK
<1>2. ASSUME NEW d \in Clients, Upload(d) \/ UploadBreaks(d) \/ Submit(d)
      PROVE  Connected(c) \/ cl[c] = "idle"
    BY <1>2 DEF Upload, UploadBreaks, Submit, Goto, Connected, TypeOK
<1>3. CASE UNCHANGED cl
    BY <1>3 DEF Connected
<1>4. CASE Restart
    BY <1>4 DEF Restart, Connected
<1>5. CASE \/ Sweep \/ UNCHANGED vars
           \/ \E d \in Clients : Reap(d) \/ Evict(d) \/ Open(d) \/ Encode(d)
    BY <1>3, <1>5 DEF Sweep, Reap, Evict, Open, Encode, clientVars, vars
<1> QED
    BY <1>1, <1>2, <1>4, <1>5 DEF Next, Request, Moves

\* What ffmpeg reads for a connected client whose files are all there.
LEMMA InputsOwn ==
    ASSUME FilesInv, NEW c \in Clients, Connected(c), worker[c] = "started",
           \A n \in 1..Len(paths[c]) : incoming[paths[c][n]] # Absent
    PROVE  Inputs(c) = Own(c)
<1>1. Len(paths[c]) = Files
    BY DEF FilesInv, ClientShape, Connected
<1>2. \A n \in 1..Len(paths[c]) : incoming[paths[c][n]] = File(c, n)
    BY DEF FilesInv, HeldFilesIntact
<1> QED
    BY <1>1, <1>2 DEF Inputs, Own

LEMMA OwnIsResult == \A c \in Clients : Own(c) # NoOutput
<1> SUFFICES ASSUME NEW c \in Clients PROVE Own(c) # NoOutput
    OBVIOUS
<1>1. 1 \in DOMAIN Own(c)
    BY DEF Own
<1>2. 1 \notin DOMAIN NoOutput
    BY DEF NoOutput
<1> QED
    BY <1>1, <1>2

LEMMA InputsThere ==
    ASSUME TypeOK, WriterShape, NEW c \in Clients, worker[c] = "started"
    PROVE  Inputs(c) # NoOutput
<1>1. Len(paths[c]) = Files
    BY DEF WriterShape
<1>2. 1 \in DOMAIN Inputs(c)
    BY <1>1 DEF Inputs
<1>3. 1 \notin DOMAIN NoOutput
    BY DEF NoOutput
<1> QED
    BY <1>2, <1>3

\* What a step does to the workers, seen by one of them.
LEMMA WriterSteps ==
    ASSUME TypeOK, ClientShape, WriterShape, [Next]_vars, NEW c \in Clients
    PROVE  /\ pid' = pid
           /\ read[c] # NoOutput => read'[c] # NoOutput
           /\ worker'[c] # "none" => Len(paths'[c]) = Files
           /\ worker'[c] \in {"encoding", "ok"} => read'[c] # NoOutput
<1>1. /\ worker[c] # "none" => Len(paths[c]) = Files
      /\ worker[c] \in {"encoding", "ok"} => read[c] # NoOutput
    BY DEF WriterShape
<1>2. ASSUME NEW d \in Clients, Moves(d) PROVE UNCHANGED <<pid, paths, worker, read>>
    BY <1>2, MoveFacts DEF workerVars
<1>3. ASSUME NEW d \in Clients, Upload(d) \/ UploadBreaks(d)
      PROVE  /\ UNCHANGED <<pid, worker, read>>
             /\ paths'[c] = paths[c] \/ worker[c] = "none"
    BY <1>3 DEF Upload, UploadBreaks, workerVars, TypeOK, ClientShape
<1>4. ASSUME NEW d \in Clients, Submit(d)
      PROVE  /\ UNCHANGED <<pid, paths, read>>
             /\ \/ worker'[c] = worker[c]
                \/ Len(paths[c]) = Files /\ worker'[c] \in {"started", "fail"}
    <2>1. /\ Len(paths[d]) = Files
          /\ \E w \in {"started", "fail"} : worker' = [worker EXCEPT ![d] = w]
          /\ UNCHANGED <<pid, paths, read>>
        BY <1>4 DEF Submit, ClientShape
    <2> QED
        BY <2>1 DEF TypeOK
<1>5. ASSUME NEW d \in Clients, Reap(d) \/ Evict(d)
      PROVE  UNCHANGED <<pid, paths, worker, read>>
    BY <1>5 DEF Reap, Evict, clientVars, workerVars
<1>6. ASSUME NEW d \in Clients, Open(d)
      PROVE  /\ UNCHANGED <<pid, paths>>
             /\ worker[c] = "none" => worker'[c] = "none"
             /\ \/ read'[c] = read[c]
                   /\ (worker'[c] = worker[c] \/ worker'[c] = "fail")
                \/ read'[c] # NoOutput
    <2>1. /\ worker[d] = "started" /\ UNCHANGED <<pid, paths>>
          /\ \/ worker' = [worker EXCEPT ![d] = "fail"] /\ read' = read
             \/ /\ worker' = [worker EXCEPT ![d] = "encoding"]
                /\ read' = [read EXCEPT ![d] = Inputs(d)]
        BY <1>6 DEF Open, Inputs, clientVars
    <2>2. Inputs(d) # NoOutput
        BY <2>1, InputsThere
    <2>3. CASE d = c
        BY <2>1, <2>2, <2>3 DEF TypeOK
    <2>4. CASE d # c
        BY <2>1, <2>4 DEF TypeOK
    <2> QED
        BY <2>3, <2>4
<1>7. ASSUME NEW d \in Clients, Encode(d)
      PROVE  /\ UNCHANGED <<pid, paths, read>>
             /\ \/ worker'[c] = worker[c]
                \/ worker[c] = "encoding" /\ worker'[c] \in {"ok", "fail"}
    BY <1>7 DEF Encode, clientVars, TypeOK
<1>8. CASE Sweep \/ Restart \/ UNCHANGED vars
    BY <1>1, <1>8 DEF Sweep, Restart, vars, clientVars, workerVars
<1>9. CASE UNCHANGED <<pid, paths, worker, read>>
    BY <1>1, <1>9
<1>10. ASSUME NEW d \in Clients, Upload(d) \/ UploadBreaks(d) \/ Submit(d)
       PROVE  /\ pid' = pid
              /\ read[c] # NoOutput => read'[c] # NoOutput
              /\ worker'[c] # "none" => Len(paths'[c]) = Files
              /\ worker'[c] \in {"encoding", "ok"} => read'[c] # NoOutput
    BY <1>1, <1>3, <1>4, <1>10
<1>11. ASSUME NEW d \in Clients, Open(d) \/ Encode(d)
       PROVE  /\ pid' = pid
              /\ read[c] # NoOutput => read'[c] # NoOutput
              /\ worker'[c] # "none" => Len(paths'[c]) = Files
              /\ worker'[c] \in {"encoding", "ok"} => read'[c] # NoOutput
    BY <1>1, <1>6, <1>7, <1>11
<1> QED
    BY <1>2, <1>5, <1>8, <1>9, <1>10, <1>11 DEF Next, Request, Moves

LEMMA WriterStep ==
    ASSUME TypeOK, ClientShape, WriterShape, [Next]_vars
    PROVE  WriterShape'
BY WriterSteps DEF WriterShape, NoOutput

\* A name that another run has written to stays taken.
LEMMA TakenStays ==
    ASSUME TypeOK, ClientShape, WriterShape, [Next]_vars, NEW c \in Clients, NameTaken(c)
    PROVE  NameTaken(c)'
BY WriterSteps DEF NameTaken, NoOutput

LEMMA WorkStep ==
    ASSUME FilesInv, WriterShape, WorkShape, [Next]_vars
    PROVE  WorkShape'
<1>1. TypeOK /\ ClientShape
    BY DEF FilesInv
<1> SUFFICES ASSUME NEW c \in Clients, Connected(c)'
             PROVE  /\ worker'[c] \in {"encoding", "ok"} => read'[c] = Own(c)
                    /\ worker'[c] = "ok" => outputs'[pid[c]] = Own(c) \/ NameTaken(c)'
                    /\ job'[c] = "done" => worker'[c] = "ok"
                    /\ cl'[c] = "download" => worker'[c] = "ok"
    <2>1. \A c \in Clients : pid' = pid
        BY <1>1, WriterSteps
    <2> QED
        BY <2>1 DEF WorkShape, Own, File, OutPath
<1>2. Connected(c) \/ cl[c] = "idle"
    BY <1>1, StaysConnected
<1>3. /\ worker[c] \in {"encoding", "ok"} => read[c] = Own(c)
      /\ worker[c] = "ok" => outputs[pid[c]] = Own(c) \/ NameTaken(c)'
      /\ job[c] = "done" => worker[c] = "ok"
      /\ cl[c] = "download" => worker[c] = "ok"
    BY <1>1, <1>2, TakenStays DEF WorkShape, ClientShape, OutPath
<1>4. /\ pid' = pid /\ pid \in [Clients -> ClientPids]
      /\ \A d \in Clients : worker[d] \in {"started", "encoding"} =>
            /\ worker[d] = "started" => Inputs(d) # NoOutput
            /\ worker[d] = "encoding" => read[d] # NoOutput
    BY <1>1, WriterSteps, InputsThere DEF WriterShape, TypeOK
<1>5. ASSUME NEW d \in Clients, Moves(d)
      PROVE  /\ UNCHANGED <<worker, read, outputs, job>>
             /\ cl'[c] = "download" => worker[c] = "ok"
    <2>1. PICK next \in {"upload", "poll", "download", "checked", "ok", "failed"} :
              /\ cl' = [cl EXCEPT ![d] = next]
              /\ next = "download" => cl[d] = "poll" /\ job[d] = "done"
        BY <1>1, <1>5, MoveFacts
    <2>2. UNCHANGED <<serverVars, diskVars, workerVars>>
        BY <1>1, <1>5, MoveFacts
    <2>3. cl'[c] = "download" => cl[c] = "download" \/ job[c] = "done"
        BY <1>1, <2>1 DEF TypeOK
    <2> QED
        BY <1>3, <2>2, <2>3 DEF serverVars, diskVars, workerVars
<1>6. ASSUME NEW d \in Clients, Upload(d) \/ UploadBreaks(d)
      PROVE  /\ UNCHANGED <<worker, read, outputs, job>>
             /\ cl'[c] = "download" => cl[c] = "download"
    BY <1>1, <1>6 DEF Upload, UploadBreaks, Goto, workerVars, TypeOK
<1>7. ASSUME NEW d \in Clients, Submit(d)
      PROVE  /\ UNCHANGED <<read, outputs>>
             /\ worker'[c] \notin {"encoding", "ok"} \/ worker'[c] = worker[c]
             /\ worker'[c] = worker[c] \/ job'[c] # "done"
             /\ job'[c] = "done" => job[c] = "done" /\ d # c
             /\ cl'[c] = "download" => cl[c] = "download" /\ worker'[c] = worker[c]
    <2>1. /\ cl[d] = "submit" /\ cl' = [cl EXCEPT ![d] = "poll"]
          /\ UNCHANGED <<read, outputs>>
          /\ job' = [job EXCEPT ![d] = "running"] \/ job' = job
          /\ \E w \in {"started", "fail"} : worker' = [worker EXCEPT ![d] = w]
        BY <1>7 DEF Submit, Goto, diskVars
    <2>2. job[d] = "none"
        BY <1>1, <2>1 DEF ClientShape
    <2>3. CASE d = c
        <3>1. worker'[c] \in {"started", "fail"} /\ job'[c] \in {"running", "none"}
            BY <1>1, <2>1, <2>2, <2>3 DEF TypeOK
        <3>2. cl'[c] = "poll"
            BY <1>1, <2>1, <2>3 DEF TypeOK
        <3>3. worker'[c] \notin {"encoding", "ok"} /\ job'[c] # "done" /\ cl'[c] # "download"
            BY <3>1, <3>2
        <3>4. UNCHANGED <<read, outputs>>
            BY <2>1
        <3> QED
            BY <3>3, <3>4
    <2>4. CASE d # c
        BY <1>1, <2>1, <2>4 DEF TypeOK
    <2> QED
        BY <2>3, <2>4
<1>8. ASSUME NEW d \in Clients, Reap(d) \/ Evict(d)
      PROVE  /\ UNCHANGED <<worker, read, outputs, cl>>
             /\ job'[c] = "done" => worker[c] = "ok"
    BY <1>1, <1>3, <1>8 DEF Reap, Evict, workerVars, diskVars, clientVars, TypeOK
<1>9. ASSUME NEW d \in Clients, d # c, Open(d) \/ Encode(d)
      PROVE  /\ UNCHANGED <<cl, job>> /\ worker'[c] = worker[c] /\ read'[c] = read[c]
             /\ outputs'[pid[c]] = outputs[pid[c]] \/ NameTaken(c)'
    <2>1. /\ \E w \in {"encoding", "ok", "fail"} : worker' = [worker EXCEPT ![d] = w]
          /\ read' = read \/ read' = [read EXCEPT ![d] = Inputs(d)]
          /\ \/ outputs' = outputs
             \/ /\ read' = [read EXCEPT ![d] = Inputs(d)] /\ worker[d] = "started"
                /\ outputs' = [outputs EXCEPT ![pid[d]] = Unfinished]
             \/ /\ read' = read /\ worker[d] = "encoding"
                /\ outputs' = [outputs EXCEPT ![pid[d]] = read[d]]
          /\ UNCHANGED <<cl, job>>
        BY <1>9 DEF Open, Encode, Inputs, clientVars, serverVars, OutPath
    <2>2. CASE outputs' = outputs \/ pid[d] # pid[c]
        <3>1. pid[c] \in DOMAIN outputs /\ outputs = [o \in DOMAIN outputs |-> outputs[o]]
            BY <1>1, <1>4 DEF TypeOK
        <3>2. outputs'[pid[c]] = outputs[pid[c]]
            BY <2>1, <2>2, <3>1
        <3> QED
            BY <1>1, <1>9, <2>1, <3>2 DEF TypeOK
    <2>3. CASE outputs' # outputs /\ pid[d] = pid[c]
        <3>1. read'[d] # NoOutput
            BY <1>1, <1>4, <2>1, <2>3 DEF TypeOK
        <3>2. NameTaken(c)'
            BY <1>4, <1>9, <2>3, <3>1 DEF NameTaken, NoOutput
        <3> QED
            BY <1>1, <1>9, <2>1, <3>2 DEF TypeOK
    <2> QED
        BY <2>2, <2>3
<1>10. CASE Open(c)
    <2>1. worker[c] = "started" /\ UNCHANGED <<cl, job>>
        BY <1>10 DEF Open, clientVars, serverVars
    <2>2. Connected(c)
        BY <1>1, <1>2, <2>1 DEF ClientShape
    <2>3. CASE worker' = [worker EXCEPT ![c] = "fail"]
        BY <1>1, <1>3, <2>1, <2>3 DEF TypeOK
    <2>4. CASE /\ \A n \in 1..Len(paths[c]) : incoming[paths[c][n]] # Absent
               /\ worker' = [worker EXCEPT ![c] = "encoding"]
               /\ read' = [read EXCEPT ![c] = Inputs(c)]
        <3>1. Inputs(c) = Own(c)
            BY <2>1, <2>2, <2>4, InputsOwn
        <3> QED
            BY <1>1, <1>3, <2>1, <2>4, <3>1 DEF TypeOK
    <2> QED
        BY <1>10, <2>3, <2>4 DEF Open, Inputs
<1>11. CASE Encode(c)
    <2>1. worker[c] = "encoding" /\ UNCHANGED <<cl, job, read>>
        BY <1>11 DEF Encode, clientVars, serverVars
    <2>2. read[c] = Own(c) /\ job[c] # "done" /\ cl[c] # "download"
        BY <1>3, <2>1
    <2>3. \/ worker'[c] = "fail"
          \/ worker'[c] = "ok" /\ outputs'[pid[c]] = read[c]
        BY <1>1, <1>4, <1>11 DEF Encode, TypeOK, OutPath
    <2> QED
        BY <2>1, <2>2, <2>3
<1>12. CASE Sweep \/ UNCHANGED vars
    BY <1>3, <1>12 DEF Sweep, vars, clientVars, serverVars, diskVars, workerVars
<1>13. CASE Restart
    BY <1>13 DEF Restart, Connected
<1>14. ASSUME NEW d \in Clients, Open(d) \/ Encode(d)
       PROVE  /\ worker'[c] \in {"encoding", "ok"} => read'[c] = Own(c)
              /\ worker'[c] = "ok" => outputs'[pid[c]] = Own(c) \/ NameTaken(c)'
              /\ job'[c] = "done" => worker'[c] = "ok"
              /\ cl'[c] = "download" => worker'[c] = "ok"
    <2>1. CASE d = c
        BY <1>10, <1>11, <1>14, <2>1
    <2>2. CASE d # c
        BY <1>3, <1>9, <1>14, <2>2
    <2> QED
        BY <2>1, <2>2
<1> QED
    BY <1>3, <1>5, <1>6, <1>7, <1>8, <1>12, <1>13, <1>14 DEF Next, Request, Moves

LEMMA ResultStep ==
    ASSUME FilesInv, WriterShape, WorkShape, ResultIsOwn, [Next]_vars
    PROVE  ResultIsOwn'
<1>1. TypeOK /\ ClientShape
    BY DEF FilesInv
<1> SUFFICES ASSUME NEW c \in Clients, cl'[c] = "ok"
             PROVE  local'[c] = Own(c) \/ NameTaken(c)'
    BY DEF ResultIsOwn, Own, File
<1>2. CASE Download(c)
    <2>1. cl[c] = "download" /\ outputs[OutPath(c)] # NoOutput
          /\ local' = [local EXCEPT ![c] = outputs[OutPath(c)]]
        BY <1>1, <1>2 DEF Download, Goto, TypeOK
    <2>2. outputs[OutPath(c)] = Own(c) \/ NameTaken(c)
        BY <2>1 DEF WorkShape, Connected
    <2> QED
        BY <1>1, <2>1, <2>2, TakenStays DEF TypeOK
<1>3. CASE ~Download(c)
    <2>1. cl[c] = "ok" /\ local'[c] = local[c]
        <3>1. ASSUME NEW d \in Clients, Moves(d)
              PROVE  cl[c] = "ok" /\ local'[c] = local[c]
            <4>1. PICK next \in {"upload", "poll", "download", "checked", "ok", "failed"} :
                      cl' = [cl EXCEPT ![d] = next]
                BY <1>1, <3>1, MoveFacts
            <4>2. CASE d = c
                BY <1>1, <1>3, <3>1, <4>2
                   DEF Moves, Connect, SubmitFails, Poll, GiveUp, Quit, Goto, TypeOK
            <4>3. CASE d # c
                <5>1. cl[c] = "ok"
                    BY <1>1, <4>1, <4>3 DEF TypeOK
                <5> QED
                    BY <1>1, <3>1, <4>3, <5>1
                       DEF Moves, Connect, SubmitFails, Poll, GiveUp, Quit, Download, TypeOK
            <4> QED
                BY <4>2, <4>3
        <3>2. ASSUME NEW d \in Clients, Upload(d) \/ UploadBreaks(d) \/ Submit(d)
              PROVE  cl[c] = "ok" /\ local'[c] = local[c]
            BY <1>1, <3>2 DEF Upload, UploadBreaks, Submit, Goto, TypeOK
        <3>3. CASE \/ Sweep \/ UNCHANGED vars
                   \/ \E d \in Clients : Reap(d) \/ Evict(d) \/ Open(d) \/ Encode(d)
            BY <3>3 DEF Sweep, Reap, Evict, Open, Encode, clientVars, vars
        <3>4. CASE Restart
            BY <3>4 DEF Restart
        <3> QED
            BY <3>1, <3>2, <3>3, <3>4 DEF Next, Request, Moves
    <2> QED
        BY <1>1, <2>1, TakenStays DEF ResultIsOwn
<1> QED
    BY <1>2, <1>3

\* A client that ends well has what ffmpeg made of its own files, all of them and in
\* their order, unless another run with the same process id, the only part of the
\* output's name that tells runs apart, had written to that name.
THEOREM ResultsAreOwn == Spec => []ResultIsOwn
<1>1. Init => ResultInv
    BY FilesInit DEF ResultInv, Init, WriterShape, WorkShape, ResultIsOwn, Connected
<1>2. ResultInv /\ [Next]_vars => ResultInv'
    BY FilesStep, WriterStep, WorkStep, ResultStep DEF ResultInv, FilesInv
<1>3. ResultInv => ResultIsOwn
    BY DEF ResultInv
<1> QED
    BY <1>1, <1>2, <1>3, PTL DEF Spec
=============================================================================
