------------------------------ MODULE RestShim ------------------------------
(***************************************************************************)
(* vps_rest (rest_server.c): one loop that accepts a connection, handles   *)
(* its only request to the end, the ffmpeg run included, and closes it.    *)
(* Each client wants what vps_rest_test.py does: upload a file, run an     *)
(* operation on the stored file, download the output, one connection for   *)
(* each step.                                                              *)
(*                                                                         *)
(* SIGPIPE is not ignored here: a reply that cannot be delivered may end   *)
(* the process.                                                            *)
(***************************************************************************)
EXTENDS Integers, Sequences

CONSTANTS
    Clients,
    None,           \* no client
    Names,          \* base names of files, short enough for all buffers
    NameChoices,    \* the ways the clients can choose their names, equal ones included
    BodyLen,        \* Content-Length of the uploads, in pieces
    Extra,          \* bound: pieces a client may send beyond its Content-Length
    BufLen          \* pieces that fit REQ_BUF_SZ, or UPLOAD_CHUNK

ASSUME RestShimAssumptions ==
    /\ None \notin Clients
    /\ None \notin Names
    /\ NameChoices \subseteq [Clients -> Names]
    /\ BodyLen \in Nat /\ Extra \in Nat
    /\ BufLen \in Nat \ {0, 1}

VARIABLES
    name,           \* the file name each client uses
    stage,          \* the step each client is at
    got,            \* what it has downloaded
    conn,           \* its connection
    sent,           \* pieces of the request it has sent and vps_rest not read
    unsent,         \* pieces it still has to send
    gone,           \* it has closed the connection
    queue,          \* connections that wait for accept
    cur,            \* the client that is handled
    left,           \* bytes of the body run_upload still expects: below 0 when more came
    infile,         \* the input, and the output, of the request that is handled
    outfile,
    verdict,        \* HTTP_OK or HTTP_BAD_REQUEST, once it is known
    incoming,       \* rest_<pid>_<name> in uploads_dir/incoming
    outputs,        \* <name> in outputs_dir
    cut,            \* clients of whose upload a write stored a part only (ghost)
    misread,        \* names that a request cut inside its first line meant or wrote (ghost)
    pc              \* where vps_rest is

clientVars == <<name, stage, got>>
wireVars   == <<sent, unsent, gone>>
diskVars   == <<incoming, outputs, cut>>
taskVars   == <<infile, outfile, misread>>
vars == <<clientVars, wireVars, diskVars, taskVars, conn, queue, cur, left, verdict, pc>>

\* What a file holds: nr pieces of a client's body.
Absent == [of |-> None, nr |-> 0]
Piece  == [of : Clients \cup {None}, nr : 0..(BodyLen + Extra)]

Stages == {"upload", "run", "download", "done", "failed"}

Least(m, n) == IF m <= n THEN m ELSE n

\* A request is its header, in two pieces (a part of the request line, the rest),
\* then the body of an upload and what the client sends after it.
Header == 2
RequestLens(c) == IF stage[c] = "upload"
                  THEN {Header + BodyLen, Header + BodyLen + Extra} ELSE {Header}

-----------------------------------------------------------------------------
Init ==
    /\ name \in NameChoices
    /\ stage = [c \in Clients |-> "upload"]
    /\ got = [c \in Clients |-> Absent]
    /\ conn = [c \in Clients |-> "off"]
    /\ sent = [c \in Clients |-> 0]
    /\ unsent = [c \in Clients |-> 0]
    /\ gone = [c \in Clients |-> FALSE]
    /\ queue = <<>>
    /\ cur = None
    /\ left = 0
    /\ infile = None /\ outfile = None
    /\ verdict = "none"
    /\ incoming = [n \in Names |-> Absent]
    /\ outputs = [n \in Names |-> Absent]
    /\ cut = {} /\ misread = {}
    /\ pc = "accept"

-----------------------------------------------------------------------------
(* Clients                                                                  *)

Connect(c) ==
    /\ pc # "dead"
    /\ stage[c] \in {"upload", "run", "download"} /\ conn[c] = "off"
    /\ conn' = [conn EXCEPT ![c] = "queued"]
    /\ queue' = Append(queue, c)
    /\ \E n \in RequestLens(c) : unsent' = [unsent EXCEPT ![c] = n]
    /\ UNCHANGED <<clientVars, sent, gone, diskVars, taskVars, cur, left, verdict, pc>>

\* Some pieces of the request arrive together.
Send(c) ==
    /\ conn[c] # "off" /\ ~gone[c]
    /\ \E n \in 1..unsent[c] : /\ sent' = [sent EXCEPT ![c] = @ + n]
                               /\ unsent' = [unsent EXCEPT ![c] = @ - n]
    /\ UNCHANGED <<clientVars, gone, diskVars, taskVars, conn, queue, cur, left, verdict, pc>>

Hangup(c) ==
    /\ conn[c] # "off" /\ ~gone[c]
    /\ gone' = [gone EXCEPT ![c] = TRUE]
    /\ unsent' = [unsent EXCEPT ![c] = 0]
    /\ UNCHANGED <<clientVars, sent, diskVars, taskVars, conn, queue, cur, left, verdict, pc>>

-----------------------------------------------------------------------------
(* main and handle_client                                                   *)

Accept ==
    /\ pc = "accept"
    /\ queue # <<>>
    /\ cur' = Head(queue)
    /\ queue' = Tail(queue)
    /\ conn' = [conn EXCEPT ![Head(queue)] = "open"]
    /\ pc' = "request"
    /\ UNCHANGED <<clientVars, wireVars, diskVars, taskVars, left, verdict>>

\* The process ends, and with it all its connections.
Die ==
    /\ pc' = "dead"
    /\ conn' = [c \in Clients |-> "off"]
    /\ stage' = [c \in Clients |-> IF conn[c] # "off" THEN "failed" ELSE stage[c]]
    /\ sent' = [c \in Clients |-> 0]
    /\ unsent' = [c \in Clients |-> 0]
    /\ gone' = [c \in Clients |-> FALSE]
    /\ queue' = <<>>
    /\ cur' = None /\ left' = 0 /\ verdict' = "none"
    /\ infile' = None /\ outfile' = None
    /\ UNCHANGED <<name, got, diskVars, misread>>

\* accept fails with anything but EINTR, on a connection aborted before it for one:
\* the loop is left and main returns.
AcceptFails == pc = "accept" /\ queue # <<>> /\ Die

Answer(v) == verdict' = v /\ pc' = "reply"

File == name[cur]

\* Mutants: the part of the body that came with the header is not subtracted; the
\* header is subtracted too.
BodyLeft_All(n)    == BodyLen
BodyLeft_Header(n) == BodyLen - n

\* clen - body_in_buf, when the first read brought n pieces: more, perhaps, than clen.
BodyLeft(n) == BodyLen - (n - Header)

\* write stores m of n pieces: fewer on a disk that fills up, which run_upload, that
\* only looks for a negative result, takes for all of them.
Write(n, m) == /\ m \in (1..n) \cup {n}
               /\ cut' = IF m < n THEN cut \cup {cur} ELSE cut

\* sscanf and query_get find the method, the path and the parameters in the n pieces
\* that were read. A line that is cut can still have them all, the last one shorter
\* than it was sent: another file, or another value of another parameter.
Understood(n) ==
    \/ infile' = File /\ outfile' = File /\ UNCHANGED misread
    \/ /\ n < Header
       /\ infile' \in IF stage[cur] = "run" THEN Names ELSE {File}
       /\ outfile' \in Names
       /\ misread' = misread \cup {File, outfile'}

\* run_upload, as far as the first write: it needs the header's end to be there.
BeginUpload(n) ==
    \/ Answer("error") /\ UNCHANGED <<incoming, cut, left>>           \* name, length, open
    \/ /\ n >= Header
       /\ \/ /\ \E m \in 0..(n - Header) :
                   /\ Write(n - Header, m)
                   /\ incoming' = [incoming EXCEPT ![File] = [of |-> cur, nr |-> m]]
             /\ left' = BodyLeft(n)
             /\ pc' = "body"
             /\ UNCHANGED verdict
          \/ /\ incoming' = [incoming EXCEPT ![File] = [of |-> cur, nr |-> 0]]
             /\ Answer("error") /\ UNCHANGED <<cut, left>>             \* write

\* The one read of the request, and what it is taken for; what is not understood is
\* answered 400.
ReadRequest ==
    LET n == Least(sent[cur], BufLen) IN
    /\ pc = "request"
    /\ n > 0
    /\ sent' = [sent EXCEPT ![cur] = @ - n]
    /\ \/ stage[cur] = "upload" /\ BeginUpload(n) /\ UNCHANGED taskVars
       \/ /\ stage[cur] \in {"run", "download"}
          /\ UNCHANGED <<incoming, cut, left>>
          /\ \/ Answer("error") /\ UNCHANGED taskVars      \* argv, fork, the name
             \/ /\ Understood(n)
                /\ pc' = IF stage[cur] = "run" THEN "ffmpeg" ELSE "file"
                /\ UNCHANGED verdict
    /\ UNCHANGED <<clientVars, unsent, gone, outputs, conn, queue, cur>>

Close == /\ conn' = [conn EXCEPT ![cur] = "off"]
         /\ sent' = [sent EXCEPT ![cur] = 0]
         /\ unsent' = [unsent EXCEPT ![cur] = 0]
         /\ gone' = [gone EXCEPT ![cur] = FALSE]
         /\ cur' = None
         /\ left' = 0
         /\ infile' = None /\ outfile' = None
         /\ verdict' = "none"

\* The client closes before it sends anything: no reply.
NoRequest ==
    /\ pc = "request"
    /\ sent[cur] = 0 /\ gone[cur]
    /\ Close
    /\ stage' = [stage EXCEPT ![cur] = "failed"]
    /\ pc' = "accept"
    /\ UNCHANGED <<name, got, diskVars, misread, queue>>

-----------------------------------------------------------------------------
(* run_upload, after the header                                             *)

\* Mutant: what the client sends after the body is read too.
Wanted_Buffer == BufLen

\* want: no more than is still expected
Wanted == Least(BufLen, left)

ReadBody ==
    LET n == Least(sent[cur], Wanted) IN
    /\ pc = "body" /\ left > 0
    /\ n > 0
    /\ sent' = [sent EXCEPT ![cur] = @ - n]
    /\ \/ /\ \E m \in 0..n : Write(n, m) /\ incoming' = [incoming EXCEPT ![File].nr = @ + m]
          /\ left' = left - n
          /\ UNCHANGED <<pc, verdict>>
       \/ Answer("error") /\ UNCHANGED <<incoming, cut, left>>     \* write
    /\ UNCHANGED <<clientVars, unsent, gone, outputs, taskVars, conn, queue, cur>>

\* Mutant: the end of the stream is taken for the end of the body.
BodyEnds_AnyEnd ==
    /\ pc = "body"
    /\ \/ left <= 0 /\ Answer("ok")
       \/ left > 0 /\ sent[cur] = 0 /\ gone[cur] /\ Answer("ok")
    /\ UNCHANGED <<clientVars, wireVars, diskVars, taskVars, conn, queue, cur, left>>

BodyEnds ==
    /\ pc = "body"
    /\ \/ left <= 0 /\ Answer("ok")
       \/ left > 0 /\ sent[cur] = 0 /\ gone[cur] /\ Answer("error")
    /\ UNCHANGED <<clientVars, wireVars, diskVars, taskVars, conn, queue, cur, left>>

-----------------------------------------------------------------------------
(* run_trim, run_filter, run_mixaudio and run_merge; run_download           *)

\* What a failed ffmpeg leaves of the output: nothing in it yet, or all of it.
PartOf(f) == {[f EXCEPT !.nr = 0], f}

\* Mutant: the exit status of ffmpeg is not looked at.
RunFfmpeg_NoStatus ==
    /\ pc = "ffmpeg"
    /\ \E f \in {outputs[outfile], incoming[infile]} \cup PartOf(incoming[infile]) :
           outputs' = [outputs EXCEPT ![outfile] = f]
    /\ Answer("ok")
    /\ UNCHANGED <<clientVars, wireVars, incoming, cut, taskVars, conn, queue, cur, left>>

\* worker_wait (or worker_dispatch_merge) returns: the output is made of the
\* stored file, or ffmpeg failed and left as much as it had written.
RunFfmpeg ==
    /\ pc = "ffmpeg"
    /\ \/ /\ incoming[infile] # Absent
          /\ outputs' = [outputs EXCEPT ![outfile] = incoming[infile]]
          /\ Answer("ok")
       \/ /\ \E f \in {outputs[outfile]} \cup PartOf(incoming[infile]) :
                 outputs' = [outputs EXCEPT ![outfile] = f]
          /\ Answer("error")
    /\ UNCHANGED <<clientVars, wireVars, incoming, cut, taskVars, conn, queue, cur, left>>

\* The file is sent as the reply itself; without a file the reply is an error.
OpenOutput ==
    /\ pc = "file"
    /\ Answer(IF outputs[outfile] = Absent THEN "error" ELSE "ok")
    /\ UNCHANGED <<clientVars, wireVars, diskVars, taskVars, conn, queue, cur, left>>

-----------------------------------------------------------------------------
(* The reply                                                                *)

NextStage(c) == CASE stage[c] = "upload"   -> "run"
                  [] stage[c] = "run"      -> "download"
                  [] stage[c] = "download" -> "done"

\* send_json, or the rest of run_download, then close. To close before the whole
\* request is read resets the connection, and the client may lose the reply.
Reply ==
    /\ pc = "reply"
    /\ Close
    /\ \/ /\ verdict = "ok" /\ ~gone[cur]
          /\ stage' = [stage EXCEPT ![cur] = NextStage(cur)]
          /\ got' = IF stage[cur] = "download"
                    THEN [got EXCEPT ![cur] = outputs[outfile]] ELSE got
       \/ /\ verdict = "error" \/ gone[cur] \/ sent[cur] > 0 \/ unsent[cur] > 0
          /\ stage' = [stage EXCEPT ![cur] = "failed"]
          /\ UNCHANGED got
    /\ pc' = "accept"
    /\ UNCHANGED <<name, diskVars, misread, queue>>

\* The client had closed: the write raises SIGPIPE, which ends vps_rest.
BrokenPipe ==
    /\ pc = "reply" /\ gone[cur]
    /\ Die

-----------------------------------------------------------------------------
Server == Accept \/ AcceptFails \/ ReadRequest \/ NoRequest \/ ReadBody \/ BodyEnds \/ RunFfmpeg
          \/ OpenOutput \/ Reply \/ BrokenPipe

Idle == /\ pc = "dead" \/ \A c \in Clients : stage[c] \in {"done", "failed"}
        /\ UNCHANGED vars

Next == Server \/ (\E c \in Clients : Connect(c) \/ Send(c) \/ Hangup(c)) \/ Idle

Spec == Init /\ [][Next]_vars

\* The server runs, every ffmpeg ends, a client reads its reply, and one that has
\* not sent all of its request sends more of it or hangs up.
Unfinished(c) == unsent[c] > 0 /\ (Send(c) \/ Hangup(c))

FairSpec == Spec /\ WF_vars(Server) /\ \A c \in Clients : WF_vars(Unfinished(c))

-----------------------------------------------------------------------------
(* Properties                                                               *)

\* The values the variables can have.
TypeOK ==
    /\ name \in NameChoices
    /\ stage \in [Clients -> Stages]
    /\ got \in [Clients -> Piece]
    /\ conn \in [Clients -> {"off", "queued", "open"}]
    /\ sent \in [Clients -> 0..(Header + BodyLen + Extra)]
    /\ unsent \in [Clients -> 0..(Header + BodyLen + Extra)]
    /\ gone \in [Clients -> BOOLEAN]
    /\ queue \in Seq(Clients)
    /\ cur \in Clients \cup {None}
    /\ left \in (-Extra)..BodyLen
    /\ infile \in Names \cup {None} /\ outfile \in Names \cup {None}
    /\ verdict \in {"none", "ok", "error"}
    /\ incoming \in [Names -> Piece]
    /\ outputs \in [Names -> Piece]
    /\ cut \subseteq Clients /\ misread \subseteq Names
    /\ pc \in {"accept", "request", "body", "ffmpeg", "file", "reply", "dead"}

\* However the header and the body are cut into reads, an upload that is
\* acknowledged has stored the client's body, all of it unless a write stored less
\* than it was given. Beyond the Content-Length there is only what came together with
\* the header: rest_server.c:452-459 writes that without a look at the length.
StoredIsWhole ==
    pc = "reply" /\ verdict = "ok" /\ stage[cur] = "upload"
    => /\ incoming[File].of = cur
       /\ cur \notin cut => incoming[File].nr >= BodyLen
       /\ incoming[File].nr > BodyLen => incoming[File].nr <= BufLen - Header

\* Another client uses the name of c and has had an upload begun.
Clashes(c) ==
    \E d \in Clients \ {c} : name[d] = name[c] /\ (stage[d] # "upload" \/ conn[d] = "open")

\* A client that gets through its three connections has what ffmpeg made of its own
\* file, whole unless a write was cut short, whatever other clients did between its
\* connections. Two things break it: another client that uploads under the same name
\* (the stored name holds the pid of vps_rest, not of the client), and a request whose
\* line the one read cut, that was meant for this file or wrote to it.
RestResultIsOwn ==
    \A c \in Clients : stage[c] = "done" =>
        \/ got[c].of = c /\ (c \notin cut => got[c].nr >= BodyLen)
        \/ Clashes(c)
        \/ name[c] \in misread

\* A connection that waits behind others, even behind their ffmpeg runs, is
\* closed in the end, with or without a reply, by vps_rest or by its death.
EveryConnectionEnds == \A c \in Clients : conn[c] = "queued" ~> conn[c] = "off"
=============================================================================
