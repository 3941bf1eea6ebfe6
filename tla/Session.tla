------------------------------- MODULE Session ------------------------------
(***************************************************************************)
(* One session of vps_server: the wire protocol between a client           *)
(* (vps_remote, vps_admin, one operation after the other) and              *)
(* dispatch_one with its handlers.  Messages carry no lengths that anybody *)
(* checks: both ends read what the operation and the verdict say must come *)
(* next.  PollLoop is about which session is served; here the server       *)
(* serves this one whenever something arrives.                             *)
(*                                                                         *)
(* A message is a sequence of units: the header, the payload, and for a    *)
(* transfer the file.  recv and send move one unit at a time.              *)
(***************************************************************************)
EXTENDS Naturals, Sequences

CONSTANTS
    Ops,            \* the operations the client may ask for
    NoOp,
    HeaderLen,      \* units of proto_header_t
    BodyLen,        \* units of a payload
    TableLen,       \* units of the payload of LIST_JOBS
    FileLen,        \* units of a file
    Cap             \* units that fit between send and recv

\* "ping" and "shutdown" have no payload (nor has CONNECT); "list" stands for
\* LIST_JOBS, STATS and INFO, "submit" for the four video operations, STATUS and
\* RESULT. The reply to an upload fits in the socket, so that it can be sent to a
\* client that still sends its file.
AllOps == {"ping", "shutdown", "list", "submit", "upload", "download"}

ASSUME SessionAssumptions ==
    /\ Ops \subseteq AllOps
    /\ NoOp \notin AllOps
    /\ HeaderLen \in Nat \ {0} /\ BodyLen \in Nat \ {0}
    /\ TableLen \in Nat \ {0} /\ FileLen \in Nat \ {0}
    /\ Cap \in Nat /\ Cap >= HeaderLen + BodyLen

VARIABLES
    c,              \* the client: where it is (at), its operation, units done (n),
                    \* the verdict it read (ok)
    s,              \* the server's side: the same, and whether the handler ends the
                    \* session (leave)
    c2s, s2c,       \* what was sent and not read yet
    held,           \* a worker forked during the session has a copy of its socket
    g_stop,         \* the server ends when it next looks, or was killed
    stored,         \* units in incoming/ of the upload that is being received
    local,          \* units of the download in the client's file
    handed,         \* the client has sent the whole request (ghost)
    verdict,        \* what the server decided of this request (ghost)
    known           \* what the client knows of it (ghost)

ghosts == <<handed, verdict, known>>
vars == <<c, s, c2s, s2c, held, g_stop, stored, local, ghosts>>

Word(ok) == IF ok THEN "ok" ELSE "refused"

\* How many units a request and a reply have.
RequestLen(op) ==
    HeaderLen + (IF op \in {"submit", "upload", "download"} THEN BodyLen ELSE 0)
              + (IF op = "upload" THEN FileLen ELSE 0)

ReplyLen(op, ok) ==
    HeaderLen + (CASE op \in {"ping", "shutdown"} -> 0
                   [] op = "list"                 -> TableLen
                   [] OTHER                       -> BodyLen)
              + (IF op = "download" /\ ok THEN FileLen ELSE 0)

\* The at-th unit of a message.
Unit(op, at, ok) == [op |-> op, at |-> at, ok |-> ok]
Units == [op : Ops, at : 1..(HeaderLen + BodyLen + TableLen + FileLen), ok : BOOLEAN]

\* Where the file begins in an upload and in the reply to a download.
Body == HeaderLen + BodyLen

-----------------------------------------------------------------------------
Init ==
    /\ c = [at |-> "think", op |-> NoOp, n |-> 0, ok |-> TRUE]
    /\ s = [at |-> "read", op |-> NoOp, n |-> 0, ok |-> TRUE, leave |-> FALSE]
    /\ c2s = <<>> /\ s2c = <<>>
    /\ held = FALSE
    /\ g_stop = FALSE
    /\ stored = <<>> /\ local = <<>>
    /\ handed = FALSE /\ verdict = "pending" /\ known = "pending"

\* What the last close of one end does to the two directions: nobody reads the inbound
\* one any more, and when something unread is in it the connection is reset, which may
\* cost the peer what it had not read yet.
Reset(in, out) ==
    /\ in' = <<>>
    /\ \/ out' = out
       \/ in # <<>> /\ \E keep \in 0..Len(out) : out' = SubSeq(out, 1, keep)

-----------------------------------------------------------------------------
(* The client                                                               *)

\* What the client can see of a close: it takes all copies of the server's socket.
Ended == s.at = "closed" /\ ~held

Pending == known = "pending" /\ c.op # NoOp

ClientCloses ==
    /\ c' = [c EXCEPT !.at = "closed"]
    /\ Reset(s2c, c2s)
    /\ known' = IF Pending THEN "unknown" ELSE known

\* vps_remote ends after a refused upload or download.
Ask(op) ==
    /\ c.at = "think"
    /\ c.ok \/ c.op \notin {"upload", "download"}
    /\ c' = [at |-> "send", op |-> op, n |-> 0, ok |-> TRUE]
    /\ local' = <<>>
    /\ handed' = FALSE /\ verdict' = "pending" /\ known' = "pending"
    /\ UNCHANGED <<s, c2s, s2c, held, g_stop, stored>>

\* The end of main, or of vps_remote's operation.
Leave ==
    /\ c.at = "think"
    /\ ClientCloses
    /\ UNCHANGED <<s, held, g_stop, stored, local, handed, verdict>>

\* send_simple, then proto_send_file. To a peer that has closed the first sends
\* still succeed.
ClientSends ==
    /\ c.at = "send" /\ c.n < RequestLen(c.op)
    /\ IF Ended THEN UNCHANGED c2s
       ELSE /\ Len(c2s) < Cap
            /\ c2s' = Append(c2s, Unit(c.op, c.n + 1, TRUE))
    /\ c' = [c EXCEPT !.n = @ + 1]
    /\ handed' = (c.n + 1 = RequestLen(c.op))
    /\ UNCHANGED <<s, s2c, held, g_stop, stored, local, verdict, known>>

Sent ==
    /\ c.at = "send" /\ c.n = RequestLen(c.op)
    /\ c' = [c EXCEPT !.at = "read", !.n = 0]
    /\ UNCHANGED <<s, c2s, s2c, held, g_stop, stored, local, ghosts>>

\* The server has closed and the send fails (SIGPIPE ends the client), or the local
\* file is shorter than fstat said. The client closes without reading.
SendFails ==
    /\ c.at = "send"
    /\ \/ Ended
       \/ c.op = "upload" /\ c.n \in Body..(RequestLen(c.op) - 1)
    /\ ClientCloses
    /\ UNCHANGED <<s, held, g_stop, stored, local, handed, verdict>>

\* Nothing in a reply is compared with the request, only the verdict is looked at.
ClientReads ==
    /\ c.at = "read" /\ c.n < ReplyLen(c.op, c.ok)
    /\ s2c # <<>>
    /\ s2c' = Tail(s2c)
    /\ c' = [c EXCEPT !.n = @ + 1,
                      !.ok = IF c.n = HeaderLen THEN Head(s2c).ok ELSE @]
    /\ local' = IF c.op = "download" /\ c.n >= Body
                THEN Append(local, Head(s2c).at - Body) ELSE local
    /\ UNCHANGED <<s, c2s, held, g_stop, stored, ghosts>>

\* The reply is whole.
Learn ==
    /\ c.at = "read" /\ c.n = ReplyLen(c.op, c.ok)
    /\ known' = Word(c.ok)
    /\ c' = [c EXCEPT !.at = "think"]
    /\ UNCHANGED <<s, c2s, s2c, held, g_stop, stored, local, handed, verdict>>

\* The connection ends before the reply is whole; the local file cannot be opened or
\* written.
ReadFails ==
    /\ c.at = "read" /\ c.n < ReplyLen(c.op, c.ok)
    /\ \/ Ended /\ s2c = <<>>
       \/ c.op = "download" /\ c.n >= Body
    /\ ClientCloses
    /\ UNCHANGED <<s, held, g_stop, stored, local, handed, verdict>>

\* The user interrupts it.
Interrupt ==
    /\ c.at \in {"send", "read"}
    /\ ClientCloses
    /\ UNCHANGED <<s, held, g_stop, stored, local, handed, verdict>>

-----------------------------------------------------------------------------
(* dispatch_one and its handlers                                            *)

\* Before the header is whole the operation is not known.
Reading(n) == s.at = "read" /\ s.n = n
Wants == s.at = "read" /\ (s.n < HeaderLen \/ s.n < RequestLen(s.op))

ServerCloses ==
    /\ s' = [s EXCEPT !.at = "closed", !.n = 0]
    /\ IF held THEN UNCHANGED <<c2s, s2c>> ELSE Reset(c2s, s2c)

\* Mutant: the upload goes to a file that is not truncated.
ServerReads_NoTrunc ==
    LET u == Head(c2s) IN
    /\ Wants
    /\ c2s # <<>>
    /\ c2s' = Tail(c2s)
    /\ s' = [s EXCEPT !.n = @ + 1, !.op = IF s.n < HeaderLen THEN u.op ELSE @]
    /\ stored' = IF s.n < Body THEN stored ELSE Append(stored, u.at - Body)
    /\ UNCHANGED <<c, s2c, held, g_stop, local, ghosts>>

\* proto_read_full; proto_recv_file also writes what it read.
ServerReads ==
    LET u == Head(c2s) IN
    /\ Wants
    /\ c2s # <<>>
    /\ c2s' = Tail(c2s)
    /\ s' = [s EXCEPT !.n = @ + 1, !.op = IF s.n < HeaderLen THEN u.op ELSE @]
    /\ stored' = IF s.n < Body THEN <<>> ELSE Append(stored, u.at - Body)
    /\ UNCHANGED <<c, s2c, held, g_stop, local, ghosts>>

Answer(ok, leave) ==
    /\ s' = [s EXCEPT !.at = "reply", !.n = 0, !.ok = ok, !.leave = leave]
    /\ verdict' = Word(ok)

\* Mutants: the session goes on after the reply; a failing write is not noticed.
StoreFails_KeepSession ==
    /\ s.at = "read" /\ s.op = "upload" /\ s.n \in Body..(RequestLen("upload") - 1)
    /\ \/ s.n = Body /\ UNCHANGED c2s
       \/ c2s # <<>> /\ c2s' = Tail(c2s)
    /\ Answer(FALSE, FALSE)
    /\ UNCHANGED <<c, s2c, held, g_stop, stored, local, handed, known>>
StoreFails_Unnoticed ==
    /\ s.at = "read" /\ s.op = "upload" /\ s.n \in Body..(RequestLen("upload") - 1)
    /\ c2s # <<>> /\ c2s' = Tail(c2s)
    /\ s' = [s EXCEPT !.n = @ + 1]
    /\ UNCHANGED <<c, s2c, held, g_stop, stored, local, ghosts>>

\* The file cannot be opened (it is not read then), or a write fails.
StoreFails ==
    /\ s.at = "read" /\ s.op = "upload" /\ s.n \in Body..(RequestLen("upload") - 1)
    /\ \/ s.n = Body /\ UNCHANGED c2s
       \/ c2s # <<>> /\ c2s' = Tail(c2s)
    /\ Answer(FALSE, TRUE)
    /\ UNCHANGED <<c, s2c, held, g_stop, stored, local, handed, known>>

\* Mutant: a refused download is not answered.
Handle_Silent ==
    /\ s.at = "read" /\ s.n >= HeaderLen /\ s.n = RequestLen(s.op)
    /\ \/ \E ok \in (IF s.op = "submit" THEN BOOLEAN ELSE {TRUE}) : Answer(ok, FALSE)
       \/ s.op = "download" /\ s' = [s EXCEPT !.n = 0] /\ UNCHANGED verdict
    /\ UNCHANGED <<c, c2s, s2c, held, g_stop, stored, local, handed, known>>

\* The request is whole: the handler does its work. A submit finds the table full or
\* cannot fork, a query names no job, a download is refused or has no file.
Handle ==
    /\ s.at = "read" /\ s.n >= HeaderLen /\ s.n = RequestLen(s.op)
    /\ \E ok \in (IF s.op \in {"submit", "download"} THEN BOOLEAN ELSE {TRUE}) :
           Answer(ok, FALSE)
    /\ held' \in (IF s.op = "submit" THEN {held, TRUE} ELSE {held})
    /\ UNCHANGED <<c, c2s, s2c, g_stop, stored, local, handed, known>>

\* Mutant: what was read before the end of the stream is taken for the whole message.
EndOfStream_Whole ==
    /\ Wants
    /\ c2s = <<>> /\ c.at = "closed"
    /\ IF s.n < HeaderLen THEN ServerCloses
       ELSE s' = [s EXCEPT !.n = RequestLen(s.op)] /\ UNCHANGED <<c2s, s2c>>
    /\ UNCHANGED <<c, held, g_stop, stored, local, ghosts>>

\* The client has closed: recv returns 0 or fails, in the middle of a message or
\* between two.
EndOfStream ==
    /\ Wants
    /\ c2s = <<>> /\ c.at = "closed"
    /\ ServerCloses
    /\ UNCHANGED <<c, held, g_stop, stored, local, ghosts>>

ServerSends ==
    /\ s.at = "reply" /\ s.n < ReplyLen(s.op, s.ok)
    /\ IF c.at = "closed" THEN UNCHANGED s2c
       ELSE /\ Len(s2c) < Cap
            /\ s2c' = Append(s2c, Unit(s.op, s.n + 1, s.ok))
    /\ s' = [s EXCEPT !.n = @ + 1]
    /\ UNCHANGED <<c, c2s, held, g_stop, stored, local, ghosts>>

\* handle_shutdown sets the flag after its reply, whatever became of the reply.
Stops == g_stop' = (g_stop \/ s.op = "shutdown")

\* The handler returns 0, or -1 after an upload that failed.
Replied ==
    /\ s.at = "reply" /\ s.n = ReplyLen(s.op, s.ok)
    /\ IF s.leave THEN ServerCloses
       ELSE /\ s' = [s EXCEPT !.at = "read", !.n = 0]
            /\ UNCHANGED <<c2s, s2c>>
    /\ Stops
    /\ UNCHANGED <<c, held, stored, local, ghosts>>

\* The client has closed (SIGPIPE is ignored), or the file is shorter than fstat said.
ReplyFails ==
    /\ s.at = "reply" /\ s.n < ReplyLen(s.op, s.ok)
    /\ \/ c.at = "closed"
       \/ s.op = "download" /\ s.n >= Body
    /\ ServerCloses
    /\ Stops
    /\ UNCHANGED <<c, held, stored, local, ghosts>>

OnSignal ==
    /\ s.at # "closed"
    /\ g_stop' = TRUE
    /\ UNCHANGED <<c, s, c2s, s2c, held, stored, local, ghosts>>

\* The process is killed, in the middle of whatever it does.
Kill ==
    /\ s.at # "closed"
    /\ g_stop' = TRUE
    /\ ServerCloses
    /\ UNCHANGED <<c, held, stored, local, ghosts>>

\* The loop ends between two requests and closes every session.
Stop ==
    /\ g_stop
    /\ Reading(0)
    /\ ServerCloses
    /\ UNCHANGED <<c, held, g_stop, stored, local, ghosts>>

-----------------------------------------------------------------------------
(* The workers: no descriptor of the server is closed between fork and execv *)

\* Another session submits a job.
Fork ==
    /\ Reading(0)
    /\ held' = TRUE
    /\ UNCHANGED <<c, s, c2s, s2c, g_stop, stored, local, ghosts>>

\* The last worker that has the socket ends, maybe after the server.
WorkersEnd ==
    /\ held
    /\ held' = FALSE
    /\ IF s.at = "closed" THEN Reset(c2s, s2c) ELSE UNCHANGED <<c2s, s2c>>
    /\ UNCHANGED <<c, s, g_stop, stored, local, ghosts>>

-----------------------------------------------------------------------------
Client == ClientSends \/ Sent \/ SendFails \/ ClientReads \/ Learn \/ ReadFails

Server == ServerReads \/ StoreFails \/ Handle \/ EndOfStream \/ ServerSends \/ Replied
          \/ ReplyFails \/ Stop

Terminated == c.at = "closed" /\ Ended /\ UNCHANGED vars

Next == \/ (\E op \in Ops : Ask(op)) \/ Leave \/ Interrupt
        \/ Client \/ Server \/ OnSignal \/ Kill \/ Fork \/ WorkersEnd \/ Terminated

\* Both programs run on once they began something, and workers end; nobody must ask
\* for anything.
Spec == Init /\ [][Next]_vars /\ WF_vars(Client) /\ WF_vars(Server) /\ WF_vars(WorkersEnd)

-----------------------------------------------------------------------------
(* Properties                                                               *)

\* The values the variables can have; no file gets more than was announced.
TypeOK ==
    /\ c \in [at : {"think", "send", "read", "closed"}, op : Ops \cup {NoOp},
              n : 0..(HeaderLen + BodyLen + TableLen + FileLen), ok : BOOLEAN]
    /\ s \in [at : {"read", "reply", "closed"}, op : Ops \cup {NoOp},
              n : 0..(HeaderLen + BodyLen + TableLen + FileLen), ok : BOOLEAN,
              leave : BOOLEAN]
    /\ c2s \in Seq(Units) /\ Len(c2s) <= Cap
    /\ s2c \in Seq(Units) /\ Len(s2c) <= Cap
    /\ held \in BOOLEAN /\ g_stop \in BOOLEAN
    /\ stored \in Seq(1..FileLen) /\ Len(stored) <= FileLen
    /\ local \in Seq(1..FileLen) /\ Len(local) <= FileLen
    /\ handed \in BOOLEAN
    /\ verdict \in {"pending", "ok", "refused"}
    /\ known \in {"pending", "ok", "refused", "unknown"}

\* Neither end ever takes a byte for something else than it was sent as: what arrives
\* next is the unit the reader expects, of the operation it expects, after refusals,
\* failed uploads and cut files too. An upload that fails half way must end the
\* session, or its remaining bytes would be read as the next header.
InStep ==
    /\ Wants /\ c2s # <<>> =>
           /\ Head(c2s).at = s.n + 1
           /\ s.n >= HeaderLen => Head(c2s).op = s.op
    /\ c.at = "read" /\ s2c # <<>> =>
           /\ c.n < ReplyLen(c.op, c.ok)
           /\ Head(s2c).at = c.n + 1
           /\ Head(s2c).op = c.op
    /\ c.at = "think" => s2c = <<>>

\* An upload the client knows to be stored, and a download it knows to have, is the
\* whole file, in order.
WholeFile == [i \in 1..FileLen |-> i]
TransferWhole ==
    known = "ok" => /\ c.op = "upload" => stored = WholeFile
                    /\ c.op = "download" => local = WholeFile

\* Whatever fails on either side, the server's process included, a client that asked
\* for something is told, or finds the connection closed: it does not wait for ever,
\* provided workers end.
EveryOpEnds == c.at \in {"send", "read"} ~> c.at \in {"think", "closed"}

\* The session implements the abstract one: no operation is executed on a part of its
\* request, none twice, and no client takes another verdict for its own.
RR == INSTANCE RequestReply WITH asked <- c.op
ImplementsRequestReply == RR!Spec
=============================================================================
