--------------------------- MODULE RestShimProofs ---------------------------
(***************************************************************************)
(* Theorems about RestShim: an acknowledged upload is stored whole,        *)
(* however it is cut into reads, and a client that gets through has what   *)
(* was made of its own file, unless names clash or a request line is cut,  *)
(* for any number of clients and any sizes.                                *)
(***************************************************************************)
EXTENDS RestShim, TLAPS

USE RestShimAssumptions

Working == {"upload", "run", "download"}

\* What waits for accept is queued, and waits once.
QueueShape ==
    /\ \A i \in 1..Len(queue) : conn[queue[i]] = "queued"
    /\ \A i, j \in 1..Len(queue) : queue[i] = queue[j] => i = j

\* A closed connection holds nothing; an open one belongs to a client that has still
\* something to do, and no more than a request is in it.
ConnShape ==
    \A c \in Clients :
        /\ conn[c] = "off" => sent[c] = 0 /\ unsent[c] = 0 /\ ~gone[c]
        /\ conn[c] # "off" => stage[c] \in Working
        /\ sent[c] + unsent[c] <= Header + BodyLen + Extra

\* The locals of handle_client exist while it runs, and each handler runs for a client
\* that asked for it.
CurShape ==
    /\ pc \in {"accept", "dead"} => cur = None
    /\ pc \notin {"accept", "dead"} => cur \in Clients /\ conn[cur] = "open"
    /\ pc = "body" => stage[cur] = "upload"
    /\ pc = "ffmpeg" => stage[cur] = "run" /\ infile \in Names /\ outfile \in Names
    /\ pc = "file" => stage[cur] = "download" /\ outfile \in Names
    /\ pc # "reply" => verdict = "none"
    /\ pc = "reply" /\ verdict = "ok" /\ stage[cur] = "download" => outfile \in Names

\* In run_upload, what is stored and what is still expected make the body, unless a
\* write stored less than it was given; more than the body came with the header.
BodyShape ==
    pc = "body" =>
        /\ incoming[File].of = cur
        /\ incoming[File].nr <= BodyLen - left
        /\ cur \notin cut => incoming[File].nr = BodyLen - left
        /\ left < 0 => BodyLen - left <= BufLen - Header

RestInv == TypeOK /\ QueueShape /\ ConnShape /\ CurShape /\ BodyShape /\ StoredIsWhole

-----------------------------------------------------------------------------
LEMMA Numbers ==
    BodyLen \in Nat /\ Extra \in Nat /\ BufLen \in Nat /\ BufLen >= 2 /\ Header = 2
BY DEF Header

LEMMA RestInit == Init => RestInv
<1> SUFFICES ASSUME Init PROVE RestInv
    OBVIOUS
<1>1. TypeOK
    <2>1. Absent \in Piece
        BY Numbers DEF Absent, Piece
    <2>2. <<>> \in Seq(Clients) /\ 0 \in 0..(Header + BodyLen + Extra) /\ 0 \in (-Extra)..BodyLen
        BY Numbers
    <2> QED
        BY <2>1, <2>2 DEF Init, TypeOK, Stages
<1>2. QueueShape
    BY DEF Init, QueueShape
<1>3. ConnShape
    <2>1. \A c \in Clients : conn[c] = "off" /\ sent[c] = 0 /\ unsent[c] = 0
        BY DEF Init
    <2>2. \A c \in Clients : gone[c] = FALSE
        BY DEF Init
    <2>3. 0 + 0 <= Header + BodyLen + Extra
        BY Numbers
    <2> QED
        BY <2>1, <2>2, <2>3 DEF ConnShape
<1>4. CurShape /\ BodyShape /\ StoredIsWhole
    BY DEF Init, CurShape, BodyShape, StoredIsWhole
<1> QED
    BY <1>1, <1>2, <1>3, <1>4 DEF RestInv

\* Steps of clients, that do not concern what is handled.
LEMMA HandledKept ==
    ASSUME RestInv, UNCHANGED <<name, stage, diskVars, taskVars, cur, left, verdict, pc>>,
           \A c \in Clients : conn[c] = "open" => conn'[c] = "open"
    PROVE  CurShape' /\ BodyShape' /\ StoredIsWhole'
<1>1. CurShape'
    BY DEF RestInv, CurShape, taskVars
<1>2. BodyShape'
    BY DEF RestInv, BodyShape, File, diskVars
<1>3. StoredIsWhole'
    BY DEF RestInv, StoredIsWhole, File, diskVars
<1> QED
    BY <1>1, <1>2, <1>3

LEMMA ConnectStep == ASSUME RestInv, NEW c \in Clients, Connect(c) PROVE RestInv'
<1>1. /\ stage[c] \in Working /\ conn[c] = "off"
      /\ conn' = [conn EXCEPT ![c] = "queued"]
      /\ queue' = Append(queue, c)
      /\ UNCHANGED <<clientVars, sent, gone, diskVars, taskVars, cur, left, verdict, pc>>
    BY DEF Connect, Working
<1>0. PICK n \in RequestLens(c) : unsent' = [unsent EXCEPT ![c] = n]
    BY DEF Connect
<1>2. TypeOK /\ QueueShape /\ ConnShape
    BY DEF RestInv
<1>3. n \in 0..(Header + BodyLen + Extra)
    BY <1>0, Numbers DEF RequestLens
<1>4. queue \in Seq(Clients) /\ Len(queue) \in Nat
    BY <1>2 DEF TypeOK
<1>5. /\ queue' \in Seq(Clients) /\ Len(queue') = Len(queue) + 1
      /\ queue'[Len(queue) + 1] = c
      /\ \A i \in 1..Len(queue) : queue'[i] = queue[i]
    BY <1>1, <1>4
<1>6. conn'[c] = "queued" /\ \A d \in Clients : d # c => conn'[d] = conn[d]
    BY <1>1, <1>2 DEF TypeOK
<1>7. TypeOK'
    BY <1>0, <1>1, <1>2, <1>3, <1>5 DEF TypeOK, clientVars, diskVars, taskVars
<1>8. QueueShape'
    <2>1. \A i \in 1..Len(queue) : queue[i] \in Clients /\ conn[queue[i]] = "queued" /\ queue[i] # c
        BY <1>1, <1>2, <1>4 DEF QueueShape
    <2>2. \A i \in 1..Len(queue') : \/ i = Len(queue) + 1 /\ queue'[i] = c
                                    \/ i \in 1..Len(queue) /\ queue'[i] = queue[i]
        BY <1>4, <1>5
    <2>3. \A i \in 1..Len(queue') : conn'[queue'[i]] = "queued"
        BY <1>6, <2>1, <2>2
    <2>4. ASSUME NEW i \in 1..Len(queue'), NEW j \in 1..Len(queue'), queue'[i] = queue'[j]
          PROVE  i = j
        BY <1>2, <2>1, <2>2, <2>4 DEF QueueShape
    <2> QED
        BY <2>3, <2>4 DEF QueueShape
<1>9. ConnShape'
    <2>1. /\ unsent'[c] = n /\ sent'[c] = 0
          /\ \A d \in Clients : d # c => unsent'[d] = unsent[d]
        BY <1>0, <1>1, <1>2 DEF TypeOK, ConnShape
    <2> QED
        BY <1>1, <1>2, <1>3, <1>6, <2>1, Numbers DEF ConnShape, clientVars
<1>10. CurShape' /\ BodyShape' /\ StoredIsWhole'
    BY <1>1, <1>6, HandledKept DEF clientVars
<1> QED
    BY <1>7, <1>8, <1>9, <1>10 DEF RestInv

LEMMA SendStep == ASSUME RestInv, NEW c \in Clients, Send(c) PROVE RestInv'
<1>1. /\ conn[c] # "off"
      /\ UNCHANGED <<clientVars, gone, diskVars, taskVars, conn, queue, cur, left, verdict, pc>>
    BY DEF Send
<1>2. PICK n \in 1..unsent[c] : /\ sent' = [sent EXCEPT ![c] = sent[c] + n]
                                /\ unsent' = [unsent EXCEPT ![c] = unsent[c] - n]
    BY DEF Send
<1>3. TypeOK /\ QueueShape /\ ConnShape
    BY DEF RestInv
<1>4. /\ sent[c] \in 0..(Header + BodyLen + Extra) /\ unsent[c] \in 0..(Header + BodyLen + Extra)
      /\ sent[c] + unsent[c] <= Header + BodyLen + Extra
    BY <1>3 DEF TypeOK, ConnShape
<1>5. /\ sent[c] + n \in 0..(Header + BodyLen + Extra) /\ unsent[c] - n \in 0..(Header + BodyLen + Extra)
      /\ (sent[c] + n) + (unsent[c] - n) = sent[c] + unsent[c]
    BY <1>4, Numbers
<1>6. TypeOK'
    BY <1>1, <1>2, <1>3, <1>5 DEF TypeOK, clientVars, diskVars, taskVars
<1>7. /\ sent'[c] + unsent'[c] = sent[c] + unsent[c]
      /\ \A d \in Clients : d # c => sent'[d] = sent[d] /\ unsent'[d] = unsent[d]
    BY <1>2, <1>3, <1>5 DEF TypeOK
<1>8. ConnShape'
    BY <1>1, <1>3, <1>7 DEF ConnShape, clientVars
<1>9. QueueShape'
    BY <1>1, <1>3 DEF QueueShape
<1>10. CurShape' /\ BodyShape' /\ StoredIsWhole'
    BY <1>1, HandledKept DEF clientVars
<1> QED
    BY <1>6, <1>8, <1>9, <1>10 DEF RestInv

LEMMA HangupStep == ASSUME RestInv, NEW c \in Clients, Hangup(c) PROVE RestInv'
<1>1. /\ conn[c] # "off" /\ gone' = [gone EXCEPT ![c] = TRUE]
      /\ unsent' = [unsent EXCEPT ![c] = 0]
      /\ UNCHANGED <<clientVars, sent, diskVars, taskVars, conn, queue, cur, left, verdict, pc>>
    BY DEF Hangup
<1>2. TypeOK'
    BY <1>1, Numbers DEF RestInv, TypeOK, clientVars, diskVars, taskVars
<1>3. ConnShape'
    <2>1. ASSUME NEW d \in Clients
          PROVE  /\ unsent'[d] \in Nat /\ unsent'[d] <= unsent[d]
                 /\ sent[d] + unsent'[d] <= sent[d] + unsent[d]
                 /\ gone'[d] = gone[d] \/ d = c
        <3>1. /\ sent[d] \in Nat /\ unsent[d] \in Nat /\ unsent \in [Clients -> Nat]
              /\ gone \in [Clients -> BOOLEAN]
            BY DEF RestInv, TypeOK
        <3>2. /\ unsent'[d] = IF d = c THEN 0 ELSE unsent[d]
              /\ gone'[d] = gone[d] \/ d = c
            BY <1>1, <3>1
        <3> QED
            BY <3>1, <3>2
    <2>2. \A d \in Clients : sent[d] + unsent'[d] <= Header + BodyLen + Extra
        <3> TAKE d \in Clients
        <3>1. sent[d] \in Nat /\ unsent[d] \in Nat /\ unsent'[d] \in Nat
            BY <2>1 DEF RestInv, TypeOK
        <3> QED
            BY <2>1, <3>1, Numbers DEF RestInv, ConnShape
    <2>3. \A d \in Clients : conn[d] = "off" => unsent'[d] = 0 /\ ~gone'[d]
        <3> TAKE d \in Clients
        <3>1. conn[d] = "off" => unsent[d] = 0 /\ d # c /\ ~gone[d]
            BY <1>1 DEF RestInv, ConnShape
        <3> QED
            BY <2>1, <3>1
    <2> QED
        BY <1>1, <2>2, <2>3 DEF RestInv, ConnShape, clientVars
<1>4. QueueShape'
    BY <1>1 DEF RestInv, QueueShape
<1>5. CurShape' /\ BodyShape' /\ StoredIsWhole'
    BY <1>1, HandledKept DEF clientVars
<1> QED
    BY <1>2, <1>3, <1>4, <1>5 DEF RestInv

-----------------------------------------------------------------------------
(* The loop: accept, and the ends of a connection                           *)

LEMMA AcceptStep == ASSUME RestInv, Accept PROVE RestInv'
<1>1. /\ pc = "accept" /\ queue # <<>>
      /\ cur' = Head(queue) /\ queue' = Tail(queue)
      /\ conn' = [conn EXCEPT ![Head(queue)] = "open"]
      /\ pc' = "request"
      /\ UNCHANGED <<clientVars, wireVars, diskVars, taskVars, left, verdict>>
    BY DEF Accept
<1>2. TypeOK /\ QueueShape /\ ConnShape /\ CurShape
    BY DEF RestInv
<1>3. queue \in Seq(Clients) /\ Len(queue) \in Nat /\ Len(queue) >= 1
    BY <1>1, <1>2 DEF TypeOK
<1>4. /\ Head(queue) = queue[1] /\ Head(queue) \in Clients
      /\ queue' \in Seq(Clients) /\ Len(queue') = Len(queue) - 1
      /\ \A i \in 1..Len(queue') : queue'[i] = queue[i + 1] /\ i + 1 \in 1..Len(queue)
    BY <1>1, <1>3
<1>5. conn[Head(queue)] = "queued"
    BY <1>2, <1>3, <1>4 DEF QueueShape
<1>6. conn'[Head(queue)] = "open" /\ \A d \in Clients : d # Head(queue) => conn'[d] = conn[d]
    BY <1>1, <1>2, <1>4 DEF TypeOK
<1>7. TypeOK'
    BY <1>1, <1>2, <1>4 DEF TypeOK, clientVars, wireVars, diskVars, taskVars
<1>8. QueueShape'
    <2>1. \A i \in 1..Len(queue') : /\ queue'[i] \in Clients /\ queue'[i] # Head(queue)
                                    /\ conn[queue'[i]] = "queued"
        <3> TAKE i \in 1..Len(queue')
        <3>1. /\ i + 1 \in 1..Len(queue) /\ 1 \in 1..Len(queue) /\ i + 1 # 1
              /\ queue'[i] = queue[i + 1]
            BY <1>3, <1>4
        <3> QED
            BY <1>2, <1>3, <1>4, <3>1 DEF QueueShape
    <2>2. ASSUME NEW i \in 1..Len(queue'), NEW j \in 1..Len(queue'), queue'[i] = queue'[j]
          PROVE  i = j
        <3>1. i + 1 = j + 1
            BY <1>2, <1>4, <2>2 DEF QueueShape
        <3> QED
            BY <1>3, <1>4, <3>1
    <2> QED
        BY <1>6, <2>1, <2>2 DEF QueueShape
<1>9. ConnShape'
    BY <1>1, <1>2, <1>5, <1>6 DEF ConnShape, clientVars, wireVars
<1>10. CurShape'
    BY <1>1, <1>2, <1>4, <1>6 DEF CurShape
<1>11. BodyShape' /\ StoredIsWhole'
    BY <1>1 DEF BodyShape, StoredIsWhole
<1> QED
    BY <1>7, <1>8, <1>9, <1>10, <1>11 DEF RestInv

LEMMA DieStep == ASSUME RestInv, Die PROVE RestInv'
<1>1. /\ pc' = "dead" /\ conn' = [c \in Clients |-> "off"]
      /\ stage' = [c \in Clients |-> IF conn[c] # "off" THEN "failed" ELSE stage[c]]
      /\ sent' = [c \in Clients |-> 0] /\ unsent' = [c \in Clients |-> 0]
      /\ gone' = [c \in Clients |-> FALSE] /\ queue' = <<>>
      /\ cur' = None /\ left' = 0 /\ verdict' = "none"
      /\ infile' = None /\ outfile' = None
      /\ UNCHANGED <<name, got, diskVars, misread>>
    BY DEF Die
<1>2. TypeOK
    BY DEF RestInv
<1>3. TypeOK'
    <2>1. stage' \in [Clients -> Stages]
        BY <1>1, <1>2 DEF TypeOK, Stages
    <2>2. <<>> \in Seq(Clients) /\ 0 \in 0..(Header + BodyLen + Extra) /\ 0 \in (-Extra)..BodyLen
        BY Numbers
    <2> QED
        BY <1>1, <1>2, <2>1, <2>2 DEF TypeOK, diskVars
<1>4. QueueShape' /\ CurShape' /\ BodyShape' /\ StoredIsWhole'
    BY <1>1 DEF QueueShape, CurShape, BodyShape, StoredIsWhole
<1>5. ConnShape'
    BY <1>1, Numbers DEF ConnShape
<1> QED
    BY <1>3, <1>4, <1>5 DEF RestInv

\* The connection that is handled is closed, and its client is anywhere after.
LEMMA CloseStep ==
    ASSUME RestInv, pc \in {"request", "reply"}, Close, pc' = "accept",
           NEW next \in Stages, stage' = [stage EXCEPT ![cur] = next],
           got' \in [Clients -> Piece], UNCHANGED <<name, diskVars, misread, queue>>
    PROVE  RestInv'
<1>1. /\ conn' = [conn EXCEPT ![cur] = "off"] /\ sent' = [sent EXCEPT ![cur] = 0]
      /\ unsent' = [unsent EXCEPT ![cur] = 0] /\ gone' = [gone EXCEPT ![cur] = FALSE]
      /\ cur' = None /\ left' = 0 /\ verdict' = "none"
      /\ infile' = None /\ outfile' = None
    BY DEF Close
<1>2. TypeOK /\ QueueShape /\ ConnShape /\ cur \in Clients /\ conn[cur] = "open"
    BY DEF RestInv, CurShape
<1>3. TypeOK'
    BY <1>1, <1>2, Numbers DEF TypeOK, diskVars
<1>4. /\ conn'[cur] = "off" /\ sent'[cur] = 0 /\ unsent'[cur] = 0 /\ ~gone'[cur]
      /\ \A d \in Clients : d # cur => /\ conn'[d] = conn[d] /\ sent'[d] = sent[d]
                                       /\ unsent'[d] = unsent[d] /\ gone'[d] = gone[d]
                                       /\ stage'[d] = stage[d]
    BY <1>1, <1>2 DEF TypeOK
<1>5. QueueShape'
    <2>1. \A i \in 1..Len(queue) : queue[i] \in Clients /\ queue[i] # cur
        BY <1>2 DEF QueueShape, TypeOK
    <2> QED
        BY <1>2, <1>4, <2>1 DEF QueueShape
<1>6. ConnShape'
    BY <1>2, <1>4, Numbers DEF ConnShape
<1>7. CurShape' /\ BodyShape' /\ StoredIsWhole'
    BY <1>1 DEF CurShape, BodyShape, StoredIsWhole
<1> QED
    BY <1>3, <1>5, <1>6, <1>7 DEF RestInv

LEMMA NoRequestStep == ASSUME RestInv, NoRequest PROVE RestInv'
<1>1. /\ pc = "request" /\ Close /\ pc' = "accept"
      /\ stage' = [stage EXCEPT ![cur] = "failed"] /\ "failed" \in Stages
      /\ UNCHANGED <<name, got, diskVars, misread, queue>>
    BY DEF NoRequest, Stages
<1> QED
    BY <1>1, CloseStep DEF RestInv, TypeOK

LEMMA ReplyStep == ASSUME RestInv, Reply PROVE RestInv'
<1>1. pc = "reply" /\ Close /\ pc' = "accept" /\ UNCHANGED <<name, diskVars, misread, queue>>
    BY DEF Reply
<1>2. /\ cur \in Clients /\ stage[cur] \in Working /\ TypeOK
      /\ verdict = "ok" /\ stage[cur] = "download" => outfile \in Names
    <2>1. /\ cur \in Clients /\ conn[cur] = "open"
          /\ verdict = "ok" /\ stage[cur] = "download" => outfile \in Names
        BY <1>1 DEF RestInv, CurShape
    <2> QED
        BY <2>1 DEF RestInv, ConnShape
<1>3. PICK next \in Stages : stage' = [stage EXCEPT ![cur] = next]
    <2>1. NextStage(cur) \in Stages /\ "failed" \in Stages
        BY <1>2 DEF NextStage, Working, Stages
    <2> QED
        BY <2>1 DEF Reply
<1>4. got' \in [Clients -> Piece]
    BY <1>2, ZenonT(40) DEF Reply, TypeOK
<1> QED
    BY <1>1, <1>3, <1>4, CloseStep

-----------------------------------------------------------------------------
(* The handlers                                                             *)

\* Steps of a handler that leave the connections alone: what is to be shown is about
\* the handler itself.
LEMMA InHandler ==
    ASSUME RestInv, pc \notin {"accept", "dead"},
           UNCHANGED <<name, stage, got, unsent, gone, conn, queue, cur>>,
           sent' = sent \/ (\E n \in 1..sent[cur] : sent' = [sent EXCEPT ![cur] = sent[cur] - n])
    PROVE  /\ sent' \in [Clients -> 0..(Header + BodyLen + Extra)]
           /\ QueueShape' /\ ConnShape' /\ cur \in Clients /\ conn[cur] = "open"
           /\ File \in Names
<1>1. TypeOK /\ QueueShape /\ ConnShape /\ cur \in Clients /\ conn[cur] = "open"
    BY DEF RestInv, CurShape
<1>2. \A c \in Clients : sent[c] \in Nat /\ unsent[c] \in Nat
    BY <1>1 DEF TypeOK
<1>3. /\ \A c \in Clients : sent'[c] \in Nat /\ sent'[c] <= sent[c]
      /\ sent' \in [Clients -> 0..(Header + BodyLen + Extra)]
    <2>1. CASE sent' = sent
        BY <1>1, <1>2, <2>1 DEF TypeOK
    <2>2. ASSUME NEW n \in 1..sent[cur], sent' = [sent EXCEPT ![cur] = sent[cur] - n]
          PROVE  /\ \A c \in Clients : sent'[c] \in Nat /\ sent'[c] <= sent[c]
                 /\ sent' \in [Clients -> 0..(Header + BodyLen + Extra)]
        <3>1. sent[cur] - n \in 0..(Header + BodyLen + Extra) /\ sent[cur] - n <= sent[cur]
            BY <1>1, Numbers DEF TypeOK
        <3> QED
            BY <1>1, <1>2, <2>2, <3>1 DEF TypeOK
    <2> QED
        BY <2>1, <2>2
<1>4. ConnShape'
    <2>1. ASSUME NEW c \in Clients
          PROVE  /\ conn[c] = "off" => sent'[c] = 0
                 /\ sent'[c] + unsent[c] <= Header + BodyLen + Extra
        BY <1>1, <1>2, <1>3, Numbers DEF ConnShape
    <2> QED
        BY <1>1, <2>1 DEF ConnShape
<1>5. QueueShape'
    BY <1>1 DEF QueueShape
<1>6. File \in Names
    <2>1. name \in [Clients -> Names]
        BY <1>1, Numbers DEF TypeOK
    <2> QED
        BY <1>1, <2>1 DEF File
<1> QED
    BY <1>1, <1>3, <1>4, <1>5, <1>6

\* The request is answered 400: nothing is left to show but types.
LEMMA RefusalStep ==
    ASSUME RestInv, pc \notin {"accept", "dead"}, Answer("error"),
           UNCHANGED <<name, stage, got, unsent, gone, conn, queue, cur, left, cut, taskVars>>,
           incoming' \in [Names -> Piece], outputs' \in [Names -> Piece],
           sent' = sent \/ (\E n \in 1..sent[cur] : sent' = [sent EXCEPT ![cur] = sent[cur] - n])
    PROVE  RestInv'
<1>1. /\ sent' \in [Clients -> 0..(Header + BodyLen + Extra)]
      /\ QueueShape' /\ ConnShape' /\ cur \in Clients /\ conn[cur] = "open"
    BY InHandler
<1>2. pc' = "reply" /\ verdict' = "error"
    BY DEF Answer
<1>3. TypeOK'
    BY <1>1, <1>2 DEF RestInv, TypeOK, taskVars
<1>4. CurShape' /\ BodyShape' /\ StoredIsWhole'
    BY <1>1, <1>2 DEF CurShape, BodyShape, StoredIsWhole
<1> QED
    BY <1>1, <1>3, <1>4 DEF RestInv

\* What a request of which the first line was read, or a part of it, is taken for.
LEMMA UnderstoodFacts ==
    ASSUME TypeOK, File \in Names, NEW n, Understood(n)
    PROVE  /\ infile' \in Names /\ outfile' \in Names
           /\ misread \subseteq misread' /\ misread' \subseteq Names
           /\ \/ infile' = File /\ outfile' = File
              \/ File \in misread' /\ outfile' \in misread'
<1>1. CASE infile' = File /\ outfile' = File /\ UNCHANGED misread
    BY <1>1 DEF TypeOK
<1>2. CASE /\ infile' \in IF stage[cur] = "run" THEN Names ELSE {File}
           /\ outfile' \in Names /\ misread' = misread \cup {File, outfile'}
    BY <1>2 DEF TypeOK
<1> QED
    BY <1>1, <1>2 DEF Understood

\* What the read of the request comes to, by the stage of its client.
LEMMA RequestOutcome ==
    ASSUME RestInv, ReadRequest
    PROVE
      LET n == Least(sent[cur], BufLen) IN
      \/ Answer("error") /\ UNCHANGED <<incoming, cut, left, taskVars>>
      \/ /\ stage[cur] = "upload"
         /\ incoming' = [incoming EXCEPT ![File] = [of |-> cur, nr |-> 0]]
         /\ Answer("error") /\ UNCHANGED <<cut, left, taskVars>>
      \/ /\ stage[cur] = "run" /\ pc' = "ffmpeg" /\ Understood(n)
         /\ UNCHANGED <<incoming, cut, left, verdict>>
      \/ /\ stage[cur] = "download" /\ pc' = "file" /\ Understood(n)
         /\ UNCHANGED <<incoming, cut, left, verdict>>
      \/ /\ stage[cur] = "upload" /\ n >= Header
         /\ \E m \in 0..(n - Header) :
                /\ Write(n - Header, m)
                /\ incoming' = [incoming EXCEPT ![File] = [of |-> cur, nr |-> m]]
         /\ left' = BodyLeft(n) /\ pc' = "body" /\ UNCHANGED <<verdict, taskVars>>
<1> DEFINE n == Least(sent[cur], BufLen)
<1>1. CASE stage[cur] = "upload"
    BY <1>1 DEF ReadRequest, BeginUpload
<1>2. CASE stage[cur] = "run"
    BY <1>2 DEF ReadRequest
<1>3. CASE stage[cur] = "download"
    BY <1>3 DEF ReadRequest
<1> QED
    BY <1>1, <1>2, <1>3 DEF ReadRequest

LEMMA ReadRequestStep == ASSUME RestInv, ReadRequest PROVE RestInv'
<1> DEFINE n == Least(sent[cur], BufLen)
<1>1. /\ pc = "request" /\ n > 0 /\ sent' = [sent EXCEPT ![cur] = sent[cur] - n]
      /\ UNCHANGED <<name, stage, got, unsent, gone, outputs, conn, queue, cur>>
    BY DEF ReadRequest, clientVars
<1>2. TypeOK /\ cur \in Clients /\ stage[cur] \in Working /\ verdict = "none"
    <2>1. cur \in Clients /\ conn[cur] = "open" /\ verdict = "none"
        BY <1>1 DEF RestInv, CurShape
    <2> QED
        BY <2>1 DEF RestInv, ConnShape
<1>3. sent[cur] \in 0..(Header + BodyLen + Extra)
    BY <1>2 DEF TypeOK
<1>4. n \in 1..sent[cur] /\ n <= BufLen
    <2>1. sent[cur] \in Nat /\ BufLen \in Nat
        BY <1>3, Numbers
    <2>2. n \in Nat /\ n <= sent[cur] /\ n <= BufLen
        BY <2>1 DEF Least
    <2>3. n > 0
        BY <1>1
    <2> QED
        BY <2>1, <2>2, <2>3
<1>5. \E k \in 1..sent[cur] : sent' = [sent EXCEPT ![cur] = sent[cur] - k]
    BY <1>1, <1>4
<1>6. /\ sent' \in [Clients -> 0..(Header + BodyLen + Extra)]
      /\ QueueShape' /\ ConnShape' /\ conn[cur] = "open" /\ File \in Names
    BY <1>1, <1>5, InHandler
<1>7. ASSUME Answer("error"), UNCHANGED <<cut, left, taskVars>>, incoming' \in [Names -> Piece]
      PROVE  RestInv'
    BY <1>1, <1>2, <1>5, <1>7, RefusalStep DEF TypeOK
<1>8. CASE /\ stage[cur] = "run" /\ pc' = "ffmpeg" /\ Understood(n)
           /\ UNCHANGED <<incoming, cut, left, verdict>>
    <2>1. infile' \in Names /\ outfile' \in Names /\ misread' \subseteq Names
        BY <1>2, <1>6, <1>8, UnderstoodFacts
    <2>2. TypeOK'
        BY <1>1, <1>2, <1>6, <1>8, <2>1 DEF TypeOK
    <2>3. CurShape' /\ BodyShape' /\ StoredIsWhole'
        BY <1>1, <1>2, <1>6, <1>8, <2>1 DEF CurShape, BodyShape, StoredIsWhole
    <2> QED
        BY <1>6, <2>2, <2>3 DEF RestInv
<1>9. CASE /\ stage[cur] = "download" /\ pc' = "file" /\ Understood(n)
           /\ UNCHANGED <<incoming, cut, left, verdict>>
    <2>1. infile' \in Names /\ outfile' \in Names /\ misread' \subseteq Names
        BY <1>2, <1>6, <1>9, UnderstoodFacts
    <2>2. TypeOK'
        BY <1>1, <1>2, <1>6, <1>9, <2>1 DEF TypeOK
    <2>3. CurShape' /\ BodyShape' /\ StoredIsWhole'
        BY <1>1, <1>2, <1>6, <1>9, <2>1 DEF CurShape, BodyShape, StoredIsWhole
    <2> QED
        BY <1>6, <2>2, <2>3 DEF RestInv
<1>10. ASSUME stage[cur] = "upload", n >= Header, NEW m \in 0..(n - Header), Write(n - Header, m),
              incoming' = [incoming EXCEPT ![File] = [of |-> cur, nr |-> m]],
              left' = BodyLeft(n), pc' = "body", UNCHANGED <<verdict, taskVars>>
       PROVE  RestInv'
    <2>0. /\ n \in Nat /\ n - Header \in Nat /\ left' = BodyLen - (n - Header)
          /\ BodyLen \in Nat /\ Extra \in Nat /\ n - Header <= BodyLen + Extra
          /\ n - Header <= BufLen - Header
        BY <1>3, <1>4, <1>10, Numbers DEF BodyLeft
    <2>1. /\ m <= n - Header /\ (m < n - Header \/ m = n - Header)
          /\ cut' = IF m < n - Header THEN cut \cup {cur} ELSE cut
        <3> HIDE DEF n
        <3> QED
            BY <1>10, <2>0 DEF Write
    <2> HIDE DEF n
    <2>2. left' \in (-Extra)..BodyLen /\ BodyLen - left' = n - Header
        BY <2>0
    <2>3. incoming' \in [Names -> Piece] /\ incoming'[File].of = cur /\ incoming'[File].nr = m
        <3>0. m \in 0..(BodyLen + Extra)
            BY <1>10, <2>0
        <3>1. [of |-> cur, nr |-> m] \in Piece
            BY <1>2, <3>0 DEF Piece
        <3> QED
            BY <1>2, <1>6, <1>10, <3>1 DEF TypeOK
    <2>4. cut' \subseteq Clients
        BY <1>2, <2>1 DEF TypeOK
    <2>5. TypeOK'
        BY <1>1, <1>2, <1>6, <1>10, <2>2, <2>3, <2>4 DEF TypeOK, taskVars
    <2>6. CurShape' /\ StoredIsWhole'
        BY <1>1, <1>2, <1>6, <1>10 DEF CurShape, StoredIsWhole
    <2>7. BodyShape'
        <3>1. File' = File
            BY <1>1 DEF File
        <3>2. cur \notin cut' => m = n - Header
            BY <2>1
        <3> QED
            BY <1>1, <2>0, <2>1, <2>2, <2>3, <3>1, <3>2 DEF BodyShape
    <2> QED
        BY <1>6, <2>5, <2>6, <2>7 DEF RestInv
<1>11. /\ incoming \in [Names -> Piece]
       /\ [incoming EXCEPT ![File] = [of |-> cur, nr |-> 0]] \in [Names -> Piece]
    <2>1. [of |-> cur, nr |-> 0] \in Piece
        BY <1>2, Numbers DEF Piece
    <2> QED
        BY <1>2, <1>6, <2>1 DEF TypeOK
<1>12. \/ Answer("error") /\ UNCHANGED <<incoming, cut, left, taskVars>>
       \/ /\ incoming' = [incoming EXCEPT ![File] = [of |-> cur, nr |-> 0]]
          /\ Answer("error") /\ UNCHANGED <<cut, left, taskVars>>
       \/ /\ stage[cur] = "run" /\ pc' = "ffmpeg" /\ Understood(n)
          /\ UNCHANGED <<incoming, cut, left, verdict>>
       \/ /\ stage[cur] = "download" /\ pc' = "file" /\ Understood(n)
          /\ UNCHANGED <<incoming, cut, left, verdict>>
       \/ /\ stage[cur] = "upload" /\ n >= Header
          /\ \E m \in 0..(n - Header) :
                 /\ Write(n - Header, m)
                 /\ incoming' = [incoming EXCEPT ![File] = [of |-> cur, nr |-> m]]
          /\ left' = BodyLeft(n) /\ pc' = "body" /\ UNCHANGED <<verdict, taskVars>>
    BY RequestOutcome
<1>13. CASE Answer("error") /\ UNCHANGED <<incoming, cut, left, taskVars>>
    BY <1>7, <1>11, <1>13
<1>14. CASE /\ incoming' = [incoming EXCEPT ![File] = [of |-> cur, nr |-> 0]]
            /\ Answer("error") /\ UNCHANGED <<cut, left, taskVars>>
    BY <1>7, <1>11, <1>14
<1> QED
    BY <1>8, <1>9, <1>10, <1>12, <1>13, <1>14

\* run_upload: each read makes less of the body expected by what it brought.
LEMMA ReadBodyStep == ASSUME RestInv, ReadBody PROVE RestInv'
<1> DEFINE n == Least(sent[cur], Wanted)
<1>1. /\ pc = "body" /\ left > 0 /\ n > 0 /\ sent' = [sent EXCEPT ![cur] = sent[cur] - n]
      /\ UNCHANGED <<name, stage, got, unsent, gone, outputs, taskVars, conn, queue, cur>>
    BY DEF ReadBody, clientVars
<1>2. /\ TypeOK /\ BodyShape /\ cur \in Clients /\ verdict = "none" /\ stage[cur] = "upload"
      /\ incoming[File].of = cur /\ incoming[File].nr <= BodyLen - left
      /\ cur \notin cut => incoming[File].nr = BodyLen - left
    BY <1>1 DEF RestInv, CurShape, BodyShape
<1>3. sent[cur] \in Nat /\ left \in 1..BodyLen
    BY <1>1, <1>2, Numbers DEF TypeOK
<1>4. n \in 1..sent[cur] /\ n <= left
    <2>1. sent[cur] \in Nat /\ BufLen \in Nat /\ left \in Nat
        BY <1>3, Numbers
    <2>2. n \in Nat /\ n <= sent[cur] /\ n <= left
        BY <2>1 DEF Least, Wanted
    <2>3. n > 0
        BY <1>1
    <2> QED
        BY <2>1, <2>2, <2>3
<1>5. \E k \in 1..sent[cur] : sent' = [sent EXCEPT ![cur] = sent[cur] - k]
    BY <1>1, <1>4
<1>6. /\ sent' \in [Clients -> 0..(Header + BodyLen + Extra)]
      /\ QueueShape' /\ ConnShape' /\ conn[cur] = "open" /\ File \in Names
    BY <1>1, <1>5, InHandler
<1>7. CASE Answer("error") /\ UNCHANGED <<incoming, cut, left>>
    BY <1>1, <1>2, <1>5, <1>7, RefusalStep DEF TypeOK
<1>8. ASSUME NEW m \in 0..n, Write(n, m),
             incoming' = [incoming EXCEPT ![File].nr = @ + m],
             left' = left - n, UNCHANGED <<pc, verdict>>
      PROVE  RestInv'
    <2>0. n \in Nat /\ n <= left /\ BodyLen \in Nat /\ Extra \in Nat
        BY <1>3, <1>4, Numbers
    <2> HIDE DEF n
    <2>1. /\ m <= n /\ (m < n \/ m = n)
          /\ cut' = IF m < n THEN cut \cup {cur} ELSE cut
        BY <1>8, <2>0 DEF Write
    <2>2. left' \in 0..BodyLen /\ left' \in (-Extra)..BodyLen /\ left' = left - n
        BY <1>3, <1>8, <2>0
    <2>3. incoming[File] \in Piece
        BY <1>2, <1>6 DEF TypeOK
    <2>4. /\ incoming' = [incoming EXCEPT ![File] = [incoming[File] EXCEPT !.nr = incoming[File].nr + m]]
          /\ incoming[File].nr \in 0..(BodyLen + Extra)
        BY <1>8, <2>3 DEF Piece
    <2>5. incoming[File].nr + m \in 0..(BodyLen + Extra)
        BY <1>2, <1>3, <2>0, <2>1, <2>4
    <2>6. /\ [incoming[File] EXCEPT !.nr = incoming[File].nr + m] \in Piece
          /\ [incoming[File] EXCEPT !.nr = incoming[File].nr + m].of = cur
          /\ [incoming[File] EXCEPT !.nr = incoming[File].nr + m].nr = incoming[File].nr + m
        BY <1>2, <2>3, <2>5 DEF Piece
    <2>7. /\ incoming' \in [Names -> Piece] /\ incoming'[File].of = cur
          /\ incoming'[File].nr = incoming[File].nr + m
        BY <1>2, <1>6, <2>4, <2>6 DEF TypeOK
    <2>8. cut' \subseteq Clients /\ (cur \notin cut' => cur \notin cut /\ m = n)
        BY <1>2, <2>1 DEF TypeOK
    <2>9. TypeOK'
        BY <1>1, <1>2, <1>6, <1>8, <2>2, <2>7, <2>8 DEF TypeOK, taskVars
    <2>10. CurShape' /\ StoredIsWhole'
        BY <1>1, <1>2, <1>6, <1>8 DEF CurShape, StoredIsWhole
    <2>11. BodyShape'
        <3>1. File' = File
            BY <1>1 DEF File
        <3>2. incoming'[File].nr <= BodyLen - left'
            BY <1>2, <1>3, <2>0, <2>1, <2>2, <2>4, <2>7
        <3>3. cur \notin cut' => incoming'[File].nr = BodyLen - left'
            BY <1>2, <1>3, <2>0, <2>2, <2>4, <2>7, <2>8
        <3> QED
            BY <1>1, <2>2, <2>7, <3>1, <3>2, <3>3 DEF BodyShape
    <2> QED
        BY <1>6, <2>9, <2>10, <2>11 DEF RestInv
<1> QED
    BY <1>7, <1>8 DEF ReadBody

\* The upload is acknowledged only when nothing more is expected.
LEMMA BodyEndsStep == ASSUME RestInv, BodyEnds PROVE RestInv'
<1>1. /\ pc = "body"
      /\ UNCHANGED <<name, stage, got, sent, unsent, gone, incoming, outputs, cut, taskVars, conn,
                     queue, cur, left>>
    BY DEF BodyEnds, clientVars, wireVars, diskVars
<1>2. CASE Answer("error")
    BY <1>1, <1>2, RefusalStep DEF RestInv, TypeOK
<1>3. CASE left <= 0 /\ Answer("ok")
    <2>1. pc' = "reply" /\ verdict' = "ok" /\ left <= 0
        BY <1>3 DEF Answer
    <2>2. /\ QueueShape' /\ ConnShape' /\ cur \in Clients /\ conn[cur] = "open" /\ File \in Names
          /\ stage[cur] = "upload"
        BY <1>1, InHandler DEF RestInv, CurShape
    <2>3. TypeOK'
        BY <1>1, <2>1 DEF RestInv, TypeOK, taskVars
    <2>4. CurShape' /\ BodyShape'
        BY <1>1, <2>1, <2>2 DEF CurShape, BodyShape
    <2>5. StoredIsWhole'
        <3>1. File' = File /\ left \in Int /\ BodyLen \in Nat /\ incoming[File].nr \in Nat
            <4>1. incoming[File] \in Piece /\ left \in (-Extra)..BodyLen
                BY <2>2 DEF RestInv, TypeOK
            <4> QED
                BY <1>1, <4>1, Numbers DEF File, Piece
        <3>2. /\ incoming[File].of = cur
              /\ incoming[File].nr <= BodyLen - left
              /\ cur \notin cut => incoming[File].nr = BodyLen - left
              /\ left < 0 => BodyLen - left <= BufLen - Header
            BY <1>1 DEF RestInv, BodyShape
        <3>3. /\ cur \notin cut => incoming[File].nr >= BodyLen
              /\ incoming[File].nr > BodyLen => incoming[File].nr <= BufLen - Header
            BY <2>1, <3>1, <3>2, Numbers
        <3> QED
            BY <1>1, <2>1, <3>1, <3>2, <3>3 DEF StoredIsWhole
    <2> QED
        BY <2>2, <2>3, <2>4, <2>5 DEF RestInv
<1> QED
    BY <1>2, <1>3 DEF BodyEnds

LEMMA OutputStep == ASSUME RestInv, RunFfmpeg \/ OpenOutput PROVE RestInv'
<1>1. /\ pc \in {"ffmpeg", "file"}
      /\ UNCHANGED <<name, stage, got, sent, unsent, gone, incoming, cut, taskVars, conn, queue,
                     cur, left>>
    BY DEF RunFfmpeg, OpenOutput, clientVars, wireVars, diskVars
<1>2. /\ TypeOK /\ cur \in Clients /\ conn[cur] = "open" /\ stage[cur] \in {"run", "download"}
      /\ outfile \in Names
      /\ pc = "ffmpeg" => infile \in Names
    BY <1>1 DEF RestInv, CurShape, TypeOK
<1>3. outputs' \in [Names -> Piece]
    <2>1. CASE RunFfmpeg
        <3>1. incoming[infile] \in Piece /\ outputs[outfile] \in Piece
            BY <1>2, <2>1 DEF RunFfmpeg, TypeOK
        <3>2. [incoming[infile] EXCEPT !.nr = 0] \in Piece
            BY <3>1, Numbers DEF Piece
        <3>3. \E f : /\ \/ f = outputs[outfile] \/ f = incoming[infile]
                        \/ f = [incoming[infile] EXCEPT !.nr = 0]
                     /\ outputs' = [outputs EXCEPT ![outfile] = f]
            BY <2>1 DEF RunFfmpeg, PartOf
        <3>4. PICK f \in Piece : outputs' = [outputs EXCEPT ![outfile] = f]
            BY <3>1, <3>2, <3>3
        <3> QED
            BY <1>2, <3>4 DEF TypeOK
    <2>2. CASE OpenOutput
        BY <1>2, <2>2 DEF OpenOutput, diskVars, TypeOK
    <2> QED
        BY <2>1, <2>2
<1>4. pc' = "reply" /\ verdict' \in {"ok", "error"}
    BY DEF RunFfmpeg, OpenOutput, Answer
<1>5. QueueShape' /\ ConnShape'
    BY <1>1, InHandler
<1>6. TypeOK'
    BY <1>1, <1>2, <1>3, <1>4 DEF TypeOK, taskVars
<1>7. CurShape' /\ BodyShape' /\ StoredIsWhole'
    BY <1>1, <1>2, <1>4 DEF CurShape, BodyShape, StoredIsWhole, taskVars
<1> QED
    BY <1>5, <1>6, <1>7 DEF RestInv

LEMMA RestStep == RestInv /\ [Next]_vars => RestInv'
<1> SUFFICES ASSUME RestInv, [Next]_vars PROVE RestInv'
    OBVIOUS
<1>1. ASSUME NEW c \in Clients, Connect(c) \/ Send(c) \/ Hangup(c) PROVE RestInv'
    BY <1>1, ConnectStep, SendStep, HangupStep
<1>2. CASE AcceptFails \/ BrokenPipe
    BY <1>2, DieStep DEF AcceptFails, BrokenPipe
<1>3. CASE Idle \/ UNCHANGED vars
    <2>1. UNCHANGED <<clientVars, wireVars, diskVars, taskVars, conn, queue, cur, left, verdict,
                      pc>>
        BY <1>3 DEF Idle, vars
    <2>2. TypeOK' /\ QueueShape' /\ ConnShape'
        BY <2>1 DEF RestInv, TypeOK, QueueShape, ConnShape, clientVars, wireVars, diskVars,
                    taskVars
    <2> QED
        BY <2>1, <2>2, HandledKept DEF RestInv, clientVars
<1> QED
    BY <1>1, <1>2, <1>3, AcceptStep, ReadRequestStep, NoRequestStep, ReadBodyStep,
       BodyEndsStep, OutputStep, ReplyStep DEF Next, Server

LEMMA RestInvariant == Spec => []RestInv
BY RestInit, RestStep, PTL DEF Spec

\* The type invariant of RestShim: with the accounting of sent and unsent pieces, what
\* is stored and what run_upload still expects stay within what the client sent, the
\* pieces beyond the Content-Length included.
THEOREM RestTypeCorrect == Spec => []TypeOK
<1>1. RestInv => TypeOK
    BY DEF RestInv
<1> QED
    BY <1>1, RestInvariant, PTL

\* An upload that is acknowledged has stored the body of this client, all of it unless
\* a write was short, and beyond it only what came with the header, for any sizes of
\* body and buffer and any cut into reads.
THEOREM AcknowledgedIsStored == Spec => []StoredIsWhole
<1>1. RestInv => StoredIsWhole
    BY DEF RestInv
<1> QED
    BY <1>1, RestInvariant, PTL

-----------------------------------------------------------------------------
(* Files of one client                                                      *)

\* Nobody else uses the name of c, and no request was cut that could be about it.
Trusted(c) == ~Clashes(c) /\ name[c] \notin misread

\* A file that was made of the client's body: of all of it, unless a write was short.
MadeOf(f, c) == f.of = c /\ (c \notin cut => f.nr >= BodyLen)

\* Between its connections the client's file is where the next one looks for it.
FilesOfClients ==
    \A c \in Clients : Trusted(c) =>
        /\ stage[c] = "run" => MadeOf(incoming[name[c]], c)
        /\ stage[c] = "download" => MadeOf(outputs[name[c]], c)
        /\ stage[c] = "done" => MadeOf(got[c], c)

\* When ffmpeg's success is to be reported, its output is there.
OutputMade ==
    pc = "reply" /\ verdict = "ok" /\ stage[cur] = "run" /\ Trusted(cur)
    => MadeOf(outputs[File], cur)

\* A request is for the file of its client, or is known to have been cut.
TaskShape ==
    pc \in {"ffmpeg", "file"} \/ (pc = "reply" /\ verdict = "ok" /\ stage[cur] = "download")
    => \/ infile = File /\ outfile = File
       \/ File \in misread /\ outfile \in misread

OwnInv == RestInv /\ FilesOfClients /\ OutputMade /\ TaskShape

LEMMA OwnInit == Init => OwnInv
<1> SUFFICES ASSUME Init PROVE OwnInv
    OBVIOUS
<1>1. \A c \in Clients : stage[c] = "upload"
    BY DEF Init
<1>2. FilesOfClients
    BY <1>1 DEF FilesOfClients
<1>3. OutputMade /\ TaskShape
    BY DEF Init, OutputMade, TaskShape
<1> QED
    BY <1>2, <1>3, RestInit DEF OwnInv

\* What every step does to one client's place, its connection and the names.
LEMMA PlaceStep ==
    ASSUME RestInv, [Next]_vars
    PROVE  /\ name' = name /\ misread \subseteq misread'
           /\ \A d \in Clients : stage[d] # "upload" => stage'[d] # "upload"
           /\ \A d \in Clients : conn[d] = "open" => conn'[d] = "open" \/ stage'[d] # "upload"
<1>1. TypeOK
    BY DEF RestInv
<1>2. ASSUME NEW c \in Clients, Connect(c) \/ Send(c) \/ Hangup(c)
      PROVE  /\ UNCHANGED <<name, misread, stage>>
             /\ \A d \in Clients : conn[d] = "open" => conn'[d] = "open"
    BY <1>1, <1>2 DEF Connect, Send, Hangup, clientVars, taskVars, TypeOK
<1>3. CASE Accept
    <2>1. UNCHANGED <<name, misread, stage>> /\ conn' = [conn EXCEPT ![Head(queue)] = "open"]
        BY <1>3 DEF Accept, clientVars, taskVars
    <2> QED
        BY <1>1, <2>1 DEF TypeOK
<1>4. CASE AcceptFails \/ BrokenPipe
    BY <1>4 DEF AcceptFails, BrokenPipe, Die
<1>5. CASE NoRequest \/ Reply
    <2>1. /\ UNCHANGED <<name, misread>> /\ conn' = [conn EXCEPT ![cur] = "off"]
          /\ pc \in {"request", "reply"}
        BY <1>5 DEF NoRequest, Reply, Close
    <2>2. cur \in Clients /\ stage[cur] \in Working
        BY <2>1 DEF RestInv, CurShape, ConnShape
    <2>3. \E next \in Stages \ {"upload"} : stage' = [stage EXCEPT ![cur] = next]
        <3>1. NextStage(cur) \in Stages \ {"upload"} /\ "failed" \in Stages \ {"upload"}
            BY <2>2 DEF NextStage, Working, Stages
        <3> QED
            BY <1>5, <3>1 DEF NoRequest, Reply
    <2> QED
        BY <1>1, <2>1, <2>2, <2>3 DEF TypeOK
<1>6. CASE ReadRequest
    <2>1. UNCHANGED <<name, stage, conn>>
        BY <1>6 DEF ReadRequest, clientVars
    <2>2. misread \subseteq misread'
        BY <1>6, RequestOutcome DEF Understood, taskVars
    <2> QED
        BY <2>1, <2>2
<1>7. CASE ReadBody \/ BodyEnds \/ RunFfmpeg \/ OpenOutput
    BY <1>7 DEF ReadBody, BodyEnds, RunFfmpeg, OpenOutput, clientVars, taskVars
<1>8. CASE Idle \/ UNCHANGED vars
    BY <1>8 DEF Idle, vars, clientVars, taskVars
<1> QED
    BY <1>2, <1>3, <1>4, <1>5, <1>6, <1>7, <1>8 DEF Next, Server

\* Trust does not come back.
LEMMA TrustStep ==
    ASSUME RestInv, [Next]_vars, NEW c \in Clients, Trusted(c)'
    PROVE  Trusted(c)
BY PlaceStep DEF Trusted, Clashes

\* A step that changes no file a trusted client comes back for, and takes no client
\* further.
LEMMA FilesKept ==
    ASSUME RestInv, [Next]_vars, FilesOfClients, cut \subseteq cut', got' = got,
           \A c \in Clients : stage'[c] = stage[c] \/ stage'[c] = "failed",
           \A c \in Clients : Trusted(c)' /\ stage[c] = "run" =>
               incoming'[name[c]] = incoming[name[c]],
           \A c \in Clients : Trusted(c)' /\ stage[c] = "download" =>
               outputs'[name[c]] = outputs[name[c]]
    PROVE  FilesOfClients'
<1>0. name' = name
    BY PlaceStep
<1> SUFFICES ASSUME NEW c \in Clients, Trusted(c)'
             PROVE  /\ stage'[c] = "run" => MadeOf(incoming[name[c]], c)'
                    /\ stage'[c] = "download" => MadeOf(outputs[name[c]], c)'
                    /\ stage'[c] = "done" => MadeOf(got[c], c)'
    BY DEF FilesOfClients
<1>1. stage'[c] \in Working \cup {"done"} => stage'[c] = stage[c]
    BY DEF Working
<1>2. Trusted(c)
    BY TrustStep
<1>3. CASE stage'[c] = "run"
    BY <1>0, <1>1, <1>2, <1>3 DEF FilesOfClients, MadeOf, Working
<1>4. CASE stage'[c] = "download"
    BY <1>0, <1>1, <1>2, <1>4 DEF FilesOfClients, MadeOf, Working
<1>5. CASE stage'[c] = "done"
    BY <1>0, <1>1, <1>2, <1>5 DEF FilesOfClients, MadeOf
<1> QED
    BY <1>3, <1>4, <1>5

\* Steps that touch neither files nor what the handler knows, or that end it.
LEMMA QuietStep ==
    ASSUME OwnInv, [Next]_vars, UNCHANGED <<got, diskVars>>,
           \A c \in Clients : stage'[c] = stage[c] \/ stage'[c] = "failed",
           pc' \in {"ffmpeg", "file", "reply"} =>
               UNCHANGED <<pc, verdict, cur, stage, infile, outfile>> /\ cur \in Clients
    PROVE  FilesOfClients' /\ OutputMade' /\ TaskShape'
<1>1. FilesOfClients'
    BY FilesKept DEF OwnInv, diskVars
<1>2. name' = name /\ misread \subseteq misread'
    BY PlaceStep DEF OwnInv
<1>3. OutputMade'
    <2> SUFFICES ASSUME pc' = "reply", verdict' = "ok", stage'[cur'] = "run", Trusted(cur)'
                 PROVE  MadeOf(outputs[File], cur)'
        BY DEF OutputMade
    <2>1. UNCHANGED <<pc, verdict, cur, stage>> /\ cur \in Clients
        OBVIOUS
    <2>2. Trusted(cur)
        BY <2>1, TrustStep DEF OwnInv, Trusted, Clashes
    <2> QED
        BY <1>2, <2>1, <2>2 DEF OwnInv, OutputMade, MadeOf, File, diskVars
<1>4. TaskShape'
    BY <1>2 DEF OwnInv, TaskShape, File
<1> QED
    BY <1>1, <1>3, <1>4

\* An upload stores into its own client's file, and this client is not yet at "run".
LEMMA UploadStep ==
    ASSUME OwnInv, [Next]_vars, ReadRequest \/ ReadBody
    PROVE  FilesOfClients' /\ OutputMade' /\ TaskShape'
<1>1. /\ UNCHANGED <<name, stage, got, outputs, conn, cur>>
      /\ cur \in Clients /\ conn[cur] = "open" /\ TypeOK /\ verdict # "ok" /\ File = name[cur]
      /\ File \in Names
    BY DEF ReadRequest, ReadBody, OwnInv, RestInv, CurShape, TypeOK, clientVars, File
<1>2. cut \subseteq cut'
    <2>1. ASSUME NEW n, NEW m, Write(n, m) PROVE cut \subseteq cut'
        BY <2>1 DEF Write
    <2>2. CASE ReadRequest
        BY <2>1, <2>2, RequestOutcome DEF OwnInv
    <2>3. CASE ReadBody
        BY <2>1, <2>3 DEF ReadBody
    <2> QED
        BY <2>2, <2>3
<1>3. \/ incoming' = incoming
      \/ stage[cur] = "upload" /\ \A x \in Names : x # File => incoming'[x] = incoming[x]
    <2>1. CASE ReadRequest
        <3>1. \/ incoming' = incoming
              \/ /\ stage[cur] = "upload"
                 /\ \E m \in Nat : incoming' = [incoming EXCEPT ![File] = [of |-> cur, nr |-> m]]
            <4>1. Least(sent[cur], BufLen) \in Nat
                BY <1>1, Numbers DEF Least, TypeOK
            <4> QED
                BY <2>1, <4>1, RequestOutcome, Numbers DEF OwnInv
        <3> QED
            BY <1>1, <3>1 DEF TypeOK
    <2>2. CASE ReadBody
        BY <1>1, <2>2 DEF ReadBody, TypeOK, OwnInv, RestInv, CurShape
    <2> QED
        BY <2>1, <2>2
<1>4. ASSUME NEW c \in Clients, Trusted(c)', stage[c] = "run"
      PROVE  incoming'[name[c]] = incoming[name[c]]
    <2>1. CASE incoming' = incoming
        BY <2>1
    <2>2. CASE stage[cur] = "upload" /\ \A x \in Names : x # File => incoming'[x] = incoming[x]
        <3>1. c # cur
            BY <1>4, <2>2
        <3>2. ~Clashes(c)
            BY <1>4, TrustStep DEF OwnInv, Trusted
        <3>3. name[c] # File
            BY <1>1, <3>1, <3>2 DEF Clashes
        <3>4. name[c] \in Names
            BY <1>1 DEF TypeOK
        <3> QED
            BY <2>2, <3>3, <3>4
    <2> QED
        BY <1>3, <2>1, <2>2
<1>5. FilesOfClients'
    BY <1>1, <1>2, <1>4, FilesKept DEF OwnInv
<1>6. verdict' # "ok"
    <2>1. CASE ReadRequest
        BY <1>1, <2>1, RequestOutcome DEF Answer, OwnInv
    <2>2. CASE ReadBody
        BY <1>1, <2>2 DEF ReadBody, Answer
    <2> QED
        BY <2>1, <2>2
<1>7. TaskShape'
    <2>1. CASE ReadRequest
        <3>1. \/ pc' \notin {"ffmpeg", "file"}
              \/ Understood(Least(sent[cur], BufLen))
            BY <2>1, RequestOutcome DEF OwnInv, Answer
        <3>2. CASE Understood(Least(sent[cur], BufLen))
            BY <1>1, <1>6, <3>2, UnderstoodFacts DEF TaskShape, File
        <3> QED
            BY <1>6, <3>1, <3>2 DEF TaskShape
    <2>2. CASE ReadBody
        <3>1. pc' \notin {"ffmpeg", "file"}
            BY <2>2 DEF ReadBody, Answer
        <3> QED
            BY <1>6, <3>1 DEF TaskShape
    <2> QED
        BY <2>1, <2>2
<1> QED
    BY <1>5, <1>6, <1>7 DEF OutputMade

\* ffmpeg writes its own client's output, and this client is not yet at "download", or
\* that of a name that is not trusted.
LEMMA FfmpegStep ==
    ASSUME OwnInv, [Next]_vars, RunFfmpeg
    PROVE  FilesOfClients' /\ OutputMade' /\ TaskShape'
<1>1. /\ UNCHANGED <<name, stage, got, incoming, cut, cur, taskVars>>
      /\ cur \in Clients /\ TypeOK /\ File = name[cur] /\ stage[cur] = "run"
      /\ outfile \in Names
      /\ \/ infile = File /\ outfile = File
         \/ File \in misread /\ outfile \in misread
    BY DEF RunFfmpeg, OwnInv, RestInv, CurShape, TaskShape, clientVars, File
<1>2. \A x \in Names : x # outfile => outputs'[x] = outputs[x]
    BY <1>1 DEF RunFfmpeg, TypeOK
<1>3. ASSUME NEW c \in Clients, Trusted(c)', stage[c] = "download"
      PROVE  outputs'[name[c]] = outputs[name[c]]
    <2>1. ~Clashes(c) /\ name[c] \notin misread
        BY <1>3, TrustStep DEF OwnInv, Trusted
    <2>2. c # cur /\ name[c] # File
        BY <1>1, <1>3, <2>1 DEF Clashes
    <2>3. name[c] # outfile /\ name[c] \in Names
        BY <1>1, <2>1, <2>2 DEF TypeOK
    <2> QED
        BY <1>2, <2>3
<1>4. FilesOfClients'
    BY <1>1, <1>3, FilesKept DEF OwnInv
<1>5. OutputMade'
    <2> SUFFICES ASSUME verdict' = "ok", Trusted(cur)' PROVE MadeOf(outputs[File], cur)'
        BY DEF OutputMade
    <2>1. Trusted(cur) /\ infile = File /\ outfile = File
        <3>1. Trusted(cur)
            BY <1>1, TrustStep DEF OwnInv, Trusted, Clashes
        <3> QED
            BY <1>1, <3>1 DEF Trusted
    <2>2. outputs' = [outputs EXCEPT ![File] = incoming[File]]
        BY <2>1 DEF RunFfmpeg, Answer
    <2>3. outputs'[File] = incoming[File]
        BY <1>1, <2>1, <2>2 DEF TypeOK
    <2>4. MadeOf(incoming[File], cur)
        BY <1>1, <2>1 DEF OwnInv, FilesOfClients
    <2> QED
        BY <1>1, <2>3, <2>4 DEF MadeOf, File
<1>6. TaskShape'
    BY <1>1 DEF TaskShape, RunFfmpeg, Answer
<1> QED
    BY <1>4, <1>5, <1>6

\* The reply takes its client one stage further, where its file is.
LEMMA ReplyOwn ==
    ASSUME OwnInv, [Next]_vars, Reply
    PROVE  FilesOfClients' /\ OutputMade' /\ TaskShape'
<1>1. /\ pc = "reply" /\ pc' = "accept" /\ UNCHANGED <<name, diskVars>>
      /\ cur \in Clients /\ TypeOK /\ File = name[cur] /\ stage[cur] \in Working
    BY DEF Reply, OwnInv, RestInv, CurShape, ConnShape, File
<1>2. OutputMade' /\ TaskShape'
    BY <1>1 DEF OutputMade, TaskShape
<1>3. CASE /\ verdict = "ok" /\ stage' = [stage EXCEPT ![cur] = NextStage(cur)]
           /\ got' = IF stage[cur] = "download" THEN [got EXCEPT ![cur] = outputs[outfile]] ELSE got
    <2>1. \A c \in Clients : c # cur => stage'[c] = stage[c] /\ got'[c] = got[c]
        BY <1>1, <1>3 DEF TypeOK
    <2>2. ASSUME NEW c \in Clients, Trusted(c)', c # cur
          PROVE  /\ stage'[c] = "run" => MadeOf(incoming[name[c]], c)'
                 /\ stage'[c] = "download" => MadeOf(outputs[name[c]], c)'
                 /\ stage'[c] = "done" => MadeOf(got[c], c)'
        <3>1. Trusted(c)
            BY <2>2, TrustStep DEF OwnInv
        <3> QED
            BY <1>1, <2>1, <2>2, <3>1 DEF OwnInv, FilesOfClients, MadeOf, diskVars
    <2>3. ASSUME NEW c \in Clients, Trusted(c)', c = cur
          PROVE  /\ stage'[c] = "run" => MadeOf(incoming[name[c]], c)'
                 /\ stage'[c] = "download" => MadeOf(outputs[name[c]], c)'
                 /\ stage'[c] = "done" => MadeOf(got[c], c)'
        <3>0. Trusted(c) /\ Trusted(cur)
            BY <2>3, TrustStep DEF OwnInv
        <3>1. /\ stage'[c] = NextStage(c) /\ File = name[c] /\ stage[c] \in Working
              /\ cut' = cut /\ incoming' = incoming /\ outputs' = outputs /\ name' = name
            BY <1>1, <1>3, <2>3 DEF TypeOK, diskVars
        <3>2. CASE stage[c] = "upload"
            <4>1. stage'[c] = "run"
                BY <3>1, <3>2 DEF NextStage
            <4>2. MadeOf(incoming[name[c]], c)
                BY <1>1, <1>3, <2>3, <3>2 DEF OwnInv, RestInv, StoredIsWhole, MadeOf
            <4> QED
                BY <3>1, <4>1, <4>2 DEF MadeOf
        <3>3. CASE stage[c] = "run"
            <4>1. stage'[c] = "download"
                BY <3>1, <3>3 DEF NextStage
            <4>2. MadeOf(outputs[name[c]], c)
                BY <1>1, <1>3, <2>3, <3>0, <3>3 DEF OwnInv, OutputMade
            <4> QED
                BY <3>1, <4>1, <4>2 DEF MadeOf
        <3>4. CASE stage[c] = "download"
            <4>1. stage'[c] = "done"
                BY <3>1, <3>4 DEF NextStage
            <4>2. MadeOf(outputs[name[c]], c)
                BY <3>0, <3>4 DEF OwnInv, FilesOfClients
            <4>3. outfile = name[c]
                BY <1>1, <1>3, <2>3, <3>0, <3>4 DEF OwnInv, TaskShape, Trusted
            <4>4. got'[c] = outputs[name[c]]
                BY <1>1, <1>3, <2>3, <3>4, <4>3 DEF TypeOK
            <4> QED
                BY <3>1, <4>1, <4>2, <4>4 DEF MadeOf
        <3> QED
            BY <3>1, <3>2, <3>3, <3>4 DEF Working
    <2> QED
        BY <1>2, <2>2, <2>3 DEF FilesOfClients
<1>4. CASE stage' = [stage EXCEPT ![cur] = "failed"] /\ got' = got
    <2>1. \A c \in Clients : stage'[c] = stage[c] \/ stage'[c] = "failed"
        BY <1>1, <1>4 DEF TypeOK
    <2> QED
        BY <1>1, <1>2, <1>4, <2>1, FilesKept DEF OwnInv, diskVars
<1> QED
    BY <1>3, <1>4 DEF Reply

LEMMA OwnStep == OwnInv /\ [Next]_vars => OwnInv'
<1> SUFFICES ASSUME OwnInv, [Next]_vars PROVE OwnInv'
    OBVIOUS
<1>1. RestInv'
    BY RestStep DEF OwnInv
<1>0. pc \in {"ffmpeg", "file", "reply"} => cur \in Clients
    BY DEF OwnInv, RestInv, CurShape
<1>2. ASSUME NEW c \in Clients, Connect(c) \/ Send(c) \/ Hangup(c)
      PROVE  FilesOfClients' /\ OutputMade' /\ TaskShape'
    BY <1>0, <1>2, QuietStep DEF Connect, Send, Hangup, clientVars, taskVars
<1>3. ASSUME Accept PROVE FilesOfClients' /\ OutputMade' /\ TaskShape'
    <2>1. UNCHANGED <<got, diskVars, stage>> /\ pc' = "request"
        BY <1>3 DEF Accept, clientVars
    <2> QED
        BY <2>1, QuietStep DEF diskVars
<1>4. ASSUME AcceptFails \/ BrokenPipe PROVE FilesOfClients' /\ OutputMade' /\ TaskShape'
    <2>1. /\ pc' = "dead" /\ UNCHANGED <<got, diskVars>>
          /\ stage' = [c \in Clients |-> IF conn[c] # "off" THEN "failed" ELSE stage[c]]
        BY <1>4 DEF AcceptFails, BrokenPipe, Die
    <2>2. \A c \in Clients : stage'[c] = stage[c] \/ stage'[c] = "failed"
        BY <2>1
    <2> QED
        BY <2>1, <2>2, QuietStep DEF diskVars
<1>5. ASSUME NoRequest PROVE FilesOfClients' /\ OutputMade' /\ TaskShape'
    <2>1. /\ pc' = "accept" /\ UNCHANGED <<got, diskVars>>
          /\ stage' = [stage EXCEPT ![cur] = "failed"]
        BY <1>5 DEF NoRequest
    <2>2. \A c \in Clients : stage'[c] = stage[c] \/ stage'[c] = "failed"
        BY <2>1 DEF OwnInv, RestInv, TypeOK
    <2> QED
        BY <2>1, <2>2, QuietStep DEF diskVars
<1>6. ASSUME BodyEnds \/ OpenOutput PROVE FilesOfClients' /\ OutputMade' /\ TaskShape'
    <2>1. /\ UNCHANGED <<name, stage, got, diskVars, taskVars, cur>> /\ stage[cur] # "run"
          /\ pc' = "reply" /\ (pc = "file" \/ stage[cur] = "upload")
        BY <1>6 DEF BodyEnds, OpenOutput, Answer, clientVars, OwnInv, RestInv, CurShape
    <2>2. FilesOfClients'
        BY <2>1, FilesKept DEF OwnInv, diskVars
    <2>3. OutputMade'
        BY <2>1 DEF OutputMade
    <2>4. TaskShape'
        BY <2>1 DEF OwnInv, TaskShape, File, taskVars
    <2> QED
        BY <2>2, <2>3, <2>4
<1>7. ASSUME Idle \/ UNCHANGED vars PROVE FilesOfClients' /\ OutputMade' /\ TaskShape'
    <2>1. UNCHANGED <<stage, got, diskVars, cur, verdict, pc, infile, outfile>>
        BY <1>7 DEF Idle, vars, clientVars, taskVars
    <2> QED
        BY <1>0, <2>1, QuietStep DEF diskVars
<1>8. FilesOfClients' /\ OutputMade' /\ TaskShape'
    BY <1>2, <1>3, <1>4, <1>5, <1>6, <1>7, UploadStep, FfmpegStep, ReplyOwn DEF Next, Server, OwnInv
<1> QED
    BY <1>1, <1>8 DEF OwnInv

\* A client that gets through its three connections has what ffmpeg made of its own
\* upload, whatever other clients did between them, unless another client had uploaded
\* under the same name, or a request with a cut line was meant for this name or wrote it.
THEOREM RestResultsAreOwn == Spec => []RestResultIsOwn
<1>1. OwnInv => RestResultIsOwn
    BY DEF OwnInv, FilesOfClients, MadeOf, Trusted, RestResultIsOwn
<1>2. Spec => []OwnInv
    BY OwnInit, OwnStep, PTL DEF Spec
<1> QED
    BY <1>1, <1>2, PTL
=============================================================================
