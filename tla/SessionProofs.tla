--------------------------- MODULE SessionProofs ----------------------------
(***************************************************************************)
(* Theorems about Session: the two ends stay in step, a transfer that is   *)
(* known to have succeeded is whole, and the session implements            *)
(* RequestReply, for any lengths of the messages, any file and any socket  *)
(* buffer that holds the reply to an upload.                               *)
(***************************************************************************)
EXTENDS Session, TLAPS

USE SessionAssumptions

\* Units of the request that were sent, units of it that were read, and units of the
\* reply that were read.
SentUnits == IF handed THEN RequestLen(c.op) ELSE c.n
ReadUnits == IF s.at = "read" THEN s.n ELSE 0
Got       == IF c.at = "read" THEN c.n ELSE 0

\* The units of q are those of a message of op that follow the first n.
Follow(q, n, op) == \A i \in 1..Len(q) : q[i].at = n + i /\ q[i].op = op

\* Where the client is, and what it knows.
ClientShape ==
    /\ c.op = NoOp => /\ c.at \in {"think", "closed"}
                      /\ c2s = <<>> /\ s2c = <<>> /\ s.at # "reply" /\ s.n = 0
                      /\ verdict = "pending" /\ known = "pending" /\ ~handed /\ c.n = 0
    /\ c.at = "think" => /\ s2c = <<>>
                         /\ c.op # NoOp => known = Word(c.ok) /\ verdict = known
    /\ c.at = "send" => /\ handed <=> c.n = RequestLen(c.op)
                        /\ c.n <= RequestLen(c.op) /\ c.ok
    /\ c.at = "read" => handed
    /\ c.at \in {"send", "read"} => c.op # NoOp /\ known = "pending"
    /\ c.at = "closed" => known # "pending" \/ c.op = NoOp
    /\ ~handed /\ c.op # NoOp => c.n < RequestLen(c.op)

\* The request is on its way, or being read: nothing of the reply exists. The server may
\* still have to leave the handler of the request before.
Requesting ==
    /\ s2c = <<>>
    /\ c.at \in {"send", "read", "closed"}
    /\ c.at = "read" => c.n = 0 /\ c.ok
    /\ s.at = "reply" => s.n = ReplyLen(s.op, s.ok) /\ ~s.leave
    /\ s.at # "closed" =>
           /\ ReadUnits + Len(c2s) <= SentUnits
           /\ c.at # "closed" => ReadUnits + Len(c2s) = SentUnits
           /\ Follow(c2s, ReadUnits, c.op)
           /\ ReadUnits > 0 => s.op = c.op

\* The server has decided: what is left of the reply is in the queue or still to be sent.
Replying ==
    LET ok == verdict = "ok" IN
    /\ ~ok => c.op \in {"submit", "upload", "download"}
    /\ \A i \in 1..Len(s2c) : s2c[i].ok = ok
    /\ Follow(s2c, Got, c.op)
    /\ c.at = "read" => c.ok = (ok \/ c.n <= HeaderLen)
    /\ c.at # "closed" => Got + Len(s2c) <= ReplyLen(c.op, ok)
    /\ s.at = "read" => s.n = 0 /\ c2s = <<>>
    /\ s.at = "read" => handed
    /\ s.at = "read" /\ c.at \in {"send", "read"} => Got + Len(s2c) = ReplyLen(c.op, ok)
    /\ s.at = "reply" =>
           /\ s.op = c.op /\ s.ok = ok /\ s.n <= ReplyLen(c.op, ok)
           /\ ~s.leave => handed /\ c2s = <<>>
           /\ s.leave => c.op = "upload" /\ ~ok
           /\ c.at \in {"send", "read"} => Got + Len(s2c) = s.n
           /\ c.at = "think" => s.n = ReplyLen(c.op, ok)

StepInv ==
    /\ TypeOK
    /\ ClientShape
    /\ c.op # NoOp /\ verdict = "pending" => Requesting
    /\ c.op # NoOp /\ verdict # "pending" => Replying

\* q is the first n units of a file.
Prefix(q, n) == Len(q) = n /\ \A i \in 1..n : q[i] = i
Beyond(n) == IF n <= Body THEN 0 ELSE n - Body

FileInv ==
    /\ c.op # NoOp /\ verdict = "pending" /\ s.at = "read" /\ s.n > 0 =>
           Prefix(stored, Beyond(s.n))
    /\ c.op = "upload" /\ verdict = "ok" => Prefix(stored, FileLen)
    /\ c.at = "send" => local = <<>>
    /\ c.at = "read" /\ c.op = "download" => Prefix(local, Beyond(c.n))
    /\ c.op = "download" /\ known = "ok" => Prefix(local, FileLen)
    /\ known \in {"ok", "refused"} => verdict = known

-----------------------------------------------------------------------------
(* Lengths and queues                                                       *)

LEMMA RequestLens ==
    ASSUME NEW op \in Ops
    PROVE  /\ Body \in Nat /\ Body > HeaderLen /\ HeaderLen > 0 /\ op # NoOp
           /\ RequestLen(op) \in Nat /\ RequestLen(op) >= HeaderLen
           /\ RequestLen(op) <= HeaderLen + BodyLen + TableLen + FileLen
           /\ op = "upload" => RequestLen(op) = Body + FileLen
           /\ op # "upload" => RequestLen(op) <= Body
BY DEF RequestLen, Body, AllOps

LEMMA ReplyLens ==
    ASSUME NEW op \in Ops, NEW ok \in BOOLEAN
    PROVE  /\ ReplyLen(op, ok) \in Nat /\ ReplyLen(op, ok) >= HeaderLen
           /\ ReplyLen(op, ok) <= HeaderLen + BodyLen + TableLen + FileLen
           /\ op = "download" /\ ok => ReplyLen(op, ok) = Body + FileLen
           /\ op \in {"upload", "submit"} => ReplyLen(op, ok) = Body
           /\ op = "download" /\ ~ok => ReplyLen(op, ok) = Body
           /\ op \in {"ping", "shutdown"} => ReplyLen(op, ok) = HeaderLen
           /\ op \notin {"ping", "shutdown"} => ReplyLen(op, ok) > HeaderLen
           /\ ReplyLen(op, FALSE) <= ReplyLen(op, ok)
BY DEF ReplyLen, Body, AllOps

LEMMA QueueAppend ==
    ASSUME NEW q \in Seq(Units), NEW u \in Units, NEW n \in Nat, NEW op,
           Follow(q, n, op), u.at = n + Len(q) + 1, u.op = op
    PROVE  /\ Append(q, u) \in Seq(Units)
           /\ Len(Append(q, u)) = Len(q) + 1
           /\ Follow(Append(q, u), n, op)
BY DEF Follow

LEMMA QueueTail ==
    ASSUME NEW q \in Seq(Units), q # <<>>, NEW n \in Nat, NEW op, Follow(q, n, op)
    PROVE  /\ Tail(q) \in Seq(Units) /\ Head(q) \in Units
           /\ Len(q) > 0 /\ Len(Tail(q)) = Len(q) - 1
           /\ Head(q).at = n + 1 /\ Head(q).op = op
           /\ Follow(Tail(q), n + 1, op)
           /\ \A i \in 1..Len(Tail(q)) : Tail(q)[i] = q[i + 1]
<1>1. Len(q) \in Nat /\ Len(q) > 0 /\ Tail(q) \in Seq(Units) /\ Head(q) = q[1] /\ q[1] \in Units
    OBVIOUS
<1>2. Len(Tail(q)) = Len(q) - 1 /\ \A i \in 1..Len(Tail(q)) : Tail(q)[i] = q[i + 1]
    OBVIOUS
<1>3. q[1].at = n + 1 /\ q[1].op = op
    BY <1>1 DEF Follow
<1>4. ASSUME NEW i \in 1..Len(Tail(q))
      PROVE  Tail(q)[i].at = (n + 1) + i /\ Tail(q)[i].op = op
    <2>1. i + 1 \in 1..Len(q) /\ Tail(q)[i] = q[i + 1] /\ i \in Nat
        BY <1>1, <1>2
    <2>2. q[i + 1].at = n + (i + 1) /\ q[i + 1].op = op
        BY <2>1 DEF Follow
    <2>3. n + (i + 1) = (n + 1) + i
        BY <2>1
    <2> QED
        BY <2>1, <2>2, <2>3
<1> QED
    BY <1>1, <1>2, <1>3, <1>4 DEF Follow

LEMMA QueueCut ==
    ASSUME NEW q \in Seq(Units), NEW k \in 0..Len(q)
    PROVE  /\ SubSeq(q, 1, k) \in Seq(Units)
           /\ Len(SubSeq(q, 1, k)) = k
           /\ \A i \in 1..k : SubSeq(q, 1, k)[i] = q[i]
OBVIOUS

\* What is left of a queue after a close.
Cut(r, q) == Len(r) <= Len(q) /\ \A i \in 1..Len(r) : r[i] = q[i]

LEMMA CutPrefix ==
    ASSUME NEW q \in Seq(Units), NEW k \in 0..Len(q)
    PROVE  SubSeq(q, 1, k) \in Seq(Units) /\ Cut(SubSeq(q, 1, k), q)
BY QueueCut DEF Cut

LEMMA ClientClosesCut ==
    ASSUME TypeOK, ClientCloses
    PROVE  /\ s2c' = <<>> /\ c2s' \in Seq(Units) /\ Cut(c2s', c2s)
           /\ c' = [c EXCEPT !.at = "closed"]
           /\ known' = IF Pending THEN "unknown" ELSE known
<1>1. c2s \in Seq(Units)
    BY DEF TypeOK
<1>2. CASE c2s' = c2s
    BY <1>1, <1>2 DEF ClientCloses, Reset, Cut
<1>3. CASE \E k \in 0..Len(c2s) : c2s' = SubSeq(c2s, 1, k)
    BY <1>1, <1>3, CutPrefix DEF ClientCloses, Reset
<1> QED
    BY <1>2, <1>3 DEF ClientCloses, Reset

LEMMA ServerClosesCut ==
    ASSUME TypeOK, ServerCloses
    PROVE  /\ c2s' \in Seq(Units) /\ Len(c2s') <= Len(c2s)
           /\ s2c' \in Seq(Units) /\ Cut(s2c', s2c)
           /\ s' = [s EXCEPT !.at = "closed", !.n = 0]
<1>1. c2s \in Seq(Units) /\ s2c \in Seq(Units)
    BY DEF TypeOK
<1>2. CASE c2s' = c2s /\ s2c' = s2c
    BY <1>1, <1>2 DEF ServerCloses, Cut
<1>3. CASE c2s' = <<>> /\ s2c' = s2c
    BY <1>1, <1>3 DEF ServerCloses, Cut
<1>4. CASE c2s' = <<>> /\ \E k \in 0..Len(s2c) : s2c' = SubSeq(s2c, 1, k)
    BY <1>1, <1>4, CutPrefix DEF ServerCloses
<1> QED
    BY <1>2, <1>3, <1>4 DEF ServerCloses, Reset

LEMMA CutFollow ==
    ASSUME NEW q \in Seq(Units), NEW r \in Seq(Units), Cut(r, q), NEW n, NEW op, Follow(q, n, op)
    PROVE  Follow(r, n, op)
BY DEF Cut, Follow

LEMMA StepInit == Init => StepInv /\ FileInv
<1> SUFFICES ASSUME Init PROVE StepInv /\ FileInv
    OBVIOUS
<1>1. NoOp \notin Ops
    OBVIOUS
<1>2. NoOp # "upload" /\ NoOp # "download"
    BY DEF AllOps
<1>3. TypeOK
    <2>1. <<>> \in Seq(Units) /\ Len(<<>>) = 0 /\ <<>> \in Seq(1..FileLen)
        OBVIOUS
    <2>2. 0 \in 0..(HeaderLen + BodyLen + TableLen + FileLen)
        OBVIOUS
    <2>3. /\ c \in [at : {"think", "send", "read", "closed"}, op : Ops \cup {NoOp},
                    n : 0..(HeaderLen + BodyLen + TableLen + FileLen), ok : BOOLEAN]
          /\ s \in [at : {"read", "reply", "closed"}, op : Ops \cup {NoOp},
                    n : 0..(HeaderLen + BodyLen + TableLen + FileLen), ok : BOOLEAN,
                    leave : BOOLEAN]
        BY <2>2 DEF Init
    <2>4. /\ c2s \in Seq(Units) /\ Len(c2s) <= Cap /\ s2c \in Seq(Units) /\ Len(s2c) <= Cap
          /\ stored \in Seq(1..FileLen) /\ Len(stored) <= FileLen
          /\ local \in Seq(1..FileLen) /\ Len(local) <= FileLen
        BY <2>1 DEF Init
    <2>5. /\ held \in BOOLEAN /\ g_stop \in BOOLEAN /\ handed \in BOOLEAN
          /\ verdict \in {"pending", "ok", "refused"}
          /\ known \in {"pending", "ok", "refused", "unknown"}
        BY DEF Init
    <2> QED
        BY <2>3, <2>4, <2>5 DEF TypeOK
<1> QED
    BY <1>2, <1>3 DEF Init, StepInv, ClientShape, FileInv, Word

\* The records of the two ends.
MaxLen  == HeaderLen + BodyLen + TableLen + FileLen
Clients == [at : {"think", "send", "read", "closed"}, op : Ops \cup {NoOp}, n : 0..MaxLen,
            ok : BOOLEAN]
Sides   == [at : {"read", "reply", "closed"}, op : Ops \cup {NoOp}, n : 0..MaxLen,
            ok : BOOLEAN, leave : BOOLEAN]
Others ==
    /\ c2s \in Seq(Units) /\ Len(c2s) <= Cap
    /\ s2c \in Seq(Units) /\ Len(s2c) <= Cap
    /\ held \in BOOLEAN /\ g_stop \in BOOLEAN
    /\ stored \in Seq(1..FileLen) /\ Len(stored) <= FileLen
    /\ local \in Seq(1..FileLen) /\ Len(local) <= FileLen
    /\ handed \in BOOLEAN
    /\ verdict \in {"pending", "ok", "refused"}
    /\ known \in {"pending", "ok", "refused", "unknown"}

LEMMA TypeParts ==
    /\ TypeOK => c \in Clients /\ s \in Sides /\ Others
    /\ TypeOK' <=> c' \in Clients /\ s' \in Sides /\ Others'
BY DEF TypeOK, Clients, Sides, Others, MaxLen

LEMMA EmptyFile == <<>> \in Seq(1..FileLen) /\ Len(<<>>) = 0
OBVIOUS

LEMMA AskStep ==
    ASSUME StepInv, NEW op \in Ops, Ask(op)
    PROVE  StepInv'
<1>1. /\ c' \in Clients
      /\ c'.at = "send" /\ c'.op = op /\ c'.n = 0 /\ c'.ok
    BY RequestLens DEF Ask, Clients, MaxLen
<1>2. TypeOK'
    <2>1. s \in Sides /\ Others
        BY TypeParts DEF StepInv
    <2>2. Others'
        <3>1. UNCHANGED <<c2s, s2c, held, g_stop, stored>>
            BY DEF Ask
        <3>2. local' \in Seq(1..FileLen) /\ Len(local') <= FileLen
            BY EmptyFile DEF Ask
        <3>3. handed' \in BOOLEAN /\ verdict' \in {"pending", "ok", "refused"}
              /\ known' \in {"pending", "ok", "refused", "unknown"}
            BY DEF Ask
        <3> QED
            BY <2>1, <3>1, <3>2, <3>3 DEF Others
    <2> QED
        BY <1>1, <2>1, <2>2, TypeParts DEF Ask
<1>3. ClientShape'
    <2>1. op # NoOp /\ RequestLen(op) # 0 /\ RequestLen(op) \in Nat /\ 0 < RequestLen(op)
        BY RequestLens
    <2>2. handed' = FALSE /\ known' = "pending"
        BY DEF Ask
    <2> QED
        BY <1>1, <2>1, <2>2 DEF ClientShape
<1>4. c'.op # NoOp /\ verdict' = "pending" => Requesting'
    <2>1. /\ c.at = "think" /\ s.n \in Nat /\ c.op' = op /\ op # NoOp /\ RequestLen(op) # 0
          /\ c.ok \/ c.op \notin {"upload", "download"}
          /\ UNCHANGED <<s, c2s, s2c>> /\ handed' = FALSE
        BY <1>1, TypeParts, RequestLens DEF StepInv, Ask, Sides, MaxLen
    <2>2. /\ s2c = <<>>
          /\ s.at # "closed" => c2s = <<>> /\ (s.at = "read" => s.n = 0)
          /\ s.at = "reply" => s.n = ReplyLen(s.op, s.ok) /\ ~s.leave
        <3>1. CASE c.op = NoOp
            BY <2>1, <3>1 DEF StepInv, ClientShape
        <3>2. CASE c.op # NoOp
            <4>1. s2c = <<>> /\ verdict = Word(c.ok)
                BY <2>1, <3>2 DEF StepInv, ClientShape
            <4>2. Replying
                BY <3>2, <4>1 DEF StepInv, Word
            <4>3. c.ok <=> verdict = "ok"
                BY <4>1 DEF Word
            <4>4. s.at = "reply" => s.op = c.op /\ s.ok = (verdict = "ok") /\ s.n = ReplyLen(c.op, verdict = "ok")
                BY <2>1, <4>2 DEF Replying
            <4>5. ~(s.at = "reply" /\ s.leave)
                BY <2>1, <4>2, <4>3 DEF Replying
            <4>6. s.at # "closed" => c2s = <<>>
                BY <2>1, <4>2, <4>5, TypeParts DEF Replying, StepInv, Sides
            <4>7. s.at = "read" => s.n = 0
                BY <2>1, <4>2, <4>5 DEF Replying
            <4> QED
                BY <4>1, <4>4, <4>5, <4>6, <4>7
        <3> QED
            BY <3>1, <3>2
    <2> QED
        BY <1>1, <2>1, <2>2 DEF Requesting, Follow, SentUnits, ReadUnits
<1> QED
    BY <1>2, <1>3, <1>4 DEF StepInv, Ask

LEMMA CutEmpty ==
    ASSUME NEW r \in Seq(Units), Cut(r, <<>>)
    PROVE  r = <<>>
BY DEF Cut

LEMMA ClientClosesStep ==
    ASSUME StepInv, ClientCloses,
           UNCHANGED <<s, held, g_stop, stored, local, handed, verdict>>
    PROVE  StepInv'
<1>1. /\ c \in Clients /\ s \in Sides /\ Others
    BY TypeParts DEF StepInv
<1>2. /\ s2c' = <<>> /\ c2s' \in Seq(Units) /\ Cut(c2s', c2s)
      /\ c' = [c EXCEPT !.at = "closed"]
      /\ known' = IF Pending THEN "unknown" ELSE known
    BY ClientClosesCut DEF StepInv
<1>3. /\ c' \in Clients /\ c'.at = "closed" /\ c'.op = c.op /\ c'.n = c.n /\ c'.ok = c.ok
    BY <1>1, <1>2 DEF Clients
<1>4. TypeOK'
    <2>1. Len(c2s') <= Cap /\ s2c' \in Seq(Units) /\ Len(s2c') <= Cap
        BY <1>1, <1>2 DEF Others, Cut
    <2>2. known' \in {"pending", "ok", "refused", "unknown"}
        BY <1>1, <1>2 DEF Others
    <2>3. Others'
        BY <1>1, <1>2, <2>1, <2>2 DEF Others
    <2> QED
        BY <1>1, <1>3, <2>3, TypeParts
<1>5. ClientShape'
    <2>1. c.op = NoOp => c2s' = <<>>
        BY <1>2, CutEmpty DEF StepInv, ClientShape
    <2>2. known' # "pending" \/ c.op = NoOp
        BY <1>2 DEF Pending
    <2>3. c.op = NoOp => known' = "pending"
        BY <1>2 DEF Pending, StepInv, ClientShape
    <2> QED
        BY <1>2, <1>3, <2>1, <2>2, <2>3 DEF StepInv, ClientShape
<1>6. ASSUME c'.op # NoOp, verdict' = "pending" PROVE Requesting'
    <2>1. Requesting
        BY <1>3, <1>6 DEF StepInv
    <2>2. SentUnits' = SentUnits /\ ReadUnits' = ReadUnits /\ ReadUnits \in Nat
        BY <1>1, <1>3 DEF SentUnits, ReadUnits, Sides, MaxLen
    <2>3. SentUnits \in Nat
        BY <1>1, <1>3, <1>6, RequestLens DEF SentUnits, Clients, Others, MaxLen
    <2>4. s.at # "closed" =>
             /\ ReadUnits + Len(c2s') <= SentUnits
             /\ Follow(c2s', ReadUnits, c.op)
        <3>1. ASSUME s.at # "closed" PROVE ReadUnits + Len(c2s') <= SentUnits
            <4>1. Len(c2s) \in Nat /\ Len(c2s') \in Nat /\ Len(c2s') <= Len(c2s)
                BY <1>1, <1>2 DEF Others, Cut
            <4>2. ReadUnits + Len(c2s) <= SentUnits
                BY <2>1, <3>1 DEF Requesting
            <4> QED
                BY <2>2, <2>3, <4>1, <4>2
        <3>2. ASSUME s.at # "closed" PROVE Follow(c2s', ReadUnits, c.op)
            <4>1. Follow(c2s, ReadUnits, c.op) /\ c2s \in Seq(Units)
                BY <1>1, <2>1, <3>2 DEF Requesting, Others
            <4> QED
                BY <1>2, <4>1, CutFollow
        <3> QED
            BY <3>1, <3>2
    <2> QED
        BY <1>2, <1>3, <2>1, <2>2, <2>4 DEF Requesting
<1>7. ASSUME c'.op # NoOp, verdict' # "pending" PROVE Replying'
    <2>1. Replying
        BY <1>3, <1>7 DEF StepInv
    <2>2. c2s = <<>> => c2s' = <<>>
        BY <1>2, CutEmpty
    <2>3. s2c' = <<>> /\ Len(s2c') = 0
        BY <1>2
    <2> QED
        BY <1>3, <2>1, <2>2, <2>3 DEF Replying, Follow
<1> QED
    BY <1>4, <1>5, <1>6, <1>7 DEF StepInv

\* The server has closed, and maybe the last copy of the socket is gone.
LEMMA ServerClosedStep ==
    ASSUME StepInv, s' \in Sides, s'.at = "closed", c.op = NoOp => s'.n = 0,
           c2s' \in Seq(Units), Len(c2s') <= Len(c2s), s2c' \in Seq(Units), Cut(s2c', s2c),
           held' \in BOOLEAN, g_stop' \in BOOLEAN, UNCHANGED <<c, stored, local, ghosts>>
    PROVE  StepInv'
<1>1. /\ c \in Clients /\ s \in Sides /\ Others
    BY TypeParts DEF StepInv
<1>2. /\ c2s' \in Seq(Units) /\ Len(c2s') <= Len(c2s)
      /\ s2c' \in Seq(Units) /\ Cut(s2c', s2c)
      /\ UNCHANGED <<handed, verdict, known>>
    BY DEF ghosts
<1>3. s' \in Sides /\ s'.at = "closed" /\ (c.op = NoOp => s'.n = 0)
    OBVIOUS
<1>4. TypeOK'
    <2>1. Len(c2s') <= Cap /\ Len(s2c') <= Cap
        BY <1>1, <1>2 DEF Others, Cut
    <2>2. Others'
        BY <1>1, <1>2, <2>1 DEF Others
    <2> QED
        BY <1>1, <1>3, <2>2, TypeParts
<1>5. ClientShape'
    <2>1. c2s = <<>> => c2s' = <<>>
        BY <1>2
    <2>2. s2c = <<>> => s2c' = <<>>
        BY <1>2, CutEmpty
    <2> QED
        BY <1>2, <1>3, <2>1, <2>2 DEF StepInv, ClientShape
<1>6. ASSUME c'.op # NoOp, verdict' = "pending" PROVE Requesting'
    <2>1. Requesting
        BY <1>2, <1>6 DEF StepInv
    <2>2. s2c' = <<>>
        BY <1>2, <2>1, CutEmpty DEF Requesting
    <2> QED
        BY <1>3, <2>1, <2>2 DEF Requesting
<1>7. ASSUME c'.op # NoOp, verdict' # "pending" PROVE Replying'
    <2>1. Replying
        BY <1>2, <1>7 DEF StepInv
    <2>2. Follow(s2c', Got, c.op) /\ Len(s2c') <= Len(s2c)
          /\ \A i \in 1..Len(s2c') : s2c'[i] = s2c[i]
        BY <1>1, <1>2, <2>1, CutFollow DEF Replying, Cut, Others
    <2>3. \A i \in 1..Len(s2c') : s2c'[i].ok = (verdict = "ok")
        <3>1. \A i \in 1..Len(s2c) : s2c[i].ok = (verdict = "ok")
            BY <2>1 DEF Replying
        <3>2. Len(s2c) \in Nat /\ Len(s2c') \in Nat
            BY <1>1, <1>2 DEF Others
        <3> QED
            BY <2>2, <3>1, <3>2
    <2>4. c.at # "closed" => Got + Len(s2c') <= ReplyLen(c.op, verdict = "ok")
        <3>1. Got \in Nat
            BY <1>1 DEF Got, Clients, MaxLen
        <3>2. ReplyLen(c.op, verdict = "ok") \in Nat
            <4>1. c.op \in Ops /\ (verdict = "ok") \in BOOLEAN
                BY <1>1, <1>7 DEF Clients
            <4> QED
                BY <4>1, ReplyLens
        <3> QED
            BY <1>1, <1>2, <2>1, <2>2, <3>1, <3>2 DEF Replying, Others
    <2>5. Got' = Got
        BY DEF Got
    <2> QED
        BY <1>2, <1>3, <2>1, <2>2, <2>3, <2>4, <2>5 DEF Replying
<1> QED
    BY <1>4, <1>5, <1>6, <1>7 DEF StepInv

LEMMA ServerClosesStep ==
    ASSUME StepInv, ServerCloses, g_stop' \in BOOLEAN,
           UNCHANGED <<c, held, stored, local, ghosts>>
    PROVE  StepInv'
<1>1. s \in Sides /\ held \in BOOLEAN
    BY TypeParts DEF StepInv, Others
<1>2. /\ c2s' \in Seq(Units) /\ Len(c2s') <= Len(c2s)
      /\ s2c' \in Seq(Units) /\ Cut(s2c', s2c)
      /\ s' = [s EXCEPT !.at = "closed", !.n = 0]
    BY ServerClosesCut DEF StepInv
<1>3. s' \in Sides /\ s'.at = "closed" /\ s'.n = 0
    <2>1. 0 \in 0..MaxLen
        BY DEF MaxLen
    <2> QED
        BY <1>1, <1>2, <2>1 DEF Sides
<1> QED
    BY <1>1, <1>2, <1>3, ServerClosedStep

LEMMA Grow ==
    ASSUME NEW q \in Seq(Units), NEW u \in Units
    PROVE  /\ Append(q, u) \in Seq(Units) /\ Len(q) \in Nat
           /\ Len(Append(q, u)) = Len(q) + 1
OBVIOUS

LEMMA Fits ==
    ASSUME NEW n \in Nat, n < Cap
    PROVE  n + 1 <= Cap
OBVIOUS

LEMMA ClientSendsStep ==
    ASSUME StepInv, ClientSends
    PROVE  StepInv'
<1>1. /\ c \in Clients /\ s \in Sides /\ Others
    BY TypeParts DEF StepInv
<1>2. /\ c.at = "send" /\ c.n < RequestLen(c.op)
      /\ c' = [c EXCEPT !.n = c.n + 1]
      /\ UNCHANGED <<s, s2c, held, g_stop, stored, local, verdict, known>>
    BY DEF ClientSends
<1>12. handed' \in BOOLEAN /\ (handed' <=> c.n + 1 = RequestLen(c.op))
    BY DEF ClientSends
<1>3. /\ c.op \in Ops /\ c.op # NoOp /\ known = "pending" /\ ~handed /\ c.ok
    BY <1>1, <1>2 DEF StepInv, ClientShape, Clients
<1>4. /\ RequestLen(c.op) \in Nat /\ RequestLen(c.op) <= MaxLen /\ c.n \in Nat
    BY <1>1, <1>3, RequestLens DEF Clients, MaxLen
<1>5. /\ c' \in Clients /\ c'.at = "send" /\ c'.op = c.op /\ c'.n = c.n + 1 /\ c'.ok = c.ok
    <2>1. c.n + 1 \in 0..MaxLen
        BY <1>2, <1>4 DEF MaxLen
    <2> QED
        BY <1>1, <1>2, <2>1 DEF Clients
<1>6. /\ c2s' \in Seq(Units) /\ Len(c2s') <= Cap
      /\ \/ s.at = "closed"
         \/ c2s' = Append(c2s, Unit(c.op, c.n + 1, TRUE))
    <2>1. Unit(c.op, c.n + 1, TRUE) \in Units
        BY <1>2, <1>3, <1>4 DEF Unit, Units, MaxLen
    <2>2. CASE Ended
        BY <1>1, <2>2 DEF ClientSends, Ended, Others
    <2>3. CASE ~Ended
        <3>1. c2s \in Seq(Units) /\ Len(c2s) < Cap
              /\ c2s' = Append(c2s, Unit(c.op, c.n + 1, TRUE))
            BY <1>1, <2>3 DEF ClientSends, Others
        <3>2. /\ Append(c2s, Unit(c.op, c.n + 1, TRUE)) \in Seq(Units)
              /\ Len(Append(c2s, Unit(c.op, c.n + 1, TRUE))) = Len(c2s) + 1
              /\ Len(c2s) \in Nat
            BY <2>1, <3>1, Grow
        <3> QED
            BY <3>1, <3>2, Fits
    <2> QED
        BY <2>2, <2>3
<1>7. TypeOK'
    <2>1. Others'
        BY <1>1, <1>2, <1>12, <1>6 DEF Others
    <2> QED
        BY <1>1, <1>2, <1>5, <2>1, TypeParts
<1>8. ClientShape'
    <2>1. /\ c'.n <= RequestLen(c'.op) /\ (handed' <=> c'.n = RequestLen(c'.op))
          /\ ~handed' => c'.n < RequestLen(c'.op)
        BY <1>2, <1>12, <1>4, <1>5
    <2> QED
        BY <1>2, <1>3, <1>5, <2>1 DEF ClientShape
<1>9. ASSUME verdict' = "pending" PROVE Requesting'
    <2>1. Requesting
        BY <1>2, <1>3, <1>9 DEF StepInv
    <2>2. SentUnits = c.n /\ SentUnits' = c.n + 1 /\ ReadUnits' = ReadUnits /\ ReadUnits \in Nat
        BY <1>1, <1>2, <1>12, <1>3, <1>4, <1>5 DEF SentUnits, ReadUnits, Sides, MaxLen
    <2>3. ASSUME s.at # "closed"
          PROVE  /\ ReadUnits + Len(c2s') = SentUnits'
                 /\ Follow(c2s', ReadUnits, c.op)
        <3>1. /\ ReadUnits + Len(c2s) = c.n /\ Follow(c2s, ReadUnits, c.op) /\ c2s \in Seq(Units)
              /\ Len(c2s) \in Nat
            BY <1>1, <1>2, <2>1, <2>2, <2>3 DEF Requesting, Others
        <3>2. /\ Unit(c.op, c.n + 1, TRUE) \in Units
              /\ Unit(c.op, c.n + 1, TRUE).at = c.n + 1 /\ Unit(c.op, c.n + 1, TRUE).op = c.op
            BY <1>2, <1>3, <1>4 DEF Unit, Units, MaxLen
        <3>3. c.n + 1 = ReadUnits + Len(c2s) + 1
            BY <2>2, <3>1
        <3>4. /\ Len(Append(c2s, Unit(c.op, c.n + 1, TRUE))) = Len(c2s) + 1
              /\ Follow(Append(c2s, Unit(c.op, c.n + 1, TRUE)), ReadUnits, c.op)
            BY <2>2, <3>1, <3>2, <3>3, QueueAppend
        <3>5. c2s' = Append(c2s, Unit(c.op, c.n + 1, TRUE))
            BY <1>6, <2>3
        <3>6. Follow(c2s', ReadUnits, c.op)
            BY <3>4, <3>5
        <3>7. ReadUnits + Len(c2s') = SentUnits'
            BY <1>4, <2>2, <3>1, <3>4, <3>5
        <3> QED
            BY <3>6, <3>7
    <2> QED
        BY <1>2, <1>5, <2>1, <2>2, <2>3 DEF Requesting
<1>10. ASSUME verdict' # "pending" PROVE Replying'
    <2>1. Replying /\ s.at # "read" /\ (s.at = "reply" => s.leave)
        BY <1>2, <1>3, <1>10 DEF StepInv, Replying
    <2>2. Got' = Got
        BY <1>2, <1>5 DEF Got
    <2> QED
        BY <1>2, <1>5, <2>1, <2>2 DEF Replying
<1> QED
    BY <1>7, <1>8, <1>9, <1>10 DEF StepInv

LEMMA SentStep ==
    ASSUME StepInv, Sent
    PROVE  StepInv'
<1>1. /\ c \in Clients /\ s \in Sides /\ Others
    BY TypeParts DEF StepInv
<1>2. /\ c.at = "send" /\ c.n = RequestLen(c.op)
      /\ c' = [c EXCEPT !.at = "read", !.n = 0]
      /\ UNCHANGED <<s, c2s, s2c, held, g_stop, stored, local, handed, verdict, known>>
    BY DEF Sent, ghosts
<1>3. /\ c.op \in Ops /\ c.op # NoOp /\ known = "pending" /\ handed /\ c.ok
    BY <1>1, <1>2 DEF StepInv, ClientShape, Clients
<1>4. /\ c' \in Clients /\ c'.at = "read" /\ c'.op = c.op /\ c'.n = 0 /\ c'.ok = c.ok
    <2>1. 0 \in 0..MaxLen
        BY DEF MaxLen
    <2> QED
        BY <1>1, <1>2, <2>1 DEF Clients
<1>5. TypeOK'
    <2>1. Others'
        BY <1>1, <1>2 DEF Others
    <2> QED
        BY <1>1, <1>2, <1>4, <2>1, TypeParts
<1>6. ClientShape'
    BY <1>2, <1>3, <1>4 DEF ClientShape
<1>7. ASSUME verdict' = "pending" PROVE Requesting'
    <2>1. Requesting
        BY <1>2, <1>3, <1>7 DEF StepInv
    <2>2. SentUnits' = SentUnits /\ ReadUnits' = ReadUnits
        BY <1>2, <1>3, <1>4 DEF SentUnits, ReadUnits
    <2> QED
        BY <1>2, <1>3, <1>4, <2>1, <2>2 DEF Requesting
<1>8. ASSUME verdict' # "pending" PROVE Replying'
    <2>1. Replying
        BY <1>2, <1>3, <1>8 DEF StepInv
    <2>2. Got' = Got
        BY <1>2, <1>4 DEF Got
    <2>3. c'.n <= HeaderLen
        BY <1>4
    <2> QED
        BY <1>2, <1>3, <1>4, <2>1, <2>2, <2>3 DEF Replying
<1> QED
    BY <1>5, <1>6, <1>7, <1>8 DEF StepInv

\* A verdict and what goes with it in a reply.
LEMMA Verdict ==
    ASSUME StepInv, c.op # NoOp, verdict # "pending"
    PROVE  /\ c.op \in Ops
           /\ Replying
           /\ (verdict = "ok") \in BOOLEAN
           /\ Word(verdict = "ok") = verdict
<1>1. c \in Clients /\ Others
    BY TypeParts DEF StepInv
<1> QED
    BY <1>1 DEF StepInv, Clients, Others, Word

LEMMA ClientReadsStep ==
    ASSUME StepInv, FileInv, ClientReads
    PROVE  StepInv'
<1>1. /\ c \in Clients /\ s \in Sides /\ Others
    BY TypeParts DEF StepInv
<1>2. /\ c.at = "read" /\ c.n < ReplyLen(c.op, c.ok)
      /\ s2c # <<>> /\ s2c' = Tail(s2c)
      /\ c' = [c EXCEPT !.n = c.n + 1, !.ok = IF c.n = HeaderLen THEN Head(s2c).ok ELSE c.ok]
      /\ UNCHANGED <<s, c2s, held, g_stop, stored, handed, verdict, known>>
    BY DEF ClientReads, ghosts
<1>3. /\ c.op # NoOp /\ known = "pending" /\ handed /\ c.n \in Nat /\ c.ok \in BOOLEAN
    BY <1>1, <1>2 DEF StepInv, ClientShape, Clients, MaxLen
<1>4. verdict # "pending"
    BY <1>2, <1>3 DEF StepInv, Requesting
<1> DEFINE ok == verdict = "ok"
<1>5. /\ c.op \in Ops /\ Replying /\ ok \in BOOLEAN
    BY <1>3, <1>4, Verdict
<1>6. /\ ReplyLen(c.op, c.ok) \in Nat /\ ReplyLen(c.op, c.ok) <= MaxLen
      /\ ReplyLen(c.op, ok) \in Nat
    BY <1>3, <1>5, ReplyLens DEF MaxLen
<1>7. /\ s2c \in Seq(Units) /\ Follow(s2c, c.n, c.op) /\ Got = c.n
      /\ \A i \in 1..Len(s2c) : s2c[i].ok = ok
    BY <1>1, <1>2, <1>5 DEF Others, Replying, Got
<1>8. /\ Tail(s2c) \in Seq(Units) /\ Len(s2c) > 0 /\ Len(Tail(s2c)) = Len(s2c) - 1
      /\ Head(s2c).at = c.n + 1
      /\ Follow(Tail(s2c), c.n + 1, c.op)
      /\ \A i \in 1..Len(Tail(s2c)) : Tail(s2c)[i] = s2c[i + 1]
    BY <1>2, <1>3, <1>7, QueueTail
<1>14. Head(s2c).at = c.n + 1
    BY <1>8
<1>9. Head(s2c).ok = ok
    BY <1>2, <1>7, <1>8
<1>10. /\ c' \in Clients /\ c'.at = "read" /\ c'.op = c.op /\ c'.n = c.n + 1
       /\ c'.ok = IF c.n = HeaderLen THEN ok ELSE c.ok
    <2>1. c.n + 1 \in 0..MaxLen
        BY <1>2, <1>3, <1>6 DEF MaxLen
    <2>2. (IF c.n = HeaderLen THEN Head(s2c).ok ELSE c.ok) \in BOOLEAN
        BY <1>3, <1>9
    <2> QED
        BY <1>1, <1>2, <1>9, <2>1, <2>2 DEF Clients
<1>11. TypeOK'
    <2>1. s2c' \in Seq(Units) /\ Len(s2c') <= Cap
        BY <1>1, <1>2, <1>8 DEF Others
    <2>2. local' \in Seq(1..FileLen) /\ Len(local') <= FileLen
        <3>1. CASE c.op = "download" /\ c.n >= Body
            <4>1. Body \in Nat /\ FileLen \in Nat
                BY DEF Body
            <4>7. c.ok /\ c.n < Body + FileLen
                <5>1. ~c.ok => ReplyLen(c.op, c.ok) = Body
                    BY <1>3, <1>5, <3>1, ReplyLens
                <5>2. c.ok => ReplyLen(c.op, c.ok) = Body + FileLen
                    BY <1>3, <1>5, <3>1, ReplyLens
                <5> QED
                    BY <1>2, <1>3, <3>1, <4>1, <5>1, <5>2
            <4>2. (c.n + 1) - Body \in 1..FileLen
                BY <1>3, <3>1, <4>1, <4>7
            <4>3. local \in Seq(1..FileLen) /\ Len(local) = Beyond(c.n)
                BY <1>1, <1>2, <3>1 DEF FileInv, Prefix, Others
            <4>4. Len(local) < FileLen /\ Len(local) \in Nat
                BY <1>3, <3>1, <4>1, <4>7, <4>3 DEF Beyond
            <4>5. local' = Append(local, (c.n + 1) - Body)
                <5>1. local' = Append(local, Head(s2c).at - Body)
                    BY <3>1 DEF ClientReads
                <5> QED
                    BY <1>14, <5>1
            <4> QED
                BY <4>2, <4>3, <4>4, <4>5
        <3>2. CASE ~(c.op = "download" /\ c.n >= Body)
            BY <1>1, <3>2 DEF ClientReads, Others
        <3> QED
            BY <3>1, <3>2
    <2>3. Others'
        BY <1>1, <1>2, <2>1, <2>2 DEF Others
    <2> QED
        BY <1>1, <1>2, <1>10, <2>3, TypeParts
<1>12. ClientShape'
    BY <1>2, <1>3, <1>10 DEF ClientShape
<1>13. Replying'
    <2>1. Got' = c.n + 1
        BY <1>10 DEF Got
    <2>2. \A i \in 1..Len(s2c') : s2c'[i].ok = ok
        BY <1>2, <1>7, <1>8
    <2>3. Follow(s2c', Got', c.op)
        BY <1>2, <1>8, <2>1
    <2>4. Got' + Len(s2c') = Got + Len(s2c)
        BY <1>2, <1>3, <1>7, <1>8, <2>1
    <2>5. c'.ok = (ok \/ c'.n <= HeaderLen)
        <3>1. c.ok = (ok \/ c.n <= HeaderLen)
            BY <1>2, <1>5 DEF Replying
        <3>2. CASE c.n = HeaderLen
            BY <1>3, <1>5, <1>10, <3>2
        <3>3. CASE c.n # HeaderLen
            BY <1>3, <1>5, <1>10, <3>1, <3>3
        <3> QED
            BY <3>2, <3>3
    <2> QED
        BY <1>2, <1>3, <1>5, <1>10, <2>2, <2>3, <2>4, <2>5 DEF Replying
<1> QED
    BY <1>2, <1>4, <1>11, <1>12, <1>13 DEF StepInv

LEMMA LearnStep ==
    ASSUME StepInv, Learn
    PROVE  StepInv' /\ verdict # "pending" /\ known' = verdict
<1>1. /\ c \in Clients /\ s \in Sides /\ Others
    BY TypeParts DEF StepInv
<1>2. /\ c.at = "read" /\ c.n = ReplyLen(c.op, c.ok) /\ known' = Word(c.ok)
      /\ c' = [c EXCEPT !.at = "think"]
      /\ UNCHANGED <<s, c2s, s2c, held, g_stop, stored, local, handed, verdict>>
    BY DEF Learn
<1>3. /\ c.op \in Ops /\ c.op # NoOp /\ known = "pending" /\ handed /\ c.n \in Nat /\ c.ok \in BOOLEAN
    BY <1>1, <1>2 DEF StepInv, ClientShape, Clients, MaxLen
<1>4. c.n >= HeaderLen /\ HeaderLen > 0 /\ HeaderLen \in Nat
    <2>1. HeaderLen > 0 /\ HeaderLen \in Nat
        OBVIOUS
    <2>2. ReplyLen(c.op, c.ok) >= HeaderLen
        BY <1>3, ReplyLens
    <2> QED
        BY <1>2, <2>1, <2>2
<1>5. verdict # "pending"
    BY <1>2, <1>3, <1>4 DEF StepInv, Requesting
<1> DEFINE ok == verdict = "ok"
<1>6. /\ Replying /\ ok \in BOOLEAN /\ Word(ok) = verdict
    BY <1>3, <1>5, Verdict
<1>7. c.ok = ok
    <2>1. c.ok = (ok \/ c.n <= HeaderLen)
        BY <1>2, <1>6 DEF Replying
    <2>2. CASE c.op \in {"ping", "shutdown"}
        <3>1. ok /\ c.n = HeaderLen
            BY <1>2, <1>3, <1>6, <2>2, ReplyLens DEF Replying
        <3> QED
            BY <1>4, <2>1, <3>1
    <2>3. CASE c.op \notin {"ping", "shutdown"}
        <3>1. c.n > HeaderLen
            BY <1>2, <1>3, <2>3, ReplyLens
        <3>2. ~(c.n <= HeaderLen)
            BY <1>3, <1>4, <3>1
        <3> QED
            BY <1>6, <2>1, <3>2
    <2> QED
        BY <2>2, <2>3
<1>8. /\ c' \in Clients /\ c'.at = "think" /\ c'.op = c.op /\ c'.n = c.n /\ c'.ok = c.ok
    BY <1>1, <1>2 DEF Clients
<1>9. known' = verdict
    BY <1>2, <1>6, <1>7
<1>10. s2c = <<>>
    <2>1. c.n + Len(s2c) <= c.n
        BY <1>2, <1>6, <1>7 DEF Replying, Got
    <2>2. s2c \in Seq(Units)
        BY <1>1 DEF Others
    <2> QED
        BY <1>3, <2>1, <2>2
<1>11. TypeOK'
    <2>1. Others'
        BY <1>1, <1>2, <1>9 DEF Others
    <2> QED
        BY <1>1, <1>2, <1>8, <2>1, TypeParts
<1>12. ClientShape'
    BY <1>2, <1>3, <1>6, <1>7, <1>8, <1>9, <1>10 DEF ClientShape
<1>13. Replying'
    <2>1. Got' = 0 /\ Got = c.n
        BY <1>2, <1>8 DEF Got
    <2>2. Len(s2c') = 0 /\ Follow(s2c', Got', c.op)
        BY <1>2, <1>10 DEF Follow
    <2>3. Got' + Len(s2c') <= ReplyLen(c.op, ok)
        BY <1>2, <1>3, <1>7, <2>1, <2>2
    <2>4. s.at = "reply" => s.n = ReplyLen(c.op, ok)
        BY <1>2, <1>3, <1>6, <1>7, <1>10, <2>1 DEF Replying
    <2> QED
        BY <1>2, <1>6, <1>8, <2>2, <2>3, <2>4 DEF Replying
<1> QED
    BY <1>2, <1>5, <1>9, <1>11, <1>12, <1>13 DEF StepInv

\* While the request is being read.
LEMMA Request ==
    ASSUME StepInv, s.at = "read", s.n > 0 \/ c2s # <<>>
    PROVE  /\ c.op \in Ops /\ c.op # NoOp /\ verdict = "pending" /\ Requesting
           /\ s.n \in Nat /\ Len(c2s) \in Nat
           /\ s.n + Len(c2s) <= RequestLen(c.op) /\ RequestLen(c.op) \in Nat
           /\ s.n + Len(c2s) = RequestLen(c.op) => handed
           /\ Follow(c2s, s.n, c.op)
           /\ s.n > 0 => s.op = c.op
<1>1. /\ c \in Clients /\ s \in Sides /\ Others
    BY TypeParts DEF StepInv
<1>2. c.n \in Nat /\ s.n \in Nat /\ Len(c2s) \in Nat
    BY <1>1 DEF Clients, Sides, Others, MaxLen
<1>3. c.op # NoOp /\ c.op \in Ops
    BY <1>1, <1>2 DEF StepInv, ClientShape, Clients
<1>4. verdict = "pending" /\ Requesting
    BY <1>2, <1>3 DEF StepInv, Replying
<1>5. /\ s.n + Len(c2s) <= SentUnits /\ Follow(c2s, s.n, c.op) /\ (s.n > 0 => s.op = c.op)
    BY <1>4 DEF Requesting, ReadUnits
<1>6. RequestLen(c.op) \in Nat
    BY <1>3, RequestLens
<1>7. SentUnits <= RequestLen(c.op) /\ (SentUnits = RequestLen(c.op) => handed) /\ SentUnits \in Nat
    <2>1. CASE handed
        BY <1>6, <2>1 DEF SentUnits
    <2>2. CASE ~handed
        BY <1>2, <1>3, <1>6, <2>2 DEF SentUnits, StepInv, ClientShape
    <2> QED
        BY <2>1, <2>2
<1> QED
    BY <1>2, <1>3, <1>4, <1>5, <1>6, <1>7

LEMMA ServerReadsStep ==
    ASSUME StepInv, FileInv, ServerReads
    PROVE  StepInv'
<1>1. /\ c \in Clients /\ s \in Sides /\ Others
    BY TypeParts DEF StepInv
<1>2. /\ s.at = "read" /\ c2s # <<>> /\ c2s' = Tail(c2s)
      /\ s' = [s EXCEPT !.n = s.n + 1, !.op = IF s.n < HeaderLen THEN Head(c2s).op ELSE s.op]
      /\ stored' = IF s.n < Body THEN <<>> ELSE Append(stored, Head(c2s).at - Body)
      /\ UNCHANGED <<c, s2c, held, g_stop, local, handed, verdict, known>>
    BY DEF ServerReads, Wants, ghosts
<1>3. /\ c.op \in Ops /\ c.op # NoOp /\ verdict = "pending" /\ Requesting
      /\ s.n \in Nat /\ Len(c2s) \in Nat
      /\ s.n + Len(c2s) <= RequestLen(c.op) /\ RequestLen(c.op) \in Nat
      /\ Follow(c2s, s.n, c.op)
      /\ s.n > 0 => s.op = c.op
    BY <1>2, Request
<1>4. /\ Tail(c2s) \in Seq(Units) /\ Len(c2s) > 0 /\ Len(Tail(c2s)) = Len(c2s) - 1
      /\ Head(c2s).at = s.n + 1 /\ Head(c2s).op = c.op
      /\ Follow(Tail(c2s), s.n + 1, c.op)
    <2>1. c2s \in Seq(Units)
        BY <1>1 DEF Others
    <2> QED
        BY <1>2, <1>3, <2>1, QueueTail
<1>5. Head(c2s).at = s.n + 1 /\ Head(c2s).op = c.op
    BY <1>4
<1>6. s.n < RequestLen(c.op) /\ HeaderLen \in Nat /\ HeaderLen > 0 /\ Body \in Nat
    <2>1. HeaderLen \in Nat /\ HeaderLen > 0 /\ Body \in Nat
        BY DEF Body
    <2> QED
        BY <1>3, <1>4, <2>1
<1>7. s' \in Sides /\ s'.at = "read" /\ s'.n = s.n + 1 /\ s'.op = c.op
    <2>1. (IF s.n < HeaderLen THEN Head(c2s).op ELSE s.op) = c.op
        BY <1>3, <1>5, <1>6
    <2>2. s.n + 1 \in 0..MaxLen
        <3>1. RequestLen(c.op) <= MaxLen /\ MaxLen \in Nat
            BY <1>3, RequestLens DEF MaxLen
        <3> QED
            BY <1>3, <1>6, <3>1
    <2> QED
        BY <1>1, <1>2, <1>3, <2>1, <2>2 DEF Sides
<1>8. TypeOK'
    <2>1. c2s' \in Seq(Units) /\ Len(c2s') <= Cap
        BY <1>1, <1>2, <1>4 DEF Others
    <2>2. stored' \in Seq(1..FileLen) /\ Len(stored') <= FileLen
        <3>1. CASE s.n < Body
            BY <1>2, <3>1, EmptyFile
        <3>2. CASE ~(s.n < Body)
            <4>1. s.n < Body + FileLen /\ FileLen \in Nat
                <5>1. FileLen \in Nat /\ (RequestLen(c.op) = Body + FileLen \/ RequestLen(c.op) <= Body)
                    BY <1>3, RequestLens
                <5> QED
                    BY <1>3, <1>6, <5>1, <3>2
            <4>2. (s.n + 1) - Body \in 1..FileLen
                BY <1>3, <1>6, <3>2, <4>1
            <4>3. s.n > 0
                BY <1>3, <1>6, <3>2 DEF Body
            <4>4. stored \in Seq(1..FileLen) /\ Len(stored) = Beyond(s.n)
                BY <1>1, <1>2, <1>3, <4>3 DEF FileInv, Prefix, Others
            <4>5. Len(stored) < FileLen /\ Len(stored) \in Nat
                BY <1>3, <1>6, <3>2, <4>1, <4>4 DEF Beyond
            <4>6. stored' = Append(stored, (s.n + 1) - Body)
                BY <1>2, <1>5, <3>2
            <4> QED
                BY <4>2, <4>4, <4>5, <4>6
        <3> QED
            BY <3>1, <3>2
    <2>3. Others'
        BY <1>1, <1>2, <2>1, <2>2 DEF Others
    <2> QED
        BY <1>1, <1>2, <1>7, <2>3, TypeParts
<1>9. ClientShape'
    BY <1>2, <1>3 DEF StepInv, ClientShape
<1>10. Requesting'
    <2>1. ReadUnits = s.n /\ ReadUnits' = s.n + 1 /\ SentUnits' = SentUnits
        BY <1>2, <1>7 DEF ReadUnits, SentUnits
    <2>2. ReadUnits' + Len(c2s') = ReadUnits + Len(c2s)
        BY <1>2, <1>3, <1>4, <2>1
    <2>3. Follow(c2s', ReadUnits', c.op)
        BY <1>2, <1>4, <2>1
    <2> QED
        BY <1>2, <1>3, <1>7, <2>1, <2>2, <2>3 DEF Requesting
<1> QED
    BY <1>2, <1>3, <1>8, <1>9, <1>10 DEF StepInv

\* The server begins to answer.
LEMMA Decides ==
    ASSUME StepInv, Requesting, c.op \in Ops, c.op # NoOp, NEW ok \in BOOLEAN,
           (verdict' = "ok") <=> ok,
           UNCHANGED <<c, s2c, handed>>,
           s'.at = "reply", s'.op = c.op, s'.n = 0, s'.ok = ok,
           ~ok => c.op \in {"submit", "upload", "download"},
           ~s'.leave => handed /\ c2s' = <<>>,
           s'.leave => c.op = "upload" /\ ~ok
    PROVE  Replying'
<1> DEFINE good == verdict' = "ok"
<1>1. good \in BOOLEAN /\ good = ok
    OBVIOUS
<1>2. Got' = 0 /\ s2c' = <<>> /\ Len(s2c') = 0
    BY DEF Got, Requesting
<1>3. ReplyLen(c.op, good) \in Nat
    BY <1>1, ReplyLens
<1>4. c.at = "read" => c.n = 0 /\ c.ok
    BY DEF Requesting
<1>5. c.at # "think"
    BY DEF Requesting
<1>6. Follow(s2c', Got', c.op)
    BY <1>2 DEF Follow
<1>7. c.at = "read" => c.ok = (good \/ c.n <= HeaderLen)
    <2>1. c.ok \in BOOLEAN /\ 0 <= HeaderLen
        BY TypeParts DEF StepInv, Clients
    <2> QED
        BY <1>4, <2>1
<1>8. /\ \A i \in 1..Len(s2c') : s2c'[i].ok = good
      /\ Got' + Len(s2c') <= ReplyLen(c.op, good)
      /\ s'.n <= ReplyLen(c.op, good)
      /\ Got' + Len(s2c') = s'.n
    BY <1>2, <1>3
<1>9. s'.ok = good /\ (~good => c.op \in {"submit", "upload", "download"})
      /\ (s'.leave => c.op = "upload" /\ ~good)
    BY <1>1
<1> HIDE DEF good
<1>10. good = (verdict' = "ok")
    BY DEF good
<1> QED
    BY <1>5, <1>6, <1>7, <1>8, <1>9, <1>10 DEF Replying

LEMMA StoreFailsStep ==
    ASSUME StepInv, StoreFails
    PROVE  StepInv' /\ c.op # NoOp /\ verdict = "pending" /\ verdict' = "refused"
<1>1. /\ c \in Clients /\ s \in Sides /\ Others
    BY TypeParts DEF StepInv
<1>2. /\ s.at = "read" /\ s.op = "upload" /\ s.n >= Body
      /\ c2s' = c2s \/ (c2s # <<>> /\ c2s' = Tail(c2s))
      /\ s' = [s EXCEPT !.at = "reply", !.n = 0, !.ok = FALSE, !.leave = TRUE]
      /\ verdict' = "refused"
      /\ UNCHANGED <<c, s2c, held, g_stop, stored, local, handed, known>>
    BY DEF StoreFails, Answer, Word
<1>3. s.n > 0
    <2>1. Body \in Nat /\ Body > 0 /\ s.n \in Nat
        BY <1>1 DEF Body, Sides, MaxLen
    <2> QED
        BY <1>2, <2>1
<1>4. /\ c.op \in Ops /\ c.op # NoOp /\ verdict = "pending" /\ Requesting /\ c.op = "upload"
    BY <1>2, <1>3, Request
<1>5. /\ s' \in Sides /\ s'.at = "reply" /\ s'.op = c.op /\ s'.n = 0 /\ s'.ok = FALSE
      /\ s'.leave = TRUE
    <2>1. 0 \in 0..MaxLen
        BY DEF MaxLen
    <2> QED
        BY <1>1, <1>2, <1>4, <2>1 DEF Sides
<1>6. TypeOK'
    <2>1. c2s' \in Seq(Units) /\ Len(c2s') <= Cap
        <3>1. c2s \in Seq(Units) /\ Len(c2s) <= Cap /\ Cap \in Nat
            BY <1>1 DEF Others
        <3>2. c2s # <<>> => Tail(c2s) \in Seq(Units) /\ Len(Tail(c2s)) <= Cap
            BY <3>1
        <3>3. c2s' = c2s \/ (c2s # <<>> /\ c2s' = Tail(c2s))
            BY <1>2
        <3> QED
            BY <3>1, <3>2, <3>3
    <2>2. Others'
        BY <1>1, <1>2, <2>1 DEF Others
    <2> QED
        BY <1>1, <1>2, <1>5, <2>2, TypeParts
<1>7. c.at # "think"
    BY <1>4 DEF Requesting
<1>8. ClientShape'
    BY <1>2, <1>4, <1>7 DEF StepInv, ClientShape
<1>9. Replying'
    <2>1. /\ ~((verdict' = "ok") <=> TRUE)
          /\ UNCHANGED <<c, s2c, handed>> /\ FALSE \in BOOLEAN
        BY <1>2
    <2> QED
        BY <1>2, <1>4, <1>5, <2>1, Decides
<1> QED
    BY <1>2, <1>4, <1>6, <1>8, <1>9 DEF StepInv

LEMMA HandleStep ==
    ASSUME StepInv, Handle
    PROVE  /\ StepInv' /\ c.op # NoOp /\ verdict = "pending" /\ handed
           /\ verdict' \in {"ok", "refused"} /\ s.n = RequestLen(c.op) /\ s.n > 0
<1>1. /\ c \in Clients /\ s \in Sides /\ Others
    BY TypeParts DEF StepInv
<1>2. /\ s.at = "read" /\ s.n >= HeaderLen /\ s.n = RequestLen(s.op)
      /\ held' \in {held, TRUE}
      /\ UNCHANGED <<c, c2s, s2c, g_stop, stored, local, handed, known>>
    BY DEF Handle
<1>3. PICK ok \in BOOLEAN :
         /\ ~ok => s.op \in {"submit", "download"}
         /\ s' = [s EXCEPT !.at = "reply", !.n = 0, !.ok = ok, !.leave = FALSE]
         /\ verdict' = Word(ok)
    BY DEF Handle, Answer
<1>4. s.n > 0
    <2>1. HeaderLen \in Nat /\ HeaderLen > 0 /\ s.n \in Nat
        BY <1>1 DEF Sides, MaxLen
    <2> QED
        BY <1>2, <2>1
<1>5. /\ c.op \in Ops /\ c.op # NoOp /\ verdict = "pending" /\ Requesting /\ s.op = c.op
      /\ c2s = <<>> /\ handed
    <2>1. /\ c.op \in Ops /\ c.op # NoOp /\ verdict = "pending" /\ Requesting /\ s.op = c.op
          /\ s.n \in Nat /\ Len(c2s) \in Nat
          /\ s.n + Len(c2s) <= RequestLen(c.op)
          /\ s.n + Len(c2s) = RequestLen(c.op) => handed
        BY <1>2, <1>4, Request
    <2>2. Len(c2s) = 0
        BY <1>2, <2>1
    <2>3. c2s = <<>>
        BY <1>1, <2>2 DEF Others
    <2> QED
        BY <1>2, <2>1, <2>2, <2>3
<1>6. /\ s' \in Sides /\ s'.at = "reply" /\ s'.op = c.op /\ s'.n = 0 /\ s'.ok = ok
      /\ s'.leave = FALSE
    <2>1. 0 \in 0..MaxLen
        BY DEF MaxLen
    <2> QED
        BY <1>1, <1>3, <1>5, <2>1 DEF Sides
<1>7. verdict' \in {"ok", "refused"} /\ (verdict' = "ok") = ok
    BY <1>3 DEF Word
<1>8. TypeOK'
    <2>1. Others'
        BY <1>1, <1>2, <1>7 DEF Others
    <2> QED
        BY <1>1, <1>2, <1>6, <2>1, TypeParts
<1>9. c.at # "think"
    BY <1>5 DEF Requesting
<1>10. ClientShape'
    BY <1>2, <1>5, <1>9 DEF StepInv, ClientShape
<1>11. Replying'
    <2>1. c2s' = <<>> /\ UNCHANGED <<c, s2c, handed>>
        BY <1>2, <1>5
    <2> QED
        BY <1>3, <1>5, <1>6, <1>7, <2>1, Decides
<1> QED
    BY <1>2, <1>4, <1>5, <1>7, <1>8, <1>10, <1>11 DEF StepInv

LEMMA ServerSendsStep ==
    ASSUME StepInv, ServerSends
    PROVE  StepInv' /\ UNCHANGED <<c, ghosts>>
<1>1. /\ c \in Clients /\ s \in Sides /\ Others
    BY TypeParts DEF StepInv
<1>2. /\ s.at = "reply" /\ s.n < ReplyLen(s.op, s.ok)
      /\ s' = [s EXCEPT !.n = s.n + 1]
      /\ UNCHANGED <<c, c2s, held, g_stop, stored, local, handed, verdict, known>>
    BY DEF ServerSends, ghosts
<1>3. /\ s.ok \in BOOLEAN /\ s.n \in Nat /\ c.n \in Nat
    BY <1>1 DEF Sides, Clients, MaxLen
<1>4. c.op # NoOp
    BY <1>2 DEF StepInv, ClientShape
<1>5. verdict # "pending"
    <2>1. c.op \in Ops /\ (verdict = "pending" => s.n = ReplyLen(s.op, s.ok))
        BY <1>1, <1>2, <1>4 DEF StepInv, Requesting, Clients
    <2> QED
        BY <1>2, <1>3, <2>1
<1> DEFINE ok == verdict = "ok"
<1>6. c.op \in Ops /\ Replying /\ ok \in BOOLEAN
    BY <1>4, <1>5, Verdict
<1>7. s.op = c.op /\ s.ok = ok
    BY <1>2, <1>6 DEF Replying
<1>8. ReplyLen(c.op, ok) \in Nat /\ ReplyLen(c.op, ok) <= MaxLen /\ MaxLen \in Nat
    <2>1. c.op \in Ops /\ ok \in BOOLEAN
        BY <1>6
    <2>2. MaxLen \in Nat
        BY DEF MaxLen
    <2> HIDE DEF ok
    <2>3. ReplyLen(c.op, ok) \in Nat /\ ReplyLen(c.op, ok) <= HeaderLen + BodyLen + TableLen + FileLen
        BY <2>1, ReplyLens
    <2> QED
        BY <2>2, <2>3 DEF MaxLen
<1>9. s.n < ReplyLen(c.op, ok)
    BY <1>2, <1>7
<1>10. /\ s' \in Sides /\ s'.at = "reply" /\ s'.op = s.op /\ s'.n = s.n + 1 /\ s'.ok = s.ok
       /\ s'.leave = s.leave
    <2>1. s.n + 1 \in 0..MaxLen
        BY <1>3, <1>8, <1>9
    <2> QED
        BY <1>1, <1>2, <2>1 DEF Sides
<1>11. c.at # "think"
    BY <1>2, <1>3, <1>6, <1>8, <1>9 DEF Replying
<1> DEFINE u == Unit(c.op, s.n + 1, ok)
<1>12. u \in Units /\ u.at = s.n + 1 /\ u.op = c.op /\ u.ok = ok
    <2>1. s.n + 1 \in 1..MaxLen
        BY <1>3, <1>8, <1>9
    <2> QED
        BY <1>6, <2>1 DEF Unit, Units, MaxLen
<1>13. /\ s2c \in Seq(Units) /\ Len(s2c) \in Nat /\ Len(s2c) <= Cap
       /\ \/ c.at = "closed" /\ s2c' = s2c
          \/ c.at # "closed" /\ Len(s2c) < Cap /\ s2c' = Append(s2c, u)
    BY <1>1, <1>7 DEF Others, ServerSends
<1> HIDE DEF u, ok
<1>14. TypeOK'
    <2>1. s2c' \in Seq(Units) /\ Len(s2c') <= Cap
        BY <1>12, <1>13, Grow, Fits
    <2>2. Others'
        BY <1>1, <1>2, <2>1 DEF Others
    <2> QED
        BY <1>1, <1>2, <1>10, <2>2, TypeParts
<1>15. ClientShape'
    BY <1>2, <1>4, <1>11 DEF StepInv, ClientShape
<1>16. Replying'
    <2>1. Got' = Got /\ Got \in Nat
        BY <1>2, <1>3 DEF Got
    <2>2. CASE c.at = "closed"
        <3>1. s2c' = s2c
            BY <1>13, <2>2
        <3>2. s'.n <= ReplyLen(c.op, ok)
            BY <1>3, <1>8, <1>9, <1>10
        <3> QED
            BY <1>2, <1>5, <1>6, <1>10, <2>1, <2>2, <3>1, <3>2 DEF Replying, ok
    <2>3. CASE c.at # "closed"
        <3>1. s2c' = Append(s2c, u) /\ Got + Len(s2c) = s.n
            BY <1>2, <1>6, <1>11, <1>13, <2>3, TypeParts DEF Replying, StepInv, Clients
        <3>2. Follow(s2c, Got, c.op)
            BY <1>6 DEF Replying
        <3>3. u.at = Got + Len(s2c) + 1
            BY <1>12, <3>1
        <3>4. Follow(s2c', Got, c.op) /\ Len(s2c') = Len(s2c) + 1
            BY <1>12, <1>13, <2>1, <3>1, <3>2, <3>3, QueueAppend
        <3>5. \A i \in 1..Len(s2c') : s2c'[i].ok = ok
            <4>1. \A i \in 1..Len(s2c) : s2c[i].ok = ok
                BY <1>6 DEF Replying, ok
            <4> QED
                BY <1>12, <1>13, <3>1, <4>1
        <3>6. Got + Len(s2c') = s.n + 1 /\ s.n + 1 <= ReplyLen(c.op, ok)
            BY <1>3, <1>8, <1>9, <1>13, <2>1, <3>1, <3>4
        <3> QED
            BY <1>2, <1>6, <1>7, <1>10, <1>11, <2>1, <2>3, <3>4, <3>5, <3>6 DEF Replying, ok
    <2> QED
        BY <2>2, <2>3
<1> QED
    BY <1>2, <1>5, <1>14, <1>15, <1>16 DEF StepInv, ghosts

LEMMA RepliedStep ==
    ASSUME StepInv, Replied
    PROVE  StepInv' /\ UNCHANGED <<c, ghosts>>
<1>1. /\ c \in Clients /\ s \in Sides /\ Others
    BY TypeParts DEF StepInv
<1>2. /\ s.at = "reply" /\ s.n = ReplyLen(s.op, s.ok)
      /\ UNCHANGED <<c, held, stored, local, handed, verdict, known>>
      /\ UNCHANGED ghosts
    BY DEF Replied, ghosts
<1>3. g_stop' \in BOOLEAN
    BY <1>1 DEF Replied, Stops, Others
<1>4. CASE s.leave
    BY <1>2, <1>3, <1>4, ServerClosesStep DEF Replied
<1>5. CASE ~s.leave
    <2>1. /\ s' = [s EXCEPT !.at = "read", !.n = 0] /\ UNCHANGED <<c2s, s2c>>
        BY <1>5 DEF Replied
    <2>2. s' \in Sides /\ s'.at = "read" /\ s'.n = 0 /\ s'.op = s.op
        <3>1. 0 \in 0..MaxLen
            BY DEF MaxLen
        <3> QED
            BY <1>1, <2>1, <3>1 DEF Sides
    <2>3. TypeOK'
        <3>1. Others'
            BY <1>1, <1>2, <1>3, <2>1 DEF Others
        <3> QED
            BY <1>1, <1>2, <2>2, <3>1, TypeParts
    <2>4. ClientShape'
        BY <1>2, <2>1, <2>2 DEF StepInv, ClientShape
    <2>5. ASSUME c.op # NoOp, verdict = "pending" PROVE Requesting'
        <3>1. Requesting
            BY <2>5 DEF StepInv
        <3>2. ReadUnits' = ReadUnits /\ SentUnits' = SentUnits /\ ReadUnits = 0
            BY <1>2, <2>2 DEF ReadUnits, SentUnits
        <3> QED
            BY <1>2, <2>1, <2>2, <3>1, <3>2 DEF Requesting
    <2>6. ASSUME c.op # NoOp, verdict # "pending" PROVE Replying'
        <3>1. Replying
            BY <2>6 DEF StepInv
        <3>2. Got' = Got
            BY <1>2 DEF Got
        <3>3. /\ s.op = c.op /\ s.ok = (verdict = "ok") /\ c2s = <<>> /\ handed
              /\ c.at \in {"send", "read"} => Got + Len(s2c) = s.n
            BY <1>2, <1>5, <3>1 DEF Replying
        <3>4. c.at \in {"send", "read"} => Got + Len(s2c) = ReplyLen(c.op, verdict = "ok")
            BY <1>2, <3>3
        <3> QED
            BY <1>2, <2>1, <2>2, <3>1, <3>2, <3>3, <3>4 DEF Replying
    <2> QED
        BY <1>2, <2>3, <2>4, <2>5, <2>6 DEF StepInv
<1> QED
    BY <1>2, <1>4, <1>5

LEMMA ServerEndsStep ==
    ASSUME StepInv, EndOfStream \/ ReplyFails \/ Kill \/ Stop
    PROVE  StepInv' /\ UNCHANGED <<c, ghosts>>
<1>1. g_stop \in BOOLEAN
    BY TypeParts DEF StepInv, Others
<1>2. /\ ServerCloses /\ g_stop' \in BOOLEAN
      /\ UNCHANGED <<c, held, stored, local, ghosts>>
    BY <1>1 DEF EndOfStream, ReplyFails, Kill, Stop, Stops
<1> QED
    BY <1>2, ServerClosesStep

LEMMA ClientEndsStep ==
    ASSUME StepInv, Leave \/ SendFails \/ ReadFails \/ Interrupt
    PROVE  StepInv' /\ UNCHANGED <<handed, verdict, stored, local>>
BY ClientClosesStep DEF Leave, SendFails, ReadFails, Interrupt

LEMMA SignalStep ==
    ASSUME StepInv, OnSignal \/ Fork
    PROVE  StepInv' /\ UNCHANGED <<c, ghosts>>
<1>1. /\ c \in Clients /\ s \in Sides /\ Others
    BY TypeParts DEF StepInv
<1>2. /\ UNCHANGED <<c, s, c2s, s2c, stored, local, handed, verdict, known>>
      /\ held' \in BOOLEAN /\ g_stop' \in BOOLEAN
    BY <1>1 DEF OnSignal, Fork, Others, ghosts
<1>3. TypeOK'
    <2>1. Others'
        BY <1>1, <1>2 DEF Others
    <2> QED
        BY <1>1, <1>2, <2>1, TypeParts
<1>4. ClientShape' <=> ClientShape
    BY <1>2 DEF ClientShape
<1>5. Requesting' <=> Requesting
    BY <1>2 DEF Requesting, SentUnits, ReadUnits
<1>6. Replying' <=> Replying
    BY <1>2 DEF Replying, Got
<1> QED
    BY <1>2, <1>3, <1>4, <1>5, <1>6 DEF StepInv, ghosts

LEMMA WorkersEndStep ==
    ASSUME StepInv, WorkersEnd
    PROVE  StepInv' /\ UNCHANGED <<c, ghosts>>
<1>1. /\ c \in Clients /\ s \in Sides /\ Others
    BY TypeParts DEF StepInv
<1>2. /\ UNCHANGED <<c, s, g_stop, stored, local, ghosts>> /\ held' = FALSE
      /\ UNCHANGED <<handed, verdict, known>>
    BY DEF WorkersEnd, ghosts
<1>3. CASE s.at = "closed"
    <2>1. /\ c2s' = <<>>
          /\ s2c' = s2c \/ \E k \in 0..Len(s2c) : s2c' = SubSeq(s2c, 1, k)
        BY <1>3 DEF WorkersEnd, Reset
    <2>2. c2s' \in Seq(Units) /\ Len(c2s') <= Len(c2s)
        BY <1>1, <2>1 DEF Others
    <2>3. s2c' \in Seq(Units) /\ Cut(s2c', s2c)
        <3>1. s2c \in Seq(Units) /\ Cut(s2c, s2c)
            BY <1>1 DEF Others, Cut
        <3> QED
            BY <2>1, <3>1, CutPrefix
    <2>4. c.op = NoOp => s.n = 0
        BY DEF StepInv, ClientShape
    <2>5. held' \in BOOLEAN /\ g_stop' \in BOOLEAN
        BY <1>1, <1>2 DEF Others
    <2> QED
        BY <1>1, <1>2, <1>3, <2>2, <2>3, <2>4, <2>5, ServerClosedStep
<1>4. CASE s.at # "closed"
    <2>1. UNCHANGED <<c2s, s2c>>
        BY <1>4 DEF WorkersEnd
    <2>2. TypeOK'
        <3>1. Others'
            BY <1>1, <1>2, <2>1 DEF Others
        <3> QED
            BY <1>1, <1>2, <3>1, TypeParts
    <2>3. ClientShape' <=> ClientShape
        BY <1>2, <2>1 DEF ClientShape
    <2>4. Requesting' <=> Requesting
        BY <1>2, <2>1 DEF Requesting, SentUnits, ReadUnits
    <2>5. Replying' <=> Replying
        BY <1>2, <2>1 DEF Replying, Got
    <2> QED
        BY <1>2, <2>2, <2>3, <2>4, <2>5 DEF StepInv
<1> QED
    BY <1>2, <1>3, <1>4

LEMMA StutterStep ==
    ASSUME StepInv, UNCHANGED vars
    PROVE  StepInv'
<1>1. UNCHANGED <<c, s, c2s, s2c, held, g_stop, stored, local, handed, verdict, known>>
    BY DEF vars, ghosts
<1>2. TypeOK' <=> TypeOK
    BY <1>1 DEF TypeOK
<1>3. ClientShape' <=> ClientShape
    BY <1>1 DEF ClientShape
<1>4. Requesting' <=> Requesting
    BY <1>1 DEF Requesting, SentUnits, ReadUnits
<1>5. Replying' <=> Replying
    BY <1>1 DEF Replying, Got
<1> QED
    BY <1>1, <1>2, <1>3, <1>4, <1>5 DEF StepInv

-----------------------------------------------------------------------------
(* The files                                                                *)

LEMMA PrefixAppend ==
    ASSUME NEW q \in Seq(1..FileLen), NEW n \in Nat, Prefix(q, n), n + 1 \in 1..FileLen
    PROVE  Prefix(Append(q, n + 1), n + 1)
BY DEF Prefix

LEMMA PrefixEmpty == Prefix(<<>>, 0) /\ Body \in Nat /\ Beyond(0) = 0
BY DEF Prefix, Body, Beyond

\* One more unit of a message arrived.
LEMMA PrefixGrows ==
    ASSUME NEW q \in Seq(1..FileLen), NEW n \in Nat, n < Body + FileLen, n >= Body,
           Prefix(q, Beyond(n))
    PROVE  Prefix(Append(q, (n + 1) - Body), Beyond(n + 1))
<1>1. Body \in Nat /\ FileLen \in Nat
    BY DEF Body
<1>2. /\ Beyond(n) = n - Body /\ n - Body \in Nat /\ Beyond(n + 1) = (n - Body) + 1
      /\ (n + 1) - Body = (n - Body) + 1 /\ (n - Body) + 1 \in 1..FileLen
    BY <1>1 DEF Beyond
<1>3. Prefix(Append(q, (n - Body) + 1), (n - Body) + 1)
    BY <1>2, PrefixAppend
<1> QED
    BY <1>2, <1>3

LEMMA FileQuiet ==
    ASSUME FileInv, UNCHANGED <<c, verdict, known, stored, local>>,
           s' = s \/ s'.at # "read" \/ s'.n = 0
    PROVE  FileInv'
<1>1. s'.at = "read" /\ s'.n > 0 => s' = s
    OBVIOUS
<1> QED
    BY <1>1 DEF FileInv

LEMMA FileStep ==
    ASSUME StepInv, FileInv, [Next]_vars
    PROVE  FileInv'
<1>1. /\ c \in Clients /\ s \in Sides /\ Others
    BY TypeParts DEF StepInv
<1>2. /\ c.n \in Nat /\ s.n \in Nat /\ Body \in Nat /\ FileLen \in Nat
      /\ stored \in Seq(1..FileLen) /\ local \in Seq(1..FileLen)
    BY <1>1, PrefixEmpty DEF Clients, Sides, Others, MaxLen
<1>3. ASSUME NEW op \in Ops, Ask(op) PROVE FileInv'
    <2>1. /\ c.at = "think" /\ UNCHANGED s /\ c'.at = "send" /\ verdict' = "pending"
          /\ local' = <<>> /\ known' = "pending"
        BY <1>3 DEF Ask
    <2>2. c.op # NoOp => verdict # "pending"
        BY <2>1 DEF StepInv, ClientShape, Word
    <2>3. ~(s.at = "read" /\ s.n > 0)
        BY <2>2, Request
    <2> QED
        BY <2>1, <2>3 DEF FileInv
<1>4. ASSUME Leave \/ SendFails \/ ReadFails \/ Interrupt PROVE FileInv'
    <2>1. ClientCloses /\ UNCHANGED <<s, stored, local, verdict>>
        BY <1>4 DEF Leave, SendFails, ReadFails, Interrupt
    <2>2. c' = [c EXCEPT !.at = "closed"] /\ (known' = known \/ known' = "unknown")
        BY <2>1 DEF ClientCloses
    <2>3. c'.at = "closed" /\ c'.op = c.op
        BY <1>1, <2>2 DEF Clients
    <2> QED
        BY <2>1, <2>2, <2>3 DEF FileInv
<1>5. ASSUME ClientSends PROVE FileInv'
    <2>1. /\ UNCHANGED <<s, stored, local, verdict, known>> /\ c.at = "send"
          /\ c' = [c EXCEPT !.n = c.n + 1]
        BY <1>5 DEF ClientSends
    <2>2. c'.at = "send" /\ c'.op = c.op
        BY <1>1, <2>1 DEF Clients
    <2> QED
        BY <2>1, <2>2 DEF FileInv
<1>6. ASSUME Sent PROVE FileInv'
    <2>1. /\ UNCHANGED <<s, stored, local, verdict, known>> /\ c.at = "send"
          /\ c' = [c EXCEPT !.at = "read", !.n = 0]
        BY <1>6 DEF Sent, ghosts
    <2>2. c'.at = "read" /\ c'.op = c.op /\ c'.n = 0
        BY <1>1, <2>1 DEF Clients
    <2>3. local = <<>>
        BY <2>1 DEF FileInv
    <2> QED
        BY <2>1, <2>2, <2>3, PrefixEmpty DEF FileInv
<1>7. ASSUME ClientReads PROVE FileInv'
    <2>1. /\ UNCHANGED <<s, stored, verdict, known>> /\ c.at = "read"
          /\ c.n < ReplyLen(c.op, c.ok) /\ s2c # <<>>
          /\ c' = [c EXCEPT !.n = c.n + 1, !.ok = IF c.n = HeaderLen THEN Head(s2c).ok ELSE c.ok]
        BY <1>7 DEF ClientReads, ghosts
    <2>2. c'.at = "read" /\ c'.op = c.op /\ c'.n = c.n + 1
        BY <1>1, <2>1 DEF Clients
    <2>3. known = "pending" /\ c.op # NoOp /\ c.op \in Ops /\ c.ok \in BOOLEAN
        BY <1>1, <2>1 DEF StepInv, ClientShape, Clients
    <2>4. ASSUME c.op = "download" PROVE Prefix(local', Beyond(c.n + 1))
        <3>1. Prefix(local, Beyond(c.n))
            BY <2>1, <2>4 DEF FileInv
        <3>2. CASE c.n < Body
            <4>1. local' = local /\ Beyond(c.n) = 0 /\ Beyond(c.n + 1) = 0
                BY <1>2, <1>7, <3>2 DEF ClientReads, Beyond
            <4> QED
                BY <3>1, <4>1
        <3>3. CASE c.n >= Body
            <4>1. local' = Append(local, Head(s2c).at - Body)
                BY <1>2, <1>7, <2>4, <3>3 DEF ClientReads
            <4>2. Head(s2c).at = c.n + 1
                <5>1. verdict # "pending"
                    BY <2>1, <2>3 DEF StepInv, Requesting
                <5>2. Follow(s2c, c.n, c.op) /\ s2c \in Seq(Units)
                    BY <1>1, <2>1, <2>3, <5>1 DEF StepInv, Replying, Got, Others
                <5> QED
                    BY <1>2, <2>1, <5>2, QueueTail
            <4>3. c.n < Body + FileLen
                <5>1. ReplyLen(c.op, c.ok) = Body + FileLen \/ ReplyLen(c.op, c.ok) = Body
                    BY <2>3, <2>4, ReplyLens
                <5> QED
                    BY <1>2, <2>1, <5>1
            <4>4. Prefix(Append(local, (c.n + 1) - Body), Beyond(c.n + 1))
                BY <1>2, <3>1, <3>3, <4>3, PrefixGrows
            <4> QED
                BY <4>1, <4>2, <4>4
        <3> QED
            BY <1>2, <3>2, <3>3
    <2> QED
        BY <2>1, <2>2, <2>3, <2>4 DEF FileInv
<1>8. ASSUME Learn PROVE FileInv'
    <2>1. /\ UNCHANGED <<s, stored, local, verdict>> /\ c.at = "read"
          /\ c.n = ReplyLen(c.op, c.ok) /\ known' = Word(c.ok)
          /\ c' = [c EXCEPT !.at = "think"]
        BY <1>8 DEF Learn
    <2>2. c'.at = "think" /\ c'.op = c.op
        BY <1>1, <2>1 DEF Clients
    <2>3. c.op \in Ops /\ c.ok \in BOOLEAN
        BY <1>1, <2>1 DEF StepInv, ClientShape, Clients
    <2>4. ASSUME c.op = "download", known' = "ok" PROVE Prefix(local, FileLen)
        <3>1. c.ok
            BY <2>1, <2>4 DEF Word
        <3>2. c.n = Body + FileLen
            BY <2>1, <2>3, <2>4, <3>1, ReplyLens
        <3>3. Beyond(c.n) = FileLen
            BY <1>2, <3>2 DEF Beyond
        <3> QED
            BY <2>1, <2>4, <3>3 DEF FileInv
    <2>5. known' = verdict
        BY <1>8, LearnStep
    <2> QED
        BY <2>1, <2>2, <2>4, <2>5 DEF FileInv
<1>9. ASSUME ServerReads PROVE FileInv'
    <2>1. /\ s.at = "read" /\ c2s # <<>> /\ UNCHANGED <<c, local, verdict, known>>
          /\ s' = [s EXCEPT !.n = s.n + 1, !.op = IF s.n < HeaderLen THEN Head(c2s).op ELSE s.op]
          /\ stored' = IF s.n < Body THEN <<>> ELSE Append(stored, Head(c2s).at - Body)
        BY <1>9 DEF ServerReads, Wants, ghosts
    <2>2. /\ c.op \in Ops /\ c.op # NoOp /\ verdict = "pending" /\ Len(c2s) \in Nat
          /\ s.n + Len(c2s) <= RequestLen(c.op) /\ RequestLen(c.op) \in Nat
          /\ Follow(c2s, s.n, c.op)
        BY <2>1, Request
    <2>3. Head(c2s).at = s.n + 1 /\ Len(c2s) > 0
        <3>1. c2s \in Seq(Units)
            BY <1>1 DEF Others
        <3> QED
            BY <1>2, <2>1, <2>2, <3>1, QueueTail
    <2>4. s'.n = s.n + 1
        BY <1>1, <2>1 DEF Sides
    <2>5. Prefix(stored', Beyond(s.n + 1))
        <3>1. CASE s.n < Body
            <4>1. stored' = <<>> /\ Beyond(s.n + 1) = 0
                BY <1>2, <2>1, <3>1 DEF Beyond
            <4> QED
                BY <4>1, PrefixEmpty
        <3>2. CASE s.n >= Body
            <4>1. stored' = Append(stored, (s.n + 1) - Body)
                <5>1. ~(s.n < Body)
                    BY <1>2, <3>2
                <5>2. stored' = Append(stored, Head(c2s).at - Body)
                    BY <2>1, <5>1
                <5>3. Head(c2s).at = s.n + 1
                    BY <2>3
                <5> QED
                    BY <5>2, <5>3
            <4>2. s.n < Body + FileLen
                <5>1. RequestLen(c.op) = Body + FileLen \/ RequestLen(c.op) <= Body
                    BY <2>2, RequestLens
                <5> QED
                    BY <1>2, <2>2, <2>3, <3>2, <5>1
            <4>3. s.n > 0
                BY <1>2, <3>2 DEF Body
            <4>4. Prefix(stored, Beyond(s.n))
                BY <2>1, <2>2, <4>3 DEF FileInv
            <4>5. Prefix(Append(stored, (s.n + 1) - Body), Beyond(s.n + 1))
                BY <1>2, <3>2, <4>2, <4>4, PrefixGrows
            <4> QED
                BY <4>1, <4>5
        <3> QED
            BY <1>2, <3>1, <3>2
    <2> QED
        BY <2>1, <2>2, <2>4, <2>5 DEF FileInv
<1>10. ASSUME StoreFails PROVE FileInv'
    <2>1. /\ UNCHANGED <<c, stored, local, known>> /\ verdict' = "refused"
          /\ s' = [s EXCEPT !.at = "reply", !.n = 0, !.ok = FALSE, !.leave = TRUE]
        BY <1>10 DEF StoreFails, Answer, Word
    <2>2. s'.at = "reply"
        BY <1>1, <2>1 DEF Sides
    <2>3. verdict = "pending"
        BY <1>10, StoreFailsStep
    <2> QED
        BY <2>1, <2>2, <2>3 DEF FileInv
<1>11. ASSUME Handle PROVE FileInv'
    <2>1. UNCHANGED <<c, stored, local, known>> /\ s.at = "read"
        BY <1>11 DEF Handle
    <2>2. s'.at = "reply"
        BY <1>1, <1>11 DEF Handle, Answer, Sides
    <2>3. c.op # NoOp /\ verdict = "pending" /\ s.n = RequestLen(c.op) /\ s.n > 0 /\ c.op \in Ops
        BY <1>1, <1>11, HandleStep DEF Clients
    <2>4. ASSUME c.op = "upload" PROVE Prefix(stored, FileLen)
        <3>1. s.n = Body + FileLen
            BY <2>3, <2>4, RequestLens
        <3>2. Beyond(s.n) = FileLen
            BY <1>2, <3>1 DEF Beyond
        <3> QED
            BY <2>1, <2>3, <3>2 DEF FileInv
    <2> QED
        BY <2>1, <2>2, <2>3, <2>4 DEF FileInv
<1>12. ASSUME EndOfStream \/ ReplyFails \/ Kill \/ Stop PROVE FileInv'
    <2>1. /\ UNCHANGED <<c, verdict, known, stored, local>>
          /\ s' = [s EXCEPT !.at = "closed", !.n = 0]
        BY <1>12 DEF EndOfStream, ReplyFails, Kill, Stop, ServerCloses, ghosts
    <2>2. s'.n = 0
        BY <1>1, <2>1 DEF Sides
    <2> QED
        BY <2>1, <2>2, FileQuiet
<1>13. ASSUME ServerSends PROVE FileInv'
    <2>1. /\ UNCHANGED <<c, verdict, known, stored, local>> /\ s.at = "reply"
          /\ s' = [s EXCEPT !.n = s.n + 1]
        BY <1>13 DEF ServerSends, ghosts
    <2>2. s'.at = "reply"
        BY <1>1, <2>1 DEF Sides
    <2> QED
        BY <2>1, <2>2, FileQuiet
<1>14. ASSUME Replied PROVE FileInv'
    <2>1. /\ UNCHANGED <<c, verdict, known, stored, local>>
          /\ \/ s' = [s EXCEPT !.at = "closed", !.n = 0]
             \/ s' = [s EXCEPT !.at = "read", !.n = 0]
        BY <1>14 DEF Replied, ServerCloses, ghosts
    <2>2. s'.n = 0
        BY <1>1, <2>1 DEF Sides
    <2> QED
        BY <2>1, <2>2, FileQuiet
<1>15. ASSUME OnSignal \/ Fork \/ WorkersEnd \/ UNCHANGED vars PROVE FileInv'
    <2>1. UNCHANGED <<c, s, verdict, known, stored, local>>
        BY <1>15 DEF OnSignal, Fork, WorkersEnd, vars, ghosts
    <2> QED
        BY <2>1, FileQuiet
<1> QED
    BY <1>3, <1>4, <1>5, <1>6, <1>7, <1>8, <1>9, <1>10, <1>11, <1>12, <1>13, <1>14, <1>15
       DEF Next, Client, Server, Terminated

-----------------------------------------------------------------------------
(* Theorems                                                                 *)

LEMMA InvStep ==
    ASSUME StepInv, FileInv, [Next]_vars
    PROVE  StepInv'
BY AskStep, ClientEndsStep, ClientSendsStep, SentStep, ClientReadsStep, LearnStep,
   ServerReadsStep, StoreFailsStep, HandleStep, ServerEndsStep, ServerSendsStep, RepliedStep,
   SignalStep, WorkersEndStep, StutterStep
   DEF Next, Client, Server, Terminated

THEOREM SessionInvariant == Spec => [](StepInv /\ FileInv)
<1>1. Init => StepInv /\ FileInv
    BY StepInit
<1>2. StepInv /\ FileInv /\ [Next]_vars => (StepInv /\ FileInv)'
    BY InvStep, FileStep
<1> QED
    BY <1>1, <1>2, PTL DEF Spec

\* The variables of the session keep their types: no file grows beyond what was
\* announced (proto_recv_file).
THEOREM SessionTypeCorrect == Spec => []TypeOK
<1>1. StepInv => TypeOK
    BY DEF StepInv
<1> QED
    BY <1>1, SessionInvariant, PTL

\* The two ends of a session always agree on what comes next, although no message says
\* where it begins or how long it is (dispatch_one, vps_remote, vps_admin).
THEOREM StaysInStep == Spec => []InStep
<1>1. ASSUME StepInv PROVE InStep
    <2>1. /\ c \in Clients /\ s \in Sides /\ Others
        BY <1>1, TypeParts DEF StepInv
    <2>2. ASSUME Wants, c2s # <<>>
          PROVE  /\ Head(c2s).at = s.n + 1
                 /\ s.n >= HeaderLen => Head(c2s).op = s.op
        <3>1. s.at = "read" /\ s.n \in Nat /\ Follow(c2s, s.n, c.op) /\ (s.n > 0 => s.op = c.op)
            BY <1>1, <2>2, Request DEF Wants
        <3>2. Head(c2s).at = s.n + 1 /\ Head(c2s).op = c.op
            BY <2>1, <2>2, <3>1, QueueTail DEF Others
        <3>3. s.n >= HeaderLen => s.n > 0
            BY <3>1
        <3> QED
            BY <3>1, <3>2, <3>3
    <2>3. ASSUME c.at = "read", s2c # <<>>
          PROVE  /\ c.n < ReplyLen(c.op, c.ok)
                 /\ Head(s2c).at = c.n + 1
                 /\ Head(s2c).op = c.op
        <3>1. /\ c.op \in Ops /\ c.op # NoOp /\ c.n \in Nat /\ c.ok \in BOOLEAN
              /\ s2c \in Seq(Units)
            BY <1>1, <2>1, <2>3 DEF StepInv, ClientShape, Clients, MaxLen, Others
        <3>2. verdict # "pending"
            BY <1>1, <2>3, <3>1 DEF StepInv, Requesting
        <3> DEFINE ok == verdict = "ok"
        <3>3. Replying /\ ok \in BOOLEAN
            BY <1>1, <3>1, <3>2, Verdict
        <3>4. /\ Follow(s2c, c.n, c.op) /\ c.n + Len(s2c) <= ReplyLen(c.op, ok)
              /\ c.ok = (ok \/ c.n <= HeaderLen)
            BY <2>3, <3>3 DEF Replying, Got
        <3>5. Len(s2c) > 0 /\ Len(s2c) \in Nat /\ Head(s2c).at = c.n + 1 /\ Head(s2c).op = c.op
            BY <2>3, <3>1, <3>4, QueueTail
        <3> HIDE DEF ok
        <3>6. ReplyLen(c.op, ok) <= ReplyLen(c.op, c.ok)
            <4>1. CASE ok
                <5>1. c.ok = ok
                    BY <3>3, <3>4, <4>1
                <5>2. ReplyLen(c.op, c.ok) \in Nat
                    BY <3>1, ReplyLens
                <5> QED
                    BY <5>1, <5>2
            <4>2. CASE ~ok
                <5>1. ok = FALSE
                    BY <3>3, <4>2
                <5>2. ReplyLen(c.op, FALSE) <= ReplyLen(c.op, c.ok)
                    BY <3>1, ReplyLens
                <5> QED
                    BY <5>1, <5>2
            <4> QED
                BY <4>1, <4>2
        <3>7. ReplyLen(c.op, ok) \in Nat /\ ReplyLen(c.op, c.ok) \in Nat
            BY <3>1, <3>3, ReplyLens
        <3> QED
            BY <3>1, <3>4, <3>5, <3>6, <3>7
    <2> QED
        BY <1>1, <2>2, <2>3 DEF InStep, StepInv, ClientShape
<1> QED
    BY <1>1, SessionInvariant, PTL

\* A transfer the client knows to have succeeded gave the other side the whole file, in
\* order (proto_send_file, proto_recv_file).
THEOREM TransfersAreWhole == Spec => []TransferWhole
<1>1. ASSUME NEW q \in Seq(1..FileLen), Prefix(q, FileLen) PROVE q = WholeFile
    BY <1>1 DEF Prefix, WholeFile
<1>2. ASSUME StepInv, FileInv PROVE TransferWhole
    <2>1. stored \in Seq(1..FileLen) /\ local \in Seq(1..FileLen)
        BY <1>2, TypeParts DEF StepInv, Others
    <2>2. known = "ok" => verdict = "ok"
        BY <1>2 DEF FileInv
    <2> QED
        BY <1>1, <1>2, <2>1, <2>2 DEF FileInv, TransferWhole
<1> QED
    BY <1>2, SessionInvariant, PTL

\* The session implements RequestReply: no operation is executed on a part of its
\* request, none twice, and the client is told the verdict of that very operation.
THEOREM SessionImplements == Spec => ImplementsRequestReply
<1>1. Init => RR!Init
    BY DEF Init, RR!Init
<1>2. ASSUME StepInv, FileInv, [Next]_vars PROVE [RR!Next]_RR!vars
    <2>1. c \in Clients /\ Others
        BY <1>2, TypeParts DEF StepInv
    <2>2. ASSUME NEW op \in Ops, Ask(op) PROVE RR!Ask(op)
        <3>1. c.at = "think" /\ c'.op = op /\ handed' = FALSE /\ verdict' = "pending" /\ known' = "pending"
            BY <2>2 DEF Ask
        <3>2. c.op = NoOp \/ known \in {"ok", "refused"}
            BY <1>2, <3>1 DEF StepInv, ClientShape, Word
        <3> QED
            BY <3>1, <3>2 DEF RR!Ask, RR!Verdicts
    <2>3. ASSUME Leave \/ SendFails \/ ReadFails \/ Interrupt PROVE RR!GiveUp \/ UNCHANGED RR!vars
        <3>1. ClientCloses /\ UNCHANGED <<handed, verdict>>
            BY <2>3 DEF Leave, SendFails, ReadFails, Interrupt
        <3>2. c' = [c EXCEPT !.at = "closed"] /\ known' = (IF Pending THEN "unknown" ELSE known)
            BY <3>1 DEF ClientCloses
        <3>3. c'.op = c.op
            BY <2>1, <3>2 DEF Clients
        <3> QED
            BY <3>1, <3>2, <3>3 DEF Pending, RR!GiveUp, RR!vars
    <2>4. ASSUME ClientSends PROVE RR!Hand \/ UNCHANGED RR!vars
        <3>1. /\ UNCHANGED <<verdict, known>> /\ c.at = "send" /\ c.n < RequestLen(c.op)
              /\ c' = [c EXCEPT !.n = c.n + 1] /\ handed' \in BOOLEAN
            BY <2>4 DEF ClientSends
        <3>2. c'.op = c.op /\ c.n \in Nat
            BY <2>1, <3>1 DEF Clients, MaxLen
        <3>3. c.op # NoOp /\ known = "pending" /\ handed = FALSE /\ c.op \in Ops
            <4>1. c.op \in Ops /\ c.op # NoOp /\ known = "pending"
                BY <1>2, <2>1, <3>1 DEF StepInv, ClientShape, Clients
            <4>2. RequestLen(c.op) \in Nat
                BY <4>1, RequestLens
            <4> QED
                BY <1>2, <2>1, <3>1, <3>2, <4>1, <4>2 DEF StepInv, ClientShape, Others
        <3> QED
            BY <3>1, <3>2, <3>3 DEF RR!Hand, RR!vars
    <2>5. ASSUME Learn PROVE RR!Learn
        <3>1. /\ known' = verdict /\ verdict \in {"ok", "refused"}
            BY <1>2, <2>1, <2>5, LearnStep DEF Others
        <3>2. /\ c.at = "read" /\ c' = [c EXCEPT !.at = "think"] /\ UNCHANGED <<handed, verdict>>
            BY <2>5 DEF Learn
        <3>3. c'.op = c.op /\ known = "pending"
            BY <1>2, <2>1, <3>2 DEF Clients, StepInv, ClientShape
        <3> QED
            BY <3>1, <3>2, <3>3 DEF RR!Learn, RR!Verdicts
    <2>6. ASSUME StoreFails PROVE RR!Decide
        <3>1. c.op # NoOp /\ verdict = "pending" /\ verdict' = "refused"
            BY <1>2, <2>6, StoreFailsStep
        <3>2. UNCHANGED <<c, handed, known>>
            BY <2>6 DEF StoreFails
        <3> QED
            BY <3>1, <3>2 DEF RR!Decide
    <2>7. ASSUME Handle PROVE RR!Decide
        <3>1. c.op # NoOp /\ verdict = "pending" /\ handed /\ verdict' \in {"ok", "refused"}
            BY <1>2, <2>7, HandleStep
        <3>2. UNCHANGED <<c, handed, known>>
            BY <2>7 DEF Handle
        <3> QED
            BY <3>1, <3>2 DEF RR!Decide, RR!Verdicts
    <2>8. ASSUME Sent \/ ClientReads PROVE UNCHANGED RR!vars
        <3>1. /\ UNCHANGED <<handed, verdict, known>>
              /\ \/ c' = [c EXCEPT !.at = "read", !.n = 0]
                 \/ c' = [c EXCEPT !.n = c.n + 1, !.ok = IF c.n = HeaderLen THEN Head(s2c).ok ELSE c.ok]
            BY <2>8 DEF Sent, ClientReads, ghosts
        <3>2. c'.op = c.op
            BY <2>1, <3>1 DEF Clients
        <3> QED
            BY <3>1, <3>2 DEF RR!vars
    <2>9. ASSUME \/ ServerReads \/ EndOfStream \/ ReplyFails \/ Kill \/ Stop \/ ServerSends
                 \/ Replied \/ OnSignal \/ Fork \/ WorkersEnd \/ UNCHANGED vars
          PROVE  UNCHANGED RR!vars
        <3>1. UNCHANGED <<c, handed, verdict, known>>
            BY <2>9 DEF ServerReads, EndOfStream, ReplyFails, Kill, Stop, ServerSends, Replied,
                        OnSignal, Fork, WorkersEnd, vars, ghosts
        <3> QED
            BY <3>1 DEF RR!vars
    <2> QED
        BY <1>2, <2>2, <2>3, <2>4, <2>5, <2>6, <2>7, <2>8, <2>9
           DEF Next, Client, Server, Terminated, RR!Next
<1> QED
    BY <1>1, <1>2, SessionInvariant, PTL DEF Spec, ImplementsRequestReply, RR!Spec
=============================================================================
