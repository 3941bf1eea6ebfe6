------------------------ MODULE MergeDispatchProofs ------------------------
(***************************************************************************)
(* Theorems about MergeDispatch, for any number of merges, clips and       *)
(* processes: the split of the clips, the arithmetic of the transitions,   *)
(* the children that are waited for and the files that are removed; and,   *)
(* while pids are not given again too early, that no merge disturbs the    *)
(* files of another.                                                       *)
(***************************************************************************)
EXTENDS MergeDispatch, WellFoundedInduction, TLAPS

-----------------------------------------------------------------------------
(* The split                                                                *)

\* Where segment i of k begins when c clips are split.
CutAt(c, k, i) == (c \div k) * i + (IF i < c % k THEN i ELSE c % k)

\* How many clips it takes; Take(g, i) is this for the numbers of g.
Share(c, k, i) == c \div k + (IF i < c % k THEN 1 ELSE 0)

LEMMA Division ==
    ASSUME NEW c \in Int, NEW k \in Int, k > 0
    PROVE  /\ c \div k \in Int /\ c % k \in 0..(k - 1)
           /\ c = k * (c \div k) + (c % k)
<1>1. c \div k \in Int /\ c % k \in 0..(k - 1)
    OBVIOUS
<1>2. c = k * (c \div k) + (c % k)
    BY SMTT(30)
<1> QED
    BY <1>1, <1>2

\* The quotient of the split is positive, as there are no more segments than clips.
LEMMA Quotient ==
    ASSUME NEW c \in Int, NEW k \in Int, NEW q \in Int, NEW r \in 0..(k - 1),
           0 < k, k <= c, c = k * q + r
    PROVE  q >= 1
<1>1. ASSUME q <= 0 PROVE FALSE
    <2>1. k * q <= 0
        BY <1>1
    <2> QED
        BY <2>1
<1> QED
    BY <1>1

LEMMA Products ==
    ASSUME NEW q \in Nat, NEW i \in Nat, NEW k \in Nat, i <= k
    PROVE  /\ q * i \in Nat /\ q * i <= k * q /\ q * (i + 1) = q * i + q
           /\ i = k => q * i = k * q
BY SMTT(30)

LEMMA Split ==
    ASSUME NEW c \in Nat, NEW k \in 1..c, NEW i \in 0..k
    PROVE  /\ CutAt(c, k, 0) = 0
           /\ CutAt(c, k, k) = c
           /\ CutAt(c, k, i) \in 0..c
           /\ Share(c, k, i) \in Nat \ {0}
           /\ \A j \in 0..k : Share(c, k, i) <= Share(c, k, j) + 1
           /\ CutAt(c, k, i + 1) = CutAt(c, k, i) + Share(c, k, i)
<1> DEFINE q == c \div k
           r == c % k
<1>1. q \in Nat /\ q >= 1 /\ r \in 0..(k - 1) /\ c = k * q + r
    <2>1. c \in Int /\ k \in Int /\ k > 0 /\ k <= c
        OBVIOUS
    <2>2. q \in Int /\ r \in 0..(k - 1) /\ c = k * q + r
        BY <2>1, Division
    <2> HIDE DEF q, r
    <2>3. q >= 1
        BY <2>1, <2>2, Quotient
    <2> QED
        BY <2>2, <2>3
<1>2. /\ \A j : CutAt(c, k, j) = q * j + (IF j < r THEN j ELSE r)
      /\ \A j : Share(c, k, j) = q + (IF j < r THEN 1 ELSE 0)
    BY DEF CutAt, Share
<1> HIDE DEF q, r
<1>3. /\ q * i \in Nat /\ q * i <= k * q /\ q * (i + 1) = q * i + q /\ q * k = k * q /\ q * 0 = 0
    BY <1>1, Products
<1>4. CutAt(c, k, 0) = 0 /\ CutAt(c, k, k) = c
    BY <1>1, <1>2, <1>3
<1>5. CutAt(c, k, i) \in 0..c
    <2> DEFINE a == q * i
               b == k * q
    <2>1. a \in Nat /\ b \in Nat /\ a <= b /\ c = b + r /\ CutAt(c, k, i) = a + (IF i < r THEN i ELSE r)
        BY <1>1, <1>2, <1>3
    <2> HIDE DEF a, b
    <2> QED
        BY <1>1, <2>1
<1>6. CutAt(c, k, i + 1) = CutAt(c, k, i) + Share(c, k, i)
    <2> DEFINE a == q * i
    <2>1. a \in Nat /\ CutAt(c, k, i + 1) = a + q + (IF i + 1 < r THEN i + 1 ELSE r)
        BY <1>2, <1>3
    <2>2. CutAt(c, k, i) = a + (IF i < r THEN i ELSE r)
        BY <1>2
    <2>3. Share(c, k, i) = q + (IF i < r THEN 1 ELSE 0)
        BY <1>2
    <2> HIDE DEF a
    <2> QED
        BY <1>1, <2>1, <2>2, <2>3
<1>7. /\ Share(c, k, i) \in Nat \ {0}
      /\ \A j \in 0..k : Share(c, k, i) <= Share(c, k, j) + 1
    BY <1>1, <1>2
<1> QED
    BY <1>4, <1>5, <1>6, <1>7

-----------------------------------------------------------------------------
(* The transitions                                                          *)

\* The values of Cum up to segment n, as a function that computes them one by one.
CumUpTo(dur, n, f) ==
    /\ f \in [0..n -> Int]
    /\ f[0] = dur[0]
    /\ \A i \in 1..n : f[i] = f[i - 1] + dur[i] - Fade

\* Induction, over a set of indices: there is no least index outside it.
LEMMA AllIndices ==
    ASSUME NEW S, 0 \in S, \A i \in Indices \ {0} : i - 1 \in S => i \in S
    PROVE  Indices \subseteq S
<1> DEFINE Bad == Indices \ S
           Below == {ss \in Nat \X Nat : ss[1] < ss[2]}
<1>1. Indices \subseteq Nat /\ \A i \in Indices \ {0} : i - 1 \in Indices
    BY MergeAssumptions DEF Indices
<1>2. ASSUME Bad # {} PROVE FALSE
    <2>1. IsWellFoundedOn(Below, Nat)
        BY NatLessThanWellFounded DEF OpToRel
    <2>2. Bad \subseteq Nat
        BY <1>1
    <2>3. PICK m \in Bad : \A l \in Bad : <<l, m>> \notin Below
        <3> HIDE DEF Bad, Below
        <3> QED
            BY <1>2, <2>1, <2>2, WFMin
    <2>4. m \in Indices \ {0} /\ m \in Nat /\ m - 1 \in Indices /\ m - 1 \in Nat
        BY <1>1, <2>3
    <2>5. <<m - 1, m>> \in Below
        BY <2>4
    <2>6. m - 1 \in S
        BY <2>3, <2>4, <2>5
    <2> QED
        BY <2>3, <2>4, <2>6
<1> QED
    BY <1>2

\* The recursion of Cum has a value.
LEMMA CumExists ==
    ASSUME NEW dur \in [Indices -> Nat], NEW n \in Indices
    PROVE  \E f : CumUpTo(dur, n, f)
<1> DEFINE S == {m \in Indices : \E f : CumUpTo(dur, m, f)}
<1>1. /\ Fade \in Nat /\ Indices \subseteq Nat /\ 0 \in Indices
      /\ \A m \in Indices \ {0} : m - 1 \in Indices
    BY MergeAssumptions DEF Indices
<1>2. 0 \in S
    <2>1. dur[0] \in Int
        BY <1>1
    <2>2. CumUpTo(dur, 0, [i \in 0..0 |-> dur[0]])
        BY <2>1 DEF CumUpTo
    <2> QED
        BY <1>1, <2>2
<1>3. ASSUME NEW m \in Indices \ {0}, m - 1 \in S PROVE m \in S
    <2>1. PICK f : CumUpTo(dur, m - 1, f)
        BY <1>3
    <2> DEFINE h == [i \in 0..m |-> IF i = m THEN f[m - 1] + dur[m] - Fade ELSE f[i]]
    <2>2. m \in Nat /\ m # 0
        BY <1>1
    <2>3. f \in [0..(m - 1) -> Int] /\ dur[m] \in Nat /\ f[m - 1] \in Int
        BY <2>1, <2>2 DEF CumUpTo
    <2>4. h \in [0..m -> Int]
        BY <1>1, <2>2, <2>3
    <2>5. h[0] = dur[0]
        BY <2>1, <2>2 DEF CumUpTo
    <2>6. ASSUME NEW i \in 1..m PROVE h[i] = h[i - 1] + dur[i] - Fade
        <3>1. CASE i = m
            BY <2>2, <3>1
        <3>2. CASE i # m
            <4>1. i \in 1..(m - 1) /\ i - 1 \in 0..m /\ i - 1 # m /\ i \in 0..m
                BY <2>2, <3>2
            <4>2. f[i] = f[i - 1] + dur[i] - Fade
                BY <2>1, <4>1 DEF CumUpTo
            <4> QED
                BY <3>2, <4>1, <4>2
        <3> QED
            BY <3>1, <3>2
    <2> HIDE DEF h
    <2>7. CumUpTo(dur, m, h)
        BY <2>4, <2>5, <2>6 DEF CumUpTo
    <2> QED
        BY <2>7
<1>4. Indices \subseteq S
    <2> HIDE DEF S
    <2> QED
        BY <1>2, <1>3, AllIndices
<1> QED
    BY <1>4

\* So Cum is what the loop of video_build_xfade_argv computes.
LEMMA CumValue ==
    ASSUME NEW dur \in [Indices -> Nat]
    PROVE  /\ Cum(dur)[0] = dur[0]
           /\ \A i \in Indices \ {0} : Cum(dur)[i] = Cum(dur)[i - 1] + dur[i] - Fade
<1> DEFINE step(c) == [i \in Indices |-> IF i = 0 THEN dur[0] ELSE c[i - 1] + dur[i] - Fade]
<1>1. MaxClips - 1 \in Indices /\ Indices = 0..(MaxClips - 1) /\ 0 \in Indices
      /\ \A i \in Indices \ {0} : i \in 1..(MaxClips - 1) /\ i - 1 \in Indices
    BY MergeAssumptions DEF Indices
<1>2. PICK f : CumUpTo(dur, MaxClips - 1, f)
    BY <1>1, CumExists
<1>3. f = step(f)
    <2>1. f \in [Indices -> Int]
        BY <1>1, <1>2 DEF CumUpTo
    <2>2. \A i \in Indices : f[i] = IF i = 0 THEN dur[0] ELSE f[i - 1] + dur[i] - Fade
        BY <1>1, <1>2 DEF CumUpTo
    <2> QED
        BY <2>1, <2>2
<1>4. Cum(dur) = CHOOSE c : c = step(c)
    BY DEF Cum
<1>5. Cum(dur) = step(Cum(dur))
    BY <1>3, <1>4
<1> DEFINE c == Cum(dur)
<1>6. c = step(c)
    BY <1>5
<1> HIDE DEF c
<1>7. c[0] = dur[0] /\ \A i \in Indices \ {0} : c[i] = c[i - 1] + dur[i] - Fade
    BY <1>1, <1>6
<1> QED
    BY <1>7 DEF c

\* No sum goes below the length of a transition, if no segment does.
LEMMA CumBounds ==
    ASSUME NEW dur \in [Indices -> Nat], NEW k \in Indices
    PROVE  /\ \A i \in Indices : Cum(dur)[i] \in Int
           /\ (\A j \in 0..k : dur[j] >= Fade) => \A i \in 0..k : Cum(dur)[i] >= Fade
<1> DEFINE c == Cum(dur)
           S == {i \in Indices : c[i] \in Int}
<1>1. /\ Fade \in Nat /\ Indices \subseteq Nat /\ 0 \in Indices
      /\ \A i \in Indices \ {0} : i - 1 \in Indices
      /\ 0..k \subseteq Indices /\ k \in Nat
    BY MergeAssumptions DEF Indices
<1>2. c[0] = dur[0] /\ \A i \in Indices \ {0} : c[i] = c[i - 1] + dur[i] - Fade
    BY CumValue
<1> HIDE DEF c
<1>3. \A i \in Indices : c[i] \in Int
    <2>1. 0 \in S
        BY <1>1, <1>2
    <2>2. \A i \in Indices \ {0} : i - 1 \in S => i \in S
        BY <1>1, <1>2
    <2>3. Indices \subseteq S
        <3> HIDE DEF S
        <3> QED
            BY <2>1, <2>2, AllIndices
    <2> QED
        BY <2>3
<1>4. ASSUME \A j \in 0..k : dur[j] >= Fade PROVE \A i \in 0..k : c[i] >= Fade
    <2> DEFINE R == {i \in Indices : i \in 0..k => c[i] >= Fade}
    <2>1. 0 \in R
        BY <1>1, <1>2, <1>4
    <2>2. ASSUME NEW i \in Indices \ {0}, i - 1 \in R PROVE i \in R
        <3>1. ASSUME i \in 0..k PROVE c[i] >= Fade
            <4>1. i - 1 \in 0..k /\ c[i - 1] >= Fade
                BY <1>1, <2>2, <3>1
            <4>2. c[i] = c[i - 1] + dur[i] - Fade /\ dur[i] >= Fade /\ dur[i] \in Nat /\ c[i - 1] \in Int
                BY <1>1, <1>2, <1>3, <1>4, <3>1
            <4> QED
                BY <1>1, <4>1, <4>2
        <3> QED
            BY <3>1
    <2>3. Indices \subseteq R
        <3> HIDE DEF R
        <3> QED
            BY <2>1, <2>2, AllIndices
    <2> QED
        BY <1>1, <2>3
<1> QED
    BY <1>3, <1>4 DEF c

\* The offsets and the joined lengths of the first k + 1 segments.
LEMMA OffsetsMeet ==
    ASSUME NEW dur \in [Indices -> Nat], NEW k \in Indices, NEW i \in 1..k
    PROVE  /\ Offset(dur, i) <= Joined(dur)[i - 1]
           /\ (\A j \in 0..k : dur[j] >= Fade) => Offset(dur, i) + Fade = Joined(dur)[i - 1]
<1> DEFINE c == Cum(dur)
           len == Joined(dur)
<1>1. /\ Fade \in Nat /\ k \in Nat /\ i \in Indices \ {0} /\ i - 1 \in Indices /\ 0 \in Indices
      /\ i - 1 \in 0..k
      /\ i - 1 # 0 => i - 1 \in Indices \ {0} /\ (i - 1) - 1 \in Indices /\ (i - 1) - 1 \in 0..k
    BY MergeAssumptions DEF Indices
<1>2. c[0] = dur[0] /\ \A j \in Indices \ {0} : c[j] = c[j - 1] + dur[j] - Fade
    BY CumValue
<1>3. \A j \in Indices : c[j] \in Int /\ dur[j] \in Nat
    BY CumBounds
<1>4. (\A j \in 0..k : dur[j] >= Fade) => \A j \in 0..k : c[j] >= Fade
    BY CumBounds
<1>5. \A j \in Indices : len[j] = IF j = 0 THEN dur[0] ELSE Offset(dur, j) + dur[j]
    BY DEF Joined
<1>6. \A j : Offset(dur, j) = IF c[j - 1] > Fade THEN c[j - 1] - Fade ELSE 0
    BY DEF Offset
<1> HIDE DEF c, len
<1>7. CASE i - 1 = 0
    <2>1. len[i - 1] = dur[0] /\ c[i - 1] = dur[0] /\ dur[0] \in Nat
        BY <1>1, <1>2, <1>3, <1>5, <1>7
    <2>2. Offset(dur, i) <= len[i - 1]
        BY <1>1, <1>6, <2>1
    <2>3. (\A j \in 0..k : dur[j] >= Fade) => Offset(dur, i) + Fade = len[i - 1]
        BY <1>1, <1>4, <1>6, <2>1
    <2> QED
        BY <2>2, <2>3 DEF len
<1>8. CASE i - 1 # 0
    <2> DEFINE b == c[(i - 1) - 1]
               d == dur[i - 1]
    <2>1. b \in Int /\ d \in Nat /\ c[i - 1] = b + d - Fade
        BY <1>1, <1>2, <1>3, <1>8
    <2>2. len[i - 1] = (IF b > Fade THEN b - Fade ELSE 0) + d
        BY <1>1, <1>5, <1>6, <1>8
    <2>3. Offset(dur, i) = IF c[i - 1] > Fade THEN c[i - 1] - Fade ELSE 0
        BY <1>6
    <2>4. (\A j \in 0..k : dur[j] >= Fade) => b >= Fade /\ c[i - 1] >= Fade
        BY <1>1, <1>4, <1>8
    <2> HIDE DEF b, d
    <2>5. Offset(dur, i) <= len[i - 1]
        BY <1>1, <2>1, <2>2, <2>3
    <2>6. (\A j \in 0..k : dur[j] >= Fade) => Offset(dur, i) + Fade = len[i - 1]
        BY <1>1, <2>1, <2>2, <2>3, <2>4
    <2> QED
        BY <2>5, <2>6 DEF len
<1> QED
    BY <1>7, <1>8

-----------------------------------------------------------------------------
(* What an orchestrator knows                                               *)

ChildType == [from : Nat, to : Nat, pid : 0..MaxPid, st : ChildStates]
MergeType == [count : Nat, transition : BOOLEAN, parts : Nat, pid : 0..MaxPid,
              seg : [Indices -> ChildType], cursor : Nat, ix : Nat,
              overall : BOOLEAN, finalList : BOOLEAN,
              dur : {<<>>} \cup [Indices -> Nat],
              output : {"none", "truncated", "own", "foreign"},
              pc : {"idle", "fork", "wait", "join", "encode", "cleanup", "done", "reaped",
                    "overrun"}]

\* Where an orchestrator may have files and children.
Working == {"fork", "wait", "join", "encode", "cleanup", "overrun"}

\* The segments forked so far have their share of the clips, and no other exists.
SegmentsOf(g) ==
    /\ \A i \in Indices : g.seg[i].st # "none" =>
          /\ i < g.parts
          /\ g.seg[i].from = CutAt(g.count, g.parts, i)
          /\ g.seg[i].to = CutAt(g.count, g.parts, i + 1)
    /\ \A i \in Indices : g.seg[i].from \in 0..g.count /\ g.seg[i].to \in 0..g.count

\* Which children there are, and which have been waited for, at each point.
ChildrenOf(g) ==
    /\ g.pc \in {"idle", "reaped"} => \A i \in Indices : g.seg[i].st = "none"
    /\ g.pc = "fork" => /\ g.ix <= MaxClips
                        /\ g.cursor = CutAt(g.count, g.parts, g.ix)
                        /\ \A i \in Indices : g.seg[i].st # "none" <=> i < g.ix
                        /\ \A i \in Indices : g.seg[i].st # "waited"
    /\ g.pc = "wait" => \A i \in Indices : i < g.ix => g.seg[i].st \in {"none", "waited"}
    /\ g.pc \in {"join", "encode", "cleanup", "done"} =>
          \A i \in Indices : g.seg[i].st \in {"none", "waited"}
    /\ g.pc \in {"wait", "join", "encode"} /\ g.overall =>
          g.parts <= MaxClips /\ \A i \in Indices : i < g.parts => g.seg[i].st # "none"
    /\ g.pc = "overrun" => g.parts > MaxClips

\* The outcome so far and the output agree, and the final list is recorded from the
\* moment it is complete.
OutcomeOf(g) ==
    /\ g.pc \in {"fork", "join", "encode"} => g.overall
    /\ g.pc \in {"idle", "fork", "wait", "join", "encode", "reaped", "overrun"} => g.output = "none"
    /\ g.pc \in {"cleanup", "done"} => (g.overall <=> g.output \in {"own", "foreign"})
    /\ g.pc \in {"idle", "fork", "wait", "join"} => ~g.finalList
    /\ g.pc = "encode" /\ g.transition => g.dur \in [Indices -> Nat]

MergeInv(g) ==
    /\ g \in MergeType
    /\ g.parts <= g.count /\ g.ix <= g.parts
    /\ g.pc \in Working => g.parts > 0
    /\ SegmentsOf(g) /\ ChildrenOf(g) /\ OutcomeOf(g)

LocalInv == work \in Workloads /\ \A m \in Merges : MergeInv(merge[m])

StateInv == LocalInv /\ merge \in [Merges -> MergeType]

LEMMA Sizes ==
    /\ MaxClips \in Nat \ {0} /\ MaxPid \in Nat
    /\ Indices \subseteq Nat /\ \A i \in Nat : i \in Indices <=> i < MaxClips
BY MergeAssumptions DEF Indices

LEMMA IdleInv == MergeInv(Idle)
<1>1. Idle \in MergeType
    <2>1. NoChild \in ChildType
        BY Sizes DEF NoChild, ChildType, ChildStates
    <2>2. [i \in Indices |-> NoChild] \in [Indices -> ChildType]
        BY <2>1
    <2>3. 0 \in Nat /\ 0 \in 0..MaxPid
        BY Sizes
    <2> QED
        BY <2>2, <2>3 DEF Idle, MergeType
<1>2. \A i \in Indices : Idle.seg[i].st = "none" /\ Idle.seg[i].from = 0 /\ Idle.seg[i].to = 0
    BY DEF Idle, NoChild
<1>3. /\ Idle.parts = 0 /\ Idle.count = 0 /\ Idle.ix = 0 /\ Idle.pc = "idle"
      /\ Idle.output = "none" /\ ~Idle.finalList
    BY DEF Idle
<1>4. SegmentsOf(Idle) /\ ChildrenOf(Idle) /\ OutcomeOf(Idle)
    BY <1>2, <1>3 DEF SegmentsOf, ChildrenOf, OutcomeOf
<1> QED
    BY <1>1, <1>3, <1>4 DEF MergeInv, Working

LEMMA SubmitLocal ==
    ASSUME NEW a \in Nat, NEW t \in BOOLEAN, NEW p \in 1..MaxPid
    PROVE  LET g == [Idle EXCEPT !.count = a, !.transition = t, !.pid = p] IN
           /\ MergeInv([g EXCEPT !.overall = FALSE, !.pc = "done"])
           /\ \A k \in 1..a : MergeInv([g EXCEPT !.parts = k, !.pc = "fork"])
<1> DEFINE g == [Idle EXCEPT !.count = a, !.transition = t, !.pid = p]
<1>1. Idle \in MergeType /\ \A i \in Indices : /\ Idle.seg[i].st = "none"
                                                /\ Idle.seg[i].from \in 0..a /\ Idle.seg[i].to \in 0..a
    BY IdleInv DEF MergeInv, ChildrenOf, Idle, NoChild
<1>2. /\ g \in MergeType /\ g.seg = Idle.seg /\ g.count = a /\ g.parts = 0 /\ g.ix = 0
      /\ g.cursor = 0 /\ g.overall = TRUE /\ g.output = "none" /\ g.finalList = FALSE
    <2>1. /\ Idle.parts = 0 /\ Idle.ix = 0 /\ Idle.cursor = 0 /\ Idle.overall = TRUE
          /\ Idle.output = "none" /\ Idle.finalList = FALSE
        BY DEF Idle
    <2>2. p \in 0..MaxPid
        BY Sizes
    <2> QED
        BY <1>1, <2>1, <2>2 DEF MergeType
<1> HIDE DEF g
<1>3. MergeInv([g EXCEPT !.overall = FALSE, !.pc = "done"])
    <2> DEFINE h == [g EXCEPT !.overall = FALSE, !.pc = "done"]
    <2>1. /\ h \in MergeType /\ h.seg = Idle.seg /\ h.count = a /\ h.parts = 0 /\ h.ix = 0
          /\ h.overall = FALSE /\ h.output = "none" /\ h.pc = "done"
        BY <1>2 DEF MergeType
    <2> HIDE DEF h
    <2>2. SegmentsOf(h) /\ ChildrenOf(h) /\ OutcomeOf(h)
        BY <1>1, <2>1 DEF SegmentsOf, ChildrenOf, OutcomeOf
    <2>3. MergeInv(h)
        BY <2>1, <2>2 DEF MergeInv, Working
    <2> QED
        BY <2>3 DEF h
<1>4. ASSUME NEW k \in 1..a PROVE MergeInv([g EXCEPT !.parts = k, !.pc = "fork"])
    <2> DEFINE h == [g EXCEPT !.parts = k, !.pc = "fork"]
    <2>1. /\ h \in MergeType /\ h.seg = Idle.seg /\ h.count = a /\ h.parts = k /\ h.ix = 0
          /\ h.cursor = 0 /\ h.overall = TRUE /\ h.output = "none" /\ h.finalList = FALSE
          /\ h.pc = "fork"
        <3>1. k \in Nat
            BY Sizes
        <3> QED
            BY <1>2, <3>1 DEF MergeType
    <2> HIDE DEF h
    <2>2. CutAt(a, k, 0) = 0
        BY Sizes, Split
    <2>3. SegmentsOf(h)
        BY <1>1, <2>1 DEF SegmentsOf
    <2>4. ChildrenOf(h)
        <3>1. 0 <= MaxClips /\ \A i \in Indices : ~(i < 0)
            BY Sizes
        <3> QED
            BY <1>1, <2>1, <2>2, <3>1 DEF ChildrenOf
    <2>5. OutcomeOf(h)
        BY <2>1 DEF OutcomeOf
    <2>6. MergeInv(h)
        BY <2>1, <2>3, <2>4, <2>5 DEF MergeInv, Working
    <2> QED
        BY <2>6 DEF h
<1> QED
    BY <1>3, <1>4 DEF g

\* A segment is forked with its share.
LEMMA ForkLocal ==
    ASSUME NEW g, MergeInv(g), g.pc = "fork", g.ix < g.parts, g.ix \in Indices, NEW p \in 1..MaxPid
    PROVE  LET to == g.cursor + Take(g, g.ix) IN
           MergeInv([g EXCEPT !.seg[g.ix] = [from |-> g.cursor, to |-> to, pid |-> p, st |-> "start"],
                              !.cursor = to, !.ix = g.ix + 1])
<1> DEFINE to == g.cursor + Take(g, g.ix)
           ch == [from |-> g.cursor, to |-> to, pid |-> p, st |-> "start"]
           h  == [g EXCEPT !.seg[g.ix] = ch, !.cursor = to, !.ix = g.ix + 1]
<1>1. /\ g \in MergeType /\ g.count \in Nat /\ g.parts \in 1..g.count /\ g.ix \in Nat
      /\ g.ix \in Indices /\ g.ix + 1 \in 0..g.parts
      /\ g.cursor = CutAt(g.count, g.parts, g.ix) /\ g.cursor \in Nat
    BY Sizes DEF MergeInv, MergeType, Working, ChildrenOf
<1>2. to = CutAt(g.count, g.parts, g.ix + 1)
    <2>1. Take(g, g.ix) = Share(g.count, g.parts, g.ix)
        BY DEF Take, Share
    <2>2. ASSUME NEW c \in Nat, NEW k \in 1..c, NEW i \in 0..k
          PROVE  CutAt(c, k, i + 1) = CutAt(c, k, i) + Share(c, k, i)
        BY Split
    <2>3. g.count \in Nat /\ g.parts \in 1..g.count /\ g.ix \in 0..g.parts
        BY <1>1, Sizes
    <2> QED
        BY <1>1, <2>1, <2>2, <2>3
<1>3. to \in 0..g.count /\ to \in Nat /\ g.cursor \in 0..g.count
    <2>1. CutAt(g.count, g.parts, g.ix + 1) \in 0..g.count /\ CutAt(g.count, g.parts, g.ix) \in 0..g.count
        <3>1. ASSUME NEW c \in Nat, NEW k \in 1..c, NEW i \in 0..k
              PROVE  CutAt(c, k, i) \in 0..c
            BY Split
        <3>2. g.count \in Nat /\ g.parts \in 1..g.count /\ g.ix + 1 \in 0..g.parts /\ g.ix \in 0..g.parts
            BY <1>1, Sizes
        <3> QED
            BY <3>1, <3>2
    <2> QED
        BY <1>1, <1>2, <2>1, Sizes
<1> HIDE DEF to
<1>4. ch \in ChildType
    BY <1>1, <1>3, Sizes DEF ChildType, ChildStates, Unfinished
<1>5. /\ ch.st = "start" /\ ch.from = g.cursor /\ ch.to = to
    OBVIOUS
<1> HIDE DEF ch
<1>6. /\ h \in MergeType /\ h.seg[g.ix] = ch /\ h.cursor = to /\ h.ix = g.ix + 1
      /\ \A i \in Indices : i # g.ix => h.seg[i] = g.seg[i]
      /\ h.count = g.count /\ h.parts = g.parts /\ h.pc = "fork" /\ h.overall = g.overall
      /\ h.output = g.output /\ h.finalList = g.finalList
    <2>1. [g.seg EXCEPT ![g.ix] = ch] \in [Indices -> ChildType]
        BY <1>1, <1>4 DEF MergeType
    <2>2. g.ix + 1 \in Nat
        BY <1>1
    <2> QED
        BY <1>1, <1>3, <2>1, <2>2 DEF MergeType
<1> HIDE DEF h
<1>7. SegmentsOf(h)
    BY <1>1, <1>2, <1>3, <1>5, <1>6 DEF SegmentsOf, MergeInv
<1>8. ChildrenOf(h)
    <2>1. g.ix + 1 <= MaxClips /\ \A i \in Indices : i < g.ix + 1 <=> i < g.ix \/ i = g.ix
        BY <1>1, Sizes
    <2>2. \A i \in Indices : /\ h.seg[i].st # "none" <=> i < g.ix + 1
                             /\ h.seg[i].st # "waited"
        BY <1>5, <1>6, <2>1 DEF MergeInv, ChildrenOf
    <2> QED
        BY <1>2, <1>6, <2>1, <2>2 DEF ChildrenOf
<1>9. OutcomeOf(h)
    BY <1>6 DEF OutcomeOf, MergeInv
<1>10. MergeInv(h)
    BY <1>1, <1>6, <1>7, <1>8, <1>9 DEF MergeInv, Working
<1> QED
    BY <1>10 DEF h, ch, to

\* The steps of an orchestrator that only move its locals on.
LEMMA WaitLocal ==
    ASSUME NEW g, MergeInv(g), g.pc = "wait", g.ix < g.parts
    PROVE  /\ g.ix \notin Indices \/ g.seg[g.ix].st = "none" => MergeInv([g EXCEPT !.ix = @ + 1])
           /\ g.ix \in Indices /\ g.seg[g.ix].st \in Ended =>
                 MergeInv([g EXCEPT !.ix = @ + 1, !.seg[g.ix].st = "waited",
                                    !.overall = @ /\ g.seg[g.ix].st = "ok"])
<1>1. /\ g \in MergeType /\ g.parts \in Nat /\ g.ix \in Nat
      /\ g.ix + 1 \in 0..g.parts /\ g.ix + 1 \in Nat
    BY Sizes DEF MergeInv, MergeType
<1>2. \A i \in Indices : i < g.ix + 1 <=> i < g.ix \/ i = g.ix
    BY <1>1, Sizes
<1>3. ASSUME g.ix \notin Indices \/ g.seg[g.ix].st = "none" PROVE MergeInv([g EXCEPT !.ix = g.ix + 1])
    <2> DEFINE h == [g EXCEPT !.ix = g.ix + 1]
    <2>1. /\ h \in MergeType /\ h.seg = g.seg /\ h.ix = g.ix + 1
          /\ h.count = g.count /\ h.parts = g.parts /\ h.pc = "wait"
          /\ h.output = g.output /\ h.finalList = g.finalList /\ h.overall = g.overall
        BY <1>1 DEF MergeType
    <2> HIDE DEF h
    <2>2. SegmentsOf(h)
        BY <2>1 DEF MergeInv, SegmentsOf
    <2>3. ChildrenOf(h)
        BY <1>2, <1>3, <2>1 DEF MergeInv, ChildrenOf
    <2>4. OutcomeOf(h)
        BY <2>1 DEF MergeInv, OutcomeOf
    <2>5. MergeInv(h)
        BY <1>1, <2>1, <2>2, <2>3, <2>4 DEF MergeInv, Working
    <2> QED
        BY <2>5 DEF h
<1>4. ASSUME g.ix \in Indices, g.seg[g.ix].st \in Ended
      PROVE  MergeInv([g EXCEPT !.ix = g.ix + 1, !.seg[g.ix].st = "waited",
                                !.overall = g.overall /\ g.seg[g.ix].st = "ok"])
    <2> DEFINE ch == [g.seg[g.ix] EXCEPT !.st = "waited"]
               o == g.overall /\ g.seg[g.ix].st = "ok"
               h == [g EXCEPT !.ix = g.ix + 1, !.seg[g.ix].st = "waited", !.overall = o]
    <2>1. /\ ch \in ChildType /\ ch.st = "waited"
          /\ ch.from = g.seg[g.ix].from /\ ch.to = g.seg[g.ix].to
        BY <1>1, <1>4 DEF MergeType, ChildType, ChildStates
    <2>2. o \in BOOLEAN /\ (o => g.overall)
        BY <1>1 DEF MergeType
    <2>3. h = [g EXCEPT !.ix = g.ix + 1, !.seg = [g.seg EXCEPT ![g.ix] = ch], !.overall = o]
        OBVIOUS
    <2>4. [g.seg EXCEPT ![g.ix] = ch] \in [Indices -> ChildType]
        BY <1>1, <1>4, <2>1 DEF MergeType
    <2> HIDE DEF o, ch
    <2>5. /\ h \in MergeType /\ h.ix = g.ix + 1
          /\ h.seg = [g.seg EXCEPT ![g.ix] = ch]
          /\ h.count = g.count /\ h.parts = g.parts /\ h.pc = "wait"
          /\ h.output = g.output /\ h.finalList = g.finalList /\ h.overall = o
        BY <1>1, <2>2, <2>3, <2>4 DEF MergeType
    <2>6. h.seg[g.ix] = ch /\ \A i \in Indices : i # g.ix => h.seg[i] = g.seg[i]
        BY <1>1, <1>4, <2>5 DEF MergeType
    <2> HIDE DEF h
    <2>7. SegmentsOf(h)
        <3>1. g.seg[g.ix].st # "none"
            BY <1>4 DEF Ended
        <3> QED
            BY <1>1, <1>4, <2>1, <2>5, <2>6, <3>1 DEF MergeInv, SegmentsOf
    <2>8. ChildrenOf(h)
        BY <1>2, <2>1, <2>2, <2>5, <2>6 DEF MergeInv, ChildrenOf
    <2>9. OutcomeOf(h)
        BY <2>5 DEF MergeInv, OutcomeOf
    <2>10. MergeInv(h)
        BY <1>1, <2>5, <2>7, <2>8, <2>9 DEF MergeInv, Working
    <2> QED
        BY <2>10 DEF h, o
<1> QED
    BY <1>3, <1>4

\* A child of g goes to another state.
LEMMA ChildLocal ==
    ASSUME NEW g, MergeInv(g), NEW i \in Indices, g.seg[i].st \in Unfinished,
           NEW st \in Unfinished \cup Ended
    PROVE  MergeInv([g EXCEPT !.seg[i].st = st])
<1>1. g \in MergeType /\ g.seg[i] \in ChildType /\ g.seg[i].st # "none" /\ g.seg[i].st # "waited"
    BY DEF MergeInv, MergeType, Unfinished
<1> DEFINE ch == [g.seg[i] EXCEPT !.st = st]
           h == [g EXCEPT !.seg[i].st = st]
<1>2. /\ ch \in ChildType /\ ch.st = st
      /\ ch.from = g.seg[i].from /\ ch.to = g.seg[i].to
    BY <1>1 DEF ChildType, ChildStates
<1>3. st # "none" /\ st # "waited"
    BY DEF Unfinished, Ended
<1>4. h = [g EXCEPT !.seg = [g.seg EXCEPT ![i] = ch]]
    OBVIOUS
<1>5. [g.seg EXCEPT ![i] = ch] \in [Indices -> ChildType]
    BY <1>1, <1>2 DEF MergeType
<1> HIDE DEF ch
<1>6. /\ h \in MergeType /\ h.seg = [g.seg EXCEPT ![i] = ch]
      /\ h.count = g.count /\ h.parts = g.parts /\ h.ix = g.ix /\ h.cursor = g.cursor /\ h.pc = g.pc
      /\ h.output = g.output /\ h.finalList = g.finalList /\ h.overall = g.overall
      /\ h.transition = g.transition /\ h.dur = g.dur
    BY <1>1, <1>4, <1>5 DEF MergeType
<1>7. h.seg[i] = ch /\ \A j \in Indices : j # i => h.seg[j] = g.seg[j]
    BY <1>1, <1>6 DEF MergeType
<1> HIDE DEF h
<1>8. SegmentsOf(h)
    BY <1>1, <1>2, <1>6, <1>7 DEF MergeInv, SegmentsOf
<1>9. ChildrenOf(h)
    BY <1>1, <1>2, <1>3, <1>6, <1>7 DEF MergeInv, ChildrenOf
<1>10. OutcomeOf(h)
    BY <1>6 DEF MergeInv, OutcomeOf
<1>11. MergeInv(h)
    BY <1>1, <1>6, <1>8, <1>9, <1>10 DEF MergeInv, Working
<1> QED
    BY <1>11 DEF h

\* The others leave the segments as they are.
LEMMA SegmentsKept ==
    ASSUME NEW g, NEW h, MergeInv(g), h \in MergeType, h.seg = g.seg,
           h.count = g.count, h.parts = g.parts, h.ix \in {0, g.ix},
           h.pc \in Working => g.pc \in Working, ChildrenOf(h), OutcomeOf(h)
    PROVE  MergeInv(h)
<1>1. SegmentsOf(h)
    BY DEF MergeInv, SegmentsOf
<1>2. h.ix <= h.parts
    BY DEF MergeInv, MergeType
<1> QED
    BY <1>1, <1>2 DEF MergeInv

LEMMA FailingLocal ==
    ASSUME NEW g, MergeInv(g), g.pc \in {"join", "encode"}
    PROVE  /\ MergeInv(Failing(g)) /\ Failing(g).seg = g.seg /\ Failing(g).pid = g.pid
           /\ Failing(g).pc = "cleanup" /\ ~Failing(g).overall /\ Failing(g).finalList = g.finalList
<1> DEFINE h == Failing(g)
<1>1. /\ h \in MergeType /\ h.seg = g.seg /\ h.pid = g.pid /\ h.count = g.count
      /\ h.parts = g.parts /\ h.ix = g.ix /\ h.pc = "cleanup" /\ h.overall = FALSE
      /\ h.finalList = g.finalList /\ h.output = g.output
    BY DEF MergeInv, MergeType, Failing
<1> HIDE DEF h
<1>2. ChildrenOf(h) /\ OutcomeOf(h)
    BY <1>1 DEF MergeInv, ChildrenOf, OutcomeOf
<1>3. MergeInv(h)
    BY <1>1, <1>2, SegmentsKept DEF Working
<1> QED
    BY <1>1, <1>3 DEF h

-----------------------------------------------------------------------------
(* Steps of the orchestrators                                               *)

\* What m knows becomes g; the others do not notice.
LEMMA BecomesFacts ==
    ASSUME merge \in [Merges -> MergeType], NEW m \in Merges, NEW g, Becomes(m, g)
    PROVE  /\ merge'[m] = g /\ work' = work
           /\ \A n \in Merges : n # m => merge'[n] = merge[n]
BY DEF Becomes

\* The names of m's files stay the names of m's files.
NamesKept(m) ==
    /\ merge'[m].pid = merge[m].pid
    /\ \A i \in Indices : merge[m].seg[i].st # "none" =>
          /\ merge'[m].seg[i].pid = merge[m].seg[i].pid
          /\ merge'[m].seg[i].from = merge[m].seg[i].from
          /\ merge'[m].seg[i].st # "none"

NoneForked(m) == \A i \in Indices : merge[m].seg[i].st = "none" => merge'[m].seg[i].st = "none"

OthersKept(m) == work' = work /\ \A n \in Merges : n # m => merge'[n] = merge[n]

LEMMA FreePidsFacts ==
    ASSUME NEW p \in FreePids
    PROVE  p \in 1..MaxPid /\ p \notin PidsHeld /\ (~PidsWrap => p \notin PidsKnown)
BY DEF FreePids

LEMMA SubmitStep ==
    ASSUME StateInv, NEW m \in Merges, Submit(m)
    PROVE  /\ MergeInv(merge'[m]) /\ OthersKept(m) /\ files' = files
           /\ merge[m].pc = "idle" /\ merge'[m].pc \in {"fork", "done"}
           /\ merge'[m].pc = "done" => ~merge'[m].overall
           /\ merge'[m].pid \in FreePids
           /\ \A i \in Indices : merge'[m].seg[i].st = "none"
<1>1. m \in DOMAIN work.asks /\ work \in Workloads /\ merge[m].pc = "idle" /\ files' = files
    BY DEF Submit, StateInv, LocalInv
<1> DEFINE a == work.asks[m].count
           t == work.asks[m].transition
           g(p) == [Idle EXCEPT !.count = a, !.transition = t, !.pid = p]
<1>2. a \in Nat /\ t \in BOOLEAN /\ work.parallel \in Nat
    BY <1>1, MergeAssumptions
<1> HIDE DEF a, t
<1>3. PICK p \in FreePids :
          \/ Becomes(m, [g(p) EXCEPT !.overall = FALSE, !.pc = "done"])
          \/ g(p).count > 0 /\ Becomes(m, [g(p) EXCEPT !.parts = PartsOf(g(p).count), !.pc = "fork"])
    BY DEF Submit, a, t
<1>4. p \in 1..MaxPid
    BY FreePidsFacts
<1>5. g(p).count = a /\ g(p).pid = p /\ g(p).pc = "idle" /\ g(p).seg = Idle.seg
    BY DEF Idle
<1>6. \A i \in Indices : Idle.seg[i].st = "none"
    BY DEF Idle, NoChild
<1>7. merge \in [Merges -> MergeType]
    BY DEF StateInv
<1>8. DOMAIN Idle = DOMAIN g(p) /\ {"overall", "pc", "parts", "pid", "seg"} \subseteq DOMAIN Idle
    BY DEF Idle
<1>9. CASE Becomes(m, [g(p) EXCEPT !.overall = FALSE, !.pc = "done"])
    <2> DEFINE h == [g(p) EXCEPT !.overall = FALSE, !.pc = "done"]
    <2>1. MergeInv(h)
        BY <1>2, <1>4, SubmitLocal
    <2>2. h.pc = "done" /\ h.pid = p /\ h.seg = Idle.seg /\ h.overall = FALSE
        BY <1>5, <1>8
    <2> HIDE DEF h
    <2>3. merge'[m] = h /\ OthersKept(m)
        BY <1>7, <1>9, BecomesFacts DEF OthersKept, h
    <2> QED
        BY <1>1, <1>6, <2>1, <2>2, <2>3
<1>10. CASE g(p).count > 0 /\ Becomes(m, [g(p) EXCEPT !.parts = PartsOf(g(p).count), !.pc = "fork"])
    <2>1. PartsOf(a) \in 1..a
        BY <1>2, <1>5, <1>10, Sizes DEF PartsOf
    <2> DEFINE h == [g(p) EXCEPT !.parts = PartsOf(a), !.pc = "fork"]
    <2>2. MergeInv(h)
        <3>1. \A k \in 1..a : MergeInv([g(p) EXCEPT !.parts = k, !.pc = "fork"])
            BY <1>2, <1>4, SubmitLocal
        <3> QED
            BY <2>1, <3>1
    <2>3. h.pc = "fork" /\ h.pid = p /\ h.seg = Idle.seg
        BY <1>5, <1>8
    <2>4. h = [g(p) EXCEPT !.parts = PartsOf(g(p).count), !.pc = "fork"]
        BY <1>5
    <2> HIDE DEF h
    <2>5. merge'[m] = h /\ OthersKept(m)
        BY <1>7, <1>10, <2>4, BecomesFacts DEF OthersKept
    <2> QED
        BY <1>1, <1>6, <2>2, <2>3, <2>5
<1> QED
    BY <1>3, <1>9, <1>10

\* From the moment a child has ended well until the join has read its segment.
Needed(g, i) == /\ g.pc \in {"fork", "wait", "join", "encode"}
                /\ g.seg[i].st = "ok" \/ (g.seg[i].st = "waited" /\ g.overall)

\* The last ffmpeg reads m's own segments.
ReadsOwn(m) == SegmentContents(m) = [i \in 0..(merge[m].parts - 1) |-> {<<m, i>>}]

\* A step of m that touches no file.
Quiet(m) ==
    /\ OthersKept(m) /\ NamesKept(m) /\ files' = files
    /\ merge[m].pc \in {"fork", "wait", "join", "encode"} /\ merge'[m].pc \in Working
    /\ merge[m].pc = "encode" => merge'[m].pc = "cleanup"
    /\ merge'[m].pc = "cleanup" /\ merge'[m].overall =>
          merge[m].pc = "encode" /\ (ReadsOwn(m) => merge'[m].output = "own")
    /\ merge'[m].finalList = merge[m].finalList
    /\ \A i \in Indices : /\ merge'[m].seg[i].st = "encoding" => merge[m].seg[i].st = "encoding"
                          /\ Needed(merge'[m], i) => Needed(merge[m], i)

\* Locals change, but no segment does.
LEMMA QuietSameSegments ==
    ASSUME StateInv, NEW m \in Merges, NEW h, Becomes(m, h), MergeInv(h), files' = files,
           h.seg = merge[m].seg, h.pid = merge[m].pid, h.finalList = merge[m].finalList,
           merge[m].pc \in {"fork", "wait", "join", "encode"}, h.pc \in Working,
           merge[m].pc = "encode" => h.pc = "cleanup",
           h.pc = "cleanup" /\ h.overall =>
               merge[m].pc = "encode" /\ (ReadsOwn(m) => h.output = "own"),
           h.overall => merge[m].overall
    PROVE  MergeInv(merge'[m]) /\ Quiet(m) /\ NoneForked(m)
<1>1. merge'[m] = h /\ OthersKept(m)
    BY BecomesFacts DEF StateInv, OthersKept
<1>2. NamesKept(m) /\ NoneForked(m)
    BY <1>1 DEF NamesKept, NoneForked
<1>3. \A i \in Indices : Needed(h, i) => Needed(merge[m], i)
    BY DEF Needed
<1> QED
    BY <1>1, <1>2, <1>3 DEF Quiet

LEMMA MergeIs ==
    ASSUME StateInv, NEW m \in Merges
    PROVE  MergeInv(merge[m]) /\ merge[m] \in MergeType
BY DEF StateInv, LocalInv, MergeInv

LEMMA AllForkedStep ==
    ASSUME StateInv, NEW m \in Merges, AllForked(m)
    PROVE  MergeInv(merge'[m]) /\ Quiet(m) /\ NoneForked(m)
<1> DEFINE g == merge[m]
           h == [g EXCEPT !.ix = 0, !.pc = "wait"]
<1>1. /\ MergeInv(g) /\ g \in MergeType /\ g.pc = "fork" /\ g.ix = g.parts
      /\ Becomes(m, h) /\ files' = files
    BY MergeIs DEF AllForked
<1>2. /\ h \in MergeType /\ h.seg = g.seg /\ h.pid = g.pid /\ h.count = g.count /\ h.parts = g.parts
      /\ h.ix = 0 /\ h.pc = "wait" /\ h.overall = g.overall /\ h.finalList = g.finalList
      /\ h.output = g.output
    <2>1. 0 \in Nat
        OBVIOUS
    <2> QED
        BY <1>1, <2>1 DEF MergeType
<1> HIDE DEF g, h
<1>3. ChildrenOf(h) /\ OutcomeOf(h)
    <2>1. \A i \in Indices : ~(i < 0)
        BY Sizes
    <2> QED
        BY <1>1, <1>2, <2>1 DEF MergeInv, ChildrenOf, OutcomeOf
<1>4. MergeInv(h)
    BY <1>1, <1>2, <1>3, SegmentsKept DEF Working
<1> QED
    BY <1>1, <1>2, <1>4, QuietSameSegments DEF g, Working

\* Either the next segment is forked, or fork failed and the ones before are waited for.
LEMMA ForkStep ==
    ASSUME StateInv, NEW m \in Merges, ForkSegment(m)
    PROVE  /\ MergeInv(merge'[m]) /\ Quiet(m)
           /\ \/ NoneForked(m)
              \/ \E p \in FreePids, i \in Indices :
                     /\ merge[m].seg[i].st = "none" /\ merge'[m].seg[i].pid = p
                     /\ \A j \in Indices : j # i => merge'[m].seg[j] = merge[m].seg[j]
<1> DEFINE g == merge[m]
           to == g.cursor + Take(g, g.ix)
           h(p) == [g EXCEPT !.seg[g.ix] = [from |-> g.cursor, to |-> to, pid |-> p, st |-> "start"],
                             !.cursor = to, !.ix = g.ix + 1]
           k == [g EXCEPT !.overall = FALSE, !.ix = 0, !.pc = "wait"]
<1>1. MergeInv(g) /\ g \in MergeType /\ g.pc = "fork" /\ g.ix < g.parts /\ files' = files
    BY MergeIs DEF ForkSegment
<1>2. (\E p \in FreePids : g.ix \in Indices /\ Becomes(m, h(p))) \/ Becomes(m, k)
    BY DEF ForkSegment
<1>3. CASE Becomes(m, k)
    <2>1. /\ k \in MergeType /\ k.seg = g.seg /\ k.pid = g.pid /\ k.count = g.count
          /\ k.parts = g.parts /\ k.ix = 0 /\ k.pc = "wait" /\ k.overall = FALSE
          /\ k.finalList = g.finalList /\ k.output = g.output
        <3>1. 0 \in Nat
            OBVIOUS
        <3> QED
            BY <1>1, <3>1 DEF MergeType
    <2> HIDE DEF g, k
    <2>2. ChildrenOf(k) /\ OutcomeOf(k)
        <3>1. \A i \in Indices : ~(i < 0)
            BY Sizes
        <3> QED
            BY <1>1, <2>1, <3>1 DEF MergeInv, ChildrenOf, OutcomeOf
    <2>3. MergeInv(k)
        BY <1>1, <2>1, <2>2, SegmentsKept DEF Working
    <2> QED
        BY <1>1, <1>3, <2>1, <2>3, QuietSameSegments DEF g, Working
<1>4. ASSUME NEW p \in FreePids, g.ix \in Indices, Becomes(m, h(p))
      PROVE  /\ MergeInv(merge'[m]) /\ Quiet(m)
             /\ \E q \in FreePids, i \in Indices :
                     /\ merge[m].seg[i].st = "none" /\ merge'[m].seg[i].pid = q
                     /\ \A j \in Indices : j # i => merge'[m].seg[j] = merge[m].seg[j]
    <2>1. MergeInv(h(p))
        BY <1>1, <1>4, FreePidsFacts, ForkLocal
    <2>2. merge'[m] = h(p) /\ OthersKept(m)
        BY <1>4, BecomesFacts DEF StateInv, OthersKept
    <2>3. g.ix \in Indices /\ g.seg[g.ix].st = "none"
        BY <1>1, <1>4, Sizes DEF MergeInv, MergeType, ChildrenOf
    <2>4. /\ h(p).seg[g.ix].pid = p /\ h(p).seg[g.ix].st = "start"
          /\ \A j \in Indices : j # g.ix => h(p).seg[j] = g.seg[j]
          /\ h(p).pid = g.pid /\ h(p).pc = "fork" /\ h(p).finalList = g.finalList
          /\ h(p).overall = g.overall
        BY <1>1, <2>3 DEF MergeType
    <2> DEFINE hp == h(p)
    <2>5. /\ merge'[m] = hp /\ MergeInv(hp) /\ hp.seg[g.ix].pid = p /\ hp.seg[g.ix].st = "start"
          /\ \A j \in Indices : j # g.ix => hp.seg[j] = g.seg[j]
          /\ hp.pid = g.pid /\ hp.pc = "fork" /\ hp.finalList = g.finalList
          /\ hp.overall = g.overall
        BY <2>1, <2>2, <2>4
    <2> HIDE DEF hp, h
    <2>6. NamesKept(m)
        BY <2>3, <2>5 DEF NamesKept
    <2>7. \A i \in Indices : /\ hp.seg[i].st = "encoding" => g.seg[i].st = "encoding"
                             /\ Needed(hp, i) => Needed(g, i)
        BY <1>1, <2>5 DEF Needed
    <2>8. Quiet(m)
        BY <1>1, <2>2, <2>5, <2>6, <2>7 DEF Quiet, Working
    <2> QED
        BY <2>3, <2>5, <2>8
<1> QED
    BY <1>2, <1>3, <1>4

LEMMA WaitStep ==
    ASSUME StateInv, NEW m \in Merges, WaitSegment(m)
    PROVE  MergeInv(merge'[m]) /\ Quiet(m) /\ NoneForked(m)
<1> DEFINE g == merge[m]
           k == [g EXCEPT !.ix = @ + 1]
           h == [g EXCEPT !.ix = @ + 1, !.seg[g.ix].st = "waited",
                          !.overall = @ /\ g.seg[g.ix].st = "ok"]
<1>1. MergeInv(g) /\ g \in MergeType /\ g.pc = "wait" /\ g.ix < g.parts /\ files' = files
    BY MergeIs DEF WaitSegment
<1>2. CASE g.ix \notin Forked(m)
    <2>0. g.ix \notin Indices \/ g.seg[g.ix].st = "none"
        BY <1>2 DEF Forked
    <2>1. Becomes(m, k)
        BY <1>2 DEF WaitSegment
    <2>2. MergeInv(k)
        BY <1>1, <2>0, WaitLocal
    <2>3. /\ k.seg = g.seg /\ k.pid = g.pid /\ k.pc = "wait" /\ k.overall = g.overall
          /\ k.finalList = g.finalList
        BY <1>1 DEF MergeType
    <2> HIDE DEF k, g
    <2> QED
        BY <1>1, <2>1, <2>2, <2>3, QuietSameSegments DEF g, Working
<1>3. CASE g.ix \in Forked(m)
    <2>1. Becomes(m, h) /\ g.seg[g.ix].st \in Ended
        BY <1>3 DEF WaitSegment
    <2>3. g.ix \in Indices /\ g.seg[g.ix].st # "none"
        BY <1>3 DEF Forked
    <2>2. MergeInv(h)
        BY <1>1, <2>1, <2>3, WaitLocal
    <2>4. /\ h.seg[g.ix].pid = g.seg[g.ix].pid /\ h.seg[g.ix].st = "waited"
          /\ h.seg[g.ix].from = g.seg[g.ix].from
          /\ \A j \in Indices : j # g.ix => h.seg[j] = g.seg[j]
          /\ h.pid = g.pid /\ h.pc = "wait" /\ h.finalList = g.finalList
        BY <1>1, <2>3 DEF MergeType, ChildType
    <2>5. h.overall => g.overall /\ g.seg[g.ix].st = "ok"
        BY <1>1 DEF MergeType
    <2>6. merge'[m] = h /\ OthersKept(m)
        BY <2>1, BecomesFacts DEF StateInv, OthersKept
    <2> HIDE DEF h, g
    <2>7. NamesKept(m) /\ NoneForked(m)
        BY <2>3, <2>4, <2>6 DEF NamesKept, NoneForked, g
    <2>8. \A i \in Indices : /\ h.seg[i].st = "encoding" => g.seg[i].st = "encoding"
                             /\ Needed(h, i) => Needed(g, i)
        BY <1>1, <2>4, <2>5 DEF Needed
    <2>9. Quiet(m)
        BY <1>1, <2>4, <2>6, <2>7, <2>8 DEF Quiet, Working, g
    <2> QED
        BY <2>2, <2>6, <2>7, <2>9
<1> QED
    BY <1>2, <1>3

LEMMA AllWaitedStep ==
    ASSUME StateInv, NEW m \in Merges, AllWaited(m)
    PROVE  MergeInv(merge'[m]) /\ Quiet(m) /\ NoneForked(m)
<1> DEFINE g == merge[m]
           q == IF g.overall THEN "join" ELSE "cleanup"
           h == [g EXCEPT !.pc = q]
<1>1. /\ MergeInv(g) /\ g \in MergeType /\ g.pc = "wait" /\ g.ix = g.parts
      /\ Becomes(m, h) /\ files' = files
    BY MergeIs DEF AllWaited
<1>2. /\ h \in MergeType /\ h.seg = g.seg /\ h.pid = g.pid /\ h.count = g.count /\ h.parts = g.parts
      /\ g.overall => q # "cleanup"
      /\ h.ix = g.ix /\ h.pc = q /\ h.overall = g.overall /\ h.finalList = g.finalList
      /\ h.output = g.output
    BY <1>1 DEF MergeType
<1>3. \A i \in Indices : g.seg[i].st \in {"none", "waited"}
    <2>1. \A i \in Indices : i < g.ix \/ ~(i < g.parts)
        BY <1>1
    <2> QED
        BY <1>1, <2>1 DEF MergeInv, ChildrenOf, SegmentsOf
<1> HIDE DEF g, h
<1>4. ChildrenOf(h) /\ OutcomeOf(h)
    BY <1>1, <1>2, <1>3 DEF MergeInv, ChildrenOf, OutcomeOf, MergeType
<1>5. MergeInv(h)
    BY <1>1, <1>2, <1>4, SegmentsKept DEF Working
<1> QED
    BY <1>1, <1>2, <1>5, QuietSameSegments DEF g, Working

\* An orchestrator runs out of its arrays: it has more segments than they have entries.
LEMMA OverrunStep ==
    ASSUME StateInv, NEW m \in Merges, Overrun(m)
    PROVE  MergeInv(merge'[m]) /\ Quiet(m) /\ NoneForked(m)
<1> DEFINE g == merge[m]
           h == [g EXCEPT !.pc = "overrun"]
<1>1. /\ MergeInv(g) /\ g \in MergeType /\ g.pc \in {"fork", "wait"} /\ g.parts > MaxClips
      /\ Becomes(m, h) /\ files' = files
    BY MergeIs DEF Overrun
<1>2. /\ h \in MergeType /\ h.seg = g.seg /\ h.pid = g.pid /\ h.count = g.count /\ h.parts = g.parts
      /\ h.ix = g.ix /\ h.pc = "overrun" /\ h.overall = g.overall /\ h.finalList = g.finalList
      /\ h.output = g.output
    BY <1>1 DEF MergeType
<1> HIDE DEF g, h
<1>3. ChildrenOf(h) /\ OutcomeOf(h)
    BY <1>1, <1>2 DEF MergeInv, ChildrenOf, OutcomeOf
<1>4. MergeInv(h)
    BY <1>1, <1>2, <1>3, SegmentsKept DEF Working
<1> QED
    BY <1>1, <1>2, <1>4, QuietSameSegments DEF g, Working

LEMMA TransitionStep ==
    ASSUME StateInv, NEW m \in Merges, JoinWithTransition(m)
    PROVE  MergeInv(merge'[m]) /\ Quiet(m) /\ NoneForked(m)
<1> DEFINE g == merge[m]
<1>1. /\ MergeInv(g) /\ g \in MergeType /\ g.pc = "join" /\ g.transition /\ files' = files
      /\ g.overall
    BY MergeIs DEF JoinWithTransition, MergeInv, OutcomeOf
<1>2. CASE Becomes(m, Failing(g))
    <2> DEFINE h == Failing(g)
    <2>1. /\ MergeInv(h) /\ h.seg = g.seg /\ h.pid = g.pid /\ h.pc = "cleanup" /\ ~h.overall
          /\ h.finalList = g.finalList
        BY <1>1, FailingLocal
    <2> HIDE DEF g, h
    <2> QED
        BY <1>1, <1>2, <2>1, QuietSameSegments DEF g, h, Working
<1>3. ASSUME NEW d \in [0..(g.parts - 1) -> Durations],
             Becomes(m, [g EXCEPT !.dur = [i \in Indices |-> IF i < g.parts THEN d[i] ELSE 0],
                                  !.pc = "encode"])
      PROVE  MergeInv(merge'[m]) /\ Quiet(m) /\ NoneForked(m)
    <2> DEFINE u == [i \in Indices |-> IF i < g.parts THEN d[i] ELSE 0]
               h == [g EXCEPT !.dur = u, !.pc = "encode"]
    <2>1. u \in [Indices -> Nat]
        <3>1. g.parts \in Nat
            BY <1>1, Sizes DEF MergeType
        <3>2. \A i \in Indices : i < g.parts => i \in 0..(g.parts - 1)
            <4>1. ASSUME NEW k \in Nat PROVE \A i \in Indices : i < k => i \in 0..(k - 1)
                BY Sizes
            <4> QED
                BY <3>1, <4>1
        <3>3. Durations \subseteq Nat
            BY MergeAssumptions
        <3> QED
            BY <3>2, <3>3
    <2> HIDE DEF u
    <2>2. /\ h \in MergeType /\ h.seg = g.seg /\ h.pid = g.pid /\ h.count = g.count
          /\ h.parts = g.parts /\ h.ix = g.ix /\ h.pc = "encode" /\ h.overall = g.overall
          /\ h.finalList = g.finalList /\ h.output = g.output /\ h.dur = u
        BY <1>1, <2>1 DEF MergeType
    <2>3. Becomes(m, h)
        BY <1>3 DEF u
    <2> HIDE DEF g, h
    <2>4. ChildrenOf(h) /\ OutcomeOf(h)
        BY <1>1, <2>1, <2>2 DEF MergeInv, ChildrenOf, OutcomeOf
    <2>5. MergeInv(h)
        BY <1>1, <2>2, <2>4, SegmentsKept DEF Working
    <2> QED
        BY <1>1, <2>2, <2>3, <2>5, QuietSameSegments DEF g, Working
<1> QED
    BY <1>2, <1>3 DEF JoinWithTransition

\* The final list is written: all of it, or so far that the file exists.
ListWritten(m, whole) ==
    /\ OthersKept(m) /\ NamesKept(m) /\ merge'[m].seg = merge[m].seg
    /\ merge[m].pc = "join" /\ merge'[m].pc \in {"encode", "cleanup"}
    /\ ~whole => merge'[m].pc = "cleanup"
    /\ merge'[m].pc = "cleanup" => ~merge'[m].overall
    /\ merge'[m].finalList = whole
    /\ merge'[m].overall => merge[m].overall
    /\ files' = Written(FinalListOf(m), <<m, Final>>, whole)

LEMMA ListStep ==
    ASSUME StateInv, NEW m \in Merges, JoinWithList(m)
    PROVE  /\ MergeInv(merge'[m])
           /\ (Quiet(m) /\ NoneForked(m)) \/ ListWritten(m, TRUE) \/ ListWritten(m, FALSE)
<1> DEFINE g == merge[m]
           k == [g EXCEPT !.finalList = TRUE]
           h == [g EXCEPT !.finalList = TRUE, !.pc = "encode"]
<1>1. /\ MergeInv(g) /\ g \in MergeType /\ g.pc = "join" /\ ~g.transition
      /\ g.overall /\ g.finalList = FALSE
    BY MergeIs DEF JoinWithList, MergeInv, OutcomeOf, MergeType
<1>2. \/ Becomes(m, Failing(g)) /\ files' = files
      \/ Becomes(m, Failing(g)) /\ files' = Written(FinalListOf(m), <<m, Final>>, FALSE)
      \/ Becomes(m, Failing(k)) /\ files' = Written(FinalListOf(m), <<m, Final>>, TRUE)
      \/ Becomes(m, h) /\ files' = Written(FinalListOf(m), <<m, Final>>, TRUE)
    BY DEF JoinWithList
<1>3. /\ MergeInv(Failing(g)) /\ Failing(g).seg = g.seg /\ Failing(g).pid = g.pid
      /\ Failing(g).pc = "cleanup" /\ ~Failing(g).overall /\ Failing(g).finalList = FALSE
    BY <1>1, FailingLocal
<1>4. /\ MergeInv(Failing(k)) /\ Failing(k).seg = g.seg /\ Failing(k).pid = g.pid
      /\ Failing(k).pc = "cleanup" /\ ~Failing(k).overall /\ Failing(k).finalList = TRUE
    <2> DEFINE e == Failing(k)
    <2>1. /\ k \in MergeType /\ k.seg = g.seg /\ k.pid = g.pid /\ k.count = g.count
          /\ k.parts = g.parts /\ k.ix = g.ix /\ k.output = g.output /\ k.finalList = TRUE
        BY <1>1 DEF MergeType
    <2> HIDE DEF k
    <2>2. /\ e \in MergeType /\ e.seg = g.seg /\ e.pid = g.pid /\ e.count = g.count
          /\ e.parts = g.parts /\ e.ix = g.ix /\ e.output = g.output /\ e.finalList = TRUE
          /\ e.pc = "cleanup" /\ e.overall = FALSE
        BY <2>1 DEF MergeType, Failing
    <2> HIDE DEF e, g
    <2>3. ChildrenOf(e) /\ OutcomeOf(e)
        BY <1>1, <2>2 DEF MergeInv, ChildrenOf, OutcomeOf
    <2>4. MergeInv(e)
        BY <1>1, <2>2, <2>3, SegmentsKept DEF Working
    <2> QED
        BY <2>2, <2>4 DEF e
<1>5. /\ MergeInv(h) /\ h.seg = g.seg /\ h.pid = g.pid /\ h.pc = "encode" /\ h.overall = g.overall
      /\ h.finalList = TRUE
    <2>1. /\ h \in MergeType /\ h.seg = g.seg /\ h.pid = g.pid /\ h.count = g.count
          /\ h.parts = g.parts /\ h.ix = g.ix /\ h.output = g.output /\ h.finalList = TRUE
          /\ h.pc = "encode" /\ h.overall = g.overall /\ h.transition = g.transition
        BY <1>1 DEF MergeType
    <2> HIDE DEF g, h
    <2>2. ChildrenOf(h) /\ OutcomeOf(h)
        BY <1>1, <2>1 DEF MergeInv, ChildrenOf, OutcomeOf
    <2>3. MergeInv(h)
        BY <1>1, <2>1, <2>2, SegmentsKept DEF Working
    <2> QED
        BY <2>1, <2>3
<1> HIDE DEF h, k
<1>6. ASSUME NEW e, Becomes(m, e), e.seg = g.seg, e.pid = g.pid
      PROVE  merge'[m] = e /\ OthersKept(m) /\ NamesKept(m)
    <2>1. merge'[m] = e /\ OthersKept(m)
        BY <1>6, BecomesFacts DEF StateInv, OthersKept
    <2> QED
        BY <1>6, <2>1 DEF NamesKept
<1>7. CASE Becomes(m, Failing(g)) /\ files' = files
    <2> DEFINE e == Failing(g)
    <2>1. /\ MergeInv(e) /\ e.seg = g.seg /\ e.pid = g.pid
          /\ e.pc = "cleanup" /\ ~e.overall /\ e.finalList = g.finalList
        BY <1>1, <1>3
    <2> HIDE DEF g, e
    <2> QED
        BY <1>1, <1>7, <2>1, QuietSameSegments DEF g, e, Working
<1>8. CASE Becomes(m, Failing(g)) /\ files' = Written(FinalListOf(m), <<m, Final>>, FALSE)
    BY <1>1, <1>3, <1>6, <1>8 DEF ListWritten
<1>9. CASE Becomes(m, Failing(k)) /\ files' = Written(FinalListOf(m), <<m, Final>>, TRUE)
    BY <1>1, <1>4, <1>6, <1>9 DEF ListWritten
<1>10. CASE Becomes(m, h) /\ files' = Written(FinalListOf(m), <<m, Final>>, TRUE)
    BY <1>1, <1>5, <1>6, <1>10 DEF ListWritten
<1> QED
    BY <1>2, <1>7, <1>8, <1>9, <1>10

LEMMA EncodeStep ==
    ASSUME StateInv, NEW m \in Merges, Encode(m)
    PROVE  MergeInv(merge'[m]) /\ Quiet(m) /\ NoneForked(m)
<1> DEFINE g == merge[m]
           o == IF ReadsOwn(m) THEN "own" ELSE "foreign"
           h == [g EXCEPT !.output = o, !.dur = <<>>, !.pc = "cleanup"]
           k(left) == [g EXCEPT !.output = left, !.dur = <<>>]
<1>1. MergeInv(g) /\ g \in MergeType /\ g.pc = "encode" /\ g.overall = TRUE /\ files' = files
    BY MergeIs DEF Encode, MergeInv, OutcomeOf, MergeType
<1>2. Becomes(m, h) \/ \E left \in {"none", "truncated"} : Becomes(m, Failing(k(left)))
    BY DEF Encode, ReadsOwn
<1>3. CASE Becomes(m, h)
    <2>1. /\ h \in MergeType /\ h.seg = g.seg /\ h.pid = g.pid /\ h.count = g.count
          /\ h.parts = g.parts /\ h.ix = g.ix /\ h.pc = "cleanup" /\ h.overall = TRUE
          /\ h.finalList = g.finalList /\ h.output = o
        <3>1. o \in {"own", "foreign"}
            OBVIOUS
        <3> HIDE DEF o
        <3> QED
            BY <1>1, <3>1 DEF MergeType
    <2>2. o \in {"own", "foreign"} /\ (ReadsOwn(m) => o = "own")
        OBVIOUS
    <2> HIDE DEF g, h, o
    <2>3. ChildrenOf(h) /\ OutcomeOf(h)
        BY <1>1, <2>1, <2>2 DEF MergeInv, ChildrenOf, OutcomeOf
    <2>4. MergeInv(h)
        BY <1>1, <2>1, <2>3, SegmentsKept DEF Working
    <2> QED
        BY <1>1, <1>3, <2>1, <2>2, <2>4, QuietSameSegments DEF g, Working
<1>4. ASSUME NEW left \in {"none", "truncated"}, Becomes(m, Failing(k(left)))
      PROVE  MergeInv(merge'[m]) /\ Quiet(m) /\ NoneForked(m)
    <2> DEFINE e == Failing(k(left))
    <2>1. /\ e \in MergeType /\ e.seg = g.seg /\ e.pid = g.pid /\ e.count = g.count
          /\ e.parts = g.parts /\ e.ix = g.ix /\ e.pc = "cleanup" /\ e.overall = FALSE
          /\ e.finalList = g.finalList /\ e.output = left
        BY <1>1 DEF MergeType, Failing
    <2>2. Becomes(m, e)
        BY <1>4
    <2> HIDE DEF g, e
    <2>3. ChildrenOf(e) /\ OutcomeOf(e)
        BY <1>1, <2>1 DEF MergeInv, ChildrenOf, OutcomeOf
    <2>4. MergeInv(e)
        BY <1>1, <2>1, <2>3, SegmentsKept DEF Working
    <2> QED
        BY <1>1, <2>1, <2>2, <2>4, QuietSameSegments DEF g, Working
<1> QED
    BY <1>2, <1>3, <1>4

\* cleanup_temps and the exit.
Cleaned(m) ==
    /\ OthersKept(m) /\ NamesKept(m) /\ merge'[m].seg = merge[m].seg
    /\ merge[m].pc = "cleanup" /\ merge'[m].pc = "done"
    /\ merge'[m].finalList = merge[m].finalList /\ merge'[m].overall = merge[m].overall
    /\ merge'[m].output = merge[m].output
    /\ files' = Removed(Temps(m))

LEMMA CleanupStep ==
    ASSUME StateInv, NEW m \in Merges, Cleanup(m)
    PROVE  MergeInv(merge'[m]) /\ Cleaned(m)
<1> DEFINE g == merge[m]
           h == [g EXCEPT !.pc = "done"]
<1>1. /\ MergeInv(g) /\ g \in MergeType /\ g.pc = "cleanup" /\ Becomes(m, h)
      /\ files' = Removed(Temps(m))
    BY MergeIs DEF Cleanup
<1>2. /\ h \in MergeType /\ h.seg = g.seg /\ h.pid = g.pid /\ h.count = g.count
      /\ h.parts = g.parts /\ h.ix = g.ix /\ h.pc = "done" /\ h.overall = g.overall
      /\ h.finalList = g.finalList /\ h.output = g.output
    BY <1>1 DEF MergeType
<1>3. merge'[m] = h /\ OthersKept(m)
    BY <1>1, BecomesFacts DEF StateInv, OthersKept
<1> HIDE DEF g, h
<1>4. ChildrenOf(h) /\ OutcomeOf(h)
    BY <1>1, <1>2 DEF MergeInv, ChildrenOf, OutcomeOf
<1>5. MergeInv(h)
    BY <1>1, <1>2, <1>4, SegmentsKept DEF Working
<1>6. NamesKept(m)
    BY <1>2, <1>3 DEF NamesKept, g
<1> QED
    BY <1>1, <1>2, <1>3, <1>5, <1>6 DEF Cleaned, g

\* The server collects the orchestrator.
Reaped(m) ==
    /\ OthersKept(m) /\ files' = files
    /\ merge[m].pc = "done" /\ merge'[m].pc = "reaped"
    /\ merge'[m].finalList = merge[m].finalList /\ merge'[m].overall = merge[m].overall
    /\ \A i \in Indices : merge'[m].seg[i].st = "none"

LEMMA ReapStep ==
    ASSUME StateInv, NEW m \in Merges, Reap(m)
    PROVE  MergeInv(merge'[m]) /\ Reaped(m)
<1> DEFINE g == merge[m]
           h == [Idle EXCEPT !.overall = g.overall, !.finalList = g.finalList, !.pc = "reaped"]
<1>1. MergeInv(g) /\ g \in MergeType /\ g.pc = "done" /\ Becomes(m, h) /\ files' = files
    BY MergeIs DEF Reap
<1>2. /\ MergeInv(Idle) /\ Idle \in MergeType
      /\ \A i \in Indices : Idle.seg[i].st = "none" /\ Idle.seg[i].from = 0 /\ Idle.seg[i].to = 0
      /\ Idle.parts = 0 /\ Idle.count = 0 /\ Idle.ix = 0 /\ Idle.output = "none"
    BY IdleInv DEF MergeInv, Idle, NoChild
<1>3. g.overall \in BOOLEAN /\ g.finalList \in BOOLEAN
    BY <1>1 DEF MergeType
<1>4. merge'[m] = h /\ OthersKept(m)
    BY <1>1, BecomesFacts DEF StateInv, OthersKept
<1>5. /\ h \in MergeType /\ h.seg = Idle.seg /\ h.count = 0 /\ h.parts = 0 /\ h.ix = 0
      /\ h.pc = "reaped" /\ h.overall = g.overall /\ h.finalList = g.finalList
      /\ h.output = "none"
    BY <1>2, <1>3 DEF MergeType
<1> HIDE DEF g, h
<1>6. SegmentsOf(h) /\ ChildrenOf(h) /\ OutcomeOf(h)
    BY <1>2, <1>5 DEF SegmentsOf, ChildrenOf, OutcomeOf
<1>7. MergeInv(h)
    BY <1>5, <1>6 DEF MergeInv, Working
<1> QED
    BY <1>1, <1>2, <1>4, <1>5, <1>7 DEF Reaped, g

-----------------------------------------------------------------------------
(* Steps of the segment children, and all steps together                    *)

\* The child of segment i goes on, and does one thing to one of its files.
ChildMoved(m, i) ==
    /\ OthersKept(m) /\ NamesKept(m) /\ NoneForked(m)
    /\ merge[m].pc \in {"fork", "wait", "overrun"} /\ merge'[m].pc = merge[m].pc
    /\ merge'[m].overall = merge[m].overall
    /\ merge[m].seg[i].st \in Unfinished
    /\ \A j \in Indices : j # i => merge'[m].seg[j] = merge[m].seg[j]
    /\ \/ /\ merge'[m].seg[i].st \in {"listed", "fail"}
          /\ \E whole \in BOOLEAN : files' = Written(ListOf(m, i), <<m, i>>, whole)
       \/ merge'[m].seg[i].st = "fail" /\ files' = files
       \/ merge'[m].seg[i].st = "encoding" /\ files' = Written(SegmentOf(m, i), <<m, i>>, FALSE)
       \/ /\ merge[m].seg[i].st = "encoding" /\ merge'[m].seg[i].st = "ok"
          /\ files' = Finished(SegmentOf(m, i), <<m, i>>)

LEMMA ChildStep ==
    ASSUME StateInv, NEW m \in Merges, NEW i \in Indices, Segment(m, i)
    PROVE  MergeInv(merge'[m]) /\ ChildMoved(m, i)
<1> DEFINE g == merge[m]
           h(st) == [g EXCEPT !.seg[i].st = st]
<1>1. MergeInv(g) /\ g \in MergeType
    BY MergeIs
<1>2. /\ g.seg[i].st \in Unfinished
      /\ \E st \in Unfinished \cup Ended :
            /\ Becomes(m, h(st))
            /\ \/ /\ st \in {"listed", "fail"}
                  /\ \E whole \in BOOLEAN : files' = Written(ListOf(m, i), <<m, i>>, whole)
               \/ st = "fail" /\ files' = files
               \/ st = "encoding" /\ files' = Written(SegmentOf(m, i), <<m, i>>, FALSE)
               \/ /\ g.seg[i].st = "encoding" /\ st = "ok"
                  /\ files' = Finished(SegmentOf(m, i), <<m, i>>)
    <2>1. {"start", "listed", "encoding", "ok", "fail"} = Unfinished \cup Ended
        BY DEF Unfinished, Ended
    <2>2. CASE WriteList(m, i)
        BY <2>1, <2>2 DEF WriteList, ChildBecomes, Unfinished
    <2>3. CASE SpawnFfmpeg(m, i)
        BY <2>1, <2>3 DEF SpawnFfmpeg, ChildBecomes, Unfinished
    <2>4. CASE FinishSegment(m, i)
        BY <2>1, <2>4 DEF FinishSegment, ChildBecomes, Unfinished
    <2> QED
        BY <2>2, <2>3, <2>4 DEF Segment
<1>3. PICK st \in Unfinished \cup Ended :
            /\ Becomes(m, h(st))
            /\ \/ /\ st \in {"listed", "fail"}
                  /\ \E whole \in BOOLEAN : files' = Written(ListOf(m, i), <<m, i>>, whole)
               \/ st = "fail" /\ files' = files
               \/ st = "encoding" /\ files' = Written(SegmentOf(m, i), <<m, i>>, FALSE)
               \/ /\ g.seg[i].st = "encoding" /\ st = "ok"
                  /\ files' = Finished(SegmentOf(m, i), <<m, i>>)
    BY <1>2
<1>4. MergeInv(h(st))
    BY <1>1, <1>2, ChildLocal
<1>5. /\ h(st).seg[i].st = st /\ h(st).seg[i].pid = g.seg[i].pid /\ h(st).seg[i].from = g.seg[i].from
      /\ \A j \in Indices : j # i => h(st).seg[j] = g.seg[j]
      /\ h(st).pid = g.pid /\ h(st).pc = g.pc /\ h(st).overall = g.overall
    BY <1>1 DEF MergeType, ChildType
<1>6. merge'[m] = h(st) /\ OthersKept(m)
    BY <1>3, BecomesFacts DEF StateInv, OthersKept
<1>7. /\ MergeInv(merge'[m]) /\ merge'[m].seg[i].st = st
      /\ merge'[m].seg[i].pid = g.seg[i].pid /\ merge'[m].seg[i].from = g.seg[i].from
      /\ \A j \in Indices : j # i => merge'[m].seg[j] = g.seg[j]
      /\ merge'[m].pid = g.pid /\ merge'[m].pc = g.pc /\ merge'[m].overall = g.overall
    BY <1>4, <1>5, <1>6
<1>8. g.seg[i].st # "none" /\ st # "none" /\ g.pc \in {"fork", "wait", "overrun"}
    BY <1>1, <1>2 DEF MergeInv, MergeType, ChildrenOf, Unfinished, Ended
<1>9. NamesKept(m) /\ NoneForked(m)
    BY <1>7, <1>8 DEF NamesKept, NoneForked
<1> QED
    BY <1>2, <1>3, <1>6, <1>7, <1>8, <1>9 DEF ChildMoved

\* Submit, and fork of segment i.
Submitted(m) ==
    /\ OthersKept(m) /\ files' = files
    /\ merge[m].pc = "idle" /\ merge'[m].pc \in {"fork", "done"}
    /\ merge'[m].pc = "done" => ~merge'[m].overall
    /\ merge'[m].pid \in FreePids
    /\ \A i \in Indices : merge'[m].seg[i].st = "none"

ForkedOne(m, i) ==
    /\ Quiet(m)
    /\ merge[m].seg[i].st = "none" /\ merge'[m].seg[i].pid \in FreePids
    /\ \A j \in Indices : j # i => merge'[m].seg[j] = merge[m].seg[j]

\* What a step of merge m is.
StepOf(m) ==
    \/ Submitted(m)
    \/ Quiet(m) /\ NoneForked(m)
    \/ \E i \in Indices : ForkedOne(m, i)
    \/ ListWritten(m, TRUE) \/ ListWritten(m, FALSE)
    \/ Cleaned(m)
    \/ Reaped(m)
    \/ \E i \in Indices : ChildMoved(m, i)

LEMMA Steps ==
    ASSUME StateInv, [Next]_vars
    PROVE  UNCHANGED vars \/ \E m \in Merges : MergeInv(merge'[m]) /\ StepOf(m)
<1>1. ASSUME NEW m \in Merges, Submit(m) PROVE MergeInv(merge'[m]) /\ StepOf(m)
    BY <1>1, SubmitStep DEF StepOf, Submitted
<1>2. ASSUME NEW m \in Merges, Orchestrator(m) PROVE MergeInv(merge'[m]) /\ StepOf(m)
    <2>1. CASE ForkSegment(m)
        BY <2>1, ForkStep DEF StepOf, ForkedOne
    <2>2. CASE AllForked(m)
        BY <2>2, AllForkedStep DEF StepOf
    <2>9. CASE Overrun(m)
        BY <2>9, OverrunStep DEF StepOf
    <2>3. CASE WaitSegment(m)
        BY <2>3, WaitStep DEF StepOf
    <2>4. CASE AllWaited(m)
        BY <2>4, AllWaitedStep DEF StepOf
    <2>5. CASE JoinWithTransition(m)
        BY <2>5, TransitionStep DEF StepOf
    <2>6. CASE JoinWithList(m)
        BY <2>6, ListStep DEF StepOf
    <2>7. CASE Encode(m)
        BY <2>7, EncodeStep DEF StepOf
    <2>8. CASE Cleanup(m)
        BY <2>8, CleanupStep DEF StepOf
    <2> QED
        BY <1>2, <2>1, <2>2, <2>3, <2>4, <2>5, <2>6, <2>7, <2>8, <2>9 DEF Orchestrator
<1>3. ASSUME NEW m \in Merges, Reap(m) PROVE MergeInv(merge'[m]) /\ StepOf(m)
    BY <1>3, ReapStep DEF StepOf
<1>4. ASSUME NEW m \in Merges, NEW i \in Indices, Segment(m, i)
      PROVE  MergeInv(merge'[m]) /\ StepOf(m)
    BY <1>4, ChildStep DEF StepOf
<1> QED
    BY <1>1, <1>2, <1>3, <1>4 DEF Next, Running, Terminated

\* merge stays a function, whichever step is taken.
LEMMA DomainKept ==
    ASSUME StateInv, [Next]_vars
    PROVE  merge' = [n \in Merges |-> merge'[n]]
<1>1. merge = [n \in Merges |-> merge[n]]
    BY DEF StateInv
<1>2. ASSUME NEW m \in Merges, NEW g, Becomes(m, g) PROVE merge' = [n \in Merges |-> merge'[n]]
    BY <1>1, <1>2 DEF Becomes
<1>3. merge' = merge \/ \E m \in Merges : \E g : Becomes(m, g)
    <2>1. ASSUME NEW m \in Merges, Submit(m) PROVE \E g : Becomes(m, g)
        BY <2>1 DEF Submit
    <2>2. ASSUME NEW m \in Merges, Orchestrator(m) PROVE \E g : Becomes(m, g)
        <3>1. ForkSegment(m) => \E g : Becomes(m, g)
            BY DEF ForkSegment
        <3>2. AllForked(m) \/ Overrun(m) \/ WaitSegment(m) \/ AllWaited(m) => \E g : Becomes(m, g)
            BY DEF AllForked, Overrun, WaitSegment, AllWaited
        <3>3. JoinWithTransition(m) => \E g : Becomes(m, g)
            BY DEF JoinWithTransition
        <3>4. JoinWithList(m) => \E g : Becomes(m, g)
            BY DEF JoinWithList
        <3>5. Encode(m) => \E g : Becomes(m, g)
            BY DEF Encode
        <3>6. Cleanup(m) => \E g : Becomes(m, g)
            BY DEF Cleanup
        <3> QED
            BY <2>2, <3>1, <3>2, <3>3, <3>4, <3>5, <3>6 DEF Orchestrator
    <2>3. ASSUME NEW m \in Merges, Reap(m) PROVE \E g : Becomes(m, g)
        BY <2>3 DEF Reap
    <2>4. ASSUME NEW m \in Merges, NEW i \in Indices, Segment(m, i) PROVE \E g : Becomes(m, g)
        BY <2>4 DEF Segment, WriteList, SpawnFfmpeg, FinishSegment, ChildBecomes
    <2> QED
        BY <2>1, <2>2, <2>3, <2>4 DEF Next, Running, Terminated, vars
<1> QED
    BY <1>1, <1>2, <1>3

LEMMA StateStep ==
    ASSUME StateInv, [Next]_vars
    PROVE  StateInv'
<1>1. CASE UNCHANGED vars
    BY <1>1 DEF StateInv, LocalInv, vars
<1>2. ASSUME NEW m \in Merges, MergeInv(merge'[m]), StepOf(m)
      PROVE  StateInv'
    <2>1. OthersKept(m)
        BY <1>2 DEF StepOf, Submitted, Quiet, ForkedOne, ListWritten, Cleaned, Reaped, ChildMoved
    <2>2. work' \in Workloads /\ \A n \in Merges : MergeInv(merge'[n])
        BY <1>2, <2>1 DEF OthersKept, StateInv, LocalInv
    <2>3. \A n \in Merges : merge'[n] \in MergeType
        BY <2>2 DEF MergeInv
    <2>4. merge' \in [Merges -> MergeType]
        BY <2>3, DomainKept
    <2> QED
        BY <2>2, <2>4 DEF StateInv, LocalInv
<1> QED
    BY <1>1, <1>2, Steps

LEMMA StateInit == Init => StateInv
<1> SUFFICES ASSUME Init PROVE StateInv
    OBVIOUS
<1>1. MergeInv(Idle) /\ Idle \in MergeType
    BY IdleInv DEF MergeInv
<1> QED
    BY <1>1 DEF Init, StateInv, LocalInv

LEMMA StateAlways == Spec => []StateInv
<1>1. StateInv /\ [Next]_vars => StateInv'
    BY StateStep
<1> QED
    BY <1>1, StateInit, PTL DEF Spec

-----------------------------------------------------------------------------
(* What follows from it                                                     *)

\* The split is right however many clips and however much parallelism there is:
\* the segments cover the clips, without gap or overlap, and are of even size.
THEOREM SegmentsAlwaysCoverClips == Spec => []SegmentsCoverClips
<1>1. ASSUME StateInv, NEW m \in Merges, merge[m].pc = "fork", merge[m].ix = merge[m].parts
      PROVE  /\ merge[m].seg[0].from = 0
             /\ merge[m].seg[merge[m].parts - 1].to = merge[m].count
             /\ \A i \in 0..(merge[m].parts - 2) : merge[m].seg[i].to = merge[m].seg[i + 1].from
             /\ \A i, j \in 0..(merge[m].parts - 1) :
                   /\ merge[m].seg[i].from < merge[m].seg[i].to
                   /\ merge[m].seg[i].to - merge[m].seg[i].from
                        <= merge[m].seg[j].to - merge[m].seg[j].from + 1
    <2> DEFINE g == merge[m]
               c == g.count
               k == g.parts
    <2>1. MergeInv(g) /\ g \in MergeType
        BY <1>1, MergeIs
    <2>2. c \in Nat /\ k \in 1..c /\ k <= MaxClips
        BY <1>1, <2>1, Sizes DEF MergeInv, MergeType, ChildrenOf, Working
    <2>3. \A i \in 0..(k - 1) : i \in Indices /\ i \in 0..k /\ i + 1 \in 0..k
        BY <2>2, Sizes
    <2>4. \A i \in 0..(k - 1) : g.seg[i].from = CutAt(c, k, i) /\ g.seg[i].to = CutAt(c, k, i + 1)
        <3>1. \A i \in 0..(k - 1) : g.seg[i].st # "none"
            BY <1>1, <2>1, <2>2, <2>3 DEF MergeInv, ChildrenOf
        <3> QED
            BY <2>1, <2>3, <3>1 DEF MergeInv, SegmentsOf
    <2>5. ASSUME NEW i \in 0..k
          PROVE  /\ CutAt(c, k, 0) = 0 /\ CutAt(c, k, k) = c
                 /\ CutAt(c, k, i) \in 0..c /\ Share(c, k, i) \in Nat \ {0}
                 /\ \A j \in 0..k : Share(c, k, i) <= Share(c, k, j) + 1
                 /\ CutAt(c, k, i + 1) = CutAt(c, k, i) + Share(c, k, i)
        <3> HIDE DEF g, c, k
        <3>1. ASSUME NEW a \in Nat, NEW b \in 1..a, NEW l \in 0..b
              PROVE  /\ CutAt(a, b, 0) = 0 /\ CutAt(a, b, b) = a
                     /\ CutAt(a, b, l) \in 0..a /\ Share(a, b, l) \in Nat \ {0}
                     /\ \A j \in 0..b : Share(a, b, l) <= Share(a, b, j) + 1
                     /\ CutAt(a, b, l + 1) = CutAt(a, b, l) + Share(a, b, l)
            BY Split
        <3>2. c \in Nat /\ k \in 1..c
            BY <2>2
        <3> QED
            BY <3>1, <3>2
    <2> HIDE DEF g, c, k
    <2>6. 0 \in 0..(k - 1) /\ k - 1 \in 0..(k - 1) /\ (k - 1) + 1 = k /\ 0 \in 0..k
        BY <2>2
    <2>7. g.seg[0].from = 0 /\ g.seg[k - 1].to = c
        BY <2>4, <2>5, <2>6
    <2>8. \A i \in 0..(k - 2) : g.seg[i].to = g.seg[i + 1].from
        <3>1. \A i \in 0..(k - 2) : i \in 0..(k - 1) /\ i + 1 \in 0..(k - 1)
            BY <2>2
        <3> QED
            BY <2>4, <3>1
    <2>9. \A i \in 0..(k - 1) : /\ g.seg[i].from \in Nat /\ Share(c, k, i) \in Nat \ {0}
                                /\ g.seg[i].to = g.seg[i].from + Share(c, k, i)
        BY <2>3, <2>4, <2>5
    <2>10. \A i, j \in 0..(k - 1) : Share(c, k, i) <= Share(c, k, j) + 1
        BY <2>3, <2>5
    <2>11. ASSUME NEW i \in 0..(k - 1), NEW j \in 0..(k - 1)
           PROVE  /\ g.seg[i].from < g.seg[i].to
                  /\ g.seg[i].to - g.seg[i].from <= g.seg[j].to - g.seg[j].from + 1
        <3>1. Share(c, k, i) <= Share(c, k, j) + 1
            BY <2>10
        <3> QED
            BY <2>9, <3>1
    <2> QED
        BY <2>7, <2>8, <2>11 DEF g, c, k
<1>2. StateInv => SegmentsCoverClips
    BY <1>1 DEF SegmentsCoverClips
<1> QED
    BY <1>2, StateAlways, PTL

\* No orchestrator exits before it has waited for all children it forked, also when
\* a fork fails half way: the server could not tell who they are afterwards.
THEOREM EveryChildIsWaited == Spec => []EveryChildWaited
<1>1. StateInv => EveryChildWaited
    BY DEF StateInv, LocalInv, MergeInv, ChildrenOf, EveryChildWaited
<1> QED
    BY <1>1, StateAlways, PTL

\* The offsets handed to xfade are where the joined video ends but for the length of
\* the transition, for every number of segments and whatever their lengths.
THEOREM TransitionsAlwaysMeet == Spec => []TransitionsMeet
<1>1. ASSUME StateInv, NEW m \in Merges, merge[m].pc = "encode", merge[m].transition,
             NEW i \in 1..(merge[m].parts - 1)
      PROVE  /\ Offset(merge[m].dur, i) <= Joined(merge[m].dur)[i - 1]
             /\ (\A j \in 0..(merge[m].parts - 1) : merge[m].dur[j] >= Fade)
                => Offset(merge[m].dur, i) + Fade = Joined(merge[m].dur)[i - 1]
    <2>1. MergeInv(merge[m]) /\ merge[m] \in MergeType
        BY <1>1, MergeIs
    <2>2. merge[m].dur \in [Indices -> Nat]
        BY <1>1, <2>1 DEF MergeInv, OutcomeOf
    <2>3. merge[m].parts - 1 \in Indices
        BY <1>1, <2>1, Sizes DEF MergeInv, MergeType, ChildrenOf, OutcomeOf, Working
    <2> QED
        BY <2>2, <2>3, OffsetsMeet
<1>2. StateInv => TransitionsMeet
    BY <1>1 DEF TransitionsMeet
<1> QED
    BY <1>2, StateAlways, PTL

-----------------------------------------------------------------------------
(* The temporary files                                                      *)

\* A file of a segment child: its merge is at work, and will remove it.
SegmentTemp(f) ==
    \E m \in Merges, i \in Indices :
        /\ f.of = <<m, i>> /\ merge[m].pc \in Working /\ merge[m].seg[i].st # "none"
        /\ f.name \in {ListOf(m, i), SegmentOf(m, i)}

\* A final list: its merge will remove it, or has failed to write it.
FinalTemp(f) ==
    \E m \in Merges :
        /\ f.of = <<m, Final>>
        /\ merge[m].pc # "reaped" => f.name = FinalListOf(m)
        /\ \/ merge[m].finalList /\ merge[m].pc \in {"encode", "cleanup"}
           \/ /\ ~merge[m].finalList /\ ~f.whole /\ ~merge[m].overall
              /\ merge[m].pc \in {"cleanup", "done", "reaped"}

FileInv(f) ==
    /\ f = [name |-> f.name, of |-> f.of, whole |-> f.whole]
    /\ SegmentTemp(f) \/ FinalTemp(f)

FilesInv ==
    /\ \A f \in files : FileInv(f)
    /\ \A f, h \in files : f.name = h.name => f = h

LEMMA FinalIsNoIndex == Final \notin Indices
BY Sizes DEF Final

LEMMA Pairs ==
    ASSUME NEW m, NEW n, NEW i, NEW j, <<m, i>> = <<n, j>>
    PROVE  m = n /\ i = j
OBVIOUS

\* A step changes nothing about the files that it does not write or remove.
LEMMA OldFile ==
    ASSUME StateInv, NEW m \in Merges, MergeInv(merge'[m]), StepOf(m), NEW f, FileInv(f),
           Cleaned(m) => f.name \notin Temps(m)
    PROVE  FileInv(f)'
<1>1. MergeInv(merge[m]) /\ merge[m] \in MergeType /\ OthersKept(m)
    BY MergeIs DEF StepOf, Submitted, Quiet, ForkedOne, ListWritten, Cleaned, Reaped, ChildMoved
<1>2. ASSUME NEW n \in Merges, NEW i \in Indices, f.of = <<n, i>>, merge[n].pc \in Working,
             merge[n].seg[i].st # "none", f.name \in {ListOf(n, i), SegmentOf(n, i)}
      PROVE  SegmentTemp(f)'
    <2>1. CASE n # m
        <3>1. merge'[n] = merge[n]
            BY <1>1, <2>1 DEF OthersKept
        <3> QED
            BY <1>2, <3>1 DEF SegmentTemp, ListOf, SegmentOf, ConcatList, SegmentFile
    <2>2. CASE n = m
        <3>1. ~Cleaned(m)
            <4>1. i \in Forked(m)
                BY <1>2, <2>2 DEF Forked
            <4>2. f.name \in Temps(m)
                BY <1>2, <2>2, <4>1 DEF Temps
            <4> QED
                BY <4>2
        <3>2. NamesKept(m) /\ merge'[m].pc \in Working
            BY <1>2, <2>2, <3>1 DEF StepOf, Submitted, Quiet, ForkedOne, ListWritten, Reaped,
                                    ChildMoved, Working
        <3>3. /\ merge'[m].seg[i].st # "none"
              /\ merge'[m].seg[i].pid = merge[m].seg[i].pid
              /\ merge'[m].seg[i].from = merge[m].seg[i].from
            BY <1>2, <2>2, <3>2 DEF NamesKept
        <3> QED
            BY <1>2, <2>2, <3>2, <3>3 DEF SegmentTemp, ListOf, SegmentOf, ConcatList, SegmentFile
    <2> QED
        BY <2>1, <2>2
<1>3. ASSUME NEW n \in Merges, f.of = <<n, Final>>,
             merge[n].pc # "reaped" => f.name = FinalListOf(n),
             \/ merge[n].finalList /\ merge[n].pc \in {"encode", "cleanup"}
             \/ /\ ~merge[n].finalList /\ ~f.whole /\ ~merge[n].overall
                /\ merge[n].pc \in {"cleanup", "done", "reaped"}
      PROVE  FinalTemp(f)'
    <2>1. CASE n # m
        <3>1. merge'[n] = merge[n]
            BY <1>1, <2>1 DEF OthersKept
        <3> QED
            BY <1>3, <3>1 DEF FinalTemp, FinalListOf, ConcatList
    <2>2. CASE n = m
        <3>1. CASE merge[n].finalList /\ merge[n].pc \in {"encode", "cleanup"}
            <4>1. ~Cleaned(m)
                <5>1. f.name \in Temps(m)
                    BY <1>3, <2>2, <3>1 DEF Temps
                <5> QED
                    BY <5>1
            <4>2. NamesKept(m) /\ merge'[m].pc = "cleanup" /\ merge'[m].finalList
                BY <2>2, <3>1, <4>1 DEF StepOf, Submitted, Quiet, ForkedOne, ListWritten, Reaped,
                                        ChildMoved
            <4>3. FinalListOf(m)' = FinalListOf(m)
                BY <4>2 DEF NamesKept, FinalListOf, ConcatList
            <4> QED
                BY <1>3, <2>2, <3>1, <4>2, <4>3 DEF FinalTemp
        <3>2. CASE /\ ~merge[n].finalList /\ ~f.whole /\ ~merge[n].overall
                   /\ merge[n].pc \in {"cleanup", "done", "reaped"}
            <4>1. Cleaned(m) \/ Reaped(m)
                BY <2>2, <3>2 DEF StepOf, Submitted, Quiet, ForkedOne, ListWritten, ChildMoved
            <4>2. /\ merge'[m].pc \in {"done", "reaped"} /\ ~merge'[m].overall /\ ~merge'[m].finalList
                  /\ merge'[m].pc = "done" => NamesKept(m) /\ merge[m].pc = "cleanup"
                BY <2>2, <3>2, <4>1 DEF Cleaned, Reaped
            <4>3. merge'[m].pc # "reaped" => f.name = FinalListOf(m)'
                BY <1>3, <2>2, <4>2 DEF NamesKept, FinalListOf, ConcatList
            <4> QED
                BY <1>3, <2>2, <3>2, <4>2, <4>3 DEF FinalTemp
        <3> QED
            BY <1>3, <3>1, <3>2
    <2> QED
        BY <2>1, <2>2
<1> QED
    BY <1>2, <1>3 DEF FileInv, SegmentTemp, FinalTemp

LEMMA WrittenFiles ==
    ASSUME FilesInv, NEW name, NEW of, NEW whole, files' = Written(name, of, whole),
           \A f \in files : FileInv(f)',
           FileInv([name |-> name, of |-> of, whole |-> whole])'
    PROVE  FilesInv'
<1> DEFINE new == [name |-> name, of |-> of, whole |-> whole]
<1>1. \A f : f \in files' <=> (f \in files /\ f.name # name) \/ f = new
    BY DEF Written
<1>2. new.name = name
    OBVIOUS
<1> HIDE DEF new
<1>3. \A f \in files' : FileInv(f)'
    BY <1>1 DEF new
<1>4. \A f, h \in files' : f.name = h.name => f = h
    BY <1>1, <1>2 DEF FilesInv
<1> QED
    BY <1>3, <1>4 DEF FilesInv

LEMMA FinishedFiles ==
    ASSUME FilesInv, NEW m \in Merges, NEW i \in Indices, NEW name,
           files' = Finished(name, <<m, i>>), \A f \in files : FileInv(f)'
    PROVE  FilesInv'
<1> DEFINE mark(f) == IF f.name = name /\ f.of = <<m, i>> THEN [f EXCEPT !.whole = TRUE] ELSE f
<1>1. ASSUME NEW f \in files
      PROVE  mark(f).name = f.name /\ FileInv(mark(f))'
    <2>1. CASE f.name = name /\ f.of = <<m, i>>
        <3>1. f = [name |-> f.name, of |-> f.of, whole |-> f.whole]
            BY DEF FilesInv, FileInv
        <3>2. mark(f) = [name |-> f.name, of |-> f.of, whole |-> TRUE]
            BY <2>1, <3>1
        <3>3. /\ mark(f).name = f.name /\ mark(f).of = f.of
              /\ mark(f) = [name |-> mark(f).name, of |-> mark(f).of, whole |-> mark(f).whole]
            BY <3>2
        <3>4. FileInv(f)'
            OBVIOUS
        <3>5. ~FinalTemp(f)'
            BY <2>1, FinalIsNoIndex, Pairs DEF FinalTemp
        <3> HIDE DEF mark
        <3> QED
            BY <3>3, <3>4, <3>5 DEF FileInv, SegmentTemp
    <2>2. CASE ~(f.name = name /\ f.of = <<m, i>>)
        BY <2>2
    <2> QED
        BY <2>1, <2>2
<1>2. files' = {mark(f) : f \in files}
    BY DEF Finished
<1> HIDE DEF mark
<1>3. \A f \in files' : FileInv(f)'
    BY <1>1, <1>2
<1>4. \A f, h \in files' : f.name = h.name => f = h
    BY <1>1, <1>2 DEF FilesInv
<1> QED
    BY <1>3, <1>4 DEF FilesInv

LEMMA FilesStep ==
    ASSUME StateInv, FilesInv, [Next]_vars
    PROVE  FilesInv'
<1>1. CASE UNCHANGED vars
    BY <1>1 DEF FilesInv, FileInv, SegmentTemp, FinalTemp, ListOf, SegmentOf, FinalListOf, vars
<1>2. ASSUME NEW m \in Merges, MergeInv(merge'[m]), StepOf(m)
      PROVE  FilesInv'
    <2>1. \A f \in files : FileInv(f)
        BY DEF FilesInv
    <2>2. CASE Cleaned(m)
        <3>1. \A f \in files' : f \in files /\ f.name \notin Temps(m)
            BY <2>2 DEF Cleaned, Removed
        <3>2. \A f \in files' : FileInv(f)'
            BY <1>2, <2>1, <3>1, OldFile
        <3> QED
            BY <3>1, <3>2 DEF FilesInv
    <2>3. CASE ~Cleaned(m)
        <3>1. \A f \in files : FileInv(f)'
            BY <1>2, <2>1, <2>3, OldFile
        <3>2. CASE files' = files
            BY <3>1, <3>2 DEF FilesInv
        <3>3. ASSUME NEW whole \in BOOLEAN, ListWritten(m, whole) PROVE FilesInv'
            <4>1. FinalListOf(m)' = FinalListOf(m)
                BY <3>3 DEF ListWritten, NamesKept, FinalListOf, ConcatList
            <4>2. ASSUME NEW name, name = FinalListOf(m) PROVE FilesInv'
                <5> DEFINE new == [name |-> name, of |-> <<m, Final>>, whole |-> whole]
                <5>1. /\ new.name = FinalListOf(m)' /\ new.of = <<m, Final>> /\ new.whole = whole
                      /\ new = [name |-> new.name, of |-> new.of, whole |-> new.whole]
                    BY <4>1, <4>2
                <5> HIDE DEF new
                <5>2. FinalTemp(new)'
                    BY <3>3, <5>1 DEF FinalTemp, ListWritten
                <5>3. FileInv(new)'
                    BY <5>1, <5>2 DEF FileInv
                <5> QED
                    BY <3>1, <3>3, <4>2, <5>3, WrittenFiles DEF ListWritten, new
            <4> QED
                BY <4>2
        <3>4. ASSUME NEW i \in Indices, ChildMoved(m, i) PROVE FilesInv'
            <4>1. /\ ListOf(m, i)' = ListOf(m, i) /\ SegmentOf(m, i)' = SegmentOf(m, i)
                  /\ merge'[m].seg[i].st # "none" /\ merge'[m].pc \in Working
                BY <3>4 DEF ChildMoved, NamesKept, ListOf, SegmentOf, ConcatList, SegmentFile,
                            Unfinished, Working
            <4>2. ASSUME NEW name \in {ListOf(m, i), SegmentOf(m, i)}, NEW whole \in BOOLEAN,
                         files' = Written(name, <<m, i>>, whole)
                  PROVE  FilesInv'
                <5> DEFINE new == [name |-> name, of |-> <<m, i>>, whole |-> whole]
                <5>1. /\ new.name \in {ListOf(m, i)', SegmentOf(m, i)'} /\ new.of = <<m, i>>
                      /\ new = [name |-> new.name, of |-> new.of, whole |-> new.whole]
                    BY <4>1
                <5> HIDE DEF new
                <5>2. FileInv(new)'
                    BY <4>1, <5>1 DEF FileInv, SegmentTemp
                <5> QED
                    BY <3>1, <4>2, <5>2, WrittenFiles DEF new
            <4>3. CASE files' = Finished(SegmentOf(m, i), <<m, i>>)
                BY <3>1, <4>3, FinishedFiles
            <4> QED
                BY <3>2, <3>4, <4>2, <4>3 DEF ChildMoved
        <3> QED
            BY <1>2, <2>3, <3>2, <3>3, <3>4 DEF StepOf, Submitted, Quiet, ForkedOne, Reaped
    <2> QED
        BY <2>2, <2>3
<1> QED
    BY <1>1, <1>2, Steps

LEMMA FilesAlways == Spec => [](StateInv /\ FilesInv)
<1>1. Init => FilesInv
    BY DEF Init, FilesInv
<1>2. StateInv /\ FilesInv /\ [Next]_vars => StateInv' /\ FilesInv'
    BY StateStep, FilesStep
<1> QED
    BY <1>1, <1>2, StateInit, PTL DEF Spec

\* Every variable keeps its type, for any workload, of any number of clips: only a merge of
\* more than PROTO_MAX_CLIPS clips runs out of the arrays of that many entries, no segment
\* of another reaches behind them, and one name stands for one file.
THEOREM MergeTypeCorrect == Spec => []TypeOK
<1>1. ASSUME StateInv, NEW m \in Merges
      PROVE  LET g == merge[m] IN
             /\ g.count \in Nat /\ g.transition \in BOOLEAN /\ g.parts \in 0..g.count
             /\ g.pid \in 0..MaxPid
             /\ g.seg \in [Indices -> [from : 0..g.count, to : 0..g.count, pid : 0..MaxPid,
                                       st : ChildStates]]
             /\ g.cursor \in Nat /\ g.ix \in 0..g.parts
             /\ g.overall \in BOOLEAN /\ g.finalList \in BOOLEAN
             /\ g.output \in {"none", "truncated", "own", "foreign"}
             /\ g.pc \in {"idle", "fork", "wait", "join", "encode", "cleanup", "done", "reaped",
                          "overrun"}
             /\ g.pc = "overrun" => g.count > MaxClips
    <2>1. MergeInv(merge[m]) /\ merge[m] \in MergeType
        BY <1>1, MergeIs
    <2> DEFINE c == merge[m].count
    <2>2. merge[m].seg \in [Indices -> [from : 0..c, to : 0..c, pid : 0..MaxPid, st : ChildStates]]
        <3>1. \A i \in Indices : /\ merge[m].seg[i] \in ChildType
                                 /\ merge[m].seg[i].from \in 0..c /\ merge[m].seg[i].to \in 0..c
            BY <2>1 DEF MergeInv, MergeType, SegmentsOf
        <3>2. \A i \in Indices :
                 merge[m].seg[i] \in [from : 0..c, to : 0..c, pid : 0..MaxPid, st : ChildStates]
            BY <3>1 DEF ChildType
        <3> QED
            BY <2>1, <3>2 DEF MergeType
    <2>4. merge[m].pc = "overrun" => c > MaxClips
        BY <2>1, Sizes DEF MergeInv, MergeType, ChildrenOf
    <2>3. merge[m].parts \in 0..merge[m].count /\ merge[m].ix \in 0..merge[m].parts
        BY <2>1, Sizes DEF MergeInv, MergeType
    <2> QED
        BY <2>1, <2>2, <2>3, <2>4 DEF MergeType
<1>2. StateInv /\ FilesInv => TypeOK
    BY <1>1 DEF TypeOK, StateInv, LocalInv, FilesInv
<1> QED
    BY <1>2, FilesAlways, PTL

\* No merge that has ended leaves a temporary file, whatever failed on the way, but for
\* the final list that could not be written to the end.
THEOREM TempsAlwaysRemoved == Spec => []TempsRemoved
<1>1. ASSUME FilesInv, NEW f \in files, merge[f.of[1]].pc \in {"done", "reaped"}
      PROVE  /\ f.of[2] = Final /\ ~f.whole
             /\ ~merge[f.of[1]].overall /\ ~merge[f.of[1]].finalList
    <2>1. ~SegmentTemp(f)
        BY <1>1 DEF SegmentTemp, Working
    <2>2. FinalTemp(f)
        BY <1>1, <2>1 DEF FilesInv, FileInv
    <2> QED
        BY <1>1, <2>2 DEF FinalTemp
<1>2. StateInv /\ FilesInv => TempsRemoved
    BY <1>1 DEF TempsRemoved
<1> QED
    BY <1>2, FilesAlways, PTL

-----------------------------------------------------------------------------
(* Whose pid is whose, while no pid is given again too early                *)

Slots == Indices \cup {Final}

\* The pid in the names of slot i's files, and whether there may be such files.
PidAt(m, i) == IF i = Final THEN merge[m].pid ELSE merge[m].seg[i].pid
Used(m, i)  == merge[m].pc \in Working /\ (i # Final => merge[m].seg[i].st # "none")

PidsApart ==
    \A m, n \in Merges : \A i, j \in Slots :
        Used(m, i) /\ Used(n, j) /\ PidAt(m, i) = PidAt(n, j) => m = n /\ i = j

LEMMA UsedPids ==
    ASSUME NEW m \in Merges, NEW i \in Slots, Used(m, i)
    PROVE  PidAt(m, i) \in PidsHeld \cup PidsKnown
<1>1. merge[m].pc # "reaped" /\ merge[m].pc # "done"
    BY DEF Used, Working
<1>2. CASE i = Final
    BY <1>1, <1>2 DEF PidAt, PidsHeld
<1>3. CASE i # Final
    BY <1>1, <1>3 DEF PidAt, PidsKnown, Slots
<1> QED
    BY <1>2, <1>3

\* A step takes up one new slot at most, with a pid that fork returned.
LEMMA SlotsStep ==
    ASSUME StateInv, NEW m \in Merges, StepOf(m)
    PROVE  \E k \in Slots : \A n \in Merges, i \in Slots :
              Used(n, i)' => \/ Used(n, i) /\ PidAt(n, i)' = PidAt(n, i)
                             \/ n = m /\ i = k /\ PidAt(n, i)' \in FreePids
<1>1. Final \in Slots /\ Final \notin Indices /\ \A i \in Slots : i # Final => i \in Indices
    BY FinalIsNoIndex DEF Slots
<1>2. ASSUME NEW n \in Merges, n # m, NEW i \in Slots, Used(n, i)'
      PROVE  Used(n, i) /\ PidAt(n, i)' = PidAt(n, i)
    <2>1. merge'[n] = merge[n]
        BY <1>2 DEF OthersKept, StepOf, Submitted, Quiet, ForkedOne, ListWritten, Cleaned, Reaped,
                    ChildMoved
    <2> QED
        BY <1>2, <2>1 DEF Used, PidAt
<1>3. CASE Submitted(m)
    <2>1. ASSUME NEW i \in Slots, Used(m, i)' PROVE i = Final /\ PidAt(m, i)' \in FreePids
        BY <1>1, <1>3, <2>1 DEF Submitted, Used, PidAt
    <2> QED
        BY <1>1, <1>2, <2>1
<1>4. ASSUME NEW k \in Indices, ForkedOne(m, k)
      PROVE  \E l \in Slots : \A n \in Merges, i \in Slots :
                Used(n, i)' => \/ Used(n, i) /\ PidAt(n, i)' = PidAt(n, i)
                               \/ n = m /\ i = l /\ PidAt(n, i)' \in FreePids
    <2>1. ASSUME NEW i \in Slots, Used(m, i)', i # k
          PROVE  Used(m, i) /\ PidAt(m, i)' = PidAt(m, i)
        <3>1. merge[m].pc \in Working /\ merge'[m].pid = merge[m].pid
            BY <1>4 DEF ForkedOne, Quiet, Working, NamesKept
        <3>2. i # Final => merge'[m].seg[i] = merge[m].seg[i]
            BY <1>1, <1>4, <2>1 DEF ForkedOne
        <3> QED
            BY <2>1, <3>1, <3>2 DEF Used, PidAt
    <2>2. PidAt(m, k)' \in FreePids /\ k \in Slots
        BY <1>1, <1>4 DEF ForkedOne, PidAt, Slots
    <2> QED
        BY <1>2, <2>1, <2>2
<1>5. CASE \/ Quiet(m) /\ NoneForked(m)
           \/ ListWritten(m, TRUE) \/ ListWritten(m, FALSE)
           \/ \E i \in Indices : ChildMoved(m, i)
    <2>1. NamesKept(m) /\ NoneForked(m) /\ merge[m].pc \in Working
        BY <1>5 DEF Quiet, NoneForked, ListWritten, ChildMoved, Working
    <2>2. ASSUME NEW i \in Slots, Used(m, i)' PROVE Used(m, i) /\ PidAt(m, i)' = PidAt(m, i)
        BY <1>1, <2>1, <2>2 DEF Used, PidAt, NamesKept, NoneForked
    <2> QED
        BY <1>1, <1>2, <2>2
<1>6. CASE Cleaned(m) \/ Reaped(m)
    <2>1. \A i : ~Used(m, i)'
        BY <1>6 DEF Cleaned, Reaped, Used, Working
    <2> QED
        BY <1>1, <1>2, <2>1
<1> QED
    BY <1>3, <1>4, <1>5, <1>6 DEF StepOf

LEMMA PidsApartStep ==
    ASSUME PidsWrap = FALSE, StateInv, PidsApart, [Next]_vars
    PROVE  PidsApart'
<1>1. CASE UNCHANGED vars
    BY <1>1 DEF PidsApart, Used, PidAt, vars
<1>2. ASSUME NEW m \in Merges, StepOf(m)
      PROVE  PidsApart'
    <2>1. PICK k \in Slots : \A n \in Merges, i \in Slots :
              Used(n, i)' => \/ Used(n, i) /\ PidAt(n, i)' = PidAt(n, i)
                             \/ n = m /\ i = k /\ PidAt(n, i)' \in FreePids
        BY <1>2, SlotsStep
    <2>2. \A n \in Merges, i \in Slots : Used(n, i) => PidAt(n, i) \notin FreePids
        <3>1. \A p \in FreePids : p \notin PidsHeld \cup PidsKnown
            BY FreePidsFacts
        <3> QED
            BY <3>1, UsedPids
    <2>3. ASSUME NEW a \in Merges, NEW b \in Merges, NEW i \in Slots, NEW j \in Slots,
                 Used(a, i)', Used(b, j)', PidAt(a, i)' = PidAt(b, j)'
          PROVE  a = b /\ i = j
        <3>1. CASE Used(a, i) /\ PidAt(a, i)' = PidAt(a, i)
            <4>1. Used(b, j) /\ PidAt(b, j)' = PidAt(b, j)
                BY <2>1, <2>2, <2>3, <3>1
            <4> QED
                BY <2>3, <3>1, <4>1 DEF PidsApart
        <3>2. CASE a = m /\ i = k /\ PidAt(a, i)' \in FreePids
            BY <2>1, <2>2, <2>3, <3>2
        <3> QED
            BY <2>1, <2>3, <3>1, <3>2
    <2> QED
        BY <2>3 DEF PidsApart
<1> QED
    BY <1>1, <1>2, Steps

-----------------------------------------------------------------------------
(* Nobody disturbs a segment                                                *)

SegmentAt(m, i, whole) == [name |-> SegmentOf(m, i), of |-> <<m, i>>, whole |-> whole]

\* A child that encodes has its file, unfinished, and whatever the join needs is there.
SegmentsHere ==
    \A m \in Merges, i \in Indices :
        /\ merge[m].seg[i].st = "encoding" => SegmentAt(m, i, FALSE) \in files
        /\ Needed(merge[m], i) => SegmentAt(m, i, TRUE) \in files

LEMMA NamesDiffer ==
    /\ \A p, q, c : SegmentFile(p, c) # ConcatList(q)
    /\ \A p, q, c, d : SegmentFile(p, c) = SegmentFile(q, d) => p = q
BY DEF SegmentFile, ConcatList

LEMMA ChildIsUsed ==
    ASSUME StateInv, NEW m \in Merges, NEW i \in Indices,
           Needed(merge[m], i) \/ merge[m].seg[i].st \in Unfinished
    PROVE  /\ Used(m, i)
           /\ merge[m].seg[i].st \in Unfinished \cup Ended =>
                 merge[m].pc \in {"fork", "wait", "overrun"}
<1>1. MergeInv(merge[m]) /\ merge[m] \in MergeType
    BY MergeIs
<1>2. merge[m].seg[i].st \in Unfinished \cup Ended => merge[m].pc \in {"fork", "wait", "overrun"}
    BY <1>1 DEF MergeInv, MergeType, ChildrenOf, Unfinished, Ended
<1> QED
    BY <1>2 DEF Needed, Used, Unfinished, Working

\* A step keeps a segment's file, unless the child itself truncates or completes it or
\* the merge cleans up.
LEMMA FileStays ==
    ASSUME StateInv, PidsApart, NEW m \in Merges, StepOf(m),
           NEW n \in Merges, NEW j \in Indices, Used(n, j), NEW whole \in BOOLEAN,
           SegmentAt(n, j, whole) \in files, n = m => ~Cleaned(m),
           n = m /\ ChildMoved(m, j) => merge'[m].seg[j].st \notin {"encoding", "ok"}
    PROVE  SegmentAt(n, j, whole) \in files'
<1> DEFINE x == SegmentAt(n, j, whole)
<1>1. x \in files /\ x.name = SegmentOf(n, j) /\ x.of = <<n, j>>
    BY DEF SegmentAt
<1> HIDE DEF x
<1>2. \A q : x.name # ConcatList(q)
    BY <1>1, NamesDiffer DEF SegmentOf
<1>3. ASSUME NEW i \in Indices, merge[m].pc \in Working, merge[m].seg[i].st # "none",
             x.name = SegmentOf(m, i)
      PROVE  n = m /\ i = j
    <2>1. merge[m].seg[i].pid = merge[n].seg[j].pid
        <3>1. SegmentFile(merge[m].seg[i].pid, merge[m].seg[i].from)
                = SegmentFile(merge[n].seg[j].pid, merge[n].seg[j].from)
            BY <1>1, <1>3 DEF SegmentOf
        <3> QED
            BY <3>1, NamesDiffer
    <2>2. /\ i \in Slots /\ j \in Slots /\ Used(m, i)
          /\ PidAt(m, i) = merge[m].seg[i].pid /\ PidAt(n, j) = merge[n].seg[j].pid
        BY <1>3, FinalIsNoIndex DEF Slots, Used, PidAt
    <2> QED
        BY <2>1, <2>2 DEF PidsApart
<1>4. CASE files' = files
    BY <1>1, <1>4 DEF x
<1>5. CASE ListWritten(m, TRUE) \/ ListWritten(m, FALSE)
    <2>1. x \in files'
        BY <1>1, <1>2, <1>5 DEF ListWritten, Written, FinalListOf
    <2> QED
        BY <2>1 DEF x
<1>6. CASE Cleaned(m)
    <2>1. merge[m].pc \in Working /\ n # m
        BY <1>6 DEF Cleaned, Working
    <2>2. x.name \notin Temps(m)
        BY <1>2, <1>3, <2>1 DEF Temps, Forked, ListOf, FinalListOf
    <2>3. x \in files'
        BY <1>1, <1>6, <2>2 DEF Cleaned, Removed
    <2> QED
        BY <2>3 DEF x
<1>7. ASSUME NEW i \in Indices, ChildMoved(m, i) PROVE x \in files'
    <2>1. merge[m].pc \in Working /\ merge[m].seg[i].st # "none"
        BY <1>7 DEF ChildMoved, Working, Unfinished
    <2>2. ASSUME NEW w, files' = Written(ListOf(m, i), <<m, i>>, w) PROVE x \in files'
        BY <1>1, <1>2, <2>2 DEF Written, ListOf
    <2>3. CASE /\ merge'[m].seg[i].st = "encoding"
               /\ files' = Written(SegmentOf(m, i), <<m, i>>, FALSE)
        <3>1. ~(n = m /\ i = j)
            BY <1>7, <2>3
        <3>2. x.name # SegmentOf(m, i)
            BY <1>3, <2>1, <3>1
        <3> QED
            BY <1>1, <2>3, <3>2 DEF Written
    <2>4. CASE /\ merge'[m].seg[i].st = "ok"
               /\ files' = Finished(SegmentOf(m, i), <<m, i>>)
        <3>1. ~(n = m /\ i = j)
            BY <1>7, <2>4
        <3>2. x.of # <<m, i>>
            BY <1>1, <3>1, Pairs
        <3> QED
            BY <1>1, <2>4, <3>2 DEF Finished
    <2>5. CASE files' = files
        BY <1>1, <2>5
    <2> QED
        BY <1>7, <2>2, <2>3, <2>4, <2>5 DEF ChildMoved
<1> QED
    BY <1>4, <1>5, <1>6, <1>7 DEF x, StepOf, Submitted, Quiet, ForkedOne, Reaped

LEMMA SegmentsHereStep ==
    ASSUME StateInv, PidsApart, SegmentsHere, StateInv', [Next]_vars
    PROVE  SegmentsHere'
<1>1. CASE UNCHANGED vars
    BY <1>1 DEF SegmentsHere, SegmentAt, SegmentOf, vars
<1>2. ASSUME NEW m \in Merges, StepOf(m), NEW n \in Merges, NEW j \in Indices
      PROVE  /\ merge'[n].seg[j].st = "encoding" => SegmentAt(n, j, FALSE)' \in files'
             /\ Needed(merge'[n], j) => SegmentAt(n, j, TRUE)' \in files'
    <2>1. ASSUME NEW whole \in BOOLEAN, Used(n, j), SegmentAt(n, j, whole) \in files,
                 n = m => NamesKept(m) /\ ~Cleaned(m),
                 n = m /\ ChildMoved(m, j) => merge'[m].seg[j].st \notin {"encoding", "ok"}
          PROVE  SegmentAt(n, j, whole)' \in files'
        <3>1. SegmentAt(n, j, whole) \in files'
            BY <1>2, <2>1, FileStays
        <3>2. SegmentOf(n, j)' = SegmentOf(n, j)
            <4>1. n # m => merge'[n] = merge[n]
                BY <1>2 DEF OthersKept, StepOf, Submitted, Quiet, ForkedOne, ListWritten, Cleaned,
                            Reaped, ChildMoved
            <4>2. merge[n].seg[j].st # "none"
                BY <2>1, FinalIsNoIndex DEF Used
            <4> QED
                BY <2>1, <4>1, <4>2 DEF NamesKept, SegmentOf
        <3> QED
            BY <3>1, <3>2 DEF SegmentAt
    <2>2. CASE n # m
        <3>1. merge'[n] = merge[n]
            BY <1>2, <2>2 DEF OthersKept, StepOf, Submitted, Quiet, ForkedOne, ListWritten, Cleaned,
                              Reaped, ChildMoved
        <3>2. ASSUME merge'[n].seg[j].st = "encoding" PROVE SegmentAt(n, j, FALSE)' \in files'
            <4>1. Used(n, j) /\ SegmentAt(n, j, FALSE) \in files
                BY <3>1, <3>2, ChildIsUsed DEF SegmentsHere, Unfinished
            <4> QED
                BY <2>1, <2>2, <4>1
        <3>3. ASSUME Needed(merge'[n], j) PROVE SegmentAt(n, j, TRUE)' \in files'
            <4>1. Used(n, j) /\ SegmentAt(n, j, TRUE) \in files
                BY <3>1, <3>3, ChildIsUsed DEF SegmentsHere
            <4> QED
                BY <2>1, <2>2, <4>1
        <3> QED
            BY <3>2, <3>3
    <2>3. ASSUME n = m, NamesKept(m), ~Cleaned(m),
                 merge'[m].seg[j].st = "encoding" => merge[m].seg[j].st = "encoding",
                 Needed(merge'[m], j) => Needed(merge[m], j),
                 ~ChildMoved(m, j)
          PROVE  /\ merge'[n].seg[j].st = "encoding" => SegmentAt(n, j, FALSE)' \in files'
                 /\ Needed(merge'[n], j) => SegmentAt(n, j, TRUE)' \in files'
        <3>1. merge'[n].seg[j].st = "encoding" => Used(n, j) /\ SegmentAt(n, j, FALSE) \in files
            BY <2>3, ChildIsUsed DEF SegmentsHere, Unfinished
        <3>2. Needed(merge'[n], j) => Used(n, j) /\ SegmentAt(n, j, TRUE) \in files
            BY <2>3, ChildIsUsed DEF SegmentsHere
        <3> QED
            BY <2>1, <2>3, <3>1, <3>2
    <2>4. CASE n = m /\ ChildMoved(m, j)
        <3>1. merge'[n].seg[j].st = "encoding" => SegmentAt(n, j, FALSE)' \in files'
            <4>1. ASSUME merge'[m].seg[j].st = "encoding"
                  PROVE  SegmentAt(m, j, FALSE)' \in files'
                <5>1. files' = Written(SegmentOf(m, j), <<m, j>>, FALSE)
                    BY <2>4, <4>1 DEF ChildMoved
                <5>2. SegmentOf(m, j)' = SegmentOf(m, j)
                    BY <2>4 DEF ChildMoved, NamesKept, SegmentOf, Unfinished
                <5> QED
                    BY <5>1, <5>2 DEF Written, SegmentAt
            <4> QED
                BY <2>4, <4>1
        <3>2. ASSUME Needed(merge'[m], j) PROVE SegmentAt(m, j, TRUE)' \in files'
            <4>1. merge[m].seg[j].st = "encoding" /\ files' = Finished(SegmentOf(m, j), <<m, j>>)
                BY <2>4, <3>2 DEF ChildMoved, Needed
            <4>2. SegmentAt(m, j, FALSE) \in files
                BY <4>1 DEF SegmentsHere
            <4>3. [SegmentAt(m, j, FALSE) EXCEPT !.whole = TRUE] = SegmentAt(m, j, TRUE)
                <5> DEFINE a == SegmentOf(m, j)
                           b == <<m, j>>
                           f == SegmentAt(m, j, FALSE)
                           h == [f EXCEPT !.whole = TRUE]
                <5>1. f = [name |-> a, of |-> b, whole |-> FALSE] /\ h = [f EXCEPT !.whole = TRUE]
                    BY DEF SegmentAt
                <5> HIDE DEF a, b, f, h
                <5>2. h = [name |-> a, of |-> b, whole |-> TRUE]
                    BY <5>1
                <5> QED
                    BY <5>2 DEF SegmentAt, a, b, f, h
            <4>4. SegmentAt(m, j, FALSE).name = SegmentOf(m, j) /\ SegmentAt(m, j, FALSE).of = <<m, j>>
                BY DEF SegmentAt
            <4>5. SegmentAt(m, j, TRUE) \in files'
                BY <4>1, <4>2, <4>3, <4>4 DEF Finished
            <4>6. SegmentOf(m, j)' = SegmentOf(m, j)
                BY <2>4 DEF ChildMoved, NamesKept, SegmentOf, Unfinished
            <4> QED
                BY <4>5, <4>6 DEF SegmentAt
        <3> QED
            BY <2>4, <3>1, <3>2
    <2>5. CASE n = m /\ ~ChildMoved(m, j)
        <3>1. CASE Quiet(m)
            <4>1. ~Cleaned(m)
                BY <3>1 DEF Quiet, Cleaned
            <4> QED
                BY <2>3, <2>5, <3>1, <4>1 DEF Quiet
        <3>2. CASE ListWritten(m, TRUE) \/ ListWritten(m, FALSE)
            <4>1. NamesKept(m) /\ merge'[m].seg = merge[m].seg /\ ~Cleaned(m)
                BY <3>2 DEF ListWritten, Cleaned
            <4>2. Needed(merge'[m], j) => Needed(merge[m], j)
                BY <3>2, <4>1 DEF ListWritten, Needed
            <4> QED
                BY <2>3, <2>5, <4>1, <4>2
        <3>3. CASE Submitted(m) \/ Cleaned(m) \/ Reaped(m)
            <4>1. ~Needed(merge'[m], j)
                BY <3>3 DEF Submitted, Cleaned, Reaped, Needed
            <4>2. merge'[m].seg[j].st # "encoding"
                <5>1. CASE Submitted(m) \/ Reaped(m)
                    BY <5>1 DEF Submitted, Reaped
                <5>2. CASE Cleaned(m)
                    <6>1. merge[m].seg[j].st = "encoding" => merge[m].pc \in {"fork", "wait", "overrun"}
                        BY ChildIsUsed DEF Unfinished
                    <6> QED
                        BY <5>2, <6>1 DEF Cleaned
                <5> QED
                    BY <3>3, <5>1, <5>2
            <4> QED
                BY <2>5, <4>1, <4>2
        <3>4. ASSUME NEW i \in Indices, ChildMoved(m, i), i # j
              PROVE  /\ NamesKept(m) /\ ~Cleaned(m)
                     /\ merge'[m].seg[j].st = "encoding" => merge[m].seg[j].st = "encoding"
                     /\ Needed(merge'[m], j) => Needed(merge[m], j)
            BY <3>4 DEF ChildMoved, Cleaned, Needed
        <3> QED
            BY <1>2, <2>3, <2>5, <3>1, <3>2, <3>3, <3>4 DEF StepOf, ForkedOne
    <2> QED
        BY <2>2, <2>4, <2>5
<1>3. ASSUME NEW m \in Merges, StepOf(m) PROVE SegmentsHere'
    BY <1>2, <1>3 DEF SegmentsHere
<1> QED
    BY <1>1, <1>3, Steps

\* So the last ffmpeg of a merge reads what the merge's own children wrote.
LEMMA OwnIsRead ==
    ASSUME StateInv, FilesInv, SegmentsHere, NEW m \in Merges, merge[m].pc = "encode"
    PROVE  ReadsOwn(m)
<1> DEFINE k == merge[m].parts
<1>1. MergeInv(merge[m]) /\ merge[m] \in MergeType
    BY MergeIs
<1>2. ASSUME NEW i \in 0..(k - 1)
      PROVE  {f.of : f \in {h \in files : h.name = SegmentOf(m, i) /\ h.whole}} = {<<m, i>>}
    <2> DEFINE x == SegmentAt(m, i, TRUE)
    <2>1. i \in Indices /\ i < k
        BY <1>1, <1>2, Sizes DEF MergeInv, MergeType, ChildrenOf, OutcomeOf
    <2>2. Needed(merge[m], i)
        BY <1>1, <2>1 DEF MergeInv, ChildrenOf, OutcomeOf, Needed
    <2>3. x \in files /\ x.name = SegmentOf(m, i) /\ x.of = <<m, i>> /\ x.whole
        BY <2>1, <2>2 DEF SegmentsHere, SegmentAt
    <2> HIDE DEF x
    <2>4. \A h \in files : h.name = SegmentOf(m, i) => h = x
        BY <2>3 DEF FilesInv
    <2> QED
        BY <2>3, <2>4
<1>3. SegmentContents(m) = [i \in 0..(k - 1) |->
          {f.of : f \in {h \in files : h.name = SegmentOf(m, i) /\ h.whole}}]
    BY DEF SegmentContents
<1>4. SegmentContents(m) = [i \in 0..(k - 1) |-> {<<m, i>>}]
    BY <1>2, <1>3
<1> QED
    BY <1>4 DEF ReadsOwn

NoForeign == \A m \in Merges : merge[m].output # "foreign"

LEMMA NoForeignStep ==
    ASSUME StateInv, FilesInv, SegmentsHere, NoForeign, [Next]_vars
    PROVE  NoForeign'
<1>1. CASE UNCHANGED vars
    BY <1>1 DEF NoForeign, vars
<1>2. ASSUME NEW m \in Merges, MergeInv(merge'[m]), StepOf(m)
      PROVE  NoForeign'
    <2>1. OthersKept(m)
        BY <1>2 DEF StepOf, Submitted, Quiet, ForkedOne, ListWritten, Cleaned, Reaped, ChildMoved
    <2>2. /\ merge'[m].pc \in {"idle", "fork", "wait", "join", "encode", "cleanup", "done", "reaped",
                               "overrun"}
          /\ merge'[m].pc \in {"idle", "fork", "wait", "join", "encode", "reaped", "overrun"}
                => merge'[m].output = "none"
          /\ merge'[m].pc \in {"cleanup", "done"} =>
                (merge'[m].overall <=> merge'[m].output \in {"own", "foreign"})
        BY <1>2 DEF MergeInv, MergeType, OutcomeOf
    <2>3. CASE Quiet(m)
        <3>1. merge'[m].output # "foreign"
            <4>1. CASE merge'[m].pc = "cleanup" /\ merge'[m].overall
                <5>1. merge[m].pc = "encode" /\ (ReadsOwn(m) => merge'[m].output = "own")
                    BY <2>3, <4>1 DEF Quiet
                <5>2. merge'[m].output = "own"
                    BY <5>1, OwnIsRead
                <5> QED
                    BY <5>2
            <4>2. CASE ~(merge'[m].pc = "cleanup" /\ merge'[m].overall)
                BY <2>2, <2>3, <4>2 DEF Quiet, Working
            <4> QED
                BY <4>1, <4>2
        <3> QED
            BY <2>1, <3>1 DEF OthersKept, NoForeign
    <2>4. CASE ~Quiet(m)
        <3>1. merge'[m].output # "foreign"
            <4>1. CASE Cleaned(m)
                BY <4>1 DEF Cleaned, NoForeign
            <4>2. CASE Submitted(m) \/ Reaped(m)
                BY <2>2, <4>2 DEF Submitted, Reaped
            <4>3. CASE ListWritten(m, TRUE) \/ ListWritten(m, FALSE)
                BY <2>2, <4>3 DEF ListWritten
            <4>4. ASSUME NEW i \in Indices, ChildMoved(m, i) PROVE merge'[m].output # "foreign"
                BY <2>2, <4>4 DEF ChildMoved
            <4> QED
                BY <1>2, <2>4, <4>1, <4>2, <4>3, <4>4 DEF StepOf, ForkedOne
        <3> QED
            BY <2>1, <3>1 DEF OthersKept, NoForeign
    <2> QED
        BY <2>3, <2>4
<1> QED
    BY <1>1, <1>2, Steps

OwnInv == StateInv /\ FilesInv /\ PidsApart /\ SegmentsHere /\ NoForeign

LEMMA OwnInit == Init => OwnInv
<1> SUFFICES ASSUME Init PROVE OwnInv
    OBVIOUS
<1>1. StateInv /\ FilesInv
    BY StateInit DEF Init, FilesInv
<1>2. \A m \in Merges : merge[m].pc = "idle" /\ merge[m].output = "none"
                        /\ \A i \in Indices : merge[m].seg[i].st = "none"
    BY DEF Init, Idle, NoChild
<1>3. PidsApart /\ SegmentsHere /\ NoForeign
    BY <1>2 DEF PidsApart, Used, Working, SegmentsHere, Needed, NoForeign
<1> QED
    BY <1>1, <1>3 DEF OwnInv

LEMMA OwnAlways ==
    ASSUME PidsWrap = FALSE
    PROVE  Spec => []OwnInv
<1>1. OwnInv /\ [Next]_vars => OwnInv'
    BY StateStep, FilesStep, PidsApartStep, SegmentsHereStep, NoForeignStep DEF OwnInv
<1> QED
    BY <1>1, OwnInit, PTL DEF Spec

\* A merge that reports success has made its output of its own segments, all of them
\* and in order, however many merges write to the directory at the same time, if no
\* pid is given again while a merge runs that waited for its former owner.
THEOREM SuccessAlwaysMeansOwn ==
    ASSUME PidsWrap = FALSE
    PROVE  Spec => []SuccessMeansOwn
<1>1. OwnInv => SuccessMeansOwn
    <2> SUFFICES ASSUME OwnInv, NEW m \in Merges, merge[m].pc = "done"
                 PROVE  merge[m].overall <=> merge[m].output = "own"
        BY DEF SuccessMeansOwn
    <2>1. MergeInv(merge[m]) /\ merge[m].output # "foreign"
        BY MergeIs DEF OwnInv, NoForeign
    <2> QED
        BY <2>1 DEF MergeInv, OutcomeOf
<1> QED
    BY <1>1, OwnAlways, PTL

\* And from the moment a child has ended well until the join has read its segment,
\* no step of any merge removes that file or writes to it.
THEOREM SegmentsAlwaysStay ==
    ASSUME PidsWrap = FALSE
    PROVE  Spec => []SegmentsStay
<1>1. OwnInv => SegmentsStay
    BY DEF OwnInv, SegmentsHere, SegmentsStay, Needed, SegmentAt, Holds
<1> QED
    BY <1>1, OwnAlways, PTL
=============================================================================
