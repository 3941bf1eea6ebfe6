--------------------------- MODULE MergeDispatch ---------------------------
(***************************************************************************)
(* MERGE jobs that run at the same time.  For each, the orchestrator       *)
(* process that submit_merge forks runs worker_dispatch_merge (worker.c):  *)
(* it splits the clips into segments, forks a child per segment, waits for *)
(* all of them, joins the segments with one more ffmpeg and removes its    *)
(* temporary files.  A segment child (build_segment) writes a concat list  *)
(* and runs ffmpeg on it.                                                  *)
(*                                                                         *)
(* All of them write to outputs_dir, and only the pid in the names of the  *)
(* temporary files keeps them apart.  Every system call that can fail may  *)
(* fail here.                                                              *)
(*                                                                         *)
(* The number of clips is the one the request says: neither submit_merge   *)
(* nor worker_dispatch_merge compares it with the arrays of                *)
(* PROTO_MAX_CLIPS entries.  A segment child that reads or writes behind   *)
(* them fails or goes on with whatever lies there, as every child may here *)
(* anyway.  An orchestrator that does is "overrun" from then on: what it   *)
(* does next, and how it ends, is undefined and not modelled.              *)
(***************************************************************************)
EXTENDS Integers

CONSTANTS
    Merges,         \* names of MERGE jobs
    Workloads,      \* merge_parallelism, and what is asked of some of the merges
    MaxClips,       \* PROTO_MAX_CLIPS
    MaxPid,         \* bound: pids of orchestrators and segment children
    PidsWrap,       \* TRUE: a merge may still run when a pid it waited for is given again
    Durations,      \* probed lengths of segments, in half seconds
    Fade            \* td, the length of a transition

ASSUME MergeAssumptions ==
    /\ MaxClips \in Nat \ {0} /\ MaxPid \in Nat
    /\ \A w \in Workloads :
          /\ w.parallel \in Nat
          /\ DOMAIN w.asks \subseteq Merges
          /\ \A m \in DOMAIN w.asks : /\ w.asks[m].count \in Nat
                                     /\ w.asks[m].transition \in BOOLEAN
    /\ PidsWrap \in BOOLEAN
    /\ Durations \subseteq Nat /\ Fade \in Nat

VARIABLES
    work,           \* one of the workloads
    merge,          \* what the orchestrator of each merge knows
    files           \* temporary files in outputs_dir

vars == <<work, merge, files>>

Indices == 0..(MaxClips - 1)
Final   == MaxClips         \* stands for the final list among the indices

\* States of a segment child. "none": not forked, pids[i] is 0.
Unfinished == {"start", "listed", "encoding"}
Ended      == {"ok", "fail"}
ChildStates == {"none", "waited"} \cup Unfinished \cup Ended

NoChild == [from |-> 0, to |-> 0, pid |-> 0, st |-> "none"]

Forked(m) == {i \in Indices : merge[m].seg[i].st # "none"}

-----------------------------------------------------------------------------
(* Temporary files: a name, what it holds, and whether it is all there      *)

\* Mutant: the name has no pid.
SegmentFile_NoPid(pid, from) == <<"segment", from>>

SegmentFile(pid, from) == <<"segment", pid, from>>

ConcatList(pid) == <<"concat", pid>>

\* The lists and the segment of child i, and the list of the final concat.
ListOf(m, i)    == ConcatList(merge[m].seg[i].pid)
SegmentOf(m, i) == SegmentFile(merge[m].seg[i].pid, merge[m].seg[i].from)
FinalListOf(m)  == ConcatList(merge[m].pid)

\* fopen("w") and ffmpeg -y truncate whatever has that name.
Written(name, of, whole) ==
    {f \in files : f.name # name} \cup {[name |-> name, of |-> of, whole |-> whole]}

Removed(names) == {f \in files : f.name \notin names}

Holds(name, of) == [name |-> name, of |-> of, whole |-> TRUE] \in files

\* A writer whose file was removed goes on with a file that has no name.
Finished(name, of) ==
    {IF f.name = name /\ f.of = of THEN [f EXCEPT !.whole = TRUE] ELSE f : f \in files}

-----------------------------------------------------------------------------
(* Processes                                                                *)

\* A process has its pid until it is waited for: a child by its orchestrator,
\* an orchestrator by the server.
PidsHeld == {merge[m].pid : m \in {n \in Merges : merge[n].pc # "reaped"}}
            \cup UNION {{merge[m].seg[i].pid : i \in {j \in Indices :
                            merge[m].seg[j].st \in Unfinished \cup Ended}} : m \in Merges}

\* pids[] of the orchestrators that run.
PidsKnown == UNION {{merge[m].seg[i].pid : i \in Indices} :
                        m \in {n \in Merges : merge[n].pc \notin {"done", "reaped"}}}

PidsNamed == {f.name[2] : f \in files}

\* The pids a fork may return: one that some merge or file still knows, or, as any
\* other is as good as any, the least of the rest.
FreePids ==
    LET free   == (1..MaxPid) \ PidsHeld
        others == free \ (PidsKnown \cup PidsNamed) IN
    {p \in free : /\ p \in others => \A q \in others : p <= q
                  /\ p \in PidsKnown => PidsWrap}

-----------------------------------------------------------------------------
(* The split of the clips                                                   *)

\* Mutant: the parallelism of server.conf is not limited to the clips.
PartsOf_NoLimit(clips) == IF work.parallel = 0 THEN clips ELSE work.parallel

\* merge_parallelism, but no more than there are clips; 0 means one per clip.
PartsOf(clips) ==
    IF work.parallel = 0 \/ work.parallel > clips THEN clips ELSE work.parallel

\* Mutant: the remainder goes to the wrong number of segments.
Take_OffByOne(g, i) == g.count \div g.parts + (IF i <= g.count % g.parts THEN 1 ELSE 0)

\* How many clips segment i takes: the remainder goes to the first ones.
Take(g, i) == g.count \div g.parts + (IF i < g.count % g.parts THEN 1 ELSE 0)

-----------------------------------------------------------------------------
(* The transitions of video_build_xfade_argv                                *)

\* Mutant: the length of the transition is not taken off.
Cum_NoFade(dur) ==
    LET cum[i \in Indices] == IF i = 0 THEN dur[0] ELSE cum[i - 1] + dur[i] IN cum

\* cum after segments 0..i: each transition makes the whole shorter by td.
Cum(dur) ==
    LET cum[i \in Indices] == IF i = 0 THEN dur[0] ELSE cum[i - 1] + dur[i] - Fade IN cum

\* Where the transition to segment i begins, i > 0.
Offset(dur, i) == IF Cum(dur)[i - 1] > Fade THEN Cum(dur)[i - 1] - Fade ELSE 0

\* What ffmpeg's xfade makes of the offsets: the length of the first i + 1 segments.
Joined(dur) ==
    LET len[i \in Indices] == IF i = 0 THEN dur[0] ELSE Offset(dur, i) + dur[i] IN len

-----------------------------------------------------------------------------
Idle == [count |-> 0, transition |-> FALSE, parts |-> 0, pid |-> 0,
         seg |-> [i \in Indices |-> NoChild], cursor |-> 0, ix |-> 0, overall |-> TRUE,
         finalList |-> FALSE, dur |-> <<>>, output |-> "none", pc |-> "idle"]

Init ==
    /\ work \in Workloads
    /\ merge = [m \in Merges |-> Idle]
    /\ files = {}

\* The orchestrator goes to g.
Becomes(m, g) == merge' = [merge EXCEPT ![m] = g] /\ UNCHANGED work

-----------------------------------------------------------------------------
(* The orchestrator                                                         *)

\* submit_merge forks it. It gives up at once when there are no clips or calloc
\* of the pids fails.
Submit(m) ==
    /\ m \in DOMAIN work.asks /\ merge[m].pc = "idle"
    /\ \E p \in FreePids :
          LET g == [Idle EXCEPT !.count = work.asks[m].count,
                                !.transition = work.asks[m].transition, !.pid = p] IN
          \/ Becomes(m, [g EXCEPT !.overall = FALSE, !.pc = "done"])
          \/ /\ g.count > 0
             /\ Becomes(m, [g EXCEPT !.parts = PartsOf(g.count), !.pc = "fork"])
    /\ UNCHANGED files

\* Mutant: a failed fork jumps to the cleanup over the children it leaves.
ForkSegment_NoWait(m) ==
    LET g == merge[m]
        to == g.cursor + Take(g, g.ix) IN
    /\ g.pc = "fork" /\ g.ix < g.parts
    /\ \/ \E p \in FreePids :
          /\ g.ix \in Indices
          /\ Becomes(m, [g EXCEPT !.seg[g.ix] = [from |-> g.cursor, to |-> to, pid |-> p,
                                                 st |-> "start"],
                                  !.cursor = to, !.ix = g.ix + 1])
       \/ Becomes(m, [g EXCEPT !.overall = FALSE, !.ix = 0, !.pc = "cleanup"])
    /\ UNCHANGED files

\* When a fork fails, the children forked so far are still waited for. For a child
\* beyond final_op.clips see Overrun.
ForkSegment(m) ==
    LET g == merge[m]
        to == g.cursor + Take(g, g.ix) IN
    /\ g.pc = "fork" /\ g.ix < g.parts
    /\ \/ \E p \in FreePids :
          /\ g.ix \in Indices
          /\ Becomes(m, [g EXCEPT !.seg[g.ix] = [from |-> g.cursor, to |-> to, pid |-> p,
                                                 st |-> "start"],
                                  !.cursor = to, !.ix = g.ix + 1])
       \/ Becomes(m, [g EXCEPT !.overall = FALSE, !.ix = 0, !.pc = "wait"])
    /\ UNCHANGED files

\* The name of one segment more than final_op.clips has entries is written behind it; or,
\* when a fork failed before that, cleanup_temps reads there after the children have ended.
Overrun(m) ==
    LET g == merge[m] IN
    /\ g.parts > MaxClips
    /\ (g.pc = "fork" /\ g.ix \notin Indices) \/ (g.pc = "wait" /\ g.ix = g.parts)
    /\ Becomes(m, [g EXCEPT !.pc = "overrun"])
    /\ UNCHANGED files

AllForked(m) ==
    /\ merge[m].pc = "fork" /\ merge[m].ix = merge[m].parts
    /\ Becomes(m, [merge[m] EXCEPT !.ix = 0, !.pc = "wait"])
    /\ UNCHANGED files

\* Mutants: the exit status is lost; a segment that was never forked is waited for.
WaitSegment_NoStatus(m) ==
    LET g == merge[m] IN
    /\ g.pc = "wait" /\ g.ix < g.parts
    /\ IF g.ix \notin Forked(m)
       THEN Becomes(m, [g EXCEPT !.ix = @ + 1])
       ELSE /\ g.seg[g.ix].st \in Ended
            /\ Becomes(m, [g EXCEPT !.ix = @ + 1, !.seg[g.ix].st = "waited"])
    /\ UNCHANGED files
WaitSegment_Unforked(m) ==
    LET g == merge[m] IN
    /\ g.pc = "wait" /\ g.ix < g.parts
    /\ g.ix \in Indices /\ g.seg[g.ix].st \in Ended
    /\ Becomes(m, [g EXCEPT !.ix = @ + 1, !.seg[g.ix].st = "waited",
                            !.overall = @ /\ g.seg[g.ix].st = "ok"])
    /\ UNCHANGED files

\* worker_wait blocks until the child has ended.
WaitSegment(m) ==
    LET g == merge[m] IN
    /\ g.pc = "wait" /\ g.ix < g.parts
    /\ IF g.ix \notin Forked(m)
       THEN Becomes(m, [g EXCEPT !.ix = @ + 1])
       ELSE /\ g.seg[g.ix].st \in Ended
            /\ Becomes(m, [g EXCEPT !.ix = @ + 1, !.seg[g.ix].st = "waited",
                                    !.overall = @ /\ g.seg[g.ix].st = "ok"])
    /\ UNCHANGED files

AllWaited(m) ==
    LET g == merge[m] IN
    /\ g.pc = "wait" /\ g.ix = g.parts /\ g.parts <= MaxClips
    /\ Becomes(m, [g EXCEPT !.pc = IF g.overall THEN "join" ELSE "cleanup"])
    /\ UNCHANGED files

Failing(g) == [g EXCEPT !.overall = FALSE, !.pc = "cleanup"]

\* With a transition the segments are cross-faded: video_build_xfade_argv wants
\* two of them at least, and probes the length of each (which may fail).
JoinWithTransition(m) ==
    LET g == merge[m] IN
    /\ g.pc = "join" /\ g.transition
    /\ \/ Becomes(m, Failing(g))
       \/ /\ g.parts >= 2
          /\ \E d \in [0..(g.parts - 1) -> Durations] :
                Becomes(m, [g EXCEPT !.dur = [i \in Indices |-> IF i < g.parts THEN d[i] ELSE 0],
                                     !.pc = "encode"])
    /\ UNCHANGED files

\* Without, they are concatenated from a list. Writing the list may fail before
\* or after the file exists, building the argv and forking may fail as well.
JoinWithList(m) ==
    LET g == merge[m] IN
    /\ g.pc = "join" /\ ~g.transition
    /\ \/ Becomes(m, Failing(g)) /\ UNCHANGED files
       \/ /\ Becomes(m, Failing(g))
          /\ files' = Written(FinalListOf(m), <<m, Final>>, FALSE)
       \/ /\ Becomes(m, Failing([g EXCEPT !.finalList = TRUE]))
          /\ files' = Written(FinalListOf(m), <<m, Final>>, TRUE)
       \/ /\ Becomes(m, [g EXCEPT !.finalList = TRUE, !.pc = "encode"])
          /\ files' = Written(FinalListOf(m), <<m, Final>>, TRUE)

\* What the segment files of m hold when the last ffmpeg reads them.
SegmentContents(m) ==
    [i \in 0..(merge[m].parts - 1) |->
        {f.of : f \in {h \in files : h.name = SegmentOf(m, i) /\ h.whole}}]

\* The last ffmpeg succeeds if it finds the list, if there is one, and all segments;
\* or it fails, with or without a truncated output.
Encode(m) ==
    LET g == merge[m] IN
    /\ g.pc = "encode"
    /\ \/ /\ g.transition \/ Holds(FinalListOf(m), <<m, Final>>)
          /\ \A i \in 0..(g.parts - 1) : SegmentContents(m)[i] # {}
          /\ Becomes(m, [g EXCEPT !.output = IF SegmentContents(m) = [i \in 0..(g.parts - 1) |-> {<<m, i>>}]
                                             THEN "own" ELSE "foreign",
                                  !.dur = <<>>, !.pc = "cleanup"])
       \/ \E left \in {"none", "truncated"} :
             Becomes(m, Failing([g EXCEPT !.output = left, !.dur = <<>>]))
    /\ UNCHANGED files

\* Mutant: the concat lists of the segments are forgotten.
Temps_NoLists(m) ==
    {SegmentOf(m, i) : i \in Forked(m)} \cup (IF merge[m].finalList THEN {FinalListOf(m)} ELSE {})

\* What cleanup_temps removes.
Temps(m) ==
    {SegmentOf(m, i) : i \in Forked(m)} \cup {ListOf(m, i) : i \in Forked(m)}
    \cup (IF merge[m].finalList THEN {FinalListOf(m)} ELSE {})

\* cleanup_temps, and the exit of the orchestrator.
Cleanup(m) ==
    /\ merge[m].pc = "cleanup"
    /\ files' = Removed(Temps(m))
    /\ Becomes(m, [merge[m] EXCEPT !.pc = "done"])

\* jobs_reap_running collects the orchestrator; what it knew is gone.
Reap(m) ==
    /\ merge[m].pc = "done"
    /\ Becomes(m, [Idle EXCEPT !.overall = merge[m].overall, !.finalList = merge[m].finalList,
                               !.pc = "reaped"])
    /\ UNCHANGED files

-----------------------------------------------------------------------------
(* build_segment, in the child of segment i                                 *)

ChildBecomes(m, i, st) == Becomes(m, [merge[m] EXCEPT !.seg[i].st = st])

\* video_write_concat_list may fail before or after the file exists.
WriteList(m, i) ==
    /\ merge[m].seg[i].st = "start"
    /\ \/ ChildBecomes(m, i, "listed") /\ files' = Written(ListOf(m, i), <<m, i>>, TRUE)
       \/ ChildBecomes(m, i, "fail") /\ files' = Written(ListOf(m, i), <<m, i>>, FALSE)
       \/ ChildBecomes(m, i, "fail") /\ UNCHANGED files

\* Building the argv or forking fails, or ffmpeg starts. It reads the list and
\* truncates the segment's file; without a list it fails.
SpawnFfmpeg(m, i) ==
    /\ merge[m].seg[i].st = "listed"
    /\ \/ ChildBecomes(m, i, "fail") /\ UNCHANGED files
       \/ /\ Holds(ListOf(m, i), <<m, i>>)
          /\ ChildBecomes(m, i, "encoding")
          /\ files' = Written(SegmentOf(m, i), <<m, i>>, FALSE)

\* A failed ffmpeg leaves a truncated segment behind.
FinishSegment(m, i) ==
    /\ merge[m].seg[i].st = "encoding"
    /\ \/ ChildBecomes(m, i, "ok") /\ files' = Finished(SegmentOf(m, i), <<m, i>>)
       \/ ChildBecomes(m, i, "fail") /\ UNCHANGED files

-----------------------------------------------------------------------------
Orchestrator(m) == \/ ForkSegment(m) \/ Overrun(m) \/ AllForked(m) \/ WaitSegment(m) \/ AllWaited(m)
                   \/ JoinWithTransition(m) \/ JoinWithList(m) \/ Encode(m) \/ Cleanup(m)

Segment(m, i) == WriteList(m, i) \/ SpawnFfmpeg(m, i) \/ FinishSegment(m, i)

\* What the processes of the merges, and the server for them, do.
Running == \E m \in Merges : \/ Orchestrator(m) \/ Reap(m)
                             \/ \E i \in Indices : Segment(m, i)

Terminated == (\A m \in DOMAIN work.asks : merge[m].pc \in {"reaped", "overrun"}) /\ UNCHANGED vars

Next == (\E m \in Merges : Submit(m)) \/ Running \/ Terminated

\* The processes run on, every ffmpeg ends, and the server reaps. No process runs for
\* ever, so it is enough that some process that can go on does.
Spec == Init /\ [][Next]_vars /\ WF_vars(Running)

-----------------------------------------------------------------------------
(* Properties                                                               *)

\* The values the variables can have: no merge of MaxClips clips or less runs out of an
\* array, in the orchestrator or in a child, and a file name is there once.
TypeOK ==
    /\ work \in Workloads
    /\ \A m \in Merges : LET g == merge[m] IN
          /\ g.count \in Nat /\ g.transition \in BOOLEAN /\ g.parts \in 0..g.count
          /\ g.pid \in 0..MaxPid
          /\ g.seg \in [Indices -> [from : 0..g.count, to : 0..g.count, pid : 0..MaxPid,
                                    st : ChildStates]]
          /\ g.cursor \in Nat /\ g.ix \in 0..g.parts
          /\ g.overall \in BOOLEAN /\ g.finalList \in BOOLEAN
          /\ g.output \in {"none", "truncated", "own", "foreign"}
          /\ g.pc \in {"idle", "fork", "wait", "join", "encode", "cleanup", "done", "reaped",
                       "overrun"}
          /\ g.pc = "overrun" => g.count > MaxClips
    /\ \A f, h \in files : f.name = h.name => f = h

\* The segments take all clips, each once and in order, no segment is empty, and
\* no two differ by more than one clip.
SegmentsCoverClips ==
    \A m \in Merges : LET g == merge[m] IN
        g.pc = "fork" /\ g.ix = g.parts =>
            /\ g.seg[0].from = 0 /\ g.seg[g.parts - 1].to = g.count
            /\ \A i \in 0..(g.parts - 2) : g.seg[i].to = g.seg[i + 1].from
            /\ \A i, j \in 0..(g.parts - 1) :
                  /\ g.seg[i].from < g.seg[i].to
                  /\ g.seg[i].to - g.seg[i].from <= g.seg[j].to - g.seg[j].from + 1

\* A merge succeeds only with an output made of its own segments, all and in order,
\* whatever other merges write and remove in the same directory at the same time.
\* It needs pids that are not given again while a merge runs that used them.
SuccessMeansOwn ==
    \A m \in Merges : merge[m].pc = "done" =>
        (merge[m].overall <=> merge[m].output = "own")

\* No merge removes or overwrites a file another one still needs: from the moment a
\* child has ended well until the join has read it, its segment is there and whole.
SegmentsStay ==
    \A m \in Merges, i \in Indices : LET g == merge[m] IN
        /\ g.pc \in {"fork", "wait", "join", "encode"}
        /\ g.seg[i].st = "ok" \/ (g.seg[i].st = "waited" /\ g.overall)
        => Holds(SegmentOf(m, i), <<m, i>>)

\* When an orchestrator exits it has waited for every child it forked, the ones
\* before a failed fork too.
EveryChildWaited ==
    \A m \in Merges, i \in Indices :
        merge[m].pc = "done" => merge[m].seg[i].st \in {"none", "waited"}

\* And no temporary file of a merge is left once it is done, unless writing the final
\* list failed halfway: then final_list_created is still 0 and the list stays.
TempsRemoved ==
    \A f \in files : LET g == merge[f.of[1]] IN
        g.pc \in {"done", "reaped"} =>
            f.of[2] = Final /\ ~f.whole /\ ~g.overall /\ ~g.finalList

\* A transition starts exactly its length before the end of what it follows, so that
\* no picture is lost and none is missing, when no segment is shorter than that. If
\* one is shorter, no transition starts after the end of what it follows.
TransitionsMeet ==
    \A m \in Merges : LET g == merge[m] IN
        g.pc = "encode" /\ g.transition =>
            \A i \in 1..(g.parts - 1) :
                /\ Offset(g.dur, i) <= Joined(g.dur)[i - 1]
                /\ (\A j \in 0..(g.parts - 1) : g.dur[j] >= Fade)
                   => Offset(g.dur, i) + Fade = Joined(g.dur)[i - 1]

\* A submitted merge always ends, so the server's job is settled; of one that runs out of
\* its arrays nothing is known.
Terminates == \A m \in Merges : merge[m].pc # "idle" ~> merge[m].pc \in {"reaped", "overrun"}
=============================================================================
