------------------------------ MODULE JobTable ------------------------------
(***************************************************************************)
(* The job table of vps_server (jobs.c, jobs.h) together with everything   *)
(* that touches it: the submit handlers and the cleanup sweep of           *)
(* net_server.c, and the worker processes that worker.c forks.             *)
(*                                                                         *)
(* One server process runs one loop: poll, reap, sweep, serve the sessions *)
(* that are ready.  Worker processes run beside it and end whenever they   *)
(* like; signals and clock changes come from outside.  The program counter *)
(* pc says between which of its system calls the server is; every action   *)
(* of the server is atomic for the table because only the server reads or  *)
(* writes it, and worker steps commute with the calls inside an action.    *)
(***************************************************************************)
EXTENDS Integers, FiniteSets

CONSTANTS
    JobsMax,            \* slots of the table                    (JOBS_MAX)
    Pids,               \* process ids the system can give to a child
    NoPid,              \* pid 0 of a slot without a process
    Argvs,              \* addresses malloc can return for an argv
    NoArgv,             \* NULL
    Ops,                \* the operations clients may request
    IdMod,              \* 2^32: task ids are uint32_t
    UIntMod,            \* 2^32: ages are compared as unsigned
    Retention,          \* seconds a finished job stays in the table
    Interval,           \* seconds between sweeps         (CLEANUP_INTERVAL_SEC)
    ClockSteps,         \* bound: FALSE leaves out that the clock is set back
    MaxJobs,            \* bound: jobs ever accepted
    MaxTime,            \* bound: largest clock value
    MaxReady            \* bound: requests served in one pass

SimpleOps == {"TRIM", "FILTER", "MIXAUDIO"}   \* fork + execv of ffmpeg
AllOps    == SimpleOps \cup {"MERGE"}         \* MERGE forks an orchestrator

ASSUME JobTableAssumptions ==
    /\ JobsMax \in Nat \ {0}
    /\ NoPid \notin Pids
    /\ NoArgv \notin Argvs
    /\ Ops \subseteq AllOps
    /\ IdMod \in Nat /\ IdMod > 1
    /\ UIntMod \in Nat \ {0}
    /\ Retention \in Nat \ {0}
    /\ Interval \in Nat \ {0}
    /\ ClockSteps \in BOOLEAN
    /\ MaxJobs \in Nat
    /\ MaxTime \in Nat \ {0}
    /\ MaxReady \in Nat

VARIABLES
    table,              \* the slots                       (jobs_table_t.slots)
    next_task_id,
    counter_done,
    counter_failed,
    phase,              \* what each pid is doing
    heap,               \* argv addresses that are allocated
    pending,            \* locals of a submit between fork and jobs_submit
    refused,            \* children whose job did not get a slot (ghost)
    issued,             \* number of jobs accepted so far (ghost)
    serial,             \* which accepted job a slot holds (ghost)
    now,                \* time(NULL)
    last_cleanup,
    ahead,              \* slots whose job seems to have finished in the future since the
                        \* clock was set back between a reap and its sweep (ghost)
    g_stop,
    ready,              \* requests left in this pass; -1: poll failed
    pc                  \* where the server is in its loop

tableVars == <<table, next_task_id, counter_done, counter_failed, issued, serial>>
childVars == <<phase, refused>>
clockVars == <<now, last_cleanup, ahead>>
loopVars  == <<g_stop, ready, pc>>
vars == <<tableVars, childVars, heap, pending, clockVars, loopVars>>

Slots  == 0..(JobsMax - 1)
States == {"QUEUED", "RUNNING", "DONE", "ERR"}

\* memset(slot, 0, sizeof(*slot)); TASK_STATE_QUEUED is 0
EmptyEntry == [used |-> FALSE, task_id |-> 0, op_id |-> "NONE", state |-> "QUEUED",
               pid |-> NoPid, argv |-> NoArgv, finished_at |-> 0]

NoPending == [op |-> "NONE", pid |-> NoPid, argv |-> NoArgv]

\* Mutant: jobs_submit without the test of slot->used.
FreeSlots_All == Slots

FreeSlots == {s \in Slots : ~table[s].used}
FirstFree == CHOOSE s \in FreeSlots : \A t \in FreeSlots : s <= t

\* A slot whose worker the server still waits for.
Running(s) == table[s].used /\ table[s].state = "RUNNING" /\ table[s].pid # NoPid

Exited(p) == phase[p] \in {"exit0", "exit1"}     \* a zombie: waitpid returns it
Alive(p)  == phase[p] \in {"forked", "running"}  \* waitpid returns 0

-----------------------------------------------------------------------------
(* Initial state: jobs_init, and the loop about to poll for the first time. *)

Init ==
    /\ table = [s \in Slots |-> EmptyEntry]
    /\ next_task_id = 1
    /\ counter_done = 0 /\ counter_failed = 0
    /\ phase = [p \in Pids |-> "free"]
    /\ heap = {}
    /\ pending = NoPending
    /\ refused = {}
    /\ issued = 0
    /\ serial = [s \in Slots |-> 0]
    /\ now = 1 /\ last_cleanup = 1 /\ ahead = {}
    /\ g_stop = FALSE
    /\ ready = 0
    /\ pc = "poll"

-----------------------------------------------------------------------------
(* jobs_reap_running                                                        *)

\* waitpid(pid, WNOHANG) returns the child, or fails because there is none
\* (ECHILD); a child that still runs is left for the next pass.
Collected_OnlySuccess(s) ==    \* Mutant: a failed worker is taken for one that runs.
    Running(s) /\ phase[table[s].pid] \in {"free", "exit0"}
Collected(s) == Running(s) /\ ~Alive(table[s].pid)
Succeeded(s) == phase[table[s].pid] = "exit0"

\* Mutant: the exit status is not looked at.
ReapedEntry_AlwaysDone(s) ==
    IF Collected(s)
    THEN [table[s] EXCEPT !.state = "DONE", !.pid = NoPid, !.argv = NoArgv,
                          !.finished_at = now]
    ELSE table[s]

ReapedEntry(s) ==
    IF Collected(s)
    THEN [table[s] EXCEPT !.state = IF Succeeded(s) THEN "DONE" ELSE "ERR",
                          !.pid = NoPid, !.argv = NoArgv, !.finished_at = now]
    ELSE table[s]

\* poll() returns r: the number of sessions to serve, 0 on a timeout or an
\* interrupt, -1 on another error; then every running slot is reaped.
Reap ==
    /\ pc = "poll"
    /\ \E r \in -1..MaxReady : ready' = r
    /\ table' = [s \in Slots |-> ReapedEntry(s)]
    /\ phase' = [p \in Pids |->
                    IF \E s \in Slots : Collected(s) /\ table[s].pid = p
                    THEN "free" ELSE phase[p]]
    /\ heap' = heap \ {table[s].argv : s \in {t \in Slots : Collected(t)}}
    /\ counter_done' = counter_done
                       + Cardinality({s \in Slots : Collected(s) /\ Succeeded(s)})
    /\ counter_failed' = counter_failed
                         + Cardinality({s \in Slots : Collected(s) /\ ~Succeeded(s)})
    /\ pc' = "sweep"
    /\ UNCHANGED <<next_task_id, issued, serial, refused, pending, clockVars, g_stop>>

-----------------------------------------------------------------------------
(* run_cleanup_sweep, once per Interval, and jobs_evict_old                 *)

\* Mutant: a running job is not skipped.
Evictable_Active(s) ==
    table[s].used /\ (now - table[s].finished_at) % UIntMod >= Retention

\* (unsigned)(now - finished_at) < retention_sec keeps the slot
Evictable(s) ==
    /\ table[s].used
    /\ table[s].finished_at # 0
    /\ table[s].state \in {"DONE", "ERR"}
    /\ (now - table[s].finished_at) % UIntMod >= Retention

\* Mutant: the time of the sweep is not remembered.
Sweep_Forgetful ==
    /\ pc = "sweep"
    /\ IF now - last_cleanup >= Interval
       THEN /\ table' = [s \in Slots |-> IF Evictable(s) THEN EmptyEntry ELSE table[s]]
            /\ serial' = [s \in Slots |-> IF Evictable(s) THEN 0 ELSE serial[s]]
            /\ ahead' = {s \in ahead : ~Evictable(s)}
       ELSE UNCHANGED <<table, serial, ahead>>
    /\ pc' = "serve"
    /\ UNCHANGED <<next_task_id, counter_done, counter_failed, issued, childVars,
                   heap, pending, now, last_cleanup, g_stop, ready>>

Sweep ==
    /\ pc = "sweep"
    /\ IF now - last_cleanup >= Interval
       THEN /\ table' = [s \in Slots |-> IF Evictable(s) THEN EmptyEntry ELSE table[s]]
            /\ serial' = [s \in Slots |-> IF Evictable(s) THEN 0 ELSE serial[s]]
            /\ ahead' = {s \in ahead : ~Evictable(s)}
            /\ last_cleanup' = now
       ELSE UNCHANGED <<table, serial, last_cleanup, ahead>>
    /\ pc' = "serve"
    /\ UNCHANGED <<next_task_id, counter_done, counter_failed, issued, childVars,
                   heap, pending, now, g_stop, ready>>

-----------------------------------------------------------------------------
(* The handlers, called for one ready session after the other               *)

Serving == pc = "serve" /\ ready > 0

\* handle_trim, handle_filter and handle_mixaudio up to the fork: the argv is
\* built on the heap and the child of worker_spawn has not called execv yet.
SpawnSimple(op, p, a) ==
    /\ Serving
    /\ issued < MaxJobs
    /\ phase[p] = "free"
    /\ a \notin heap
    /\ heap' = heap \cup {a}
    /\ phase' = [phase EXCEPT ![p] = "forked"]
    /\ pending' = [op |-> op, pid |-> p, argv |-> a]
    /\ pc' = "register"
    /\ UNCHANGED <<tableVars, refused, clockVars, g_stop, ready>>

\* handle_merge up to the fork: the orchestrator needs no exec and no argv.
SpawnMerge(p) ==
    /\ Serving
    /\ issued < MaxJobs
    /\ phase[p] = "free"
    /\ phase' = [phase EXCEPT ![p] = "running"]
    /\ pending' = [op |-> "MERGE", pid |-> p, argv |-> NoArgv]
    /\ pc' = "register"
    /\ UNCHANGED <<tableVars, refused, heap, clockVars, g_stop, ready>>

\* Mutants: 0 is not skipped; the counter restarts one too early.
NextId_NoSkip(id)  == (id + 1) % IdMod
NextId_Early(id)   == IF id + 2 = IdMod THEN 1 ELSE id + 1

\* next_task_id++ on a uint32_t, skipping 0
NextId(id) == IF (id + 1) % IdMod = 0 THEN 1 ELSE (id + 1) % IdMod

\* What jobs_submit returns: 0 when the table is full.
SubmitResult == IF FreeSlots = {} THEN 0 ELSE next_task_id

JobsSubmit ==
    IF FreeSlots = {}
    THEN UNCHANGED tableVars
    ELSE /\ table' = [table EXCEPT ![FirstFree] =
                        [used |-> TRUE, task_id |-> next_task_id, op_id |-> pending.op,
                         state |-> "RUNNING", pid |-> pending.pid,
                         argv |-> pending.argv, finished_at |-> 0]]
         /\ next_task_id' = NextId(next_task_id)
         /\ issued' = issued + 1
         /\ serial' = [serial EXCEPT ![FirstFree] = issued + 1]
         /\ UNCHANGED <<counter_done, counter_failed>>

\* SIGTERM kills a worker that has called execv. Before that the child still
\* has the handler it inherited, which only sets the child's copy of g_stop:
\* the signal is lost, or hits only after execv reset the handler.
AfterKill(ph) ==
    CASE ph = "forked"  -> {"forked", "exit1"}
      [] ph = "running" -> {"exit1"}
      [] OTHER          -> {ph}

\* Mutant: submit_simple does not free the argv of the child it kills.
Refuse_Leaks ==
    /\ refused' = refused \cup {pending.pid}
    /\ IF pending.op \in SimpleOps
       THEN \E ph \in AfterKill(phase[pending.pid]) :
                phase' = [phase EXCEPT ![pending.pid] = ph]
       ELSE UNCHANGED phase
    /\ UNCHANGED heap

\* submit_simple kills the child it cannot track and frees its argv, and does
\* not wait for it; submit_merge only passes the 0 on.
Refuse ==
    /\ refused' = refused \cup {pending.pid}
    /\ IF pending.op \in SimpleOps
       THEN /\ \E ph \in AfterKill(phase[pending.pid]) :
                  phase' = [phase EXCEPT ![pending.pid] = ph]
            /\ heap' = heap \ {pending.argv}
       ELSE UNCHANGED <<phase, heap>>

Register ==
    /\ pc = "register"
    /\ JobsSubmit
    /\ IF SubmitResult = 0 THEN Refuse ELSE UNCHANGED <<childVars, heap>>
    /\ pending' = NoPending
    /\ ready' = ready - 1
    /\ pc' = "serve"
    /\ UNCHANGED <<clockVars, g_stop>>

\* Mutant: worker_spawn is expected to have freed the argv.
ForkFails_Leaks(a) == a \notin heap /\ heap' = heap \cup {a}

\* A simple operation whose fork fails: the argv stays the caller's, and submit_simple
\* frees it.
ForkFails(a) == a \notin heap /\ heap' = (heap \cup {a}) \ {a}

\* Every other request, and a submit without an argv or without a child: the table
\* is read at most, and a reply is sent.
OtherRequest ==
    /\ Serving
    /\ ready' = ready - 1
    /\ UNCHANGED heap \/ \E a \in Argvs : ForkFails(a)
    /\ UNCHANGED <<tableVars, childVars, pending, clockVars, g_stop, pc>>

\* handle_shutdown acknowledges and raises the flag; the pass goes on.
ShutdownRequest ==
    /\ Serving
    /\ ready' = ready - 1
    /\ g_stop' = TRUE
    /\ UNCHANGED <<tableVars, childVars, heap, pending, clockVars, pc>>

-----------------------------------------------------------------------------
(* The end of a pass, and the end of the server                             *)

\* while (g_stop == 0); a poll error other than EINTR breaks out of the loop.
PassDone ==
    /\ pc = "serve"
    /\ ready <= 0
    /\ pc' = IF g_stop \/ ready = -1 THEN "leave" ELSE "poll"
    /\ UNCHANGED <<tableVars, childVars, heap, pending, clockVars, g_stop, ready>>

\* jobs_destroy frees the argvs; the process ends, init adopts the children
\* and collects the zombies.
ServerExit ==
    /\ pc = "leave"
    /\ table' = [s \in Slots |-> [table[s] EXCEPT !.argv = NoArgv]]
    /\ heap' = heap \ {table[s].argv : s \in Slots}
    /\ phase' = [p \in Pids |-> IF Exited(p) THEN "free" ELSE phase[p]]
    /\ pc' = "exited"
    /\ UNCHANGED <<next_task_id, counter_done, counter_failed, issued, serial,
                   refused, pending, clockVars, g_stop, ready>>

-----------------------------------------------------------------------------
(* Outside the server: worker processes, signals, the clock                 *)

Exec(p) ==
    /\ phase[p] = "forked"
    /\ phase' = [phase EXCEPT ![p] = "running"]
    /\ UNCHANGED <<tableVars, refused, heap, pending, clockVars, loopVars>>

\* A worker ends with status 0 or not; a failed execv ends with 127.
\* An orphan is collected by init at once.
Exit(p) ==
    /\ Alive(p)
    /\ \E rc \in IF phase[p] = "running" THEN {"exit0", "exit1"} ELSE {"exit1"} :
          phase' = [phase EXCEPT ![p] = IF pc = "exited" THEN "free" ELSE rc]
    /\ UNCHANGED <<tableVars, refused, heap, pending, clockVars, loopVars>>

\* SIGINT or SIGTERM
OnSignal ==
    /\ pc # "exited"
    /\ ~g_stop
    /\ g_stop' = TRUE
    /\ UNCHANGED <<tableVars, childVars, heap, pending, clockVars, ready, pc>>

Tick ==
    /\ pc # "exited"
    /\ now < MaxTime
    /\ now' = now + 1
    /\ UNCHANGED <<tableVars, childVars, heap, pending, last_cleanup, ahead, loopVars>>

\* The administrator, or NTP, sets the clock back by a second or more, at any moment.
SetClockBack ==
    /\ ClockSteps
    /\ pc # "exited"
    /\ now' \in 1..(now - 1)
    /\ ahead' = IF pc = "sweep" THEN ahead \cup {s \in Slots : table[s].finished_at > now'}
                                ELSE ahead
    /\ UNCHANGED <<tableVars, childVars, heap, pending, last_cleanup, loopVars>>

-----------------------------------------------------------------------------
Submit == \/ \E op \in Ops \cap SimpleOps, p \in Pids, a \in Argvs : SpawnSimple(op, p, a)
          \/ "MERGE" \in Ops /\ \E p \in Pids : SpawnMerge(p)

Handler == Submit \/ OtherRequest \/ ShutdownRequest

Server == Reap \/ Sweep \/ Handler \/ Register \/ PassDone \/ ServerExit

Worker(p) == Exec(p) \/ Exit(p)

\* The server has exited and its last orphan is gone.
Terminated ==
    /\ pc = "exited"
    /\ \A p \in Pids : phase[p] = "free"
    /\ UNCHANGED vars

Next == \/ Server
        \/ \E p \in Pids : Worker(p)
        \/ OnSignal
        \/ Tick
        \/ SetClockBack
        \/ Terminated

Spec == Init /\ [][Next]_vars

\* The server runs whenever it can (a handler does not block here: PollLoop is
\* about that), and every worker eventually ends. Signals, ticks and clock
\* changes are never forced.
Fairness == WF_vars(Server) /\ \A p \in Pids : WF_vars(Worker(p))

FairSpec == Spec /\ Fairness

-----------------------------------------------------------------------------
(* Properties                                                               *)

Entry == [used : BOOLEAN, task_id : Nat, op_id : AllOps \cup {"NONE"}, state : States,
          pid : Pids \cup {NoPid}, argv : Argvs \cup {NoArgv}, finished_at : Nat]

\* The values the variables of the program can have.
TypeOK ==
    /\ table \in [Slots -> Entry]
    /\ next_task_id \in 1..(IdMod - 1)
    /\ counter_done \in Nat /\ counter_failed \in Nat
    /\ phase \in [Pids -> {"free", "forked", "running", "exit0", "exit1"}]
    /\ heap \subseteq Argvs
    /\ pending \in [op : AllOps \cup {"NONE"}, pid : Pids \cup {NoPid},
                    argv : Argvs \cup {NoArgv}]
    /\ refused \subseteq Pids
    /\ issued \in Nat
    /\ serial \in [Slots -> Nat]
    /\ now \in Nat \ {0} /\ last_cleanup \in Nat \ {0} /\ ahead \subseteq Slots
    /\ g_stop \in BOOLEAN
    /\ ready \in -1..MaxReady
    /\ pc \in {"poll", "sweep", "serve", "register", "leave", "exited"}

\* Lemma of the proofs, the shape of a slot: RUNNING iff it has a process to wait for, and only a
\* finished job has a finish time.
SlotShape ==
    \A s \in Slots :
        /\ table[s].used <=> table[s].state # "QUEUED"
        /\ table[s].state = "RUNNING" <=> table[s].pid # NoPid
        /\ table[s].state \in {"DONE", "ERR"} <=> table[s].finished_at # 0

RunningHasChild ==
    \A s \in Slots : Running(s) =>
        /\ phase[table[s].pid] # "free"
        /\ table[s].pid \notin refused
        /\ pc = "register" => table[s].pid # pending.pid
        /\ \A t \in Slots : Running(t) /\ table[t].pid = table[s].pid => t = s

PendingHasChild ==
    pc = "register" => pending.pid \in Pids \ refused /\ phase[pending.pid] # "free"

EveryChildOwned ==
    \A p \in Pids : phase[p] # "free" =>
        \/ p \in refused
        \/ pc = "register" /\ pending.pid = p
        \/ \E s \in Slots : Running(s) /\ table[s].pid = p

RefusedNotCollected == \A p \in refused : phase[p] # "free"

\* While the server lives, each of its children has exactly one owner that will
\* account for it: one RUNNING slot, the submit in progress, or nobody at all
\* when its job was refused. So the ECHILD branch of jobs_reap_running is never
\* taken and no slot reports the outcome of another job's worker.
WorkerOwnership ==
    pc # "exited" => /\ RunningHasChild
                     /\ PendingHasChild
                     /\ EveryChildOwned
                     /\ RefusedNotCollected

SlotOwnsArgv ==
    \A s \in Slots : table[s].argv # NoArgv =>
        /\ Running(s)
        /\ table[s].argv \in heap
        /\ pc = "register" => table[s].argv # pending.argv
        /\ \A t \in Slots : table[t].argv = table[s].argv => t = s

SubmitOwnsArgv ==
    pending.argv # NoArgv => pc = "register" /\ pending.argv \in heap

EveryArgvOwned ==
    \A a \in heap : pending.argv = a \/ \E s \in Slots : table[s].argv = a

\* Every argv on the heap belongs to exactly one RUNNING slot or to the submit
\* in progress, and no slot points to a freed one: what worker_spawn's "argv
\* stays the caller's", jobs_reap_running and jobs_destroy free is freed once.
ArgvOwnership == SlotOwnsArgv /\ SubmitOwnsArgv /\ EveryArgvOwned

\* STATS adds up: each accepted job is running or was counted exactly once.
AccountsBalance ==
    issued = counter_done + counter_failed
             + Cardinality({s \in Slots : table[s].state = "RUNNING"})

\* Two jobs in the table answer to the same task id only after the 32-bit
\* counter has gone round while the older one was still there.
TaskIdsCollideOnlyAfterWrap ==
    \A s, t \in Slots :
        /\ table[s].used /\ table[t].used
        /\ table[s].task_id = table[t].task_id
        /\ serial[s] < serial[t]
        => serial[t] - serial[s] >= IdMod - 1

\* A slot is emptied only for a job that finished at least Retention ago, so that a
\* client that polls within the retention finds the outcome, however often the clock
\* was set back, except in one case: set back behind the finish time of the job between
\* a reap and the sweep of the same pass. There jobs.c:130 compares a negative age as
\* an unsigned number and frees the slot at once, against jobs.c:117 and jobs.h:57.
EvictionHonoursRetention ==
    [][\A s \in Slots \ ahead : table[s].used /\ ~table'[s].used =>
          now - table[s].finished_at >= Retention]_vars

\* A job that has a slot is settled, DONE or ERR, unless the server stops.
EveryJobIsSettled ==
    \A s \in Slots : Running(s) ~> ~Running(s) \/ pc = "exited"

-----------------------------------------------------------------------------
(* Refinement: the n-th accepted job of JobService                          *)

Holds(s, n) == table[s].used /\ serial[s] = n

JobPhase(n) ==
    IF n > issued THEN "none"
    ELSE IF pc = "exited" \/ \A s \in Slots : ~Holds(s, n) THEN "gone"
    ELSE LET s == CHOOSE t \in Slots : Holds(t, n) IN
         CASE table[s].state = "DONE" -> "done"
           [] table[s].state = "ERR"  -> "err"
           [] OTHER -> IF Alive(table[s].pid) THEN "working"
                       ELSE IF Succeeded(s) THEN "ok" ELSE "fail"

Abstract == INSTANCE JobService
    WITH job <- [n \in 1..MaxJobs |-> JobPhase(n)], halted <- (pc = "exited")

\* The job table, its workers and the sweep implement the service: the reported
\* outcome is the worker's, and it stays reported until the job is forgotten.
ImplementsJobService == Abstract!Spec

-----------------------------------------------------------------------------
(* What the documentation and the comments say, and the code does not do    *)

\* docs/SRS.md:109 "Reap copii (waitpid + WNOHANG), zero zombies": a child that
\* has exited is eventually waited for.
ZeroZombies == \A p \in Pids : Exited(p) ~> phase[p] = "free"

\* net_server.c:101 "tabela plina; nu putem urmari jobul, ucidem copilul": a
\* child whose job was refused does not go on to complete.
RefusedNeverCompletes ==
    [][\A p \in refused : phase'[p] = "exit0" => phase[p] = "exit0"]_vars
=============================================================================
