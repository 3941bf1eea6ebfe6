-------------------------- MODULE JobServiceProofs --------------------------
(***************************************************************************)
(* JobTable implements JobService for every value of the constants: each   *)
(* step of the table, the workers or the environment is a step of the      *)
(* service, or leaves what a client can know of its jobs as it was.        *)
(***************************************************************************)
EXTENDS JobTableProofs

\* The bound on accepted jobs leaves room for the one a submit is about to register.
IssuedBound == issued <= MaxJobs /\ (pc = "register" => issued < MaxJobs)

RefInv == WorkerInv /\ SerialInv /\ IssuedBound

LEMMA IssuedStep == TypeInv /\ IssuedBound /\ [Next]_vars => IssuedBound'
<1> SUFFICES ASSUME TypeInv, IssuedBound, [Next]_vars PROVE IssuedBound'
  OBVIOUS
<1>1. issued \in Nat /\ MaxJobs \in Nat
  BY JobTableAssumptions DEF TypeInv, TypeOK
<1>2. CASE Register
  <2>1. issued < MaxJobs /\ pc' = "serve"
    BY <1>2 DEF Register, IssuedBound
  <2>2. issued' = issued \/ issued' = issued + 1
    BY <1>2 DEF Register, JobsSubmit, tableVars
  <2>3. QED BY <1>1, <2>1, <2>2 DEF IssuedBound
<1>3. CASE Submit
  <2>1. issued < MaxJobs /\ issued' = issued
    BY <1>3 DEF Submit, SpawnSimple, SpawnMerge, tableVars
  <2>2. QED BY <1>1, <2>1 DEF IssuedBound
<1>4. CASE ~Register /\ ~Submit
  <2>1. issued' = issued
    BY <1>4, CountersKept
  <2>2. pc' = "register" => pc = "register"
    BY <1>4 DEF Next, Server, Handler, Reap, Sweep, OtherRequest, ShutdownRequest, PassDone,
                ServerExit, Worker, Exec, Exit, OnSignal, Tick, SetClockBack, Terminated,
                vars, loopVars
  <2>3. QED BY <2>1, <2>2 DEF IssuedBound
<1>5. QED BY <1>2, <1>3, <1>4

LEMMA RefInvariant == Spec => []RefInv
<1>1. Init => IssuedBound
  BY JobTableAssumptions DEF Init, IssuedBound
<1>2. WorkerInv => TypeInv
  BY DEF WorkerInv, SlotInv
<1>3. QED BY <1>1, <1>2, IssuedStep, WorkerInvariant, SerialInvariant, PTL DEF Spec, RefInv

-----------------------------------------------------------------------------
(* The refinement mapping                                                   *)

\* What a client can know of the job in a slot with entry e, when the processes
\* are at ph.
EntryPhase(e, ph) ==
    CASE e.state = "DONE" -> "done"
      [] e.state = "ERR"  -> "err"
      [] OTHER -> IF ph[e.pid] \in {"forked", "running"} THEN "working"
                  ELSE IF ph[e.pid] = "exit0" THEN "ok" ELSE "fail"

\* JobPhase as a function of the variables it reads, to speak of it before and after a
\* step.
PhaseIn(tab, ser, iss, over, ph, n) ==
    IF n > iss THEN "none"
    ELSE IF over \/ \A s \in Slots : ~(tab[s].used /\ ser[s] = n) THEN "gone"
    ELSE EntryPhase(tab[CHOOSE s \in Slots : tab[s].used /\ ser[s] = n], ph)

Before(n) == PhaseIn(table, serial, issued, pc = "exited", phase, n)
After(n)  == PhaseIn(table', serial', issued', pc' = "exited", phase', n)

LEMMA PhasesAreThese ==
    ASSUME NEW n
    PROVE  JobPhase(n) = Before(n) /\ JobPhase(n)' = After(n)
<1>1. JobPhase(n) = Before(n)
  BY DEF JobPhase, Before, PhaseIn, Holds, EntryPhase, Alive, Succeeded
<1>2. JobPhase(n)' = After(n)
  BY DEF JobPhase, After, PhaseIn, Holds, EntryPhase, Alive, Succeeded
<1>3. QED BY <1>1, <1>2

\* A job that has a slot is where its entry says.
LEMMA HeldPhase ==
    ASSUME NEW tab, NEW ser, NEW iss \in Nat, NEW ph, NEW s \in Slots,
           tab[s].used, ser[s] \in 1..iss,
           \A t \in Slots : tab[t].used /\ ser[t] = ser[s] => t = s
    PROVE  PhaseIn(tab, ser, iss, FALSE, ph, ser[s]) = EntryPhase(tab[s], ph)
<1> DEFINE c == CHOOSE t \in Slots : tab[t].used /\ ser[t] = ser[s]
<1>1. c = s
  OBVIOUS
<1>2. ~(ser[s] > iss) /\ ~\A t \in Slots : ~(tab[t].used /\ ser[t] = ser[s])
  OBVIOUS
<1>3. PhaseIn(tab, ser, iss, FALSE, ph, ser[s]) = EntryPhase(tab[c], ph)
  BY <1>2 DEF PhaseIn
<1>4. QED BY <1>1, <1>3

LEMMA EntryPhases ==
    ASSUME NEW e, NEW ph
    PROVE  /\ e.state = "DONE" => EntryPhase(e, ph) = "done"
           /\ e.state = "ERR" => EntryPhase(e, ph) = "err"
           /\ e.state = "RUNNING" => EntryPhase(e, ph) \in {"working", "ok", "fail"}
           /\ e.state = "RUNNING" /\ ph[e.pid] = "exit0" => EntryPhase(e, ph) = "ok"
           /\ e.state = "RUNNING" /\ ph[e.pid] = "exit1" => EntryPhase(e, ph) = "fail"
           /\ EntryPhase(e, ph) # "none"
<1>1. e.state = "DONE" => EntryPhase(e, ph) = "done"
  BY DEF EntryPhase
<1>2. e.state = "ERR" => EntryPhase(e, ph) = "err"
  BY DEF EntryPhase
<1>3. e.state = "RUNNING" => EntryPhase(e, ph) \in {"working", "ok", "fail"}
  BY DEF EntryPhase
<1>4. e.state = "RUNNING" /\ ph[e.pid] = "exit0" => EntryPhase(e, ph) = "ok"
  BY DEF EntryPhase
<1>5. e.state = "RUNNING" /\ ph[e.pid] = "exit1" => EntryPhase(e, ph) = "fail"
  BY DEF EntryPhase
<1>6. EntryPhase(e, ph) # "none"
  BY DEF EntryPhase
<1>7. QED BY <1>1, <1>2, <1>3, <1>4, <1>5, <1>6

-----------------------------------------------------------------------------
(* What a step does to the jobs                                             *)

JobNumbers == 1..MaxJobs

LEMMA RefFacts ==
    ASSUME RefInv
    PROVE  /\ TypeInv /\ TypeOK /\ SlotShape /\ WorkerOwnership /\ SerialShape
           /\ issued \in Nat /\ MaxJobs \in Nat /\ issued <= MaxJobs
BY JobTableAssumptions
   DEF RefInv, WorkerInv, SlotInv, SerialInv, TypeInv, TypeOK, IssuedBound

LEMMA HeldBefore ==
    ASSUME RefInv, pc # "exited", NEW s \in Slots, table[s].used
    PROVE  serial[s] \in 1..issued /\ Before(serial[s]) = EntryPhase(table[s], phase)
<1>1. /\ issued \in Nat /\ serial[s] \in 1..issued
      /\ \A t \in Slots : table[t].used /\ serial[t] = serial[s] => t = s
  BY RefFacts DEF SerialShape
<1>2. (pc = "exited") = FALSE
  OBVIOUS
<1>3. QED BY <1>1, <1>2, HeldPhase DEF Before

LEMMA HeldAfter ==
    ASSUME NEW n, NEW s \in Slots, pc' # "exited", issued' \in Nat, n \in 1..issued',
           table'[s].used, serial'[s] = n,
           \A t \in Slots : table'[t].used /\ serial'[t] = n => t = s
    PROVE  After(n) = EntryPhase(table'[s], phase')
<1>1. PhaseIn(table', serial', issued', FALSE, phase', serial'[s]) = EntryPhase(table'[s], phase')
  BY HeldPhase
<1>2. (pc' = "exited") = FALSE
  OBVIOUS
<1>3. QED BY <1>1, <1>2 DEF After

\* While the server goes on and accepts no job, a job stays where it was, or its slot
\* says where it is now, or the slot was emptied.
LEMMA JobMoves ==
    ASSUME RefInv, [Next]_vars, ~Register, pc # "exited", pc' # "exited",
           NEW n \in JobNumbers
    PROVE  \/ After(n) = Before(n) /\ \A s \in Slots : ~(table[s].used /\ serial[s] = n)
           \/ \E s \in Slots :
                 /\ table[s].used /\ serial[s] = n
                 /\ Before(n) = EntryPhase(table[s], phase)
                 /\ table'[s].used => After(n) = EntryPhase(table'[s], phase')
                 /\ ~table'[s].used => After(n) = "gone"
<1>1. /\ TypeInv /\ issued' = issued /\ issued \in Nat /\ n \in Nat
      /\ (pc = "exited") = FALSE /\ (pc' = "exited") = FALSE
  BY RefFacts, CountersKept DEF JobNumbers
<1>2. \A t \in Slots : table'[t].used => table[t].used /\ serial'[t] = serial[t]
  BY <1>1, JobKeepsIds
<1>3. CASE \A s \in Slots : ~(table[s].used /\ serial[s] = n)
  <2>1. \A s \in Slots : ~(table'[s].used /\ serial'[s] = n)
    BY <1>2, <1>3
  <2>2. n > issued \/ n <= issued
    BY <1>1
  <2>3. Before(n) = After(n)
    <3>1. /\ Before(n) = PhaseIn(table, serial, issued, FALSE, phase, n)
          /\ After(n) = PhaseIn(table', serial', issued, FALSE, phase', n)
      BY <1>1 DEF Before, After
    <3>2. CASE n > issued
      BY <1>1, <3>1, <3>2 DEF PhaseIn
    <3>3. CASE n <= issued
      <4>1. ~(n > issued)
        BY <1>1, <3>3
      <4>2. Before(n) = "gone" /\ After(n) = "gone"
        BY <1>3, <2>1, <3>1, <4>1 DEF PhaseIn
      <4>3. QED BY <4>2
    <3>4. QED BY <2>2, <3>2, <3>3
  <2>4. QED BY <1>3, <2>3
<1>4. CASE \E s \in Slots : table[s].used /\ serial[s] = n
  <2>1. PICK s \in Slots : table[s].used /\ serial[s] = n
    BY <1>4
  <2>2. /\ n \in 1..issued /\ Before(n) = EntryPhase(table[s], phase)
        /\ \A t \in Slots : table[t].used /\ serial[t] = n => t = s
    BY <2>1, HeldBefore, RefFacts DEF SerialShape
  <2>3. ASSUME table'[s].used
        PROVE  After(n) = EntryPhase(table'[s], phase')
    <3>1. serial'[s] = n /\ \A t \in Slots : table'[t].used /\ serial'[t] = serial'[s] => t = s
      BY <1>2, <2>1, <2>2, <2>3
    <3>2. PhaseIn(table', serial', issued', FALSE, phase', serial'[s])
             = EntryPhase(table'[s], phase')
      <4>1. table'[s].used /\ serial'[s] \in 1..issued' /\ issued' \in Nat
        BY <1>1, <2>2, <2>3, <3>1
      <4>2. QED BY <3>1, <4>1, HeldPhase
    <3>3. QED BY <1>1, <3>1, <3>2 DEF After
  <2>4. ASSUME ~table'[s].used
        PROVE  After(n) = "gone"
    <3>1. \A t \in Slots : ~(table'[t].used /\ serial'[t] = n)
      BY <1>2, <2>1, <2>2, <2>4
    <3>2. ~(n > issued')
      BY <1>1, <2>2
    <3>3. QED BY <3>1, <3>2 DEF After, PhaseIn
  <2>5. QED BY <2>1, <2>2, <2>3, <2>4
<1>5. QED BY <1>3, <1>4

\* Steps that change nothing a client can know.
LEMMA Stutters ==
    ASSUME RefInv, [Next]_vars, ~Register, pc # "exited", pc' # "exited",
           \A s \in Slots : table[s].used =>
               /\ table'[s].used
               /\ EntryPhase(table'[s], phase') = EntryPhase(table[s], phase)
    PROVE  \A n \in JobNumbers : After(n) = Before(n)
BY JobMoves

-----------------------------------------------------------------------------
(* The mapped state                                                         *)

JobsBefore == [n \in JobNumbers |-> Before(n)]
JobsAfter  == [n \in JobNumbers |-> After(n)]

LEMMA Mapped ==
    /\ [n \in 1..MaxJobs |-> JobPhase(n)] = JobsBefore
    /\ [n \in 1..MaxJobs |-> JobPhase(n)]' = JobsAfter
<1>1. \A n : JobPhase(n) = Before(n) /\ JobPhase(n)' = After(n)
  BY PhasesAreThese
<1>2. QED BY <1>1 DEF JobsBefore, JobsAfter, JobNumbers

LEMMA StutterMaps ==
    ASSUME \A n \in JobNumbers : After(n) = Before(n), (pc' = "exited") = (pc = "exited")
    PROVE  UNCHANGED Abstract!vars
<1>1. JobsAfter = JobsBefore
  BY DEF JobsAfter, JobsBefore
<1>2. QED BY <1>1, Mapped DEF Abstract!vars

LEMMA FinishMaps ==
    ASSUME NEW n \in JobNumbers, NEW ph \in {"ok", "fail"}, (pc' = "exited") = (pc = "exited"),
           Before(n) = "working", After(n) = ph,
           \A m \in JobNumbers : m # n => After(m) = Before(m)
    PROVE  Abstract!Next
<1>1. JobsAfter = [JobsBefore EXCEPT ![n] = ph] /\ JobsBefore[n] = "working"
  BY DEF JobsAfter, JobsBefore
<1>2. Abstract!Finish(n)
  BY <1>1, Mapped DEF Abstract!Finish
<1>3. n \in Abstract!Jobs
  BY DEF JobNumbers, Abstract!Jobs
<1>4. QED BY <1>2, <1>3 DEF Abstract!Next

LEMMA ReportMaps ==
    ASSUME NEW S \in SUBSET JobNumbers, S # {}, pc # "exited", pc' # "exited",
           \A n \in S : \/ Before(n) = "ok" /\ After(n) = "done"
                        \/ Before(n) = "fail" /\ After(n) = "err",
           \A n \in JobNumbers \ S : After(n) = Before(n)
    PROVE  Abstract!Next
<1>1. /\ \A n \in S : JobsBefore[n] \in {"ok", "fail"}
      /\ JobsAfter = [n \in JobNumbers |-> IF n \in S
                                           THEN IF JobsBefore[n] = "ok" THEN "done" ELSE "err"
                                           ELSE JobsBefore[n]]
  BY DEF JobsAfter, JobsBefore
<1>2. Abstract!Report(S)
  BY <1>1, Mapped DEF Abstract!Report, Abstract!Outcome, Abstract!Jobs, JobNumbers
<1>3. S \in SUBSET Abstract!Jobs
  BY DEF JobNumbers, Abstract!Jobs
<1>4. QED BY <1>2, <1>3 DEF Abstract!Next

LEMMA ForgetMaps ==
    ASSUME NEW S \in SUBSET JobNumbers, S # {}, pc # "exited", pc' # "exited",
           \A n \in S : Before(n) \in {"done", "err"} /\ After(n) = "gone",
           \A n \in JobNumbers \ S : After(n) = Before(n)
    PROVE  Abstract!Next
<1>1. /\ \A n \in S : JobsBefore[n] \in {"done", "err"}
      /\ JobsAfter = [n \in JobNumbers |-> IF n \in S THEN "gone" ELSE JobsBefore[n]]
  BY DEF JobsAfter, JobsBefore
<1>2. Abstract!Forget(S)
  BY <1>1, Mapped DEF Abstract!Forget, Abstract!Jobs, JobNumbers
<1>3. S \in SUBSET Abstract!Jobs
  BY DEF JobNumbers, Abstract!Jobs
<1>4. QED BY <1>2, <1>3 DEF Abstract!Next

LEMMA AcceptMaps ==
    ASSUME NEW n \in JobNumbers, MaxJobs \in Nat, pc # "exited", pc' # "exited",
           Before(n) = "none", After(n) \in {"working", "ok", "fail"},
           \A m \in JobNumbers : m # n => After(m) = Before(m),
           \A m \in JobNumbers : m < n => Before(m) # "none"
    PROVE  Abstract!Next
<1>1. /\ JobsBefore[n] = "none"
      /\ \A m \in JobNumbers : m < n => JobsBefore[m] # "none"
      /\ JobsAfter = [JobsBefore EXCEPT ![n] = After(n)]
  BY DEF JobsAfter, JobsBefore
<1>2. Abstract!Accept(n)
  BY <1>1, Mapped DEF Abstract!Accept, Abstract!Jobs, JobNumbers
<1>3. n \in Abstract!Jobs
  BY DEF JobNumbers, Abstract!Jobs
<1>4. QED BY <1>2, <1>3 DEF Abstract!Next

-----------------------------------------------------------------------------
(* The steps                                                                *)

\* jobs_reap_running reports the jobs whose workers it collects.
LEMMA ReapMaps ==
    ASSUME RefInv, Reap
    PROVE  Abstract!Next \/ UNCHANGED Abstract!vars
<1>1. /\ TypeInv /\ TypeOK /\ SlotShape /\ WorkerOwnership /\ SerialShape
      /\ issued \in Nat /\ MaxJobs \in Nat /\ issued <= MaxJobs
  BY RefFacts
<1>2. pc = "poll" /\ pc' = "sweep" /\ [Next]_vars /\ ~Register
  BY DEF Reap, Next, Server, Register
<1>3. RunningHasChild
  BY <1>1, <1>2 DEF WorkerOwnership
<1>4. ASSUME NEW s \in Slots, Collected(s)
      PROVE  /\ table[s].used /\ table'[s].used
             /\ \/ EntryPhase(table[s], phase) = "ok" /\ EntryPhase(table'[s], phase') = "done"
                \/ EntryPhase(table[s], phase) = "fail" /\ EntryPhase(table'[s], phase') = "err"
  <2>1. /\ table[s].used /\ table[s].state = "RUNNING" /\ table[s].pid \in Pids
        /\ table[s] \in Entry
    BY <1>1, <1>4 DEF Collected, Running, TypeOK, Entry
  <2>2. phase[table[s].pid] \in {"exit0", "exit1"}
    BY <1>1, <1>3, <1>4, <2>1 DEF Collected, RunningHasChild, Alive, TypeOK
  <2>3. table'[s] = ReapedEntry(s)
    BY DEF Reap
  <2>4. /\ table'[s].used
        /\ table'[s].state = IF phase[table[s].pid] = "exit0" THEN "DONE" ELSE "ERR"
    BY <1>4, <2>1, <2>3 DEF ReapedEntry, Entry, Succeeded
  <2>5. CASE phase[table[s].pid] = "exit0"
    <3>1. EntryPhase(table[s], phase) = "ok"
      BY <2>1, <2>5 DEF EntryPhase
    <3>2. EntryPhase(table'[s], phase') = "done"
      BY <2>4, <2>5, EntryPhases
    <3>3. QED BY <2>1, <2>4, <3>1, <3>2
  <2>6. CASE phase[table[s].pid] = "exit1"
    <3>1. EntryPhase(table[s], phase) = "fail"
      BY <2>1, <2>6 DEF EntryPhase
    <3>2. EntryPhase(table'[s], phase') = "err"
      BY <2>4, <2>6, EntryPhases
    <3>3. QED BY <2>1, <2>4, <3>1, <3>2
  <2>7. QED BY <2>2, <2>5, <2>6
<1>5. ASSUME NEW s \in Slots, ~Collected(s), table[s].used
      PROVE  table'[s].used /\ EntryPhase(table'[s], phase') = EntryPhase(table[s], phase)
  <2>1. table'[s] = table[s] /\ table[s] \in Entry
    BY <1>1, <1>5, ReapedSlot DEF TypeOK
  <2>2. CASE table[s].state = "RUNNING"
    <3>1. Running(s) /\ table[s].pid \in Pids
      BY <1>1, <1>5, <2>1, <2>2 DEF SlotShape, Running, Entry
    <3>2. ~\E t \in Slots : Collected(t) /\ table[t].pid = table[s].pid
      BY <1>3, <1>5, <3>1 DEF RunningHasChild, Collected
    <3>3. phase'[table[s].pid] = phase[table[s].pid]
      BY <3>1, <3>2 DEF Reap
    <3>4. QED BY <1>5, <2>1, <3>3 DEF EntryPhase
  <2>3. CASE table[s].state # "RUNNING"
    <3>1. table[s].state \in {"DONE", "ERR"}
      BY <1>1, <1>5, <2>1, <2>3 DEF SlotShape, Entry, States
    <3>2. QED BY <1>5, <2>1, <3>1 DEF EntryPhase
  <2>4. QED BY <2>2, <2>3
<1> DEFINE S == {serial[s] : s \in {t \in Slots : Collected(t)}}
<1>6. CASE S = {}
  <2>1. \A s \in Slots : ~Collected(s)
    BY <1>6
  <2>2. \A n \in JobNumbers : After(n) = Before(n)
    BY <1>2, <1>5, <2>1, Stutters
  <2>3. QED BY <1>2, <2>2, StutterMaps
<1>7. CASE S # {}
  <2>1. S \in SUBSET JobNumbers
    <3>1. \A s \in Slots : Collected(s) => serial[s] \in 1..issued
      BY <1>1, <1>4 DEF SerialShape
    <3>2. QED BY <1>1, <3>1 DEF JobNumbers
  <2>2. ASSUME NEW n \in S
        PROVE  \/ Before(n) = "ok" /\ After(n) = "done"
               \/ Before(n) = "fail" /\ After(n) = "err"
    <3>1. PICK s \in Slots : Collected(s) /\ n = serial[s]
      BY <2>2
    <3>2. table[s].used
      BY <1>4, <3>1
    <3>3. Before(n) = EntryPhase(table[s], phase) /\ After(n) = EntryPhase(table'[s], phase')
      BY <1>1, <1>2, <1>4, <2>1, <3>1, <3>2, JobMoves DEF SerialShape
    <3>4. QED BY <1>4, <3>1, <3>3
  <2>3. ASSUME NEW n \in JobNumbers \ S
        PROVE  After(n) = Before(n)
    <3>1. \A s \in Slots : serial[s] = n => ~Collected(s)
      OBVIOUS
    <3> HIDE DEF S
    <3>2. QED BY <1>2, <1>5, <3>1, JobMoves
  <2>4. QED BY <1>2, <1>7, <2>1, <2>2, <2>3, ReportMaps
<1>8. QED BY <1>6, <1>7

\* jobs_evict_old forgets the jobs whose slots it empties.
LEMMA SweepMaps ==
    ASSUME RefInv, Sweep
    PROVE  Abstract!Next \/ UNCHANGED Abstract!vars
<1>1. /\ TypeInv /\ TypeOK /\ SerialShape
      /\ issued \in Nat /\ MaxJobs \in Nat /\ issued <= MaxJobs
  BY RefFacts
<1>2. /\ pc = "sweep" /\ pc' = "serve" /\ [Next]_vars /\ ~Register /\ phase' = phase
  BY DEF Sweep, Next, Server, Register, childVars
<1>3. ASSUME NEW s \in Slots, table[s].used
      PROVE  \/ table'[s] = table[s]
             \/ ~table'[s].used /\ EntryPhase(table[s], phase) \in {"done", "err"}
  <2>1. Evictable(s) => EntryPhase(table[s], phase) \in {"done", "err"}
    BY EntryPhases DEF Evictable
  <2>2. ~EmptyEntry.used
    BY DEF EmptyEntry
  <2>3. QED BY <1>1, <2>1, <2>2, SweptSlot
<1> DEFINE S == {serial[s] : s \in {t \in Slots : table[t].used /\ ~table'[t].used}}
<1>4. CASE S = {}
  <2>1. \A s \in Slots : table[s].used => table'[s].used
    BY <1>4
  <2>2. \A s \in Slots : table[s].used => table'[s] = table[s]
    BY <1>3, <2>1
  <2>3. \A n \in JobNumbers : After(n) = Before(n)
    BY <1>2, <2>1, <2>2, Stutters
  <2>4. QED BY <1>2, <2>3, StutterMaps
<1>5. CASE S # {}
  <2>1. S \in SUBSET JobNumbers
    <3>1. \A s \in Slots : table[s].used => serial[s] \in 1..issued
      BY <1>1 DEF SerialShape
    <3>2. QED BY <1>1, <3>1 DEF JobNumbers
  <2>2. ASSUME NEW n \in S
        PROVE  Before(n) \in {"done", "err"} /\ After(n) = "gone"
    <3>1. PICK s \in Slots : table[s].used /\ ~table'[s].used /\ n = serial[s]
      BY <2>2
    <3>2. Before(n) = EntryPhase(table[s], phase) /\ After(n) = "gone"
      BY <1>1, <1>2, <2>1, <3>1, JobMoves DEF SerialShape
    <3>3. QED BY <1>3, <3>1, <3>2
  <2>3. ASSUME NEW n \in JobNumbers \ S
        PROVE  After(n) = Before(n)
    <3>1. \A s \in Slots : table[s].used /\ serial[s] = n => table'[s].used
      OBVIOUS
    <3>2. \A s \in Slots : table[s].used /\ serial[s] = n => table'[s] = table[s]
      BY <1>3, <3>1
    <3> HIDE DEF S
    <3>3. QED BY <1>2, <3>1, <3>2, JobMoves
  <2>4. QED BY <1>2, <1>5, <2>1, <2>2, <2>3, ForgetMaps
<1>6. QED BY <1>4, <1>5

\* jobs_submit accepts the next job, or a full table refuses it and nobody notices.
LEMMA RegisterMaps ==
    ASSUME RefInv, Register
    PROVE  Abstract!Next \/ UNCHANGED Abstract!vars
<1>1. /\ TypeInv /\ TypeOK /\ SlotShape /\ WorkerOwnership /\ SerialShape
      /\ issued \in Nat /\ MaxJobs \in Nat /\ issued < MaxJobs
  BY RefFacts DEF Register, RefInv, IssuedBound
<1>2. /\ pc = "register" /\ pc' = "serve"
      /\ (pc = "exited") = FALSE /\ (pc' = "exited") = FALSE
  BY DEF Register
<1>3. RunningHasChild /\ pending.pid \in Pids /\ pending.pid # NoPid
  BY <1>1, <1>2, JobTableAssumptions DEF WorkerOwnership, TypeInv, PendingShape
<1>4. CASE FreeSlots = {}
  <2>1. table' = table /\ serial' = serial /\ issued' = issued
    BY <1>4 DEF Register, JobsSubmit, tableVars
  <2>2. \A p \in Pids : p # pending.pid => phase'[p] = phase[p]
    <3>1. Refuse
      BY <1>1, <1>4, RefusedOnlyWhenFull DEF Register
    <3>2. phase' = phase \/ \E ph : phase' = [phase EXCEPT ![pending.pid] = ph]
      BY <3>1 DEF Refuse
    <3>3. QED BY <1>1, <3>2 DEF TypeOK
  <2>3. ASSUME NEW s \in Slots, table[s].used
        PROVE  EntryPhase(table[s], phase') = EntryPhase(table[s], phase)
    <3>1. table[s] \in Entry
      BY <1>1 DEF TypeOK
    <3>2. CASE table[s].state = "RUNNING"
      <4>1. Running(s) /\ table[s].pid \in Pids
        BY <1>1, <2>3, <3>1, <3>2 DEF SlotShape, Running, Entry
      <4>2. table[s].pid # pending.pid
        BY <1>2, <1>3, <4>1 DEF RunningHasChild
      <4>3. phase'[table[s].pid] = phase[table[s].pid]
        BY <2>2, <4>1, <4>2
      <4>4. QED BY <3>2, <4>3 DEF EntryPhase
    <3>3. CASE table[s].state # "RUNNING"
      <4>1. table[s].state \in {"DONE", "ERR"}
        BY <1>1, <2>3, <3>1, <3>3 DEF SlotShape, Entry, States
      <4>2. QED BY <4>1 DEF EntryPhase
    <3>4. QED BY <3>2, <3>3
  <2>4. ASSUME NEW n \in JobNumbers
        PROVE  After(n) = Before(n)
    <3>1. CASE \E s \in Slots : table[s].used /\ serial[s] = n
      <4>1. PICK s \in Slots : table[s].used /\ serial[s] = n
        BY <3>1
      <4>2. n \in 1..issued /\ \A t \in Slots : table[t].used /\ serial[t] = serial[s] => t = s
        BY <1>1, <4>1 DEF SerialShape
      <4>3. Before(n) = EntryPhase(table[s], phase)
        BY <1>2, <4>1, HeldBefore
      <4>4. After(n) = EntryPhase(table[s], phase')
        BY <1>1, <1>2, <2>1, <4>1, <4>2, HeldAfter
      <4>5. QED BY <2>3, <4>1, <4>3, <4>4
    <3>2. CASE \A s \in Slots : ~(table[s].used /\ serial[s] = n)
      <4>1. CASE n > issued
        BY <1>2, <2>1, <4>1 DEF Before, After, PhaseIn
      <4>2. CASE ~(n > issued)
        BY <1>2, <2>1, <3>2, <4>2 DEF Before, After, PhaseIn
      <4>3. QED BY <4>1, <4>2
    <3>3. QED BY <3>1, <3>2
  <2>5. QED BY <1>2, <2>4, StutterMaps
<1>5. CASE FreeSlots # {}
  <2> DEFINE n == issued + 1
  <2>1. /\ FirstFree \in Slots /\ ~table[FirstFree].used
        /\ table'[FirstFree].used /\ serial'[FirstFree] = n /\ issued' = n
        /\ \A s \in Slots : s # FirstFree => table'[s] = table[s] /\ serial'[s] = serial[s]
    BY <1>1, <1>5, RegisteredJob
  <2>2. phase' = phase
    BY <1>1, <1>5, RefusedOnlyWhenFull DEF Register, childVars
  <2>3. n \in JobNumbers /\ n \in Nat
    BY <1>1 DEF JobNumbers
  <2>4. Before(n) = "none"
    <3>1. n > issued
      BY <1>1
    <3>2. QED BY <3>1 DEF Before, PhaseIn
  <2>5. After(n) \in {"working", "ok", "fail"}
    <3>1. \A t \in Slots : table'[t].used /\ serial'[t] = serial'[FirstFree] => t = FirstFree
      <4>1. \A t \in Slots : table[t].used => serial[t] # n
        BY <1>1 DEF SerialShape
      <4>2. QED BY <2>1, <4>1
    <3>2. After(n) = EntryPhase(table'[FirstFree], phase')
      <4>1. n \in 1..issued' /\ issued' \in Nat
        BY <1>1, <2>1
      <4> HIDE DEF n
      <4>2. QED BY <1>2, <2>1, <3>1, <4>1, HeldAfter
    <3>3. table'[FirstFree].state = "RUNNING"
      BY <1>1, <1>5, <2>1, RegisteredSlot
    <3>4. QED BY <3>2, <3>3, EntryPhases
  <2>6. ASSUME NEW m \in JobNumbers, m # n
        PROVE  After(m) = Before(m)
    <3>1. m \in Nat /\ (m > n \/ m <= issued)
      BY <1>1, <2>6 DEF JobNumbers
    <3>2. CASE m > n
      <4>1. m > issued /\ m > issued'
        BY <1>1, <2>1, <3>1, <3>2
      <4>2. QED BY <4>1 DEF Before, After, PhaseIn
    <3>3. CASE m <= issued /\ \E s \in Slots : table[s].used /\ serial[s] = m
      <4>1. PICK s \in Slots : table[s].used /\ serial[s] = m
        BY <3>3
      <4>2. s # FirstFree /\ table'[s] = table[s] /\ serial'[s] = m
        BY <2>1, <4>1
      <4>3. /\ \A t \in Slots : table[t].used /\ serial[t] = serial[s] => t = s
            /\ serial[s] \in 1..issued
        BY <1>1, <4>1 DEF SerialShape
      <4>4. \A t \in Slots : table'[t].used /\ serial'[t] = serial'[s] => t = s
        BY <2>1, <2>6, <4>1, <4>2, <4>3
      <4>5. Before(m) = EntryPhase(table[s], phase)
        BY <1>2, <4>1, HeldBefore
      <4>6. m \in 1..issued' /\ issued' \in Nat /\ table'[s].used
        BY <1>1, <2>1, <4>1, <4>2, <4>3
      <4>7. After(m) = EntryPhase(table'[s], phase')
        BY <1>2, <4>2, <4>4, <4>6, HeldAfter
      <4>8. QED BY <2>2, <4>2, <4>5, <4>7
    <3>4. CASE m <= issued /\ \A s \in Slots : ~(table[s].used /\ serial[s] = m)
      <4>1. \A s \in Slots : ~(table'[s].used /\ serial'[s] = m)
        BY <2>1, <2>6, <3>4
      <4>2. ~(m > issued) /\ ~(m > issued')
        BY <1>1, <2>1, <3>1, <3>4
      <4>3. Before(m) = "gone"
        BY <1>2, <3>4, <4>2 DEF Before, PhaseIn
      <4>4. After(m) = "gone"
        BY <1>2, <4>1, <4>2 DEF After, PhaseIn
      <4>5. QED BY <4>3, <4>4
    <3>5. QED BY <3>1, <3>2, <3>3, <3>4
  <2>7. \A m \in JobNumbers : m < n => Before(m) # "none"
    <3>1. ASSUME NEW m \in JobNumbers, m < n
          PROVE  Before(m) # "none"
      <4>1. ~(m > issued)
        BY <1>1, <3>1 DEF JobNumbers
      <4>2. QED BY <4>1, EntryPhases DEF Before, PhaseIn
    <3>2. QED BY <3>1
  <2> HIDE DEF n
  <2>8. QED BY <1>1, <1>2, <2>3, <2>4, <2>5, <2>6, <2>7, AcceptMaps
<1>6. QED BY <1>4, <1>5

\* The server ends, and with it what it knew of its jobs.
LEMMA ServerExitMaps ==
    ASSUME RefInv, ServerExit
    PROVE  Abstract!Next
<1>1. /\ pc = "leave" /\ pc' = "exited" /\ issued' = issued
  BY DEF ServerExit
<1>2. issued \in Nat /\ MaxJobs \in Nat
  BY RefFacts
<1>3. ASSUME NEW n \in JobNumbers
      PROVE  After(n) = IF Before(n) = "none" THEN "none" ELSE "gone"
  <2>1. CASE n > issued
    BY <1>1, <2>1 DEF Before, After, PhaseIn
  <2>2. CASE ~(n > issued)
    <3>1. Before(n) # "none"
      BY <2>2, EntryPhases DEF Before, PhaseIn
    <3>2. After(n) = "gone"
      BY <1>1, <2>2 DEF After, PhaseIn
    <3>3. QED BY <3>1, <3>2
  <2>3. QED BY <2>1, <2>2
<1>4. JobsAfter = [n \in JobNumbers |-> IF JobsBefore[n] = "none" THEN "none" ELSE "gone"]
  BY <1>3 DEF JobsAfter, JobsBefore
<1>5. Abstract!Halt
  BY <1>1, <1>4, Mapped DEF Abstract!Halt, Abstract!Jobs, JobNumbers
<1>6. QED BY <1>5 DEF Abstract!Next

\* A worker that ends is that of one job, or of none that was accepted.
LEMMA ExitMaps ==
    ASSUME RefInv, NEW p \in Pids, Exit(p)
    PROVE  Abstract!Next \/ UNCHANGED Abstract!vars
<1>1. /\ TypeInv /\ TypeOK /\ SlotShape /\ WorkerOwnership /\ SerialShape
      /\ issued \in Nat /\ MaxJobs \in Nat /\ issued <= MaxJobs
  BY RefFacts
<1>2. /\ UNCHANGED <<table, serial, issued, pc>> /\ Alive(p)
      /\ [Next]_vars
  BY DEF Exit, Next, Worker, tableVars, loopVars
<1>3. CASE pc = "exited"
  <2>1. \A n \in JobNumbers : After(n) = Before(n)
    BY <1>2, <1>3 DEF Before, After, PhaseIn
  <2>2. QED BY <1>2, <2>1, StutterMaps
<1>4. CASE pc # "exited"
  <2>1. ~Register /\ RunningHasChild
    BY <1>1, <1>2, <1>4 DEF Register, WorkerOwnership
  <2>2. PICK rc \in {"exit0", "exit1"} : phase' = [phase EXCEPT ![p] = rc]
    BY <1>4 DEF Exit
  <2>3. phase'[p] = rc /\ \A q \in Pids : q # p => phase'[q] = phase[q]
    BY <1>1, <2>2 DEF TypeOK
  <2>4. ASSUME NEW s \in Slots, table[s].used, ~(Running(s) /\ table[s].pid = p)
        PROVE  EntryPhase(table'[s], phase') = EntryPhase(table[s], phase)
    <3>1. table[s] \in Entry
      BY <1>1 DEF TypeOK
    <3>2. CASE table[s].state = "RUNNING"
      <4>1. table[s].pid \in Pids /\ table[s].pid # p
        BY <1>1, <2>4, <3>1, <3>2 DEF SlotShape, Running, Entry
      <4>2. phase'[table[s].pid] = phase[table[s].pid]
        BY <2>3, <4>1
      <4>3. QED BY <1>2, <4>2 DEF EntryPhase
    <3>3. CASE table[s].state # "RUNNING"
      <4>1. table[s].state \in {"DONE", "ERR"}
        BY <1>1, <2>4, <3>1, <3>3 DEF SlotShape, Entry, States
      <4>2. QED BY <1>2, <4>1, EntryPhases
    <3>4. QED BY <3>2, <3>3
  <2>5. CASE \A s \in Slots : ~(Running(s) /\ table[s].pid = p)
    <3>1. \A n \in JobNumbers : After(n) = Before(n)
      BY <1>2, <1>4, <2>1, <2>4, <2>5, Stutters
    <3>2. QED BY <1>2, <3>1, StutterMaps
  <2>6. CASE \E s \in Slots : Running(s) /\ table[s].pid = p
    <3>1. PICK s \in Slots : Running(s) /\ table[s].pid = p
      BY <2>6
    <3>2. \A t \in Slots : Running(t) /\ table[t].pid = p => t = s
      BY <2>1, <3>1 DEF RunningHasChild
    <3>3. /\ table[s].used /\ table[s].state = "RUNNING" /\ serial[s] \in 1..issued
          /\ \A t \in Slots : table[t].used /\ serial[t] = serial[s] => t = s
      BY <1>1, <3>1 DEF Running, SerialShape
    <3>4. PICK n \in JobNumbers : n = serial[s]
      BY <1>1, <3>3 DEF JobNumbers
    <3>5. Before(n) = "working"
      <4>1. EntryPhase(table[s], phase) = "working"
        BY <1>2, <3>1, <3>3 DEF EntryPhase, Alive
      <4>2. QED BY <1>4, <3>3, <3>4, <4>1, HeldBefore
    <3>6. After(n) \in {"ok", "fail"}
      <4>1. After(n) = EntryPhase(table[s], phase')
        <5>1. n \in 1..issued'
          BY <1>2, <3>3, <3>4
        <5>2. QED BY <1>1, <1>2, <1>4, <3>3, <3>4, <5>1, HeldAfter
      <4>2. EntryPhase(table[s], phase') \in {"ok", "fail"}
        BY <2>3, <3>1, <3>3, EntryPhases
      <4>3. QED BY <4>1, <4>2
    <3>7. ASSUME NEW m \in JobNumbers, m # n
          PROVE  After(m) = Before(m)
      <4>1. \A t \in Slots : table[t].used /\ serial[t] = m => t # s
        BY <3>4, <3>7
      <4>2. \A t \in Slots : table[t].used /\ serial[t] = m =>
                EntryPhase(table'[t], phase') = EntryPhase(table[t], phase)
        BY <2>4, <3>2, <4>1
      <4>3. QED BY <1>2, <1>4, <2>1, <4>2, JobMoves
    <3>8. QED BY <1>2, <3>5, <3>6, <3>7, FinishMaps
  <2>7. QED BY <2>5, <2>6
<1>5. QED BY <1>3, <1>4

\* The other steps: a fork for a job not accepted yet, an exec, requests that only read,
\* signals, the clock.
LEMMA OtherMaps ==
    ASSUME RefInv,
           \/ Submit \/ OtherRequest \/ ShutdownRequest \/ PassDone \/ OnSignal \/ Tick
           \/ SetClockBack \/ (\E p \in Pids : Exec(p)) \/ UNCHANGED vars
    PROVE  UNCHANGED Abstract!vars
<1>1. /\ TypeInv /\ TypeOK /\ SlotShape /\ WorkerOwnership
  BY RefFacts
<1>2. UNCHANGED <<table, serial, issued>> /\ [Next]_vars
  BY TableUnchanged DEF tableVars, Worker, Next, Server, Handler
<1>3. (pc' = "exited") = (pc = "exited")
  BY DEF Submit, SpawnSimple, SpawnMerge, OtherRequest, ShutdownRequest, PassDone, OnSignal,
         Tick, SetClockBack, Exec, vars, loopVars, Serving
<1>4. CASE pc = "exited"
  <2>1. \A n \in JobNumbers : After(n) = Before(n)
    BY <1>2, <1>3, <1>4 DEF Before, After, PhaseIn
  <2>2. QED BY <1>3, <2>1, StutterMaps
<1>5. CASE pc # "exited"
  <2>1. RunningHasChild
    BY <1>1, <1>5 DEF WorkerOwnership
  <2>2. \/ phase' = phase
        \/ \E p \in Pids : \/ phase[p] = "free" /\ \E ph : phase' = [phase EXCEPT ![p] = ph]
                           \/ phase[p] = "forked" /\ phase' = [phase EXCEPT ![p] = "running"]
    BY DEF Submit, SpawnSimple, SpawnMerge, OtherRequest, ShutdownRequest, PassDone, OnSignal,
           Tick, SetClockBack, Exec, vars, childVars
  <2>3. \A q \in Pids : \/ phase'[q] = phase[q]
                        \/ phase[q] = "free"
                        \/ phase[q] = "forked" /\ phase'[q] = "running"
    BY <1>1, <2>2 DEF TypeOK
  <2>4. ASSUME NEW s \in Slots, table[s].used
        PROVE  EntryPhase(table'[s], phase') = EntryPhase(table[s], phase)
    <3>1. table[s] \in Entry
      BY <1>1 DEF TypeOK
    <3>2. CASE table[s].state = "RUNNING"
      <4>1. table[s].pid \in Pids /\ phase[table[s].pid] # "free"
        BY <1>1, <2>1, <2>4, <3>1, <3>2 DEF SlotShape, Running, RunningHasChild, Entry
      <4>2. \/ phase'[table[s].pid] = phase[table[s].pid]
            \/ phase[table[s].pid] = "forked" /\ phase'[table[s].pid] = "running"
        BY <2>3, <4>1
      <4>3. QED BY <1>2, <4>2 DEF EntryPhase
    <3>3. CASE table[s].state # "RUNNING"
      <4>1. table[s].state \in {"DONE", "ERR"}
        BY <1>1, <2>4, <3>1, <3>3 DEF SlotShape, Entry, States
      <4>2. QED BY <1>2, <4>1, EntryPhases
    <3>4. QED BY <3>2, <3>3
  <2>5. ~Register
    <3>1. pc = "register" => pc' = pc
      BY DEF Submit, SpawnSimple, SpawnMerge, OtherRequest, ShutdownRequest, PassDone, OnSignal,
             Tick, SetClockBack, Exec, vars, loopVars, Serving
    <3>2. QED BY <3>1 DEF Register
  <2>6. QED BY <1>2, <1>3, <1>5, <2>4, <2>5, Stutters, StutterMaps
<1>6. QED BY <1>4, <1>5

-----------------------------------------------------------------------------
\* The job table, its workers and the sweep implement the service: a job that got a task
\* id is executed once, the outcome reported is its worker's, and it stays reported until
\* the job is forgotten, which only the retention or the end of the server brings about.
THEOREM Implementation == Spec => ImplementsJobService
<1>1. Init => Abstract!Init
  <2> SUFFICES ASSUME Init PROVE Abstract!Init
    OBVIOUS
  <2>1. issued = 0 /\ pc # "exited"
    BY DEF Init
  <2>2. \A n \in JobNumbers : n > issued
    BY <2>1, JobTableAssumptions DEF JobNumbers
  <2>3. \A n \in JobNumbers : Before(n) = "none"
    BY <2>2 DEF Before, PhaseIn
  <2>4. JobsBefore = [n \in JobNumbers |-> "none"]
    BY <2>3 DEF JobsBefore
  <2>5. QED BY <2>1, <2>4, Mapped DEF Abstract!Init, Abstract!Jobs, JobNumbers
<1>2. RefInv /\ [Next]_vars => [Abstract!Next]_(Abstract!vars)
  <2> SUFFICES ASSUME RefInv, [Next]_vars
               PROVE  Abstract!Next \/ UNCHANGED Abstract!vars
    OBVIOUS
  <2>1. CASE \E p \in Pids : Exit(p)
    BY <2>1, ExitMaps
  <2>2. CASE \/ Submit \/ OtherRequest \/ ShutdownRequest \/ PassDone \/ OnSignal \/ Tick
             \/ SetClockBack \/ (\E p \in Pids : Exec(p)) \/ UNCHANGED vars
    BY <2>2, OtherMaps
  <2>3. QED BY <2>1, <2>2, ReapMaps, SweepMaps, RegisterMaps, ServerExitMaps
            DEF Next, Server, Handler, Worker, Terminated
<1>3. QED BY <1>1, <1>2, RefInvariant, PTL DEF Spec, ImplementsJobService, Abstract!Spec
=============================================================================
