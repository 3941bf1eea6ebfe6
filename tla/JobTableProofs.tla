--------------------------- MODULE JobTableProofs ---------------------------
(***************************************************************************)
(* Proofs, for every value of the constants, of the safety properties of   *)
(* JobTable that its TLC runs check on a small instance.                   *)
(***************************************************************************)
EXTENDS JobTable, FiniteSetTheorems, WellFoundedInduction, TLAPS

\* The locals of a submit exist exactly while it is between fork and
\* jobs_submit, and only the simple operations have an argv.
PendingShape ==
    /\ pc = "register" =>
          /\ pending.op \in AllOps
          /\ pending.pid \in Pids
          /\ pending.op \in SimpleOps => pending.argv \in Argvs
          /\ pending.op \notin SimpleOps => pending.argv = NoArgv
          /\ ready > 0
    /\ pc # "register" => pending = NoPending

\* The inductive part of the type invariant.
TypeInv == TypeOK /\ PendingShape

-----------------------------------------------------------------------------
(* Facts about the operators of the model                                   *)

\* next_task_id stays a nonzero uint32_t: 0 is skipped when the counter wraps.
LEMMA NextIdRange ==
    ASSUME NEW id \in 1..(IdMod - 1)
    PROVE  NextId(id) \in 1..(IdMod - 1)
<1>1. id + 1 \in Nat /\ id + 1 <= IdMod /\ IdMod \in Nat /\ IdMod > 1
  BY JobTableAssumptions
<1>2. CASE id + 1 = IdMod
  <2>1. (id + 1) % IdMod = 0
    BY <1>1, <1>2
  <2>2. QED BY <1>1, <2>1 DEF NextId
<1>3. CASE id + 1 < IdMod
  <2>1. (id + 1) % IdMod = id + 1
    BY <1>1, <1>3
  <2>2. QED BY <1>1, <1>3, <2>1 DEF NextId
<1>4. QED BY <1>1, <1>2, <1>3

\* jobs_submit takes a slot that is free.
LEMMA FirstFreeIsFree ==
    ASSUME FreeSlots # {}
    PROVE  FirstFree \in Slots /\ ~table[FirstFree].used
<1> DEFINE Below == {ss \in Nat \X Nat : ss[1] < ss[2]}
<1>1. IsWellFoundedOn(Below, Nat)
  BY NatLessThanWellFounded DEF OpToRel
<1>2. FreeSlots \subseteq Nat
  BY JobTableAssumptions DEF FreeSlots, Slots
<1>3. PICK s \in FreeSlots : \A t \in FreeSlots : <<t, s>> \notin Below
  <2> HIDE DEF Below
  <2> QED BY <1>1, <1>2, WFMin
<1>4. ASSUME NEW t \in FreeSlots
      PROVE  s <= t
  <2>1. s \in Nat /\ t \in Nat /\ <<t, s>> \notin Below
    BY <1>2, <1>3
  <2>2. ~(t < s)
    BY <2>1
  <2>3. QED BY <2>1, <2>2
<1>5. FirstFree \in FreeSlots
  BY <1>4 DEF FirstFree
<1>6. QED BY <1>5 DEF FreeSlots

\* Sets of slots are finite, so their cardinalities are numbers.
LEMMA SlotSets ==
    ASSUME NEW S \in SUBSET Slots
    PROVE  IsFiniteSet(S) /\ Cardinality(S) \in Nat
<1>1. IsFiniteSet(Slots)
  BY FS_Interval, JobTableAssumptions DEF Slots
<1>2. IsFiniteSet(S)
  BY <1>1, FS_Subset
<1>3. QED BY <1>2, FS_CardinalityType

\* A reaped entry is an entry.
LEMMA ReapedEntryType ==
    ASSUME TypeOK, NEW s \in Slots
    PROVE  ReapedEntry(s) \in Entry
<1>1. table[s] \in Entry /\ now \in Nat
  BY DEF TypeOK
<1>2. QED BY <1>1 DEF ReapedEntry, Entry, States

LEMMA EmptyEntryType == EmptyEntry \in Entry
BY DEF EmptyEntry, Entry, States

-----------------------------------------------------------------------------
(* Type correctness                                                         *)

\* The initial state of jobs_init is well typed.
LEMMA TypeInit == Init => TypeInv
<1> SUFFICES ASSUME Init PROVE TypeInv
  OBVIOUS
<1>1. EmptyEntry \in Entry
  BY EmptyEntryType
<1>2. 1 \in 1..(IdMod - 1) /\ 0 \in -1..MaxReady
  BY JobTableAssumptions
<1>3. TypeOK
  <2>1. table \in [Slots -> Entry] /\ serial \in [Slots -> Nat]
    BY <1>1 DEF Init
  <2>2. pending \in [op : AllOps \cup {"NONE"}, pid : Pids \cup {NoPid},
                     argv : Argvs \cup {NoArgv}]
    BY DEF Init, NoPending
  <2>3. g_stop \in BOOLEAN
    BY DEF Init
  <2>4. phase \in [Pids -> {"free", "forked", "running", "exit0", "exit1"}]
    BY DEF Init
  <2>5. QED BY <1>2, <2>1, <2>2, <2>3, <2>4 DEF Init, TypeOK
<1>4. PendingShape
  BY DEF Init, PendingShape
<1>5. QED BY <1>3, <1>4 DEF TypeInv

\* A request that is not a submit leaves the heap as it was, the one whose fork fails too.
LEMMA OtherKeepsHeap == OtherRequest => heap' = heap
BY DEF OtherRequest, ForkFails

\* No step of the server, a worker or the environment leaves the types.
LEMMA TypeStep == TypeInv /\ [Next]_vars => TypeInv'
<1> SUFFICES ASSUME TypeOK, PendingShape, [Next]_vars
             PROVE  TypeOK' /\ PendingShape'
  BY DEF TypeInv
<1> USE JobTableAssumptions
<1>1. CASE Reap
  <2>1. table' \in [Slots -> Entry]
    BY <1>1, ReapedEntryType DEF Reap
  <2>2. counter_done' \in Nat /\ counter_failed' \in Nat
    <3>1. Cardinality({s \in Slots : Collected(s) /\ Succeeded(s)}) \in Nat
      BY SlotSets
    <3>2. Cardinality({s \in Slots : Collected(s) /\ ~Succeeded(s)}) \in Nat
      BY SlotSets
    <3>3. QED BY <1>1, <3>1, <3>2 DEF Reap, TypeOK
  <2>3. phase' \in [Pids -> {"free", "forked", "running", "exit0", "exit1"}]
    BY <1>1 DEF Reap, TypeOK
  <2>4. heap' \subseteq Argvs
    BY <1>1 DEF Reap, TypeOK
  <2>5. QED BY <1>1, <2>1, <2>2, <2>3, <2>4 DEF Reap, TypeOK, PendingShape, clockVars
<1>2. CASE Sweep
  <2>1. table' \in [Slots -> Entry]
    BY <1>2, EmptyEntryType DEF Sweep, TypeOK
  <2>2. serial' \in [Slots -> Nat]
    BY <1>2 DEF Sweep, TypeOK
  <2>3. last_cleanup' \in Nat \ {0}
    BY <1>2 DEF Sweep, TypeOK
  <2>4. QED BY <1>2, <2>1, <2>2, <2>3 DEF Sweep, TypeOK, PendingShape, childVars
<1>3. CASE Submit
  <2>1. ASSUME NEW op \in Ops \cap SimpleOps, NEW p \in Pids, NEW a \in Argvs,
               SpawnSimple(op, p, a)
        PROVE  TypeOK' /\ PendingShape'
    BY <2>1 DEF SpawnSimple, Serving, TypeOK, PendingShape, AllOps, tableVars, clockVars
  <2>2. ASSUME NEW p \in Pids, SpawnMerge(p)
        PROVE  TypeOK' /\ PendingShape'
    BY <2>2 DEF SpawnMerge, Serving, TypeOK, PendingShape, AllOps, SimpleOps,
                tableVars, clockVars
  <2>3. QED BY <1>3, <2>1, <2>2 DEF Submit
<1>4. CASE OtherRequest \/ ShutdownRequest
  <2>0. g_stop' \in BOOLEAN
    BY <1>4 DEF OtherRequest, ShutdownRequest, TypeOK
  <2>1. ready' \in -1..MaxReady /\ pc' = pc /\ pc = "serve"
    BY <1>4 DEF OtherRequest, ShutdownRequest, Serving, TypeOK
  <2>2. UNCHANGED <<tableVars, childVars, heap, pending, clockVars>>
    BY <1>4, OtherKeepsHeap DEF OtherRequest, ShutdownRequest
  <2>3. QED BY <2>0, <2>1, <2>2 DEF TypeOK, PendingShape, tableVars, childVars, clockVars
<1>5. CASE Register
  <2>1. /\ table' \in [Slots -> Entry] /\ serial' \in [Slots -> Nat]
        /\ next_task_id' \in 1..(IdMod - 1) /\ issued' \in Nat
        /\ counter_done' \in Nat /\ counter_failed' \in Nat
    <3>1. CASE FreeSlots = {}
      BY <1>5, <3>1 DEF Register, JobsSubmit, tableVars, TypeOK
    <3>2. CASE FreeSlots # {}
      <4>1. FirstFree \in Slots
        BY <3>2, FirstFreeIsFree
      <4>2. NextId(next_task_id) \in 1..(IdMod - 1)
        BY NextIdRange DEF TypeOK
      <4> DEFINE new == [used |-> TRUE, task_id |-> next_task_id, op_id |-> pending.op,
                         state |-> "RUNNING", pid |-> pending.pid,
                         argv |-> pending.argv, finished_at |-> 0]
      <4>3. new \in Entry
        BY <1>5 DEF Register, PendingShape, TypeOK, Entry, States
      <4>4. table' = [table EXCEPT ![FirstFree] = new]
        BY <1>5, <3>2 DEF Register, JobsSubmit
      <4>5. table' \in [Slots -> Entry]
        BY <4>1, <4>3, <4>4 DEF TypeOK
      <4>6. QED BY <1>5, <3>2, <4>2, <4>5 DEF Register, JobsSubmit, TypeOK
    <3>3. QED BY <3>1, <3>2
  <2>2. /\ phase' \in [Pids -> {"free", "forked", "running", "exit0", "exit1"}]
        /\ heap' \subseteq Argvs /\ refused' \subseteq Pids
    BY <1>5 DEF Register, Refuse, AfterKill, childVars, TypeOK, PendingShape
  <2>3. QED BY <1>5, <2>1, <2>2 DEF Register, TypeOK, PendingShape, NoPending, clockVars
<1>6. CASE PassDone
  BY <1>6 DEF PassDone, TypeOK, PendingShape, tableVars, childVars, clockVars
<1>7. CASE ServerExit
  <2>1. table' \in [Slots -> Entry]
    <3>1. ASSUME NEW s \in Slots
          PROVE  [table[s] EXCEPT !.argv = NoArgv] \in Entry
      <4>1. table[s] \in Entry
        BY DEF TypeOK
      <4>2. QED BY <4>1 DEF Entry
    <3>2. QED BY <1>7, <3>1 DEF ServerExit
  <2>2. QED BY <1>7, <2>1 DEF ServerExit, TypeOK, PendingShape, clockVars
<1>8. ASSUME NEW p \in Pids, Worker(p)
      PROVE  TypeOK' /\ PendingShape'
  BY <1>8 DEF Worker, Exec, Exit, Alive, TypeOK, PendingShape, tableVars,
              clockVars, loopVars
<1>9. CASE OnSignal \/ Tick \/ SetClockBack
  <2>0. g_stop' \in BOOLEAN
    BY <1>9 DEF OnSignal, Tick, SetClockBack, TypeOK, loopVars
  <2>1. now' \in Nat \ {0}
    BY <1>9 DEF OnSignal, Tick, SetClockBack, TypeOK, clockVars
  <2>2. UNCHANGED <<tableVars, childVars, heap, pending, last_cleanup, ready, pc>>
    BY <1>9 DEF OnSignal, Tick, SetClockBack, clockVars, loopVars
  <2>3. ahead' \subseteq Slots
    BY <1>9 DEF OnSignal, Tick, SetClockBack, TypeOK, clockVars
  <2>4. QED BY <2>0, <2>1, <2>2, <2>3 DEF TypeOK, PendingShape, tableVars, childVars
<1>10. CASE UNCHANGED vars
  BY <1>10 DEF vars, TypeOK, PendingShape, tableVars, childVars, clockVars, loopVars
<1>11. QED BY <1>1, <1>2, <1>3, <1>4, <1>5, <1>6, <1>7, <1>8, <1>9, <1>10
           DEF Next, Server, Handler, Terminated

\* The variables of the server keep their types in every reachable state, and
\* task id 0, which a client takes for a refusal, is never given to a job.
THEOREM TypeCorrect == Spec => []TypeOK
<1>1. TypeInv => TypeOK
  BY DEF TypeInv
<1>2. QED BY <1>1, TypeInit, TypeStep, PTL DEF Spec

-----------------------------------------------------------------------------
(* The shape of the slots                                                   *)

SlotInv == TypeInv /\ SlotShape

\* What a pass of jobs_reap_running leaves in a slot.
LEMMA ReapedSlot ==
    ASSUME TypeOK, Reap, NEW s \in Slots
    PROVE  /\ ~Collected(s) => table'[s] = table[s]
           /\ Collected(s) => /\ table'[s].used = table[s].used
                              /\ table'[s].state \in {"DONE", "ERR"}
                              /\ table'[s].pid = NoPid
                              /\ table'[s].argv = NoArgv
                              /\ table'[s].finished_at = now
<1>1. table'[s] = ReapedEntry(s) /\ table[s] \in Entry
  BY DEF Reap, TypeOK
<1>2. QED BY <1>1 DEF ReapedEntry, Entry

\* What run_cleanup_sweep leaves in a slot.
LEMMA SweptSlot ==
    ASSUME TypeOK, Sweep, NEW s \in Slots
    PROVE  \/ table'[s] = table[s]
           \/ Evictable(s) /\ table'[s] = EmptyEntry
BY DEF Sweep, TypeOK

\* What jobs_submit leaves in a slot.
LEMMA RegisteredSlot ==
    ASSUME TypeOK, Register, NEW s \in Slots
    PROVE  /\ FreeSlots = {} \/ s # FirstFree => table'[s] = table[s]
           /\ FreeSlots # {} /\ s = FirstFree =>
                 table'[s] = [used |-> TRUE, task_id |-> next_task_id,
                              op_id |-> pending.op, state |-> "RUNNING",
                              pid |-> pending.pid, argv |-> pending.argv,
                              finished_at |-> 0]
BY DEF Register, JobsSubmit, TypeOK, tableVars

\* What jobs_destroy leaves in a slot.
LEMMA DestroyedSlot ==
    ASSUME TypeOK, ServerExit, NEW s \in Slots
    PROVE  table'[s] = [table[s] EXCEPT !.argv = NoArgv]
BY DEF ServerExit, TypeOK

\* The steps that do not touch the table.
LEMMA TableUnchanged ==
    ASSUME \/ Submit \/ OtherRequest \/ ShutdownRequest \/ PassDone \/ OnSignal \/ Tick
           \/ SetClockBack \/ (\E p \in Pids : Worker(p)) \/ UNCHANGED vars
    PROVE  UNCHANGED tableVars
<1>1. CASE Submit
  BY <1>1 DEF Submit, SpawnSimple, SpawnMerge
<1>2. CASE OtherRequest \/ ShutdownRequest \/ PassDone
  BY <1>2 DEF OtherRequest, ShutdownRequest, PassDone
<1>3. CASE OnSignal \/ Tick \/ SetClockBack
  BY <1>3 DEF OnSignal, Tick, SetClockBack
<1>4. CASE (\E p \in Pids : Worker(p)) \/ UNCHANGED vars
  BY <1>4 DEF Worker, Exec, Exit, vars
<1>5. QED BY <1>1, <1>2, <1>3, <1>4

\* A slot is RUNNING exactly while it has a process, free slots are empty, and
\* only finished jobs have a finish time.
LEMMA SlotStep ==
    ASSUME TypeInv, SlotShape, [Next]_vars
    PROVE  SlotShape'
<1> USE JobTableAssumptions DEF TypeInv
<1>1. CASE Reap
  <2>1. ASSUME NEW s \in Slots
        PROVE  /\ table'[s].used <=> table'[s].state # "QUEUED"
               /\ table'[s].state = "RUNNING" <=> table'[s].pid # NoPid
               /\ table'[s].state \in {"DONE", "ERR"} <=> table'[s].finished_at # 0
    <3>1. CASE Collected(s)
      BY <1>1, <3>1, ReapedSlot DEF Collected, Running, TypeOK
    <3>2. CASE ~Collected(s)
      BY <1>1, <3>2, ReapedSlot DEF SlotShape
    <3>3. QED BY <3>1, <3>2
  <2>2. QED BY <2>1 DEF SlotShape
<1>2. CASE Sweep
  <2>1. ASSUME NEW s \in Slots, table'[s] = EmptyEntry
        PROVE  /\ ~table'[s].used
               /\ table'[s].state = "QUEUED"
               /\ table'[s].pid = NoPid
               /\ table'[s].finished_at = 0
    BY <2>1 DEF EmptyEntry
  <2>2. QED BY <1>2, <2>1, SweptSlot DEF SlotShape
<1>3. CASE Register
  <2>1. pending.pid # NoPid
    BY <1>3 DEF Register, PendingShape
  <2>2. QED BY <1>3, <2>1, RegisteredSlot DEF SlotShape
<1>4. CASE ServerExit
  <2>1. ASSUME NEW s \in Slots
        PROVE  /\ table'[s].used = table[s].used
               /\ table'[s].state = table[s].state
               /\ table'[s].pid = table[s].pid
               /\ table'[s].finished_at = table[s].finished_at
    <3>1. table[s] \in Entry
      BY DEF TypeOK
    <3>2. table'[s] = [table[s] EXCEPT !.argv = NoArgv]
      BY <1>4, DestroyedSlot
    <3>3. QED BY <3>1, <3>2 DEF Entry
  <2>2. QED BY <2>1 DEF SlotShape
<1>5. CASE UNCHANGED tableVars
  BY <1>5 DEF SlotShape, tableVars
<1>6. QED BY <1>1, <1>2, <1>3, <1>4, <1>5, TableUnchanged
          DEF Next, Server, Handler, Terminated

-----------------------------------------------------------------------------
(* Every child has one owner                                                *)

WorkerInv == SlotInv /\ WorkerOwnership

\* The running slots before and after each step of the server that writes the
\* table.
LEMMA RunningAfterReap ==
    ASSUME SlotInv, Reap, NEW s \in Slots
    PROVE  /\ Running(s)' <=> Running(s) /\ ~Collected(s)
           /\ Running(s)' => table'[s] = table[s]
BY ReapedSlot DEF SlotInv, TypeInv, Running, Collected

LEMMA RunningAfterSweep ==
    ASSUME SlotInv, Sweep, NEW s \in Slots
    PROVE  /\ Running(s)' <=> Running(s)
           /\ Running(s) => table'[s] = table[s]
<1>1. CASE table'[s] = table[s]
  BY <1>1 DEF Running
<1>2. CASE Evictable(s) /\ table'[s] = EmptyEntry
  BY <1>2 DEF Running, Evictable, EmptyEntry
<1>3. QED BY <1>1, <1>2, SweptSlot DEF SlotInv, TypeInv

LEMMA RunningAfterRegister ==
    ASSUME SlotInv, Register, NEW s \in Slots
    PROVE  /\ FreeSlots = {} \/ s # FirstFree => table'[s] = table[s]
           /\ FreeSlots # {} /\ s = FirstFree => /\ ~Running(s)
                                                 /\ Running(s)'
                                                 /\ table'[s].pid = pending.pid
                                                 /\ table'[s].argv = pending.argv
<1>1. pending.pid # NoPid
  BY JobTableAssumptions DEF Register, SlotInv, TypeInv, PendingShape
<1>2. ASSUME FreeSlots # {}, s = FirstFree
      PROVE  ~Running(s) /\ Running(s)' /\ table'[s].pid = pending.pid
             /\ table'[s].argv = pending.argv
  <2>1. ~table[s].used
    BY <1>2, FirstFreeIsFree
  <2>2. QED BY <1>1, <1>2, <2>1, RegisteredSlot DEF SlotInv, TypeInv, Running
<1>3. QED BY <1>2, RegisteredSlot DEF SlotInv, TypeInv

\* jobs_submit returns 0 only when the table is full: no task id is 0.
LEMMA RefusedOnlyWhenFull ==
    ASSUME TypeOK
    PROVE  SubmitResult = 0 <=> FreeSlots = {}
BY JobTableAssumptions DEF SubmitResult, TypeOK

LEMMA WorkerStep ==
    ASSUME WorkerInv, [Next]_vars
    PROVE  WorkerOwnership'
<1> USE JobTableAssumptions
<1> DEFINE Goal == RunningHasChild /\ PendingHasChild /\ EveryChildOwned
                   /\ RefusedNotCollected
<1>1. SlotInv /\ TypeOK /\ PendingShape
  BY DEF WorkerInv, SlotInv, TypeInv
<1>2. pc # "exited" => Goal
  BY DEF WorkerInv, WorkerOwnership
<1>3. CASE Reap
  <2>1. Goal /\ pc = "poll" /\ pc' = "sweep" /\ refused' = refused
    BY <1>2, <1>3 DEF Reap
  <2>2. ASSUME NEW p \in Pids
        PROVE  phase'[p] = IF \E s \in Slots : Collected(s) /\ table[s].pid = p
                           THEN "free" ELSE phase[p]
    BY <1>3 DEF Reap
  <2>3. RunningHasChild'
    <3>1. ASSUME NEW s \in Slots, Running(s)'
          PROVE  phase'[table'[s].pid] # "free"
      <4>1. Running(s) /\ ~Collected(s) /\ table'[s] = table[s]
        BY <1>1, <1>3, <3>1, RunningAfterReap
      <4>2. ~\E t \in Slots : Collected(t) /\ table[t].pid = table[s].pid
        BY <2>1, <4>1 DEF RunningHasChild, Collected
      <4>3. table[s].pid \in Pids
        BY <1>1, <4>1 DEF TypeOK, Entry, Running
      <4>4. QED BY <2>1, <2>2, <4>1, <4>2, <4>3 DEF RunningHasChild
    <3>2. QED BY <1>1, <1>3, <2>1, <3>1, RunningAfterReap DEF RunningHasChild
  <2>4. EveryChildOwned'
    <3>1. ASSUME NEW p \in Pids, phase'[p] # "free", p \notin refused'
          PROVE  \E s \in Slots : Running(s)' /\ table'[s].pid = p
      <4>1. phase[p] # "free" /\ ~\E s \in Slots : Collected(s) /\ table[s].pid = p
        BY <2>2, <3>1
      <4>2. PICK s \in Slots : Running(s) /\ table[s].pid = p
        BY <2>1, <3>1, <4>1 DEF EveryChildOwned
      <4>3. QED BY <1>1, <1>3, <4>1, <4>2, RunningAfterReap, ReapedSlot
    <3>2. QED BY <3>1 DEF EveryChildOwned
  <2>5. RefusedNotCollected'
    <3>1. ASSUME NEW p \in refused
          PROVE  phase'[p] # "free"
      <4>1. p \in Pids
        BY <1>1 DEF TypeOK
      <4>2. ~\E s \in Slots : Collected(s) /\ table[s].pid = p
        BY <2>1 DEF RunningHasChild, Collected
      <4>3. QED BY <2>1, <2>2, <4>1, <4>2 DEF RefusedNotCollected
    <3>2. QED BY <2>1, <3>1 DEF RefusedNotCollected
  <2>6. PendingHasChild'
    BY <2>1 DEF PendingHasChild
  <2>7. QED BY <2>3, <2>4, <2>5, <2>6 DEF WorkerOwnership
<1>4. CASE Sweep
  <2>1. Goal /\ pc = "sweep" /\ pc' = "serve" /\ UNCHANGED <<phase, refused>>
    BY <1>2, <1>4 DEF Sweep, childVars
  <2>2. \A s \in Slots : /\ Running(s)' <=> Running(s)
                         /\ Running(s) => table'[s] = table[s]
    BY <1>1, <1>4, RunningAfterSweep
  <2>3. QED BY <2>1, <2>2 DEF WorkerOwnership, RunningHasChild, PendingHasChild,
                              EveryChildOwned, RefusedNotCollected
<1>5. CASE Submit
  <2>1. PICK p \in Pids : /\ phase[p] = "free"
                          /\ \E ph \in {"forked", "running"} : phase' = [phase EXCEPT ![p] = ph]
                          /\ pending'.pid = p
                          /\ pc = "serve" /\ pc' = "register"
                          /\ UNCHANGED <<table, refused>>
    BY <1>5 DEF Submit, SpawnSimple, SpawnMerge, Serving, tableVars
  <2>2. Goal
    BY <1>2, <2>1
  <2>3. \A s \in Slots : Running(s)' <=> Running(s)
    BY <2>1 DEF Running
  <2>4. p \notin refused
    BY <2>1, <2>2 DEF RefusedNotCollected
  <2>5. \A s \in Slots : Running(s) => table[s].pid # p
    BY <2>1, <2>2 DEF RunningHasChild
  <2>6. \A q \in Pids : phase'[q] # "free" <=> q = p \/ phase[q] # "free"
    BY <1>1, <2>1 DEF TypeOK
  <2>7. \A s \in Slots : Running(s) => table[s].pid \in Pids
    BY <1>1 DEF TypeOK, Entry, Running
  <2>8. RunningHasChild'
    BY <2>1, <2>2, <2>3, <2>5, <2>6, <2>7 DEF RunningHasChild
  <2>9. EveryChildOwned' /\ PendingHasChild'
    BY <2>1, <2>2, <2>3, <2>4, <2>6 DEF EveryChildOwned, PendingHasChild
  <2>10. RefusedNotCollected'
    BY <1>1, <2>1, <2>2, <2>6 DEF RefusedNotCollected, TypeOK
  <2>11. QED BY <2>8, <2>9, <2>10 DEF WorkerOwnership
<1>6. CASE Register
  <2>1. Goal /\ pc = "register" /\ pc' = "serve" /\ pending.pid \in Pids
    BY <1>1, <1>2, <1>6 DEF Register, PendingShape
  <2>2. CASE FreeSlots = {}
    <3>1. /\ table' = table /\ refused' = refused \cup {pending.pid}
          /\ \A q \in Pids : phase'[q] # "free" <=> phase[q] # "free"
      <4>1. UNCHANGED tableVars /\ Refuse
        BY <1>1, <1>6, <2>2, RefusedOnlyWhenFull DEF Register, JobsSubmit
      <4>2. phase[pending.pid] # "free"
        BY <2>1 DEF PendingHasChild
      <4>3. QED BY <1>1, <2>1, <4>1, <4>2 DEF Refuse, AfterKill, tableVars, TypeOK
    <3>2. \A s \in Slots : Running(s)' <=> Running(s)
      BY <3>1 DEF Running
    <3>3. \A s \in Slots : Running(s) => table[s].pid \in Pids
      BY <1>1 DEF TypeOK, Entry, Running
    <3>4. RunningHasChild'
      BY <2>1, <3>1, <3>2, <3>3 DEF RunningHasChild
    <3>5. EveryChildOwned'
      BY <2>1, <3>1, <3>2 DEF EveryChildOwned
    <3>6. RefusedNotCollected'
      BY <1>1, <2>1, <3>1 DEF RefusedNotCollected, PendingHasChild, TypeOK
    <3>7. QED BY <2>1, <3>4, <3>5, <3>6 DEF WorkerOwnership, PendingHasChild
  <2>3. CASE FreeSlots # {}
    <3>1. UNCHANGED <<phase, refused>>
      BY <1>1, <1>6, <2>3, RefusedOnlyWhenFull DEF Register, childVars
    <3>2. PICK new \in Slots : new = FirstFree
      BY <2>3, FirstFreeIsFree
    <3>3. ~Running(new) /\ Running(new)' /\ table'[new].pid = pending.pid
      BY <1>1, <1>6, <2>3, <3>2, RunningAfterRegister
    <3>4. ASSUME NEW s \in Slots, s # new
          PROVE  table'[s] = table[s] /\ (Running(s)' <=> Running(s))
      <4>1. table'[s] = table[s]
        BY <1>1, <1>6, <3>2, <3>4, RunningAfterRegister
      <4>2. QED BY <4>1 DEF Running
    <3>5. RunningHasChild'
      BY <2>1, <3>1, <3>2, <3>3, <3>4 DEF RunningHasChild, PendingHasChild
    <3>6. EveryChildOwned'
      <4>1. ASSUME NEW p \in Pids, phase[p] # "free", p \notin refused
            PROVE  \E s \in Slots : Running(s)' /\ table'[s].pid = p
        <5>1. CASE pending.pid = p
          BY <3>2, <3>3, <5>1
        <5>2. CASE pending.pid # p
          <6>1. PICK s \in Slots : Running(s) /\ table[s].pid = p
            BY <2>1, <4>1, <5>2 DEF EveryChildOwned
          <6>2. s # new
            BY <3>3, <6>1
          <6>3. QED BY <3>4, <6>1, <6>2
        <5>3. QED BY <5>1, <5>2
      <4>2. QED BY <3>1, <4>1 DEF EveryChildOwned
    <3>7. QED BY <2>1, <3>1, <3>5, <3>6 DEF WorkerOwnership, PendingHasChild,
                                            RefusedNotCollected
  <2>4. QED BY <2>2, <2>3
<1>7. CASE ServerExit
  BY <1>7 DEF ServerExit, WorkerOwnership
<1>8. ASSUME NEW p \in Pids, Worker(p), pc # "exited"
      PROVE  WorkerOwnership'
  <2>1. /\ \A q \in Pids : phase'[q] # "free" <=> phase[q] # "free"
        /\ UNCHANGED <<table, refused, pending, pc>>
    BY <1>1, <1>8 DEF Worker, Exec, Exit, Alive, TypeOK, tableVars, loopVars
  <2>2. Goal
    BY <1>2, <1>8
  <2>3. \A s \in Slots : /\ Running(s)' <=> Running(s)
                         /\ Running(s) => table[s].pid \in Pids
    BY <1>1, <2>1 DEF TypeOK, Entry, Running
  <2>4. RunningHasChild' /\ EveryChildOwned'
    BY <2>1, <2>2, <2>3 DEF RunningHasChild, EveryChildOwned
  <2>5. PendingHasChild' /\ RefusedNotCollected'
    BY <1>1, <2>1, <2>2 DEF PendingHasChild, RefusedNotCollected, TypeOK
  <2>6. QED BY <2>4, <2>5 DEF WorkerOwnership
<1>9. ASSUME NEW p \in Pids, Worker(p), pc = "exited"
      PROVE  WorkerOwnership'
  BY <1>9 DEF Worker, Exec, Exit, loopVars, WorkerOwnership
<1>10. CASE \/ OtherRequest \/ ShutdownRequest \/ PassDone \/ OnSignal \/ Tick
            \/ SetClockBack \/ UNCHANGED vars
  <2>1. UNCHANGED <<table, phase, refused, pending>>
    BY <1>10 DEF OtherRequest, ShutdownRequest, PassDone, OnSignal, Tick, SetClockBack,
                 vars, tableVars, childVars
  <2>2. \/ pc' = pc
        \/ pc # "exited" /\ pc # "register" /\ pc' # "register"
    BY <1>10 DEF OtherRequest, ShutdownRequest, PassDone, OnSignal, Tick, SetClockBack,
                 vars, loopVars
  <2>3. \A s \in Slots : Running(s)' <=> Running(s)
    BY <2>1 DEF Running
  <2>4. QED BY <1>2, <2>1, <2>2, <2>3 DEF WorkerOwnership, RunningHasChild,
                 PendingHasChild, EveryChildOwned, RefusedNotCollected
<1>11. QED BY <1>3, <1>4, <1>5, <1>6, <1>7, <1>8, <1>9, <1>10
           DEF Next, Server, Handler, Terminated

LEMMA WorkerInit == Init => SlotShape /\ WorkerOwnership
<1> SUFFICES ASSUME Init PROVE SlotShape /\ WorkerOwnership
  OBVIOUS
<1>1. \A s \in Slots : table[s] = EmptyEntry
  BY DEF Init
<1>2. \A s \in Slots : ~Running(s)
  BY <1>1 DEF Running, EmptyEntry
<1>3. SlotShape
  BY <1>1 DEF SlotShape, EmptyEntry
<1>4. WorkerOwnership
  BY <1>2 DEF Init, WorkerOwnership, RunningHasChild, PendingHasChild, EveryChildOwned,
              RefusedNotCollected
<1>5. QED BY <1>3, <1>4

\* WorkerInv is inductive.
LEMMA WorkerInvariant == Spec => []WorkerInv
<1>1. Init => WorkerInv
  BY TypeInit, WorkerInit DEF WorkerInv, SlotInv
<1>2. WorkerInv /\ [Next]_vars => WorkerInv'
  BY TypeStep, SlotStep, WorkerStep DEF WorkerInv, SlotInv
<1>3. QED BY <1>1, <1>2, PTL DEF Spec

\* While the server lives every worker process has exactly one owner: a RUNNING
\* slot, the submit in progress, or nobody because its job was refused.
THEOREM WorkersAreOwned == Spec => []WorkerOwnership
BY WorkerInvariant, PTL DEF WorkerInv

-----------------------------------------------------------------------------
(* Every argv has one owner                                                 *)

ArgvInv == WorkerInv /\ ArgvOwnership

LEMMA ArgvStep ==
    ASSUME ArgvInv, [Next]_vars
    PROVE  ArgvOwnership'
<1> USE JobTableAssumptions
<1>1. /\ SlotInv /\ TypeOK /\ PendingShape /\ SlotShape
      /\ SlotOwnsArgv /\ SubmitOwnsArgv /\ EveryArgvOwned
  BY DEF ArgvInv, WorkerInv, SlotInv, TypeInv, ArgvOwnership
<1>2. NoArgv \notin heap
  BY <1>1 DEF TypeOK
<1>3. pc # "register" => pending.argv = NoArgv
  BY <1>1 DEF PendingShape, NoPending
<1>4. CASE Reap
  <2>1. /\ pc = "poll" /\ pc' = "sweep" /\ pending' = pending /\ pending.argv = NoArgv
        /\ heap' = heap \ {table[s].argv : s \in {t \in Slots : Collected(t)}}
    BY <1>3, <1>4 DEF Reap
  <2>2. ASSUME NEW s \in Slots, table'[s].argv # NoArgv
        PROVE  ~Collected(s) /\ table'[s] = table[s]
    BY <1>1, <1>4, <2>2, ReapedSlot
  <2>3. ASSUME NEW s \in Slots, table'[s].argv # NoArgv
        PROVE  Running(s)' /\ table'[s].argv \in heap'
    <3>1. ~Collected(s) /\ table'[s] = table[s] /\ Running(s) /\ table[s].argv \in heap
      BY <1>1, <2>2, <2>3 DEF SlotOwnsArgv
    <3>2. \A t \in Slots : Collected(t) => table[t].argv # table[s].argv
      BY <1>1, <2>3, <3>1 DEF SlotOwnsArgv
    <3>3. QED BY <1>1, <1>4, <2>1, <3>1, <3>2, RunningAfterReap
  <2>4. SlotOwnsArgv'
    BY <1>1, <2>1, <2>2, <2>3 DEF SlotOwnsArgv
  <2>5. EveryArgvOwned'
    <3>1. ASSUME NEW a \in heap'
          PROVE  \E s \in Slots : table'[s].argv = a
      <4>1. PICK s \in Slots : table[s].argv = a
        BY <1>1, <1>2, <2>1, <3>1 DEF EveryArgvOwned
      <4>2. ~Collected(s)
        BY <2>1, <3>1, <4>1
      <4>3. QED BY <1>1, <1>4, <4>1, <4>2, ReapedSlot
    <3>2. QED BY <3>1 DEF EveryArgvOwned
  <2>6. QED BY <2>1, <2>4, <2>5 DEF ArgvOwnership, SubmitOwnsArgv
<1>5. CASE Sweep
  <2>1. pc = "sweep" /\ pc' = "serve" /\ UNCHANGED <<heap, pending>>
    BY <1>5 DEF Sweep
  <2>2. ASSUME NEW s \in Slots
        PROVE  table'[s].argv = table[s].argv
    <3>1. CASE Evictable(s) /\ table'[s] = EmptyEntry
      <4>1. table[s].argv = NoArgv
        BY <1>1, <3>1 DEF SlotOwnsArgv, Evictable, Running
      <4>2. QED BY <3>1, <4>1 DEF EmptyEntry
    <3>2. QED BY <1>1, <1>5, <3>1, SweptSlot
  <2>3. \A s \in Slots : Running(s)' <=> Running(s)
    BY <1>1, <1>5, RunningAfterSweep
  <2>4. QED BY <1>1, <2>1, <2>2, <2>3
            DEF ArgvOwnership, SlotOwnsArgv, SubmitOwnsArgv, EveryArgvOwned
<1>6. CASE Submit
  <2>1. /\ pc = "serve" /\ pc' = "register" /\ table' = table /\ pending.argv = NoArgv
        /\ \/ pending'.argv = NoArgv /\ heap' = heap
           \/ /\ pending'.argv \notin heap
              /\ heap' = heap \cup {pending'.argv}
    BY <1>3, <1>6 DEF Submit, SpawnSimple, SpawnMerge, Serving, tableVars
  <2>2. \A s \in Slots : Running(s)' <=> Running(s)
    BY <2>1 DEF Running
  <2>3. SlotOwnsArgv'
    BY <1>1, <1>2, <2>1, <2>2 DEF SlotOwnsArgv
  <2>4. SubmitOwnsArgv' /\ EveryArgvOwned'
    BY <1>1, <1>2, <2>1 DEF SubmitOwnsArgv, EveryArgvOwned
  <2>5. QED BY <2>3, <2>4 DEF ArgvOwnership
<1>7. CASE Register
  <2>1. /\ pc = "register" /\ pc' = "serve" /\ pending'.argv = NoArgv
        /\ pending.op \notin SimpleOps => pending.argv = NoArgv
    BY <1>1, <1>7 DEF Register, PendingShape, NoPending
  <2>2. CASE FreeSlots = {}
    <3>1. table' = table /\ heap' = heap \ {pending.argv}
      <4>1. UNCHANGED tableVars /\ Refuse
        BY <1>1, <1>7, <2>2, RefusedOnlyWhenFull DEF Register, JobsSubmit
      <4>2. QED BY <1>2, <2>1, <4>1 DEF Refuse, tableVars
    <3>2. \A s \in Slots : Running(s)' <=> Running(s)
      BY <3>1 DEF Running
    <3>3. SlotOwnsArgv' /\ SubmitOwnsArgv' /\ EveryArgvOwned'
      BY <1>1, <2>1, <3>1, <3>2 DEF SlotOwnsArgv, SubmitOwnsArgv, EveryArgvOwned
    <3>4. QED BY <3>3 DEF ArgvOwnership
  <2>3. CASE FreeSlots # {}
    <3>1. heap' = heap
      BY <1>1, <1>7, <2>3, RefusedOnlyWhenFull DEF Register
    <3>2. PICK new \in Slots : new = FirstFree
      BY <2>3, FirstFreeIsFree
    <3>3. ~Running(new) /\ Running(new)' /\ table'[new].argv = pending.argv
      BY <1>1, <1>7, <2>3, <3>2, RunningAfterRegister
    <3>4. \A s \in Slots : s # new => table'[s] = table[s]
      BY <1>1, <1>7, <3>2, RunningAfterRegister
    <3>5. \A s \in Slots : s # new => (Running(s)' <=> Running(s))
      BY <3>4 DEF Running
    <3>6. table[new].argv = NoArgv
      BY <1>1, <3>3 DEF SlotOwnsArgv
    <3>7. SlotOwnsArgv'
      BY <1>1, <2>1, <3>1, <3>3, <3>4, <3>5 DEF SlotOwnsArgv, SubmitOwnsArgv
    <3>8. SubmitOwnsArgv' /\ EveryArgvOwned'
      BY <1>1, <1>2, <2>1, <3>1, <3>3, <3>4, <3>6 DEF SubmitOwnsArgv, EveryArgvOwned
    <3>9. QED BY <3>7, <3>8 DEF ArgvOwnership
  <2>4. QED BY <2>2, <2>3
<1>8. CASE ServerExit
  <2>1. ASSUME NEW s \in Slots
        PROVE  table'[s].argv = NoArgv
    <3>1. table[s] \in Entry
      BY <1>1 DEF TypeOK
    <3>2. QED BY <1>1, <1>8, <3>1, DestroyedSlot DEF Entry
  <2>2. heap' = heap \ {table[s].argv : s \in Slots} /\ pending' = pending /\ pending.argv = NoArgv
    BY <1>3, <1>8 DEF ServerExit
  <2>3. heap' = {}
    BY <1>1, <1>2, <2>2 DEF EveryArgvOwned
  <2>4. QED BY <2>1, <2>2, <2>3 DEF ArgvOwnership, SlotOwnsArgv, SubmitOwnsArgv,
                                    EveryArgvOwned
<1>9. CASE \/ OtherRequest \/ ShutdownRequest \/ PassDone \/ OnSignal \/ Tick
           \/ SetClockBack \/ (\E p \in Pids : Worker(p)) \/ UNCHANGED vars
  <2>1. CASE OtherRequest \/ ShutdownRequest \/ PassDone \/ OnSignal \/ Tick \/ SetClockBack
    <3>1. UNCHANGED <<table, heap, pending>>
      BY <2>1, OtherKeepsHeap DEF OtherRequest, ShutdownRequest, PassDone, OnSignal, Tick, SetClockBack,
                  tableVars
    <3>2. \/ pc' = pc
          \/ pc' # "register" /\ pc # "register"
      <4>1. CASE PassDone
        BY <4>1 DEF PassDone
      <4>2. CASE OtherRequest \/ ShutdownRequest \/ OnSignal \/ Tick \/ SetClockBack
        BY <4>2 DEF OtherRequest, ShutdownRequest, OnSignal, Tick, SetClockBack, loopVars
      <4>3. QED BY <2>1, <4>1, <4>2
    <3>3. \A s \in Slots : Running(s)' <=> Running(s)
      BY <3>1 DEF Running
    <3>4. QED BY <1>1, <1>3, <3>1, <3>2, <3>3
              DEF ArgvOwnership, SlotOwnsArgv, SubmitOwnsArgv, EveryArgvOwned
  <2>2. CASE (\E p \in Pids : Worker(p)) \/ UNCHANGED vars
    <3>1. UNCHANGED <<table, heap, pending, pc>>
      BY <2>2 DEF Worker, Exec, Exit, vars, tableVars, loopVars
    <3>2. \A s \in Slots : Running(s)' <=> Running(s)
      BY <3>1 DEF Running
    <3>3. QED BY <1>1, <3>1, <3>2
              DEF ArgvOwnership, SlotOwnsArgv, SubmitOwnsArgv, EveryArgvOwned
  <2>3. QED BY <1>9, <2>1, <2>2
<1>10. QED BY <1>4, <1>5, <1>6, <1>7, <1>8, <1>9 DEF Next, Server, Handler, Terminated

LEMMA ArgvInit == Init => ArgvOwnership
<1> SUFFICES ASSUME Init PROVE ArgvOwnership
  OBVIOUS
<1>1. \A s \in Slots : table[s].argv = NoArgv
  BY DEF Init, EmptyEntry
<1>2. pending.argv = NoArgv /\ heap = {}
  BY DEF Init, NoPending
<1>3. QED BY <1>1, <1>2 DEF ArgvOwnership, SlotOwnsArgv, SubmitOwnsArgv, EveryArgvOwned

\* ArgvInv is inductive.
LEMMA ArgvInvariant == Spec => []ArgvInv
<1>1. Init => ArgvInv
  BY TypeInit, WorkerInit, ArgvInit DEF ArgvInv, WorkerInv, SlotInv
<1>2. ArgvInv /\ [Next]_vars => ArgvInv'
  BY TypeStep, SlotStep, WorkerStep, ArgvStep DEF ArgvInv, WorkerInv, SlotInv
<1>3. QED BY <1>1, <1>2, PTL DEF Spec

\* Every argv on the heap has exactly one owner that will free it, and no slot
\* holds a freed one.
THEOREM ArgvsAreOwned == Spec => []ArgvOwnership
BY ArgvInvariant, PTL DEF ArgvInv

-----------------------------------------------------------------------------
(* The retention of finished jobs, whatever the clock does                  *)

\* A job that is not ahead of the clock finished before the next sweep is due.
\* Between reap and sweep it may have finished later, but not in the future.
ClockInv ==
    /\ TypeInv
    /\ \A s \in Slots \ ahead :
                        \/ table[s].finished_at < last_cleanup + Interval
                        \/ pc = "sweep" /\ table[s].finished_at <= now

\* The unsigned remainder of a number that is not negative is not larger.
LEMMA RemainderBound ==
    ASSUME NEW x \in Nat, NEW m \in Nat \ {0}
    PROVE  x % m <= x
<1>1. CASE x < m
  BY <1>1
<1>2. CASE x >= m
  <2>1. x % m \in 0..(m - 1)
    OBVIOUS
  <2>2. QED BY <1>2, <2>1
<1>3. QED BY <1>1, <1>2

LEMMA ClockStep ==
    ASSUME ClockInv, [Next]_vars
    PROVE  ClockInv'
<1> USE JobTableAssumptions
<1>1. TypeOK /\ PendingShape /\ TypeInv'
  BY TypeStep DEF ClockInv, TypeInv
<1>2. \A s \in Slots : table[s].finished_at \in Nat
  BY <1>1 DEF TypeOK, Entry
<1>3. now \in Nat \ {0} /\ last_cleanup \in Nat
  BY <1>1 DEF TypeOK
<1> DEFINE Bounded(s) == \/ table[s].finished_at < last_cleanup + Interval
                         \/ pc = "sweep" /\ table[s].finished_at <= now
<1>4. \A s \in Slots \ ahead : Bounded(s)
  BY DEF ClockInv
<1>12. Slots' = Slots
  BY DEF Slots
<1> SUFFICES ASSUME NEW s \in Slots, s \notin ahead' PROVE Bounded(s)'
  BY <1>1, <1>12 DEF ClockInv
<1>5. CASE Reap
  <2>1. pc = "poll" /\ pc' = "sweep" /\ UNCHANGED <<now, last_cleanup, ahead>>
    BY <1>5 DEF Reap, clockVars
  <2>2. table'[s].finished_at = table[s].finished_at \/ table'[s].finished_at = now
    BY <1>1, <1>5, ReapedSlot
  <2>3. QED BY <1>2, <1>3, <1>4, <2>1, <2>2
<1>6. CASE Sweep
  <2>1. /\ pc = "sweep" /\ pc' = "serve" /\ now' = now
        /\ IF now - last_cleanup >= Interval
           THEN last_cleanup' = now /\ ahead' = {t \in ahead : ~Evictable(t)}
           ELSE last_cleanup' = last_cleanup /\ ahead' = ahead
    BY <1>6 DEF Sweep
  <2>2. table'[s].finished_at = table[s].finished_at \/ table'[s].finished_at = 0
    BY <1>1, <1>6, SweptSlot DEF EmptyEntry
  <2>3. CASE s \in ahead
    <3>1. now - last_cleanup >= Interval /\ Evictable(s)
      BY <2>1, <2>3
    <3>2. table'[s].finished_at = 0
      BY <1>6, <3>1 DEF Sweep, EmptyEntry
    <3>3. QED BY <1>3, <2>1, <3>1, <3>2
  <2>4. CASE s \notin ahead
    BY <1>2, <1>3, <1>4, <2>1, <2>2, <2>4
  <2>5. QED BY <2>3, <2>4
<1>7. CASE Register
  <2>1. pc # "sweep" /\ UNCHANGED <<now, last_cleanup, ahead>>
    BY <1>7 DEF Register, clockVars
  <2>2. table'[s].finished_at = table[s].finished_at \/ table'[s].finished_at = 0
    BY <1>1, <1>7, RegisteredSlot
  <2>3. QED BY <1>2, <1>3, <1>4, <2>1, <2>2
<1>8. CASE ServerExit
  <2>1. pc # "sweep" /\ UNCHANGED <<now, last_cleanup, ahead>>
    BY <1>8 DEF ServerExit, clockVars
  <2>2. table'[s].finished_at = table[s].finished_at
    <3>1. table[s] \in Entry
      BY <1>1 DEF TypeOK
    <3>2. QED BY <1>1, <1>8, <3>1, DestroyedSlot DEF Entry
  <2>3. QED BY <1>2, <1>3, <1>4, <2>1, <2>2
<1>9. CASE Tick \/ SetClockBack
  <2>1. /\ UNCHANGED <<table, last_cleanup, pc>>
        /\ now' \in Nat
        /\ ahead \subseteq ahead'
        /\ pc = "sweep" => now' = now + 1 \/ table[s].finished_at <= now'
    BY <1>2, <1>3, <1>9 DEF Tick, SetClockBack, tableVars, loopVars
  <2>2. s \notin ahead
    BY <2>1
  <2>3. QED BY <1>2, <1>3, <1>4, <2>1, <2>2
<1>10. CASE \/ Submit \/ OtherRequest \/ ShutdownRequest \/ PassDone \/ OnSignal
            \/ (\E p \in Pids : Worker(p)) \/ UNCHANGED vars
  <2>1. UNCHANGED table
    BY <1>10, TableUnchanged DEF tableVars
  <2>2. UNCHANGED clockVars
    BY <1>10 DEF Submit, SpawnSimple, SpawnMerge, OtherRequest, ShutdownRequest,
                 PassDone, OnSignal, Worker, Exec, Exit, vars
  <2>3. pc' = pc \/ pc # "sweep"
    BY <1>10 DEF Submit, SpawnSimple, SpawnMerge, Serving, OtherRequest, ShutdownRequest,
                 PassDone, OnSignal, Worker, Exec, Exit, vars, loopVars
  <2>4. QED BY <1>4, <2>1, <2>2, <2>3 DEF clockVars
<1>11. QED BY <1>5, <1>6, <1>7, <1>8, <1>9, <1>10 DEF Next, Server, Handler, Terminated

LEMMA ClockInit == Init => ClockInv
<1> SUFFICES ASSUME Init PROVE ClockInv
  OBVIOUS
<1>1. \A s \in Slots : table[s].finished_at = 0
  BY DEF Init, EmptyEntry
<1>2. last_cleanup = 1
  BY DEF Init
<1>3. QED BY <1>1, <1>2, TypeInit, JobTableAssumptions DEF ClockInv

\* Only a sweep empties a slot.
LEMMA OnlySweepEvicts ==
    ASSUME TypeInv, [Next]_vars, NEW s \in Slots, table[s].used, ~table'[s].used
    PROVE  Sweep /\ Evictable(s) /\ now - last_cleanup >= Interval
<1> USE DEF TypeInv
<1>1. CASE Reap
  BY <1>1, ReapedSlot
<1>2. CASE Sweep
  BY <1>2, SweptSlot DEF Sweep
<1>3. CASE Register
  <2>1. FreeSlots # {} => FirstFree # s
    BY FirstFreeIsFree
  <2>2. QED BY <1>3, <2>1, RegisteredSlot
<1>4. CASE ServerExit
  <2>1. table[s] \in Entry
    BY DEF TypeOK
  <2>2. QED BY <1>4, <2>1, DestroyedSlot DEF Entry
<1>5. CASE UNCHANGED tableVars
  BY <1>5 DEF tableVars
<1>6. QED BY <1>1, <1>2, <1>3, <1>4, <1>5, TableUnchanged
          DEF Next, Server, Handler, Terminated

\* However often the clock is set back, and when: the unsigned subtraction of
\* jobs_evict_old underflows only for a job that the clock was set back behind between
\* a reap and its sweep, and every other slot is emptied only Retention seconds after
\* its job finished.
THEOREM RetentionIsHonoured == Spec => EvictionHonoursRetention
<1> DEFINE Honoured == \A s \in Slots \ ahead : table[s].used /\ ~table'[s].used =>
                          now - table[s].finished_at >= Retention
<1>1. ClockInv /\ [Next]_vars => ClockInv'
  BY ClockStep
<1>2. ClockInv /\ [Next]_vars => Honoured
  <2> SUFFICES ASSUME ClockInv, [Next]_vars, NEW s \in Slots \ ahead,
                      table[s].used, ~table'[s].used
               PROVE  now - table[s].finished_at >= Retention
    OBVIOUS
  <2> DEFINE age == now - table[s].finished_at
  <2>1. Evictable(s) /\ now - last_cleanup >= Interval
    BY OnlySweepEvicts DEF ClockInv
  <2>2. now \in Nat /\ table[s].finished_at \in Nat /\ last_cleanup \in Nat
    BY DEF ClockInv, TypeInv, TypeOK, Entry
  <2>3. \/ table[s].finished_at < last_cleanup + Interval
        \/ table[s].finished_at <= now
    BY DEF ClockInv
  <2>4. age \in Nat
    BY <2>1, <2>2, <2>3, JobTableAssumptions
  <2>5. age % UIntMod >= Retention
    BY <2>1 DEF Evictable
  <2>6. age % UIntMod <= age /\ age % UIntMod \in Nat
    <3> HIDE DEF age
    <3> QED BY <2>4, RemainderBound, JobTableAssumptions
  <2>7. age >= Retention
    <3> HIDE DEF age
    <3> QED BY <2>4, <2>5, <2>6, JobTableAssumptions
  <2>8. QED BY <2>7
<1>3. ClockInv /\ [Next]_vars => [Honoured]_vars
  BY <1>2
<1>4. QED BY <1>1, <1>3, ClockInit, PTL DEF Spec, EvictionHonoursRetention

-----------------------------------------------------------------------------
(* The counters of STATS                                                    *)

Busy == {s \in Slots : table[s].state = "RUNNING"}

BalanceInv == SlotInv /\ AccountsBalance

LEMMA BalanceStep ==
    ASSUME BalanceInv, [Next]_vars
    PROVE  AccountsBalance'
<1>1. /\ SlotInv /\ TypeOK /\ PendingShape /\ SlotShape
      /\ issued = counter_done + counter_failed + Cardinality(Busy)
  BY DEF BalanceInv, SlotInv, TypeInv, AccountsBalance, Busy
<1>2. /\ issued \in Nat /\ counter_done \in Nat /\ counter_failed \in Nat
      /\ IsFiniteSet(Busy) /\ Cardinality(Busy) \in Nat
  <2>1. Busy \in SUBSET Slots
    BY DEF Busy
  <2>2. QED BY <1>1, <2>1, SlotSets DEF TypeOK
<1> SUFFICES issued' = counter_done' + counter_failed' + Cardinality(Busy')
  BY DEF AccountsBalance, Busy
<1>3. CASE Reap
  <2> DEFINE D == {s \in Slots : Collected(s) /\ Succeeded(s)}
             F == {s \in Slots : Collected(s) /\ ~Succeeded(s)}
  <2>1. /\ issued' = issued
        /\ counter_done' = counter_done + Cardinality(D)
        /\ counter_failed' = counter_failed + Cardinality(F)
    BY <1>3 DEF Reap
  <2>2. D \in SUBSET Slots /\ F \in SUBSET Slots /\ D \cap F = {}
    OBVIOUS
  <2>3. D \cup F \subseteq Busy
    BY DEF Busy, Collected, Running
  <2>4. Busy' = Busy \ (D \cup F)
    <3>1. ASSUME NEW s \in Slots
          PROVE  table'[s].state = "RUNNING" <=> table[s].state = "RUNNING" /\ ~Collected(s)
      <4>1. CASE Collected(s)
        BY <1>1, <1>3, <4>1, ReapedSlot
      <4>2. CASE ~Collected(s)
        BY <1>1, <1>3, <4>2, ReapedSlot
      <4>3. QED BY <4>1, <4>2
    <3>2. QED BY <3>1 DEF Busy
  <2> HIDE DEF D, F
  <2>5. IsFiniteSet(D) /\ IsFiniteSet(F) /\ Cardinality(D) \in Nat /\ Cardinality(F) \in Nat
    BY <2>2, SlotSets
  <2>6. Cardinality(D \cup F) = Cardinality(D) + Cardinality(F)
    <3>1. Cardinality(D \cup F) = Cardinality(D) + Cardinality(F) - Cardinality(D \cap F)
      BY <2>5, FS_Union
    <3>2. Cardinality(D \cap F) = 0
      BY <2>2, FS_EmptySet
    <3>3. QED BY <2>5, <3>1, <3>2
  <2>7. Cardinality(Busy') = Cardinality(Busy) - Cardinality(D \cup F)
    <3>1. Busy \cap (D \cup F) = D \cup F
      BY <2>3
    <3>2. Cardinality(Busy \ (D \cup F))
            = Cardinality(Busy) - Cardinality(Busy \cap (D \cup F))
      BY <1>2, FS_Difference
    <3>3. QED BY <2>4, <3>1, <3>2
  <2>8. QED BY <1>1, <1>2, <2>1, <2>5, <2>6, <2>7
<1>4. CASE Register
  <2>1. CASE FreeSlots = {}
    BY <1>1, <1>4, <2>1 DEF Register, JobsSubmit, tableVars, Busy
  <2>2. CASE FreeSlots # {}
    <3>1. PICK new \in Slots : new = FirstFree /\ ~table[new].used
      BY <2>2, FirstFreeIsFree
    <3>2. new \notin Busy
      BY <1>1, <3>1 DEF Busy, SlotShape
    <3>3. Busy' = Busy \cup {new}
      BY <1>1, <1>4, <2>2, <3>1, RegisteredSlot DEF Busy
    <3>4. Cardinality(Busy') = Cardinality(Busy) + 1
      BY <1>2, <3>2, <3>3, FS_AddElement
    <3>5. issued' = issued + 1 /\ UNCHANGED <<counter_done, counter_failed>>
      BY <1>4, <2>2 DEF Register, JobsSubmit
    <3>6. QED BY <1>1, <1>2, <3>4, <3>5
  <2>3. QED BY <2>1, <2>2
<1>5. CASE Sweep \/ ServerExit
  <2>1. UNCHANGED <<issued, counter_done, counter_failed>>
    BY <1>5 DEF Sweep, ServerExit
  <2>2. ASSUME NEW s \in Slots
        PROVE  table'[s].state = "RUNNING" <=> table[s].state = "RUNNING"
    <3>1. CASE ServerExit
      <4>1. table[s] \in Entry
        BY <1>1 DEF TypeOK
      <4>2. QED BY <1>1, <3>1, <4>1, DestroyedSlot DEF Entry
    <3>2. CASE Sweep
      BY <1>1, <3>2, SweptSlot DEF Evictable, EmptyEntry
    <3>3. QED BY <1>5, <3>1, <3>2
  <2>3. Busy' = Busy
    BY <2>2 DEF Busy
  <2>4. QED BY <1>1, <2>1, <2>3
<1>6. CASE UNCHANGED tableVars
  BY <1>1, <1>6 DEF tableVars, Busy
<1>7. QED BY <1>3, <1>4, <1>5, <1>6, TableUnchanged DEF Next, Server, Handler, Terminated

\* STATS adds up: every job that was accepted is still running or was counted
\* once, as done or as failed, even after its slot was evicted.
THEOREM AccountsAlwaysBalance == Spec => []AccountsBalance
<1>1. Init => BalanceInv
  <2> SUFFICES ASSUME Init PROVE AccountsBalance
    BY TypeInit, WorkerInit DEF BalanceInv, SlotInv
  <2>1. {s \in Slots : table[s].state = "RUNNING"} = {}
    BY DEF Init, EmptyEntry
  <2>2. QED BY <2>1, FS_EmptySet DEF Init, AccountsBalance
<1>2. BalanceInv /\ [Next]_vars => BalanceInv'
  BY TypeStep, SlotStep, BalanceStep DEF BalanceInv, SlotInv
<1>3. BalanceInv => AccountsBalance
  BY DEF BalanceInv
<1>4. QED BY <1>1, <1>2, <1>3, PTL DEF Spec

-----------------------------------------------------------------------------
(* Serial numbers and task ids                                              *)

\* Each used slot holds another accepted job.
SerialShape ==
    \A s \in Slots : table[s].used =>
        /\ serial[s] \in 1..issued
        /\ \A t \in Slots : table[t].used /\ serial[t] = serial[s] => t = s

\* The id given n jobs after i, when the counter went round once at most.
IdAfter(i, n, j) == j = i + n \/ j = i + n - (IdMod - 1)

\* Ids follow the serial numbers, until the counter has gone all the way round: from
\* one slot to another, and from each slot to the id that is given next.
NextFollows ==
    \A s \in Slots :
        table[s].used /\ issued + 1 - serial[s] < IdMod - 1
        => IdAfter(table[s].task_id, issued + 1 - serial[s], next_task_id)

PairsFollow ==
    \A s, t \in Slots :
        /\ table[s].used /\ table[t].used
        /\ serial[s] < serial[t] /\ serial[t] - serial[s] < IdMod - 1
        => IdAfter(table[s].task_id, serial[t] - serial[s], table[t].task_id)

IdsInRange == \A s \in Slots : table[s].used => table[s].task_id \in 1..(IdMod - 1)

IdsFollow == NextFollows /\ PairsFollow /\ IdsInRange

SerialInv == TypeInv /\ SerialShape /\ IdsFollow

\* A job keeps its slot, its task id and its serial number.
LEMMA JobKeepsIds ==
    ASSUME TypeInv, [Next]_vars, NEW s \in Slots, table'[s].used, ~Register
    PROVE  /\ table[s].used
           /\ table'[s].task_id = table[s].task_id
           /\ serial'[s] = serial[s]
<1>1. TypeOK /\ table[s] \in Entry
  BY DEF TypeInv, TypeOK
<1>2. CASE Reap
  <2>1. table'[s] = ReapedEntry(s) /\ serial' = serial
    BY <1>2 DEF Reap
  <2>2. QED BY <1>1, <2>1 DEF ReapedEntry, Entry
<1>3. CASE Sweep
  <2>1. ~EmptyEntry.used
    BY DEF EmptyEntry
  <2>2. CASE now - last_cleanup >= Interval
    BY <1>1, <1>3, <2>1, <2>2 DEF Sweep, TypeOK
  <2>3. CASE ~(now - last_cleanup >= Interval)
    BY <1>3, <2>3 DEF Sweep
  <2>4. QED BY <2>2, <2>3
<1>4. CASE ServerExit
  <2>1. table'[s] = [table[s] EXCEPT !.argv = NoArgv] /\ serial' = serial
    BY <1>1, <1>4, DestroyedSlot DEF ServerExit
  <2>2. QED BY <1>1, <2>1 DEF Entry
<1>5. CASE UNCHANGED tableVars
  BY <1>5 DEF tableVars
<1>6. QED BY <1>2, <1>3, <1>4, <1>5, TableUnchanged DEF Next, Server, Handler, Terminated

LEMMA CountersKept ==
    ASSUME [Next]_vars, ~Register
    PROVE  next_task_id' = next_task_id /\ issued' = issued
<1>1. CASE Reap \/ Sweep \/ ServerExit
  BY <1>1 DEF Reap, Sweep, ServerExit
<1>2. CASE UNCHANGED tableVars
  BY <1>2 DEF tableVars
<1>3. QED BY <1>1, <1>2, TableUnchanged DEF Next, Server, Handler, Terminated

\* Registering gives the next id and the next serial number to a slot that was free.
LEMMA RegisteredJob ==
    ASSUME TypeInv, Register, FreeSlots # {}
    PROVE  /\ FirstFree \in Slots /\ ~table[FirstFree].used
           /\ table'[FirstFree].used
           /\ table'[FirstFree].task_id = next_task_id
           /\ serial'[FirstFree] = issued + 1
           /\ issued' = issued + 1
           /\ next_task_id' = NextId(next_task_id)
           /\ \A s \in Slots : s # FirstFree => /\ table'[s] = table[s]
                                                /\ serial'[s] = serial[s]
<1>1. FirstFree \in Slots /\ ~table[FirstFree].used
  BY FirstFreeIsFree
<1>2. TypeOK
  BY DEF TypeInv
<1>3. /\ serial' = [serial EXCEPT ![FirstFree] = issued + 1]
      /\ issued' = issued + 1 /\ next_task_id' = NextId(next_task_id)
  BY DEF Register, JobsSubmit
<1>4. serial'[FirstFree] = issued + 1 /\ \A s \in Slots : s # FirstFree => serial'[s] = serial[s]
  BY <1>1, <1>2, <1>3 DEF TypeOK
<1>5. QED BY <1>1, <1>2, <1>3, <1>4, RegisteredSlot

\* The counter moves on by one, or goes round.
LEMMA NextIdFollows ==
    ASSUME NEW id \in 1..(IdMod - 1)
    PROVE  NextId(id) = IF id = IdMod - 1 THEN 1 ELSE id + 1
<1>1. id + 1 \in Nat /\ id + 1 <= IdMod /\ IdMod \in Nat /\ IdMod > 1
  BY JobTableAssumptions
<1>2. CASE id + 1 = IdMod
  <2>1. (id + 1) % IdMod = 0
    BY <1>1, <1>2
  <2>2. QED BY <1>1, <1>2, <2>1 DEF NextId
<1>3. CASE id + 1 < IdMod
  <2>1. (id + 1) % IdMod = id + 1
    BY <1>1, <1>3
  <2>2. QED BY <1>1, <1>3, <2>1 DEF NextId
<1>4. QED BY <1>1, <1>2, <1>3

LEMMA SerialStep ==
    ASSUME SerialInv, [Next]_vars
    PROVE  SerialShape' /\ IdsFollow'
<1>1. TypeInv /\ TypeOK /\ SerialShape /\ IdsFollow /\ IdMod \in Nat /\ issued \in Nat
  BY JobTableAssumptions DEF SerialInv, TypeInv, TypeOK
<1>2. next_task_id \in 1..(IdMod - 1) /\ \A s \in Slots : serial[s] \in Nat /\ table[s].task_id \in Nat
  BY <1>1 DEF TypeOK, Entry
<1>3. CASE ~Register
  <2>1. next_task_id' = next_task_id /\ issued' = issued
    BY <1>3, CountersKept
  <2>2. \A s \in Slots : table'[s].used =>
            /\ table[s].used /\ table'[s].task_id = table[s].task_id /\ serial'[s] = serial[s]
    BY <1>1, <1>3, JobKeepsIds
  <2>3. SerialShape' /\ IdsInRange'
    BY <1>1, <2>1, <2>2 DEF SerialShape, IdsFollow, IdsInRange
  <2>4. NextFollows'
    BY <1>1, <2>1, <2>2 DEF IdsFollow, NextFollows, IdAfter
  <2>5. PairsFollow'
    BY <1>1, <2>1, <2>2 DEF IdsFollow, PairsFollow, IdAfter
  <2>6. QED BY <2>3, <2>4, <2>5 DEF IdsFollow
<1>4. CASE Register /\ FreeSlots = {}
  <2>1. UNCHANGED tableVars
    BY <1>4 DEF Register, JobsSubmit
  <2>2. QED BY <1>1, <2>1 DEF SerialShape, IdsFollow, NextFollows, PairsFollow, IdsInRange, IdAfter, tableVars
<1>5. CASE Register /\ FreeSlots # {}
  <2> DEFINE new == FirstFree
  <2>1. /\ new \in Slots /\ ~table[new].used
        /\ table'[new].used /\ table'[new].task_id = next_task_id
        /\ serial'[new] = issued + 1 /\ issued' = issued + 1
        /\ \A s \in Slots : s # new => table'[s] = table[s] /\ serial'[s] = serial[s]
    BY <1>1, <1>5, RegisteredJob
  <2>2. next_task_id' = IF next_task_id = IdMod - 1 THEN 1 ELSE next_task_id + 1
    BY <1>1, <1>2, <1>5, RegisteredJob, NextIdFollows
  <2> HIDE DEF new
  <2>3. \A s \in Slots : table'[s].used /\ s # new =>
            /\ table[s].used /\ table'[s].task_id = table[s].task_id /\ serial'[s] = serial[s]
            /\ serial[s] \in 1..issued /\ table[s].task_id \in 1..(IdMod - 1)
    BY <1>1, <2>1 DEF SerialShape, IdsFollow, IdsInRange
  <2>4. SerialShape'
    BY <1>1, <2>1, <2>3 DEF SerialShape
  <2>5. ASSUME NEW s \in Slots, table'[s].used, issued' + 1 - serial'[s] < IdMod - 1
        PROVE  IdAfter(table'[s].task_id, issued' + 1 - serial'[s], next_task_id')
    <3>1. CASE s = new
      BY <1>1, <1>2, <2>1, <2>2, <3>1 DEF IdAfter
    <3>2. CASE s # new
      <4>1. IdAfter(table[s].task_id, issued + 1 - serial[s], next_task_id)
        BY <1>1, <2>1, <2>3, <2>5, <3>2 DEF IdsFollow, NextFollows, PairsFollow, IdsInRange
      <4>2. QED BY <1>1, <1>2, <2>1, <2>2, <2>3, <2>5, <3>2, <4>1 DEF IdAfter
    <3>3. QED BY <3>1, <3>2
  <2>6. ASSUME NEW s \in Slots, NEW t \in Slots, table'[s].used, table'[t].used,
               serial'[s] < serial'[t], serial'[t] - serial'[s] < IdMod - 1
        PROVE  IdAfter(table'[s].task_id, serial'[t] - serial'[s], table'[t].task_id)
    <3>1. s # new
      BY <1>1, <2>1, <2>3, <2>6
    <3>2. CASE t = new
      BY <1>1, <2>1, <2>3, <2>6, <3>1, <3>2 DEF IdsFollow, NextFollows, PairsFollow, IdsInRange
    <3>3. CASE t # new
      BY <1>1, <2>3, <2>6, <3>1, <3>3 DEF IdsFollow, PairsFollow
    <3>4. QED BY <3>2, <3>3
  <2>7. \A s \in Slots : table'[s].used => table'[s].task_id \in 1..(IdMod - 1)
    BY <1>2, <2>1, <2>3
  <2>8. NextFollows'
    BY <2>5 DEF NextFollows, IdAfter
  <2>9. PairsFollow'
    BY <2>6 DEF PairsFollow, IdAfter
  <2>10. QED BY <2>4, <2>7, <2>8, <2>9 DEF IdsFollow, IdsInRange
<1>6. QED BY <1>3, <1>4, <1>5

LEMMA SerialInvariant == Spec => []SerialInv
<1>1. Init => SerialInv
  <2> SUFFICES ASSUME Init PROVE SerialShape /\ IdsFollow
    BY TypeInit DEF SerialInv
  <2>1. \A s \in Slots : ~table[s].used
    BY DEF Init, EmptyEntry
  <2>2. SerialShape
    BY <2>1 DEF SerialShape
  <2>3. IdsInRange
    BY <2>1 DEF IdsInRange
  <2>4. NextFollows
    BY <2>1 DEF NextFollows
  <2>5. PairsFollow
    BY <2>1 DEF PairsFollow
  <2>6. QED BY <2>2, <2>3, <2>4, <2>5 DEF IdsFollow
<1>2. SerialInv /\ [Next]_vars => SerialInv'
  BY TypeStep, SerialStep DEF SerialInv
<1>3. QED BY <1>1, <1>2, PTL DEF Spec

\* Two jobs in the table share a task id only when the counter has gone all the way
\* round since the older one was accepted, for any width of the counter.
THEOREM IdsCollideOnlyAfterWrap == Spec => []TaskIdsCollideOnlyAfterWrap
<1>1. SerialInv => TaskIdsCollideOnlyAfterWrap
  <2> SUFFICES ASSUME SerialInv, NEW s \in Slots, NEW t \in Slots,
                      table[s].used, table[t].used, table[s].task_id = table[t].task_id,
                      serial[s] < serial[t], ~(serial[t] - serial[s] >= IdMod - 1)
               PROVE  FALSE
    BY DEF TaskIdsCollideOnlyAfterWrap
  <2>1. /\ serial[s] \in Nat /\ serial[t] \in Nat /\ IdMod \in Nat
        /\ table[s].task_id \in Nat
    BY JobTableAssumptions DEF SerialInv, TypeInv, TypeOK, Entry
  <2>2. IdAfter(table[s].task_id, serial[t] - serial[s], table[t].task_id)
    BY <2>1 DEF SerialInv, IdsFollow, PairsFollow
  <2>3. QED BY <2>1, <2>2 DEF IdAfter
<1>2. QED BY <1>1, SerialInvariant, PTL

=============================================================================
