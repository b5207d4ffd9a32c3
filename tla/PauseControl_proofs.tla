-------------------------- MODULE PauseControl_proofs --------------------------
(***************************************************************************)
(* Theorems about PauseControl for every set of pausers, limits, windows   *)
(* and delays: its types, the refinement of PoolModes that VaultPool       *)
(* relies on, and what lifting a pause does to its schedule.               *)
(***************************************************************************)
EXTENDS PauseControl, Arithmetic_proofs, SequenceTheorems

Queued == [type : {"Pause", "Unpause"}, wait : 0..TimelockDelay]

\* The longest limit there is: the age of a pause is kept up to it.
LEMMA OldestLimit ==
    /\ Oldest \in Nat
    /\ \A l \in PauseLimits \cup {InitialLimit} : l <= Oldest
  <1> DEFINE L == PauseLimits \cup {InitialLimit}
  <1>1. L \subseteq Int /\ L \subseteq Nat /\ L # {}
    BY PauseAssumption
  <1>2. IsFiniteSet(L)
    BY PauseAssumption, FS_AddElement
  <1>3. Max(L) \in L /\ \A l \in L : l <= Max(L)
    <2> HIDE DEF L
    <2> QED BY <1>1, <1>2, MaxOfFinite
  <1> QED BY <1>1, <1>3 DEF Oldest

\* Removing an entry of a sequence leaves a sequence of the same entries.
LEMMA RemoveAtType ==
    ASSUME NEW S, NEW q \in Seq(S), NEW i \in DOMAIN q
    PROVE  RemoveAt(q, i) \in Seq(S)
  <1>1. Len(q) \in Nat /\ DOMAIN q = 1..Len(q) /\ \A j \in 1..Len(q) : q[j] \in S
    BY LenProperties, ElementOfSeq
  <1>2. SubSeq(q, 1, i - 1) \in Seq(S)
    <2>1. i - 1 \in Int /\ \A j \in 1..(i - 1) : q[j] \in S
      BY <1>1
    <2> QED BY <2>1, SubSeqProperties
  <1>3. SubSeq(q, i + 1, Len(q)) \in Seq(S)
    <2>1. i + 1 \in Int /\ Len(q) \in Int /\ \A j \in (i + 1)..Len(q) : q[j] \in S
      BY <1>1
    <2> QED BY <2>1, SubSeqProperties
  <1> QED BY <1>2, <1>3, ConcatProperties DEF RemoveAt

\* Changing the entries of a sequence in place leaves a sequence.
LEMMA MappedType ==
    ASSUME NEW S, NEW q \in Seq(S), NEW r, DOMAIN r = DOMAIN q,
           r = [i \in DOMAIN q |-> r[i]], \A i \in DOMAIN q : r[i] \in S
    PROVE  r \in Seq(S)
  <1>1. Len(q) \in Nat /\ DOMAIN q = 1..Len(q)
    BY LenProperties
  <1>2. r \in [1..Len(q) -> S]
    BY <1>1
  <1> QED BY <1>1, <1>2, SeqDef

\* The types hold at the start.
LEMMA PauseInitType == PauseInit => PauseTypeOK
  <1> SUFFICES ASSUME PauseInit PROVE PauseTypeOK
    OBVIOUS
  <1>1. queue \in Seq(Queued)
    BY EmptySeq DEF PauseInit
  <1>2. 0 \in 0..Oldest
    BY OldestLimit
  <1>3. queue \in Seq([type : {"Pause", "Unpause"}, wait : 0..TimelockDelay])
    BY <1>1 DEF Queued
  <1>4. /\ paused \in BOOLEAN /\ age \in {None} \cup 0..Oldest /\ unpauseIn \in {None} \cup Nat
        /\ maxPause \in PauseLimits \cup {InitialLimit} /\ flags \subseteq Flags
    BY DEF PauseInit
  <1> QED BY <1>2, <1>3, <1>4 DEF PauseInit, PauseTypeOK

\* A queue whose entries keep their types keeps its type through every step.
LEMMA QueueType ==
    ASSUME PauseTypeOK, [PauseNext]_pause_vars
    PROVE  queue' \in Seq(Queued)
  <1>0. queue \in Seq(Queued)
    BY DEF PauseTypeOK, Queued
  <1>1. CASE UNCHANGED queue
    BY <1>0, <1>1
  <1>2. ASSUME NEW type \in {"Pause", "Unpause"}, queue_action(type)
        PROVE  queue' \in Seq(Queued)
    <2>1. [type |-> type, wait |-> TimelockDelay] \in Queued
      BY PauseAssumption DEF Queued
    <2> QED BY <1>0, <1>2, <2>1, AppendProperties DEF queue_action
  <1>3. ASSUME NEW i \in DOMAIN queue, queue' = RemoveAt(queue, i)
        PROVE  queue' \in Seq(Queued)
    BY <1>0, <1>3, RemoveAtType
  <1>4. CASE close_ledger
    <2>1. \A i \in DOMAIN queue : queue[i] \in Queued
      BY <1>0, LenProperties, ElementOfSeq
    <2>2. \A i \in DOMAIN queue : queue'[i] \in Queued
      <3>1. \A q \in Queued : elapse(q.wait) \in 0..TimelockDelay
        BY PauseAssumption DEF Queued, elapse
      <3>2. \A q \in Queued : [q EXCEPT !.wait = elapse(q.wait)] \in Queued
        BY <3>1 DEF Queued
      <3>3. \A i \in DOMAIN queue : queue'[i] = [queue[i] EXCEPT !.wait = elapse(queue[i].wait)]
        BY <1>4 DEF close_ledger
      <3> QED BY <2>1, <3>2, <3>3
    <2>3. DOMAIN queue' = DOMAIN queue /\ queue' = [i \in DOMAIN queue |-> queue'[i]]
      BY <1>4 DEF close_ledger
    <2> QED BY <1>0, <2>2, <2>3, MappedType
  <1> QED BY <1>1, <1>2, <1>3, <1>4
       DEF PauseNext, pause_vars, pause, pause_until, role_pause, guardian_pause, pause_by,
           unpause_by, lifted, apply_scheduled_unpause_if_due, claim_auto_pause,
           unstake_auto_pause, set_max_pause_duration, force_unpause, cancel_action,
           execute_action, execute_proposal, execute_admin_action_with_nonce, synchronized_pause,
           synchronized_unpause, set_flag, exit_withdraw_only_mode

\* Every step keeps every variable in its range: ages and cooldowns never run past the
\* longest limit, countdowns never below zero.
LEMMA PauseStepType ==
    ASSUME PauseTypeOK, [PauseNext]_pause_vars
    PROVE  PauseTypeOK'
  <1>1. queue' \in Seq([type : {"Pause", "Unpause"}, wait : 0..TimelockDelay])
    BY QueueType DEF Queued
  <1>2. paused' \in BOOLEAN
    BY DEF PauseTypeOK, PauseNext, pause_vars, pause, pause_until, role_pause, guardian_pause,
           pause_by, unpause_by, lifted, apply_scheduled_unpause_if_due, claim_auto_pause,
           unstake_auto_pause, set_max_pause_duration, force_unpause, queue_action, cancel_action,
           execute_action, execute_proposal, execute_admin_action_with_nonce, synchronized_pause,
           synchronized_unpause, set_flag, exit_withdraw_only_mode, close_ledger
  <1>3. age' \in {None} \cup 0..Oldest
    BY OldestLimit
       DEF PauseTypeOK, PauseNext, pause_vars, pause, pause_until, role_pause, guardian_pause,
           pause_by, unpause_by, lifted, apply_scheduled_unpause_if_due, claim_auto_pause,
           unstake_auto_pause, set_max_pause_duration, force_unpause, queue_action, cancel_action,
           execute_action, execute_proposal, execute_admin_action_with_nonce, synchronized_pause,
           synchronized_unpause, set_flag, exit_withdraw_only_mode, close_ledger, None
  <1>4. unpauseIn' \in {None} \cup Nat
    BY PauseAssumption
       DEF PauseTypeOK, PauseNext, pause_vars, pause, pause_until, role_pause, guardian_pause,
           pause_by, unpause_by, lifted, apply_scheduled_unpause_if_due, claim_auto_pause,
           unstake_auto_pause, set_max_pause_duration, force_unpause, queue_action, cancel_action,
           execute_action, execute_proposal, execute_admin_action_with_nonce, synchronized_pause,
           synchronized_unpause, set_flag, exit_withdraw_only_mode, close_ledger, None, elapse
  <1>5. maxPause' \in PauseLimits \cup {InitialLimit}
    BY DEF PauseTypeOK, PauseNext, pause_vars, pause, pause_until, role_pause, guardian_pause,
           pause_by, unpause_by, apply_scheduled_unpause_if_due, claim_auto_pause,
           unstake_auto_pause, set_max_pause_duration, force_unpause, queue_action, cancel_action,
           execute_action, execute_proposal, execute_admin_action_with_nonce, synchronized_pause,
           synchronized_unpause, set_flag, exit_withdraw_only_mode, close_ledger
  <1>6. repauseIn' \in 0..Oldest
    <2>1. maxPause \in 0..Oldest
      BY OldestLimit, PauseAssumption DEF PauseTypeOK
    <2> QED BY <2>1, OldestLimit
       DEF PauseTypeOK, PauseNext, pause_vars, pause, pause_until, role_pause, guardian_pause,
           pause_by, unpause_by, apply_scheduled_unpause_if_due, claim_auto_pause,
           unstake_auto_pause, set_max_pause_duration, force_unpause, queue_action, cancel_action,
           execute_action, execute_proposal, execute_admin_action_with_nonce, synchronized_pause,
           synchronized_unpause, set_flag, exit_withdraw_only_mode, close_ledger, elapse
  <1>7. flags' \subseteq Flags
    BY DEF PauseTypeOK, PauseNext, pause_vars, pause, pause_until, role_pause, guardian_pause,
           pause_by, unpause_by, apply_scheduled_unpause_if_due, claim_auto_pause,
           unstake_auto_pause, set_max_pause_duration, force_unpause, queue_action, cancel_action,
           execute_action, execute_proposal, execute_admin_action_with_nonce, synchronized_pause,
           synchronized_unpause, set_flag, exit_withdraw_only_mode, close_ledger, Flags
  <1> QED BY <1>1, <1>2, <1>3, <1>4, <1>5, <1>6, <1>7 DEF PauseTypeOK

\* The types of the pause record, the schedule, the cooldown and the timelock queue.
THEOREM PauseTypeCorrect == PauseSpec => []PauseTypeOK
  <1>1. PauseTypeOK /\ [PauseNext]_pause_vars => PauseTypeOK'
    BY PauseStepType
  <1> QED BY PauseInitType, <1>1, PTL DEF PauseSpec

-------------------------------------------------------------------------------
\* Every step of the pausers, the timelock, the schedule and the forced unpause is one flag
\* raised or lowered, or none.
LEMMA PauseStepRefines ==
    ASSUME PauseTypeOK, [PauseNext]_pause_vars
    PROVE  [PM!ModesNext]_pool_modes
  <1>1. CASE UNCHANGED <<paused, flags>>
    BY <1>1 DEF pool_modes
  <1>2. CASE paused' = TRUE /\ UNCHANGED flags
    BY <1>2 DEF pool_modes, PM!ModesNext, PM!set_paused
  <1>3. CASE paused' = FALSE /\ UNCHANGED flags
    BY <1>3 DEF pool_modes, PM!ModesNext, PM!clear_paused, PauseTypeOK, Flags
  <1>4. ASSUME NEW f \in Flags, set_flag(f)
        PROVE  [PM!ModesNext]_pool_modes
    <2>1. pool_modes' = pool_modes \cup {f}
      BY <1>4 DEF set_flag, pool_modes
    <2> QED BY <2>1 DEF Flags, PM!ModesNext, PM!enter_withdraw_only_mode, PM!initiate_sunset,
                        PM!emergency_stop, PM!start_graceful_shutdown
  <1>5. CASE exit_withdraw_only_mode
    <2>1. pool_modes' = pool_modes \ {"withdrawOnly"}
      BY <1>5 DEF exit_withdraw_only_mode, pool_modes
    <2> QED BY <2>1 DEF PM!ModesNext, PM!exit_withdraw_only_mode
  <1> QED BY <1>1, <1>2, <1>3, <1>4, <1>5
       DEF PauseNext, pause_vars, pause, pause_until, role_pause, guardian_pause, pause_by,
           unpause_by, lifted, apply_scheduled_unpause_if_due, claim_auto_pause,
           unstake_auto_pause, set_max_pause_duration, force_unpause, queue_action, cancel_action,
           execute_action, execute_proposal, execute_admin_action_with_nonce, synchronized_pause,
           synchronized_unpause, close_ledger

\* The pause control implements the operating modes VaultPool is written against.
THEOREM PauseRefinesModes == PauseSpec => ImplementsPoolModes
  <1>1. PauseInit => PM!ModesInit
    BY DEF PauseInit, PM!ModesInit, pool_modes
  <1>2. PauseTypeOK /\ [PauseNext]_pause_vars => [PM!ModesNext]_pool_modes
    BY PauseStepRefines
  <1> QED BY <1>1, <1>2, PauseTypeCorrect, PTL DEF PauseSpec, ImplementsPoolModes, PM!ModesSpec

-------------------------------------------------------------------------------
\* The entry points that keep record and schedule never leave a schedule behind the pause
\* they end; the four that write the flag alone are the only ones that do.
THEOREM LiftingClearsSchedule == PauseSpec => ScheduleEndsWithPause
  <1>1. PauseTypeOK /\ [PauseNext]_pause_vars =>
            [paused /\ ~paused' /\ unpauseIn' # None => bare_unpause]_pause_vars
    <2> SUFFICES ASSUME PauseTypeOK, PauseNext, paused, ~paused', unpauseIn' # None PROVE bare_unpause
      BY DEF pause_vars
    <2>1. CASE \E i \in DOMAIN queue : execute_action(i)
      <3>1. PICK i \in DOMAIN queue : execute_action(i)
        BY <2>1
      <3>2. queue[i] \in Queued
        BY ElementOfSeq, LenProperties DEF PauseTypeOK, Queued
      <3>3. queue[i].type = "Unpause"
        BY <3>1, <3>2 DEF execute_action, Queued
      <3> QED BY <3>1, <3>3 DEF bare_unpause
    <2>2. CASE \E type \in {"Pause", "Unpause"} : execute_proposal(type) \/ execute_admin_action_with_nonce(type)
      BY <2>2 DEF execute_proposal, execute_admin_action_with_nonce, bare_unpause
    <2>3. CASE synchronized_pause \/ synchronized_unpause
      BY <2>3 DEF synchronized_pause, bare_unpause
    <2> QED BY <2>1, <2>2, <2>3
         DEF PauseNext, pause, pause_until, role_pause, guardian_pause,
             pause_by, unpause_by, lifted, apply_scheduled_unpause_if_due, claim_auto_pause,
             unstake_auto_pause, set_max_pause_duration, force_unpause, queue_action, cancel_action,
             set_flag, exit_withdraw_only_mode, close_ledger
  <1> QED BY <1>1, PauseTypeCorrect, PTL DEF PauseSpec, ScheduleEndsWithPause
===============================================================================
