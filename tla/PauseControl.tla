------------------------------ MODULE PauseControl -----------------------------
(***************************************************************************)
(* Who may pause the pool, for how long, and how a pause ends: pause,      *)
(* pause_until with its lazily applied schedule, the delegated pausers,    *)
(* the synchronized pause of sibling pools, the timelock queue, multisig   *)
(* and nonce actions, the automatic pause after a payout, the bounded      *)
(* pause with its permissionless force_unpause, and the one-way flags.     *)
(*                                                                         *)
(* The code stores ledger numbers and only ever compares them with the     *)
(* current one, so time is kept relative to now: the age of the pause, the *)
(* ledgers left until a schedule, a cooldown or a queued action is due.    *)
(* No bound on the ledger number is needed.                                *)
(***************************************************************************)
EXTENDS Integers, Sequences, SequencesExt, FiniteSetsExt

CONSTANTS
    Pausers,        \* the paths in use, among AllPausers
    PauseLimits,    \* max_pause_ledgers the admin may configure; 0 = no limit
    InitialLimit,   \* the limit configured at the start
    Windows,        \* pause_until targets, in ledgers from now
    TimelockDelay,
    MaxPending      \* queue_action's limit of pending actions

AllPausers == {"admin", "role", "guardian", "siblings", "queue", "multisig", "nonce", "payout"}
Flags      == {"withdrawOnly", "sunset", "stopped", "shutdown"}
None       == -1
Oldest     == Max(PauseLimits \cup {InitialLimit})

ASSUME PauseAssumption ==
    /\ Pausers \subseteq AllPausers
    /\ PauseLimits \subseteq Nat /\ PauseLimits # {} /\ IsFiniteSet(PauseLimits)
    /\ InitialLimit \in Nat
    /\ Windows \subseteq Nat
    /\ TimelockDelay \in Nat /\ MaxPending \in Nat

VARIABLES
    paused,     \* DataKey::Paused
    age,        \* now - PauseInfo.paused_at (`ps_info'), saturated at Oldest; None = no info
    unpauseIn,  \* ledgers until the scheduled unpause is due; None = no schedule
    maxPause,   \* max_pause_ledgers, 0 = unlimited
    repauseIn,  \* ledgers until the cooldown after a forced unpause ends
    queue,      \* pending Pause / Unpause actions with their remaining delay
    flags       \* the other operating flags, as in PoolModes

pause_vars == <<paused, age, unpauseIn, maxPause, repauseIn, queue, flags>>

\* initialize writes FALSE; import_state writes the exported flag, and no record.
PauseInit ==
    /\ paused \in BOOLEAN /\ age = None /\ unpauseIn = None
    /\ maxPause = InitialLimit /\ repauseIn = 0
    /\ queue = <<>> /\ flags = {}

-------------------------------------------------------------------------------
require_not_stopped == "stopped" \notin flags

\* Only pause and pause_until ask.
repause_blocked == repauseIn > 0

schedule_due == unpauseIn = 0

\* An absent PauseInfo reads as paused_at = 0, long past any limit.
deadline_reached == maxPause > 0 /\ (age = None \/ age >= maxPause)

\* Mutant: the schedule survives the lifting.
lifted_keeping_schedule ==
    /\ paused' = FALSE
    /\ age' = None
    /\ UNCHANGED unpauseIn

\* Flag, info and schedule after a pause has been lifted.
lifted ==
    /\ paused' = FALSE
    /\ age' = None
    /\ unpauseIn' = None

\* pause_by: the body of pause and role_pause; guardian_pause writes the same.
\* A schedule left by an earlier pause_until stays in force.
pause_by ==
    /\ require_not_stopped
    /\ paused' = TRUE
    /\ age' = 0
    /\ UNCHANGED <<unpauseIn, maxPause, repauseIn, queue, flags>>

pause == "admin" \in Pausers /\ ~repause_blocked /\ pause_by

pause_until(window) ==
    /\ "admin" \in Pausers
    /\ require_not_stopped /\ ~repause_blocked
    /\ paused' = TRUE
    /\ age' = 0
    /\ unpauseIn' = window
    /\ UNCHANGED <<maxPause, repauseIn, queue, flags>>

role_pause == "role" \in Pausers /\ pause_by

guardian_pause == "guardian" \in Pausers /\ pause_by

\* unpause and role_unpause.
unpause_by ==
    /\ require_not_stopped
    /\ lifted
    /\ UNCHANGED <<maxPause, repauseIn, queue, flags>>

\* synchronized_pause keeps its record under a key of its own (`pause_inf') that nothing
\* reads, so only the flag counts; the stop is not asked.  Calls to the siblings are
\* try_invoke: they fail or succeed without effect here.
synchronized_pause ==
    /\ "siblings" \in Pausers
    /\ paused' = TRUE
    /\ UNCHANGED <<age, unpauseIn, maxPause, repauseIn, queue, flags>>

synchronized_unpause ==
    /\ "siblings" \in Pausers
    /\ paused' = FALSE
    /\ UNCHANGED <<age, unpauseIn, maxPause, repauseIn, queue, flags>>

\* apply_scheduled_unpause_if_due, run by every call that gates on the pause.
apply_scheduled_unpause_if_due ==
    /\ schedule_due
    /\ lifted
    /\ UNCHANGED <<maxPause, repauseIn, queue, flags>>

\* check_auto_pause writes the flag alone: at the end of a claim, or of an
\* unstake, which had to find the pool open and applied a due schedule first.
claim_auto_pause ==
    /\ "payout" \in Pausers
    /\ paused' = TRUE
    /\ UNCHANGED <<age, unpauseIn, maxPause, repauseIn, queue, flags>>

unstake_auto_pause ==
    /\ "payout" \in Pausers
    /\ schedule_due \/ ~paused
    /\ paused' = TRUE
    /\ IF schedule_due THEN age' = None /\ unpauseIn' = None
                       ELSE UNCHANGED <<age, unpauseIn>>
    /\ UNCHANGED <<maxPause, repauseIn, queue, flags>>

-------------------------------------------------------------------------------
(* The bounded pause. *)

set_max_pause_duration(limit) ==
    /\ schedule_due \/ ~paused
    /\ IF schedule_due THEN lifted ELSE UNCHANGED <<paused, age, unpauseIn>>
    /\ maxPause' = limit
    /\ UNCHANGED <<repauseIn, queue, flags>>

\* Mutant: an absent PauseInfo is taken for a pause that just began.
force_unpause_needs_info ==
    /\ paused /\ ~schedule_due
    /\ maxPause > 0 /\ age # None /\ age >= maxPause
    /\ lifted
    /\ repauseIn' = maxPause
    /\ UNCHANGED <<maxPause, queue, flags>>

\* Anyone may call it.  When the schedule is due the call finds the pool open
\* and errs, which reverts the lifting too.
force_unpause ==
    /\ paused /\ ~schedule_due
    /\ deadline_reached
    /\ lifted
    /\ repauseIn' = maxPause
    /\ UNCHANGED <<maxPause, queue, flags>>

-------------------------------------------------------------------------------
(* The timelock queue, for the two actions that touch the flag. *)

queue_action(type) ==
    /\ "queue" \in Pausers
    /\ Len(queue) < MaxPending
    /\ queue' = Append(queue, [type |-> type, wait |-> TimelockDelay])
    /\ UNCHANGED <<paused, age, unpauseIn, maxPause, repauseIn, flags>>

cancel_action(i) ==
    /\ queue' = RemoveAt(queue, i)
    /\ UNCHANGED <<paused, age, unpauseIn, maxPause, repauseIn, flags>>

\* execute_action with dispatch_admin_action: the flag is written, nothing else.
execute_action(i) ==
    /\ queue[i].wait = 0
    /\ paused' = (queue[i].type = "Pause")
    /\ queue' = RemoveAt(queue, i)
    /\ UNCHANGED <<age, unpauseIn, maxPause, repauseIn, flags>>

\* An approved multisig proposal is dispatched the same way, and the action with a nonce
\* writes the flag itself.  Who approves and how nonces run is in Administration.
execute_proposal(type) ==
    /\ "multisig" \in Pausers
    /\ paused' = (type = "Pause")
    /\ UNCHANGED <<age, unpauseIn, maxPause, repauseIn, queue, flags>>

execute_admin_action_with_nonce(type) ==
    /\ "nonce" \in Pausers
    /\ paused' = (type = "Pause")
    /\ UNCHANGED <<age, unpauseIn, maxPause, repauseIn, queue, flags>>

-------------------------------------------------------------------------------
(* The other flags, and time. *)

\* enter_withdraw_only_mode, initiate_sunset, emergency_stop and
\* start_graceful_shutdown: no precondition but the admin's signature.
set_flag(f) ==
    /\ flags' = flags \cup {f}
    /\ UNCHANGED <<paused, age, unpauseIn, maxPause, repauseIn, queue>>

\* Mutant: every flag is lowered.
exit_withdraw_only_mode_reset ==
    /\ flags' = {}
    /\ UNCHANGED <<paused, age, unpauseIn, maxPause, repauseIn, queue>>

exit_withdraw_only_mode ==
    /\ flags' = flags \ {"withdrawOnly"}
    /\ UNCHANGED <<paused, age, unpauseIn, maxPause, repauseIn, queue>>

\* Mutant: a countdown runs past zero.
elapse_past_zero(left) == left - 1

elapse(left) == IF left > 0 THEN left - 1 ELSE left

close_ledger ==
    /\ age' = IF age = None \/ age = Oldest THEN age ELSE age + 1
    /\ unpauseIn' = elapse(unpauseIn)
    /\ repauseIn' = elapse(repauseIn)
    /\ queue' = [i \in DOMAIN queue |-> [queue[i] EXCEPT !.wait = elapse(@)]]
    /\ UNCHANGED <<paused, maxPause, flags>>

PauseNext ==
    \/ pause
    \/ \E w \in Windows : pause_until(w)
    \/ role_pause
    \/ guardian_pause
    \/ unpause_by
    \/ apply_scheduled_unpause_if_due
    \/ claim_auto_pause
    \/ unstake_auto_pause
    \/ \E l \in PauseLimits : set_max_pause_duration(l)
    \/ force_unpause
    \/ \E type \in {"Pause", "Unpause"} : queue_action(type)
    \/ \E i \in DOMAIN queue : cancel_action(i)
    \/ \E i \in DOMAIN queue : execute_action(i)
    \/ \E type \in {"Pause", "Unpause"} : execute_proposal(type)
    \/ \E type \in {"Pause", "Unpause"} : execute_admin_action_with_nonce(type)
    \/ synchronized_pause
    \/ synchronized_unpause
    \/ \E f \in Flags : set_flag(f)
    \/ exit_withdraw_only_mode
    \/ close_ledger

PauseSpec == PauseInit /\ [][PauseNext]_pause_vars

\* Ledgers keep closing whatever the contract does, some user always calls an
\* entry point that applies a due schedule, and anyone who wants the pool back
\* may call force_unpause; nothing obliges the admin or the pausers to act.
PauseFairSpec ==
    /\ PauseSpec
    /\ WF_pause_vars(close_ledger)
    /\ WF_pause_vars(apply_scheduled_unpause_if_due)
    /\ WF_pause_vars(force_unpause)

\* The same with somebody who calls force_unpause so eagerly that no call that is
\* due again and again is missed for ever.
PauseEagerSpec == PauseFairSpec /\ SF_pause_vars(force_unpause)

-------------------------------------------------------------------------------
(* Properties. *)

PauseTypeOK ==
    /\ paused \in BOOLEAN
    /\ age \in {None} \cup 0..Oldest
    /\ unpauseIn \in {None} \cup Nat
    /\ maxPause \in PauseLimits \cup {InitialLimit}
    /\ repauseIn \in 0..Oldest
    /\ queue \in Seq([type : {"Pause", "Unpause"}, wait : 0..TimelockDelay])
    /\ flags \subseteq Flags

\* The flags as the pool's entry points see them.
pool_modes == flags \cup (IF paused THEN {"paused"} ELSE {})

PM == INSTANCE PoolModes WITH Modes <- Flags \cup {"paused"}, modes <- pool_modes

\* Whatever the pausers, the timelock, the schedule and the forced unpause do,
\* the pool sees one flag change at a time and never a one-way flag lowered:
\* what VaultPool assumes of its operating modes.
ImplementsPoolModes == PM!ModesSpec

\* The lifts that write DataKey::Paused and nothing else.
bare_unpause ==
    \/ synchronized_unpause
    \/ execute_proposal("Unpause") \/ execute_admin_action_with_nonce("Unpause")
    \/ \E i \in DOMAIN queue : execute_action(i) /\ queue[i].type = "Unpause"

\* unpause, role_unpause, force_unpause, the limit setter and the due schedule itself clear
\* the schedule of the pause they end, so that it cannot lift a later one.  Four lifts do
\* not, and only these: the Unpause of the timelock, of the multisig and of the nonce path,
\* and synchronized_unpause.
ScheduleEndsWithPause ==
    [][paused /\ ~paused' /\ unpauseIn' # None => bare_unpause]_pause_vars

\* pause_grace_period: "the admin cannot simply re-pause in a loop to keep
\* funds frozen".  With a limit configured the pool is open again and again.
PauseIsTemporary == []<>~paused

\* A call that begins a pause, or renews the one in force.
pause_step ==
    \/ pause \/ role_pause \/ guardian_pause
    \/ \E w \in Windows : pause_until(w)
    \/ claim_auto_pause \/ unstake_auto_pause
    \/ synchronized_pause \/ execute_proposal("Pause") \/ execute_admin_action_with_nonce("Pause")
    \/ \E i \in DOMAIN queue : execute_action(i) /\ queue[i].type = "Pause"

\* pause_grace_period: a limited pause needs no admin to end.  Once a limit is
\* configured for good, the pool is open again and again unless somebody keeps
\* pausing it: scheduled, queued and automatic pauses, pauses without a record,
\* and pauses of a stopped pool, which unpause refuses to lift, included.
PauseEnds ==
    <>[](maxPause > 0) => []<>~paused \/ []<><<pause_step>>_pause_vars

===============================================================================
