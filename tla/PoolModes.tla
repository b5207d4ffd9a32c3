------------------------------- MODULE PoolModes -------------------------------
(***************************************************************************)
(* The operating flags of the pool, at the level the money-moving entry    *)
(* points see them: which flags are raised, and which entry points each    *)
(* flag closes.  When a pause may be raised or lifted is left open here;   *)
(* PauseControl says it in detail and implements this module.              *)
(***************************************************************************)
CONSTANT Modes    \* the flags this instance exercises, among AllModes

VARIABLE modes    \* the flags that are raised

AllModes == {"paused", "withdrawOnly", "sunset", "stopped", "shutdown"}

ASSUME ModesAssumption == Modes \subseteq AllModes

\* initialize opens the pool; import_state copies the flag of the pool it was exported from.
ModesInit == modes \in {{}, {"paused"} \cap Modes}

\* pause, pause_until, guardian_pause, role_pause, synchronized_pause, check_auto_pause, and
\* the Pause actions of timelock, multisig and nonce: whoever raises it, the flag is
\* DataKey::Paused.
set_paused == "paused" \in Modes /\ modes' = modes \cup {"paused"}

\* unpause, role_unpause, synchronized_unpause, force_unpause, the due schedule, and the
\* Unpause actions.
clear_paused == modes' = modes \ {"paused"}

enter_withdraw_only_mode ==
    "withdrawOnly" \in Modes /\ modes' = modes \cup {"withdrawOnly"}

exit_withdraw_only_mode == modes' = modes \ {"withdrawOnly"}

\* initiate_sunset writes the exit deadline, which nothing removes.
initiate_sunset == "sunset" \in Modes /\ modes' = modes \cup {"sunset"}

emergency_stop == "stopped" \in Modes /\ modes' = modes \cup {"stopped"}

start_graceful_shutdown ==
    "shutdown" \in Modes /\ modes' = modes \cup {"shutdown"}

ModesNext ==
    \/ set_paused
    \/ clear_paused
    \/ enter_withdraw_only_mode
    \/ exit_withdraw_only_mode
    \/ initiate_sunset
    \/ emergency_stop
    \/ start_graceful_shutdown

ModesSpec == ModesInit /\ [][ModesNext]_modes

-------------------------------------------------------------------------------
(* The gates of the entry points. *)

require_not_paused == "paused" \notin modes

\* The gate of stake, deposit and stake_for: the sunset deadline and the
\* withdraw-only flag, nothing else.
require_no_sunset == modes \cap {"sunset", "withdrawOnly"} = {}

\* The gates of do_stake: stopped, shutting down, paused.
do_stake_open == modes \cap {"stopped", "shutdown", "paused"} = {}

withdraw_only == "withdrawOnly" \in modes

===============================================================================
