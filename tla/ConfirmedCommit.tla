-------------------------- MODULE ConfirmedCommit --------------------------
(***************************************************************************)
(* What the configuration engine promises about "commit confirmed"         *)
(* (FR-CFG-003/004), with locks, sessions, storage and timers abstracted   *)
(* away: there is one committed configuration and, while a commit awaits   *)
(* its confirmation, the configuration to fall back to.                    *)
(***************************************************************************)
CONSTANTS Config,   \* the configurations
          InitCfg,  \* the configuration of a fresh device
          None      \* "nothing to fall back to": the last commit is settled

VARIABLES committed, fallback

vars == <<committed, fallback>>

Init == committed = InitCfg /\ fallback = None

\* A commit replaces a settled configuration. It is either settled at once or
\* remembers exactly the configuration it replaces.
Commit(c) ==
  /\ fallback = None
  /\ committed' = c
  /\ fallback' \in {None, committed}

\* The awaited confirmation arrives, explicitly or with the next commit.
Settle == fallback # None /\ fallback' = None /\ UNCHANGED committed

\* No confirmation arrived in time: the replaced configuration returns.  The
\* engine may restore it before it forgets what it was waiting for.
Revert ==
  /\ fallback # None
  /\ committed' = fallback
  /\ fallback' \in {None, fallback}

Next == (\E c \in Config : Commit(c)) \/ Settle \/ Revert

Spec == Init /\ [][Next]_vars
=============================================================================
