---------------------------- MODULE ApprovalPolicy ----------------------------
(***************************************************************************)
(* Which approval mode is in force for a call, and whether that mode asks  *)
(* the human (src/approval/policy.rs).                                     *)
(*                                                                         *)
(* The signed allowlist of the profile overrides the signed configuration. *)
(* The environment variable KVENDRA_APPROVAL_MODE is unsigned: it may make *)
(* the mode stricter, and looser only when the signed configuration allows *)
(* downgrades.                                                             *)
(***************************************************************************)
EXTENDS Integers

Mode == {"silent", "ask-destructive", "ask"}

(* No override in the allowlist, no value in the environment. *)
Unset == "unset"

ModeOrUnset == Mode \cup {Unset}

Strictness == [m \in Mode |-> IF m = "silent" THEN 0
                              ELSE IF m = "ask-destructive" THEN 1 ELSE 2]

SignedMode(override, global) == IF override = Unset THEN global ELSE override

(* May the environment's mode e replace the signed mode m? *)
EnvWins(e, m, downgrade) ==
  /\ e # Unset
  /\ \/ Strictness[e] > Strictness[m]
     \/ Strictness[e] < Strictness[m] /\ downgrade

resolve_mode_ratcheted(env, override, global, downgrade) ==
  LET m == SignedMode(override, global)
  IN  IF EnvWins(env, m, downgrade) THEN env ELSE m

should_prompt(mode, destructive) ==
  \/ mode = "ask"
  \/ mode = "ask-destructive" /\ destructive
=============================================================================
