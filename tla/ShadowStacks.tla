---------------------------- MODULE ShadowStacks ----------------------------
(***************************************************************************)
(* Block structure, without a symbol table: a stack of environments.       *)
(* Entering a scope starts from what is visible around it, a declaration   *)
(* changes the innermost environment only, and leaving a scope gives back  *)
(* exactly the environment that was there before it was entered.           *)
(***************************************************************************)
EXTENDS Naturals, Sequences

CONSTANTS Kind, Name, Id, NONE

VARIABLES
  envs,                   \* what is visible, one environment per open scope
  declared,               \* the meanings given by the latest declaration
  phase                   \* "ready", or why the compiler gave up

vars == <<envs, declared, phase>>

Env == [Kind -> [Name -> Id \cup {NONE}]]
Nothing == [k \in Kind |-> [n \in Name |-> NONE]]

(* env with the new meanings put over it. *)
Over(env, new) ==
  [k \in Kind |-> [n \in Name |-> IF new[k][n] = NONE THEN env[k][n] ELSE new[k][n]]]

Init ==
  /\ envs = <<Nothing>>
  /\ declared = Nothing
  /\ phase = "ready"

Enter ==
  /\ phase = "ready"
  /\ envs' = Append(envs, envs[Len(envs)])
  /\ declared' = Nothing
  /\ phase' = phase

Leave ==
  /\ phase = "ready" /\ Len(envs) > 1
  /\ envs' = SubSeq(envs, 1, Len(envs) - 1)
  /\ declared' = Nothing
  /\ phase' = phase

Declare ==
  /\ phase = "ready"
  /\ declared' \in Env
  /\ envs' = [envs EXCEPT ![Len(envs)] = Over(@, declared')]
  /\ phase' = phase

(* The compiler gives up: a semantic error, a crash, or a step whose       *)
(* effect is undefined.                                                    *)
Stop ==
  /\ phase = "ready"
  /\ phase' \in {"error", "crash", "undefined"}
  /\ UNCHANGED <<envs, declared>>

Next == Enter \/ Leave \/ Declare \/ Stop

Spec == Init /\ [][Next]_vars
=============================================================================
