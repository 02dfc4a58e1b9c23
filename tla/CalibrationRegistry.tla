------------------------ MODULE CalibrationRegistry ------------------------
(***************************************************************************)
(* The versioned calibration registry (src/app/calibration/registry.py):   *)
(* configurations by version, the stack of promoted versions, the active   *)
(* one.  Every method holds the registry's lock, so a call is one step.    *)
(* The registry is a module-level object that nothing writes to disk: the  *)
(* server, each command of the calibration CLI and each evaluation script  *)
(* has one of its own, made when the process starts.                       *)
(*                                                                         *)
(* A configuration stands for its own hash.  register refuses one whose    *)
(* stored hash is not its own and promote checks the stored hash again;    *)
(* no code changes a configuration after it got its hash, so a refused     *)
(* call is a call that changes nothing and is not a step.                  *)
(***************************************************************************)
EXTENDS Naturals, Sequences

CONSTANTS
  Configs,        \* the configurations that may be registered
  DefaultConfig,  \* DEFAULT_HEURISTIC_CONFIG
  NoConfig,       \* no configuration has this version
  MaxHistory      \* bound of the model: the length of the promotion history

Versions == {c.version : c \in Configs}

ASSUME RegistryAssumption ==
  /\ DefaultConfig \in Configs
  /\ NoConfig \notin Configs
  /\ MaxHistory \in Nat

VARIABLES
  configs,   \* _configs: version -> configuration
  history,   \* _history: the promoted versions, oldest first
  active,    \* _active_version
  announced  \* versions that a train command has reported to the operator

registry == <<configs, history, active>>
registryVars == <<configs, history, active, announced>>

Registered(v) == configs[v] # NoConfig
Top == history[Len(history)]

(* A registry as __init__ makes it.                                        *)
FreshConfigs ==
  [v \in Versions |-> IF v = DefaultConfig.version THEN DefaultConfig
                      ELSE NoConfig]

RegistryInit ==
  /\ configs = FreshConfigs
  /\ history = <<DefaultConfig.version>>
  /\ active = DefaultConfig.version
  /\ announced = {}

(* register, as train calls it.  A version that is already there is        *)
(* replaced, the active one too.                                           *)
Register(c) ==
  /\ configs' = [configs EXCEPT ![c.version] = c]
  /\ announced' = announced \cup {c.version}
  /\ UNCHANGED <<history, active>>

PromoteAgain(v) ==
  /\ Registered(v)
  /\ Len(history) < MaxHistory
  /\ active' = v
  /\ history' = Append(history, v)
  /\ UNCHANGED <<configs, announced>>

PromoteUnchecked(v) ==
  /\ v # Top /\ Len(history) < MaxHistory
  /\ active' = v
  /\ history' = Append(history, v)
  /\ UNCHANGED <<configs, announced>>

Promote(v) ==
  /\ Registered(v)
  /\ active' = v
  /\ IF Top = v THEN UNCHANGED history
     ELSE /\ Len(history) < MaxHistory
          /\ history' = Append(history, v)
  /\ UNCHANGED <<configs, announced>>

(* With nothing to go back to the call keeps the active version.           *)
Rollback ==
  /\ Len(history) > 1
  /\ history' = SubSeq(history, 1, Len(history) - 1)
  /\ active' = history[Len(history) - 1]
  /\ UNCHANGED <<configs, announced>>

(* get_active: the default stands in for a version that is missing.        *)
ActiveConfig == IF Registered(active) THEN configs[active] ELSE DefaultConfig

(* The process ends and another one is started: the next CLI command, or   *)
(* the server after a restart.                                             *)
FreshRegistry ==
  /\ configs' = FreshConfigs
  /\ history' = <<DefaultConfig.version>>
  /\ active' = DefaultConfig.version

Restart == FreshRegistry /\ UNCHANGED announced

RegistryStep ==
  \/ \E c \in Configs : Register(c)
  \/ \E v \in Versions : Promote(v)
  \/ Rollback

RegistryNext == RegistryStep \/ Restart

RegistrySpec == RegistryInit /\ [][RegistryNext]_registryVars

-----------------------------------------------------------------------------
(* Properties.                                                             *)

RegistryTypeOK ==
  /\ configs \in [Versions -> Configs \cup {NoConfig}]
  /\ history \in Seq(Versions)
  /\ active \in Versions
  /\ announced \subseteq Versions

(* The version in force is the one promoted last and not rolled back, it   *)
(* and every version a rollback can reach are registered, and rollbacks    *)
(* end at the built-in default: so neither the fallback of get_active nor  *)
(* an empty answer of rollback can happen.                                 *)
EveryRollbackTargetIsRegistered ==
  /\ Len(history) >= 1
  /\ history[1] = DefaultConfig.version
  /\ active = Top
  /\ \A i \in 1..Len(history) : Registered(history[i])

(* What is stored under a version is a configuration of that version.      *)
StoredUnderOwnVersion ==
  \A v \in Versions : Registered(v) => configs[v].version = v

(* No version follows itself in the history, however often it is promoted. *)
NoRepeatedPromotion ==
  \A i \in 1..(Len(history) - 1) : history[i] # history[i + 1]

(* The inductive invariant.                                                *)
RegistryInv ==
  /\ RegistryTypeOK
  /\ EveryRollbackTargetIsRegistered
  /\ StoredUnderOwnVersion
  /\ NoRepeatedPromotion

(* A rollback leaves the version that was active: it never reinstates the  *)
(* configuration it was called to get rid of.                              *)
RollbackLeavesActive ==
  [][Rollback => active' # active /\ Len(history') = Len(history) - 1]_registryVars

(* A version that "train" has announced can be promoted, as the README's   *)
(* command sequence does it.                                               *)
AnnouncedIsPromotable == \A v \in announced : Registered(v)

=============================================================================
