--------------------- MODULE CalibrationRegistry_proofs ---------------------
(* Theorems about CalibrationRegistry, for every set of configurations and *)
(* every bound on the history.                                             *)
EXTENDS CalibrationRegistry, TLAPS

(* Every configuration has a version, and the fresh registry is a registry *)
(* that holds the default, and nothing else, under its own version.        *)
LEMMA FreshRegistryIsTyped ==
  /\ \A c \in Configs : c.version \in Versions /\ c # NoConfig
  /\ DefaultConfig.version \in Versions
  /\ FreshConfigs \in [Versions -> Configs \cup {NoConfig}]
  /\ FreshConfigs[DefaultConfig.version] = DefaultConfig
  /\ \A v \in Versions : FreshConfigs[v] # NoConfig => FreshConfigs[v].version = v
<1>1. \A c \in Configs : c.version \in Versions /\ c # NoConfig
  BY RegistryAssumption DEF Versions
<1>2. DefaultConfig.version \in Versions
  BY <1>1, RegistryAssumption
<1>3. FreshConfigs \in [Versions -> Configs \cup {NoConfig}]
  BY RegistryAssumption DEF FreshConfigs
<1>4. \A v \in Versions : FreshConfigs[v] # NoConfig => FreshConfigs[v].version = v
  BY DEF FreshConfigs
<1> QED BY <1>1, <1>2, <1>3, <1>4 DEF FreshConfigs

(* The registry a process starts with.                                     *)
LEMMA FreshRegistryInv ==
  ASSUME FreshRegistry, (announced \subseteq Versions)'
  PROVE  RegistryInv'
<1> USE FreshRegistryIsTyped
<1>1. /\ configs' = FreshConfigs
      /\ history' = <<DefaultConfig.version>>
      /\ active' = DefaultConfig.version
  BY DEF FreshRegistry
<1>2. history' \in Seq(Versions) /\ Len(history') = 1
      /\ history'[1] = DefaultConfig.version
  BY <1>1
<1>3. RegistryTypeOK'
  BY <1>1, <1>2 DEF RegistryTypeOK
<1>4. DefaultConfig # NoConfig
  BY RegistryAssumption
<1>5. EveryRollbackTargetIsRegistered' /\ NoRepeatedPromotion'
  BY <1>1, <1>2, <1>4
  DEF EveryRollbackTargetIsRegistered, NoRepeatedPromotion, Registered, Top
<1>6. StoredUnderOwnVersion'
  BY <1>1 DEF StoredUnderOwnVersion, Registered
<1> QED BY <1>3, <1>5, <1>6 DEF RegistryInv

(* A call of a registry method keeps the invariant.                        *)
LEMMA RegistryStepInv ==
  ASSUME RegistryInv, RegistryStep
  PROVE  RegistryInv'
<1> USE RegistryAssumption, FreshRegistryIsTyped
<1> DEFINE n == Len(history)
<1>0. /\ history \in Seq(Versions)
      /\ n \in Nat /\ n >= 1
      /\ \A i \in 1..n : history[i] \in Versions /\ configs[history[i]] # NoConfig
      /\ \A i \in 1..(n - 1) : history[i] # history[i + 1]
      /\ history[1] = DefaultConfig.version
      /\ active = history[n]
  BY DEF RegistryInv, RegistryTypeOK, EveryRollbackTargetIsRegistered,
         NoRepeatedPromotion, Registered, Top
<1>1. ASSUME NEW c \in Configs, Register(c) PROVE RegistryInv'
  <2>1. /\ configs' = [configs EXCEPT ![c.version] = c]
        /\ history' = history /\ active' = active
        /\ announced' = announced \cup {c.version}
    BY <1>1 DEF Register
  <2>2. RegistryTypeOK'
    BY <2>1 DEF RegistryInv, RegistryTypeOK
  <2>3. ASSUME NEW v \in Versions
        PROVE  configs'[v] = IF v = c.version THEN c ELSE configs[v]
    BY <2>1 DEF RegistryInv, RegistryTypeOK
  <2>4. EveryRollbackTargetIsRegistered'
    BY <1>0, <2>1, <2>3 DEF EveryRollbackTargetIsRegistered, Registered, Top
  <2>5. StoredUnderOwnVersion'
    BY <2>3 DEF RegistryInv, StoredUnderOwnVersion, Registered
  <2>6. NoRepeatedPromotion'
    BY <2>1 DEF RegistryInv, NoRepeatedPromotion
  <2> QED BY <2>2, <2>4, <2>5, <2>6 DEF RegistryInv
<1>2. ASSUME NEW v \in Versions, Promote(v) PROVE RegistryInv'
  <2>1. Registered(v) /\ configs' = configs /\ active' = v /\ announced' = announced
    BY <1>2 DEF Promote
  <2>2. StoredUnderOwnVersion'
    BY <2>1 DEF RegistryInv, StoredUnderOwnVersion, Registered
  <2>3. CASE Top = v
    <3>1. history' = history
      BY <1>2, <2>3 DEF Promote
    <3> QED
      BY <2>1, <2>2, <2>3, <3>1
      DEF RegistryInv, RegistryTypeOK, EveryRollbackTargetIsRegistered,
          NoRepeatedPromotion, Registered, Top
  <2>4. CASE Top # v
    <3>1. /\ history' \in Seq(Versions)
          /\ Len(history') = n + 1
          /\ \A i \in 1..n : history'[i] = history[i]
          /\ history'[n + 1] = v
      <4>1. history' = Append(history, v)
        BY <1>2, <2>4 DEF Promote
      <4> HIDE DEF n
      <4>2. /\ Append(history, v) \in Seq(Versions)
            /\ Len(Append(history, v)) = Len(history) + 1
            /\ \A i \in 1..Len(history) : Append(history, v)[i] = history[i]
            /\ Append(history, v)[Len(history) + 1] = v
        BY <1>0
      <4> QED BY <4>1, <4>2 DEF n
    <3>2. RegistryTypeOK'
      BY <2>1, <3>1 DEF RegistryInv, RegistryTypeOK
    <3>3. EveryRollbackTargetIsRegistered'
      BY <1>0, <2>1, <3>1 DEF EveryRollbackTargetIsRegistered, Registered, Top
    <3>4. history[n] # v
      BY <2>4 DEF Top
    <3>5. NoRepeatedPromotion'
      BY <1>0, <3>1, <3>4 DEF NoRepeatedPromotion
    <3> QED BY <2>2, <3>2, <3>3, <3>5 DEF RegistryInv
  <2> QED BY <2>3, <2>4
<1>3. ASSUME Rollback PROVE RegistryInv'
  <2>1. /\ n > 1 /\ configs' = configs /\ announced' = announced
        /\ active' = history[n - 1]
    BY <1>3 DEF Rollback
  <2>2. /\ history' \in Seq(Versions)
        /\ Len(history') = n - 1
        /\ \A i \in 1..(n - 1) : history'[i] = history[i]
    BY <1>0, <1>3 DEF Rollback
  <2>3. RegistryTypeOK'
    BY <1>0, <2>1, <2>2 DEF RegistryInv, RegistryTypeOK
  <2>4. EveryRollbackTargetIsRegistered'
    BY <1>0, <2>1, <2>2 DEF EveryRollbackTargetIsRegistered, Registered, Top
  <2>5. StoredUnderOwnVersion'
    BY <2>1 DEF RegistryInv, StoredUnderOwnVersion, Registered
  <2>6. NoRepeatedPromotion'
    BY <1>0, <2>1, <2>2 DEF NoRepeatedPromotion
  <2> QED BY <2>3, <2>4, <2>5, <2>6 DEF RegistryInv
<1> QED BY <1>1, <1>2, <1>3 DEF RegistryStep

(* The registry of the first process is sound.                             *)
LEMMA RegistryInitInv == RegistryInit => RegistryInv
<1> SUFFICES ASSUME RegistryInit PROVE RegistryInv
  OBVIOUS
<1>1. history \in Seq(Versions) /\ Len(history) = 1
      /\ history[1] = DefaultConfig.version
  BY FreshRegistryIsTyped DEF RegistryInit
<1>2. RegistryTypeOK
  BY <1>1, FreshRegistryIsTyped DEF RegistryInit, RegistryTypeOK
<1>3. EveryRollbackTargetIsRegistered /\ NoRepeatedPromotion
  BY <1>1, FreshRegistryIsTyped, RegistryAssumption
  DEF RegistryInit, EveryRollbackTargetIsRegistered, NoRepeatedPromotion,
      Registered, Top
<1>4. StoredUnderOwnVersion
  BY FreshRegistryIsTyped DEF RegistryInit, StoredUnderOwnVersion, Registered
<1> QED BY <1>2, <1>3, <1>4 DEF RegistryInv

(* The registry's invariant, and with it: no rollback target is missing.   *)
THEOREM RegistryCorrect == RegistrySpec => []RegistryInv
<1>1. RegistryInit => RegistryInv
  BY RegistryInitInv
<1>2. RegistryInv /\ [RegistryNext]_registryVars => RegistryInv'
  <2> SUFFICES ASSUME RegistryInv, [RegistryNext]_registryVars PROVE RegistryInv'
    OBVIOUS
  <2>1. CASE RegistryStep
    BY <2>1, RegistryStepInv
  <2>2. CASE Restart
    <3>1. (announced \subseteq Versions)'
      BY <2>2 DEF Restart, RegistryInv, RegistryTypeOK
    <3> QED BY <2>2, <3>1, FreshRegistryInv DEF Restart
  <2>3. CASE UNCHANGED registryVars
    BY <2>3
    DEF registryVars, RegistryInv, RegistryTypeOK, NoRepeatedPromotion,
        EveryRollbackTargetIsRegistered, StoredUnderOwnVersion, Registered, Top
  <2> QED BY <2>1, <2>2, <2>3 DEF RegistryNext
<1> QED BY <1>1, <1>2, PTL DEF RegistrySpec

(* Every version on the rollback stack is registered.                      *)
THEOREM RollbackTargetsExist == RegistrySpec => []EveryRollbackTargetIsRegistered
<1>1. RegistryInv => EveryRollbackTargetIsRegistered
  BY DEF RegistryInv
<1> QED BY <1>1, RegistryCorrect, PTL

(* The registry is well typed.                                             *)
THEOREM RegistryTypeCorrect == RegistrySpec => []RegistryTypeOK
<1>1. RegistryInv => RegistryTypeOK
  BY DEF RegistryInv
<1> QED BY <1>1, RegistryCorrect, PTL

(* A rollback never reinstates the version that was active.                *)
THEOREM RollbackMovesAway == RegistrySpec => RollbackLeavesActive
<1>1. RegistryInv /\ [RegistryNext]_registryVars
        => [Rollback => active' # active /\ Len(history') = Len(history) - 1]_registryVars
  <2> SUFFICES ASSUME RegistryInv, Rollback
               PROVE  active' # active /\ Len(history') = Len(history) - 1
    OBVIOUS
  <2> DEFINE n == Len(history)
  <2>1. n \in Nat /\ n > 1 /\ history \in Seq(Versions)
        /\ active = history[n] /\ active' = history[n - 1]
    BY DEF Rollback, RegistryInv, RegistryTypeOK, Top,
           EveryRollbackTargetIsRegistered
  <2>2. history[n - 1] # history[n]
    BY <2>1 DEF RegistryInv, NoRepeatedPromotion
  <2>3. Len(history') = n - 1
    BY <2>1 DEF Rollback
  <2> QED BY <2>1, <2>2, <2>3
<1> QED BY <1>1, RegistryCorrect, PTL DEF RegistrySpec, RollbackLeavesActive

=============================================================================
