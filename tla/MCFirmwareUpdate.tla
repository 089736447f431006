------------------------- MODULE MCFirmwareUpdate -------------------------
(***************************************************************************)
(* FirmwareUpdate for TLC: a legacy factory release, a healthy one and one *)
(* whose applications never start, in one of three settings.               *)
(***************************************************************************)
EXTENDS FirmwareUpdate

CONSTANTS v1, v2, v3,
  Rules,    \* what the operator keeps to, but in each_write
  Settings  \* which of the settings below a behaviour may have

VARIABLE setting

MCVersion == {v1, v2, v3}
MCHealthy == {v1, v2}
MCLegacy == {v1}
MCRuleSets == {Rules, SafetyRules}
Unattended == {"upgrade", "delta", "prevent-revert"}
AllSettings == {"one_write", "each_write", "unattended"}

\* Every operation on the environment is a write of its own, and a firmware
\* may be reverted to that nobody vouched for.
Each == INSTANCE FirmwareUpdate WITH
          Version <- {v1, v3}, Healthy <- {v1}
\* Nobody reverts or validates by hand and the environment is never torn.
Alone == INSTANCE FirmwareUpdate WITH Tasks <- Unattended, EnvTears <- FALSE

mcvars == <<vars, setting>>

MCInit ==
  /\ setting \in Settings /\ Init
  /\ rules = IF setting = "each_write" THEN SafetyRules ELSE Rules
  /\ env_coalesced = (setting # "each_write")
MCNext ==
  /\ \/ setting = "one_write" /\ Next
     \/ setting = "each_write" /\ Each!Next
     \/ setting = "unattended" /\ Alone!Next
  /\ UNCHANGED setting

Runs == setting = "unattended" /\ Alone!Kept /\ UNCHANGED setting
LoaderRuns == Runs /\ Alone!Loader
TaskRuns == Runs /\ Alone!TaskStep
GuardRuns == Runs /\ Alone!GuardValidate
HeartRuns == Runs /\ Alone!HeartReboot

MCSpec ==
  /\ MCInit /\ [][MCNext]_mcvars
  /\ WF_mcvars(LoaderRuns) /\ WF_mcvars(TaskRuns)
  /\ WF_mcvars(GuardRuns) /\ WF_mcvars(HeartRuns)

\* Without an operator a new firmware is validated or reverted (nerves_init),
\* and the device comes back up with a healthy one again and again, if from
\* some time on its loader is not interrupted.
Recovers ==
  /\ setting = "unattended" /\ nerves_fw_validated = 0 /\ power = "off"
       ~> nerves_fw_validated = 1
  /\ setting = "unattended" => HealthyAgain
===========================================================================
