----------------------------- MODULE BoardProofs -----------------------------
(***************************************************************************)
(* Proofs about the board's own software, for all values of the constants: *)
(* the A/B update for any set of releases, any task mix and either way the *)
(* environment writes reach the eMMC, by an inductive invariant that says  *)
(* at each step of a task what the slots, the metadata and the selection   *)
(* variables look like; the plugin's filters, for any controls, values and *)
(* ranges; and camsnap's pictures, for any ring of buffers, period, frames *)
(* and number of faults.                                                   *)
(***************************************************************************)
EXTENDS FirmwareUpdate, HpfLimiter, CamSnapState, FiniteSetTheorems, SequenceTheorems, TLAPS

CONSTANTS MaxFaults, Signals   \* as in CamSnap

Cam == INSTANCE CamSnap

-----------------------------------------------------------------------------
(* The update: the inductive invariant.                                     *)

\* The steps of a task, in order, from one point of an upgrade on.
FromSetPlatform == {"set_platform", "set_uuid", "set_active",
                    "set_validated", "set_booted"}
FromExtlinux == {"extlinux", "resource", "rootfs"} \union FromSetPlatform
FromDtb == {"dtb"} \union FromExtlinux
Writing == {"trim", "Image", "dtb", "extlinux", "resource", "rootfs",
            "set_platform"}
BeforeSwitch == {"unset_platform", "unset_uuid", "set_uuid", "set_active"}
                  \union Writing

\* A task runs only on a powered device with a readable environment.
TaskInv ==
  /\ task.op # "none" => power = "up" /\ envValid
  /\ task.op = "none" => task.step = "none"

\* During an upgrade the device runs from the slot that is not written, which
\* stays the trusted active one until on-finish; the target's metadata is
\* absent until the target is whole.
UpgradeInv ==
  task.op = "upgrade" =>
    /\ task.step \in BeforeSwitch \union {"set_validated", "set_booted"}
    /\ slot = Other(task.target)
    /\ task.step \in BeforeSwitch
         => nerves_fw_active = slot /\ nerves_fw_validated = 1
    /\ task.step \in {"set_validated", "set_booted"}
         => nerves_fw_active = task.target
    /\ task.step \in Writing \union {"unset_uuid"}
         => task.target \notin platform
    /\ task.step \in Writing => uuid[task.target] = None
    /\ task.step \in FromSetPlatform \ {"set_platform"}
         => task.target \in platform
    /\ task.step \in FromDtb => store["Image"][task.target] = task.ver
    /\ task.step \in FromExtlinux => store["dtb"][task.target] = task.ver
    /\ task.step \in FromSetPlatform
         => store["rootfs"][task.target] = task.ver

\* A revert switches between two slots that both carry metadata.
RevertInv ==
  task.op = "revert" =>
    /\ task.step \in {"set_active", "set_validated", "extlinux"}
    /\ slot = Other(task.target)
    /\ task.target \in platform
    /\ nerves_fw_active =
         IF task.step = "set_active" THEN slot ELSE task.target

\* prevent-revert erases the slot that is neither active nor running.
PreventRevertInv ==
  task.op = "prevent-revert" =>
    /\ task.step \in {"unset_platform", "trim", "Image", "dtb"}
    /\ slot = Other(task.target)
    /\ nerves_fw_active = slot
    /\ nerves_fw_validated = 1
    /\ task.step # "unset_platform" => task.target \notin platform

ValidateInv ==
  task.op = "validate" =>
    task.step \in {"set_validated", "unset_upgrade_available"}

\* The selected slot, and the fallback of an unvalidated one, carry metadata.
SelectionInv ==
  /\ nerves_fw_active \in platform
  /\ nerves_fw_validated = 0 => Other(nerves_fw_active) \in platform

\* The slot in use carries metadata, and an unvalidated one is loaded with
\* the bootcount variables gone.
RunningInv ==
  /\ power \in {"loader", "up"} /\ envValid => slot \in platform
  /\ power = "loader" /\ envValid =>
       /\ slot = nerves_fw_active
       /\ nerves_fw_validated = 0 => upgrade_available = "absent"

IInv ==
  /\ TypeOK
  /\ TaskInv
  /\ UpgradeInv
  /\ RevertInv
  /\ PreventRevertInv
  /\ ValidateInv
  /\ SelectionInv
  /\ RunningInv
  /\ MetadataTruthful
  /\ GuardArmed

-----------------------------------------------------------------------------
\* The initial state, what the complete task leaves, satisfies IInv.
LEMMA InitIInv == Init => IInv
  BY ConstantsAssumption
  DEF Init, IInv, TypeOK, TaskInv, UpgradeInv, RevertInv, PreventRevertInv,
      ValidateInv, SelectionInv, RunningInv, MetadataTruthful, GuardArmed,
      Complete, Slot, SlotFile, Content, Other, Task, Step, NoTask, envValid

\* Goto moves a task to another step and changes nothing else of it.
LEMMA GotoTask ==
  ASSUME task \in Task, NEW s \in Step, Goto(s)
  PROVE  /\ task' \in Task
         /\ task'.step = s
         /\ task'.op = task.op
         /\ task'.target = task.target
         /\ task'.ver = task.ver
  BY DEF Goto, Task

\* The beginning of a write changes no more than the io field.
LEMMA BeginIOTask ==
  ASSUME task \in Task, BeginIO
  PROVE  /\ task' \in Task
         /\ task'.step = task.step
         /\ task'.op = task.op
         /\ task'.target = task.target
         /\ task'.ver = task.ver
  BY DEF BeginIO, Task

\* The idle task record is well typed.
LEMMA NoTaskType ==
  NoTask \in Task /\ NoTask.op = "none" /\ NoTask.step = "none"
  BY DEF NoTask, Task, Step, Slot

\* A write to one file of one slot.
LEMMA StoreUpdate ==
  ASSUME store \in [SlotFile -> [Slot -> Content]],
         NEW f \in SlotFile, NEW s \in Slot, NEW c \in Content
  PROVE  LET new == [store EXCEPT ![f][s] = c]
         IN  /\ new \in [SlotFile -> [Slot -> Content]]
             /\ new[f][s] = c
             /\ \A g \in SlotFile, t \in Slot :
                  g # f \/ t # s => new[g][t] = store[g][t]
  OBVIOUS

-----------------------------------------------------------------------------
\* Every step keeps the variables within their types.
LEMMA TypeStep == TypeOK /\ [Next]_vars => TypeOK'
<1> SUFFICES ASSUME TypeOK, [Next]_vars PROVE TypeOK'
  OBVIOUS
<1> USE ConstantsAssumption, NoTaskType, GotoTask, BeginIOTask, StoreUpdate
    DEF TypeOK, Content, env, disk, soc, Step
<1>0. /\ Slot = {"a", "b"} /\ SlotFile = {"Image", "dtb", "rootfs"}
      /\ rules' = rules /\ env_coalesced' = env_coalesced
  BY DEF Slot, SlotFile, Next, Kept, vars
<1>t. task.target \in Slot /\ task.ver \in Version \union {None}
  BY DEF Task
<1>1. CASE nerves_init
  BY <1>0, <1>t, <1>1
  DEF nerves_init, nerves_revert, Booted, DeleteBootcount, MustRevert,
      FirstBoot, nerves_fw_autovalidate, Other
<1>2. CASE SaveenvTorn
  BY <1>0, <1>t, <1>2 DEF SaveenvTorn
<1>3. CASE DistroBoot
  BY <1>0, <1>t, <1>3 DEF DistroBoot
<1>4. CASE nerves_boot
  BY <1>0, <1>t, <1>4 DEF nerves_boot
<1>5. ASSUME NEW v \in Version, StartUpgrade(v) PROVE TypeOK'
  BY <1>0, <1>t, <1>5 DEF StartUpgrade, Start, Task
<1>6. ASSUME NEW v \in Version, StartDelta(v) PROVE TypeOK'
  <2>1. PICK s \in Slot :
           /\ UpgradeRequires(s)
           /\ DeltaBase(s) # None
           /\ Start("upgrade", "unset_platform", s, v, DeltaBase(s))
    BY <1>6 DEF StartDelta
  <2>2. DeltaBase(s) \in Version \union {None}
    BY <1>0 DEF DeltaBase, Other
  <2>3. task' \in Task /\ task'.ver \in Version
    BY <2>1, <2>2 DEF Start, Task
  <2> QED
    BY <1>0, <2>1, <2>3 DEF Start
<1>7. CASE StartRevert
  BY <1>0, <1>t, <1>7 DEF StartRevert, Start, Task
<1>8. CASE StartPreventRevert
  BY <1>0, <1>t, <1>8 DEF StartPreventRevert, Start, Task
<1>9. CASE AppValidate
  BY <1>0, <1>t, <1>9 DEF AppValidate, Start, Task
<1>10. CASE GuardValidate
  BY <1>0, <1>t, <1>10 DEF GuardValidate, Start, Task
<1>11. CASE UnsetPlatform
  <2>1. PICK s \in {"unset_uuid", "trim"} : Goto(s)
    BY <1>11 DEF UnsetPlatform
  <2>2. uuid' \in [Slot -> Version \union {None}]
    BY <1>t, <1>11 DEF UnsetPlatform
  <2> QED
    BY <1>0, <1>t, <1>11, <2>1, <2>2 DEF UnsetPlatform
<1>12. CASE UnsetUuid
  BY <1>0, <1>t, <1>12 DEF UnsetUuid
<1>13. CASE Trim
  <2>0. {store["rootfs"][task.target], Erased} \subseteq Content
    BY <1>0, <1>t
  <2>1. PICK c \in Content :
           store' = [store EXCEPT !["rootfs"][task.target] = c]
    BY <2>0, <1>13 DEF Trim
  <2>2. store' \in [SlotFile -> [Slot -> Content]]
    BY <1>0, <1>t, <2>1
  <2> QED
    BY <1>0, <1>t, <1>13, <2>2 DEF Trim
<1>14. ASSUME NEW f \in SlotFile, BeginWrite(f) PROVE TypeOK'
  BY <1>0, <1>t, <1>14 DEF BeginWrite
<1>15. ASSUME NEW f \in SlotFile, EndWrite(f) PROVE TypeOK'
  <2>1. task.op = "upgrade" /\ task.ver \in Version
    BY <1>15 DEF EndWrite, At
  <2>2. PICK s \in Step : Goto(s)
    BY <1>0, <1>15 DEF EndWrite, NextResource
  <2>3. store' \in [SlotFile -> [Slot -> Content]]
    BY <1>0, <1>t, <1>15, <2>1 DEF EndWrite
  <2> QED
    BY <1>0, <1>15, <2>1, <2>2, <2>3 DEF EndWrite
<1>16. CASE BeginExtlinux
  BY <1>0, <1>t, <1>16 DEF BeginExtlinux
<1>17. CASE EndExtlinux
  BY <1>0, <1>t, <1>17 DEF EndExtlinux, NextResource
<1>18. CASE BeginResource
  BY <1>0, <1>t, <1>18 DEF BeginResource
<1>19. CASE EndResource
  BY <1>0, <1>t, <1>19 DEF EndResource, NextResource, At
<1>20. CASE UpgradeFinish
  BY <1>0, <1>t, <1>20 DEF UpgradeFinish
<1>21. CASE SetPlatform
  <2>1. Goto("set_uuid") /\ platform' \subseteq Slot
    BY <1>t, <1>21 DEF SetPlatform
  <2> QED
    BY <1>0, <1>21, <2>1 DEF SetPlatform
<1>22. CASE SetUuid
  BY <1>0, <1>t, <1>22 DEF SetUuid
<1>23. CASE SetActive
  BY <1>0, <1>t, <1>23 DEF SetActive
<1>24. CASE UpgradeSetValidated
  BY <1>0, <1>t, <1>24 DEF UpgradeSetValidated
<1>25. CASE SetBooted
  BY <1>0, <1>t, <1>25 DEF SetBooted
<1>26. CASE RevertSwitch
  BY <1>0, <1>t, <1>26 DEF RevertSwitch
<1>27. CASE RevertSetValidated
  BY <1>0, <1>t, <1>27 DEF RevertSetValidated
<1>28. ASSUME NEW f \in {"Image", "dtb"}, FatRm(f) PROVE TypeOK'
  BY <1>0, <1>t, <1>28 DEF FatRm
<1>29. CASE ValidateFirmware
  BY <1>0, <1>t, <1>29 DEF ValidateFirmware, Bootcount
<1>30. CASE UnsetUpgradeAvailable
  BY <1>0, <1>t, <1>30 DEF UnsetUpgradeAvailable, Bootcount
<1>31. CASE TaskError
  BY <1>0, <1>t, <1>31 DEF TaskError
<1>32. CASE Reboot
  BY <1>0, <1>t, <1>32 DEF Reboot
<1>33. CASE PowerCut
  BY <1>0, <1>t, <1>33 DEF PowerCut
<1>34. CASE EnvTear
  BY <1>0, <1>t, <1>34 DEF EnvTear
<1>35. CASE UNCHANGED vars
  BY <1>0, <1>35 DEF vars
<1> QED
  BY <1>1, <1>2, <1>3, <1>4, <1>5, <1>6, <1>7, <1>8, <1>9, <1>10, <1>11,
     <1>12, <1>13, <1>14, <1>15, <1>16, <1>17, <1>18, <1>19, <1>20, <1>21,
     <1>22, <1>23, <1>24, <1>25, <1>26, <1>27, <1>28, <1>29, <1>30, <1>31,
     <1>32, <1>33, <1>34, <1>35
  DEF Next, Loader, StartTask, TaskStep, Fault
-----------------------------------------------------------------------------
\* The two slots are each other's fallback.
LEMMA OtherSlot ==
  \A s \in Slot : Other(s) \in Slot /\ Other(s) # s /\ Other(Other(s)) = s
  BY DEF Slot, Other

\* Whoever operates the device keeps the safety rules.
SafeOperator == \A r \in RuleSets : SafetyRules \subseteq r

\* What the rules give a task that starts: it runs on the active slot, and
\* prevent-revert on a validated one.
LEMMA MayRunFacts ==
  ASSUME SafetyRules \subseteq rules, NEW op, MayRun(op)
  PROVE  /\ power = "up" /\ envValid /\ task = NoTask
         /\ slot = nerves_fw_active
         /\ op = "prevent-revert" => nerves_fw_validated = 1
<1>1. Status = <<slot>> => slot = nerves_fw_active
  BY DEF Status
<1> QED
  BY <1>1 DEF MayRun, SafetyRules

\* Every step preserves the invariant, if the operator keeps the rules.
LEMMA InvStep ==
  ASSUME SafeOperator, IInv, [Next]_vars
  PROVE  IInv'
<1>typ. TypeOK /\ TypeOK'
  BY TypeStep DEF IInv
<1>tgt. /\ task.target \in Slot /\ nerves_fw_active \in Slot /\ slot \in Slot
        /\ task \in Task /\ task.step \in Step /\ platform \subseteq Slot
  BY <1>typ DEF TypeOK, Task
<1>rul. SafetyRules \subseteq rules
  BY <1>typ DEF SafeOperator, TypeOK
<1> USE OtherSlot, NoTaskType, GotoTask, BeginIOTask
    DEF TaskInv, UpgradeInv, RevertInv, PreventRevertInv, ValidateInv,
        SelectionInv, RunningInv, GuardArmed, IInv, env, disk, soc,
        Writing, BeforeSwitch, FromDtb, FromExtlinux, FromSetPlatform,
        envValid, Step
<1>1. CASE nerves_init
  BY <1>typ, <1>tgt, <1>1
  DEF nerves_init, MetadataTruthful, Complete, TypeOK, nerves_revert, Booted,
      DeleteBootcount, MustRevert, FirstBoot, nerves_fw_autovalidate, At
<1>2. CASE SaveenvTorn
  BY <1>typ, <1>tgt, <1>2
  DEF SaveenvTorn, MetadataTruthful, Complete, TypeOK, At
<1>3. CASE DistroBoot
  BY <1>typ, <1>tgt, <1>3
  DEF DistroBoot, MetadataTruthful, Complete, TypeOK, At
<1>4. CASE nerves_boot
  BY <1>typ, <1>tgt, <1>4
  DEF nerves_boot, MetadataTruthful, Complete, TypeOK, At, ReadsUnvalidated
<1>5. ASSUME NEW v \in Version, StartUpgrade(v) PROVE IInv'
  <2>1. PICK s \in Slot :
           /\ UpgradeRequires(s)
           /\ Start("upgrade", "unset_platform", s, v, None)
    BY <1>5 DEF StartUpgrade
  <2>2. power = "up" /\ envValid /\ slot = nerves_fw_active
    BY MayRunFacts, <1>rul, <1>5 DEF StartUpgrade
  <2> QED
    BY <1>typ, <1>tgt, <2>1, <2>2
    DEF Start, MetadataTruthful, Complete, UpgradeRequires
<1>6. ASSUME NEW v \in Version, StartDelta(v) PROVE IInv'
  <2>1. PICK s \in Slot :
           /\ UpgradeRequires(s)
           /\ Start("upgrade", "unset_platform", s, v, DeltaBase(s))
    BY <1>6 DEF StartDelta
  <2>2. power = "up" /\ envValid /\ slot = nerves_fw_active
    BY MayRunFacts, <1>rul, <1>6 DEF StartDelta
  <2> QED
    BY <1>typ, <1>tgt, <2>1, <2>2
    DEF Start, MetadataTruthful, Complete, UpgradeRequires
<1>7. CASE StartRevert
  <2>1. PICK s \in Slot :
           /\ RevertRequires(s)
           /\ Start("revert", "set_active", s, None, None)
    BY <1>7 DEF StartRevert
  <2>2. power = "up" /\ envValid /\ slot = nerves_fw_active
    BY MayRunFacts, <1>rul, <1>7 DEF StartRevert
  <2> QED
    BY <1>typ, <1>tgt, <2>1, <2>2
    DEF Start, MetadataTruthful, Complete, RevertRequires
<1>8. CASE StartPreventRevert
  <2>1. PICK s \in Slot :
           /\ PreventRevertRequires(s)
           /\ Start("prevent-revert", "unset_platform", s, None, None)
    BY <1>8 DEF StartPreventRevert
  <2>2. power = "up" /\ envValid /\ slot = nerves_fw_active
    BY MayRunFacts, <1>rul, <1>8 DEF StartPreventRevert
  <2>3. nerves_fw_validated = 1
    BY MayRunFacts, <1>rul, <1>8 DEF StartPreventRevert
  <2> QED
    BY <1>typ, <1>tgt, <2>1, <2>2, <2>3
    DEF Start, MetadataTruthful, Complete, PreventRevertRequires
<1>9. CASE AppValidate
  BY <1>typ, <1>tgt, <1>rul, <1>9
  DEF AppValidate, MetadataTruthful, Complete, TypeOK, Start, MayRun,
      SafetyRules, Status, UpgradeRequires, RevertRequires,
      PreventRevertRequires, At
<1>10. CASE GuardValidate
  BY <1>typ, <1>tgt, <1>10
  DEF GuardValidate, MetadataTruthful, Complete, TypeOK, Start, At
<1>11. CASE UnsetPlatform
  <2>1. PICK s \in {"unset_uuid", "trim"} :
           /\ Goto(s)
           /\ task.op = "upgrade" /\ s = "trim" => uuid'[task.target] = None
           /\ uuid' \in {uuid, [uuid EXCEPT ![task.target] = None]}
           /\ task.op = "prevent-revert" => s = "trim"
    BY <1>typ, <1>tgt, <1>11 DEF UnsetPlatform, TypeOK
  <2>2. task.op \in {"upgrade", "prevent-revert"}
    BY <1>tgt, <1>11 DEF UnsetPlatform, Task
  <2>3. \A t \in Slot : t # task.target => uuid'[t] = uuid[t]
    BY <1>typ, <1>tgt, <2>1 DEF TypeOK
  <2>4. MetadataTruthful'
    BY <1>typ, <1>tgt, <2>3, <1>11
    DEF UnsetPlatform, MetadataTruthful, Complete
  <2>5. task'.step = s /\ task'.op = task.op /\ task'.target = task.target
    BY <1>tgt, <2>1
  <2>6. SelectionInv' /\ RunningInv' /\ GuardArmed'
    BY <1>tgt, <2>2, <1>11 DEF UnsetPlatform
  <2>7. /\ TaskInv' /\ UpgradeInv' /\ RevertInv'
        /\ PreventRevertInv' /\ ValidateInv'
    BY <1>tgt, <2>1, <2>2, <2>5, <1>11 DEF UnsetPlatform
  <2> QED
    BY <1>typ, <2>4, <2>6, <2>7
<1>12. CASE UnsetUuid
  BY <1>typ, <1>tgt, <1>12
  DEF UnsetUuid, MetadataTruthful, Complete, TypeOK, At
<1>13. CASE Trim
  <2>1. PICK c \in Content :
           store' = [store EXCEPT !["rootfs"][task.target] = c]
    <3>1. {store["rootfs"][task.target], Erased} \subseteq Content
      BY <1>typ, <1>tgt DEF TypeOK, Content, SlotFile
    <3> QED
      BY <3>1, <1>13 DEF Trim
  <2>2. \A g \in SlotFile, t \in Slot :
           t # task.target => store'[g][t] = store[g][t]
    BY StoreUpdate, <1>typ, <1>tgt, <2>1 DEF TypeOK, SlotFile
  <2>3. task.op \in {"upgrade", "prevent-revert"} /\ Goto("Image")
    BY <1>tgt, <1>13 DEF Trim, Task
  <2>4. MetadataTruthful'
    BY <1>tgt, <2>2, <2>3, <1>13
    DEF Trim, MetadataTruthful, Complete, SlotFile
  <2> QED
    BY <1>typ, <1>tgt, <2>3, <2>4, <1>13 DEF Trim
<1>14. ASSUME NEW f \in SlotFile, BeginWrite(f) PROVE IInv'
  BY <1>typ, <1>tgt, <1>14
  DEF BeginWrite, MetadataTruthful, Complete, TypeOK, At
<1>15. ASSUME NEW f \in SlotFile, EndWrite(f) PROVE IInv'
  <2>1. /\ task.op = "upgrade" /\ task.step = f /\ task.ver \in Version
        /\ task.target \notin platform
    BY <1>typ, <1>15 DEF EndWrite, At, TypeOK, SlotFile
  <2>2. /\ store'[f][task.target] = task.ver
        /\ \A g \in SlotFile, t \in Slot :
             g # f \/ t # task.target => store'[g][t] = store[g][t]
    BY StoreUpdate, <1>typ, <1>tgt, <2>1, <1>15 DEF EndWrite, TypeOK, Content
  <2>3. MetadataTruthful'
    BY <1>tgt, <2>1, <2>2, <1>15
    DEF EndWrite, MetadataTruthful, Complete, SlotFile
  <2>4. CASE f = "Image"
    BY <1>typ, <1>tgt, <2>1, <2>2, <2>3, <2>4, <1>15
    DEF EndWrite, NextResource, SlotFile
  <2>5. CASE f = "dtb"
    BY <1>typ, <1>tgt, <2>1, <2>2, <2>3, <2>5, <1>15
    DEF EndWrite, NextResource, SlotFile
  <2>6. CASE f = "rootfs"
    BY <1>typ, <1>tgt, <2>1, <2>2, <2>3, <2>6, <1>15
    DEF EndWrite, NextResource, SlotFile
  <2> QED
    BY <2>4, <2>5, <2>6 DEF SlotFile
<1>16. CASE BeginExtlinux
  BY <1>typ, <1>tgt, <1>16
  DEF BeginExtlinux, MetadataTruthful, Complete, TypeOK, At
<1>17. CASE EndExtlinux
  BY <1>typ, <1>tgt, <1>17
  DEF EndExtlinux, MetadataTruthful, Complete, TypeOK, NextResource, At
<1>18. CASE BeginResource
  BY <1>typ, <1>tgt, <1>18
  DEF BeginResource, MetadataTruthful, Complete, TypeOK, At
<1>19. CASE EndResource
  BY <1>typ, <1>tgt, <1>19
  DEF EndResource, MetadataTruthful, Complete, TypeOK, NextResource, At
<1>20. CASE UpgradeFinish
  BY <1>typ, <1>tgt, <1>20
  DEF UpgradeFinish, MetadataTruthful, Complete, TypeOK, At
<1>21. CASE SetPlatform
  BY <1>typ, <1>tgt, <1>21
  DEF SetPlatform, MetadataTruthful, Complete, TypeOK, At
<1>22. CASE SetUuid
  BY <1>typ, <1>tgt, <1>22 DEF SetUuid, MetadataTruthful, Complete, TypeOK, At
<1>23. CASE SetActive
  <2>1. task.op \in {"upgrade", "revert"} /\ Goto("set_validated")
    BY <1>tgt, <1>23 DEF SetActive, Task
  <2>2. /\ nerves_fw_active = slot /\ slot = Other(task.target)
        /\ task.target \in platform
    BY <1>tgt, <2>1, <1>23 DEF SetActive
  <2>3. MetadataTruthful'
    BY <1>23 DEF SetActive, MetadataTruthful, Complete
  <2>4. SelectionInv' /\ RunningInv' /\ GuardArmed'
    BY <1>tgt, <2>1, <2>2, <1>23 DEF SetActive
  <2>5. UpgradeInv' /\ RevertInv'
    BY <1>tgt, <2>1, <2>2, <1>23 DEF SetActive
  <2> QED
    BY <1>typ, <1>tgt, <2>1, <2>3, <2>4, <2>5, <1>23 DEF SetActive
<1>24. CASE UpgradeSetValidated
  BY <1>typ, <1>tgt, <1>24
  DEF UpgradeSetValidated, MetadataTruthful, Complete, TypeOK, At
<1>25. CASE SetBooted
  BY <1>typ, <1>tgt, <1>25
  DEF SetBooted, MetadataTruthful, Complete, TypeOK, At
<1>26. CASE RevertSwitch
  BY <1>typ, <1>tgt, <1>26
  DEF RevertSwitch, MetadataTruthful, Complete, TypeOK, At
<1>27. CASE RevertSetValidated
  BY <1>typ, <1>tgt, <1>27
  DEF RevertSetValidated, MetadataTruthful, Complete, TypeOK, At
<1>28. ASSUME NEW f \in {"Image", "dtb"}, FatRm(f) PROVE IInv'
  BY <1>typ, <1>tgt, <1>28 DEF FatRm, MetadataTruthful, Complete, TypeOK, At
<1>29. CASE ValidateFirmware
  BY <1>typ, <1>tgt, <1>29
  DEF ValidateFirmware, MetadataTruthful, Complete, TypeOK, Bootcount, At
<1>30. CASE UnsetUpgradeAvailable
  BY <1>typ, <1>tgt, <1>30
  DEF UnsetUpgradeAvailable, MetadataTruthful, Complete, TypeOK, Bootcount, At
<1>31. CASE TaskError
  BY <1>typ, <1>tgt, <1>31
  DEF TaskError, MetadataTruthful, Complete, TypeOK, At
<1>32. CASE Reboot
  BY <1>typ, <1>tgt, <1>32 DEF Reboot, MetadataTruthful, Complete, TypeOK, At
<1>33. CASE PowerCut
  BY <1>typ, <1>tgt, <1>33
  DEF PowerCut, MetadataTruthful, Complete, TypeOK, At
<1>34. CASE EnvTear
  BY <1>typ, <1>tgt, <1>34 DEF EnvTear, MetadataTruthful, Complete, TypeOK, At
<1>35. CASE UNCHANGED vars
  BY <1>typ, <1>35 DEF vars, MetadataTruthful, Complete
<1> QED
  BY <1>1, <1>2, <1>3, <1>4, <1>5, <1>6, <1>7, <1>8, <1>9, <1>10, <1>11,
     <1>12, <1>13, <1>14, <1>15, <1>16, <1>17, <1>18, <1>19, <1>20, <1>21,
     <1>22, <1>23, <1>24, <1>25, <1>26, <1>27, <1>28, <1>29, <1>30, <1>31,
     <1>32, <1>33, <1>34, <1>35
  DEF Next, Loader, StartTask, TaskStep, Fault

-----------------------------------------------------------------------------
\* The variables keep their types, whatever the operator does.
THEOREM TypeCorrect == Spec => []TypeOK
<1>1. Init => TypeOK
  BY InitIInv DEF IInv
<1> QED
  BY <1>1, TypeStep, PTL DEF Spec

\* The inductive invariant holds in every reachable state.
THEOREM Invariance == ASSUME SafeOperator PROVE Spec => []IInv
<1>1. IInv /\ [Next]_vars => IInv'
  BY InvStep
<1> QED
  BY InitIInv, <1>1, PTL DEF Spec

\* A slot whose metadata fwup would accept holds one whole release.
THEOREM MetadataTheorem ==
  ASSUME SafeOperator PROVE Spec => []MetadataTruthful
<1>1. IInv => MetadataTruthful
  BY DEF IInv
<1> QED
  BY <1>1, Invariance, PTL

\* No interruption leaves the device without a slot that boots.
THEOREM NeverBrickedTheorem ==
  ASSUME SafeOperator PROVE Spec => []NeverBricked
<1>1. IInv => NeverBricked
  BY DEF IInv, SelectionInv, MetadataTruthful, NeverBricked
<1> QED
  BY <1>1, Invariance, PTL

\* The slot the device runs from is never written.
THEOREM RunningSlotTheorem ==
  ASSUME SafeOperator PROVE Spec => []RunningSlotIntact
<1>1. IInv => RunningSlotIntact
  BY DEF IInv, RunningInv, MetadataTruthful, RunningSlotIntact
<1> QED
  BY <1>1, Invariance, PTL

\* An unvalidated firmware always runs with its startup guard armed.
THEOREM GuardTheorem == ASSUME SafeOperator PROVE Spec => []GuardArmed
<1>1. IInv => GuardArmed
  BY DEF IInv
<1> QED
  BY <1>1, Invariance, PTL

\* No sequence of tasks and interruptions makes fwup refuse all upgrades.
THEOREM UpgradeTheorem ==
  ASSUME SafeOperator PROVE Spec => []UpgradePossible
<1>1. IInv => UpgradePossible
  <2> SUFFICES ASSUME IInv PROVE UpgradePossible
    OBVIOUS
  <2>1. nerves_fw_active \in platform /\ nerves_fw_active \in {"a", "b"}
    BY DEF IInv, SelectionInv, TypeOK, Slot
  <2>2. nerves_fw_validated \in {0, 1}
    BY DEF IInv, TypeOK
  <2>3. CASE nerves_fw_validated = 0
    BY <2>3 DEF UpgradePossible, UpgradeTask, UpgradeRequires
  <2>4. CASE nerves_fw_validated = 1 /\ nerves_fw_active = "b"
    BY <2>1, <2>4 DEF UpgradePossible, UpgradeTask, UpgradeRequires, Other
  <2>5. CASE nerves_fw_validated = 1 /\ nerves_fw_active = "a"
    BY <2>1, <2>5 DEF UpgradePossible, UpgradeTask, UpgradeRequires, Other
  <2> QED
    BY <2>1, <2>2, <2>3, <2>4, <2>5
<1> QED
  BY <1>1, Invariance, PTL

\* Only four steps of a task write to a slot, and none of them while the
\* active firmware is unvalidated.
LEMMA FreezeStep ==
  ASSUME IInv, [Next]_vars, nerves_fw_validated = 0
  PROVE  UNCHANGED store
<1>1. ~Trim
  BY DEF IInv, Trim, TypeOK, Task, UpgradeInv, RevertInv, PreventRevertInv,
         ValidateInv, TaskInv, Writing, BeforeSwitch
<1>2. \A f \in SlotFile : ~BeginWrite(f) /\ ~EndWrite(f)
  BY DEF IInv, BeginWrite, EndWrite, At, UpgradeInv, Writing, BeforeSwitch,
         SlotFile
<1>3. \A f \in {"Image", "dtb"} : ~FatRm(f)
  BY DEF IInv, FatRm, At, PreventRevertInv
<1>4. CASE Loader \/ GuardValidate \/ Reboot \/ Fault
  BY <1>4 DEF Loader, nerves_init, DistroBoot, nerves_boot, GuardValidate,
              Start, Reboot, Fault, SaveenvTorn, TaskError, PowerCut, EnvTear,
              disk
<1>5. CASE StartTask
  BY <1>5 DEF StartTask, StartUpgrade, StartDelta, StartRevert,
              StartPreventRevert, AppValidate, Start, disk
<1>6. CASE TaskStep
  BY <1>1, <1>2, <1>3, <1>6
  DEF TaskStep, UnsetPlatform, UnsetUuid, BeginExtlinux, EndExtlinux,
      BeginResource, EndResource, UpgradeFinish, SetPlatform, SetUuid,
      SetActive, UpgradeSetValidated, SetBooted, RevertSwitch,
      RevertSetValidated, ValidateFirmware, UnsetUpgradeAvailable, disk
<1>7. CASE UNCHANGED vars
  BY <1>7 DEF vars, disk
<1> QED
  BY <1>4, <1>5, <1>6, <1>7 DEF Next

\* While the active firmware is unvalidated neither slot is touched, so the
\* automatic revert finds the fallback as it was.
THEOREM FreezeTheorem ==
  ASSUME SafeOperator PROVE Spec => UnvalidatedFreezesSlots
<1>1. IInv /\ [Next]_vars
        => [envValid /\ nerves_fw_validated = 0 => UNCHANGED store]_vars
  BY FreezeStep
<1> QED
  BY <1>1, Invariance, PTL DEF Spec, UnvalidatedFreezesSlots

-----------------------------------------------------------------------------
\* A step that moves the task on without writing a slot keeps DeltaSources.
LEMMA DeltaKept ==
  ASSUME task \in Task, DeltaSources, store' = store,
         task' = NoTask \/ BeginIO \/ \E s \in Step : Goto(s)
  PROVE  DeltaSources'
<1>1. task' = NoTask \/ (task'.op = task.op /\ task'.target = task.target
                           /\ task'.base = task.base)
  BY DEF BeginIO, Goto, Task
<1> QED
  BY <1>1 DEF DeltaSources, NoTask, Other

\* Every step preserves DeltaSources: a delta starts from what the metadata of
\* the active slot says, which is true, and no task writes that slot.
LEMMA DeltaStep ==
  ASSUME SafeOperator, IInv, DeltaSources, [Next]_vars
  PROVE  DeltaSources'
<1>typ. /\ task \in Task /\ task.target \in Slot /\ Other(task.target) # task.target
        /\ store \in [SlotFile -> [Slot -> Content]]
  BY OtherSlot DEF IInv, TypeOK, Task
<1> USE DEF env, disk, soc, Step
<1>1. CASE Loader \/ Reboot \/ SaveenvTorn \/ UNCHANGED vars
  BY <1>1 DEF Loader, nerves_init, DistroBoot, nerves_boot, Reboot, SaveenvTorn,
              vars, DeltaSources, NoTask, Other
<1>2. CASE TaskError \/ PowerCut \/ EnvTear
  BY <1>typ, <1>2, DeltaKept DEF TaskError, PowerCut, EnvTear
<1>3. CASE \E v \in Version : StartDelta(v)
  <2>1. PICK v \in Version, s \in Slot :
          /\ UpgradeRequires(s) /\ DeltaBase(s) # None
          /\ Start("upgrade", "unset_platform", s, v, DeltaBase(s))
    BY <1>3 DEF StartDelta
  <2>2. Other(s) \in platform /\ uuid[Other(s)] = store["Image"][Other(s)]
    BY <2>1 DEF UpgradeRequires, DeltaBase, IInv, MetadataTruthful
  <2>3. \A f \in SlotFile : store[f][Other(s)] = DeltaBase(s)
    BY <2>1, <2>2 DEF IInv, MetadataTruthful, Complete, DeltaBase, SlotFile
  <2> QED
    BY <2>1, <2>3 DEF Start, DeltaSources
<1>4. CASE (\E v \in Version : StartUpgrade(v)) \/ StartRevert
             \/ StartPreventRevert \/ AppValidate \/ GuardValidate
  BY <1>4 DEF StartUpgrade, StartRevert, StartPreventRevert, AppValidate,
              GuardValidate, Start, DeltaSources
<1>5. ASSUME NEW f \in SlotFile, NEW c, store' = [store EXCEPT ![f][task.target] = c],
             task' = NoTask \/ BeginIO \/ \E s \in Step : Goto(s)
      PROVE  DeltaSources'
  <2>1. task' = NoTask \/ (task'.op = task.op /\ task'.target = task.target
                             /\ task'.base = task.base)
    BY <1>typ, <1>5 DEF BeginIO, Goto, Task
  <2>2. \A g \in SlotFile : store'[g][Other(task.target)] = store[g][Other(task.target)]
    BY <1>typ, <1>5
  <2> QED
    BY <2>1, <2>2 DEF DeltaSources, NoTask, Other
<1>6. CASE Trim
  <2>1. PICK c : store' = [store EXCEPT !["rootfs"][task.target] = c]
    BY <1>6 DEF Trim
  <2> QED
    BY <1>5, <1>6, <2>1 DEF Trim, SlotFile
<1>7. ASSUME NEW f \in SlotFile, BeginWrite(f) PROVE DeltaSources'
  BY <1>5, <1>7 DEF BeginWrite
<1>8. ASSUME NEW f \in SlotFile, EndWrite(f) PROVE DeltaSources'
  <2>1. NextResource(f) \in Step
    BY <1>8, Zenon DEF NextResource, SlotFile
  <2> QED
    BY <1>5, <1>8, <2>1 DEF EndWrite
<1>9. ASSUME NEW f \in {"Image", "dtb"}, FatRm(f) PROVE DeltaSources'
  BY <1>5, <1>9 DEF FatRm, SlotFile
<1>10. CASE UnsetPlatform \/ UnsetUuid \/ BeginExtlinux \/ BeginResource
  BY <1>typ, <1>10, DeltaKept DEF UnsetPlatform, UnsetUuid, BeginExtlinux, BeginResource
<1>11. CASE EndExtlinux \/ EndResource
  <2>1. NextResource("extlinux") \in Step /\ NextResource("resource") \in Step
    BY Zenon DEF NextResource
  <2> QED
    BY <1>typ, <1>11, <2>1, DeltaKept DEF EndExtlinux, EndResource
<1>12. CASE UpgradeFinish \/ SetPlatform \/ SetUuid \/ SetActive
              \/ UpgradeSetValidated \/ SetBooted
  BY <1>typ, <1>12, DeltaKept DEF UpgradeFinish, SetPlatform, SetUuid, SetActive,
                                  UpgradeSetValidated, SetBooted
<1>13. CASE RevertSwitch \/ RevertSetValidated \/ ValidateFirmware
              \/ UnsetUpgradeAvailable
  BY <1>typ, <1>13, DeltaKept DEF RevertSwitch, RevertSetValidated, ValidateFirmware,
                                  UnsetUpgradeAvailable
<1> QED
  BY <1>1, <1>2, <1>3, <1>4, <1>6, <1>7, <1>8, <1>9, <1>10, <1>11, <1>12, <1>13
  DEF Next, StartTask, TaskStep, Fault

\* A delta upgrade always finds the release it was made for in the slot it is
\* decoded against.
THEOREM DeltaTheorem ==
  ASSUME SafeOperator PROVE Spec => []DeltaSources
<1>1. Init => DeltaSources
  BY DEF Init, DeltaSources, NoTask
<1>2. IInv /\ DeltaSources /\ [Next]_vars => DeltaSources'
  BY DeltaStep
<1> QED
  BY <1>1, <1>2, Invariance, PTL DEF Spec

-----------------------------------------------------------------------------
(* Trust: with the environment sections written at once and the operator   *)
(* reverting only to firmware that once validated itself, only such        *)
(* firmware boots without the automatic revert.                            *)

\* The active slot, or the fallback of an unvalidated one, vouched for
\* itself; the guard and the validate task concern the active slot, or come
\* after a revert that leaves nothing to validate.
TrustInv ==
  /\ nerves_fw_validated = 1 => nerves_fw_active \in vouched
  /\ nerves_fw_validated = 0 => Other(nerves_fw_active) \in vouched
  /\ guard = "armed" =>
       /\ power = "up"
       /\ (slot = nerves_fw_active) <=> (nerves_fw_validated = 0)
  /\ task.op = "validate" => slot = nerves_fw_active \/ nerves_fw_validated = 1
  /\ task.step \notin {"unset_uuid", "set_uuid", "set_booted"}
  /\ task.step = "set_active" => task.op = "revert" /\ task.target \in vouched
  /\ task.step = "set_validated" => task.op = "validate"

\* Every step preserves TrustInv.
LEMMA TrustStep ==
  ASSUME rules = AllRules, env_coalesced,
         IInv, TrustInv, [Next]_vars
  PROVE  TrustInv'
<1>rul. SafetyRules \subseteq rules
  BY DEF AllRules
<1>typ. TypeOK /\ TypeOK'
  BY TypeStep DEF IInv
<1>tgt. /\ task.target \in Slot /\ nerves_fw_active \in Slot /\ slot \in Slot
        /\ task \in Task /\ task.step \in Step
        /\ nerves_fw_validated \in {0, 1} /\ nerves_fw_booted \in {0, 1}
  BY <1>typ DEF TypeOK, Task
<1> USE OtherSlot, NoTaskType, GotoTask, BeginIOTask
    DEF TrustInv, env, disk, soc, envValid, Step
<1>1. CASE nerves_init
  BY <1>tgt, <1>1 DEF nerves_init, nerves_revert, MustRevert, FirstBoot,
                      nerves_fw_autovalidate
<1>2. CASE nerves_boot
  BY <1>tgt, <1>2 DEF nerves_boot, ReadsUnvalidated, IInv, RunningInv
<1>3. CASE DistroBoot \/ Reboot \/ Fault
  <2>1. CASE DistroBoot
    BY <1>tgt, <2>1 DEF DistroBoot, IInv, TaskInv
  <2>2. CASE Reboot \/ PowerCut \/ EnvTear
    BY <1>tgt, <2>2 DEF Reboot, PowerCut, EnvTear
  <2>3. CASE SaveenvTorn \/ TaskError
    BY <1>tgt, <2>3 DEF SaveenvTorn, TaskError
  <2> QED
    BY <1>3, <2>1, <2>2, <2>3 DEF Fault
<1>4. CASE GuardValidate
  BY <1>tgt, <1>4 DEF GuardValidate, Start
<1>5. CASE StartTask
  <2>1. ASSUME NEW v \in Version, StartUpgrade(v) PROVE TrustInv'
    BY <1>tgt, <2>1 DEF StartUpgrade, Start
  <2>2. ASSUME NEW v \in Version, StartDelta(v) PROVE TrustInv'
    BY <1>tgt, <2>2 DEF StartDelta, Start
  <2>3. CASE StartRevert
    BY <1>tgt, <2>3 DEF StartRevert, MayRevert, Start, AllRules
  <2>4. CASE StartPreventRevert
    BY <1>tgt, <2>4 DEF StartPreventRevert, Start
  <2>5. CASE AppValidate
    BY <1>tgt, <1>rul, <2>5, MayRunFacts DEF AppValidate, Start
  <2> QED
    BY <1>5, <2>1, <2>2, <2>3, <2>4, <2>5 DEF StartTask
<1>6. CASE UnsetPlatform
  BY <1>tgt, <1>6 DEF UnsetPlatform
<1>7. CASE Trim
  <2>1. nerves_fw_validated = 1 /\ nerves_fw_active # task.target
    BY <1>tgt, <1>7 DEF Trim, IInv, TypeOK, Task, UpgradeInv, RevertInv,
       PreventRevertInv, TaskInv, ValidateInv, Writing, BeforeSwitch
  <2> QED
    BY <1>tgt, <1>7, <2>1 DEF Trim
<1>8. ASSUME NEW f \in SlotFile, BeginWrite(f) \/ EndWrite(f) PROVE TrustInv'
  BY <1>tgt, <1>8 DEF BeginWrite, EndWrite, At, NextResource, SlotFile
<1>9. CASE BeginExtlinux \/ EndExtlinux \/ BeginResource \/ EndResource
  BY <1>tgt, <1>9 DEF BeginExtlinux, EndExtlinux, BeginResource, EndResource,
                      At, NextResource
<1>10. CASE UpgradeFinish
  <2>1. /\ nerves_fw_validated = 1 /\ nerves_fw_active = slot
        /\ slot = Other(task.target)
    BY <1>tgt, <1>10 DEF UpgradeFinish, At, IInv, UpgradeInv, Writing,
                         BeforeSwitch
  <2> QED
    BY <1>tgt, <1>10, <2>1 DEF UpgradeFinish, At
<1>11. ~ (UnsetUuid \/ SetPlatform \/ SetUuid \/ SetActive
          \/ UpgradeSetValidated \/ SetBooted \/ RevertSetValidated)
  BY DEF UnsetUuid, SetPlatform, SetUuid, SetActive, UpgradeSetValidated,
         SetBooted, RevertSetValidated, At
<1>12. ASSUME NEW f \in {"Image", "dtb"}, FatRm(f) PROVE TrustInv'
  BY <1>tgt, <1>12 DEF FatRm, At
<1>13. CASE ValidateFirmware
  BY <1>tgt, <1>13 DEF ValidateFirmware, At
<1>14. CASE UnsetUpgradeAvailable
  BY <1>tgt, <1>14 DEF UnsetUpgradeAvailable, At
<1>15. CASE UNCHANGED vars
  BY <1>15 DEF vars
<1>16. CASE RevertSwitch
  BY <1>tgt, <1>16 DEF RevertSwitch, At, IInv, RevertInv
<1> QED
  BY <1>1, <1>2, <1>3, <1>4, <1>5, <1>6, <1>7, <1>8, <1>9, <1>10, <1>11,
     <1>12, <1>13, <1>14, <1>15, <1>16 DEF Next, Loader, TaskStep

\* Only a firmware that validated itself is booted without the automatic
\* revert, when a section's environment operations are one write and the
\* operator reverts only to slots that once validated themselves.
THEOREM TrustTheorem == ASSUME SafeOperator PROVE Spec => []Trusted
<1> DEFINE Inv == env_coalesced /\ rules = AllRules => TrustInv
<1>1. Init => Inv
  BY DEF Init, TrustInv, NoTask
<1>2. IInv /\ Inv /\ [Next]_vars => Inv'
  <2>1. [Next]_vars => rules' = rules /\ env_coalesced' = env_coalesced
    BY DEF Next, Kept, vars
  <2> QED
    BY <2>1, TrustStep
<1>3. Inv => Trusted
  BY DEF TrustInv, TrustedActive, Trusted
<1> QED
  BY <1>1, <1>2, <1>3, Invariance, PTL DEF Spec

-----------------------------------------------------------------------------
(* FirmwareUpdate implements SlotUpdate, when a section's environment      *)
(* operations are one write and the operator keeps the safety rules.       *)

\* With coalesced writes a task never stands between two environment
\* operations of one section.
OneWriteInv ==
  /\ task.step \notin {"unset_uuid", "set_uuid", "set_booted"}
  /\ task.step = "set_active" => task.op = "revert"
  /\ task.step = "set_validated" => task.op = "validate"

\* Every step preserves OneWriteInv.
LEMMA OneWriteStep ==
  ASSUME env_coalesced, IInv, OneWriteInv, [Next]_vars
  PROVE  OneWriteInv'
<1>typ. task \in Task
  BY DEF IInv, TypeOK
<1> USE NoTaskType, GotoTask, BeginIOTask DEF OneWriteInv, At, Step
<1>1. CASE Loader \/ Reboot \/ Fault \/ UNCHANGED vars
  BY <1>1 DEF Loader, nerves_init, DistroBoot, nerves_boot, Reboot, Fault,
              SaveenvTorn, TaskError, PowerCut, EnvTear, vars
<1>2. CASE StartTask \/ GuardValidate
  BY <1>2 DEF StartTask, StartUpgrade, StartDelta, StartRevert,
              StartPreventRevert, AppValidate, GuardValidate, Start
<1>3. CASE UnsetPlatform \/ UnsetUuid \/ Trim
  BY <1>typ, <1>3 DEF UnsetPlatform, UnsetUuid, Trim
<1>4. ASSUME NEW f \in SlotFile, BeginWrite(f) \/ EndWrite(f)
      PROVE  OneWriteInv'
  BY <1>typ, <1>4 DEF BeginWrite, EndWrite, NextResource, SlotFile
<1>5. CASE BeginExtlinux \/ EndExtlinux \/ BeginResource \/ EndResource
  BY <1>typ, <1>5 DEF BeginExtlinux, EndExtlinux, BeginResource, EndResource,
                      NextResource
<1>6. CASE UpgradeFinish \/ SetPlatform \/ SetUuid \/ SetActive
             \/ UpgradeSetValidated \/ SetBooted
  BY <1>typ, <1>6 DEF UpgradeFinish, SetPlatform, SetUuid, SetActive,
                      UpgradeSetValidated, SetBooted
<1>7. CASE RevertSwitch \/ RevertSetValidated
  BY <1>typ, <1>7 DEF RevertSwitch, RevertSetValidated
<1>8. ASSUME NEW f \in {"Image", "dtb"}, FatRm(f)
      PROVE  OneWriteInv'
  BY <1>typ, <1>8 DEF FatRm
<1>9. CASE ValidateFirmware \/ UnsetUpgradeAvailable
  BY <1>typ, <1>9 DEF ValidateFirmware, UnsetUpgradeAvailable
<1> QED
  BY <1>1, <1>2, <1>3, <1>4, <1>5, <1>6, <1>7, <1>8, <1>9
  DEF Next, TaskStep

-----------------------------------------------------------------------------
\* The variables of the abstract update as the slots and the environment
\* give them.
Current == store["Image"][nerves_fw_active]
Spare == Announced(Other(nerves_fw_active))
Same == UNCHANGED <<Current, Spare, nerves_fw_validated, envCrc>>

\* Nothing the abstract update knows of changes when the environment stays as
\* it is and the kernels of the slots with metadata do.
LEMMA SameWhen ==
  ASSUME UNCHANGED <<envCrc, nerves_fw_active, nerves_fw_validated, platform>>,
         IInv,
         \A s \in platform : store'["Image"][s] = store["Image"][s]
  PROVE  Same
<1>1. nerves_fw_active \in platform
  BY DEF IInv, SelectionInv
<1> QED
  BY <1>1 DEF Same, Current, Spare, Announced

\* A stutter of the four state functions is one of the abstract variables.
LEMMA SameStutters == Same => UNCHANGED Promise!vars
  BY DEF Same, Current, Spare, Promise!vars, envValid

\* Every step of FirmwareUpdate is a step of SlotUpdate or stutters.
LEMMA PromiseStep ==
  ASSUME env_coalesced, IInv, OneWriteInv, [Next]_vars
  PROVE  [Promise!Next]_(Promise!vars)
<1>typ. /\ TypeOK /\ task.target \in Slot /\ nerves_fw_active \in Slot
        /\ task \in Task /\ platform \subseteq Slot /\ nerves_fw_active \in platform
        /\ nerves_fw_validated \in {0, 1} /\ envCrc \in {"good", "bad"}
  BY DEF IInv, TypeOK, Task, SelectionInv
<1>whole. \A s \in platform : store["Image"][s] \in Version /\ store["Image"][s] # None
  BY ConstantsAssumption DEF IInv, MetadataTruthful, Complete
<1>1. CASE nerves_init
  <2>1. CASE MustRevert
    <3>1. Other(nerves_fw_active) \in platform
      BY <2>1 DEF MustRevert, IInv, SelectionInv
    <3>2. Promise!GoBack
      BY <1>1, <1>typ, <1>whole, <2>1, <3>1, OtherSlot
      DEF nerves_init, Promise!GoBack, Announced, nerves_revert, disk, envValid
    <3> QED
      BY <3>2 DEF Promise!Next
  <2>2. CASE ~MustRevert
    BY <1>1, <2>2, SameWhen, SameStutters
    DEF nerves_init, nerves_fw_autovalidate, disk
  <2> QED
    BY <2>1, <2>2
<1>2. CASE SaveenvTorn \/ EnvTear
  <2>1. envValid
    BY <1>2, <1>typ DEF SaveenvTorn, EnvTear, EnvStep, IInv, TaskInv, Task
  <2>2. Promise!Lose
    BY <1>2, <2>1 DEF SaveenvTorn, EnvTear, Promise!Lose, Announced, disk, envValid
  <2> QED
    BY <2>2 DEF Promise!Next
<1>3. CASE DistroBoot \/ nerves_boot \/ Reboot \/ TaskError \/ PowerCut \/ UNCHANGED vars
  BY <1>3, SameWhen, SameStutters
  DEF DistroBoot, nerves_boot, Reboot, TaskError, PowerCut, vars, env, disk
<1>4. CASE StartTask \/ GuardValidate
  BY <1>4, SameWhen, SameStutters
  DEF StartTask, StartUpgrade, StartDelta, StartRevert, StartPreventRevert,
      AppValidate, GuardValidate, Start, env, disk
<1>5. CASE UnsetPlatform
  <2>1. /\ task.op \in {"upgrade", "prevent-revert"} /\ envValid
        /\ nerves_fw_active = Other(task.target) /\ nerves_fw_validated = 1
    BY <1>5, <1>typ DEF UnsetPlatform, IInv, TaskInv, UpgradeInv, RevertInv,
       PreventRevertInv, ValidateInv, BeforeSwitch, Task
  <2>2. Promise!Discard
    BY <1>5, <1>typ, <2>1, OtherSlot
    DEF UnsetPlatform, Promise!Discard, Announced, disk, envValid
  <2> QED
    BY <2>2 DEF Promise!Next
<1>6. CASE Trim
  BY <1>6, <1>typ, SameWhen, SameStutters DEF Trim, env, TypeOK, SlotFile
<1>7. ASSUME NEW f \in SlotFile, BeginWrite(f) \/ EndWrite(f)
      PROVE  Same
  <2>1. task.target \notin platform
    BY <1>7, <1>typ DEF BeginWrite, EndWrite, At, IInv, UpgradeInv, Writing, SlotFile
  <2>2. PICK c : store' = [store EXCEPT ![f][task.target] = c]
    BY <1>7 DEF BeginWrite, EndWrite
  <2>3. \A s \in platform : store'["Image"][s] = store["Image"][s]
    BY <1>typ, <2>1, <2>2 DEF TypeOK, SlotFile
  <2>4. UNCHANGED <<envCrc, nerves_fw_active, nerves_fw_validated, platform>>
    BY <1>7 DEF BeginWrite, EndWrite, env
  <2> QED
    BY <2>3, <2>4, SameWhen
<1>8. CASE BeginExtlinux \/ EndExtlinux \/ BeginResource \/ EndResource
             \/ UnsetUuid \/ UnsetUpgradeAvailable
  BY <1>8, SameWhen, SameStutters
  DEF BeginExtlinux, EndExtlinux, BeginResource, EndResource, UnsetUuid,
      UnsetUpgradeAvailable, env, disk
<1>9. CASE UpgradeFinish
  <2>1. /\ nerves_fw_active = Other(task.target) /\ nerves_fw_validated = 1 /\ envValid
        /\ task.target \notin platform /\ task.ver \in Version
        /\ store["Image"][task.target] = task.ver
    BY <1>9, <1>typ DEF UpgradeFinish, At, IInv, TypeOK, TaskInv, UpgradeInv, BeforeSwitch,
       Writing, FromDtb, FromExtlinux, FromSetPlatform
  <2>2. Promise!Install(task.ver)
    BY <1>9, <1>typ, <2>1, OtherSlot
    DEF UpgradeFinish, Promise!Install, Announced, disk, envValid
  <2> QED
    BY <2>1, <2>2 DEF Promise!Next
<1>10. ~(SetPlatform \/ SetUuid \/ SetActive \/ UpgradeSetValidated \/ SetBooted
           \/ RevertSetValidated)
  BY DEF SetPlatform, SetUuid, SetActive, UpgradeSetValidated, SetBooted,
         RevertSetValidated, At, OneWriteInv
<1>11. CASE RevertSwitch
  <2>1. /\ nerves_fw_active = Other(task.target) /\ envValid
        /\ task.target \in platform
    BY <1>11, <1>typ DEF RevertSwitch, At, IInv, TaskInv, RevertInv
  <2>2. Promise!GoBack
    BY <1>11, <1>typ, <1>whole, <2>1, OtherSlot
    DEF RevertSwitch, Promise!GoBack, Announced, disk, envValid
  <2> QED
    BY <2>2 DEF Promise!Next
<1>12. ASSUME NEW f \in {"Image", "dtb"}, FatRm(f)
       PROVE  Same
  <2>1. task.target \notin platform
    BY <1>12, <1>typ DEF FatRm, At, IInv, PreventRevertInv
  <2> QED
    BY <1>12, <1>typ, <2>1, SameWhen DEF FatRm, env, TypeOK, SlotFile
<1>13. CASE ValidateFirmware
  <2>1. envValid
    BY <1>13 DEF ValidateFirmware, At, IInv, TaskInv
  <2>2. CASE nerves_fw_validated = 0
    <3>1. Promise!Confirm
      BY <1>13, <2>1, <2>2
      DEF ValidateFirmware, Promise!Confirm, Announced, disk, envValid
    <3> QED
      BY <3>1 DEF Promise!Next
  <2>3. CASE nerves_fw_validated = 1
    BY <1>13, <2>3, SameWhen, SameStutters DEF ValidateFirmware, disk
  <2> QED
    BY <1>typ, <2>2, <2>3
<1> QED
  BY <1>1, <1>2, <1>3, <1>4, <1>5, <1>6, <1>7, <1>8, <1>9, <1>10, <1>11, <1>12,
     <1>13, SameStutters DEF Next, Loader, TaskStep, Fault

\* fwup, U-Boot and the startup guard keep the promise of an A/B update for
\* every set of releases: each of their steps is all or nothing.
THEOREM PromiseTheorem == ASSUME SafeOperator PROVE Spec => Promised
<1> DEFINE Inv == env_coalesced => OneWriteInv
<1>1. Init => Inv
  BY DEF Init, OneWriteInv, NoTask
<1>2. IInv /\ Inv /\ [Next]_vars => Inv'
  <2>1. [Next]_vars => env_coalesced' = env_coalesced
    BY DEF Next, Kept, vars
  <2> QED
    BY <2>1, OneWriteStep
<1>3. Init => Promise!Init
  BY DEF Init, Promise!Init, Announced, Other, envValid, Slot, SlotFile
<1>4. IInv /\ Inv /\ [Next]_vars => [env_coalesced => Promise!Next]_(Promise!vars)
  BY PromiseStep
<1> QED
  BY <1>1, <1>2, <1>3, <1>4, Invariance, PTL DEF Spec, Promised

-----------------------------------------------------------------------------
\* What the abstract update keeps.  WayBack alone is not inductive: a release
\* that is gone back from becomes the spare one, so it must be one itself.
SlotInv ==
  /\ Current \in Version /\ Spare \in Version \union {None}
  /\ Promise!WayBack

\* Whatever is installed, confirmed, gone back from, given up or lost, a
\* release on trial has one to go back to: with nerves_fw_validated = 0 the
\* metadata of the other slot names the release that nerves_init reverts to.
THEOREM WayBackTheorem ==
  ASSUME SafeOperator
  PROVE  Spec => [](env_coalesced => Promise!WayBack)
<1>1. Promise!Init => SlotInv
  BY ConstantsAssumption DEF Promise!Init, SlotInv, Promise!WayBack, Current, Spare
<1>2. SlotInv /\ [Promise!Next]_(Promise!vars) => SlotInv'
  BY ConstantsAssumption
  DEF SlotInv, Promise!WayBack, Promise!Next, Promise!vars, Promise!Discard,
      Promise!Install, Promise!Confirm, Promise!GoBack, Promise!Lose, Current, Spare
<1>3. ASSUME ~env_coalesced \/ SlotInv, env_coalesced' => env_coalesced,
             [env_coalesced => Promise!Next]_(Promise!vars)
      PROVE  ~env_coalesced' \/ SlotInv'
  <2>1. CASE env_coalesced'
    <3>1. SlotInv /\ [Promise!Next]_(Promise!vars)
      BY <1>3, <2>1
    <3> QED
      BY <1>2, <3>1
  <2> QED
    BY <2>1
<1>4. (~env_coalesced \/ SlotInv) => (env_coalesced => Promise!WayBack)
  BY DEF SlotInv
<1>5. [Next]_vars => (env_coalesced' => env_coalesced)
  BY DEF Next, Kept, vars
<1> QED
  BY <1>1, <1>3, <1>4, <1>5, PromiseTheorem, PTL DEF Promised, Spec

-----------------------------------------------------------------------------
(* The plugin: its filters follow the controls.                             *)

\* The copies kept for comparison are those the filters were computed from.
FilterInv == DspTypeOK /\ CoeffsCurrent /\ (primed => cached = bq)

\* Clamping an integer gives an integer of the range.
LEMMA ClampRange ==
    ASSUME NEW c \in Controls, NEW v \in Int
    PROVE  Clamp(c, v) \in Int /\ Lo[c] <= Clamp(c, v) /\ Clamp(c, v) <= Hi[c]
  BY HpfAssumption DEF Clamp

\* Clamping leaves a value of the range alone, so a control that equals its clamped copy
\* is one the copy stands for.
LEMMA ClampStable ==
    ASSUME NEW c \in Controls, NEW v \in Int, Lo[c] <= v, v <= Hi[c]
    PROVE  Clamp(c, v) = v
  BY HpfAssumption DEF Clamp

\* What the filters are computed from is a function on the controls.
LEMMA DesignType ==
    ASSUME NEW ctl \in [Controls -> Values]
    PROVE  Design(ctl) \in [Controls -> Int]
  <1>1. \A c \in Controls : Clamp(c, ctl[c]) \in Int
    BY ClampRange, HpfAssumption
  <1> QED BY <1>1 DEF Design

\* Controls equal to the clamped copies of earlier ones are designed the same.
LEMMA SameDesign ==
    ASSUME NEW old \in [Controls -> Values], NEW new \in [Controls -> Values],
           \A c \in Controls : new[c] = Design(old)[c]
    PROVE  Design(new) = Design(old)
  <1>1. ASSUME NEW c \in Controls PROVE Clamp(c, new[c]) = Clamp(c, old[c])
    <2>1. new[c] = Clamp(c, old[c]) BY DEF Design
    <2>2. old[c] \in Int BY HpfAssumption
    <2>3. Clamp(c, old[c]) \in Int /\ Lo[c] <= Clamp(c, old[c]) /\ Clamp(c, old[c]) <= Hi[c]
      BY <2>2, ClampRange
    <2> QED BY <2>1, <2>3, ClampStable
  <1> QED BY <1>1 DEF Design

\* A block of samples keeps the invariant: nothing is compared equal that differs.
LEMMA RunStep == FilterInv /\ run => FilterInv'
  <1> SUFFICES ASSUME FilterInv, run PROVE FilterInv'
    OBVIOUS
  <1> USE DEF FilterInv, DspTypeOK, CoeffsCurrent, run
  <1>1. CASE controls_moved
    <2>1. Design(control) \in [Controls -> Int] BY DesignType
    <2> QED BY <1>1, <2>1 DEF recompute
  <1>2. CASE ~controls_moved
    <2>1. primed /\ \A c \in Controls : control[c] = cached[c] BY <1>2 DEF controls_moved
    <2>2. Design(control) = Design(heard) BY <2>1, SameDesign
    <2>3. cached' = cached /\ bq' = bq /\ primed' = primed BY <1>2
    <2>4. controls_moved \in BOOLEAN BY DEF controls_moved
    <2>5. recomputed' \in BOOLEAN /\ moved' \in BOOLEAN BY <2>4
    <2> QED BY <2>1, <2>2, <2>3, <2>5
  <1> QED BY <1>1, <1>2

\* The copies and the filters agree in every state.
LEMMA FiltersHold == DspSpec => []FilterInv
  <1>1. DspInit => FilterInv
    <2> SUFFICES ASSUME DspInit PROVE FilterInv
      OBVIOUS
    <2>1. primed = FALSE /\ recomputed = FALSE /\ moved = FALSE BY DEF DspInit
    <2>2. control \in [Controls -> Values] /\ heard \in [Controls -> Values] BY DEF DspInit
    <2>3. cached = [c \in Controls |-> 0] /\ bq = [c \in Controls |-> 0] BY DEF DspInit
    <2>4. cached \in [Controls -> Int] /\ bq \in [Controls -> Int] BY <2>3
    <2> QED BY <2>1, <2>2, <2>4 DEF FilterInv, DspTypeOK, CoeffsCurrent
  <1>2. FilterInv /\ [DspNext]_dspvars => FilterInv'
    <2> SUFFICES ASSUME FilterInv, [DspNext]_dspvars PROVE FilterInv'
      OBVIOUS
    <2>1. CASE run BY <2>1, RunStep
    <2>2. CASE activate BY <2>2 DEF FilterInv, DspTypeOK, CoeffsCurrent, activate
    <2>3. CASE \E c \in Controls, v \in Values : connect_port(c, v)
      BY <2>3 DEF FilterInv, DspTypeOK, CoeffsCurrent, connect_port
    <2>4. CASE UNCHANGED dspvars BY <2>4 DEF FilterInv, DspTypeOK, CoeffsCurrent, dspvars
    <2> QED BY <2>1, <2>2, <2>3, <2>4 DEF DspNext
  <1> QED BY <1>1, <1>2, PTL DEF DspSpec

\* The plugin of hpf_limiter.c filters with what the controls said at its last run,
\* however often they move, whatever the ranges, and over reactivation.
THEOREM CoeffsTheorem == DspSpec => []CoeffsCurrent
  <1>1. FilterInv => CoeffsCurrent BY DEF FilterInv
  <1> QED BY <1>1, FiltersHold, PTL

\* recompute's clamping keeps every filter inside its range for all that a host writes.
THEOREM RangeTheorem == DspSpec => []FiltersInRange
  <1>1. FilterInv => FiltersInRange
    <2> SUFFICES ASSUME FilterInv, primed, NEW c \in Controls PROVE bq[c] \in Lo[c]..Hi[c]
      BY DEF FiltersInRange
    <2>1. heard[c] \in Int BY HpfAssumption DEF FilterInv, DspTypeOK
    <2>2. bq[c] = Clamp(c, heard[c]) BY DEF FilterInv, CoeffsCurrent, Design
    <2> QED BY <2>1, <2>2, ClampRange, HpfAssumption
  <1> QED BY <1>1, FiltersHold, PTL

-----------------------------------------------------------------------------
(* camsnap: what is written, published and read.                            *)

Whole(f) == <<f, f>>

\* What is written stems from the frame in the buffer, and is all of it when
\* write_atomic is called.
OutInv ==
  /\ out \in {<<>>, <<frame>>, <<frame, frame>>}
  /\ pc \in {"start", "loop", "dqbuf", "qbuf"} => out = <<>>
  /\ pc = "encode" => out # <<frame, frame>>
  /\ pc \in {"open", "write", "rename"} => out = <<frame, frame>>

\* A published file is a whole picture; a temporary one is, when it is renamed.
DiskInv ==
  /\ file \in [Paths -> {{}} \union {{Whole(f)} : f \in Frames}]
  /\ tmp \in [Paths -> {{}} \union {{c} : c \in Seq(Frames)}]
  /\ pc = "rename" => tmp[path] = {out}

\* What the application opened stays the same picture, under its name or not.
Holds(f) ==
  \/ reader.of = "old" /\ reader.old = Whole(f)
  \/ reader.of \in Paths /\ file[reader.of] = {Whole(f)}

ReaderInv ==
  /\ reader \in [of : Paths \union {"none", "old"}, old : Seq(Frames), got : Seq(Seq(Frames))]
  /\ \/ reader.of = "none" /\ reader.got = <<>>
     \/ \E f \in Frames : Holds(f) /\ reader.got \in {<<>>, <<<<f>>>>, <<<<f>>, <<f>>>>}

RingInv ==
  /\ pc \in {"start", "loop", "dqbuf", "encode", "open", "write", "rename", "qbuf", "exited"}
  /\ owner \in [Bufs -> {"free", "driver", "done", "camsnap"}]
  /\ b \in Bufs /\ frame \in Frames /\ since \in 0..Period /\ path \in Paths
  /\ FrameIsOurs

SnapInv == RingInv /\ OutInv /\ DiskInv /\ ReaderInv

\* The frames, the ring and the period as the program has them.
Constants == NBUF \in Nat \ {0} /\ Period \in Nat

-----------------------------------------------------------------------------
\* The one content of a file.
LEMMA Only ==
  ASSUME NEW c
  PROVE  (CHOOSE x \in {c} : TRUE) = c
  OBVIOUS

\* One and two parts of a frame.
LEMMA Parts ==
  ASSUME NEW S, NEW f \in S
  PROVE  /\ <<f>> \in Seq(S) /\ <<f, f>> \in Seq(S) /\ <<>> \in Seq(S)
         /\ Len(<<f>>) = 1 /\ Len(<<f, f>>) = 2 /\ Len(<<>>) = 0
         /\ <<f, f>>[1] = f /\ <<f, f>>[2] = f
         /\ <<f>> # <<f, f>> /\ <<f>> # <<>> /\ <<f, f>> # <<>>
         /\ Append(<<>>, f) = <<f>> /\ Append(<<f>>, f) = <<f, f>>
<1>1. Append(<<f>>, f) \in Seq(S) /\ Len(Append(<<f>>, f)) = 2
  OBVIOUS
<1>2. Append(<<f>>, f)[1] = f /\ Append(<<f>>, f)[2] = f
  BY AppendProperties, <<f>> \in Seq(S), Len(<<f>>) = 1, <<f>>[1] = f
<1>3. <<f, f>> \in Seq(S) /\ Len(<<f, f>>) = 2 /\ <<f, f>>[1] = f /\ <<f, f>>[2] = f
  OBVIOUS
<1>4. \A i \in 1..2 : Append(<<f>>, f)[i] = <<f, f>>[i]
  BY <1>2, <1>3
<1>5. Append(<<f>>, f) = <<f, f>>
  BY <1>1, <1>3, <1>4, SeqEqual
<1>6. Append(<<>>, f) = <<f>>
  OBVIOUS
<1>7. /\ <<f>> \in Seq(S) /\ <<>> \in Seq(S) /\ Len(<<f>>) = 1 /\ Len(<<>>) = 0
      /\ <<f>> # <<f, f>> /\ <<f>> # <<>> /\ <<f, f>> # <<>>
  OBVIOUS
<1> QED BY <1>3, <1>5, <1>6, <1>7

\* A step that leaves the files and the application alone.
LEMMA ReaderKept ==
  ASSUME ReaderInv, UNCHANGED <<file, reader>>
  PROVE  ReaderInv'
  BY DEF ReaderInv, Holds

\* A new picture under a name leaves the old one to who has it open.
LEMMA ReaderRenamed ==
  ASSUME NEW c, DiskInv, ReaderInv, path \in Paths,
         file' = [file EXCEPT ![path] = c],
         reader' = IF reader.of # path THEN reader
                   ELSE [reader EXCEPT !.of = "old", !.old = CHOOSE x \in file[path] : TRUE]
  PROVE  ReaderInv'
<1>typ. /\ reader \in [of : Paths \union {"none", "old"}, old : Seq(Frames), got : Seq(Seq(Frames))]
        /\ \A p \in Paths : p # path => file'[p] = file[p]
        /\ "old" \notin Paths /\ "none" \notin Paths
  BY DEF ReaderInv, DiskInv, Paths
<1>1. CASE reader.of # path
  BY <1>1, <1>typ DEF ReaderInv, Holds
<1>2. CASE reader.of = path
  <2>1. PICK f \in Frames : Holds(f) /\ reader.got \in {<<>>, <<<<f>>>>, <<<<f>>, <<f>>>>}
    BY <1>2, <1>typ DEF ReaderInv
  <2>2. file[path] = {Whole(f)}
    BY <1>2, <1>typ, <2>1 DEF Holds
  <2>3. (CHOOSE x \in file[path] : TRUE) = Whole(f)
    BY <2>2, Only
  <2>4. reader' = [reader EXCEPT !.of = "old", !.old = Whole(f)]
    BY <1>2, <2>3
  <2>5. Whole(f) \in Seq(Frames)
    BY DEF Whole
  <2>6. reader'.of = "old" /\ reader'.old = Whole(f) /\ reader'.got = reader.got
    BY <2>4, <1>typ
  <2>7. reader' \in [of : Paths \union {"none", "old"}, old : Seq(Frames), got : Seq(Seq(Frames))]
    BY <2>4, <2>5, <1>typ
  <2> HIDE DEF Whole
  <2>8. Holds(f)'
    BY <2>6 DEF Holds
  <2> QED BY <2>1, <2>6, <2>7, <2>8 DEF ReaderInv
<1> QED BY <1>1, <1>2

-----------------------------------------------------------------------------
(* The steps.                                                               *)

USE DEF Cam!cam, Cam!disk, Cam!Bufs, Cam!Paths, Bufs, Paths

\* The ring is the camera's, nothing is open and no file exists.
LEMMA InitInv ==
  ASSUME Constants, Cam!Init
  PROVE  SnapInv
<1>1. RingInv
  BY DEF Constants, Cam!Init, RingInv, FrameIsOurs, Bufs, Paths
<1>2. OutInv
  BY DEF Cam!Init, OutInv
<1>3. DiskInv
  BY DEF Cam!Init, DiskInv
<1>4. ReaderInv
  BY DEF Cam!Init, ReaderInv, Cam!Closed
<1> QED BY <1>1, <1>2, <1>3, <1>4 DEF SnapInv

\* A daemon that starts opens the ring anew; what is on disk stays.
LEMMA StartInv ==
  ASSUME Constants, SnapInv, Cam!Start
  PROVE  SnapInv'
<1> USE DEF SnapInv, Cam!Start, Cam!Fault
<1>1. RingInv'
  BY DEF Constants, RingInv, FrameIsOurs
<1>2. OutInv'
  BY DEF OutInv
<1>3. DiskInv'
  BY DEF DiskInv
<1>4. ReaderInv'
  BY ReaderKept
<1> QED BY <1>1, <1>2, <1>3, <1>4

\* The test of stop touches nothing.
LEMMA LoopInv ==
  ASSUME SnapInv, Cam!Loop
  PROVE  SnapInv'
<1> USE DEF SnapInv, Cam!Loop
<1>1. RingInv'
  BY DEF RingInv, FrameIsOurs
<1>2. OutInv'
  BY DEF OutInv
<1>3. DiskInv'
  BY DEF DiskInv
<1>4. ReaderInv'
  BY ReaderKept
<1> QED BY <1>1, <1>2, <1>3, <1>4

\* A frame taken from the ring is the program's until it is given back.
LEMMA DqbufInv ==
  ASSUME Constants, SnapInv, Cam!Dqbuf
  PROVE  SnapInv'
<1> USE DEF SnapInv, Cam!Dqbuf, Cam!Fault
<1>1. RingInv'
  BY DEF Constants, RingInv, FrameIsOurs
<1>2. OutInv'
  BY DEF OutInv, RingInv
<1>3. DiskInv'
  BY DEF DiskInv
<1>4. ReaderInv'
  BY ReaderKept
<1> QED BY <1>1, <1>2, <1>3, <1>4

\* The frame that is encoded is the program's.
LEMMA EncodeInv ==
  ASSUME SnapInv, Cam!Encode
  PROVE  SnapInv'
<1> USE DEF SnapInv, Cam!Encode
<1>1. RingInv'
  BY DEF RingInv, FrameIsOurs
<1>2. OutInv'
  <2>1. frame \in Frames
    BY DEF RingInv
  <2>2. CASE out = <<>>
    BY <2>1, <2>2, Parts DEF OutInv
  <2>3. CASE out = <<frame>>
    BY <2>1, <2>3, Parts DEF OutInv
  <2> QED BY <2>2, <2>3 DEF OutInv
<1>3. DiskInv'
  BY DEF DiskInv
<1>4. ReaderInv'
  BY ReaderKept
<1> QED BY <1>1, <1>2, <1>3, <1>4

\* Opening a temporary file empties it and leaves the paths alone.
LEMMA OpenInv ==
  ASSUME SnapInv, Cam!Open
  PROVE  SnapInv'
<1> USE DEF SnapInv, Cam!Open, Cam!Written, Cam!Fault
<1>1. RingInv'
  BY DEF RingInv, FrameIsOurs, Paths
<1>2. OutInv'
  BY DEF OutInv
<1>3. DiskInv'
  <2>0. <<>> \in Seq(Frames)
    OBVIOUS
  <2>1. {<<>>} \in {{c} : c \in Seq(Frames)}
    BY <2>0, Zenon
  <2> QED BY <2>1 DEF DiskInv, RingInv
<1>4. ReaderInv'
  BY ReaderKept
<1> QED BY <1>1, <1>2, <1>3, <1>4

\* A write goes to the temporary file, which no reader has open.
LEMMA WriteInv ==
  ASSUME SnapInv, Cam!Write
  PROVE  SnapInv'
<1> USE DEF SnapInv, Cam!Write, Cam!Written, Cam!Fault
<1>1. RingInv'
  BY DEF RingInv, FrameIsOurs, Paths
<1>2. OutInv'
  BY DEF OutInv
<1>3. DiskInv'
  <2>1. frame \in Frames /\ out = <<frame, frame>>
    BY DEF OutInv, RingInv
  <2>2. out \in Seq(Frames) /\ out[1] = frame /\ <<out[1]>> \in Seq(Frames)
    BY <2>1, Parts
  <2>3. {out} \in {{c} : c \in Seq(Frames)} /\ {<<out[1]>>} \in {{c} : c \in Seq(Frames)}
    BY <2>2
  <2> QED BY <2>3 DEF DiskInv, RingInv
<1>4. ReaderInv'
  BY ReaderKept
<1> QED BY <1>1, <1>2, <1>3, <1>4

\* Only a complete temporary file is renamed to a path.
LEMMA RenameInv ==
  ASSUME SnapInv, Cam!Rename
  PROVE  SnapInv'
<1> USE DEF SnapInv, Cam!Rename, Cam!Written, Cam!Fault
<1>1. RingInv'
  BY DEF RingInv, FrameIsOurs, Paths
<1>2. OutInv'
  BY DEF OutInv
<1>3. DiskInv'
  <2>1. tmp[path] = {Whole(frame)} /\ frame \in Frames /\ path \in Paths
    BY DEF DiskInv, OutInv, RingInv, Whole
  <2> QED BY <2>1 DEF DiskInv
<1>4. ReaderInv'
  <2>1. CASE UNCHANGED <<file, reader>>
    BY <2>1, ReaderKept
  <2>2. CASE /\ file' = [file EXCEPT ![path] = tmp[path]]
             /\ reader' = IF reader.of # path THEN reader
                          ELSE [reader EXCEPT !.of = "old", !.old = CHOOSE c \in file[path] : TRUE]
    BY <2>2, ReaderRenamed DEF RingInv
  <2> QED BY <2>1, <2>2
<1> QED BY <1>1, <1>2, <1>3, <1>4

\* The frame goes back to the ring after both files are written.
LEMMA QbufInv ==
  ASSUME SnapInv, Cam!Qbuf
  PROVE  SnapInv'
<1> USE DEF SnapInv, Cam!Qbuf, Cam!Fault
<1>1. RingInv'
  BY DEF RingInv, FrameIsOurs
<1>2. OutInv'
  BY DEF OutInv
<1>3. DiskInv'
  BY DEF DiskInv
<1>4. ReaderInv'
  BY ReaderKept
<1> QED BY <1>1, <1>2, <1>3, <1>4

\* A signal, a kill and a restart touch neither the frame nor the files.
LEMMA EndInv ==
  ASSUME SnapInv, Cam!on_sig \/ Cam!Kill \/ Cam!Restart
  PROVE  SnapInv'
<1> USE DEF SnapInv, Cam!on_sig, Cam!Kill, Cam!Restart, Cam!Fault
<1>1. RingInv'
  BY DEF RingInv, FrameIsOurs, Paths
<1>2. OutInv'
  BY DEF OutInv
<1>3. DiskInv'
  BY DEF DiskInv
<1>4. ReaderInv'
  BY ReaderKept
<1> QED BY <1>1, <1>2, <1>3, <1>4

\* The driver fills buffers it was given, so not the one being encoded.
LEMMA CaptureInv ==
  ASSUME Constants, SnapInv, Cam!Capture
  PROVE  SnapInv'
<1> USE DEF SnapInv, Cam!Capture, Cam!Streaming
<1>1. RingInv'
  BY DEF Constants, RingInv, FrameIsOurs
<1>2. OutInv'
  BY DEF OutInv, RingInv, FrameIsOurs
<1>3. DiskInv'
  BY DEF DiskInv
<1>4. ReaderInv'
  BY ReaderKept
<1> QED BY <1>1, <1>2, <1>3, <1>4

\* A reader keeps the file it opened, whatever is renamed meanwhile.
LEMMA ReadInv ==
  ASSUME SnapInv, Cam!Read
  PROVE  SnapInv'
<1> USE DEF SnapInv
<1>1. RingInv' /\ OutInv' /\ DiskInv'
  BY DEF RingInv, FrameIsOurs, OutInv, DiskInv, Cam!Read
<1>typ. /\ reader \in [of : Paths \union {"none", "old"}, old : Seq(Frames), got : Seq(Seq(Frames))]
        /\ "old" \notin Paths /\ "none" \notin Paths
  BY DEF ReaderInv, Paths
<1>2. CASE /\ reader.of = "none"
           /\ \E p \in Paths : file[p] # {} /\ reader' = [reader EXCEPT !.of = p]
  <2>1. PICK p \in Paths : file[p] # {} /\ reader' = [reader EXCEPT !.of = p]
    BY <1>2
  <2>2. PICK f \in Frames : file[p] = {Whole(f)}
    BY <2>1 DEF DiskInv
  <2>3. reader.got = <<>>
    BY <1>2, <1>typ DEF ReaderInv, Holds
  <2>4. reader'.of = p /\ reader'.got = <<>>
    BY <2>1, <2>3, <1>typ
  <2>5. reader' \in [of : Paths \union {"none", "old"}, old : Seq(Frames), got : Seq(Seq(Frames))]
    BY <2>1, <1>typ
  <2>6. Holds(f)'
    BY <2>2, <2>4 DEF Holds, Cam!Read
  <2> QED BY <1>1, <2>4, <2>5, <2>6 DEF ReaderInv
<1>3. CASE /\ reader.of # "none" /\ Len(reader.got) < 2
           /\ LET n == Len(reader.got) + 1
              IN reader' = [reader EXCEPT !.got = Append(@, IF n <= Len(Cam!Opened) THEN <<Cam!Opened[n]>> ELSE <<>>)]
  <2>1. PICK f \in Frames : Holds(f) /\ reader.got \in {<<>>, <<<<f>>>>, <<<<f>>, <<f>>>>}
    BY <1>3 DEF ReaderInv
  <2>2. Cam!Opened = <<f, f>>
    <3>1. CASE reader.of = "old"
      BY <2>1, <3>1, <1>typ DEF Holds, Cam!Opened, Whole
    <3>2. CASE reader.of # "old"
      <4>1. file[reader.of] = {<<f, f>>}
        BY <2>1, <3>2 DEF Holds, Whole
      <4> QED BY <4>1, <3>2, Only DEF Cam!Opened
    <3> QED BY <3>1, <3>2
  <2>g. <<f>> \in Seq(Frames)
    OBVIOUS
  <2> DEFINE g == <<f>>
  <2> HIDE DEF g
  <2>a. /\ <<g>> \in Seq(Seq(Frames)) /\ <<g, g>> \in Seq(Seq(Frames))
        /\ Len(<<g>>) = 1 /\ Len(<<g, g>>) = 2 /\ Len(<<>>) = 0
        /\ Append(<<>>, g) = <<g>> /\ Append(<<g>>, g) = <<g, g>>
    BY <2>g, Parts DEF g
  <2>3. reader.got \in {<<>>, <<g>>}
    <3>1. reader.got \in {<<>>, <<g>>, <<g, g>>}
      BY <2>1 DEF g
    <3> QED BY <1>3, <2>a, <3>1
  <2>d. Len(Cam!Opened) = 2 /\ Cam!Opened[1] = f /\ Cam!Opened[2] = f
    BY <2>2
  <2>b. LET n == Len(reader.got) + 1 IN n \in 1..2 /\ n <= Len(Cam!Opened) /\ Cam!Opened[n] = f
    <3>1. CASE reader.got = <<>>
      BY <2>d, <3>1
    <3>2. CASE reader.got = <<g>>
      BY <2>a, <2>d, <3>2
    <3> QED BY <2>3, <3>1, <3>2
  <2>4. reader' = [reader EXCEPT !.got = Append(@, g)]
    BY <1>3, <2>b DEF g
  <2>c. /\ reader'.of = reader.of /\ reader'.old = reader.old
        /\ reader'.got = Append(reader.got, g)
    BY <1>typ, <2>4
  <2>5. /\ reader'.of = reader.of /\ reader'.old = reader.old
        /\ reader'.got \in {<<g>>, <<g, g>>}
    BY <2>3, <2>c, <2>a
  <2>6. reader' \in [of : Paths \union {"none", "old"}, old : Seq(Frames), got : Seq(Seq(Frames))]
    BY <1>typ, <2>4, <2>5, <2>a
  <2>7. Holds(f)'
    BY <2>1, <2>5 DEF Holds, Cam!Read
  <2> QED BY <1>1, <2>5, <2>6, <2>7 DEF ReaderInv, g
<1>4. CASE Len(reader.got) = 2 /\ reader' = Cam!Closed
  BY <1>1, <1>4 DEF ReaderInv, Cam!Closed
<1> QED BY <1>2, <1>3, <1>4 DEF Cam!Read

\* Every step of daemon, camera, supervisor and reader keeps the invariant.
LEMMA NextInv ==
  ASSUME Constants, SnapInv, [Cam!Next]_(Cam!vars)
  PROVE  SnapInv'
<1>1. CASE UNCHANGED Cam!vars
  BY <1>1 DEF Cam!vars, SnapInv, RingInv, FrameIsOurs, OutInv, DiskInv, ReaderInv, Holds
<1>2. CASE Cam!Next
  BY <1>2, StartInv, LoopInv, DqbufInv, EncodeInv, OpenInv, WriteInv, RenameInv, QbufInv, EndInv,
     CaptureInv, ReadInv DEF Cam!Next, Cam!main
<1> QED BY <1>1, <1>2

-----------------------------------------------------------------------------
\* The invariant gives the property.
LEMMA InvWhole ==
  ASSUME SnapInv
  PROVE  ReaderSeesWhole
<1>0. /\ Len(reader.got) <= 2
      /\ Len(reader.got) = 2 => \E f \in Frames : reader.got = <<<<f>>, <<f>>>>
  <2>1. CASE reader.of = "none" /\ reader.got = <<>>
    BY <2>1
  <2>2. ASSUME NEW f \in Frames, reader.got \in {<<>>, <<<<f>>>>, <<<<f>>, <<f>>>>}
        PROVE  Len(reader.got) <= 2 /\ (Len(reader.got) = 2 => reader.got = <<<<f>>, <<f>>>>)
    <3> DEFINE g == <<f>>
    <3>1. reader.got \in {<<>>, <<g>>, <<g, g>>}
      BY <2>2
    <3> HIDE DEF g
    <3>2. Len(<<g>>) = 1 /\ Len(<<g, g>>) = 2 /\ Len(<<>>) = 0
      OBVIOUS
    <3>3. Len(reader.got) <= 2 /\ (Len(reader.got) = 2 => reader.got = <<g, g>>)
      <4>1. CASE reader.got = <<>>
        BY <3>2, <4>1
      <4>2. CASE reader.got = <<g>>
        BY <3>2, <4>2
      <4>3. CASE reader.got = <<g, g>>
        BY <3>2, <4>3
      <4> QED BY <3>1, <4>1, <4>2, <4>3, Zenon
    <3> QED BY <3>3 DEF g
  <2> QED BY <2>1, <2>2 DEF SnapInv, ReaderInv
<1>1. SnapTypeOK
  <2>1. \A p \in Paths : Cardinality(file[p]) <= 1 /\ Cardinality(tmp[p]) <= 1
    <3>1. \A c : Cardinality({c}) = 1
      BY FS_Singleton
    <3>2. Cardinality({}) = 0
      BY FS_EmptySet
    <3> SUFFICES ASSUME NEW p \in Paths
                 PROVE  Cardinality(file[p]) <= 1 /\ Cardinality(tmp[p]) <= 1
      OBVIOUS
    <3>3. ASSUME NEW T, NEW C, T \in {{}} \union {{c} : c \in C}
          PROVE  Cardinality(T) <= 1
      <4>1. CASE T = {}
        BY <3>2, <4>1
      <4>2. ASSUME NEW c, T = {c}
            PROVE  Cardinality(T) <= 1
        <5>1. Cardinality(T) = 1
          BY <3>1, <4>2, Zenon
        <5> QED BY <5>1
      <4> QED BY <3>3, <4>1, <4>2
    <3>4. /\ file[p] \in {{}} \union {{c} : c \in {Whole(f) : f \in Frames}}
          /\ tmp[p] \in {{}} \union {{c} : c \in Seq(Frames)}
      <4>1. /\ file[p] \in {{}} \union {{Whole(f)} : f \in Frames}
            /\ tmp[p] \in {{}} \union {{c} : c \in Seq(Frames)}
        BY DEF SnapInv, DiskInv
      <4> HIDE DEF Whole
      <4> QED BY <4>1, Zenon
    <3> QED BY <3>3, <3>4
  <2>2. Len(out) <= 2
    <3>1. frame \in Frames /\ out \in {<<>>, <<frame>>, <<frame, frame>>}
      BY DEF SnapInv, OutInv, RingInv
    <3>2. CASE out = <<>>
      BY <3>2
    <3>3. CASE out = <<frame>>
      BY <3>3
    <3>4. CASE out = <<frame, frame>>
      BY <3>4
    <3> QED BY <3>1, <3>2, <3>3, <3>4, Zenon
  <2>3. reader.of \in Paths \union {"none", "old"}
    BY DEF SnapInv, ReaderInv
  <2> QED BY <2>1, <2>2, <2>3, <1>0 DEF SnapTypeOK, SnapInv, RingInv
<1>2. PictureWhole
  BY <1>0 DEF PictureWhole
<1> QED BY <1>1, <1>2 DEF SnapInv, RingInv, ReaderSeesWhole

\* Whatever is killed, cut short, restarted or renamed in between: every
\* picture an application reads to the end is all of one frame, and that frame
\* was camsnap's until its last byte was encoded.
THEOREM WholeTheorem ==
  ASSUME NBUF \in Nat \ {0}, Period \in Nat
  PROVE  Cam!Spec => []ReaderSeesWhole
<1>1. Constants
  BY DEF Constants
<1>2. Cam!Init => SnapInv
  BY <1>1, InitInv
<1>3. SnapInv /\ [Cam!Next]_(Cam!vars) => SnapInv'
  BY <1>1, NextInv
<1>4. SnapInv => ReaderSeesWhole
  BY InvWhole
<1> QED BY <1>2, <1>3, <1>4, PTL DEF Cam!Spec
=============================================================================
