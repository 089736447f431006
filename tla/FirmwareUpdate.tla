--------------------------- MODULE FirmwareUpdate ---------------------------
(***************************************************************************)
(* The A/B firmware update of the SMT1019: the fwup tasks of fwup.conf and *)
(* fwup-ops.conf, the U-Boot scripts of uboot/uboot.env that pick the slot *)
(* and revert an unvalidated one, and the startup guard that validates a   *)
(* firmware that came up.  All of them share one U-Boot environment block  *)
(* and the two firmware slots of the eMMC, and the power may fail between  *)
(* any two steps.                                                          *)
(*                                                                         *)
(* A fwup operation is one durable step; a file or raw image is torn from  *)
(* the moment its write begins until it ends.  Each uboot_setenv rewrites  *)
(* the whole environment block; env_coalesced says whether the environment *)
(* operations of one fwup section reach the eMMC together or one by one.   *)
(* The definitions named Bug... are slips the code could contain; nothing  *)
(* in the specification uses them.                                         *)
(***************************************************************************)
EXTENDS Naturals

CONSTANTS
  Version,       \* firmware releases; each carries Image, dtb, resource, rootfs
  Factory,       \* the release written by the factory task
  Healthy,       \* releases whose applications all start and stay up
  Legacy,        \* releases whose validate task still writes upgrade_available
  Tasks,         \* the fwup tasks the operator uses
  RuleSets,      \* the sets of rules an operator may keep
  EnvCoalesced,  \* the values env_coalesced may have
  EnvTears,      \* power can fail inside an environment write
  Torn, Erased,  \* contents of a partly written and of a cleared area
  None           \* no delta base, no uuid

Slot == {"a", "b"}
Other(s) == IF s = "a" THEN "b" ELSE "a"
Content == Version \union {Torn, Erased}

\* The resources of a firmware that have one copy per slot.
SlotFile == {"Image", "dtb", "rootfs"}

AllTasks == {"upgrade", "delta", "revert", "prevent-revert", "validate"}
SafetyRules == {"reboot_after_switch", "prevent_revert_validated"}
AllRules == SafetyRules \union {"revert_vouched"}

ASSUME ConstantsAssumption ==
  /\ Factory \in Version
  /\ Healthy \subseteq Version
  /\ Legacy \subseteq Version
  /\ Tasks \subseteq AllTasks
  /\ RuleSets \subseteq SUBSET AllRules
  /\ EnvCoalesced \subseteq BOOLEAN
  /\ EnvTears \in BOOLEAN
  /\ Torn \notin Version
  /\ Erased \notin Version
  /\ None \notin Version

VARIABLES
  rules,                \* what the operator keeps to, see MayRun and MayRevert
  env_coalesced,        \* a section's environment operations are one eMMC write
  envCrc,               \* the CRC of the environment block
  nerves_fw_active,
  nerves_fw_validated,
  nerves_fw_booted,
  upgrade_available,    \* "absent", or the "0" of the bootcount scheme
  platform,             \* slots with both platform and architecture set
  uuid,                 \* s.nerves_fw_uuid of each slot
  store,                \* store[f][s]: the slot copies of the resources
  extlinux,             \* the slot extlinux/extlinux.conf boots, or Torn
  resource,             \* the shared resource partition
  power,                \* "off", "loader", "up", "hung"
  slot,                 \* the slot being loaded or running
  guard,                \* the startup guard of the running firmware
  task,                 \* the fwup task in progress
  vouched               \* history: slots whose own firmware validated them

env  == <<envCrc, nerves_fw_active, nerves_fw_validated, nerves_fw_booted,
          upgrade_available, platform, uuid>>
disk == <<store, extlinux, resource>>
soc  == <<power, slot, guard>>
vars == <<rules, env_coalesced, env, disk, soc, task, vouched>>

\* U-Boot and fwup use the environment only when its CRC is right.
envValid == envCrc = "good"

Step == {"none", "unset_platform", "unset_uuid", "trim", "Image", "dtb",
         "extlinux", "resource", "rootfs", "set_platform", "set_uuid",
         "set_active", "set_validated", "set_booted",
         "unset_upgrade_available"}

Task == [op : {"none", "upgrade", "revert", "prevent-revert", "validate"},
         step : Step,
         io : {"idle", "writing"},
         target : Slot,
         ver : Version \union {None},
         base : Version \union {None}]

NoTask == [op |-> "none", step |-> "none", io |-> "idle", target |-> "a",
           ver |-> None, base |-> None]

At(op, step) == power = "up" /\ task.op = op /\ task.step = step
Goto(step) == task' = [task EXCEPT !.step = step, !.io = "idle"]
BeginIO == task.io = "idle" /\ task' = [task EXCEPT !.io = "writing"]

\* The slot holds one whole release: kernel, device tree and root file
\* system of the same version.
Complete(s) ==
  /\ store["Image"][s] \in Version
  /\ store["dtb"][s] = store["Image"][s]
  /\ store["rootfs"][s] = store["Image"][s]

-----------------------------------------------------------------------------
(* What the complete task leaves: slot A written and trusted, slot B empty. *)
Init ==
  /\ rules \in RuleSets /\ env_coalesced \in EnvCoalesced
  /\ envCrc = "good"
  /\ nerves_fw_active = "a"
  /\ nerves_fw_validated = 1
  /\ nerves_fw_booted = 0
  /\ upgrade_available = "absent"
  /\ platform = {"a"}
  /\ uuid = [s \in Slot |-> IF s = "a" THEN Factory ELSE None]
  /\ store = [f \in SlotFile |->
                [s \in Slot |-> IF s = "a" THEN Factory ELSE Erased]]
  /\ extlinux = "a"
  /\ resource = Factory
  /\ power = "off"
  /\ slot = "a"
  /\ guard = "idle"
  /\ task = NoTask
  /\ vouched = {"a"}

-----------------------------------------------------------------------------
(* U-Boot: bootcmd = run nerves_init nerves_boot.                           *)

nerves_fw_autovalidate == 0

MustRevert == nerves_fw_booted = 1 /\ nerves_fw_validated = 0
FirstBoot == nerves_fw_booted # 1

\* The slot nerves_revert leaves active.
nerves_revert == Other(nerves_fw_active)

\* `env delete upgrade_available bootcount' works on the environment in
\* memory; the eMMC loses the variable only if nerves_init goes on to save.
BugKeepBootcount == upgrade_available
DeleteBootcount == IF MustRevert \/ FirstBoot THEN "absent"
                                              ELSE upgrade_available

\* nerves_fw_booted once nerves_init is done.
Booted == 1

BugAutovalidates ==
  /\ power = "off" /\ envValid
  /\ nerves_fw_validated' = 1
  /\ nerves_fw_active' =
       IF MustRevert THEN nerves_revert ELSE nerves_fw_active
  /\ nerves_fw_booted' = Booted
  /\ upgrade_available' = DeleteBootcount
  /\ slot' = nerves_fw_active'
  /\ power' = "loader"
  /\ UNCHANGED <<envCrc, platform, uuid, disk, guard, task, vouched>>

BugNoRevert ==
  /\ power = "off" /\ envValid
  /\ nerves_fw_booted' = 1
  /\ upgrade_available' = DeleteBootcount
  /\ slot' = nerves_fw_active
  /\ power' = "loader"
  /\ UNCHANGED <<envCrc, nerves_fw_active, nerves_fw_validated, platform,
                 uuid, disk, guard, task, vouched>>

nerves_init ==
  /\ power = "off" /\ envValid
  /\ nerves_fw_active' =
       IF MustRevert THEN nerves_revert ELSE nerves_fw_active
  /\ nerves_fw_validated' =
       IF MustRevert \/ (FirstBoot /\ nerves_fw_autovalidate = 1)
         THEN 1 ELSE nerves_fw_validated
  /\ nerves_fw_booted' = Booted
  /\ upgrade_available' = DeleteBootcount
  /\ slot' = nerves_fw_active'
  /\ power' = "loader"
  /\ UNCHANGED <<envCrc, platform, uuid, disk, guard, task, vouched>>

\* Power fails inside the saveenv of nerves_init.
SaveenvTorn ==
  /\ EnvTears
  /\ power = "off" /\ envValid
  /\ MustRevert \/ FirstBoot
  /\ envCrc' = "bad"
  /\ UNCHANGED <<nerves_fw_active, nerves_fw_validated, nerves_fw_booted,
                 upgrade_available, platform, uuid, disk, soc, task, vouched>>

\* Without a valid environment the compiled-in default runs distro boot.
DistroBoot ==
  /\ power = "off" /\ ~envValid
  /\ IF extlinux \in Slot
       THEN slot' = extlinux /\ power' = "loader"
       ELSE slot' = slot /\ power' = "hung"
  /\ UNCHANGED <<env, disk, guard, task, vouched>>

\* The validation state nerves_runtime reads: the bootcount scheme first.
ReadsUnvalidated ==
  envValid /\ upgrade_available # "0" /\ nerves_fw_validated = 0

\* booti, then the kernel mounts the root file system.  A missing kernel or
\* device tree leaves U-Boot at its prompt; without a root file system the
\* kernel panics and PANIC_TIMEOUT resets the board.
nerves_boot ==
  /\ power = "loader"
  /\ power' = IF ~ {store["Image"][slot], store["dtb"][slot]} \subseteq Version
                THEN "hung"
              ELSE IF store["rootfs"][slot] \in Version THEN "up" ELSE "off"
  /\ guard' = IF power' = "up" /\ ReadsUnvalidated THEN "armed" ELSE "idle"
  /\ UNCHANGED <<env, disk, slot, task, vouched>>

-----------------------------------------------------------------------------
(* Which fwup task runs.                                                    *)

\* The status tasks: the running slot, and the next one if it differs.
Status == IF slot = nerves_fw_active THEN <<slot>>
                                     ELSE <<slot, nerves_fw_active>>

\* The require-uboot-variable lines of upgrade.a and upgrade.b.
BugUpgradeUnvalidated(s) ==
  /\ nerves_fw_active = Other(s)
  /\ Other(s) \in platform
UpgradeRequires(s) ==
  /\ nerves_fw_active = Other(s)
  /\ nerves_fw_validated = 1
  /\ Other(s) \in platform

\* The task `fwup -t upgrade' selects: the first whose requirements hold.
UpgradeTask ==
  CASE UpgradeRequires("a")    -> "upgrade.a"
    [] UpgradeRequires("b")    -> "upgrade.b"
    [] nerves_fw_validated = 0 -> "upgrade.unvalidated"
    [] OTHER -> IF "a" \in platform THEN "upgrade.unexpected"
                                    ELSE "upgrade.wrongplatform"

\* The require-uboot-variable lines of revert.a and revert.b, and of
\* prevent-revert.a and prevent-revert.b.
BugRevertAnywhere(s) == nerves_fw_active = Other(s)
RevertRequires(s) == nerves_fw_active = Other(s) /\ s \in platform

BugPreventsActive(s) == nerves_fw_active = s
PreventRevertRequires(s) == nerves_fw_active = Other(s)

\* What the operator keeps to: reboot after a switch of the active slot
\* before the next task, and prevent reverts only from a validated firmware.
MayRun(op) ==
  /\ power = "up" /\ envValid /\ task = NoTask /\ op \in Tasks
  /\ "reboot_after_switch" \in rules => Status = <<slot>>
  /\ op = "prevent-revert" /\ "prevent_revert_validated" \in rules
       => nerves_fw_validated = 1

Start(op, step, s, v, b) ==
  /\ task' = [op |-> op, step |-> step, target |-> s,
              ver |-> v, base |-> b, io |-> "idle"]
  /\ UNCHANGED <<env, disk, soc, vouched>>

StartUpgrade(v) ==
  /\ MayRun("upgrade")
  /\ \E s \in Slot : /\ UpgradeRequires(s)
                     /\ Start("upgrade", "unset_platform", s, v, None)

\* A delta is made against the release the active slot reports.
DeltaBase(s) == uuid[Other(s)]

StartDelta(v) ==
  /\ MayRun("delta")
  /\ \E s \in Slot :
       /\ UpgradeRequires(s)
       /\ DeltaBase(s) # None
       /\ Start("upgrade", "unset_platform", s, v, DeltaBase(s))

\* The operator may also keep to reverting only to a firmware that once
\* validated itself.
MayRevert(s) == "revert_vouched" \in rules => s \in vouched

StartRevert ==
  /\ MayRun("revert")
  /\ \E s \in Slot : /\ RevertRequires(s) /\ MayRevert(s)
                     /\ Start("revert", "set_active", s, None, None)

StartPreventRevert ==
  /\ MayRun("prevent-revert")
  /\ \E s \in Slot :
       /\ PreventRevertRequires(s)
       /\ Start("prevent-revert", "unset_platform", s, None, None)

\* The application calls validate_firmware.
AppValidate ==
  /\ MayRun("validate")
  /\ Start("validate", "set_validated", slot, None, None)

\* nerves_runtime's startup guard does the same once all applications of a
\* firmware that reads as unvalidated have started.
GuardValidate ==
  /\ power = "up" /\ envValid /\ task = NoTask
  /\ guard = "armed"
  /\ store["rootfs"][slot] \in Healthy
  /\ Start("validate", "set_validated", slot, None, None)

-----------------------------------------------------------------------------
(* The steps of the upgrade tasks, and those they share.                    *)

\* on-init of upgrade and prevent-revert: forget the slot's metadata.
\* prevent-revert leaves the uuid.
UnsetPlatform ==
  /\ power = "up" /\ task.step = "unset_platform"
  /\ platform' = platform \ {task.target}
  /\ IF task.op = "upgrade" /\ env_coalesced
       THEN uuid' = [uuid EXCEPT ![task.target] = None]
       ELSE uuid' = uuid
  /\ Goto(IF task.op = "upgrade" /\ ~env_coalesced THEN "unset_uuid"
                                                  ELSE "trim")
  /\ UNCHANGED <<envCrc, nerves_fw_active, nerves_fw_validated,
                 nerves_fw_booted, upgrade_available, disk, soc, vouched>>

BugKeepUuid ==
  /\ At("upgrade", "unset_uuid")
  /\ Goto("trim")
  /\ UNCHANGED <<env, disk, soc, vouched>>
UnsetUuid ==
  /\ At("upgrade", "unset_uuid")
  /\ uuid' = [uuid EXCEPT ![task.target] = None]
  /\ Goto("trim")
  /\ UNCHANGED <<envCrc, nerves_fw_active, nerves_fw_validated,
                 nerves_fw_booted, upgrade_available, platform,
                 disk, soc, vouched>>

\* trim does nothing unless fwup was given --enable-trim.
Trim ==
  /\ power = "up" /\ task.step = "trim"
  /\ \E c \in {store["rootfs"][task.target], Erased} :
       store' = [store EXCEPT !["rootfs"][task.target] = c]
  /\ vouched' = vouched \ {task.target}
  /\ Goto("Image")
  /\ UNCHANGED <<env, extlinux, resource, soc>>

\* fwup writes the resources in the order fwup.conf lists them.
BugFinishEarly(step) ==
  CASE step = "Image"    -> "dtb"
    [] step = "dtb"      -> "extlinux"
    [] step = "extlinux" -> "resource"
    [] step = "resource" -> "set_platform"
    [] step = "rootfs"   -> "set_platform"
NextResource(step) ==
  CASE step = "Image"    -> "dtb"
    [] step = "dtb"      -> "extlinux"
    [] step = "extlinux" -> "resource"
    [] step = "resource" -> "rootfs"
    [] step = "rootfs"   -> "set_platform"

\* on-resource Image, devicetree.dtb and rootfs.img.  A delta is decoded
\* against the copy of the slot that is not being written.
BeginWrite(f) ==
  /\ At("upgrade", f)
  /\ task.base \in {None, store[f][Other(task.target)]}
  /\ store' = [store EXCEPT ![f][task.target] = Torn]
  /\ BeginIO
  /\ UNCHANGED <<env, extlinux, resource, soc, vouched>>

BugWritesSource(f) ==
  /\ At("upgrade", f) /\ task.io = "writing"
  /\ store' = [store EXCEPT ![f][Other(task.target)] = task.ver]
  /\ Goto(NextResource(f))
  /\ UNCHANGED <<env, extlinux, resource, soc, vouched>>
EndWrite(f) ==
  /\ At("upgrade", f) /\ task.io = "writing"
  /\ store' = [store EXCEPT ![f][task.target] = task.ver]
  /\ Goto(NextResource(f))
  /\ UNCHANGED <<env, extlinux, resource, soc, vouched>>

\* on-resource extlinux-<slot>.conf, of the upgrade and of the revert tasks.
BeginExtlinux ==
  /\ power = "up" /\ task.step = "extlinux"
  /\ extlinux' = Torn
  /\ BeginIO
  /\ UNCHANGED <<env, store, resource, soc, vouched>>

EndExtlinux ==
  /\ power = "up" /\ task.step = "extlinux" /\ task.io = "writing"
  /\ extlinux' = task.target
  /\ IF task.op = "revert" THEN task' = NoTask
                           ELSE Goto(NextResource("extlinux"))
  /\ UNCHANGED <<env, store, resource, soc, vouched>>

\* on-resource resource.img: the only copy is also the delta's source.
BeginResource ==
  /\ At("upgrade", "resource")
  /\ task.base \in {None, resource}
  /\ resource' = Torn
  /\ BeginIO
  /\ UNCHANGED <<env, store, extlinux, soc, vouched>>

EndResource ==
  /\ At("upgrade", "resource") /\ task.io = "writing"
  /\ resource' = task.ver
  /\ Goto(NextResource("resource"))
  /\ UNCHANGED <<env, store, extlinux, soc, vouched>>

\* on-finish, when its environment operations reach the eMMC together.
BugFinishTrusted ==
  /\ env_coalesced
  /\ At("upgrade", "set_platform")
  /\ platform' = platform \union {task.target}
  /\ uuid' = [uuid EXCEPT ![task.target] = task.ver]
  /\ nerves_fw_active' = task.target
  /\ nerves_fw_booted' = 0
  /\ task' = NoTask
  /\ UNCHANGED <<envCrc, nerves_fw_validated, upgrade_available,
                 disk, soc, vouched>>
UpgradeFinish ==
  /\ env_coalesced
  /\ At("upgrade", "set_platform")
  /\ platform' = platform \union {task.target}
  /\ uuid' = [uuid EXCEPT ![task.target] = task.ver]
  /\ nerves_fw_active' = task.target
  /\ nerves_fw_validated' = 0
  /\ nerves_fw_booted' = 0
  /\ task' = NoTask
  /\ UNCHANGED <<envCrc, upgrade_available, disk, soc, vouched>>

\* on-finish, one variable at a time.
SetPlatform ==
  /\ ~env_coalesced
  /\ At("upgrade", "set_platform")
  /\ platform' = platform \union {task.target}
  /\ Goto("set_uuid")
  /\ UNCHANGED <<envCrc, nerves_fw_active, nerves_fw_validated,
                 nerves_fw_booted, upgrade_available, uuid,
                 disk, soc, vouched>>

SetUuid ==
  /\ At("upgrade", "set_uuid")
  /\ uuid' = [uuid EXCEPT ![task.target] = task.ver]
  /\ Goto("set_active")
  /\ UNCHANGED <<envCrc, nerves_fw_active, nerves_fw_validated,
                 nerves_fw_booted, upgrade_available, platform,
                 disk, soc, vouched>>

\* nerves_fw_active of an upgrade, and of a revert.
SetActive ==
  /\ power = "up" /\ task.step = "set_active"
  /\ task.op = "upgrade" \/ ~env_coalesced
  /\ nerves_fw_active' = task.target
  /\ Goto("set_validated")
  /\ UNCHANGED <<envCrc, nerves_fw_validated, nerves_fw_booted,
                 upgrade_available, platform, uuid, disk, soc, vouched>>

UpgradeSetValidated ==
  /\ At("upgrade", "set_validated")
  /\ nerves_fw_validated' = 0
  /\ Goto("set_booted")
  /\ UNCHANGED <<envCrc, nerves_fw_active, nerves_fw_booted,
                 upgrade_available, platform, uuid, disk, soc, vouched>>

SetBooted ==
  /\ At("upgrade", "set_booted")
  /\ nerves_fw_booted' = 0
  /\ task' = NoTask
  /\ UNCHANGED <<envCrc, nerves_fw_active, nerves_fw_validated,
                 upgrade_available, platform, uuid, disk, soc, vouched>>

-----------------------------------------------------------------------------
(* The steps of the operations in fwup-ops.conf.                            *)

\* on-init of revert when its two writes reach the eMMC together.
RevertSwitch ==
  /\ env_coalesced
  /\ At("revert", "set_active")
  /\ nerves_fw_active' = task.target
  /\ nerves_fw_validated' = 1
  /\ Goto("extlinux")
  /\ UNCHANGED <<envCrc, nerves_fw_booted, upgrade_available,
                 platform, uuid, disk, soc, vouched>>

RevertSetValidated ==
  /\ At("revert", "set_validated")
  /\ nerves_fw_validated' = 1
  /\ Goto("extlinux")
  /\ UNCHANGED <<envCrc, nerves_fw_active, nerves_fw_booted,
                 upgrade_available, platform, uuid, disk, soc, vouched>>

\* prevent-revert removes the kernel, then the device tree.
FatRm(f) ==
  /\ At("prevent-revert", f)
  /\ store' = [store EXCEPT ![f][task.target] = Erased]
  /\ IF f = "Image" THEN Goto("dtb") ELSE task' = NoTask
  /\ UNCHANGED <<env, extlinux, resource, soc, vouched>>

\* on-init of validate.  The task does not name a slot: it trusts whichever
\* is active.  A legacy release leaves upgrade_available=0 behind.
Bootcount == IF store["rootfs"][slot] \in Legacy THEN "0" ELSE "absent"

ValidateFirmware ==
  /\ At("validate", "set_validated")
  /\ nerves_fw_validated' = 1
  /\ guard' = "idle"
  /\ vouched' = vouched \union {slot}
  /\ IF env_coalesced
       THEN upgrade_available' = Bootcount /\ task' = NoTask
       ELSE /\ upgrade_available' = upgrade_available
            /\ Goto("unset_upgrade_available")
  /\ UNCHANGED <<envCrc, nerves_fw_active, nerves_fw_booted, platform,
                 uuid, disk, power, slot>>

UnsetUpgradeAvailable ==
  /\ At("validate", "unset_upgrade_available")
  /\ upgrade_available' = Bootcount
  /\ task' = NoTask
  /\ UNCHANGED <<envCrc, nerves_fw_active, nerves_fw_validated,
                 nerves_fw_booted, platform, uuid, disk, soc, vouched>>

-----------------------------------------------------------------------------
(* What goes wrong, and restarts.                                           *)

\* An upgrade fails half way (the stream ends, the delta does not decode).
\* on-error is empty: nothing is put back.
TaskError ==
  /\ task.op = "upgrade"
  /\ task' = NoTask
  /\ UNCHANGED <<env, disk, soc, vouched>>

\* The operator, heart or the watchdog restarts the board.
Reboot ==
  /\ power = "up"
  /\ power' = "off"
  /\ guard' = "idle"
  /\ task' = NoTask
  /\ UNCHANGED <<env, disk, slot, vouched>>

PowerCut ==
  /\ power \in {"loader", "up", "hung"}
  /\ power' = "off"
  /\ guard' = "idle"
  /\ task' = NoTask
  /\ UNCHANGED <<env, disk, slot, vouched>>

EnvStep == {"unset_platform", "unset_uuid", "set_platform", "set_uuid",
            "set_active", "set_validated", "set_booted",
            "unset_upgrade_available"}

\* The power fails while fwup rewrites the environment block.
EnvTear ==
  /\ EnvTears
  /\ task.step \in EnvStep
  /\ envCrc' = "bad"
  /\ power' = "off"
  /\ guard' = "idle"
  /\ task' = NoTask
  /\ UNCHANGED <<nerves_fw_active, nerves_fw_validated, nerves_fw_booted,
                 upgrade_available, platform, uuid, disk, slot, vouched>>

-----------------------------------------------------------------------------
Loader == nerves_init \/ DistroBoot \/ nerves_boot

StartTask ==
  \/ \E v \in Version : StartUpgrade(v) \/ StartDelta(v)
  \/ StartRevert \/ StartPreventRevert \/ AppValidate

TaskStep ==
  \/ UnsetPlatform \/ UnsetUuid \/ Trim
  \/ \E f \in SlotFile : BeginWrite(f) \/ EndWrite(f)
  \/ BeginExtlinux \/ EndExtlinux \/ BeginResource \/ EndResource
  \/ UpgradeFinish \/ SetPlatform \/ SetUuid \/ SetActive
  \/ UpgradeSetValidated \/ SetBooted
  \/ RevertSwitch \/ RevertSetValidated
  \/ \E f \in {"Image", "dtb"} : FatRm(f)
  \/ ValidateFirmware \/ UnsetUpgradeAvailable

Fault == SaveenvTorn \/ TaskError \/ PowerCut \/ EnvTear

\* The operator and the eMMC stay what they are.
Kept == UNCHANGED <<rules, env_coalesced>>

Next ==
  /\ Loader \/ StartTask \/ GuardValidate \/ TaskStep \/ Reboot \/ Fault
  /\ Kept

Spec == Init /\ [][Next]_vars

\* heart and the watchdog restart a firmware whose applications do not run.
HeartReboot == store["rootfs"][slot] \notin Healthy /\ Reboot

Fairness ==
  /\ WF_vars(Kept /\ Loader)
  /\ WF_vars(Kept /\ TaskStep)
  /\ WF_vars(Kept /\ GuardValidate)
  /\ WF_vars(Kept /\ HeartReboot)

LiveSpec == Spec /\ Fairness

-----------------------------------------------------------------------------
(* Properties.                                                              *)

TypeOK ==
  /\ rules \in RuleSets /\ env_coalesced \in EnvCoalesced
  /\ envCrc \in {"good", "bad"}
  /\ nerves_fw_active \in Slot
  /\ nerves_fw_validated \in {0, 1}
  /\ nerves_fw_booted \in {0, 1}
  /\ upgrade_available \in {"absent", "0"}
  /\ platform \subseteq Slot
  /\ uuid \in [Slot -> Version \union {None}]
  /\ store \in [SlotFile -> [Slot -> Content]]
  /\ extlinux \in Slot \union {Torn}
  /\ resource \in Content
  /\ power \in {"off", "loader", "up", "hung"}
  /\ slot \in Slot
  /\ guard \in {"idle", "armed"}
  /\ task \in Task
  /\ task.op = "upgrade" => task.ver \in Version
  /\ vouched \subseteq Slot

\* The metadata fwup checks before it reverts to a slot is never ahead of
\* the slot's contents: a slot with platform and architecture set holds one
\* whole release, and its uuid is absent or that release's.  on-init of the
\* upgrade unsets them first and on-finish sets them last.
MetadataTruthful ==
  \A s \in platform : Complete(s) /\ uuid[s] \in {None, store["Image"][s]}

\* Whatever interrupts an upgrade, a revert or prevent-revert, the slot
\* nerves_init would load next can boot, and so can the one it would revert
\* to.
NeverBricked ==
  envValid => /\ Complete(nerves_fw_active)
              /\ nerves_fw_validated = 0 => Complete(Other(nerves_fw_active))

\* No task writes the slot the device runs from, and the kernel always runs
\* with the device tree and root file system of its own release.
RunningSlotIntact == power = "up" /\ envValid => Complete(slot)

\* A firmware that runs unvalidated has its startup guard armed: no left-over
\* upgrade_available=0 hides the state from nerves_runtime.
GuardArmed ==
  power = "up" /\ envValid /\ slot = nerves_fw_active
    /\ nerves_fw_validated = 0 => guard = "armed"

\* The device never wedges itself out of updates: between tasks the upgrade
\* either runs or asks for validation, never `unexpected' or `wrongplatform'.
UpgradePossible ==
  envValid /\ task = NoTask
    => UpgradeTask \in {"upgrade.a", "upgrade.b", "upgrade.unvalidated"}

\* A delta upgrade always finds in the slot it decodes against the release
\* the delta was made for.
DeltaSources ==
  task.op = "upgrade" /\ task.base # None
    => \A f \in SlotFile : store[f][Other(task.target)] = task.base

\* While the active firmware is not validated, no task touches either slot.
UnvalidatedFreezesSlots ==
  [][envValid /\ nerves_fw_validated = 0 => UNCHANGED store]_vars

\* A slot that U-Boot boots without the automatic revert has been validated
\* by its own firmware since it was written.
TrustedActive ==
  envValid /\ nerves_fw_validated = 1 => nerves_fw_active \in vouched

\* The same where a section of the environment is one write and the operator
\* reverts only to firmware that validated itself.
Trusted == env_coalesced /\ rules = AllRules => TrustedActive

\* Once the board restarts into an update it is settled, however often the
\* power fails: the startup guard validates it or nerves_init reverts it.
UpdateSettles ==
  nerves_fw_validated = 0 /\ power = "off" ~> nerves_fw_validated = 1

\* Unless the power keeps failing while U-Boot runs, the device keeps coming
\* back to a firmware whose applications run, whatever releases it is given.
HealthyAgain ==
  <>[][power = "loader" => ~PowerCut]_vars
    => []<>(power = "up" /\ store["rootfs"][slot] \in Healthy)

\* What a slot holds as far as its metadata tells.
Announced(s) == IF s \in platform THEN store["Image"][s] ELSE None

\* The abstract update.  With coalesced environment writes and an operator who
\* keeps the safety rules every step of fwup, U-Boot and the guard is one of
\* its steps or changes nothing it knows of: installing, confirming, reverting
\* and giving up a slot are all or nothing across any interruption.
Promise == INSTANCE SlotUpdate WITH
             current <- store["Image"][nerves_fw_active],
             spare <- Announced(Other(nerves_fw_active)),
             trial <- nerves_fw_validated = 0,
             lost <- ~envValid

\* Where a section of the environment is one write, fwup, U-Boot and the
\* startup guard implement the abstract update (SlotUpdate).
Promised == Promise!Init /\ [][env_coalesced => Promise!Next]_(Promise!vars)

\* What the documentation promises when the environment is lost: the board
\* comes up from extlinux.conf.
RecoveryBoots ==
  ~envValid /\ power = "off" => extlinux \in Slot /\ Complete(extlinux)

\* What the documentation implies by calling the shared resource partition
\* a matter of the splash screen only: a delta upgrade, which decodes against
\* that partition too, finds its base there.
\* Not kept by the code, see the README.
DeltaResource ==
  At("upgrade", "resource") /\ resource \in Version
    => task.base \in {None, resource}

\* What prevent-revert's comment claims to check: it erases the slot the
\* device does not run from.
PreventsOtherSlot ==
  power = "up" /\ task.op = "prevent-revert" => slot = Other(task.target)
=============================================================================
