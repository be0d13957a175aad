----------------------------- MODULE DeviceWrites -----------------------------
(* The writes of one coordinator.  A coordinator serves one device, and the    *)
(* device's family decides which of the write paths of                         *)
(* coordinator/set_commands.py it has: the Ocean 2 writes (Ocean2Write), the   *)
(* settings that share a frame (ConfigWrites), the scheduled tasks of the      *)
(* STREAM AC 5000 (TaskWrites), one frame of any other device (SettingFrames)  *)
(* or the air conditioner's bundled calls (WaveClimate).  The first three take *)
(* turns on the one _device_config_lock, beside the shutdown of the entry.     *)
EXTENDS Ocean2Write

CONSTANTS
    MaxReports, MaxFrames, Hurried,    \* of ConfigWrites
    MaxSlot, MaxTaskFrames,            \* of TaskWrites
    Top,                               \* of SettingFrames
    SettledFirst, RestartSettles            \* of WaveClimate

ASSUME DeviceAssumption ==
    /\ MaxReports \in Nat /\ MaxFrames \in Nat /\ Hurried \in BOOLEAN
    /\ MaxSlot \in Nat /\ MaxTaskFrames \in Nat
    /\ Top \in Nat \ {0} /\ Unset \notin 0..Top /\ SettledFirst \in BOOLEAN /\ RestartSettles \in BOOLEAN

VARIABLES
    family,                                                          \* of the device
    style, groupWrite, values, held, device, groupFrames, reports,   \* ConfigWrites
    coming, unsure,
    taskWrite, view, tasks, taskFrames, taskUnsure,                  \* TaskWrites
    form, settings, known, outgoing, fresh, edited,                  \* SettingFrames
    unit, shown, climate, mine, dropped                              \* WaveClimate

oceanVars == <<at, write, replaced, record, snapshot, refusals, store, seed, told>>
groupVars == <<style, groupWrite, values, held, device, groupFrames, reports, coming, unsure>>
taskVars == <<taskWrite, view, tasks, taskFrames, taskUnsure>>
frameVars == <<form, settings, known, outgoing, fresh, edited>>
climateVars == <<unit, shown, climate, mine, dropped>>
deviceVars == <<family, holder, shutdown, oceanVars, groupVars, taskVars, frameVars, climateVars>>

Group == INSTANCE ConfigWrites WITH
    Calls <- Writes, NoCall <- NoWrite, Values <- Levels, write <- groupWrite,
    lock <- holder, store <- values, frames <- groupFrames
Tasks == INSTANCE TaskWrites WITH
    Calls <- Writes, NoCall <- NoWrite, MaxFrames <- MaxTaskFrames, write <- taskWrite,
    lock <- holder, frames <- taskFrames, unsure <- taskUnsure
Frames == INSTANCE SettingFrames WITH Unreported <- Unset, NoFrame <- NoWrite
Climate == INSTANCE WaveClimate WITH Calls <- Writes

Families == {"ocean2", "grouped", "tasks", "frames", "climate"}

\* The state of the families the device is not of: their calls never begin.
DeviceInit ==
    /\ family \in Families
    /\ Init
    /\ IF family = "grouped" THEN Group!Init
       ELSE /\ style = "stream" /\ groupWrite = [w \in Writes |-> Group!Idle]
            /\ device = [f \in Group!Fields |-> Unset] /\ values = device /\ coming = device
            /\ held = Unset /\ groupFrames = <<>> /\ reports = <<>> /\ unsure = {}
    /\ IF family = "tasks" THEN Tasks!Init
       ELSE /\ tasks = {} /\ view = Tasks!ViewOf({})
            /\ taskWrite = [w \in Writes |-> Tasks!Idle]
            /\ taskFrames = <<>> /\ taskUnsure = FALSE
    /\ IF family = "frames" THEN Frames!FramesInit
       ELSE /\ form = "band" /\ settings = [s \in Frames!Settings |-> 0] /\ known = settings
            /\ outgoing = NoWrite /\ fresh = TRUE /\ edited = {}
    /\ IF family = "climate" THEN Climate!ClimateInit
       ELSE /\ unit = [on |-> FALSE, mode |-> "fan", deaf |-> FALSE]
            /\ shown = [on |-> FALSE, mode |-> "fan"]
            /\ climate = [c \in Writes |-> Climate!Resting] /\ mine = {} /\ dropped = FALSE

Ocean2Step ==
    family = "ocean2" /\ Next /\ UNCHANGED <<family, groupVars, taskVars, frameVars, climateVars>>
GroupedStep ==
    family = "grouped" /\ Group!Next
    /\ UNCHANGED <<family, oceanVars, taskVars, frameVars, climateVars>>
TasksStep ==
    family = "tasks" /\ Tasks!Next
    /\ UNCHANGED <<family, shutdown, oceanVars, groupVars, frameVars, climateVars>>
FramesStep ==
    family = "frames" /\ Frames!FramesNext
    /\ UNCHANGED <<family, holder, shutdown, oceanVars, groupVars, taskVars, climateVars>>
ClimateStep ==
    family = "climate" /\ Climate!ClimateNext
    /\ UNCHANGED <<family, holder, shutdown, oceanVars, groupVars, taskVars, frameVars>>
DeviceNext == Ocean2Step \/ GroupedStep \/ TasksStep \/ FramesStep \/ ClimateStep

DeviceSpec == DeviceInit /\ [][DeviceNext]_deviceVars

-----------------------------------------------------------------------------
\* ConfigWrites: a write of one setting never moves another.
OthersKept == Group!OthersKept
\* TaskWrites: the device never holds two whole-day tasks, and only the owner
\* changes the owner's tasks.
TasksKept == []Tasks!OneDayTask /\ Tasks!OwnersTasksStay
\* SettingFrames: a frame moves the asked setting and no other.
NothingElseMoves == Frames!NothingElseMoves
\* WaveClimate: the set point of a call that switched the mode lands.
SetpointLands == Climate!SetpointLands
=============================================================================
