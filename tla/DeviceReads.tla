----------------------------- MODULE DeviceReads -----------------------------
(* What becomes of what is heard from a device, besides storing it.  A cloud   *)
(* coordinator judges whether its device is available and brings the surplus   *)
(* limit of an EMS in line with the app's; a raw data capture keeps the frames *)
(* in its buffer; a local PowerOcean is read and kept under control over       *)
(* Modbus, where polls, beats and settings share only the connection, whose    *)
(* queue LocalControl models, and the verdict of a poll, which LocalControl    *)
(* takes as any verdict.  An entity of the device shows one reading to Home    *)
(* Assistant.  So the six share no state, and each behaviour follows one.      *)
EXTENDS SurplusSync, Availability, FrameBuffer, LocalControl, LocalReadings

CONSTANTS Unreported, FirstNew, LimitsStay      \* of SettingControls

\* A missing reading and a None are neither readings nor each other.
ASSUME EntityAssumption ==
    Unreported \notin 0..Top /\ Unknown \notin 0..Top /\ Unreported # Unknown

VARIABLES
    followed,   \* "surplus", "availability", "frames", "control", "readings" or "entity"
    entityKind, entityStore, entityOnline, entityLink, entity, written, stated, entityOwned,
    settled

entityVars == <<entityKind, entityStore, entityOnline, entityLink, entity, written, stated,
                entityOwned, settled>>
readsVars ==
    <<followed, surplusVars, availabilityVars, bufferVars, controlVars, readingsVars, entityVars>>

Entity == INSTANCE SettingControls WITH
    High <- Top, kind <- entityKind, store <- entityStore, online <- entityOnline,
    link <- entityLink, control <- entity, last <- written, ha <- stated, owned <- entityOwned

\* What is not followed starts in one state.
ReadsInit ==
    /\ followed \in {"surplus", "availability", "frames", "control", "readings", "entity"}
    /\ SurplusInit /\ AvailabilityInit /\ BufferInit /\ ControlInit /\ ReadingsInit
    /\ followed # "surplus" => slider = CHOOSE p \in Percents : TRUE
    /\ followed # "availability" => login = "app"
    /\ followed # "frames" => clock = 0
    /\ followed # "readings" => ~device.fault
    /\ Entity!ControlsInit
    /\ followed # "entity" => entityKind = "select" /\ ~entityOnline /\ entityStore.reading = Unknown

SurplusStep ==
    followed = "surplus" /\ SurplusNext
        /\ UNCHANGED <<followed, availabilityVars, bufferVars, controlVars, readingsVars, entityVars>>
AvailabilityStep ==
    followed = "availability" /\ AvailabilityNext
        /\ UNCHANGED <<followed, surplusVars, bufferVars, controlVars, readingsVars, entityVars>>
FramesStep ==
    followed = "frames" /\ BufferNext
        /\ UNCHANGED <<followed, surplusVars, availabilityVars, controlVars, readingsVars, entityVars>>
ControlStep ==
    followed = "control" /\ ControlNext
        /\ UNCHANGED <<followed, surplusVars, availabilityVars, bufferVars, readingsVars, entityVars>>
ReadingsStep ==
    followed = "readings" /\ ReadingsNext
        /\ UNCHANGED <<followed, surplusVars, availabilityVars, bufferVars, controlVars, entityVars>>
EntityStep ==
    followed = "entity" /\ Entity!ControlsNext
        /\ UNCHANGED <<followed, surplusVars, availabilityVars, bufferVars, controlVars, readingsVars>>
ReadsNext ==
    SurplusStep \/ AvailabilityStep \/ FramesStep \/ ControlStep \/ ReadingsStep \/ EntityStep

ReadsSpec == ReadsInit /\ [][ReadsNext]_readsVars

-----------------------------------------------------------------------------
\* SettingControls: after an update that reached it past the optimistic lock, Home
\* Assistant shows an entity as it is, value, availability and bounds.
PublishedCurrent == Entity!PublishedCurrent
=============================================================================
