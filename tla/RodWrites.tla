------------------------------- MODULE RodWrites -------------------------------
(* The writes of the PowerGlow heating rods of one PowerOcean                   *)
(* (coordinator/set_commands.py, the PowerGlow setters).  A rod has no          *)
(* coordinator: every rod's report lands in the same keys of the PowerOcean's   *)
(* store, with the rod's serial beside them, and a write goes to the rod that   *)
(* reported last.  The app's one control of off, Solar and Manual is two        *)
(* settings, a run switch and a mode, and so up to two writes.                  *)
EXTENDS ReadBack

CONSTANTS
    Rods,
    Targets,        \* values of the target power (the target temperature alike)
    MaxToRod,       \* bound on the frames under way to the rods
    MaxFromRod,     \* bound on the reports under way
    LateWrites      \* a write may be taken after its call has ended

Modes == {"solar", "manual"}
Options == Modes \cup {"off"}
RodStates == [mode : Modes, on : BOOLEAN, power : Targets]

VARIABLES
    present,    \* the rods connected
    rods,       \* what each is set to
    toRod,      \* writes under way
    fromRod,    \* reports under way
    shown,      \* _device_data: the last report, with its rod's serial
    chosen      \* history: the option of the newest call, if it was sent and confirmed

fieldVars == <<present, rods, toRod, fromRod>>
rodVars == <<slotVars, fieldVars, shown, chosen>>

RodInit ==
    /\ SlotInit
    /\ present \in (SUBSET Rods) \ {{}}
    /\ rods \in [Rods -> RodStates]
    /\ \A r \in Rods \ present : rods[r] = [mode |-> "solar", on |-> FALSE,
                                            power |-> CHOOSE t \in Targets : TRUE]
    /\ \E r \in present : shown = [rod |-> r, is |-> rods[r]]
    /\ toRod = <<>> /\ fromRod = <<>>
    /\ chosen = {}

\* heating_rod_operating_mode, derived by the parser.
Operating(is) == IF is.on THEN is.mode ELSE "off"

\* What a report says of the key a write is confirmed on.
Reads(step, is) ==
    CASE step = "mode" -> is.mode
      [] step = "power" -> is.power
      [] step = "run" -> Operating(is)

\* One write of one setting to the rod shown.  "then" is the option the call is for.
Asks(step, want, then) ==
    [at |-> "sending", rod |-> shown.rod, step |-> step, want |-> want, then |-> then]

Sends(c, asked) ==
    /\ Records(c, asked, Reads(asked.step, rods[asked.rod]))
    /\ Len(toRod) < MaxToRod
    /\ PromptFrames => \A i \in DOMAIN fromRod : fromRod[i].rod # asked.rod
    /\ toRod' = Append(toRod, [rod |-> asked.rod, step |-> asked.step, want |-> asked.want])
    /\ UNCHANGED stopped

-----------------------------------------------------------------------------
\* async_set_powerglow_value: the power's ceiling is the one of the rod shown.
SetValue(c, value) ==
    /\ MayPublish(c)
    /\ Sends(c, Asks("power", value, "power"))
    /\ UNCHANGED <<present, rods, fromRod, shown, chosen>>

\* The writes an option may take, the mode first; off is always written, of the others
\* only what the store does not show already.
Steps(option) == IF option = "off" THEN {"run"} ELSE {"mode", "run"}

\* (faulty: the mode is taken to switch a rod on)
ModeIsEnough(step, option) == option = "off" \/ (step = "mode" /\ shown.is.mode # option)

Needed(step, option) ==
    \/ option = "off"
    \/ step = "mode" /\ shown.is.mode # option
    \/ step = "run" /\ ~shown.is.on

Left(option) == {step \in Steps(option) : Needed(step, option)}

\* async_set_powerglow_operating_mode
SetMode(c, option) ==
    /\ At(c, "idle")
    /\ IF Left(option) = {}
       THEN chosen' = {} /\ UNCHANGED <<slotVars, toRod>>
       ELSE /\ MayPublish(c)
            /\ Sends(c, Asks(IF "mode" \in Left(option) THEN "mode" ELSE "run", option, option))
            /\ chosen' = {}
    /\ UNCHANGED <<present, rods, fromRod, shown>>

\* The step is confirmed.  The call's task goes on without a break: it clears its
\* record and, if the rod does not run yet, sends the next step or is refused.
Succeeds(c) ==
    /\ Confirmed(c)
    /\ LET was == call[c]
       IN  IF was.step = "mode" /\ Needed("run", was.then)
           THEN /\ \/ Sends(c, Asks("run", was.then, was.then))
                   \/ Ends(c) /\ UNCHANGED toRod          \* offline by now
                /\ UNCHANGED chosen
           ELSE /\ Ends(c) /\ UNCHANGED toRod
                /\ chosen' = IF was.then \in Options THEN {was.then} ELSE chosen
    /\ UNCHANGED <<present, rods, fromRod, shown>>

Fails(c) ==
    /\ NotDelivered(c) \/ Unconfirmed(c) \/ Cancelled(c)
    /\ LateWrites \/ \A i \in DOMAIN toRod : ~(toRod[i].rod = call[c].rod)
    /\ UNCHANGED <<fieldVars, shown, chosen>>

RodDelivered(c) == Delivered(c) /\ UNCHANGED <<fieldVars, shown, chosen>>

-----------------------------------------------------------------------------
Took(is, w) ==
    CASE w.step = "mode" -> [is EXCEPT !.mode = w.want]
      [] w.step = "power" -> [is EXCEPT !.power = w.want]
      [] w.step = "run" -> [is EXCEPT !.on = (w.want # "off")]

\* A rod takes a write, or refuses it or never gets it.
RodTakes ==
    /\ toRod # <<>> /\ toRod' = Tail(toRod)
    /\ LET w == Head(toRod)
       IN  \/ /\ rods' = [rods EXCEPT ![w.rod] = Took(@, w)]
              /\ since' = IF slot # NoCall /\ call[slot].rod = w.rod
                          THEN since \cup {Reads(call[slot].step, Took(rods[w.rod], w))}
                          ELSE since
           \/ UNCHANGED <<rods, since>>
    /\ UNCHANGED <<call, slot, resolved, sender, stopped, present, fromRod, shown, chosen>>

RodReports(r) ==
    /\ r \in present /\ Len(fromRod) < MaxFromRod
    /\ fromRod' = Append(fromRod, [rod |-> r, is |-> rods[r]])
    /\ UNCHANGED <<slotVars, present, rods, toRod, shown, chosen>>

AnyRodConfirms(f) ==                         \* (faulty: no serial required)
    /\ slot # NoCall /\ ~resolved
    /\ Reads(call[slot].step, f.is) = call[slot].want

\* _resolve_pending_write: a record that names a rod wants that rod's report.
RodConfirms(f) ==
    /\ slot # NoCall /\ ~resolved
    /\ f.rod = call[slot].rod
    /\ Reads(call[slot].step, f.is) = call[slot].want

RodReportArrives ==
    /\ fromRod # <<>> /\ fromRod' = Tail(fromRod)
    /\ shown' = Head(fromRod)
    /\ resolved' = (resolved \/ RodConfirms(Head(fromRod)))
    /\ UNCHANGED <<call, slot, sender, stopped, since, present, rods, toRod, chosen>>

RodStops == Stops /\ UNCHANGED <<fieldVars, shown, chosen>>

RodNext ==
    \/ \E c \in Calls :
          \/ \E t \in Targets : SetValue(c, t)
          \/ \E o \in Options : SetMode(c, o)
          \/ RodDelivered(c) \/ Succeeds(c) \/ Fails(c)
    \/ RodTakes \/ \E r \in Rods : RodReports(r)
    \/ RodReportArrives \/ RodStops

RodSpec == RodInit /\ [][RodNext]_rodVars

-----------------------------------------------------------------------------
\* A write that is reported done was taken by the rod it was addressed to: the
\* report of another rod on the same PowerOcean confirms nothing.
RodTookIt == resolved => call[slot].want \in since

\* The option of the newest call, once a write of it was confirmed, is what the rod
\* does, whichever of its two steps the call skipped, while there is one rod.
\* (A call that finds its option shown sends nothing and succeeds, although a write
\* that is still out, or one that was taken and not reported, says otherwise.)
ChoiceStands ==
    toRod = <<>> /\ (\A c \in Calls : At(c, "idle")) =>
        \A r \in present : present = {r} => chosen \subseteq {Operating(rods[r])}
=============================================================================
