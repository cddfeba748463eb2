------------------------------- MODULE Belief -------------------------------
(***************************************************************************)
(* What the robot believes of the world against the world: WorldState with *)
(* its provenance (core/planning/base.py), what sensors and verifiers make *)
(* of it (reconcile.py, sensor_health.py, verify.py, verify_vlm.py, the    *)
(* guard and the recoveries of assist_loop.py), an operator's edit of it,  *)
(* and the file it survives in (state.py).                                 *)
(*                                                                         *)
(* The world is where the base stands, what the hand holds and which       *)
(* containers are open.  A sensor says how it is or cannot be read.  The   *)
(* next step is any one whose preconditions hold in the belief: StepLoop   *)
(* has the order of steps, retries and questions, PausePoint the pauses.    *)
(* `found`, `on`, poses and the wording are left out.                      *)
(***************************************************************************)
EXTENDS Naturals, FiniteSets

CONSTANTS
    Place,      \* ENV places with a `loc`
    Container,  \* the places that open
    Object,
    None,       \* no place, nothing, no file
    Thing,      \* "unknown object": something is in the hand
    Torn,       \* the content of a file that is being written
    Readable,       \* containers whose state the adapter reads
    Refutable,  \* actions with a VLM VerifySpec
    MaxSteps, MaxEvents     \* bounds: steps, what comes from outside

VARIABLES
    at, hand, open,     \* the world
    belief,             \* state.world: arrived, holding, opened
    prov,               \* its provenance, of `arrived` and of each container
    setBy,              \* history: who set `arrived` last
    measured,           \* history: was the base measured since it last drove?
    phase,              \* of the process and its run
    doing,              \* the step at hand: what, where or whom, and how far it is
    again,              \* the place of a MoveTo that is tried again, or None
    file, tmp, saver,   \* the saved belief, its next version, who is saving
    told,               \* history: the operator's last word of `holding` that still stands
    steps, events

world == <<at, hand, open>>
mind == <<belief, prov, setBy, measured, told>>
run == <<phase, doing, again>>
disk == <<file, tmp, saver>>
counts == <<steps, events>>
vars == <<world, mind, run, disk, counts>>

Somewhere == Place \cup {None}
Held == Object \cup {None, Thing}
Beliefs == [arrived : Somewhere, holding : Held, opened : SUBSET Container]
Saved == [holding : Held, opened : SUBSET Container]
Source == {"sensor", "operator", "belief", "unknown"}
Thread == {"run", "operator"}
Step == [does : {"MoveTo", "Find", "Pick", "Place", "Open", "Close"}, on : Place \cup Object]

Nothing == [holding |-> None, opened |-> {}]
NoStep == [stage |-> "none"]
NoProv == [arrived |-> [source |-> "belief", value |-> None], state |-> [c \in Container |-> None]]
NotSaving == [stage |-> "no"]

TypeOK ==
    /\ at \in Somewhere /\ hand \in Object \cup {None} /\ open \subseteq Container
    /\ belief \in Beliefs
    /\ prov \in [arrived : [source : Source, value : Somewhere],
                 state : [Container -> BOOLEAN \cup {None}]]
    /\ setBy \in Source /\ measured \in BOOLEAN
    /\ told \in Held \cup {"no"}
    /\ phase \in {"off", "idle", "running", "paused"}
    /\ doing.stage \in {"none", "guarded", "started", "worked", "failed"}
    /\ again \in Somewhere
    /\ file \in Saved \cup {None, Torn} /\ tmp \in Saved \cup {None, Torn}
    /\ \A t \in Thread : saver[t].stage \in {"no", "due", "dumped", "opened", "written"}
    /\ steps \in 0..MaxSteps /\ events \in 0..MaxEvents

-----------------------------------------------------------------------------
(* Provenance.                                                             *)

\* provenance_of(): an entry counts while the field has the value it was made for.
SourceOf == IF prov.arrived.value = belief.arrived THEN prov.arrived.source ELSE "belief"

\* mark()
Marked(source, value) == [source |-> source, value |-> value]

\* container_provenance(): has a read confirmed what is believed of the container?
Confirmed(c) == prov.state[c] # None /\ prov.state[c] = (c \in belief.opened)

\* A new `arrived`, its entry and who set it.
Sets(place, source) ==
    /\ belief' = [belief EXCEPT !.arrived = place]
    /\ prov' = [prov EXCEPT !.arrived = Marked(source, place)]
    /\ setBy' = source

\* Who set `arrived` last, when a skill's effect makes it this place.
By(place) == IF place = belief.arrived THEN setBy ELSE "belief"

\* A change of `holding` that is not the operator's ends what he said.
Forgets == told' = "no"

-----------------------------------------------------------------------------
(* The process and its file.                                               *)

Init ==
    /\ at \in Somewhere /\ hand = None /\ open = {}
    /\ belief = [arrived |-> None, holding |-> None, opened |-> {}]
    /\ prov = NoProv /\ setBy = "belief" /\ measured = FALSE
    /\ phase = "idle" /\ doing = NoStep /\ again = None
    /\ file = None /\ tmp = None /\ saver = [t \in Thread |-> NotSaving]
    /\ told = "no"
    /\ steps = 0 /\ events = 0

Idle(t) == saver[t].stage = "no"
Saves(t) == saver' = [saver EXCEPT ![t] = [stage |-> "due"]]
Turn(t, s) == saver' = [saver EXCEPT ![t] = s]

\* save_world(): the belief as it is now, written to the process's one temporary file,
\* which then replaces the saved one.  A file that another thread moved away in between
\* is still the one being written, and there is none to move then.
Dump(t) ==
    /\ saver[t].stage = "due"
    /\ Turn(t, [stage |-> "dumped",
                text |-> [holding |-> belief.holding, opened |-> belief.opened]])
    /\ UNCHANGED <<file, tmp>>

Open(t) ==
    /\ saver[t].stage = "dumped"
    /\ tmp' = Torn
    /\ Turn(t, [saver[t] EXCEPT !.stage = "opened"])
    /\ UNCHANGED file

WriteText(t) ==
    /\ saver[t].stage = "opened"
    /\ IF tmp = None THEN file' = saver[t].text /\ UNCHANGED tmp
                     ELSE tmp' = saver[t].text /\ UNCHANGED file
    /\ Turn(t, [stage |-> "written"])

Replace(t) ==
    /\ saver[t].stage = "written"
    /\ IF tmp = None THEN UNCHANGED <<file, tmp>> ELSE file' = tmp /\ tmp' = None
    /\ Turn(t, NotSaving)

SaveStep(t) ==
    /\ Dump(t) \/ Open(t) \/ WriteText(t) \/ Replace(t)
    /\ UNCHANGED <<world, mind, run, counts>>

Happens == events < MaxEvents /\ events' = events + 1 /\ UNCHANGED steps

\* The process stops, with whatever it was at.
Crash ==
    /\ phase # "off" /\ Happens
    /\ phase' = "off" /\ doing' = NoStep /\ again' = None
    /\ tmp' = None /\ saver' = [t \in Thread |-> NotSaving]
    /\ told' = IF Idle("operator") THEN told ELSE "no"
    /\ UNCHANGED <<world, belief, prov, setBy, measured, file>>

\* load_world(): all but where the robot is; a file that cannot be read is none.
Loaded == IF file \in {None, Torn} THEN Nothing ELSE file
Boot ==
    /\ phase = "off"
    /\ phase' = "idle"
    /\ belief' = [arrived |-> None, holding |-> Loaded.holding, opened |-> Loaded.opened]
    /\ prov' = NoProv /\ setBy' = "belief"
    /\ UNCHANGED <<world, measured, doing, again, disk, told, counts>>

\* PUT /agent/world: an edit of one field, the operator's from now on, and saved.
Edit ==
    /\ phase # "off" /\ Idle("operator") /\ Happens
    /\ \/ \E p \in Somewhere : Sets(p, "operator") /\ UNCHANGED told
       \/ \E x \in Object \cup {None} :
             belief' = [belief EXCEPT !.holding = x] /\ told' = x /\ UNCHANGED <<prov, setBy>>
    /\ Saves("operator")
    /\ UNCHANGED <<world, measured, run, file, tmp>>

-----------------------------------------------------------------------------
(* Reconciling: at the start of a run, on a resume, when a task is taken    *)
(* back.                                                                    *)

\* The holding sensor, run through the skill registry: empty, full or not readable.
SeesEmpty == hand = None

\* reconcile_containers(): what the adapter reads replaces the belief.
OpenedRead == (belief.opened \ Readable) \cup (open \cap Readable)
StateRead == [c \in Container |-> IF c \in Readable THEN c \in open ELSE prov.state[c]]

\* Mutant: without a fresh pose the robot is believed to be where it was.
PlaceKept(posed) == IF posed THEN at ELSE belief.arrived

\* reconcile_arrived(): the nearest place of a fresh pose, or unknown without one.
PlaceRead(posed) == IF posed THEN at ELSE None

\* RobotView.reconcile with reconcile_sensors: a held object the sensor does not see is
\* dropped, `arrived` is what the pose says.
Reconcile ==
    \E posed, felt \in BOOLEAN :
       LET place == PlaceRead(posed)
           dropped == felt /\ SeesEmpty /\ belief.holding # None
           now == [arrived |-> place, opened |-> OpenedRead,
                   holding |-> IF dropped THEN None ELSE belief.holding] IN
       /\ belief' = now
       /\ prov' = [arrived |-> Marked(IF posed THEN "sensor" ELSE "unknown", place),
                   state |-> StateRead]
       /\ setBy' = (IF posed THEN "sensor" ELSE "unknown") /\ measured' = posed
       /\ told' = IF dropped THEN "no" ELSE told
       /\ IF now # belief THEN Saves("run") ELSE UNCHANGED saver

Begins ==
    /\ phase \in {"idle", "paused"} /\ Idle("run")
    /\ phase' = "running"
    /\ Reconcile
    /\ UNCHANGED <<world, doing, again, file, tmp, counts>>

-----------------------------------------------------------------------------
(* One step: guard, run, verify, effect or recovery.                        *)

AtPlace == {"Find", "Pick", "Place", "Open", "Close"}
Boundary == phase = "running" /\ doing = NoStep /\ Idle("run")

\* _precondition(): Place, Open and Close where the robot is believed to be, a hand that
\* is believed full or empty as the action needs it.
Precondition(st, b) ==
    /\ st.does \in {"Place", "Open", "Close"} => b.arrived = st.on
    /\ st.does = "Place" => b.holding # None
    /\ st.does \in {"Pick", "Open", "Close"} => b.holding = None
    /\ st.does = "Open" => st.on \notin b.opened
    /\ st.does = "Close" => st.on \in b.opened

\* The steps there are, MoveTo again when that is what is tried.
MayCome(st) ==
    /\ (st.does \in {"Find", "Pick"}) = (st.on \in Object)
    /\ st.does \in {"Open", "Close"} => st.on \in Container
    /\ again # None => st = [does |-> "MoveTo", on |-> again]

\* guard_arrived(): a place no sensor confirmed is looked up before a step there.
Guard(st) ==
    /\ Boundary /\ MayCome(st) /\ steps < MaxSteps
    /\ steps' = steps + 1 /\ UNCHANGED events
    /\ doing' = [stage |-> "guarded", step |-> st]
    /\ \/ /\ st.does \in AtPlace /\ SourceOf # "sensor"
          /\ Sets(at, "sensor") /\ measured' = TRUE
          /\ IF at # belief.arrived THEN Saves("run") ELSE UNCHANGED saver
       \/ UNCHANGED <<belief, prov, setBy, measured, saver>>
    /\ UNCHANGED <<world, phase, again, file, tmp, told>>

\* The rest of _guard: the preconditions, and the hand.  Something believed held that
\* is not there is dropped from the belief; before a Place that is the end of the run.
Empty == [belief EXCEPT !.holding = None]
Checks ==
    LET st == doing.step IN
    /\ doing.stage = "guarded" /\ Idle("run")
    /\ \E felt \in BOOLEAN :
          LET gone == /\ felt /\ SeesEmpty /\ belief.holding # None
                      /\ \/ st.does = "Pick"
                         \/ st.does = "Place" /\ Precondition(st, belief)
              b == IF gone THEN Empty ELSE belief IN
          /\ belief' = b
          /\ told' = IF gone THEN "no" ELSE told
          /\ IF gone /\ st.does = "Place" THEN phase' = "idle" /\ doing' = NoStep
             ELSE /\ UNCHANGED phase
                  /\ doing' = IF Precondition(st, b) THEN [doing EXCEPT !.stage = "started"] ELSE NoStep
    /\ UNCHANGED <<world, prov, setBy, measured, again, disk, counts>>

\* The skill: it does what it says, or fails somewhere on the way.
Works ==
    LET st == doing.step IN
    /\ at' = IF st.does = "MoveTo" THEN st.on ELSE at
    /\ hand' = CASE st.does = "Pick" -> st.on [] st.does = "Place" -> None [] OTHER -> hand
    /\ open' = CASE st.does = "Open" -> open \cup {st.on}
                 [] st.does = "Close" -> open \ {st.on}
                 [] OTHER -> open
Misses ==
    LET st == doing.step IN
    /\ st.does # "Place" \/ hand' \in {hand, None}
    /\ st.does # "Pick" \/ hand' \in Object \cup {None}
    /\ st.does \in {"Pick", "Place"} \/ hand' = hand
    /\ IF st.does = "MoveTo" THEN at' \in Somewhere ELSE at' = at
    /\ UNCHANGED open

Skill ==
    /\ doing.stage = "started" /\ Idle("run")
    /\ \/ Works /\ doing' = [doing EXCEPT !.stage = "worked"]
       \/ Misses /\ doing' \in {[doing EXCEPT !.stage = s] : s \in {"worked", "failed"}}
    /\ measured' = (measured /\ doing.step.does # "MoveTo")
    /\ UNCHANGED <<belief, prov, setBy, told, phase, again, disk, counts>>

\* action_model.apply(), and _effect() which saves it.
After(st) ==
    CASE st.does = "MoveTo" -> [belief EXCEPT !.arrived = st.on]
      [] st.does = "Pick" -> [belief EXCEPT !.holding = st.on]
      [] st.does = "Place" -> [belief EXCEPT !.holding = None]
      [] st.does = "Open" -> [belief EXCEPT !.opened = @ \cup {st.on}]
      [] st.does = "Close" -> [belief EXCEPT !.opened = @ \ {st.on}]
      [] OTHER -> belief

Effect(st) ==
    /\ belief' = After(st)
    /\ told' = IF st.does \in {"Pick", "Place"} THEN "no" ELSE told
    /\ Saves("run")

\* The step's sensors: of the pose after a MoveTo, of the hand after a Pick; not readable,
\* they pass as unknown.
Passes(st, seen) ==
    CASE ~seen -> TRUE
      [] st.does = "MoveTo" -> at = st.on
      [] st.does = "Pick" -> hand # None
      [] OTHER -> TRUE

\* A release that found the hand empty too early is looked at once more (_post_check).
Released == doing.stage = "failed" /\ doing.step.does = "Place" /\ hand = None

\* verify(), then _step_succeeded(): the effect, and after a MoveTo that was measured the
\* mark.
Succeeds ==
    LET st == doing.step IN
    /\ doing.stage = "worked" \/ Released
    /\ \E seen \in BOOLEAN :
          /\ Passes(st, seen)
          /\ IF st.does = "MoveTo"
             THEN /\ setBy' = IF seen THEN "sensor" ELSE "belief"
                  /\ measured' = seen
                  /\ prov' = IF seen THEN [prov EXCEPT !.arrived = Marked("sensor", st.on)] ELSE prov
             ELSE UNCHANGED <<prov, setBy, measured>>
    /\ Effect(st)
    /\ doing' = NoStep /\ again' = None
    /\ UNCHANGED <<world, phase, file, tmp, counts>>

\* A Stop while the skill worked: what it did is believed, unverified, and the run ends.
Stopped ==
    LET st == doing.step IN
    /\ doing.stage \in {"worked", "failed"}
    /\ IF doing.stage = "worked"
       THEN /\ Effect(st)
            /\ setBy' = IF st.does = "MoveTo" THEN By(st.on) ELSE setBy
       ELSE UNCHANGED <<belief, told, saver, setBy>>
    /\ phase' = "idle" /\ doing' = NoStep /\ again' = None
    /\ UNCHANGED <<world, prov, measured, file, tmp, counts>>

\* A failed step: the skill says so, a sensor, a pose that is too old, or the VLM (its
\* effect is not believed).
NotDone ==
    \/ doing.stage = "failed"
    \/ doing.stage = "worked" /\ ~Passes(doing.step, TRUE)
    \/ doing.stage = "worked" /\ doing.step.does = "MoveTo"
    \/ doing.stage = "worked" /\ doing.step.does \in Refutable

Ends == phase' = "idle" /\ doing' = NoStep /\ again' = None
GoesOn == UNCHANGED phase /\ doing' = NoStep

\* _recover_move(): the same again, or the end.
RecoverMove ==
    /\ doing.step.does = "MoveTo"
    /\ \/ again' = doing.step.on /\ GoesOn
       \/ Ends
    /\ UNCHANGED <<belief, told>>

\* _recover_pick(): something in the hand is nobody knows what.
RecoverPick ==
    /\ doing.step.does = "Pick"
    /\ \/ hand # None /\ belief' = [belief EXCEPT !.holding = Thing] /\ Forgets /\ Ends
       \/ GoesOn /\ UNCHANGED <<belief, told, again>>

\* _recover_place(), or _refuted() when the VLM said it: with an empty hand the object is
\* gone, which ends the run unless the VLM saw it.
RecoverPlace ==
    /\ doing.step.does = "Place"
    /\ \/ /\ hand = None /\ belief' = Empty /\ Forgets
          /\ Ends \/ (doing.stage = "worked" /\ GoesOn /\ UNCHANGED again)
       \/ GoesOn /\ UNCHANGED <<belief, told, again>>

\* _recover_find(): nothing is seen in a container believed open.
RecoverFind ==
    /\ doing.step.does = "Find"
    /\ belief' \in {belief, [belief EXCEPT !.opened = @ \ {belief.arrived}]}
    /\ GoesOn /\ UNCHANGED <<told, again>>

RecoverOther ==
    /\ doing.step.does \in {"Open", "Close"}
    /\ GoesOn /\ UNCHANGED <<belief, told, again>>

Fails ==
    /\ NotDone
    /\ RecoverMove \/ RecoverPick \/ RecoverPlace \/ RecoverFind \/ RecoverOther
    /\ UNCHANGED <<world, prov, setBy, measured, disk, counts>>

\* _look(): to look at a goal the robot drives where it is, unverified and unsaved.
LooksAtGoal ==
    /\ Boundary /\ again = None /\ steps < MaxSteps
    /\ steps' = steps + 1 /\ UNCHANGED events
    /\ at' \in Somewhere /\ measured' = FALSE
    /\ \/ UNCHANGED <<belief, setBy>>
       \/ \E p \in Place \ {belief.arrived} :
             belief' = [belief EXCEPT !.arrived = p] /\ setBy' = "belief"
    /\ UNCHANGED <<hand, open, prov, told, run, disk>>

-----------------------------------------------------------------------------
(* Between steps.                                                          *)

\* A change of the goals replans from here: what was tried again is not any more.
GoalsChange ==
    /\ Boundary /\ again # None
    /\ again' = None
    /\ UNCHANGED <<world, mind, phase, doing, disk, counts>>

Rests ==
    /\ Boundary
    /\ phase' \in {"paused", "idle"} /\ again' = None
    /\ UNCHANGED <<world, mind, doing, disk, counts>>

\* Somebody drives or pushes the robot while it rests, a held object slips at any time.
Pushed ==
    /\ phase # "running" /\ Happens
    /\ at' \in Somewhere \ {at}
    /\ measured' = FALSE
    /\ UNCHANGED <<hand, open, belief, prov, setBy, told, run, disk>>
Slips ==
    /\ hand # None /\ Happens
    /\ hand' = None
    /\ UNCHANGED <<at, open, mind, run, disk>>

Next ==
    \/ \E t \in Thread : SaveStep(t)
    \/ Crash \/ Boot \/ Edit \/ Begins
    \/ \E st \in Step : Guard(st)
    \/ Checks \/ Skill \/ Succeeds \/ Stopped \/ Fails
    \/ LooksAtGoal \/ GoalsChange \/ Rests \/ Pushed \/ Slips

Spec == Init /\ [][Next]_vars

-----------------------------------------------------------------------------
(* Properties.                                                             *)

\* A step that acts at a place starts where the robot is believed to be, whatever moved
\* it before: the only exceptions are a base that has not been measured since it drove
\* in this run, and an operator's word that no pose could check.
ActsThere ==
    doing.stage = "started" /\ doing.step.does \in AtPlace =>
        \/ belief.arrived \in {None, at}
        \/ ~measured /\ setBy \in {"belief", "sensor"}
        \/ setBy = "operator"

\* A provenance of `sensor` means that a sensor set the value last (docs/guard.md, "a
\* skill's effect or any other change turns it back into `belief`").
SensorMeansRead == SourceOf = "sensor" => setBy = "sensor"

\* What the operator said of the hand survives a restart, unless the robot did or saw
\* something about it since (api/agent.py, "operator corrections survive a restart").
CorrectionsSurvive ==
    phase = "idle" /\ told # "no" /\ Idle("operator") => belief.holding = told
=============================================================================
