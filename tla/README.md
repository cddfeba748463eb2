# robot_agent: a TLA+ development

`robot_agent` is the backend between a dashboard and one robot. A person asks
for something over a WebSocket, a language model makes goals and a plan of it, a
thread works through the plan by sending ROS goals, and meanwhile other people
may stop it, pause it, answer its questions or change what it should do. These
modules specify the parts of it that several threads, processes or machines
share, and the decisions that must not go wrong while a robot moves.

## The system

| component | state it keeps | operations | module |
|---|---|---|---|
| run manager (`interact/run_manager.py`) | the registry `_active` / `_runs`; per run its state, the events `_cancel`, `_resume`, `_answered`, the open question, pending changes, subscribers; the task stack | `start`, `finish`, `cancel`, `pause`, `resume`, `inject`, `suspend_task`, `resume_task`, `set_awaiting`, `publish`, ... | `RobotRuns`, `RunManager`, `PausePoint`, `RunLog` |
| run control (`core/run_control.py`) | `_LOCK`, the process-wide cancel flag, the thread bound to each run, timers of deferred stops, the resume counter | `begin_run`, `request_cancel`, `_on_run_cancel`, `uninterruptible`, `pause_point`, `mark_resumed` | `RunControl`, `PausePoint` |
| ROS node (`connect/ros/node.py`) | the node's cancel event; per action client `_cancelled`, `_goal_handles`, `rev_data`; per service client the futures | `send`, callbacks, `cancel`, `cancel_all`, `clear_cancel` | `ActionClient`, `ServiceClient` |
| dialog (`interact/dialog.py`, `interact/intent_router.py`) | the run's question, the thread of the robot's Ask skill | `ask`, `ask_heard`, `yes_no`; `classify` | `Dialog`, `Understand` |
| dashboard listens (`utils.py`) | `_LISTEN_PENDING` with its slots, `_CHOICE_MADE` | listen, choose, transcript, cancel, end | `Listens` |
| executive: what is wanted (`core/planning/assist_loop.py`, `understand.py`) | goals, dialogue, doubts, read-backs, the budget of LLM calls | understand, sample, ask, read back, correct | `Understand` |
| executive: the plan (`assist_loop.py`, `goals.py`, `plan_tidy.py`, `subgoal_repair.py`) | blocks, findings, edit rounds | plan, tidy, check, repair, certify | `PlanGate` |
| executive: the steps (`assist_loop.py`, `contract/recovery.py`) | the plan from the next step on, belief, retry counters, suspended tasks | run a step, retry, replan, look, take a change, take a task back | `StepLoop` |
| executive: where to look (`core/planning/search.py`, `search_hooks.py`) | sightings, habits, a ranking, the places searched | rank, miss, steer a plan, skip a look, ask, give up | `Search` |
| belief (`core/planning/assist_loop.py`, `guard.py`, `verify`, `state.py`) | `arrived`, `holding`, `opened` with how each is known; the saved belief | reconcile, guard, check, effect, edit, save, boot | `Belief` |
| plans of groups and plan skills (`core/unified_agent.py`, `plan_skill.py`, `connect/parallel.py`, `planning/loop.py`) | the nested plans being executed, the results on their way up | `run_direct`, `run`, the closed loop, `run_plan` | `PlanRun` |
| server pool (`connect/pool.py`) | per server its cooldown, status and slow hits | `call`, `order`, `mark`, `check`, pings, warm-ups | `ServerPool` |
| shared JSON (`core/shared_json.py`, its managers) | `base`, the stamp, the file and its backup | `read`, `save`, `changed` | `SharedJson` |
| skills (`core/skill_registry.py`, `api/skills.py`) | names, aliases, plans that call skills | add, update, rename, delete, reload | `SkillBook` |
| tools for skills and robots (`new_robot.py`, `new_skill.py`, `rename_skill.py`, ...) | a robot package: its files and tables | new, copy, rename, delete, fork | `SkillTools` |
| devices and sites (`core/device_manager.py`, `state.py`) | the connections, `_known`, the store and its site | add, edit, remove, load, switch | `Devices` |
| agent API (`api/agent.py`, `api/skills.py`) | one session per WebSocket: its watcher, its subscription | `agent_ws`, `_observe`, `/runs/*`, `POST /skill`, ... | `RunManager`, `RunControl`, `RunLog` |
| run records (`observe/record.py`) | `_OPEN`, the rows of each record | `open_record`, `on_event`, `observed_skill`, `close_record` | `RunLog` |
| camera streams (`api/camera.py`) | the streams with their subscribers, workers and `stop` | join, leave, capture, retire, send on | `CameraStreams` |
| request-reply clients (`connect/tcp_ip`, `websocket`, `zmq`, `webrtc`) | the connection, `server_connected`, `_pending_responses` | `_connect`, `send`, `close` | `RequestReply` |
| configuration, replay, HTTP and LLM transports, contracts, presence | files and sockets | see `PROJECT.json` | none |

How they interact. The session of `/ws/agent` calls `RunManager.start`, spawns
the executive's thread, streams its events and calls `finish`. Every other
client watches, and goes through `RunManager.inject` or `/runs/{id}/...`; the Stop
button and a closed socket go through `run_control.request_cancel`.
`RunManager.cancel` calls run control's hook outside its locks, which stops the
robot through `CustomNode.cancel_all`, releases the listens of the dashboard, or
waits for the skill that must not be cut. The executive understands, plans and
runs the steps; it sees a cancel at its step boundaries, in the LLM calls it makes
cancellable and in the answers of goals that were cancelled. `begin_run`, at every
start of an executive and of a direct command, re-arms the node. Every event
reaches the observers and the run's record through `Run.publish`. What the
executive believes of the world outlives a run, and the process: `state.py` saves it.

What is hard, and why a test rarely sees it:

- three locks (manager, run, `_LOCK`) and several fields read without any;
- `finish` under two locks one after the other, with a new run in between;
- a stop that is decided under one lock and carried out under another, later;
- events set one after the other that a lock-free reader sees in that order;
- callbacks of an executor thread against a sending skill and a stopping button;
- results and answers that come late, for a goal, question or request that is over;
- a language model that may answer anything, under counters that feed each other;
- a belief that people push, doors and crashes make untrue, and a plan that acts on it;
- results that are summed up on their way through groups and nested plans;
- files that several processes, on several machines, save at once, and crashes;
- the client that goes away at any of these points.

What can go wrong in the code, at its line, is listed under `hazards` in
`PROJECT.json`, with the properties that would catch it.

## The modules

| systems, by module | composed in | for TLC | proofs |
|---|---|---|---|
| `RunManager` (implements `RobotRuns`), `Belief` | `RunsAndBelief` | `MCRunManager` | `RunManagerProofs` |
| `RunControl` | | `MCRunControl` | `RunControlProofs` |
| `ActionClient` with `ServiceClient` | | `MCActionClient` | `ActionClientProofs` |
| `Dialog` with `Listens` | | `MCDialog` | `DialogProofs` |
| `StepLoop` | | `MCStepLoop` | `StepLoopProofs` |
| `Understand`, `PlanGate`, `Search` | `Planning` | `MCPlanning`; `MCSearch` | `PlanningProofs` |
| `SharedJson`, `ServerPool`, `SkillBook`, `SkillTools` | `FilesAndServers` | `MCFilesAndServers` | `FilesAndServersProofs` |
| `PausePoint`, `RunLog`, `CameraStreams`, `RequestReply`, `PlanRun` | `SideSystems` | `MCSideSystems` | `SideSystemsProofs` |
| `Devices` | | `MCDevices` | |

`ServiceClient` and `Listens` really share state with what they extend: one node and
one Stop, one ask and what it waits for. `RunsAndBelief`, `Planning`, `FilesAndServers`
and `SideSystems` put systems that share no variable side by side (one is extended, the
others are INSTANCEs), so that one run and one module of proofs speak of them. In their
runs a behaviour is of one system (`part`), and the others rest in one initial state.

### Runs and how they stop

`RobotRuns` is what the run manager promises, with no locks or threads: each
run goes through its states once, one is active at a time, a cancel is final.

`RunManager` (runs, registry, sessions) implements it. One action is one locked
section of the code. `Request` is the head of every controlling call (`_resolve`
and the role check) and `call` remembers it until the locked part (`CancelRun`,
`PauseRun`, `ResumeRun`, `QueueChange`), because an utterance is classified in
between. `FinishMark`, `FinishUnlink` and `FinishDrop` are the three locked parts
of `finish`. The executive is `Boundary`, `StepDone`, `ResumeTask`, `SeeCancel` and
`PlanEnd`. What the plan is does not matter here. `TaskFrame`s keep their run and
their position in the stack (`clock`).

`PausePoint` is one run seen through a magnifying glass: each read of the
executive in `pause_point` and `wait_if_paused` is a step, and `_cancel_now` is
two, since the executive may wake between its events. It has the resume counter
with the hook that counts (`ResumeHook`) and the reader that counts ahead of it
(`CountResumes`).

`RunControl` is how a stop reaches the robot: sections (`BeginCritical`,
`EndSkill`), the cancel hook (`DeferStop`, `ClientStops`), its timer
(`TimerFires`, `TimerStops`), the Stop button, and `begin_run` in two steps of one
section of `_LOCK` (`ExecBegins`, `ExecClears`, and the same for direct commands).
When a send on the socket of a run fails (`SocketFails`, for the runs in `Fragile`) its
session finishes the run and nothing tells the executive, which goes on beside the one
of the next run: `gone` are these runs, and whatever thread asks, the current run is the
active one. So a section is opened on the run that is active then, and `sect` keeps for
each executive the run and the token it got. A goal is one element here: `goals` are the
runs whose goals move the robot.

`ActionClient` opens that set: `send`, its callbacks and `cancel` share
`_cancelled`, `_goal_handles` and `rev_data`. The action server is external: it
accepts or rejects, ends a goal or not, carries out cancels; its goal service and
its cancel service keep no order between them. `ServiceClient` EXTENDS it by the
service client of the same node: several calls at once, and the same Stop in a
thread of its own. A call is where its `send()` stands (`call`), its `future` and
what it returned (`told`).

### Questions

`Dialog` is `ask`: the executive polls for a typed answer, a stop and the robot's
own ear, while clients classify and deliver answers. `Listens` EXTENDS it by what
the robot's thread waits for in the browser: the slots of `_LISTEN_PENDING`
(`pending`, `slot`), the browser's requests about them (`post`), and those who end
them. Each of these looks a slot up under the lock (`looked`, `snap`) and writes to
it later, without it. The Ask skill itself is external.

### The assist loop, in its three phases

`Understand`: readings of the model are chosen freely at each call; what the code
decides of them is modelled: grounding, issues, consensus of samples, what is
asked, sampled again or read back, what a correction pins, and that an answer that
was heard may be misheard while a typed one may not. `dialogue` keeps the place
each answer named; `asked`, `confirms` and `reasked` are the counters; `used` is the
budget. `agreed` is a history variable: the goals the person said yes to.

`PlanGate`: plans of the planner come in blocks; `Tidy`, `Findings` and the compiled
plans are operators on sequences of steps and a simulated belief; the edits of a
block and the second request are actions under the budget.

`StepLoop` is the execution of a certified plan. One action is one decision of the
loop at a boundary (`StepStarts`, `StepRefused`, `CheckStarts`, ...) or the end of one
skill (`StepSucceeds`, and one action per way out of `_step_failed`). A cancel is
read at a few places only, so it is a choice there and not a variable. The planner
(any way to one of the goals, none, or the wrong one of them), the skills (success,
or a code in `Failure`), the sensors and people choose freely. The failure text
decides in the code whether a failure is "the same"; here it may be from the second
time on (`SameAgain`), which allows more than the code does. `tries` is one bag for
the five counters of `_execute_phase`.

`Search` opens the looks of `StepLoop`. A belief for each object gathers the sighting of
the object memory, where past episodes picked it up and the model's ranking (scores in
quarters, with the weights of `SearchConfig`), and keeps for each place searched what
was closed there then (`searched`): a place whose containers were opened since counts as
not searched. Every new plan of the planner is put on the belief's next look
(`SteerOne`, `RestorePlace`), a look behind a find is skipped (`SkipRelook`), and a miss
ends in the next look, a question, or giving up (`Recovers`). `askHelp` is the option
`ask_help` of the run: without it nobody is asked. `search` off, which is the assist loop
without a belief of places, is not modelled, and `search_rank` off is a ranking that
failed. The robot may believe a
container open from an earlier run: `opened` starts with any of them, and a miss in one
that this run did not open (`doubted`) doubts it first (`Doubts`). `looked` is a history
variable: what was really seen without the object, place by place and inside of what
opens. `Written` is what the planner writes, as far as the gate lets it through.

`Belief` is where the robot thinks it is, what it holds and what is open, each with how
it is known (read, done, said), beside the world it is about (`base`, `gripper`, doors),
which people push and change at any time. Its actions are the points of a run that read
or write the belief: reconciling at the start and after a pause, the guard and the check
before a step, the skill, the verified effect, the recoveries, a look, the operator's
corrections, and saving: two threads write one temporary file and rename it, either may
crash, and a boot loads what is there.

`PlanRun` is the other way to execute: typed plans, open-loop plans, the closed
loop, groups whose members run side by side, and skills that are plans. `frames`
maps a path of members to the plan that is executed there; a member's result is the
set of what the code reads in it (`isdone`, a text that says "not registered", a code
that stops). `lost` is a history variable: failures that no `!` of the plan forgave; a
failed result that names an agent is that agent's own failure, said again.

### What is shared and saved

`ServerPool`: `status`, `cooling` and `hits` are `ServerState.status`, `until > now` and
`slow_hits`; `order` reads every `until` in steps of its own, against one `now`. What a
request meets (`met`) is a step of its own, and it is marked later: by the call, the check
or the warm-up that made it, with any other thread in between.
`SharedJson`: `base`, `stamp` and `mine` of each process, `file` and `bak` on the disk; a
save is the lock, the read, the merge, the backup and the replacement, with a crash
or a failed write at any of them. flock holds on one machine only, and a save that cannot
have it goes on without (`LockFails`, `lockless`). `Devices`:
`connects`, `known`, `loading`, `store` and the lock of `_save`, with calls, the load at
boot, a switch of site and other machines; `SharedJson.save` is one step there. A
SwitchBot that connects as the default takes that from the others before it is
registered, a model set active takes it from its peers, and both are edits the next
save writes.

`SkillBook`: `book` maps names to skills and aliases. Several spellings are one name
(`Norm`); a plan is the set of whom it calls. One edit over the API is one action
under the registry's lock; a reload reads the robot's configuration again. `SkillTools`:
the command line tools read a package, plan their writes and write one file after the
other; they may be interrupted after each, and in the middle of one, which leaves a part
of the file or none of it (`Cut`), since `write_text` truncates it first. A package is its
files (a module defines functions, imports functions of others, and can be parsed or not),
its table of skills, which may be whole or not, the external ones, its sites. A skill works
(`Works`) when it is registered, its module has the function, and everything the module
imports, and what that imports, is there.

### What is watched

`RunLog`: events of one run on their way to observers and to the record. The
sessions share an event loop (`LoopFree`: each goes on until it awaits); REST calls
and the executive have threads. `publish` looks its subscribers up under the lock
(`Publish`) and calls them without it (`Delivers`); the hooks of `start` and `finish`
are steps of the session.

`CameraStreams`: the registered stream of one camera (`reg`), the subscribers and
`stop` of each stream, where its worker and each websocket's handler stand. A frame
is its number; `seq` of a topic is `rev_seq`, which the callback counts after it has
written `rev_data`.

`RequestReply`: the four clients that take the next reply for the one of their
request. A reply is the number of its request; `sock` numbers the connections made,
`wire` and `back` are what each carries, `owed` the REQ sockets of ZeroMQ that
refuse another request, `futures` the list of the data channel. Servers answer in
order, and die. Two threads use each client; nothing but the data channel's futures keeps
them apart, and `shared` is a history variable: two were in `send` of one stream at once.

The modules meet in names: `RunManager`'s `Boundary`, `StepDone` and `ResumeTask` are
what `StepLoop` does between two boundaries, seen from the registry; `PausePoint` opens
`StepLoop`'s `Paused`; `RunControl` opens the skill between `StepStarts` and its end;
`Search` opens `StepLoop`'s recovery of a Find, `Belief` what it believes;
`Dialog` opens the questions of `Understand` and `StepLoop`; what `Understand` ends with
is what `PlanGate` starts from, and its certified plan is `StepLoop`'s; `Devices` saves
with `SharedJson`.

### Correspondence

`PROJECT.json` maps every definition to the lines it models. The variables are
named for the fields, or say in their comment which one they are: `state` / `cancel` /
`resume` / `pending` of `RunManager` for `Run._state`, `_cancel`, `_resume`, `pending`;
`current` and `kept` for `_active` and the keys of `_runs`; `critical`, `seq`, `deferred`
of `RunControl` for `_critical`, `_critical_seq`, `_stop_deferred`; `event`, `flag`,
`handles`, `rev` of `ActionClient` for `_cancel_event`, `_cancelled`, `_goal_handles`,
`rev_data`; `question`, `answer`, `answered` of `Dialog` for `_question`, `_answer`,
`_answered`; `goals`, `placed`, `replans`, `helped`, `looked` of `StepLoop` for the fields
of `r`, `steps` for `r.steps[r.i:]`, and `arrived`, `found`, `holding` for the belief.
History variables (`stopped`, `heldAt`, `fresh`, `owed`, `met` of `StepLoop`, `delivered`, `agreed`, `lost`,
`touched`, `shared`, `looked` of `Search`, ...) are marked as such and no guard reads them, except
`ended`, `pauses` and `tasks` of `PausePoint` as bounds. A definition whose comment
begins with "Mutant" is not part of the model: it is a plausible slip in the code, kept
to see that the property it belongs to would notice.


## The runs

| run | instance | shows |
|---|---|---|
| `run_manager` | 2 runs, an owner and a guest, no finished run kept, 1 pending change, 1 frame, the first run's socket may fail at any event; a belief of 2 places, one of them opens, 1 object, 2 steps, 1 event of the world | a frame goes with its run (`FramesOfLiveRuns`), roles hold across a slow classification (`RolesAlwaysRespected`), `RobotRuns` is implemented (`ImplementsRobotRuns`); an arm acts where it was told to drive (`ActsThere`) |
| `run_control` | 2 runs, of which the first may lose its socket, 1 client, 2 sections | a section is cut only by whom it may be (`SectionsRespected`); nothing is sent between a stop and the end of its run (`NoSendAfterStop`); where no socket fails, every cancel is carried out (`CancelsCarriedOut`) and ends its run (`CancelsEndRuns`) |
| `action_client` | 2 goals or 2 service calls, 1 Stop, with a timeout | a result goes to its own goal (`AnswersOwnGoal`); a cancel reaches it (`CancelledGoalsEnd`); sends and calls that a Stop finds return (`StoppedWaitsEnd`) |
| `dialog` | 2 questions, 1 utterance; in the browser both, one with buttons, or one line that is said | an answer goes to its question (`AnswersOwnQuestion`); a stop and a typed answer end the ask (`AskEnds`); whoever releases a wait ends it (`ReleasedWaitsEnd`) |
| `step_loop` | 1 object, 2 places, 6 failures, 2 replans, 1 change, 1 pause | a success did every goal that was accepted (`SuccessEarned`); a planned Pick acts on a look since the last pause (`PlannedPickLooksFirst`); the run ends (`RunEnds`) |
| `planning` | talk: 1 object, 2 places, 2 clarifying rounds, 2 samples, 1 retry of a JSON answer, 2 read-backs, 6 LLM calls; gate: 2 objects, 3 places, one of them a container, tasks of one and two goals, plans with a slip in them, 6 LLM calls of which 1 or 5 are used; search: a table, a drawer in it and a shelf, 2 looks, 2 replans, any container believed open at the start, `ask_help` on or off | what was heard, and goals that do not match what was said, are planned only when the person said yes (`HeardIsConfirmed`, `DoubtsAreConfirmed`), and the questions end (`TalkEnds`); a certified plan reaches its goals (`CertifiedPlansWork`), tidying costs no goal (`TidyIsHarmless`), edits leave calls for the run (`EditsLeaveReserve`); a steered plan can still be carried out (`SteeredPlansRun`), and the search gives up only when every place was looked at (`GivesUpLast`) |
| `files_and_servers` | pools: 2 threads, two servers or one beside a switched-off one, the second may recover; file: 2 processes on one machine or two, 2 keys, 3 edits, 1 fault; book: 4 names of which two are spelled alike, plans of up to 2 calls, 1 alias, 3 edits; tools: 2 calls on two packages, one of them with a module that imports another | the servers are tried in the order the code promises (`OrderRight`), and one that recovered is not cooled down again (`RecoveredStaysUsed`); one copy of the file is whole (`OneCopyWhole`) and a merge keeps what others saved (`SaveMerges`); no edit breaks another skill's plan (`EditsKeepPlans`); a tool spares the skills it was not given (`OthersStay`) |
| `side_systems` | pauses: 2 clients, 2 pauses, 1 task; log: 1 observer, 1 event, 1 REST call; camera: 2 browsers, 1 frame, each kind; requests: 4 on up to 4 connections, 2 threads at each client; plans: 7 typed plans, 4 plans of a planner, 3 plan skills of which one calls itself, depth 3, 2 replans | no step from a cancelled hold (`NoStepFromCancelledHold`), a counted resume is reconciled (`ResumeReconciled`); observers end with the run (`ObserversEnd`); one worker per camera (`OneWorker`), and who joins gets a frame (`ViewerServed`); a reply is the reply of its own request (`AnswersOwnRequest`); no failure is lost on its way up (`NoFailureHidden`), an emergency stop ends the run (`EstopEnds`), every run ends (`PlanEnds`) |
| `devices_rest_reverted`, `search_again`, `left_behind`, `arrived_source` | one small instance each | expected to fail: the findings below |

Why these bounds are enough for what they ask. Two runs are one that is ending
and its successor, and every property of runs is about such a pair. `MaxFinished` 0
makes the trimming work from the first run on. Two places of a belief are where the
robot is and where it thinks it is, and two steps the drive there and the one that
acts. A section's timer can only be confused with the next section of its run, hence
two sections; one cancelling client beside the button and the timers is enough to have
a stop decided by one and carried out after another's; a first run that loses its socket
leaves an executive beside the second. A late result can only be taken
for the answer of the next send, hence two goals, and two questions. In `RequestReply` a
request may be given up, its reply come late, a new connection be made and given up too,
before the one that is looked at: four. Two browsers are one that joins while the other's
worker retires or ends, and a stream that is replaced. A task that interrupts another
needs one replan to be planned and one to be taken back, hence two. `Failure` has one
code for each way out of `_step_failed`. `PickRetries` 0 goes to the question at
once; a retry in place is the same step as the one the person asks for (`LookAgain`),
and `SearchMax` 0 of `step_loop` still leaves the search its second miss. A budget of 6 lets
the understanding end by every one of its counters and by the budget. Plans are the right
one with one step or block too many or too few, in any place, because a repair is
per block and a finding per step; the edits themselves may add slips. In a search a place
may be missed while its drawer is closed, be looked at again when that is open, and be
steered to by one new plan or given up. Depth 3 (the code's is 5) lets plans nest, call
themselves and be refused. Three edits of a file are two that conflict and one that comes
after the merge; three of the book a plan, the skill it calls and the edit that could break
it; two tools are one that was interrupted and the next that finds its traces. More
clients, threads or servers add callers that do what two already do in any order.

A run that composes systems which share nothing is not a product: a behaviour is of one of
them (`part`), and the MC module repeats the fairness of its specification for the one that
moves. `CHECK_DEADLOCK FALSE` because the bounded runs, goals, questions, steps or edits may
be used up and everybody be done, as between two tasks.

## Known to fail

Each of these is a sentence of the repository's own documentation or comments, or
what a reader would expect of the code, stated in its module, which TLC refutes when
it is added to the run named. The passing properties say what remains true beside
them. The first four are runs of their own and findings in `PROJECT.json`.

| property | run | what the code does |
|---|---|---|
| `RestIsKept` (`Devices`) | `devices_rest_reverted` | `_save` does not take over what `SharedJson.save` merged: a connection another machine edited is written back by the second save of a process that never touched it |
| `NoLookTwice` (`Search`) | `search_again` | a new plan is steered: the steps that open the drawer count as done when the next look is chosen and are then cut out of the plan, so the place that was searched with its drawer closed is searched again like that |
| `LeftBehindSendsNothing` (`RunControl`) | `left_behind` | a send of an event fails before the watcher sees the client go: the session stops its watcher and finishes the run without cancelling it, and the executive it leaves behind, told nothing, sends the next goals |
| `SensorMeansRead` (`Belief`) | `arrived_source` | what is known of a fact is looked up by its value: a robot that drove away and back unmeasured is again where the sensor once saw it |
| `RenameKeepsSkills` (`SkillTools`) | `files_and_servers` | a skill whose module has its name and is shared with another skill: the rename changes the module's name in both entries, and leaves the file where it is |
| `RestIsAlwaysKept`, `HeldIsSaved` (`Devices`) | `devices_rest_reverted` | a save that overlaps a load, a switch of site or another call writes what is no longer held; a save that fails is not tried again |
| `CorrectionsSurvive` (`Belief`) | `arrived_source` | what an operator says of the hand is taken back by a run that saves what it read before |
| `LooksInside` (`Search`) | `search_again` with 4 replans | the robot stands at a closed drawer, misses, the planner goes elsewhere without opening it, and the search gives up with the drawer's inside never seen |
| `NoChangeDropped` (`RunManager`) | `run_manager` | a change is told "queued" after the executive took its last batch; nobody looks at it again |
| `OneExecutive` (`RunManager`) | `run_manager` | sending an event fails before the watcher sees the client go; the session finishes the run under its working executive, and the next run starts beside it |
| `HeldThenReconciled` (`PausePoint`) | `side_systems` | paused between two reads of `pause_point`, the executive is held, woken, and carries on before the resume was counted, with the belief from before the hold |
| `StoppedRobotIsStill` (`ActionClient`) | `action_client` | `send` looks at the node's cancel, the Stop runs from beginning to end, and `send` then resets the agent's flag and sends |
| `NoCallOutlivesStop` (`ServiceClient`) | `action_client` | the same of a service call: it then waits for the answer, without a timeout for ever |
| `AnswerNotLost` (`Dialog`) | `dialog` | an answer is accepted after the ask's last look at it, before the question is withdrawn |
| `CancelledListenRaises`, `ListenEndsWithAsk`, `ClickEndsOwnListen` (`Listens`) | `dialog` | a transcript that arrives takes back the error a Stop wrote; a listen opens after a typed answer has released those that were open; a click made before cuts a later listen off |
| `SuspendedTaskTakenBack` (`StepLoop`) | `step_loop` with `MCObject`, `MCNoFailure`, 2 changes, no pause | the task below the innermost holds already when that is done, and the loop ends in success with the outer one still on the stack |
| `FailureStopsPlan` (`PlanRun`) | `side_systems` | a member of a group that raised has no result, and does not fail its group |
| `EstopNeverRetried` (`PlanRun`) | `side_systems` | an emergency stop inside a group or a plan skill has lost its code and is replanned |
| `GoalsInOrder` (`PlanGate`) | `planning`, `Tasks <- MCReturn` | of two compiled goals, "go there, then back here", the tidying drops the second move when the robot is there at the start |
| `OneDestination` (`Understand`) | `planning` | goals taken from the samples are not looked at again for two destinations of one object |
| `OrderComplete` (`ServerPool`) | `files_and_servers` | a server whose cooldown ends between the two reads of `order` is not tried at all, or twice |
| `PlansEnd` (`SkillBook`) | `files_and_servers` | a reload drops a skill that a plan calls; a plan that takes its name as an alias, or in another spelling, is not looked for in a circle, and closes one |
| `SkippedIsSlowOrDown` (`ServerPool`) | `files_and_servers` | a first slow answer writes `ok` over what another thread has marked meanwhile, and leaves the cooldown |
| `LastFrameShown` (`CameraStreams`) | `side_systems`, 2 frames | the worker reads the frame and its number apart: it sends the old frame under the new number, and a silent camera brings no other |
| `PopMatchesSend` (`RequestReply`) | `side_systems` | a future that timed out is taken out of the list, its reply comes all the same, and the next one gets it |
| `AnswersOwnRequest` without `shared` | `side_systems`, without `~shared` in `MCNext` | the clients have no lock: of two threads in `send` of one stream at once, each may read the other's reply |
| `StopCarriedOut`, `StopEndsRun` without `LeftBehind` | `run_control`, without `sound` in `Fair` | an executive left behind opens its section on the run that is active, which takes that run's token: a stop the run had deferred is forgotten |
| `SnapshotIsLast` (`RunLog`) | `side_systems` | a skill that outlives its run writes its row after the snapshot |
| `AllEventsRecorded` (`RunLog`) | `side_systems` | a REST call that found the run active publishes after the record was closed |

In a composing run a property of an instance is named through it, by a definition like
those of `SideSystems`, `Planning` and `FilesAndServers`.

Where the passing properties make an exception, it is one the code has. `OneExecutive`
fails only for runs in `Fragile`, whose socket may break; `NoSendAfterStop` is a promise
until the run is over, and `SectionsRespected` excepts the stop that an executive left
behind owed its own skill (see `LeftBehindSendsNothing`); `StopEndsRun` excepts a goal
that had passed the check (`Overtaken`), and both it and `StopCarriedOut` what comes after
a socket failed (`LeftBehind`); `AnswersOwnGoal` the late answer of a goal that
an earlier send gave up; `AnswersOwnRequest` the data channel after a timeout and a
stream that two threads were in at once; `SaveMerges` what another machine, or a save
without the lock, replaced meanwhile; `RecoveredStaysUsed` a bad answer that was met before
and is marked later (`BadAnswerPending`); `GivesUpLast` a run that may not ask; `OthersStay`
what imports the function that is deleted (`UsesDeleted`) and what a cut-off write has
truncated (`LostByCut`);
`SuccessEarned` a task that held when its interrupter was done; `ActsThere` a base that
somebody moved where no sensor measures it, and an operator's word; `EditsKeepPlans`
the rename of a plan that others call in another spelling, and what a reload leaves: a
plan that no longer has all it calls, at any depth, and two skills that answer to one name.
`PlannedPickLooksFirst` is about the plan before any replan: `PickLooksFirst`, as the
comment of the loop says it, does not hold, because only a Pick that is next at the
pause looks again. Of `Belief` a reader should also know that what `_guard`,
`_recover_place` and `_refuted` drop is not saved, so a boot believes it again, and
that `arrived` keeps the sensor's word after a drive that failed.

Stated, but part of no run because another property already says most of it:
`RegistryBounded` (`RunManager`), `CancelReachesExecutive` (`PausePoint`),
`CompletedPrefix` (`PlanRun`), `ChangesNoticed` (`SharedJson`), and the type invariants. Proved and in no run:
`ActiveRegistered` (`RunManager`), `DeferredStopHasTimer` (`RunControl`), `AnsweredOnce` and
`NoOpenQuestion` (`Dialog`), `SlotsOwned` (`Listens`), `NoGoalLost` and `OverIsFinal`
(`StepLoop`).

## Fairness

Weak fairness for what a thread has begun and waits for nothing in: the executive,
the threads of skills (`ServiceClient`, `Listens`, `PlanRun`), the call of a client that
has been let in, the session that finishes a run, the workers and handlers of a
camera, deliveries of an event, a callback that has written a frame and counts it.
Strong fairness in `RunControl` for a thread that waits for `_LOCK`, whose sections are
short and are left again (`cancel_all` joins its threads with a timeout): each client,
and the executives and timers, of which each takes it a few times, one of them at a time.
`MCRunControl` asks for it only where no socket fails (`sound`). A step's end
in `PausePoint`, `StepLoop` and `PlanRun` is fair because a skill or its connection has
a timeout there; `StepLoop` also takes it that a pause is over when its thread goes on.
In `Understand` everything but the Stop is fair: a call of the model has a timeout and a
question ends, with or without an answer. None for a goal's end in `RunControl` and
`ActionClient`, none for the robot's ear or the browser in `Dialog` and `Listens`, none
for a service, a camera, a server or a browser's connection: the liveness properties
say that a stop works, and an observer ends, when these never do anything. Nobody is
assumed to pause, resume, stop, answer, come or go. `MCSideSystems` (`FairMove`) and
`MCPlanning` give the system that moves the fairness of its own specification.
`RunManager`, `Belief`, `PlanGate`, `Search`, `FilesAndServers` and `Devices` are checked for
safety only, as are the pools and the requests.

## What is proved

For every number of runs, clients, pauses, sections, requests, objects, places and bounds,
any assignment of roles and any set of plans, TLAPS checks what `PROJECT.json` lists under
`theorems`. Each safety property that a passing run checks is one of them.

- `RunManagerProofs`: type correctness, `ActiveRegistered`, `FramesOfLiveRuns`,
  `RolesAlwaysRespected`, and that `RunManager` implements `RobotRuns`. The
  inductive invariant adds to `ActiveRegistered` that runs not created are blank
  (`Unborn`), that the events agree with the state (`FlagsAgree`: a cancelled run
  is cancelling or done, which is why its end is never a failure), that a session
  serves exactly the active runs (`SessionsAgree`), that a call in progress and a
  waiting change were allowed (`CallsAllowed`, `ChangesAllowed`), and that a
  session whose socket held finishes only after its executive
  (`ExecutiveWatched`, without which a frame could be pushed after `FinishDrop`).
  The refinement follows action by action: a step of `RunManager` is a step of
  `RobotRuns` or leaves `state` alone. `ActsThere` of the belief rests on `MindInv`: the
  step that is checked is the one at hand (`StepAtHand`), a base that was driven is not
  yet measured (`DrivenIsUnmeasured`), and what counts as reached is known (`PlaceKnown`).
- `RunControlProofs`: type correctness, `DeferredStopHasTimer`, `NoSendAfterStop` and
  `SectionsRespected`. The invariant says that one run is active, that only
  cancelled runs are being stopped or were (`StopsOfCancelled`), that whoever is
  between the read and the clear of `begin_run` holds `_LOCK` and is the only executive
  there (`ClearHoldsLock`), and hence that the node stays cancelled from a run's stop to the
  run's end (`StoppedDisarmed`), also when an executive that was left behind calls
  `begin_run` again. `SectionInv` numbers the sections (`SectionNumbered`), whichever
  executive opens them (`SectionHasToken`), so that a timer that outlives its section finds
  another number (`StopBeforeSection`).
- `ActionClientProofs`: type correctness and `AnswersOwnGoal`. Goals are sent, and told,
  one after the other (`SentInOrder`, `ToldInOrder`); a result in `rev_data` is of a goal
  that was sent (`RevKnown`), and one of an earlier goal was given up (`LateIsLeft`).
- `DialogProofs`: type correctness, `AnswersOwnQuestion`, `AnsweredOnce`. A question is open
  only while its ask runs (`AtAsk`, `OneQuestion`), an utterance is delivered once, to the
  question that was open then (`DeliveredOnce`, `AnswerOfLast`). Each step of `Listens` is a
  step of `Dialog` or leaves it alone, so the theorems are about both.
- `StepLoopProofs`: type correctness, `PlannedPickLooksFirst`, `SuccessEarned`, `NoGoalLost`. A
  plan that no replan has touched has a look before each Pick (`PickInv`), also when the
  loop stands between the two; a task that was suspended is on the stack, taken back, or
  held (`StackKept`, `DoneHeld`).
- `PlanningProofs`: `HeardIsConfirmed` and `DoubtsAreConfirmed`, whose conjunction is
  inductive: every way to `pc = "plan"` goes through a read-back that was agreed to, or
  finds nothing heard and nothing in doubt. `EditsLeaveReserve` from `ReserveInv`, which
  counts an edit's calls by the blocks it looks at. `CertifiedPlansWork` from `CertInv` (a
  plan stays a sequence of steps, and one that is certified is not blocked): what the checker
  simulates (`Walk`), what `_missing` counts (`Counted`) and what really becomes of the world
  (`Reality`) are three folds over one plan. Such a fold exists and is made step by step
  (`FoldThere`, `FoldSteps`, for each kind of fold that `Did` names), and as long as the
  checker finds nothing the three go in lockstep (`AgreeStep`): one world (`Agree`), and each
  object with a destination lies where all three say (`Settled`). The count leaves out that
  an object may be taken up again once it lies where it belongs; that this cannot happen is
  what `_word_pick` and `_word_place` add to it. `TidyIsHarmless` from `CertInv` too: the
  plan and what is kept of it are walked side by side (`Lighter`, step by step `KeptWalks` and
  `DroppedWalks`). `plan_tidy` tells a no-op in a world in which every other step takes effect,
  the checker walks in one where some do not, so what the first says of the second has to be
  carried along (`Knows`). The findings alone are not inductive: a "Find" of what is in the
  hand is left out, and where no "Find" is left before a later "Pick" of it the checker says
  one thing more of that "Pick" than it said in the whole plan. That "Find" was wrong as well,
  with a full hand, so there is one finding in hand for it (`Debt`, `Fewer`). No goal is lost,
  for what is kept puts, opens and closes the same (`KeptCounts`) and goes, speaks and waits
  in the same places (`Follows`). `GivesUpLast` from `SearchInv`: what
  counts as searched was seen (`looked`) as far as it was open, and the search gives up
  when nothing else is left. `SteeredPlansRun` from `PlanInv`: what is left of the plan runs
  from where the robot is (`RunsFrom`, with `StandsAt` for the place that n steps lead to),
  and finitely many objects are under search, so that there is an order to steer them in.
  One leg runs and ends at its place (`LegRuns`), what follows it runs again once the place
  is restored (`RestoredRuns`), a look that is left out moves nothing (`SkipRelookRuns`), and
  the fold over the objects keeps it by induction over the order (`SteeredThere`,
  `SteerRuns`).
- `SideSystemsProofs`: `NoStepFromCancelledHold`: an executive that blocked either still
  has its pause (`HoldKept`), or was resumed, or finds `cancel` set; the order of the two
  events in `_cancel_now` makes this inductive. `OneWorker`: whoever is registered is the
  last one made, and a stream that was replaced was stopped first (`StopFirst`).
  `AnswersOwnRequest`: of a stream client whose threads took turns so far (`UnsharedInv`),
  the connection is in the hands of one of them (`HeldBy`), the replies on the way are those
  of the requests sent on it, and it is not used again while one is due (`LineInv`);
  of the data channel, futures and replies stand in one order until a timeout
  (`ChannelInv`). `NoFailureHidden` and `EstopEnds`: members run below plans that wait for
  them (`PlanNesting`), a result stands where the code is to read it (`PlanStages`), and a
  failure that is lost to the final answer is still on its way up (`FailurePending`); that an
  emergency stop is raised by whoever called is an induction over the depth of the plan
  (`OnlyCallers`).
- `FilesAndServersProofs`: type correctness of `SharedJson`, `OneCopyWhole` (a torn file is
  the damage of the one fault or of a lock that does not hold, and then the backup is whole:
  `TornIsDamage`, `BackupWhole`), `SaveMerges` (`OutMerges`), `RecoveredStaysUsed` of the pool
  (something is met where a request was sent, `MetWhere`, and only a bad answer in hand,
  `BadIn`, puts a server that recovered into a cooldown), `OrderRight`: each server has a place in the two lists that `order` reads, and
  what was listed so far are the places that were read (`OrderSoFar`). `OthersStay` of the
  tools: what a tool has planned spares every skill that is not its own and the modules it
  imports (`SparesIn`), also when only a part of it gets written (`ToolsInv`), tool by tool; a
  write that is cut off spares whatever does not need the file.
  `EditsKeepPlans` of the skill book: with names apart, which every edit but a reload keeps
  (`NamesStayApart`), resolving is the same before and after (`PutResolves`,
  `RenameResolves`, `DeleteResolves`). What a whole plan comes to run is the least set that
  is closed under calling (`LeastWhole`); a plan that is put in place of one of these comes to
  run, by the check of `validate_plan`, a set without itself, so the plans above it are not in
  that set either (`PutKeeps`).

The assumptions are those of the modules: the bounds are naturals (`RequestReply` connects
at least once), the starter of a run that was not started is no client, roles are ranks, the None of places is
no place, a scene is finite, plans and skills of `PlanRun` are finite sequences of calls, a
damaged document is no document. Of `PlanGate`: goals, blocks and steps are sequences
(`OrderAssumption`), a belief has its four parts (`WorldAssumption`), and what a goal moves can
be carried and is not named, without a place, by a goal of another kind (`GoalAssumption`),
and there is a goal, and a "go" goal's place is one of the ENV (`PlaceAssumption`: with no
goal `_understand_round` asks, assist_loop.py:1077, and `_ground_template`, line 456, asks for
a place until it is in the ENV). `TidyIsHarmless` needs both: going to a place the ENV does not
have may be left out as a waypoint, and a plan for no goals reaches them as soon as it has a
step, so one that only does what is done already would be tidied to none.
The proof of `CertifiedPlansWork` needs `GoalAssumption`: `_word_pick` (assist_loop.py:737) and
`_word_place` compare with the first goal of any kind that names the object. Were that a
"say" whose sentence is the name of the thing, or a "close" of something the robot does not
know by that name, its place would be empty, and the thing could be put down and picked up
again unnoticed. A bound that a proof needs only as a type is as good as no
bound. Where an induction over the naturals is needed it is made from the least element of
a set (`WFMin`, `NatLessThanWellFounded`), for the library's induction theorems take an
operator.

Only model-checked: everything that uses fairness (`ResumeReconciled`, `CancelsCarriedOut`,
`CancelsEndRuns`, `CancelledGoalsEnd`, `StoppedWaitsEnd`, `AskEnds`, `ReleasedWaitsEnd`,
`TalkEnds`, `PlanEnds`, `RunEnds`, `ObserversEnd`, `ViewerServed`), which the prover does not
reach.

## Not modelled

- Prompts, parsing, wording, matching of words, speech recognition: data. What a model
  or an ear makes of them is a free choice in `Understand`, `PlanGate` and `StepLoop`.
- Pictures and what a detector finds in them: a free choice of `Search` and `Belief`.
- HTTP and LLM transports, codecs, the setting up of WebRTC: one request a call.
- Replay and metrics, which only read; what a record's row holds.
- "End Q&A", recordings and their transcribing, cutting a phrase out of the sound.
- The world file as bytes: `Belief` has it whole or torn.
- A connection of `ActionClient` with its own `cancel_func`, `wait_until_done=False`; a
  connection that is removed while its camera streams; renamed sites.
- Containers, compiled goals and no-op steps in `StepLoop` (they are in `PlanGate` and
  `Search`).
- Presence, configuration files, thin HTTP handlers, `doctor` and `test_skill`: sequential,
  or no protocol.

## Plan

1. An abstract specification of `SharedJson` (a map each writer edits atomically) and
   the refinement on one machine without faults.
2. `Devices` over `SharedJson`: its save as the steps of that module.
3. `StepLoop`: containers; the LLM budget of `Understand` and `PlanGate` carried on into
   its replans.
