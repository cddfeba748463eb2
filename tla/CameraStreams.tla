---------------------------- MODULE CameraStreams ----------------------------
(***************************************************************************)
(* The streams of one camera (api/camera.py): a worker thread encodes each *)
(* frame and sends it to every browser that watches, and ends some time    *)
(* after the last one has left.  Browsers come and go, the worker may end  *)
(* by itself at any time, and either side looks at the registry of streams *)
(* under a lock of its own and at `stop` without one.                      *)
(*                                                                         *)
(* How a frame is encoded, and the depth settings that group the viewers,  *)
(* are left out; a frame is the number the camera's driver gave it.        *)
(***************************************************************************)
EXTENDS Naturals

CONSTANTS
    MaxVisits,  \* bound: websockets opened
    MaxFrames,  \* bound: frames the camera delivers
    Kinds       \* bound: the kinds of camera: "topic", "webrtc", "ondemand"

Visit == 1..MaxVisits
\* Each visit opens a stream at most.
Stream == Visit
NoStream == 0
NoFrame == 0

VARIABLES
    kind,      \* the kind of the camera's connection
    reg,       \* _streams[connect_id]
    made,      \* how many streams there have been
    watchers,  \* stream.subs
    stopped,   \* stream.stop (an Event)
    idle,      \* stream.idle_since: none, within the grace period, or past it
    captures,  \* stream.captures: whether a capture is requested
    worker,    \* where the worker of each stream stands
    taken,     \* the subscribers it has looked up
    held,      \* the frame it holds
    lastSeq,   \* last_seq
    visit,     \* where the handler of each websocket stands
    at,        \* its stream
    needs,     \* needs_frame
    inflight,  \* its last send is under way
    shown,     \* the frame sent last
    data,      \* the agent's rev_data
    seq        \* its rev_seq; of a WebRTC stream, the frames taken from its queue

registry == <<reg, made, watchers, stopped, idle>>
work == <<worker, taken, held, lastSeq>>
viewers == <<visit, at, needs, inflight, shown>>
camera == <<data, seq>>
vars == <<kind, registry, captures, work, viewers, camera>>

Init ==
    /\ kind \in Kinds
    /\ reg = NoStream /\ made = 0 /\ watchers = [s \in Stream |-> {}]
    /\ stopped = [s \in Stream |-> FALSE] /\ idle = [s \in Stream |-> "none"]
    /\ captures = [s \in Stream |-> FALSE]
    /\ worker = [s \in Stream |-> "none"] /\ taken = [s \in Stream |-> {}]
    /\ held = [s \in Stream |-> NoFrame] /\ lastSeq = [s \in Stream |-> NoFrame]
    /\ visit = [v \in Visit |-> "none"] /\ at = [v \in Visit |-> NoStream]
    /\ needs = [v \in Visit |-> TRUE] /\ inflight = [v \in Visit |-> FALSE]
    /\ shown = [v \in Visit |-> NoFrame]
    /\ data = NoFrame /\ seq = NoFrame

\* Where a worker's round begins: it waits for a frame, or looks who is there first.
Round == IF kind = "webrtc" THEN "wait" ELSE "loop"

-----------------------------------------------------------------------------
(* The handler of a websocket (camera_ws).                                 *)

\* It joins the registered stream, unless that has stopped; then it makes one.
Comes(v) ==
    /\ visit[v] = "none"
    /\ IF reg = NoStream \/ (reg # NoStream /\ stopped[reg])
       THEN made' = made + 1 /\ reg' = made'
            /\ visit' = [visit EXCEPT ![v] = "starting"]
       ELSE visit' = [visit EXCEPT ![v] = "watching"] /\ UNCHANGED <<made, reg>>
    /\ at' = [at EXCEPT ![v] = reg']
    /\ watchers' = [watchers EXCEPT ![reg'] = @ \cup {v}]
    /\ idle' = [idle EXCEPT ![reg'] = "none"]
    /\ UNCHANGED <<kind, stopped, captures, work, needs, inflight, shown, camera>>

StartsWorker(v) ==
    /\ visit[v] = "starting"
    /\ visit' = [visit EXCEPT ![v] = "watching"]
    /\ worker' = [worker EXCEPT ![at[v]] = "start"]
    /\ UNCHANGED <<kind, registry, captures, taken, held, lastSeq, at, needs, inflight,
                   shown, camera>>

AsksCapture(v) ==
    /\ visit[v] = "watching" /\ kind = "ondemand"
    /\ captures' = [captures EXCEPT ![at[v]] = TRUE]
    /\ UNCHANGED <<kind, registry, work, viewers, camera>>

\* The browser goes away, or the handler sees that the stream has stopped.
GoesAway(v) ==
    /\ visit[v] = "watching"
    /\ visit' = [visit EXCEPT ![v] = "leaving"]
    /\ UNCHANGED <<kind, registry, captures, work, at, needs, inflight, shown, camera>>

SeesStop(v) == visit[v] = "watching" /\ stopped[at[v]] /\ GoesAway(v)

Leaves(v) ==
    /\ visit[v] = "leaving"
    /\ visit' = [visit EXCEPT ![v] = "gone"]
    /\ watchers' = [watchers EXCEPT ![at[v]] = @ \ {v}]
    /\ idle' = IF watchers'[at[v]] = {} THEN [idle EXCEPT ![at[v]] = "grace"] ELSE idle
    /\ UNCHANGED <<kind, reg, made, stopped, captures, work, at, needs, inflight, shown,
                   camera>>

\* A send of the event loop is over.
Sent(v) ==
    /\ inflight[v]
    /\ inflight' = [inflight EXCEPT ![v] = FALSE]
    /\ UNCHANGED <<kind, registry, captures, work, visit, at, needs, shown, camera>>

-----------------------------------------------------------------------------
(* The camera: TopicAgent.callback of a topic, frames of a WebRTC stream.  *)

FrameArrives ==
    /\ kind # "ondemand" /\ data < MaxFrames /\ (kind = "topic" => seq = data)
    /\ data' = data + 1
    /\ UNCHANGED <<kind, registry, captures, work, viewers, seq>>

FrameCounted ==
    /\ kind = "topic" /\ seq < data
    /\ seq' = data
    /\ UNCHANGED <<kind, registry, captures, work, viewers, data>>

-----------------------------------------------------------------------------
(* The worker.  Nobody else sets its stream's `stop`.                      *)

Goes(s, to) == worker' = [worker EXCEPT ![s] = to]

\* _run_stream.
Opens(s) ==
    /\ worker[s] = "start"
    /\ Goes(s, Round)
    /\ UNCHANGED <<kind, registry, captures, taken, held, lastSeq, viewers, camera>>

\* _retire: a round goes on while somebody watches ...
Busy(s) ==
    /\ worker[s] = "loop" /\ watchers[s] # {}
    /\ idle' = [idle EXCEPT ![s] = "none"]
    /\ Goes(s, IF kind = "ondemand" THEN "capture" ELSE "look")
    /\ UNCHANGED <<kind, reg, made, watchers, stopped, captures, taken, held, lastSeq,
                   viewers, camera>>

\* ... and for the grace period after that; a topic's worker just waits then.
Idles(s) ==
    /\ worker[s] = "loop" /\ watchers[s] = {} /\ idle[s] # "over"
    /\ idle' = [idle EXCEPT ![s] = "grace"]
    /\ Goes(s, IF kind = "ondemand" THEN "capture" ELSE "look")
    /\ UNCHANGED <<kind, reg, made, watchers, stopped, captures, taken, held, lastSeq,
                   viewers, camera>>

GraceEnds(s) ==
    /\ idle[s] = "grace" /\ ~stopped[s]
    /\ idle' = [idle EXCEPT ![s] = "over"]
    /\ UNCHANGED <<kind, reg, made, watchers, stopped, captures, work, viewers, camera>>

\* Mutant: whatever stream is registered goes.
UnregisterAny(s) == reg' = IF s \in Stream THEN NoStream ELSE reg

Unregister(s) == reg' = IF reg = s THEN NoStream ELSE reg

Retires(s) ==
    /\ worker[s] = "loop" /\ watchers[s] = {} /\ idle[s] = "over"
    /\ Unregister(s) /\ stopped' = [stopped EXCEPT ![s] = TRUE]
    /\ Goes(s, "ending")
    /\ UNCHANGED <<kind, made, watchers, idle, captures, taken, held, lastSeq, viewers,
                   camera>>

\* A camera on demand waits a second for a request, and begins again without one.
AwaitsCapture(s) ==
    /\ worker[s] = "capture"
    /\ captures' = [captures EXCEPT ![s] = FALSE]
    /\ Goes(s, IF captures[s] THEN "look" ELSE "loop")
    /\ UNCHANGED <<kind, registry, taken, held, lastSeq, viewers, camera>>

\* _snapshot.
Looks(s) ==
    /\ worker[s] = "look"
    /\ taken' = [taken EXCEPT ![s] = watchers[s]]
    /\ Goes(s, IF watchers[s] = {} THEN Round ELSE IF kind = "topic" THEN "message" ELSE "send")
    /\ UNCHANGED <<kind, registry, captures, held, lastSeq, viewers, camera>>

\* The worker of a topic reads the agent's message, if there is one, ...
TakesMessage(s) ==
    /\ worker[s] = "message"
    /\ held' = [held EXCEPT ![s] = data]
    /\ Goes(s, IF data = NoFrame THEN "loop" ELSE "seq")
    /\ UNCHANGED <<kind, registry, captures, taken, lastSeq, viewers, camera>>

\* Mutant: a viewer that joins waits for the next message.
WantedNew(s) == seq # lastSeq[s]

\* ... and sends it on if its number is new, or if a viewer has had none yet.
Wanted(s) == seq # lastSeq[s] \/ \E v \in taken[s] : needs[v]

ComparesSeq(s) ==
    /\ worker[s] = "seq"
    /\ lastSeq' = [lastSeq EXCEPT ![s] = IF Wanted(s) THEN seq ELSE @]
    /\ Goes(s, IF Wanted(s) THEN "send" ELSE "loop")
    /\ UNCHANGED <<kind, registry, captures, taken, held, viewers, camera>>

\* That of a WebRTC stream waits for the next frame (fetch), ...
TakesFrame(s) ==
    /\ worker[s] = "wait" /\ seq < data
    /\ seq' = seq + 1 /\ held' = [held EXCEPT ![s] = seq']
    /\ Goes(s, "loop")
    /\ UNCHANGED <<kind, registry, captures, taken, lastSeq, viewers, data>>

\* ... and ends when none comes for two seconds.
TimesOut(s) ==
    /\ worker[s] = "wait" /\ seq = data
    /\ Goes(s, "ending")
    /\ UNCHANGED <<kind, registry, captures, taken, held, lastSeq, viewers, camera>>

\* _Subscriber.send_text: a viewer whose last send is under way does not get this one.
SendTo(whom, frame) ==
    LET served == {v \in whom : ~inflight[v]}
    IN  /\ inflight' = [v \in Visit |-> inflight[v] \/ v \in served]
        /\ needs' = [v \in Visit |-> needs[v] /\ v \notin served]
        /\ shown' = [v \in Visit |-> IF v \in served THEN frame ELSE shown[v]]

\* _fanout.
Sends(s) ==
    /\ worker[s] = "send"
    /\ SendTo(taken[s], held[s])
    /\ Goes(s, Round)
    /\ UNCHANGED <<kind, registry, captures, taken, held, lastSeq, visit, at, camera>>

\* A capture that fails is told to everybody (_broadcast); the worker goes on.
CaptureFails(s) ==
    /\ worker[s] = "send" /\ kind = "ondemand"
    /\ SendTo(watchers[s], NoFrame)
    /\ Goes(s, Round)
    /\ UNCHANGED <<kind, registry, captures, taken, held, lastSeq, visit, at, camera>>

\* The connection is not there, or the WebRTC stream raises.
Fails(s) ==
    /\ worker[s] \in {"start", "wait"}
    /\ Goes(s, "ending")
    /\ UNCHANGED <<kind, registry, captures, taken, held, lastSeq, viewers, camera>>

SetsStop(s) ==
    /\ worker[s] = "ending"
    /\ stopped' = [stopped EXCEPT ![s] = TRUE]
    /\ Goes(s, "stopped")
    /\ UNCHANGED <<kind, reg, made, watchers, idle, captures, taken, held, lastSeq,
                   viewers, camera>>

Ends(s) ==
    /\ worker[s] = "stopped"
    /\ Unregister(s)
    /\ Goes(s, "over")
    /\ UNCHANGED <<kind, made, watchers, stopped, idle, captures, taken, held, lastSeq,
                   viewers, camera>>

-----------------------------------------------------------------------------
WorkerRuns(s) ==
    \/ Opens(s) \/ Busy(s) \/ Idles(s) \/ Retires(s) \/ AwaitsCapture(s) \/ Looks(s)
    \/ TakesMessage(s) \/ ComparesSeq(s) \/ TakesFrame(s) \/ TimesOut(s) \/ Sends(s)
    \/ SetsStop(s) \/ Ends(s)
HandlerRuns(v) == StartsWorker(v) \/ SeesStop(v) \/ Leaves(v)

Next ==
    \/ \E v \in Visit :
          Comes(v) \/ HandlerRuns(v) \/ AsksCapture(v) \/ GoesAway(v) \/ Sent(v)
    \/ FrameArrives \/ FrameCounted
    \/ \E s \in Stream : WorkerRuns(s) \/ GraceEnds(s) \/ CaptureFails(s) \/ Fails(s)

\* The threads run, and a message is counted once it is there.  No browser has to
\* come, go or take what was sent, and the camera need not deliver.
Spec ==
    /\ Init /\ [][Next]_vars
    /\ WF_vars(FrameCounted)
    /\ \A s \in Stream : WF_vars(WorkerRuns(s))
    /\ \A v \in Visit : WF_vars(HandlerRuns(v))

-----------------------------------------------------------------------------
(* Properties.                                                             *)

TypeOK ==
    /\ kind \in Kinds /\ reg \in 0..MaxVisits /\ made \in 0..MaxVisits
    /\ watchers \in [Stream -> SUBSET Visit] /\ taken \in [Stream -> SUBSET Visit]
    /\ idle \in [Stream -> {"none", "grace", "over"}]
    /\ worker \in
         [Stream -> {"none", "start", "wait", "loop", "capture", "look", "message", "seq", "send",
                     "ending", "stopped", "over"}]
    /\ visit \in [Visit -> {"none", "starting", "watching", "leaving", "gone"}]
    /\ at \in [Visit -> 0..MaxVisits] /\ shown \in [Visit -> 0..MaxFrames]

(***************************************************************************)
(* "Now a camera has exactly one worker, whatever the number of viewers":  *)
(* whichever way browsers come and go while workers retire, fail and end,  *)
(* a stream that has not stopped is the registered one, so that two never  *)
(* feed at once.                                                           *)
(***************************************************************************)
OneWorker == \A s \in Stream : (s <= made /\ ~stopped[s]) => reg = s

(***************************************************************************)
(* "A viewer joining a stream that is already running must get the frame   *)
(* the worker is holding, without waiting for the camera's next message":  *)
(* who watches a topic that has a message, or any WebRTC stream, gets a    *)
(* frame, or learns that the stream has ended.                             *)
(***************************************************************************)
Waiting(v) ==
    /\ visit[v] = "watching" /\ needs[v]
    /\ \/ kind = "webrtc"
       \/ kind = "topic" /\ data # NoFrame
ViewerServed == \A v \in Visit : Waiting(v) ~> ~Waiting(v)

(***************************************************************************)
(* The last message of a camera that then is silent reaches everybody who  *)
(* watches on and takes what is sent.                                      *)
(***************************************************************************)
LastFrameShown ==
    \A v \in Visit :
        (kind = "topic" /\ visit[v] = "watching" /\ ~inflight[v] /\ data = MaxFrames)
            ~> (visit[v] # "watching" \/ inflight[v] \/ shown[v] = MaxFrames)
=============================================================================
