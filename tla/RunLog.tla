------------------------------- MODULE RunLog -------------------------------
(***************************************************************************)
(* What is told of one run: its events, which reach the clients that watch *)
(* it (api/agent.py, _observe) and the record kept of it                   *)
(* (observe/record.py).                                                    *)
(*                                                                         *)
(* The session that started the run and the sessions that watch share one  *)
(* event loop: each goes on alone until it awaits.  A call of the REST     *)
(* interface (a pause, something said) publishes from a thread of its own, *)
(* and the executive's thread writes a row for each skill.                 *)
(***************************************************************************)
EXTENDS Naturals, Sequences

CONSTANTS
    Observers,     \* the sessions that watch
    MaxProgress,   \* bound: events of the executive
    MaxCalls       \* bound: REST calls

Session == "session"
Caller == "caller"
Record == "record"
Publisher == {Session, Caller} \cup Observers
Subscriber == {Record} \cup Observers

Nothing == "nothing"

\* Mutant: a run that failed is not over for who watches it.
DoneOnly == {"done"}

\* The run_state events of the end.
EndEvents == {"done", "failed"}

VARIABLES
    active,    \* Run.active
    subs,      \* Run._subs
    events,    \* Run.events
    event,     \* what each publisher publishes
    due,       \* the subscribers that publish() has still to call
    session,   \* where the session of the run stands
    progress,  \* how many events the executive sent
    restCall,  \* where the REST call stands
    calls,     \* how many there were
    observer,  \* where each observer's session stands
    queue,     \* the events it has still to send
    open,      \* whether _OPEN has the record
    rows,      \* the rows of the record's file
    skill      \* a skill runs, and whether its row has a record to go to

publishing == <<subs, events, event, due>>
starter == <<active, session, progress>>
caller == <<restCall, calls>>
watching == <<observer, queue>>
recording == <<open, rows>>
vars == <<publishing, starter, caller, watching, recording, skill>>

Init ==
    /\ active = FALSE /\ subs = {} /\ events = << >>
    /\ event = [p \in Publisher |-> Nothing] /\ due = [p \in Publisher |-> {}]
    /\ session = "start" /\ progress = 0
    /\ restCall = "idle" /\ calls = 0
    /\ observer = [o \in Observers |-> "away"] /\ queue = [o \in Observers |-> << >>]
    /\ open = FALSE /\ rows = << >>
    /\ skill = "none"

\* The event loop is free when every session awaits something.
SessionAwaits == session \in {"start", "serve", "gone"} /\ due[Session] = {}
ObserverAwaits(o) == observer[o] # "says" /\ due[o] = {}
LoopFree == SessionAwaits /\ \A o \in Observers : ObserverAwaits(o)
OthersAwait(o) == SessionAwaits /\ \A q \in Observers \ {o} : ObserverAwaits(q)

-----------------------------------------------------------------------------
(* Run.subscribe and Run.publish.                                          *)

Subscribe(s) == subs' = subs \cup {s}
Unsubscribe(s) == subs' = subs \ {s}

\* The event is kept and the subscribers are looked up, under the lock ...
Publish(p, e) ==
    /\ due[p] = {}
    /\ events' = Append(events, e)
    /\ event' = [event EXCEPT ![p] = e]
    /\ due' = [due EXCEPT ![p] = subs]

\* ... and called one by one without it, also the one that has left meanwhile.
Delivers(p) ==
    \E s \in due[p] :
        /\ due' = [due EXCEPT ![p] = @ \ {s}]
        /\ IF s = Record
           THEN rows' = Append(rows, event[p]) /\ UNCHANGED queue
           ELSE queue' = [queue EXCEPT ![s] = Append(@, event[p])] /\ UNCHANGED rows
        /\ UNCHANGED <<subs, events, event, starter, caller, observer, open, skill>>

-----------------------------------------------------------------------------
(* The session that started the run (agent_ws).                            *)

SessionAt(here, to) ==
    /\ session = here /\ due[Session] = {}
    /\ session' = to

\* RunManager.start: the run is there for everybody, then its hooks run ...
Starts ==
    /\ LoopFree /\ SessionAt("start", "open")
    /\ active' = TRUE
    /\ UNCHANGED <<publishing, progress, caller, watching, recording, skill>>

\* ... open_record ...
OpensRecord ==
    /\ SessionAt("open", "subscribe")
    /\ rows' = Append(rows, "header") /\ open' = TRUE
    /\ UNCHANGED <<active, publishing, progress, caller, watching, skill>>

\* ... on_run_start ...
SubscribesRecord ==
    /\ SessionAt("subscribe", "announce")
    /\ Subscribe(Record)
    /\ UNCHANGED <<active, events, event, due, progress, caller, watching, recording, skill>>

\* ... and the run is announced.
Announces ==
    /\ SessionAt("announce", "serve")
    /\ Publish(Session, "running")
    /\ UNCHANGED <<active, subs, progress, caller, watching, recording, skill>>

\* The executive's generator hands over an event.
Forwards ==
    /\ LoopFree /\ SessionAt("serve", "serve") /\ progress < MaxProgress
    /\ Publish(Session, "progress") /\ progress' = progress + 1
    /\ UNCHANGED <<active, subs, caller, watching, recording, skill>>

\* The generator is at its end, or the client is gone: RunManager.finish ...
Finishes ==
    /\ LoopFree /\ SessionAt("serve", "tell")
    /\ active' = FALSE
    /\ UNCHANGED <<publishing, progress, caller, watching, recording, skill>>

\* ... tells it ...
TellsEnd ==
    /\ SessionAt("tell", "close")
    /\ \E end \in {"done", "failed"} : Publish(Session, end)
    /\ UNCHANGED <<active, subs, progress, caller, watching, recording, skill>>

\* ... and calls its hook (on_run_finish): close_record takes the record out, ...
ClosesRecord ==
    /\ SessionAt("close", "end")
    /\ open' = FALSE /\ Unsubscribe(Record)
    /\ UNCHANGED <<active, events, event, due, progress, caller, watching, rows, skill>>

\* ... writes the outcome, ...
WritesEnd ==
    /\ SessionAt("end", "snapshot")
    /\ rows' = Append(rows, "end")
    /\ UNCHANGED <<active, publishing, progress, caller, watching, open, skill>>

\* ... and the metrics.
WritesSnapshot ==
    /\ SessionAt("snapshot", "gone")
    /\ rows' = Append(rows, "snapshot")
    /\ UNCHANGED <<active, publishing, progress, caller, watching, open, skill>>

-----------------------------------------------------------------------------
(* A REST call, and the executive's thread.                                *)

\* _resolve: the run must be active then.
Calls ==
    /\ restCall = "idle" /\ calls < MaxCalls /\ active
    /\ restCall' = "publish" /\ calls' = calls + 1
    /\ UNCHANGED <<publishing, starter, watching, recording, skill>>

CallPublishes ==
    /\ restCall = "publish" /\ Publish(Caller, "input")
    /\ restCall' = "idle"
    /\ UNCHANGED <<subs, starter, calls, watching, recording, skill>>

\* observed_skill looks for the record before the skill, ...
SkillBegins ==
    /\ skill = "none" /\ session \notin {"start", "open"}
    /\ skill' = IF open THEN "recorded" ELSE "unrecorded"
    /\ UNCHANGED <<publishing, starter, caller, watching, recording>>

\* ... and writes its row when it has ended.
SkillEnds ==
    /\ skill \in {"recorded", "unrecorded"}
    /\ rows' = IF skill = "recorded" THEN Append(rows, "skill") ELSE rows
    /\ skill' = "over"
    /\ UNCHANGED <<publishing, starter, caller, watching, open>>

-----------------------------------------------------------------------------
(* A session that watches (_observe).                                      *)

ObserverAt(o, here, to) ==
    /\ observer[o] = here /\ due[o] = {}
    /\ observer' = [observer EXCEPT ![o] = to]

\* start() gave it the run that is active; it subscribes at once, ...
Attaches(o) ==
    /\ LoopFree /\ active /\ ObserverAt(o, "away", "says")
    /\ Subscribe(o)
    /\ UNCHANGED <<events, event, due, starter, caller, queue, recording, skill>>

\* ... and what it says is published.
Says(o) ==
    /\ ObserverAt(o, "says", "attached") /\ Publish(o, "input")
    /\ UNCHANGED <<subs, starter, caller, queue, recording, skill>>

\* `if not run.active: return`; otherwise it watches.
GoesOnIfActive(o) ==
    IF active
    THEN observer' = [observer EXCEPT ![o] = "watches"] /\ UNCHANGED subs
    ELSE observer' = [observer EXCEPT ![o] = "gone"] /\ Unsubscribe(o)

Looks(o) ==
    /\ LoopFree /\ observer[o] = "attached"
    /\ GoesOnIfActive(o)
    /\ UNCHANGED <<events, event, due, starter, caller, queue, recording, skill>>

\* _forward: it sends what it is told, and ends with the run.
SendsOn(o) ==
    /\ LoopFree /\ observer[o] = "watches" /\ queue[o] # << >>
    /\ queue' = [queue EXCEPT ![o] = Tail(@)]
    /\ IF Head(queue[o]) \in EndEvents
       THEN observer' = [observer EXCEPT ![o] = "gone"] /\ Unsubscribe(o)
       ELSE UNCHANGED <<observer, subs>>
    /\ UNCHANGED <<events, event, due, starter, caller, recording, skill>>

\* Its client goes away.
Departs(o) ==
    /\ LoopFree /\ ObserverAt(o, "watches", "gone")
    /\ Unsubscribe(o)
    /\ UNCHANGED <<events, event, due, starter, caller, queue, recording, skill>>

-----------------------------------------------------------------------------
SessionRuns ==
    \/ OpensRecord \/ SubscribesRecord \/ Announces
    \/ TellsEnd \/ ClosesRecord \/ WritesEnd \/ WritesSnapshot
ObserverRuns(o) == Says(o) \/ Looks(o) \/ SendsOn(o)

Next ==
    \/ Starts \/ Forwards \/ Finishes \/ SessionRuns
    \/ Calls \/ CallPublishes \/ SkillBegins \/ SkillEnds
    \/ \E o \in Observers : Attaches(o) \/ ObserverRuns(o) \/ Departs(o)
    \/ \E p \in Publisher : Delivers(p)

\* What the event loop and the threads have begun goes on.  Nobody has to start a run,
\* end it, watch it or leave.
Spec ==
    /\ Init /\ [][Next]_vars
    /\ WF_vars(SessionRuns)
    /\ \A p \in Publisher : WF_vars(Delivers(p))
    /\ \A o \in Observers : WF_vars(ObserverRuns(o))

-----------------------------------------------------------------------------
(* Properties.                                                             *)

TypeOK ==
    /\ active \in BOOLEAN /\ open \in BOOLEAN /\ subs \subseteq Subscriber
    /\ due \in [Publisher -> SUBSET Subscriber]
    /\ session \in {"start", "open", "subscribe", "announce", "serve", "tell", "close", "end",
                    "snapshot", "gone"}
    /\ observer \in [Observers -> {"away", "says", "attached", "watches", "gone"}]

(***************************************************************************)
(* Who watches a run is not left watching when it has ended, whether the   *)
(* end comes before, while or after the observer is told what it watches:  *)
(* it has the event of the end, or it sees that the run is over.           *)
(***************************************************************************)
ObserversEnd ==
    \A o \in Observers :
        (observer[o] \in {"attached", "watches"} /\ session = "gone") ~> observer[o] = "gone"

(***************************************************************************)
(* "snapshot() writes the full TaskRecord as the final line"               *)
(* (planning/records.py).                                                  *)
(***************************************************************************)
SnapshotIsLast == \A i \in 1..Len(rows) : rows[i] = "snapshot" => i = Len(rows)

(***************************************************************************)
(* The record is opened "before its first event" and closed "after its     *)
(* last one" (run_manager.py): nothing that is published is left out.      *)
(***************************************************************************)
Inputs(s) == Len(SelectSeq(s, LAMBDA x : x = "input"))
AllEventsRecorded ==
    (session = "gone" /\ due[Caller] = {}) => Inputs(rows) >= Inputs(events)
=============================================================================
