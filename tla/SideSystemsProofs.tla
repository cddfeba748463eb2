------------------------- MODULE SideSystemsProofs -------------------------
(***************************************************************************)
(* Proofs about four systems that share nothing: PausePoint (its types,    *)
(* and that a cancel which wakes a paused executive never lets it take     *)
(* another step), CameraStreams (a camera has one worker), RequestReply (a *)
(* reply is that of the request it is returned for) and PlanRun (a success *)
(* hides no failure, an emergency stop ends the closed loop).              *)
(***************************************************************************)
EXTENDS SideSystems, Sequences, SequenceTheorems, WellFoundedInduction, TLAPS

-----------------------------------------------------------------------------
(* PausePoint.                                                             *)

(***************************************************************************)
(* The inductive invariant.  The Event `resume` is clear exactly while the *)
(* run is paused, every pause ends at most once, and `cancelling` is never *)
(* visible before the cancel itself.                                       *)
(***************************************************************************)
FlagsAgree ==
    /\ state = "paused" <=> ~resume
    /\ state = "cancelling" => cancel
    /\ \A c \in Client : call[c] = "cancelling" => cancel
    /\ ended <= pauses
    /\ state = "paused" => ended < pauses

(***************************************************************************)
(* What an executive that blocked at this boundary may rely on: it leaves  *)
(* the wait because of a resume after it blocked, or with the cancel set.  *)
(***************************************************************************)
Resumed == ended > heldAt
HoldKept ==
    /\ pc = "wait" => heldAt = -1
    /\ pc = "blocked" => heldAt <= ended /\ (resume => Resumed \/ cancel)
    /\ pc = "woke" /\ heldAt >= 0 => Resumed \/ cancel
    /\ pc \in {"count", "go", "step"} /\ heldAt >= 0 => Resumed

\* TypeOK in two parts, for the provers: what is a flag and what is a count.
FlagTypes ==
    /\ state \in {"running", "paused", "cancelling"}
    /\ cancel \in BOOLEAN /\ resume \in BOOLEAN
    /\ call \in [Client -> {"idle", "resumePaused", "resumeRunning",
                            "resumed", "cancelling"}]
    /\ pc \in {"top", "wait", "blocked", "woke", "count", "go", "step", "task", "over"}
    /\ wasPaused \in BOOLEAN /\ fresh \in BOOLEAN
CountTypes ==
    /\ resumes \in Nat /\ seen \in Nat
    /\ heldAt \in -1..MaxPauses
    /\ pauses \in 0..MaxPauses /\ ended \in 0..MaxPauses /\ tasks \in 0..MaxTasks

IInv == FlagTypes /\ CountTypes /\ FlagsAgree /\ HoldKept

LEMMA Types == FlagTypes /\ CountTypes => TypeOK
  BY DEF FlagTypes, CountTypes, TypeOK

LEMMA InitInv == Init => IInv
<1> SUFFICES ASSUME Init PROVE IInv
  OBVIOUS
<1>1. FlagTypes
  BY DEF Init, FlagTypes
<1>2. CountTypes
  BY BoundsAssumption DEF Init, CountTypes
<1>3. FlagsAgree
  BY DEF Init, FlagsAgree
<1>4. HoldKept
  BY DEF Init, HoldKept
<1> QED
  BY <1>1, <1>2, <1>3, <1>4 DEF IInv

-----------------------------------------------------------------------------
(* What the clients do.                                                    *)
LEMMA ClientStep ==
  ASSUME IInv, NEW c \in Client,
         \/ Pause(c) \/ AskResume(c) \/ Resume(c) \/ ResumeHook(c)
         \/ SetCancel(c) \/ SetCancelling(c)
  PROVE  IInv'
<1> USE DEF counts, executive, flags, history, Goto
<1>1. CASE Pause(c)
  <2>1. FlagTypes'
    BY <1>1 DEF IInv, FlagTypes, Pause
  <2>2. CountTypes'
    BY <1>1, BoundsAssumption DEF IInv, CountTypes, FlagsAgree, Pause
  <2>3. FlagsAgree'
    BY <1>1 DEF IInv, FlagTypes, CountTypes, FlagsAgree, Pause
  <2>4. HoldKept'
    BY <1>1 DEF IInv, FlagTypes, CountTypes, FlagsAgree, HoldKept, Resumed, Pause
  <2> QED
    BY <2>1, <2>2, <2>3, <2>4 DEF IInv
<1>2. CASE AskResume(c)
  <2>1. FlagTypes'
    BY <1>2 DEF IInv, FlagTypes, AskResume
  <2>2. CountTypes'
    BY <1>2, BoundsAssumption DEF IInv, CountTypes, FlagsAgree, AskResume
  <2>3. FlagsAgree'
    BY <1>2 DEF IInv, FlagTypes, CountTypes, FlagsAgree, AskResume
  <2>4. HoldKept'
    BY <1>2 DEF IInv, FlagTypes, CountTypes, FlagsAgree, HoldKept, Resumed, AskResume
  <2> QED
    BY <2>1, <2>2, <2>3, <2>4 DEF IInv
<1>3. CASE Resume(c)
  <2>1. FlagTypes'
    BY <1>3 DEF IInv, FlagTypes, Resume
  <2>2. CountTypes'
    BY <1>3, BoundsAssumption DEF IInv, CountTypes, FlagsAgree, Resume
  <2>3. FlagsAgree'
    BY <1>3 DEF IInv, FlagTypes, CountTypes, FlagsAgree, Resume
  <2>4. HoldKept'
    BY <1>3 DEF IInv, FlagTypes, CountTypes, FlagsAgree, HoldKept, Resumed, Resume
  <2> QED
    BY <2>1, <2>2, <2>3, <2>4 DEF IInv
<1>4. CASE ResumeHook(c)
  <2>1. FlagTypes'
    BY <1>4 DEF IInv, FlagTypes, ResumeHook
  <2>2. CountTypes'
    BY <1>4, BoundsAssumption DEF IInv, CountTypes, FlagsAgree, ResumeHook
  <2>3. FlagsAgree'
    BY <1>4 DEF IInv, FlagTypes, CountTypes, FlagsAgree, ResumeHook
  <2>4. HoldKept'
    BY <1>4 DEF IInv, FlagTypes, CountTypes, FlagsAgree, HoldKept, Resumed, ResumeHook
  <2> QED
    BY <2>1, <2>2, <2>3, <2>4 DEF IInv
<1>5. CASE SetCancel(c)
  <2>1. FlagTypes'
    BY <1>5 DEF IInv, FlagTypes, SetCancel
  <2>2. CountTypes'
    BY <1>5, BoundsAssumption DEF IInv, CountTypes, FlagsAgree, SetCancel
  <2>3. FlagsAgree'
    BY <1>5 DEF IInv, FlagTypes, CountTypes, FlagsAgree, SetCancel
  <2>4. HoldKept'
    BY <1>5 DEF IInv, FlagTypes, CountTypes, FlagsAgree, HoldKept, Resumed, SetCancel
  <2> QED
    BY <2>1, <2>2, <2>3, <2>4 DEF IInv
<1>6. CASE SetCancelling(c)
  <2>1. FlagTypes'
    BY <1>6 DEF IInv, FlagTypes, SetCancelling
  <2>2. CountTypes'
    BY <1>6, BoundsAssumption DEF IInv, CountTypes, FlagsAgree, SetCancelling
  <2>3. FlagsAgree'
    BY <1>6 DEF IInv, FlagTypes, CountTypes, FlagsAgree, SetCancelling
  <2>4. HoldKept'
    BY <1>6 DEF IInv, FlagTypes, CountTypes, FlagsAgree, HoldKept, Resumed, SetCancelling
  <2> QED
    BY <2>1, <2>2, <2>3, <2>4 DEF IInv
<1> QED
  BY <1>1, <1>2, <1>3, <1>4, <1>5, <1>6

-----------------------------------------------------------------------------
(* What the executive does.                                                *)
LEMMA ExecutiveStep ==
  ASSUME IInv, Boundary \/ EndStep \/ TakeTaskBack \/ MarkResumed
  PROVE  IInv'
<1> USE DEF flags, counts, history
<1>1. CASE EnterPausePoint
  <2>1. FlagTypes'
    BY <1>1 DEF IInv, FlagTypes, EnterPausePoint
  <2>2. CountTypes'
    BY <1>1, BoundsAssumption DEF IInv, CountTypes, FlagsAgree, EnterPausePoint
  <2>3. FlagsAgree'
    BY <1>1 DEF IInv, FlagTypes, CountTypes, FlagsAgree, EnterPausePoint
  <2>4. HoldKept'
    BY <1>1 DEF IInv, FlagTypes, CountTypes, FlagsAgree, HoldKept, Resumed, EnterPausePoint
  <2> QED
    BY <2>1, <2>2, <2>3, <2>4 DEF IInv
<1>2. CASE Block
  <2>1. FlagTypes'
    BY <1>2 DEF IInv, FlagTypes, Block
  <2>2. CountTypes'
    BY <1>2, BoundsAssumption DEF IInv, CountTypes, FlagsAgree, Block
  <2>3. FlagsAgree'
    BY <1>2 DEF IInv, FlagTypes, CountTypes, FlagsAgree, Block
  <2>4. HoldKept'
    BY <1>2 DEF IInv, FlagTypes, CountTypes, FlagsAgree, HoldKept, Resumed, Block
  <2> QED
    BY <2>1, <2>2, <2>3, <2>4 DEF IInv
<1>3. CASE Wake
  <2>1. FlagTypes'
    BY <1>3 DEF IInv, FlagTypes, Wake
  <2>2. CountTypes'
    BY <1>3, BoundsAssumption DEF IInv, CountTypes, FlagsAgree, Wake
  <2>3. FlagsAgree'
    BY <1>3 DEF IInv, FlagTypes, CountTypes, FlagsAgree, Wake
  <2>4. HoldKept'
    BY <1>3 DEF IInv, FlagTypes, CountTypes, FlagsAgree, HoldKept, Resumed, Wake
  <2> QED
    BY <2>1, <2>2, <2>3, <2>4 DEF IInv
<1>4. CASE CheckCancel
  <2>1. FlagTypes'
    BY <1>4 DEF IInv, FlagTypes, CheckCancel
  <2>2. CountTypes'
    BY <1>4, BoundsAssumption DEF IInv, CountTypes, FlagsAgree, CheckCancel
  <2>3. FlagsAgree'
    BY <1>4 DEF IInv, FlagTypes, CountTypes, FlagsAgree, CheckCancel
  <2>4. HoldKept'
    BY <1>4 DEF IInv, FlagTypes, CountTypes, FlagsAgree, HoldKept, Resumed, CheckCancel
  <2> QED
    BY <2>1, <2>2, <2>3, <2>4 DEF IInv
<1>5. CASE CountResumes
  <2>1. FlagTypes'
    BY <1>5 DEF IInv, FlagTypes, CountResumes
  <2>2. CountTypes'
    BY <1>5, BoundsAssumption DEF IInv, CountTypes, FlagsAgree, CountResumes
  <2>3. FlagsAgree'
    BY <1>5 DEF IInv, FlagTypes, CountTypes, FlagsAgree, CountResumes
  <2>4. HoldKept'
    BY <1>5 DEF IInv, FlagTypes, CountTypes, FlagsAgree, HoldKept, Resumed, CountResumes
  <2> QED
    BY <2>1, <2>2, <2>3, <2>4 DEF IInv
<1>6. CASE BeginStep
  <2>1. FlagTypes'
    BY <1>6 DEF IInv, FlagTypes, BeginStep
  <2>2. CountTypes'
    BY <1>6, BoundsAssumption DEF IInv, CountTypes, FlagsAgree, BeginStep
  <2>3. FlagsAgree'
    BY <1>6 DEF IInv, FlagTypes, CountTypes, FlagsAgree, BeginStep
  <2>4. HoldKept'
    BY <1>6 DEF IInv, FlagTypes, CountTypes, FlagsAgree, HoldKept, Resumed, BeginStep
  <2> QED
    BY <2>1, <2>2, <2>3, <2>4 DEF IInv
<1>7. CASE EndStep
  <2>1. FlagTypes'
    BY <1>7 DEF IInv, FlagTypes, EndStep
  <2>2. CountTypes'
    BY <1>7, BoundsAssumption DEF IInv, CountTypes, FlagsAgree, EndStep
  <2>3. FlagsAgree'
    BY <1>7 DEF IInv, FlagTypes, CountTypes, FlagsAgree, EndStep
  <2>4. HoldKept'
    BY <1>7 DEF IInv, FlagTypes, CountTypes, FlagsAgree, HoldKept, Resumed, EndStep
  <2> QED
    BY <2>1, <2>2, <2>3, <2>4 DEF IInv
<1>8. CASE TakeTaskBack
  <2>1. FlagTypes'
    BY <1>8 DEF IInv, FlagTypes, TakeTaskBack
  <2>2. CountTypes'
    BY <1>8, BoundsAssumption DEF IInv, CountTypes, FlagsAgree, TakeTaskBack
  <2>3. FlagsAgree'
    BY <1>8 DEF IInv, FlagTypes, CountTypes, FlagsAgree, TakeTaskBack
  <2>4. HoldKept'
    BY <1>8 DEF IInv, FlagTypes, CountTypes, FlagsAgree, HoldKept, Resumed, TakeTaskBack
  <2> QED
    BY <2>1, <2>2, <2>3, <2>4 DEF IInv
<1>9. CASE MarkResumed
  <2>1. FlagTypes'
    BY <1>9 DEF IInv, FlagTypes, MarkResumed
  <2>2. CountTypes'
    BY <1>9, BoundsAssumption DEF IInv, CountTypes, FlagsAgree, MarkResumed
  <2>3. FlagsAgree'
    BY <1>9 DEF IInv, FlagTypes, CountTypes, FlagsAgree, MarkResumed
  <2>4. HoldKept'
    BY <1>9 DEF IInv, FlagTypes, CountTypes, FlagsAgree, HoldKept, Resumed, MarkResumed
  <2> QED
    BY <2>1, <2>2, <2>3, <2>4 DEF IInv
<1> QED
  BY <1>1, <1>2, <1>3, <1>4, <1>5, <1>6, <1>7, <1>8, <1>9 DEF Boundary

LEMMA InvStep == IInv /\ [Next]_vars => IInv'
<1> SUFFICES ASSUME IInv, [Next]_vars PROVE IInv'
  OBVIOUS
<1>1. CASE Next
  BY <1>1, ClientStep, ExecutiveStep DEF Next
<1>2. CASE UNCHANGED vars
  BY <1>2 DEF vars, flags, counts, executive, history, IInv, FlagTypes,
     CountTypes, FlagsAgree, HoldKept, Resumed
<1> QED
  BY <1>1, <1>2

LEMMA Invariance == Spec => []IInv
  BY InitInv, InvStep, PTL DEF Spec

-----------------------------------------------------------------------------
(* Type correctness: in particular no pause is ended twice.                *)
THEOREM TypeCorrect == Spec => []TypeOK
<1>1. IInv => TypeOK
  BY Types DEF IInv
<1> QED
  BY <1>1, Invariance, PTL

(***************************************************************************)
(* Whatever the number of clients and of pauses, an executive that blocked *)
(* in a pause begins a step only after a resume: a cancel wakes it, but it *)
(* then sees the cancel (_cancel_now sets `_cancel` before `_resume`).     *)
(***************************************************************************)
THEOREM HoldEndsByResume == Spec => []NoStepFromCancelledHold
<1>1. IInv => NoStepFromCancelledHold
  BY DEF IInv, HoldKept, Resumed, NoStepFromCancelledHold
<1> QED
  BY <1>1, Invariance, PTL

-----------------------------------------------------------------------------
(* CameraStreams.                                                          *)

Stream == Camera!Stream

\* What the invariant needs of the types.
Phase == {"none", "start", "wait", "loop", "capture", "look", "message", "seq", "send", "ending",
          "stopped", "over"}
StreamTypes ==
    /\ made \in Nat
    /\ stopped \in [Stream -> BOOLEAN]
    /\ worker \in [Stream -> Phase]

\* A worker unregisters its stream when that has stopped, and not before.
StopFirst == \A s \in Stream : worker[s] \in {"stopped", "over"} => stopped[s]

\* The inductive invariant.
CameraInv == StreamTypes /\ StopFirst /\ Camera!OneWorker

LEMMA CameraInit == ASSUME MaxVisits \in Nat PROVE Camera!Init => CameraInv
  BY DEF CameraInv, Camera!Init, StreamTypes, Phase, StopFirst, Camera!OneWorker, Stream,
     Camera!Stream, Camera!Visit, Camera!NoStream

\* A browser that comes makes a stream only when the registered one has stopped.
LEMMA VisitsKeep ==
    ASSUME MaxVisits \in Nat, CameraInv, NEW v \in Camera!Visit,
           Camera!Comes(v) \/ Camera!HandlerRuns(v) \/ Camera!AsksCapture(v)
              \/ Camera!GoesAway(v) \/ Camera!Sent(v)
    PROVE  CameraInv'
<1> USE DEF CameraInv, StreamTypes, Phase, StopFirst, Stream, Camera!Stream, Camera!Visit,
        Camera!NoStream, Camera!OneWorker, Camera!registry, Camera!work
<1>1. CASE Camera!Comes(v)
  BY <1>1 DEF Camera!Comes
<1>2. CASE Camera!StartsWorker(v)
  BY <1>2 DEF Camera!StartsWorker
<1>3. CASE Camera!SeesStop(v) \/ Camera!GoesAway(v)
  BY <1>3 DEF Camera!SeesStop, Camera!GoesAway
<1>4. CASE Camera!Leaves(v)
  BY <1>4 DEF Camera!Leaves
<1>5. CASE Camera!AsksCapture(v) \/ Camera!Sent(v)
  BY <1>5 DEF Camera!AsksCapture, Camera!Sent
<1> QED
  BY <1>1, <1>2, <1>3, <1>4, <1>5 DEF Camera!HandlerRuns

\* A worker stops its stream as it retires, or before it unregisters it.
LEMMA WorkersKeep ==
    ASSUME MaxVisits \in Nat, CameraInv, NEW s \in Camera!Stream,
           Camera!WorkerRuns(s) \/ Camera!GraceEnds(s) \/ Camera!CaptureFails(s)
              \/ Camera!Fails(s)
    PROVE  CameraInv'
<1> USE DEF CameraInv, StreamTypes, Phase, StopFirst, Stream, Camera!Stream, Camera!Visit,
        Camera!NoStream, Camera!OneWorker, Camera!registry, Camera!work, Camera!Goes, Camera!Round
<1>1. CASE Camera!Opens(s) \/ Camera!Busy(s) \/ Camera!Idles(s)
  BY <1>1 DEF Camera!Opens, Camera!Busy, Camera!Idles
<1>2. CASE Camera!AwaitsCapture(s) \/ Camera!Looks(s) \/ Camera!TakesMessage(s)
  BY <1>2 DEF Camera!AwaitsCapture, Camera!Looks, Camera!TakesMessage
<1>3. CASE Camera!ComparesSeq(s) \/ Camera!TakesFrame(s) \/ Camera!TimesOut(s)
  BY <1>3 DEF Camera!ComparesSeq, Camera!TakesFrame, Camera!TimesOut
<1>4. CASE Camera!Sends(s) \/ Camera!CaptureFails(s) \/ Camera!Fails(s) \/ Camera!GraceEnds(s)
  BY <1>4 DEF Camera!Sends, Camera!CaptureFails, Camera!Fails, Camera!GraceEnds
<1>5. CASE Camera!Retires(s)
  BY <1>5 DEF Camera!Retires, Camera!Unregister
<1>6. CASE Camera!SetsStop(s)
  BY <1>6 DEF Camera!SetsStop
<1>7. CASE Camera!Ends(s)
  BY <1>7 DEF Camera!Ends, Camera!Unregister
<1> QED
  BY <1>1, <1>2, <1>3, <1>4, <1>5, <1>6, <1>7 DEF Camera!WorkerRuns

\* Nothing else touches the registry, `stop` or where the workers stand.
LEMMA CameraStep ==
    ASSUME MaxVisits \in Nat
    PROVE  CameraInv /\ [Camera!Next]_Camera!vars => CameraInv'
<1> SUFFICES ASSUME CameraInv, [Camera!Next]_Camera!vars PROVE CameraInv'
  OBVIOUS
<1>1. CASE Camera!FrameArrives \/ Camera!FrameCounted \/ UNCHANGED Camera!vars
  BY <1>1 DEF CameraInv, StreamTypes, Phase, StopFirst, Stream, Camera!OneWorker, Camera!FrameArrives,
     Camera!FrameCounted, Camera!vars, Camera!registry, Camera!work
<1> QED
  BY <1>1, VisitsKeep, WorkersKeep DEF Camera!Next

(***************************************************************************)
(* However browsers come and go while workers retire, fail and end, a      *)
(* camera has one stream at most that has not stopped: the registered one. *)
(* The inductive invariant adds that a worker unregisters its stream only  *)
(* when that has stopped (api/camera.py: `_retire` under the lock, the     *)
(* `finally` of `_run_stream` after `stop.set()`).                         *)
(***************************************************************************)
THEOREM OneWorkerKept ==
    ASSUME MaxVisits \in Nat
    PROVE  Camera!Spec => []OneWorker
<1>1. Camera!Spec => Camera!Init /\ [][Camera!Next]_Camera!vars
  BY PTL DEF Camera!Spec
<1>2. CameraInv => OneWorker
  BY DEF CameraInv, OneWorker
<1> QED
  BY <1>1, <1>2, CameraInit, CameraStep, PTL

-----------------------------------------------------------------------------
(* RequestReply.                                                           *)

\* Short names: the connections, the threads, the requests.
Line == Remote!Connection
Caller == {1, 2}
Asked == Remote!Request

ChannelTypes ==
    /\ sock \in Line /\ connected \in BOOLEAN
    /\ wire \in [Line -> Seq(Nat)] /\ back \in [Line -> Seq(Nat)]
CallerTypes ==
    /\ stage \in [Caller -> {"idle", "connect", "put", "get"}]
    /\ saying \in [Caller -> Nat] /\ request \in [Caller -> Nat]
    /\ sends \in 0..MaxSends /\ outcome \in [Asked -> Int]
    /\ futures \in Seq(Caller)

\* Whoever is in send() has a request of its own, and says it or "hello".
OwnRequest ==
    /\ \A t \in Caller : stage[t] # "idle" =>
          request[t] \in 1..sends /\ saying[t] \in {0, request[t]}
    /\ \A t, u \in Caller :
          t # u /\ stage[t] # "idle" /\ stage[u] # "idle" => request[t] # request[u]

Empty(c) == Len(wire[c]) = 0 /\ Len(back[c]) = 0

\* One message at most is under way, and it is what t said, or its reply.
OneDue(t) ==
    /\ Len(wire[sock]) + Len(back[sock]) <= 1
    /\ \A i \in 1..Len(wire[sock]) : wire[sock][i] = saying[t]
    /\ \A i \in 1..Len(back[sock]) : back[sock][i] = saying[t]

Rightly == \A n \in Asked : outcome[n] \in {-1, n}

\* A stream in the hands of t alone: nothing is due on a connection that is used again.
Alone(t) == \A u \in Caller : u # t => stage[u] = "idle"
NewerEmpty == \A c \in Line : c > sock => Empty(c)
ReadyEmpty(t) == stage[t] = "idle" /\ connected => Empty(sock)
PutEmpty(t) == stage[t] = "put" => Empty(sock) \/ (use.by = "zmq" /\ sock \in owed)
GetDue(t) == stage[t] = "get" => OneDue(t) /\ (use.by = "zmq" => sock \in owed)
HeldBy(t) ==
    /\ Alone(t)
    /\ NewerEmpty /\ ReadyEmpty(t) /\ PutEmpty(t) /\ GetDue(t)
    /\ Rightly

StreamLine == ~Remote!By("webrtc") => \E t \in Caller : HeldBy(t)

\* The data channel: the callers that wait are the futures, each once.
Waits ==
    Remote!By("webrtc") =>
        /\ sock \notin broken
        /\ \A i \in 1..Len(futures) : stage[futures[i]] = "get"
        /\ \A i, j \in 1..Len(futures) : i # j => futures[i] # futures[j]
        /\ \A t \in Caller : stage[t] # "idle" => saying[t] = request[t]

\* What comes i-th on the channel.
Nth(i) == IF i <= Len(back[sock]) THEN back[sock][i] ELSE wire[sock][i - Len(back[sock])]
Paired ==
    /\ Len(back[sock]) + Len(wire[sock]) = Len(futures)
    /\ \A i \in 1..Len(futures) : Nth(i) = request[futures[i]]
InLine ==
    Remote!By("webrtc") =>
        (\E m \in Asked : Remote!GivenUp(m)) \/ (Paired /\ Rightly)

RemoteInv ==
    ChannelTypes /\ CallerTypes /\ OwnRequest /\ StreamLine /\ Waits /\ InLine

\* Until two send() of a stream are under way at once.
UnsharedInv == shared \/ RemoteInv

\* Bounds that let something happen.
RemoteBounds == MaxSends \in Nat /\ MaxConnects \in Nat \ {0}

-----------------------------------------------------------------------------
\* Arithmetic on the lengths of two sequences one behind the other.
LEMMA Sums ==
    \A a, b \in Nat :
        /\ ~(a + b + 1 <= a) /\ (a + b + 1) - a = b + 1 /\ a + (b + 1) = (a + b) + 1
        /\ \A i \in 1..a + b : ~(i <= a) => i - a \in 1..b
        /\ \A i \in 1..a + b : i > a + 1 =>
             /\ ~(i <= a) /\ ~(i <= a + 1) /\ i - (a + 1) \in 1..b - 1 /\ (i - (a + 1)) + 1 = i - a
  OBVIOUS

\* Removing an element of a sequence leaves the others, in their order.
LEMMA Removed ==
    ASSUME NEW s \in Seq(Caller), NEW k \in 1..Len(s)
    PROVE  /\ Remote!RemoveAt(s, k) \in Seq(Caller)
           /\ Len(Remote!RemoveAt(s, k)) = Len(s) - 1
           /\ \A i \in 1..Len(s) - 1 :
                Remote!RemoveAt(s, k)[i] = IF i < k THEN s[i] ELSE s[i + 1]
<1> DEFINE a == SubSeq(s, 1, k - 1)
           b == SubSeq(s, k + 1, Len(s))
<1>1. a \in Seq(Caller) /\ Len(a) = k - 1 /\ (\A i \in 1..k - 1 : a[i] = s[i])
  BY SubSeqProperties
<1>2. b \in Seq(Caller) /\ Len(b) = Len(s) - k /\ (\A i \in 1..Len(s) - k : b[i] = s[k + i])
  BY SubSeqProperties
<1>3. /\ a \o b \in Seq(Caller) /\ Len(a \o b) = Len(a) + Len(b)
      /\ \A i \in 1..Len(a) + Len(b) :
            (a \o b)[i] = IF i <= Len(a) THEN a[i] ELSE b[i - Len(a)]
  BY <1>1, <1>2, ConcatProperties
<1>4. Remote!RemoveAt(s, k) = a \o b
  BY DEF Remote!RemoveAt
<1> HIDE DEF a, b
<1>5. ASSUME NEW i \in 1..Len(s) - 1
      PROVE  (a \o b)[i] = IF i < k THEN s[i] ELSE s[i + 1]
  <2>1. Len(s) \in Nat /\ k \in 1..Len(s) /\ i \in 1..Len(a) + Len(b)
    BY <1>1, <1>2
  <2>2. CASE i < k
    <3>1. i \in 1..k - 1 /\ i <= Len(a)
      BY <2>1, <2>2, <1>1
    <3> QED
      BY <3>1, <2>1, <2>2, <1>1, <1>3
  <2>3. CASE ~(i < k)
    <3> DEFINE n == i - Len(a)
    <3>1. n \in 1..Len(s) - k /\ k + n = i + 1 /\ ~(i <= Len(a))
      BY <2>1, <2>3, <1>1
    <3>2. (a \o b)[i] = b[n]
      BY <3>1, <2>1, <1>3
    <3>3. b[n] = s[k + n]
      BY <3>1, <1>2
    <3> QED
      BY <3>1, <3>2, <3>3, <2>3
  <2> QED
    BY <2>2, <2>3
<1>6. Len(a \o b) = Len(s) - 1
  BY <1>1, <1>2, <1>3
<1> QED
  BY <1>3, <1>4, <1>5, <1>6, Zenon

LEMMA RemoteInit == RemoteBounds /\ Remote!Init => RemoteInv
<1> SUFFICES ASSUME RemoteBounds, Remote!Init PROVE RemoteInv
  OBVIOUS
<1> USE DEF Remote!Init, RemoteBounds, Line, Caller, Asked, Remote!Connection, Remote!Request,
        Remote!Hello, Remote!NoReply, Remote!Thread
<1>1. ChannelTypes /\ CallerTypes
  BY DEF ChannelTypes, CallerTypes
<1>2. OwnRequest
  BY DEF OwnRequest
<1>4. StreamLine
  <2>1. HeldBy(1)
    BY DEF HeldBy, Alone, NewerEmpty, ReadyEmpty, PutEmpty, GetDue, Empty, Rightly
  <2> QED
    BY <2>1 DEF StreamLine
<1>3. Waits /\ InLine
  BY DEF Waits, InLine, Paired, Rightly
<1> QED
  BY <1>1, <1>2, <1>3, <1>4 DEF RemoteInv

-----------------------------------------------------------------------------
(* A client of a stream.                                                   *)

\* A call of send() takes a number that is nobody's.
LEMMA BeginsKeeps ==
    ASSUME RemoteBounds, RemoteInv, NEW t \in Caller, Remote!Begins(t), ~shared'
    PROVE  RemoteInv'
<1>1. /\ stage[t] = "idle" /\ sends < MaxSends /\ sends' = sends + 1
      /\ request' = [request EXCEPT ![t] = sends + 1]
      /\ saying' = [saying EXCEPT ![t] = sends + 1]
      /\ stage' = [stage EXCEPT ![t] = IF connected THEN "put" ELSE "connect"]
      /\ UNCHANGED <<use, connected, sock, wire, back, broken, owed, futures, outcome>>
  BY DEF Remote!Begins, Remote!Goes, Remote!channel
<1>2. /\ stage \in [Caller -> {"idle", "connect", "put", "get"}]
      /\ saying \in [Caller -> Nat] /\ request \in [Caller -> Nat]
      /\ sends \in Nat /\ sends + 1 \in 0..MaxSends
      /\ sock \in Line /\ futures \in Seq(Caller)
  BY <1>1 DEF RemoteInv, ChannelTypes, CallerTypes, RemoteBounds
<1>3. /\ stage'[t] = (IF connected THEN "put" ELSE "connect")
      /\ request'[t] = sends + 1 /\ saying'[t] = sends + 1
      /\ \A u \in Caller : u # t => /\ stage'[u] = stage[u] /\ request'[u] = request[u]
                                    /\ saying'[u] = saying[u]
  BY <1>1, <1>2
<1>4. ChannelTypes' /\ CallerTypes'
  BY <1>1, <1>2 DEF RemoteInv, ChannelTypes, CallerTypes
<1>5. OwnRequest'
  <2>1. \A u \in Caller : u # t /\ stage[u] # "idle" =>
           /\ request[u] \in 1..sends + 1 /\ request[u] # sends + 1
           /\ saying[u] \in {0, request[u]}
    BY <1>2 DEF RemoteInv, OwnRequest
  <2>2. \A u \in Caller : stage'[u] # "idle" =>
           request'[u] \in 1..sends' /\ saying'[u] \in {0, request'[u]}
    BY <1>1, <1>2, <1>3, <2>1
  <2>3. ASSUME NEW u \in Caller, NEW w \in Caller, u # w, stage'[u] # "idle", stage'[w] # "idle"
        PROVE  request'[u] # request'[w]
    <3>1. CASE u # t /\ w # t
      BY <1>3, <2>3, <3>1 DEF RemoteInv, OwnRequest
    <3>2. CASE u = t \/ w = t
      BY <1>3, <2>1, <2>3, <3>2
    <3> QED
      BY <3>1, <3>2
  <2> QED
    BY <2>2, <2>3 DEF OwnRequest
<1>6. StreamLine'
  <2> SUFFICES ASSUME ~Remote!By("webrtc") PROVE StreamLine'
    BY <1>1 DEF StreamLine, Remote!By
  <2>1. \A u \in Caller : stage[u] = "idle"
    BY DEF Remote!Begins, Remote!Thread, Caller
  <2>2. PICK s \in Caller : HeldBy(s)
    BY DEF RemoteInv, StreamLine
  <2>3. NewerEmpty /\ Rightly /\ (connected => Empty(sock))
    BY <2>1, <2>2 DEF HeldBy, ReadyEmpty
  <2>4. \A c \in Line : Empty(c) = Empty(c)'
    BY <1>1 DEF Empty
  <2>5. Alone(t)' /\ stage'[t] = (IF connected THEN "put" ELSE "connect")
    BY <1>3, <2>1 DEF Alone
  <2>6. NewerEmpty' /\ Rightly' /\ (connected => Empty(sock)')
    BY <1>1, <1>2, <2>3, <2>4 DEF NewerEmpty, Rightly
  <2>7. HeldBy(t)'
    BY <2>5, <2>6 DEF HeldBy, ReadyEmpty, PutEmpty, GetDue
  <2> QED
    BY <2>7 DEF StreamLine
<1>7. Remote!By("webrtc") => \A i \in 1..Len(futures) : futures[i] \in Caller /\ futures[i] # t
  BY <1>1, <1>2 DEF RemoteInv, Waits
<1>8. Waits'
  BY <1>1, <1>3, <1>7 DEF RemoteInv, Waits, Remote!By
<1>9. InLine'
  <2>1. ASSUME NEW m \in Asked, Remote!GivenUp(m) PROVE Remote!GivenUp(m)'
    <3>1. m <= sends /\ outcome[m] = -1 /\ m \in Int
          /\ \A u \in Caller : stage[u] = "idle" \/ request[u] # m
      BY <2>1 DEF Remote!GivenUp, Remote!NoReply, Remote!Thread, Caller, Asked, Remote!Request
    <3>2. m <= sends + 1 /\ sends + 1 # m
      BY <1>2, <3>1
    <3> QED
      BY <1>1, <1>3, <3>1, <3>2 DEF Remote!GivenUp, Remote!NoReply, Remote!Thread, Caller
  <2>2. ASSUME Remote!By("webrtc"), Paired PROVE Paired'
    <3>1. UNCHANGED <<back, wire, futures, sock>>
      BY <1>1
    <3>2. \A i \in 1..Len(futures) : request'[futures[i]] = request[futures[i]]
      BY <1>3, <1>7, <2>2
    <3>3. \A i : Nth(i)' = Nth(i)
      BY <3>1 DEF Nth
    <3> QED
      BY <2>2, <3>1, <3>2, <3>3 DEF Paired
  <2>3. Rightly => Rightly'
    BY <1>1 DEF Rightly
  <2> QED
    BY <1>1, <2>1, <2>2, <2>3 DEF RemoteInv, InLine, Remote!By
<1> QED
  BY <1>4, <1>5, <1>6, <1>8, <1>9 DEF RemoteInv

\* The invariant of a stream that t holds.
LineInv(t) ==
    /\ ChannelTypes /\ CallerTypes /\ OwnRequest
    /\ use.by # "webrtc" /\ HeldBy(t)

LEMMA LineIsStream ==
    /\ RemoteInv /\ ~Remote!By("webrtc") => \E t \in Caller : LineInv(t)
    /\ \A t \in Caller : LineInv(t) => RemoteInv
  BY DEF RemoteInv, LineInv, StreamLine, Waits, InLine, Remote!By

\* The same of the next state.
LEMMA NextLineIsStream == (\E t \in Caller : LineInv(t)') => RemoteInv'
  BY DEF RemoteInv, LineInv, StreamLine, Waits, InLine, Remote!By

\* A connection is made, or not: the new one carries nothing.
LEMMA DialsKeep ==
    ASSUME RemoteBounds, NEW t \in Caller, LineInv(t), Remote!Dials(t),
           sock < MaxConnects, connected' \in BOOLEAN, stage[t] = "connect", UNCHANGED <<use, wire, back, owed, futures, sends>>
    PROVE  LineInv(t)'
<1> USE DEF Alone, Line, Caller, Remote!Connection, Remote!Hello, Remote!Goes, Remote!Dials
<1>1. ChannelTypes' /\ CallerTypes'
  BY DEF LineInv, HeldBy, ChannelTypes, CallerTypes, Asked, RemoteBounds
<1>2. stage'[t] = "put" /\ Alone(t)' /\ sock' = sock + 1 /\ sock' \in Line /\ sock \in Line
  BY <1>1 DEF LineInv, HeldBy, ChannelTypes, CallerTypes
<1>3. OwnRequest'
  BY <1>1, <1>2 DEF LineInv, HeldBy, OwnRequest, CallerTypes
<1>4. NewerEmpty' /\ Empty(sock)'
  BY <1>2 DEF LineInv, HeldBy, NewerEmpty, Empty
<1> QED
  BY <1>1, <1>2, <1>3, <1>4 DEF LineInv, HeldBy, ReadyEmpty, PutEmpty, GetDue, Rightly

\* A send that fails closes the connection.
LEMMA DropsKeep ==
    ASSUME RemoteBounds, NEW t \in Caller, LineInv(t), Remote!Returns(t, -1),
           connected' = FALSE, stage[t] # "idle", UNCHANGED <<use, sock, wire, back, owed, futures, sends>>
    PROVE  LineInv(t)'
<1> USE DEF Alone, Line, Caller, Remote!Connection, Remote!Goes, Remote!Returns
<1>1. request[t] \in Asked
  BY DEF LineInv, HeldBy, OwnRequest, CallerTypes, Asked, Remote!Request, RemoteBounds
<1>2. ChannelTypes' /\ CallerTypes'
  <2>1. outcome' \in [Asked -> Int]
    BY <1>1 DEF LineInv, HeldBy, CallerTypes
  <2>2. stage' \in [Caller -> {"idle", "connect", "put", "get"}]
    BY DEF LineInv, HeldBy, CallerTypes
  <2> QED
    BY <2>1, <2>2 DEF LineInv, HeldBy, ChannelTypes, CallerTypes
<1>3. stage'[t] = "idle" /\ Alone(t)'
  BY DEF LineInv, HeldBy, CallerTypes
<1>4. OwnRequest'
  BY <1>3 DEF OwnRequest
<1>5. NewerEmpty'
  BY DEF LineInv, HeldBy, NewerEmpty, Empty
<1>6. Rightly'
  BY <1>1 DEF LineInv, HeldBy, CallerTypes, Rightly
<1> QED
  BY <1>2, <1>3, <1>4, <1>5, <1>6 DEF LineInv, HeldBy, ReadyEmpty, PutEmpty, GetDue

\* What is sent is the only message on the connection.
LEMMA PutsKeep ==
    ASSUME RemoteBounds, NEW t \in Caller, LineInv(t), Remote!Puts(t), UNCHANGED futures,
           IF use.by = "zmq" THEN sock \notin owed /\ owed' = owed \cup {sock} ELSE owed' = owed
    PROVE  LineInv(t)'
<1> USE DEF Alone, Line, Caller, Remote!Connection, Remote!Goes
<1>1. /\ stage[t] = "put" /\ stage' = [stage EXCEPT ![t] = "get"]
      /\ UNCHANGED <<use, connected, sock, back, broken, saying, request, sends, outcome>>
      /\ Remote!Carry(t)
  BY DEF Remote!Puts
<1>2. sock \in Line /\ wire \in [Line -> Seq(Nat)] /\ back \in [Line -> Seq(Nat)]
      /\ saying[t] \in Nat
  BY DEF LineInv, HeldBy, ChannelTypes, CallerTypes
<1>3. \A c \in Line : c # sock => wire'[c] = wire[c]
  BY <1>1, <1>2 DEF Remote!Carry
<1>4. wire'[sock] \in {wire[sock], Append(wire[sock], saying[t])}
  BY <1>1, <1>2 DEF Remote!Carry
<1>5. wire' \in [Line -> Seq(Nat)]
  BY <1>1, <1>2 DEF Remote!Carry
<1>6. ChannelTypes' /\ CallerTypes'
  BY <1>1, <1>5 DEF LineInv, HeldBy, ChannelTypes, CallerTypes
<1>7. stage'[t] = "get" /\ Alone(t)'
  BY <1>1 DEF LineInv, HeldBy, CallerTypes
<1>8. OwnRequest'
  BY <1>1, <1>7 DEF LineInv, HeldBy, OwnRequest
<1>9. Empty(sock)
  BY <1>1 DEF LineInv, HeldBy, PutEmpty
<1>10. OneDue(t)'
  <2>1. CASE wire'[sock] = wire[sock]
    BY <1>1, <1>2, <1>9, <2>1 DEF OneDue, Empty
  <2>2. CASE wire'[sock] = Append(wire[sock], saying[t])
    <3>1. Len(wire'[sock]) = 1 /\ wire'[sock][1] = saying[t]
      BY <1>2, <1>9, <2>2 DEF Empty
    <3>2. Len(back'[sock']) = 0 /\ sock' = sock /\ saying' = saying
      BY <1>1, <1>9 DEF Empty
    <3>3. Len((wire[sock])') = 1 /\ Len((back[sock])') = 0 /\ (wire[sock])'[1] = saying'[t]
      BY <3>1, <3>2
    <3>4. \A i \in 1..Len((wire[sock])') : (wire[sock])'[i] = saying'[t]
      BY <3>3
    <3>5. \A i \in 1..Len((back[sock])') : (back[sock])'[i] = saying'[t]
      BY <3>3
    <3>6. Len((wire[sock])') + Len((back[sock])') <= 1
      BY <3>3
    <3> QED
      BY <3>4, <3>5, <3>6 DEF OneDue
  <2> QED
    BY <1>4, <2>1, <2>2
<1>11. NewerEmpty'
  BY <1>1, <1>2, <1>3 DEF LineInv, HeldBy, NewerEmpty, Empty
<1>12. use.by = "zmq" => sock' \in owed'
  BY <1>1
<1> QED
  BY <1>1, <1>6, <1>7, <1>8, <1>10, <1>11, <1>12
  DEF LineInv, HeldBy, ReadyEmpty, PutEmpty, GetDue, Rightly

\* The reply is that of what was said.
LEMMA GetsKeep ==
    ASSUME RemoteBounds, NEW t \in Caller, LineInv(t), Remote!Gets(t)
    PROVE  LineInv(t)'
<1> USE DEF Alone, Line, Caller, Remote!Connection, Remote!Goes
<1>1. /\ stage[t] = "get" /\ back[sock] # << >> /\ back' = [back EXCEPT ![sock] = Tail(@)]
      /\ \/ /\ saying[t] = 0 /\ saying' = [saying EXCEPT ![t] = request[t]]
            /\ stage' = [stage EXCEPT ![t] = "put"] /\ UNCHANGED <<request, outcome>>
         \/ /\ saying[t] # 0 /\ outcome' = [outcome EXCEPT ![request[t]] = Head(back[sock])]
            /\ stage' = [stage EXCEPT ![t] = "idle"] /\ UNCHANGED <<saying, request>>
      /\ connected' = TRUE /\ UNCHANGED <<use, sock, wire, sends>>
  BY DEF Remote!Gets, Remote!Returns, Remote!Hello
<1>2. sock \in Line /\ wire \in [Line -> Seq(Nat)] /\ back \in [Line -> Seq(Nat)]
  BY DEF LineInv, HeldBy, ChannelTypes
<1>3. request[t] \in Asked /\ request[t] \in Nat /\ saying[t] \in {0, request[t]}
  BY <1>1 DEF LineInv, HeldBy, OwnRequest, CallerTypes, Asked, Remote!Request, RemoteBounds
<1>4. /\ Len(back[sock]) = 1 /\ Len(wire[sock]) = 0 /\ back[sock][1] = saying[t]
      /\ Head(back[sock]) = saying[t] /\ Tail(back[sock]) \in Seq(Nat)
      /\ Len(Tail(back[sock])) = 0
  <2>1. Len(back[sock]) # 0 /\ Len(back[sock]) \in Nat /\ Len(wire[sock]) \in Nat
    BY <1>1, <1>2, EmptySeq
  <2>2. OneDue(t)
    BY <1>1 DEF LineInv, HeldBy, GetDue
  <2>3. Len(back[sock]) = 1 /\ Len(wire[sock]) = 0
    <3>1. Len(wire[sock]) + Len(back[sock]) <= 1
      BY <2>2 DEF OneDue
    <3>2. \A a, b \in Nat : b + a <= 1 /\ a # 0 => a = 1 /\ b = 0
      OBVIOUS
    <3> QED
      BY <2>1, <3>1, <3>2
  <2>4. back[sock][1] = saying[t]
    BY <2>2, <2>3 DEF OneDue
  <2>5. Head(back[sock]) = back[sock][1]
    BY <1>1, <1>2
  <2>6. Tail(back[sock]) \in Seq(Nat) /\ Len(Tail(back[sock])) = 0
    BY <2>3, <1>1, <1>2, HeadTailProperties
  <2> QED
    BY <2>3, <2>4, <2>5, <2>6
<1>5. back' \in [Line -> Seq(Nat)]
  BY <1>1, <1>2, <1>4
<1>6. Empty(sock)'
  BY <1>1, <1>2, <1>4 DEF Empty
<1>7. NewerEmpty'
  BY <1>1, <1>2 DEF LineInv, HeldBy, NewerEmpty, Empty
<1>8. Alone(t)' /\ stage'[t] \in {"put", "idle"}
  BY <1>1 DEF LineInv, HeldBy, CallerTypes
<1>9. ChannelTypes' /\ CallerTypes'
  <2>1. CASE saying[t] = 0
    <3>1. saying' = [saying EXCEPT ![t] = request[t]] /\ stage' = [stage EXCEPT ![t] = "put"]
      BY <1>1, <2>1
    <3>2. request' = request /\ outcome' = outcome /\ futures' = futures
      BY <1>1, <2>1 DEF Remote!Gets
    <3> QED
      BY <1>1, <1>3, <1>5, <3>1, <3>2 DEF LineInv, HeldBy, ChannelTypes, CallerTypes
  <2>2. CASE saying[t] # 0
    <3>1. Head(back[sock]) \in Int /\ request[t] \in Asked
      BY <1>3, <1>4
    <3>2. outcome' \in [Asked -> Int]
      BY <1>1, <2>2, <3>1 DEF LineInv, HeldBy, CallerTypes
    <3>3. futures' = futures
      BY DEF Remote!Gets
    <3> QED
      BY <1>1, <1>5, <2>2, <3>2, <3>3 DEF LineInv, HeldBy, ChannelTypes, CallerTypes
  <2> QED
    BY <2>1, <2>2
<1>10. OwnRequest'
  BY <1>1, <1>8, <1>9 DEF LineInv, HeldBy, OwnRequest, CallerTypes
<1>11. Rightly'
  BY <1>1, <1>3, <1>4 DEF LineInv, HeldBy, Rightly, CallerTypes
<1> QED
  BY <1>1, <1>6, <1>7, <1>8, <1>9, <1>10, <1>11 DEF LineInv, HeldBy, ReadyEmpty, PutEmpty, GetDue

\* A ZeroMQ client whose "hello" failed goes on, to find that a reply is due.
LEMMA HelloKeeps ==
    ASSUME RemoteBounds, NEW t \in Caller, LineInv(t), use.by = "zmq",
           stage[t] = "get" \/ (stage[t] = "put" /\ sock \in owed),
           saying' = [saying EXCEPT ![t] = request[t]], Remote!Goes(t, "put"), connected' = TRUE,
           UNCHANGED <<use, sock, wire, back, owed, futures, sends, request, outcome>>
    PROVE  LineInv(t)'
<1> USE DEF Alone, Line, Caller, Remote!Connection, Remote!Goes
<1>1. ChannelTypes' /\ CallerTypes'
  BY DEF LineInv, HeldBy, ChannelTypes, CallerTypes
<1>2. stage'[t] = "put" /\ Alone(t)' /\ sock \in owed
  BY DEF LineInv, HeldBy, CallerTypes, GetDue
<1>3. OwnRequest'
  BY <1>2 DEF LineInv, HeldBy, CallerTypes, OwnRequest
<1>4. NewerEmpty'
  BY DEF LineInv, HeldBy, NewerEmpty, Empty
<1> QED
  BY <1>1, <1>2, <1>3, <1>4 DEF LineInv, HeldBy, ReadyEmpty, PutEmpty, GetDue, Rightly

\* What a thread does with its stream.
LEMMA StreamsKeep ==
    ASSUME RemoteBounds, RemoteInv, NEW t \in Caller,
           Remote!TcpConnects(t) \/ Remote!WebSocketConnects(t) \/ Remote!ZmqConnects(t)
              \/ Remote!TcpSends(t) \/ Remote!WebSocketSends(t) \/ Remote!ZmqSends(t)
    PROVE  RemoteInv'
<1>1. use.by \in {"tcp", "websocket", "zmq"} /\ stage[t] # "idle"
  BY DEF Remote!TcpConnects, Remote!WebSocketConnects, Remote!ZmqConnects, Remote!TcpSends,
     Remote!WebSocketSends, Remote!ZmqSends, Remote!Opens, Remote!Puts, Remote!Gets, Remote!By
<1>0. PICK s \in Caller : LineInv(s)
  BY <1>1, LineIsStream DEF Remote!By
<1>3. s = t
  BY <1>0, <1>1 DEF LineInv, HeldBy, Alone
<1>2. LineInv(t)
  BY <1>0, <1>3
<1> SUFFICES LineInv(t)'
  BY NextLineIsStream
<1>4. CASE Remote!TcpConnects(t) \/ Remote!WebSocketConnects(t) \/ Remote!ZmqConnects(t)
  BY <1>1, <1>2, <1>4, DialsKeep, DropsKeep
  DEF Remote!TcpConnects, Remote!WebSocketConnects, Remote!ZmqConnects, Remote!Opens,
      Remote!channel, Remote!NoReply, Remote!Goes, LineInv, HeldBy, ChannelTypes
<1>5. ASSUME Remote!Puts(t) /\ futures' = futures
             /\ IF use.by = "zmq" THEN sock \notin owed /\ owed' = owed \cup {sock} ELSE owed' = owed
      PROVE  LineInv(t)'
  BY <1>2, <1>5, PutsKeep
<1>6. ASSUME Remote!Gets(t)
      PROVE  LineInv(t)'
  BY <1>2, <1>6, GetsKeep
<1>7. ASSUME Remote!DropsConnection(t),
             UNCHANGED <<use, sock, wire, back, broken, owed, futures, sends>>
      PROVE  LineInv(t)'
  BY <1>1, <1>2, <1>7, DropsKeep DEF Remote!DropsConnection, Remote!NoReply
<1>8. ASSUME use.by = "zmq", stage[t] = "get" \/ (stage[t] = "put" /\ sock \in owed),
             saying' = [saying EXCEPT ![t] = request[t]], Remote!Goes(t, "put"), connected' = TRUE,
             UNCHANGED <<use, sock, wire, back, owed, futures, sends, request, outcome>>
      PROVE  LineInv(t)'
  BY <1>2, <1>8, HelloKeeps
<1>9. CASE Remote!TcpSends(t)
  BY <1>5, <1>6, <1>7, <1>9 DEF Remote!TcpSends, Remote!channel, Remote!By
<1>10. CASE Remote!WebSocketSends(t)
  BY <1>5, <1>6, <1>7, <1>10 DEF Remote!WebSocketSends, Remote!channel, Remote!By
<1>11. CASE Remote!ZmqSends(t)
  BY <1>5, <1>6, <1>7, <1>8, <1>11 DEF Remote!ZmqSends, Remote!channel, Remote!By
<1> QED
  BY <1>4, <1>9, <1>10, <1>11

-----------------------------------------------------------------------------
(* The data channel.                                                       *)

\* The same for the data channel: the parts of Waits and InLine.
Wait ==
    /\ sock \notin broken
    /\ \A i \in 1..Len(futures) : stage[futures[i]] = "get"
    /\ \A i, j \in 1..Len(futures) : i # j => futures[i] # futures[j]
    /\ \A t \in Caller : stage[t] # "idle" => saying[t] = request[t]
GaveUp == \E m \in Asked : Remote!GivenUp(m)
ChannelInv ==
    /\ ChannelTypes /\ CallerTypes /\ OwnRequest
    /\ use.by = "webrtc"
    /\ Wait /\ (GaveUp \/ (Paired /\ Rightly))

LEMMA ChannelIsRemote == RemoteInv /\ Remote!By("webrtc") => ChannelInv
  BY DEF RemoteInv, ChannelInv, Wait, Waits, InLine, GaveUp, Remote!By

\* What is sent comes last on the channel, and its future last in the list.
LEMMA RtcSendsKeep ==
    ASSUME RemoteBounds, ChannelInv, NEW t \in Caller, Remote!RtcSends(t)
    PROVE  ChannelInv'
<1> USE DEF Remote!Goes
<1>1. /\ stage[t] = "put" /\ stage' = [stage EXCEPT ![t] = "get"]
      /\ futures' = Append(futures, t) /\ Remote!Carry(t)
      /\ UNCHANGED <<use, connected, sock, back, broken, owed, saying, request, sends, outcome>>
  BY DEF Remote!RtcSends, Remote!Puts
<1>2. /\ sock \in Line /\ wire \in [Line -> Seq(Nat)] /\ back \in [Line -> Seq(Nat)]
      /\ futures \in Seq(Caller) /\ saying[t] \in Nat /\ saying[t] = request[t]
      /\ stage \in [Caller -> {"idle", "connect", "put", "get"}] /\ sock \notin broken
  BY <1>1 DEF ChannelInv, ChannelTypes, CallerTypes, Wait
<1>3. wire' = [wire EXCEPT ![sock] = Append(@, saying[t])]
  BY <1>1, <1>2 DEF Remote!Carry
<1>4. wire'[sock] = Append(wire[sock], saying[t]) /\ wire' \in [Line -> Seq(Nat)]
  BY <1>2, <1>3
<1>5. ChannelTypes' /\ CallerTypes'
  BY <1>1, <1>2, <1>4 DEF ChannelInv, ChannelTypes, CallerTypes
<1>6. \A u \in Caller : stage'[u] # "idle" => stage[u] # "idle"
  BY <1>1, <1>2
<1>7. OwnRequest'
  BY <1>1, <1>6 DEF ChannelInv, OwnRequest
<1>8. /\ Len(futures') = Len(futures) + 1 /\ futures'[Len(futures) + 1] = t
      /\ \A i \in 1..Len(futures) : futures'[i] = futures[i] /\ futures[i] # t
      /\ Len(futures) \in Nat
  BY <1>1, <1>2 DEF ChannelInv, Wait
<1>9. Wait'
  <2>1. \A i \in 1..Len(futures') : i \in 1..Len(futures) \/ i = Len(futures) + 1
    BY <1>8
  <2>2. \A i \in 1..Len(futures') : stage'[futures'[i]] = "get"
    BY <1>1, <1>2, <1>8, <2>1 DEF ChannelInv, Wait
  <2>3. \A i, j \in 1..Len(futures') : i # j => futures'[i] # futures'[j]
    BY <1>8, <2>1 DEF ChannelInv, Wait
  <2> QED
    BY <1>1, <1>6, <2>2, <2>3 DEF ChannelInv, Wait
<1>10. GaveUp => GaveUp'
  BY <1>1, <1>2 DEF GaveUp, Remote!GivenUp, Remote!Thread, Caller
<1>11. Paired => Paired'
  <2> SUFFICES ASSUME Paired PROVE Paired'
    OBVIOUS
  <2>1. Len(wire[sock]) \in Nat /\ Len(back[sock]) \in Nat
    BY <1>2
  <2>2. /\ Len(wire'[sock]) = Len(wire[sock]) + 1
        /\ wire'[sock][Len(wire[sock]) + 1] = request[t]
        /\ \A i \in 1..Len(wire[sock]) : wire'[sock][i] = wire[sock][i]
    BY <1>2, <1>4
  <2>3. Len(back[sock]) + Len(wire[sock]) = Len(futures)
    BY DEF Paired
  <2>4. ASSUME NEW i \in 1..Len(futures') PROVE Nth(i)' = request'[futures'[i]]
    <3>1. CASE i = Len(futures) + 1
      <4>1. ~(i <= Len(back[sock])) /\ i - Len(back[sock]) = Len(wire[sock]) + 1
        BY <2>1, <2>3, <3>1, Sums
      <4>2. Nth(i)' = wire'[sock][Len(wire[sock]) + 1]
        BY <1>1, <4>1 DEF Nth
      <4> QED
        BY <1>1, <1>8, <2>2, <3>1, <4>2
    <3>2. CASE i \in 1..Len(futures)
      <4>1. Nth(i)' = Nth(i)
        <5>1. CASE i <= Len(back[sock])
          BY <1>1, <5>1 DEF Nth
        <5>2. CASE ~(i <= Len(back[sock]))
          <6>1. i - Len(back[sock]) \in 1..Len(wire[sock])
            BY <2>1, <2>3, <3>2, <5>2, Sums
          <6> QED
            BY <1>1, <2>2, <5>2, <6>1 DEF Nth
        <5> QED
          BY <5>1, <5>2
      <4> QED
        BY <1>1, <1>8, <3>2, <4>1 DEF Paired
    <3> QED
      BY <1>8, <3>1, <3>2
  <2>5. Len(back'[sock]) + Len(wire'[sock]) = Len(futures')
    BY <1>1, <1>8, <2>1, <2>2, <2>3, Sums
  <2> QED
    BY <1>1, <2>4, <2>5 DEF Paired
<1> QED
  BY <1>1, <1>5, <1>7, <1>9, <1>10, <1>11 DEF ChannelInv, Rightly

\* A reply goes to whoever has waited longest.
LEMMA RtcMessageKeeps ==
    ASSUME RemoteBounds, ChannelInv, Remote!RtcMessage
    PROVE  ChannelInv'
<1> USE DEF Remote!Goes
<1>1. /\ back[sock] # << >> /\ back' = [back EXCEPT ![sock] = Tail(@)]
      /\ UNCHANGED <<use, connected, sock, wire, broken, owed, sends>>
  BY DEF Remote!RtcMessage
<1>2. /\ sock \in Line /\ wire \in [Line -> Seq(Nat)] /\ back \in [Line -> Seq(Nat)]
      /\ futures \in Seq(Caller) /\ outcome \in [Asked -> Int]
      /\ stage \in [Caller -> {"idle", "connect", "put", "get"}] /\ request \in [Caller -> Nat]
  BY DEF ChannelInv, ChannelTypes, CallerTypes
<1>3. /\ Len(back[sock]) \in Nat \ {0} /\ Head(back[sock]) = back[sock][1]
      /\ Head(back[sock]) \in Nat /\ Tail(back[sock]) \in Seq(Nat)
      /\ Len(Tail(back[sock])) = Len(back[sock]) - 1
      /\ \A i \in 1..Len(back[sock]) - 1 : Tail(back[sock])[i] = back[sock][i + 1]
  BY <1>1, <1>2, EmptySeq, HeadTailProperties
<1>4. back' \in [Line -> Seq(Nat)] /\ back'[sock] = Tail(back[sock])
  BY <1>1, <1>2, <1>3
<1>5. CASE futures = << >>
  <2>1. UNCHANGED <<futures, stage, saying, request, outcome>>
    BY <1>5 DEF Remote!RtcMessage, Remote!caller
  <2>2. ChannelTypes' /\ CallerTypes' /\ OwnRequest' /\ Wait'
    BY <1>1, <1>4, <2>1 DEF ChannelInv, ChannelTypes, CallerTypes, OwnRequest, Wait
  <2>3. ~Paired
    <3>1. Len(futures) = 0 /\ Len(wire[sock]) \in Nat
      BY <1>2, <1>5
    <3>2. \A a, b \in Nat : a # 0 => a + b # 0
      OBVIOUS
    <3>3. Len(back[sock]) + Len(wire[sock]) # 0
      BY <1>3, <3>1, <3>2
    <3> QED
      BY <3>1, <3>3 DEF Paired
  <2>4. GaveUp'
    BY <1>1, <2>1, <2>3 DEF ChannelInv, GaveUp, Remote!GivenUp
  <2> QED
    BY <1>1, <2>2, <2>4 DEF ChannelInv
<1>6. CASE futures # << >>
  <2> DEFINE t == Head(futures)
  <2>1. /\ Len(futures) \in Nat \ {0} /\ t = futures[1] /\ t \in Caller
        /\ Tail(futures) \in Seq(Caller) /\ Len(Tail(futures)) = Len(futures) - 1
        /\ \A i \in 1..Len(futures) - 1 : Tail(futures)[i] = futures[i + 1]
    BY <1>2, <1>6, EmptySeq, HeadTailProperties
  <2>2. futures' = Tail(futures) /\ Remote!Returns(t, Head(back[sock]))
    BY <1>6 DEF Remote!RtcMessage
  <2> HIDE DEF t
  <2>3. /\ outcome' = [outcome EXCEPT ![request[t]] = Head(back[sock])]
        /\ stage' = [stage EXCEPT ![t] = "idle"] /\ UNCHANGED <<saying, request>>
    BY <2>2 DEF Remote!Returns
  <2>4. stage[t] = "get" /\ request[t] \in Asked
    <3>1. stage[t] = "get"
      BY <2>1 DEF ChannelInv, Wait
    <3> QED
      BY <3>1, <2>1 DEF ChannelInv, OwnRequest, CallerTypes, Asked, Remote!Request, RemoteBounds
  <2>5. ChannelTypes' /\ CallerTypes'
    <3>1. outcome' \in [Asked -> Int]
      BY <1>2, <1>3, <2>3, <2>4
    <3>2. stage' \in [Caller -> {"idle", "connect", "put", "get"}]
      BY <1>2, <2>3
    <3> QED
      BY <1>1, <1>4, <2>1, <2>2, <2>3, <3>1, <3>2 DEF ChannelInv, ChannelTypes, CallerTypes
  <2>6. \A u \in Caller : /\ stage'[u] # "idle" => stage[u] # "idle"
                          /\ u # t => stage'[u] = stage[u]
    BY <1>2, <2>3
  <2>7. OwnRequest'
    BY <1>1, <2>3, <2>6 DEF ChannelInv, OwnRequest
  <2>8. \A i \in 1..Len(futures') : /\ i + 1 \in 1..Len(futures) /\ futures'[i] = futures[i + 1]
                                    /\ futures'[i] # t /\ futures'[i] \in Caller
    <3>1. \A i \in 1..Len(futures) - 1 : i + 1 \in 1..Len(futures) /\ 1 \in 1..Len(futures)
             /\ i + 1 # 1
      BY <2>1
    <3>2. \A i \in 1..Len(futures) - 1 : futures[i + 1] # futures[1]
      BY <3>1 DEF ChannelInv, Wait
    <3>3. \A i \in 1..Len(futures) : futures[i] \in Caller
      BY <1>2
    <3> QED
      BY <2>1, <2>2, <3>1, <3>2, <3>3
  <2>9. Wait'
    <3>1. \A i \in 1..Len(futures') : stage'[futures'[i]] = "get"
      BY <2>6, <2>8 DEF ChannelInv, Wait
    <3>2. \A i, j \in 1..Len(futures') : i # j => futures'[i] # futures'[j]
      <4>1. \A i, j \in 1..Len(futures') : i # j => i + 1 # j + 1
        BY <2>1, <2>2
      <4> QED
        BY <2>8, <4>1 DEF ChannelInv, Wait
    <3> QED
      BY <1>1, <2>3, <2>6, <3>1, <3>2 DEF ChannelInv, Wait
  <2>10. GaveUp => GaveUp'
    <3> SUFFICES ASSUME NEW m \in Asked, Remote!GivenUp(m) PROVE Remote!GivenUp(m)'
      BY DEF GaveUp
    <3>1. request[t] # m
      BY <2>1, <2>4 DEF Remote!GivenUp, Remote!Thread, Caller
    <3> QED
      BY <1>1, <1>2, <2>3, <2>6, <3>1 DEF Remote!GivenUp, Remote!Thread, Caller
  <2>11. Paired => Paired'
    <3> SUFFICES ASSUME Paired PROVE Paired'
      OBVIOUS
    <3>1. Len(wire[sock]) \in Nat /\ Len(back[sock]) + Len(wire[sock]) = Len(futures)
      BY <1>2 DEF Paired
    <3>2. ASSUME NEW i \in 1..Len(futures') PROVE Nth(i)' = request'[futures'[i]]
      <4>1. Nth(i)' = Nth(i + 1)
        BY <1>1, <1>3, <1>4, <2>1, <2>2, <3>1 DEF Nth
      <4> QED
        BY <2>3, <2>8, <4>1 DEF Paired
    <3> QED
      BY <1>1, <1>3, <1>4, <2>1, <2>2, <3>1, <3>2 DEF Paired
  <2>12. Paired /\ Rightly => Rightly'
    <3> SUFFICES ASSUME Paired, Rightly PROVE Rightly'
      OBVIOUS
    <3>1. 1 \in 1..Len(futures) /\ 1 <= Len(back[sock])
      BY <1>3, <2>1
    <3>2. Nth(1) = request[t]
      BY <2>1, <3>1 DEF Paired
    <3>3. Head(back[sock]) = request[t]
      BY <1>3, <3>1, <3>2 DEF Nth
    <3> QED
      BY <1>2, <2>3, <2>4, <3>3 DEF Rightly
  <2> QED
    BY <1>1, <2>5, <2>7, <2>9, <2>10, <2>11, <2>12 DEF ChannelInv
<1> QED
  BY <1>5, <1>6

\* Who gives up has a request that is never answered.
LEMMA RtcTimesOutKeeps ==
    ASSUME RemoteBounds, ChannelInv, NEW t \in Caller, Remote!RtcTimesOut(t)
    PROVE  ChannelInv'
<1> USE DEF Remote!Goes
<1>1. PICK k \in DOMAIN futures : futures[k] = t /\ futures' = Remote!RemoveAt(futures, k)
  BY DEF Remote!RtcTimesOut
<1>2. /\ stage[t] = "get" /\ outcome' = [outcome EXCEPT ![request[t]] = -1]
      /\ stage' = [stage EXCEPT ![t] = "idle"] /\ UNCHANGED <<saying, request>>
      /\ UNCHANGED <<use, connected, sock, wire, back, broken, owed, sends>>
  BY DEF Remote!RtcTimesOut, Remote!Returns, Remote!NoReply, Remote!channel
<1>3. /\ futures \in Seq(Caller) /\ k \in 1..Len(futures) /\ Len(futures) \in Nat
      /\ stage \in [Caller -> {"idle", "connect", "put", "get"}] /\ outcome \in [Asked -> Int]
      /\ request \in [Caller -> Nat]
  BY DEF ChannelInv, CallerTypes
<1>4. /\ futures' \in Seq(Caller) /\ Len(futures') = Len(futures) - 1
      /\ \A i \in 1..Len(futures) - 1 :
            futures'[i] = IF i < k THEN futures[i] ELSE futures[i + 1]
  BY <1>1, <1>3, Removed
<1>5. request[t] \in Asked /\ request[t] <= sends
  BY <1>2 DEF ChannelInv, OwnRequest, CallerTypes, Asked, Remote!Request, RemoteBounds
<1>6. ChannelTypes' /\ CallerTypes'
  <2>1. outcome' \in [Asked -> Int]
    BY <1>2, <1>3, <1>5
  <2>2. stage' \in [Caller -> {"idle", "connect", "put", "get"}]
    BY <1>2, <1>3
  <2> QED
    BY <1>2, <1>4, <2>1, <2>2 DEF ChannelInv, ChannelTypes, CallerTypes
<1>7. \A u \in Caller : /\ stage'[u] # "idle" => stage[u] # "idle"
                        /\ u # t => stage'[u] = stage[u]
  BY <1>2, <1>3
<1>8. OwnRequest'
  BY <1>2, <1>7 DEF ChannelInv, OwnRequest
<1>9. \A i \in 1..Len(futures') : \E n \in 1..Len(futures) :
         n # k /\ futures'[i] = futures[n] /\ n = IF i < k THEN i ELSE i + 1
  <2> TAKE i \in 1..Len(futures')
  <2>1. i \in 1..Len(futures) - 1
    BY <1>4
  <2>2. CASE i < k
    <3>1. i \in 1..Len(futures) /\ i # k
      BY <1>3, <2>1, <2>2
    <3>2. futures'[i] = futures[i]
      BY <1>4, <2>1, <2>2
    <3> QED
      BY <3>1, <3>2, <2>2
  <2>3. CASE ~(i < k)
    <3>1. i + 1 \in 1..Len(futures) /\ i + 1 # k /\ futures'[i] = futures[i + 1]
      BY <1>3, <1>4, <2>1, <2>3
    <3> QED
      BY <3>1, <2>3
  <2> QED
    BY <2>2, <2>3
<1>10. Wait'
  <2>1. \A i \in 1..Len(futures') : stage'[futures'[i]] = "get"
    <3> TAKE i \in 1..Len(futures')
    <3>1. PICK n \in 1..Len(futures) : n # k /\ futures'[i] = futures[n]
      BY <1>9
    <3>2. futures[n] # t /\ futures[n] \in Caller /\ stage[futures[n]] = "get"
      BY <1>1, <1>3, <3>1 DEF ChannelInv, Wait
    <3> QED
      BY <1>7, <3>1, <3>2
  <2>2. \A i, j \in 1..Len(futures') : i # j => futures'[i] # futures'[j]
    <3> SUFFICES ASSUME NEW i \in 1..Len(futures'), NEW j \in 1..Len(futures'), i # j
                 PROVE  futures'[i] # futures'[j]
      OBVIOUS
    <3>1. PICK n \in 1..Len(futures) : futures'[i] = futures[n] /\ n = IF i < k THEN i ELSE i + 1
      BY <1>9
    <3>2. PICK m \in 1..Len(futures) : futures'[j] = futures[m] /\ m = IF j < k THEN j ELSE j + 1
      BY <1>9
    <3>3. \A a, b, c \in Int : a # b =>
             (IF a < c THEN a ELSE a + 1) # (IF b < c THEN b ELSE b + 1)
      OBVIOUS
    <3>4. i \in Int /\ j \in Int /\ k \in Int
      BY <1>3, <1>4
    <3>5. n # m
      BY <3>1, <3>2, <3>3, <3>4
    <3> QED
      BY <3>1, <3>2, <3>5 DEF ChannelInv, Wait
  <2> QED
    BY <1>2, <1>7, <2>1, <2>2 DEF ChannelInv, Wait
<1>11. Remote!GivenUp(request[t])'
  <2>1. outcome'[request[t]] = -1
    BY <1>2, <1>3, <1>5
  <2>2. stage'[t] = "idle"
    BY <1>2, <1>3
  <2>3. \A u \in Caller : stage'[u] = "idle" \/ request[u] # request[t]
    BY <1>2, <1>7, <2>2 DEF ChannelInv, OwnRequest
  <2> QED
    BY <1>2, <1>5, <2>1, <2>3 DEF Remote!GivenUp, Remote!Thread, Caller, Remote!NoReply
<1>12. GaveUp'
  BY <1>5, <1>11, <1>2 DEF GaveUp, Asked
<1> QED
  BY <1>2, <1>6, <1>8, <1>10, <1>12 DEF ChannelInv

-----------------------------------------------------------------------------
(* The servers, and what the network loses.                                *)

\* A server takes a request off and puts its reply behind those that are there.
LEMMA HandlesKeep ==
    ASSUME RemoteInv, NEW c \in Line, Remote!Handles(c)
    PROVE  RemoteInv'
<1>1. /\ wire[c] # << >> /\ wire' = [wire EXCEPT ![c] = Tail(@)]
      /\ back' = [back EXCEPT ![c] = Append(@, Head(wire[c]))]
      /\ UNCHANGED <<use, connected, sock, broken, owed, futures, stage, saying, request, sends,
                     outcome>>
  BY DEF Remote!Handles, Remote!caller
<1>2. sock \in Line /\ wire \in [Line -> Seq(Nat)] /\ back \in [Line -> Seq(Nat)]
  BY DEF RemoteInv, ChannelTypes
<1>3. /\ Len(wire[c]) \in Nat \ {0} /\ Head(wire[c]) = wire[c][1]
      /\ Head(wire[c]) \in Nat /\ Tail(wire[c]) \in Seq(Nat)
      /\ Len(Tail(wire[c])) = Len(wire[c]) - 1
      /\ \A i \in 1..Len(wire[c]) - 1 : Tail(wire[c])[i] = wire[c][i + 1]
  BY <1>1, <1>2, EmptySeq, HeadTailProperties
<1> DEFINE more == Append(back[c], Head(wire[c]))
<1>4. /\ more \in Seq(Nat) /\ Len(more) = Len(back[c]) + 1 /\ Len(back[c]) \in Nat
      /\ more[Len(back[c]) + 1] = wire[c][1]
      /\ \A i \in 1..Len(back[c]) : more[i] = back[c][i]
  BY <1>2, <1>3
<1>5. /\ wire' \in [Line -> Seq(Nat)] /\ wire'[c] = Tail(wire[c])
      /\ back' \in [Line -> Seq(Nat)] /\ back'[c] = more
      /\ \A d \in Line : d # c => wire'[d] = wire[d] /\ back'[d] = back[d]
  BY <1>1, <1>2, <1>3, <1>4
<1> HIDE DEF more
<1>6. ChannelTypes' /\ CallerTypes' /\ OwnRequest'
  BY <1>1, <1>5 DEF RemoteInv, ChannelTypes, CallerTypes, OwnRequest
<1>7. CASE use.by # "webrtc"
  <2>1. PICK t \in Caller : LineInv(t)
    BY <1>7, LineIsStream DEF Remote!By
  <2>2. ~Empty(c)
    BY <1>3 DEF Empty
  <2>3. ~(c > sock)
    BY <2>1, <2>2 DEF LineInv, HeldBy, NewerEmpty
  <2>4. \A d \in Line : d # c => (Empty(d) <=> Empty(d)')
    BY <1>5 DEF Empty
  <2>5. NewerEmpty'
    BY <1>1, <2>1, <2>3, <2>4 DEF LineInv, HeldBy, NewerEmpty
  <2>6. Empty(sock) => Empty(sock)'
    BY <1>1, <1>2, <2>2, <2>4
  <2>7. OneDue(t) => OneDue(t)'
    <3>1. CASE c # sock
      BY <1>1, <1>2, <1>5, <3>1 DEF OneDue
    <3>2. CASE c = sock /\ OneDue(t)
      <4>1. Len(wire[c]) + Len(back[c]) <= 1
        BY <3>2 DEF OneDue
      <4>2. \A a, b \in Nat : a + b <= 1 /\ a # 0 => a = 1 /\ b = 0
        OBVIOUS
      <4>3. Len(wire[c]) = 1 /\ Len(back[c]) = 0
        BY <1>3, <1>4, <4>1, <4>2
      <4>4. wire[c][1] = saying[t]
        BY <3>2, <4>3 DEF OneDue
      <4>5. Len(wire'[c]) = 0 /\ Len(back'[c]) = 1 /\ back'[c][1] = saying'[t]
        BY <1>1, <1>3, <1>4, <1>5, <4>3, <4>4
      <4>6. Len(wire'[c]) + Len(back'[c]) <= 1
        BY <4>5
      <4>7. /\ \A i \in 1..Len(wire'[c]) : wire'[c][i] = saying'[t]
            /\ \A i \in 1..Len(back'[c]) : back'[c][i] = saying'[t]
        BY <4>5
      <4> QED
        BY <1>1, <3>2, <4>6, <4>7 DEF OneDue
    <3> QED
      BY <3>1, <3>2
  <2>8. LineInv(t)'
    BY <1>1, <1>6, <2>1, <2>5, <2>6, <2>7
    DEF LineInv, HeldBy, Alone, ReadyEmpty, PutEmpty, GetDue, Rightly
  <2> QED
    BY <2>8, NextLineIsStream
<1>8. CASE use.by = "webrtc"
  <2>1. ChannelInv
    BY <1>8, ChannelIsRemote DEF Remote!By
  <2>2. Wait'
    BY <1>1, <2>1 DEF ChannelInv, Wait
  <2>3. GaveUp => GaveUp'
    BY <1>1 DEF GaveUp, Remote!GivenUp
  <2>4. Paired => Paired'
    <3> SUFFICES ASSUME Paired PROVE Paired'
      OBVIOUS
    <3>1. CASE c # sock
      BY <1>1, <1>2, <1>5, <3>1 DEF Paired, Nth
    <3>2. CASE c = sock
      <4>1. Len(back[c]) + Len(wire[c]) = Len(futures)
        BY <3>2 DEF Paired
      <4>2. Len(back'[c]) + Len(wire'[c]) = Len(futures')
        BY <1>1, <1>3, <1>4, <1>5, <4>1
      <4>3. ASSUME NEW i \in 1..Len(futures) PROVE Nth(i)' = Nth(i)
        <5>1. CASE i <= Len(back[c])
          <6>1. i \in 1..Len(back[c]) /\ i <= Len(back'[c])
            BY <1>4, <1>5, <5>1
          <6> QED
            BY <1>1, <1>4, <1>5, <3>2, <5>1, <6>1 DEF Nth
        <5>2. CASE i = Len(back[c]) + 1
          <6>1. ~(i <= Len(back[c])) /\ i <= Len(back'[c]) /\ i - Len(back[c]) = 1
            BY <1>4, <1>5, <5>2
          <6> QED
            BY <1>1, <1>4, <1>5, <3>2, <5>2, <6>1 DEF Nth
        <5>3. CASE i > Len(back[c]) + 1
          <6> DEFINE n == i - Len(back'[c])
          <6>0. /\ i \in 1..Len(back[c]) + Len(wire[c]) /\ Len(back'[c]) = Len(back[c]) + 1
                /\ Len(back[c]) \in Nat /\ Len(wire[c]) \in Nat
            BY <1>3, <1>4, <1>5, <4>1
          <6>1. /\ ~(i <= Len(back[c])) /\ ~(i <= Len(back'[c]))
                /\ n \in 1..Len(wire[c]) - 1 /\ n + 1 = i - Len(back[c])
            <7> DEFINE a == Len(back[c])
                       b == Len(wire[c])
            <7>1. a \in Nat /\ b \in Nat /\ i \in 1..a + b /\ i > a + 1
              BY <5>3, <6>0
            <7>2. n = i - (a + 1) /\ Len(back'[c]) = a + 1
              BY <6>0
            <7> HIDE DEF a, b, n
            <7>3. ~(i <= a) /\ ~(i <= a + 1) /\ n \in 1..b - 1 /\ n + 1 = i - a
              BY <7>1, <7>2
            <7> QED
              BY <7>2, <7>3 DEF a, b
          <6>2. wire'[c][n] = wire[c][n + 1]
            BY <1>3, <1>5, <6>1
          <6> QED
            BY <1>1, <3>2, <6>1, <6>2 DEF Nth
        <5> QED
          BY <1>4, <5>1, <5>2, <5>3
      <4> QED
        BY <1>1, <3>2, <4>2, <4>3 DEF Paired
    <3> QED
      BY <3>1, <3>2
  <2>5. ChannelInv'
    BY <1>1, <1>6, <2>1, <2>2, <2>3, <2>4 DEF ChannelInv, Rightly
  <2> QED
    BY <2>5 DEF RemoteInv, ChannelInv, StreamLine, Wait, Waits, InLine, GaveUp, Remote!By
<1> QED
  BY <1>7, <1>8

\* What breaks is empty afterwards.
LEMMA BreaksKeep ==
    ASSUME RemoteInv, NEW c \in Line, Remote!Breaks(c)
    PROVE  RemoteInv'
<1>1. /\ use.by # "webrtc"
      /\ wire' = [wire EXCEPT ![c] = << >>] /\ back' = [back EXCEPT ![c] = << >>]
      /\ UNCHANGED <<use, connected, sock, owed, futures, stage, saying, request, sends, outcome>>
  BY DEF Remote!Breaks, Remote!caller, Remote!By
<1>2. PICK t \in Caller : LineInv(t)
  BY <1>1, LineIsStream DEF Remote!By
<1>3. sock \in Line /\ wire \in [Line -> Seq(Nat)] /\ back \in [Line -> Seq(Nat)]
  BY <1>2 DEF LineInv, ChannelTypes
<1>4. /\ wire' \in [Line -> Seq(Nat)] /\ back' \in [Line -> Seq(Nat)]
      /\ Len(wire'[c]) = 0 /\ Len(back'[c]) = 0
      /\ \A d \in Line : d # c => wire'[d] = wire[d] /\ back'[d] = back[d]
  BY <1>1, <1>3
<1>5. ChannelTypes' /\ CallerTypes' /\ OwnRequest'
  BY <1>1, <1>2, <1>4 DEF LineInv, ChannelTypes, CallerTypes, OwnRequest
<1>6. \A d \in Line : Empty(d) => Empty(d)'
  BY <1>4 DEF Empty
<1>7. OneDue(t) => OneDue(t)'
  <2>1. CASE c # sock
    BY <1>1, <1>3, <1>4, <2>1 DEF OneDue
  <2>2. CASE c = sock
    BY <1>1, <1>4, <2>2 DEF OneDue
  <2> QED
    BY <2>1, <2>2
<1>8. LineInv(t)'
  BY <1>1, <1>2, <1>3, <1>5, <1>6, <1>7
  DEF LineInv, HeldBy, Alone, NewerEmpty, ReadyEmpty, PutEmpty, GetDue, Rightly
<1> QED
  BY <1>8, NextLineIsStream

\* Every step, as long as no two send() of a stream are under way at once.
LEMMA RemoteStep ==
    ASSUME RemoteBounds, RemoteInv, [Remote!Next]_Remote!vars, ~shared'
    PROVE  RemoteInv'
<1>1. use' = use
  BY DEF Remote!Next, Remote!vars, Remote!Begins, Remote!TcpConnects, Remote!WebSocketConnects,
     Remote!ZmqConnects, Remote!Opens, Remote!TcpSends, Remote!WebSocketSends, Remote!ZmqSends,
     Remote!RtcSends, Remote!Puts, Remote!Gets, Remote!RtcTimesOut, Remote!RtcMessage,
     Remote!TcpServes, Remote!WebSocketServes, Remote!ZmqServes, Remote!RtcServes, Remote!Handles,
     Remote!Breaks
<1>2. ASSUME Remote!By("webrtc"), ChannelInv' PROVE RemoteInv'
  BY <1>2 DEF RemoteInv, ChannelInv, StreamLine, Wait, Waits, InLine, GaveUp, Remote!By
<1>3. CASE Remote!RtcMessage
  <2>1. Remote!By("webrtc")
    BY <1>3 DEF Remote!RtcMessage
  <2> QED
    BY <1>2, <1>3, <2>1, ChannelIsRemote, RtcMessageKeeps
<1>4. ASSUME NEW t \in Caller, Remote!RtcSends(t) \/ Remote!RtcTimesOut(t) PROVE RemoteInv'
  <2>1. Remote!By("webrtc")
    BY <1>4 DEF Remote!RtcSends, Remote!RtcTimesOut
  <2> QED
    BY <1>2, <1>4, <2>1, ChannelIsRemote, RtcSendsKeep, RtcTimesOutKeeps
<1>5. ASSUME NEW t \in Caller, Remote!Begins(t) PROVE RemoteInv'
  BY <1>5, BeginsKeeps
<1>6. ASSUME NEW c \in Line,
             Remote!TcpServes(c) \/ Remote!WebSocketServes(c) \/ Remote!ZmqServes(c)
                \/ Remote!RtcServes(c) \/ Remote!Breaks(c)
      PROVE  RemoteInv'
  BY <1>6, HandlesKeep, BreaksKeep
  DEF Remote!TcpServes, Remote!WebSocketServes, Remote!ZmqServes, Remote!RtcServes
<1>7. CASE UNCHANGED Remote!vars
  <2> USE <1>1, <1>7 DEF Remote!vars, Remote!channel, Remote!caller
  <2>1. ChannelTypes' /\ CallerTypes' /\ OwnRequest'
    BY DEF RemoteInv, ChannelTypes, CallerTypes, OwnRequest
  <2>2. /\ Rightly => Rightly'
        /\ \A t \in Caller : OneDue(t) => OneDue(t)'
        /\ \A c \in Line : Empty(c) => Empty(c)'
    BY DEF Rightly, OneDue, Empty
  <2>3. Paired => Paired'
    BY DEF Paired, Nth
  <2>4. \A m \in Asked : Remote!GivenUp(m) => Remote!GivenUp(m)'
    BY DEF Remote!GivenUp
  <2>5. StreamLine'
    <3>1. sock \in Line
      BY DEF RemoteInv, ChannelTypes
    <3>2. \A t \in Caller : HeldBy(t) => HeldBy(t)'
      BY <2>2, <3>1 DEF HeldBy, Alone, NewerEmpty, ReadyEmpty, PutEmpty, GetDue
    <3> QED
      BY <3>2 DEF RemoteInv, StreamLine, Remote!By
  <2>6. Waits'
    BY DEF RemoteInv, Waits, Remote!By
  <2>7. InLine'
    BY <2>2, <2>3, <2>4 DEF RemoteInv, InLine, Remote!By
  <2> QED
    BY <2>1, <2>5, <2>6, <2>7 DEF RemoteInv
<1>8. CASE Remote!Next
  BY <1>3, <1>4, <1>5, <1>6, <1>8, StreamsKeep DEF Remote!Next, Caller, Line, Remote!Thread
<1> QED
  BY <1>7, <1>8

\* That two of them were under way is never forgotten.
LEMMA SharedStays == shared /\ [Remote!Next]_Remote!vars => shared'
  BY DEF Remote!Next, Remote!vars, Remote!Begins, Remote!TcpConnects, Remote!WebSocketConnects,
     Remote!ZmqConnects, Remote!Opens, Remote!TcpSends, Remote!WebSocketSends, Remote!ZmqSends,
     Remote!RtcSends, Remote!Puts, Remote!Gets, Remote!RtcTimesOut, Remote!RtcMessage,
     Remote!TcpServes, Remote!WebSocketServes, Remote!ZmqServes, Remote!RtcServes, Remote!Handles,
     Remote!Breaks

(***************************************************************************)
(* send() returns the reply of its own request or nothing, whatever is     *)
(* late, lost or broken, whatever client it is and whether one thread uses *)
(* it or two: on the data channel unless some send() has given up, on a    *)
(* stream until both threads are in send() at once, which no lock of the   *)
(* clients prevents.  The inductive invariant is that nothing is due on a  *)
(* connection that is used again, and that the replies and requests on the *)
(* data channel are, in their order, those of the futures.                 *)
(***************************************************************************)
THEOREM OwnRequestAnswered ==
    ASSUME MaxSends \in Nat, MaxConnects \in Nat \ {0}
    PROVE  Remote!Spec => []AnswersOwnRequest
<1>0. RemoteBounds
  BY DEF RemoteBounds
<1>1. Remote!Init => UnsharedInv
  BY <1>0, RemoteInit DEF UnsharedInv
<1>2. UnsharedInv => AnswersOwnRequest
  <2> SUFFICES ASSUME RemoteInv, NEW n \in Asked, outcome[n] \notin {-1, n}
               PROVE  Remote!By("webrtc") /\ \E m \in Asked \ {n} : Remote!GivenUp(m)
    BY DEF UnsharedInv, AnswersOwnRequest, Remote!AnswersOwnRequest, Asked, Remote!NoReply
  <2>1. ~Rightly
    BY DEF Rightly
  <2>2. Remote!By("webrtc")
    BY <2>1 DEF RemoteInv, StreamLine, HeldBy
  <2>3. PICK m \in Asked : Remote!GivenUp(m)
    BY <2>1, <2>2 DEF RemoteInv, InLine
  <2>4. m # n
    BY <2>3 DEF Remote!GivenUp, Remote!NoReply
  <2> QED
    BY <2>2, <2>3, <2>4
<1>3. UnsharedInv /\ [Remote!Next]_Remote!vars => UnsharedInv'
  BY <1>0, RemoteStep, SharedStays DEF UnsharedInv
<1> QED
  BY <1>1, <1>2, <1>3, PTL DEF Remote!Spec

-----------------------------------------------------------------------------
(* PlanRun: failures and emergency stops on their way through nested plans. *)

\* The first k - 1 members of a path.
LEMMA Prefix ==
    ASSUME NEW f \in Seq(Nat), NEW k \in 1..Len(f)
    PROVE  /\ SubSeq(f, 1, k - 1) \in Seq(Nat) /\ Len(SubSeq(f, 1, k - 1)) = k - 1
           /\ \A j \in 1..k - 1 : SubSeq(f, 1, k - 1)[j] = f[j]
           /\ \A j \in 1..k : SubSeq(SubSeq(f, 1, k - 1), 1, j - 1) = SubSeq(f, 1, j - 1)
           /\ SubSeq(f, 1, Len(f)) = f
           /\ k = 1 => SubSeq(f, 1, k - 1) = << >>
  OBVIOUS

\* A path with one member more.
LEMMA Longer ==
    ASSUME NEW f \in Seq(Nat), NEW m \in Nat
    PROVE  /\ Append(f, m) \in Seq(Nat) /\ Len(Append(f, m)) = Len(f) + 1
           /\ \A k \in 1..Len(f) : /\ Append(f, m)[k] = f[k]
                                   /\ SubSeq(Append(f, m), 1, k - 1) = SubSeq(f, 1, k - 1)
           /\ Append(f, m)[Len(f) + 1] = m
           /\ SubSeq(Append(f, m), 1, Len(f)) = f
           /\ Append(f, m) # << >>
<1>1. /\ Append(f, m) \in Seq(Nat) /\ Len(Append(f, m)) = Len(f) + 1
      /\ Append(f, m)[Len(f) + 1] = m
      /\ \A k \in 1..Len(f) : Append(f, m)[k] = f[k]
  OBVIOUS
<1>2. SubSeq(Append(f, m), 1, Len(f)) = f
  BY <1>1
<1>3. ASSUME NEW k \in 1..Len(f)
      PROVE  SubSeq(Append(f, m), 1, k - 1) = SubSeq(f, 1, k - 1)
  <2>1. /\ SubSeq(f, 1, k - 1) \in Seq(Nat) /\ Len(SubSeq(f, 1, k - 1)) = k - 1
        /\ \A j \in 1..k - 1 : SubSeq(f, 1, k - 1)[j] = f[j]
    BY Prefix
  <2>2. /\ SubSeq(Append(f, m), 1, k - 1) \in Seq(Nat)
        /\ Len(SubSeq(Append(f, m), 1, k - 1)) = k - 1
        /\ \A j \in 1..k - 1 : SubSeq(Append(f, m), 1, k - 1)[j] = Append(f, m)[j]
    BY <1>1, Prefix
  <2> DEFINE s == SubSeq(f, 1, k - 1)
             t == SubSeq(Append(f, m), 1, k - 1)
  <2>3. s \in Seq(Nat) /\ t \in Seq(Nat) /\ Len(s) = Len(t) /\ \A j \in 1..Len(s) : s[j] = t[j]
    BY <2>1, <2>2, <1>1
  <2> HIDE DEF s, t
  <2>4. s = t
    BY <2>3, SeqEqual
  <2>5. QED
    BY <2>4 DEF s, t
<1>4. Append(f, m) # << >>
  BY <1>1
<1>5. QED
  BY <1>1, <1>2, <1>3, <1>4, Zenon

\* The path of the caller, and the member that calls.
LEMMA Shorter ==
    ASSUME NEW p \in Seq(Nat), p # << >>
    PROVE  /\ Plan!Front(p) = SubSeq(p, 1, Len(p) - 1) /\ Plan!Last(p) = p[Len(p)]
           /\ Len(p) \in 1..Len(p)
           /\ Plan!Front(p) \in Seq(Nat) /\ Len(Plan!Front(p)) = Len(p) - 1
           /\ Plan!Last(p) \in Nat
<1>1. Len(p) \in 1..Len(p) /\ p[Len(p)] \in Nat
  BY EmptySeq
<1>2. Plan!Front(p) = SubSeq(p, 1, Len(p) - 1) /\ Plan!Last(p) = p[Len(p)]
  BY DEF Plan!Front, Plan!Last
<1>3. SubSeq(p, 1, Len(p) - 1) \in Seq(Nat) /\ Len(SubSeq(p, 1, Len(p) - 1)) = Len(p) - 1
  BY <1>1, Prefix
<1>4. Plan!Front(p) \in Seq(Nat) /\ Len(Plan!Front(p)) = Len(p) - 1
  BY <1>2, <1>3, Zenon
<1>5. Plan!Last(p) \in Nat
  BY <1>1, <1>2, Zenon
<1>6. QED
  BY <1>1, <1>2, <1>4, <1>5, Zenon

\* A path that goes on from p's caller by p's member goes through p.
LEMMA NextPrefix ==
    ASSUME NEW f \in Seq(Nat), NEW k \in 1..Len(f), NEW p \in Seq(Nat), p # << >>,
           SubSeq(f, 1, k - 1) = Plan!Front(p), f[k] = Plan!Last(p)
    PROVE  \/ k = Len(f) /\ f = p
           \/ k + 1 \in 1..Len(f) /\ SubSeq(f, 1, (k + 1) - 1) = p
<1>0. SubSeq(p, 1, Len(p) - 1) = SubSeq(f, 1, k - 1) /\ f[k] = p[Len(p)]
  BY Shorter, Zenon
<1>1. Len(p) \in 1..Len(p) /\ Len(SubSeq(p, 1, Len(p) - 1)) = Len(p) - 1
  BY Shorter, Zenon
<1>2. Len(p) = k
  <2>1. Len(SubSeq(f, 1, k - 1)) = k - 1
    BY Prefix
  <2>2. QED
    BY <2>1, <1>0, <1>1
<1>3. \A j \in 1..k - 1 : f[j] = p[j]
  BY <1>0, <1>1, <1>2, Prefix
<1>4. \A j \in 1..k : f[j] = p[j]
  BY <1>0, <1>1, <1>2, <1>3
<1>5. CASE k = Len(f)
  BY <1>2, <1>4, <1>5, SeqEqual
<1>6. CASE k # Len(f)
  <2>1. k + 1 \in 1..Len(f)
    BY <1>6
  <2> DEFINE s == SubSeq(f, 1, (k + 1) - 1)
  <2>2. s \in Seq(Nat) /\ Len(s) = (k + 1) - 1 /\ \A j \in 1..(k + 1) - 1 : s[j] = f[j]
    BY <2>1, Prefix
  <2> HIDE DEF s
  <2>3. Len(s) = k
    BY <2>2
  <2>5. \A j \in 1..Len(s) : s[j] = p[j]
    BY <2>2, <2>3, <1>4
  <2>4. s = p
    BY <2>2, <2>3, <2>5, <1>2, SeqEqual
  <2>6. QED
    BY <2>1, <2>4 DEF s
<1>7. QED
  BY <1>5, <1>6

(***************************************************************************)
(* What a member is or has returned, and what a frame holds.               *)
(***************************************************************************)
Outcome == {"running", "agent", "raised", "done", "stop", "unreg", "estop"}
PlanFrame ==
    [plan : Seq(Seq(Plan!Task)), at : Nat \ {0}, rets : Seq(SUBSET Outcome), depth : Nat]
PlanTypes ==
    /\ DOMAIN frames \subseteq Seq(Nat)
    /\ frames \in [DOMAIN frames -> PlanFrame]
    /\ completed \in Seq(Seq(Plan!Task))

(***************************************************************************)
(* Plans nest: a member m of the plan at f runs a plan skill.  Every plan but *)
(* the run's own is called by such a member, and so are its callers, up to *)
(* the run's plan.  A step has as many results as members.                 *)
(***************************************************************************)
Under(f, m) ==
    /\ f \in DOMAIN frames /\ m \in DOMAIN frames[f].rets
    /\ frames[f].rets[m] = {"running"}
    /\ Plan!Step(f)[m].skill \in Plan!PlanSkill
PlanNesting ==
    \A p \in DOMAIN frames :
        /\ frames[p].rets # << >> \/ p # << >> => frames[p].at <= Len(frames[p].plan)
        /\ frames[p].rets # << >> => Len(frames[p].rets) = Len(Plan!Step(p))
        /\ \A k \in 1..Len(p) : Under(SubSeq(p, 1, k - 1), p[k])

(***************************************************************************)
(* The run's own plan is there while the run is, it has begun no step before *)
(* the plan is read, and a step is under way only after steps that are done. *)
(***************************************************************************)
PlanStages ==
    /\ status \in {"new", "certify", "running", "planned", "success", "failed", "aborted", "error"}
    /\ << >> \in DOMAIN frames <=> status \in {"new", "certify", "running"}
    /\ status \in {"new", "certify"} => Plan!Idle(Plan!Root)
    /\ ~Plan!Closed => status \notin {"certify", "planned"}
    /\ ~Plan!Closed /\ << >> \in DOMAIN frames => frames[<< >>].rets = << >> \/ isdone

(***************************************************************************)
(* A failure is open: a member has failed, nothing forgives it, and the step *)
(* that it belongs to has not ended yet.  The history `lost` is about results *)
(* of the past; this is why no later step can lose one: in the other two   *)
(* executives a failure is open until it has made the run's step not done, *)
(* and in the closed loop an emergency stop is open until the run ends.    *)
(***************************************************************************)
Pending(x) ==
    \E p \in DOMAIN frames : \E m \in DOMAIN frames[p].rets :
        x \in Plan!Lost(p, m, frames[p].rets[m])
FailurePending ==
    /\ ~Plan!Closed /\ DOMAIN frames # { } /\ "failed" \in lost => ~isdone \/ Pending("failed")
    /\ Plan!Closed /\ DOMAIN frames # { } /\ "estop" \in lost => Pending("estop")

\* The inductive invariant.
PlanInv == PlanTypes /\ PlanNesting /\ PlanStages /\ FailurePending /\ Plan!NoFailureHidden

\* The plan at f is at the step it was at.
Keeps(f) == frames'[f].plan = frames[f].plan /\ frames'[f].at = frames[f].at

\* What a result of m at p counts as depends on the steps that led to it only.
LEMMA LostKept ==
    ASSUME NEW p \in Seq(Nat), NEW m \in Nat, NEW r,
           Keeps(p), \A k \in 1..Len(p) : Keeps(SubSeq(p, 1, k - 1)), planKind' = planKind
    PROVE  Plan!Lost(p, m, r)' = Plan!Lost(p, m, r)
<1> DEFINE q == Append(p, m)
<1>1. \A k \in 1..Len(q) : SubSeq(q, 1, k - 1) = p \/ (k \in 1..Len(p) /\ SubSeq(q, 1, k - 1) = SubSeq(p, 1, k - 1))
  <2>1. Len(q) = Len(p) + 1
    BY Longer
  <2>2. ASSUME NEW k \in 1..Len(q), k \notin 1..Len(p)
        PROVE  SubSeq(q, 1, k - 1) = p
    <3>1. k - 1 = Len(p)
      BY <2>1, <2>2
    <3>2. QED
      BY <3>1, Longer
  <2>3. QED
    BY <2>2, Longer
<1>2. \A k \in 0..Len(p) : SubSeq(p, 1, k) = p \/ \E j \in 1..Len(p) : SubSeq(p, 1, k) = SubSeq(p, 1, j - 1)
  <2>1. ASSUME NEW k \in 0..Len(p), k # Len(p)
        PROVE  \E j \in 1..Len(p) : SubSeq(p, 1, k) = SubSeq(p, 1, j - 1)
    <3>1. k + 1 \in 1..Len(p) /\ (k + 1) - 1 = k
      BY <2>1
    <3>2. QED
      BY <3>1
  <2>2. SubSeq(p, 1, Len(p)) = p
    OBVIOUS
  <2>3. QED
    BY <2>1, <2>2
<1>3. \A k \in 1..Len(q) : Plan!Step(SubSeq(q, 1, k - 1))' = Plan!Step(SubSeq(q, 1, k - 1))
  BY <1>1 DEF Keeps, Plan!Step
<1>4. \A k \in 0..Len(p) : Plan!Step(SubSeq(p, 1, k))' = Plan!Step(SubSeq(p, 1, k))
  BY <1>2 DEF Keeps, Plan!Step
<1>5. Plan!Step(Plan!Root)' = Plan!Step(Plan!Root)
  <2>1. SubSeq(p, 1, 0) = << >> /\ 0 \in 0..Len(p)
    OBVIOUS
  <2>2. QED
    BY <2>1, <1>4 DEF Plan!Root
<1>6. Plan!Forgiven(p, m, r)' = Plan!Forgiven(p, m, r)
  BY <1>3, <1>5 DEF Plan!Forgiven
<1>7. QED
  BY <1>4, <1>6 DEF Plan!Lost

\* What a step makes of a result is a result.
LEMMA ResultTypes ==
    ASSUME NEW p, NEW t, NEW r \in SUBSET Outcome
    PROVE  Plan!Result(p, t, r) \in SUBSET Outcome
  BY DEF Plan!Result, Plan!Marked, Outcome

\* What is known of a member that failed and that nothing forgives.
LEMMA NotForgiven ==
    ASSUME NEW p \in Seq(Nat), NEW m \in Nat, NEW r, NEW x, x \in Plan!Lost(p, m, r)
    PROVE  /\ r \cap {"done", "raised", "running", "agent"} = { }
           /\ ~Plan!Forgiven(p, m, r)
           /\ ~Plan!Step(p)[m].skip
           /\ p = << >> /\ "unreg" \in r /\ planKind = "direct" => Plan!Step(p)[m].skill \notin Agent
           /\ x # "failed" => "estop" \in r
           /\ x \in {"failed", "estop", "estop in a group"}
<1> DEFINE q == Append(p, m)
<1>1. r \cap {"done", "raised", "running", "agent"} = { } /\ ~Plan!Forgiven(p, m, r)
  BY DEF Plan!Lost
<1>2. q[Len(p) + 1] = m /\ Len(p) + 1 \in 1..Len(q) /\ SubSeq(q, 1, (Len(p) + 1) - 1) = p
  <2>1. Len(q) = Len(p) + 1
    BY Longer
  <2>2. (Len(p) + 1) - 1 = Len(p) /\ Len(p) + 1 \in 1..Len(q)
    BY <2>1
  <2>3. QED
    BY <2>2, Longer
<1>3. ~Plan!Step(p)[m].skip
  BY <1>1, <1>2 DEF Plan!Forgiven
<1>4. p = << >> /\ "unreg" \in r /\ planKind = "direct" => Plan!Step(p)[m].skill \notin Agent
  BY <1>1, <1>2 DEF Plan!Forgiven, Plan!Root
<1>5. x # "failed" => "estop" \in r
  BY DEF Plan!Lost
<1>6. x \in {"failed", "estop", "estop in a group"}
  BY DEF Plan!Lost
<1>7. QED
  BY <1>1, <1>3, <1>4, <1>5, <1>6

\* A failure stays one when it is passed on with another text.
LEMMA SameLost ==
    ASSUME NEW p, NEW m, NEW r, NEW s, NEW x, x \in Plan!Lost(p, m, r),
           x = "failed" \/ (x = "estop" /\ "estop" \in s),
           s \cap {"done", "raised", "running", "agent"} = { }, "unreg" \in s => "unreg" \in r
    PROVE  x \in Plan!Lost(p, m, s)
<1>1. ~Plan!Forgiven(p, m, s)
  BY DEF Plan!Lost, Plan!Forgiven
<1>2. CASE x = "failed"
  BY <1>1, <1>2 DEF Plan!Lost
<1>3. CASE x = "estop" /\ "estop" \in s
  BY <1>1, <1>3 DEF Plan!Lost
<1>4. QED
  BY <1>2, <1>3

\* What the step makes of a failure that nothing forgives is one too.
LEMMA ResultLost ==
    ASSUME NEW p \in Seq(Nat), NEW m \in Nat, NEW r \in SUBSET Outcome, NEW x,
           x \in Plan!Lost(p, m, r), x = "failed" \/ (x = "estop" /\ Plan!Closed)
    PROVE  x \in Plan!Lost(p, m, Plan!Result(p, Plan!Step(p)[m], r))
<1> DEFINE t == Plan!Step(p)[m]
           s == Plan!Result(p, t, r)
<1>1. /\ r \cap {"done", "raised", "running", "agent"} = { }
      /\ ~t.skip
      /\ p = << >> /\ "unreg" \in r /\ planKind = "direct" => t.skill \notin Agent
      /\ x # "failed" => "estop" \in r
  BY NotForgiven
<1>2. s \cap {"done", "raised", "running", "agent"} = { }
  BY <1>1 DEF Plan!Result, Plan!Marked, Plan!Root
<1>3. "unreg" \in s => "unreg" \in r
  BY <1>1 DEF Plan!Result, Plan!Marked, Plan!Root
<1>4. x = "estop" => "estop" \in s
  BY <1>1 DEF Plan!Result, Plan!Marked, Plan!Root, Plan!Closed
<1> HIDE DEF s
<1>5. x \in Plan!Lost(p, m, s)
  BY <1>2, <1>3, <1>4, SameLost
<1>6. QED
  BY <1>5 DEF s

\* It is one of the step that called the plan skill, too.
LEMMA Above ==
    ASSUME NEW p \in Seq(Nat), p # << >>, NEW m \in Nat, NEW r,
           NEW x \in {"failed", "estop"}, x \in Plan!Lost(p, m, r)
    PROVE  x \in Plan!Lost(Plan!Front(p), Plan!Last(p), r)
<1> DEFINE f == Plan!Front(p)
           q == Append(p, m)
           n == Len(p)
<1>1. f \in Seq(Nat) /\ Len(f) = n - 1 /\ f = SubSeq(p, 1, n - 1) /\ n \in 1..n /\ Plan!Last(p) = p[n]
  BY Shorter, Zenon
<1>2. Append(f, Plan!Last(p)) = p
  BY <1>1
<1>3. \A k \in 1..n : SubSeq(q, 1, k - 1) = SubSeq(p, 1, k - 1) /\ q[k] = p[k] /\ k \in 1..Len(q)
  BY Longer
<1>4. \A k \in 0..Len(f) : SubSeq(f, 1, k) = SubSeq(p, 1, k) /\ k \in 0..n
  BY <1>1
<1>5. ~Plan!Forgiven(p, m, r)
  BY NotForgiven
<1>6. q[1] = p[1]
  BY <1>1, <1>3
<1>7. ~Plan!Forgiven(f, Plan!Last(p), r)
  BY <1>2, <1>3, <1>5, <1>6 DEF Plan!Forgiven
<1> HIDE DEF f
<1>8. x = "failed" => x \in Plan!Lost(f, Plan!Last(p), r)
  BY <1>5, <1>7, NotForgiven DEF Plan!Lost
<1>9. ASSUME x = "estop" PROVE x \in Plan!Lost(f, Plan!Last(p), r)
  <2>1. \A k \in 0..Len(p) : Len(Plan!Step(SubSeq(p, 1, k))) = 1
    BY <1>9, NotForgiven DEF Plan!Lost
  <2>2. \A k \in 0..Len(f) : Len(Plan!Step(SubSeq(f, 1, k))) = 1
    BY <2>1, <1>4
  <2>3. QED
    BY <1>5, <1>7, <1>9, <2>2, NotForgiven DEF Plan!Lost
<1>10. QED
  BY <1>8, <1>9 DEF f

\* What the invariant says of one frame.
LEMMA Framed ==
    ASSUME PlanTypes, PlanNesting, NEW f \in DOMAIN frames
    PROVE  /\ f \in Seq(Nat) /\ frames[f] \in PlanFrame
           /\ DOMAIN frames[f].rets = 1..Len(frames[f].rets) /\ DOMAIN frames[f].rets \subseteq Nat
           /\ \A n \in DOMAIN frames[f].rets : frames[f].rets[n] \in SUBSET Outcome
           /\ \A k \in 1..Len(f) : Under(SubSeq(f, 1, k - 1), f[k])
           /\ f # << >> => Plan!Front(f) \in DOMAIN frames /\ Under(Plan!Front(f), Plan!Last(f))
           /\ << >> \in DOMAIN frames
<1>1. f \in Seq(Nat) /\ frames[f] \in PlanFrame
  BY DEF PlanTypes
<1>2. frames[f].rets \in Seq(SUBSET Outcome)
  BY <1>1 DEF PlanFrame
<1>3. /\ DOMAIN frames[f].rets = 1..Len(frames[f].rets) /\ DOMAIN frames[f].rets \subseteq Nat
      /\ \A n \in DOMAIN frames[f].rets : frames[f].rets[n] \in SUBSET Outcome
  BY <1>2
<1>4. \A k \in 1..Len(f) : Under(SubSeq(f, 1, k - 1), f[k])
  BY DEF PlanNesting
<1>5. f # << >> => Plan!Front(f) \in DOMAIN frames /\ Under(Plan!Front(f), Plan!Last(f))
  <2>1. HAVE f # << >>
  <2>2. Under(SubSeq(f, 1, Len(f) - 1), f[Len(f)])
    BY <1>1, <1>4, <2>1, Shorter
  <2>3. Under(Plan!Front(f), Plan!Last(f))
    BY <1>1, <2>1, <2>2, Shorter, Zenon
  <2>4. QED
    BY <2>3 DEF Under
<1>6. << >> \in DOMAIN frames
  <2>1. CASE f # << >>
    <3>1. 1 \in 1..Len(f)
      BY <1>1, <2>1, EmptySeq
    <3>2. SubSeq(f, 1, 1 - 1) = << >>
      BY <1>1, <3>1, Prefix
    <3>3. QED
      BY <3>1, <3>2, <1>4 DEF Under
  <2>2. QED
    BY <2>1
<1>7. QED
  BY <1>1, <1>3, <1>4, <1>5, <1>6

\* A failed member whose plan and callers are left alone stays one.
LEMMA PendingKept ==
    ASSUME PlanTypes, PlanNesting, NEW f \in DOMAIN frames, NEW n \in DOMAIN frames[f].rets, NEW x,
           x \in Plan!Lost(f, n, frames[f].rets[n]), f \in DOMAIN frames',
           n \in DOMAIN frames'[f].rets, frames'[f].rets[n] = frames[f].rets[n],
           Keeps(f), \A k \in 1..Len(f) : Keeps(SubSeq(f, 1, k - 1)), planKind' = planKind
    PROVE  Pending(x)'
<1> DEFINE r == frames[f].rets[n]
<1>1. f \in Seq(Nat) /\ n \in Nat
  BY Framed
<1>2. ASSUME NEW s, x \in Plan!Lost(f, n, s), frames'[f].rets[n] = s
      PROVE  Pending(x)'
  <2>1. x \in Plan!Lost(f, n, s)'
    BY <1>1, <1>2, LostKept
  <2>2. QED
    BY <2>1, <1>2 DEF Pending
<1>3. QED
  BY <1>2

\* And so does a member that runs a plan skill.
LEMMA UnderKept ==
    ASSUME NEW f, NEW n, Under(f, n), f \in DOMAIN frames', n \in DOMAIN frames'[f].rets,
           frames'[f].rets[n] = frames[f].rets[n], Keeps(f)
    PROVE  Under(f, n)'
  BY DEF Under, Keeps, Plan!Step

\* A member that runs no plan skill gets a result.
LEMMA MemberSet ==
    ASSUME PlanTypes, PlanNesting, NEW p \in DOMAIN frames, NEW m \in DOMAIN frames[p].rets,
           NEW v \in SUBSET Outcome, ~Under(p, m),
           frames' = [frames EXCEPT ![p].rets[m] = v], completed' = completed, planKind' = planKind
    PROVE  /\ PlanTypes' /\ PlanNesting' /\ DOMAIN frames' = DOMAIN frames
           /\ frames[p].rets # << >>
           /\ \A f \in DOMAIN frames : frames[f].rets = << >> => frames'[f].rets = << >>
           /\ \A x : /\ Pending(x) /\ x \notin Plan!Lost(p, m, frames[p].rets[m]) => Pending(x)'
                     /\ x \in Plan!Lost(p, m, v) => Pending(x)'
<1>1. frames[p] \in PlanFrame /\ frames[p].rets \in Seq(SUBSET Outcome)
  BY Framed DEF PlanFrame
<1>2. frames'[p] = [frames[p] EXCEPT !.rets = [frames[p].rets EXCEPT ![m] = v]]
  BY DEF PlanTypes
<1>3. [frames[p].rets EXCEPT ![m] = v] \in Seq(SUBSET Outcome)
      /\ Len([frames[p].rets EXCEPT ![m] = v]) = Len(frames[p].rets)
      /\ DOMAIN [frames[p].rets EXCEPT ![m] = v] = DOMAIN frames[p].rets
  BY <1>1
<1>4. /\ DOMAIN frames' = DOMAIN frames
      /\ \A f \in DOMAIN frames : f # p => frames'[f] = frames[f]
  OBVIOUS
<1>5. /\ frames'[p] \in PlanFrame /\ Keeps(p)
      /\ frames'[p].rets = [frames[p].rets EXCEPT ![m] = v]
  BY <1>1, <1>2, <1>3 DEF PlanFrame, Keeps
<1>6. \A f \in DOMAIN frames : Keeps(f) /\ DOMAIN frames'[f].rets = DOMAIN frames[f].rets
                                /\ Len(frames'[f].rets) = Len(frames[f].rets)
  BY <1>3, <1>4, <1>5 DEF Keeps
<1>7. \A f \in DOMAIN frames : \A n \in DOMAIN frames[f].rets :
          f # p \/ n # m => frames'[f].rets[n] = frames[f].rets[n]
  BY <1>4, <1>5
<1>8. frames'[p].rets[m] = v
  BY <1>5
<1>9. \A f \in DOMAIN frames : frames[f].rets = << >> <=> frames'[f].rets = << >>
  BY <1>1, <1>3, <1>4, <1>5, EmptySeq
<1>10. PlanTypes'
  BY <1>4, <1>5 DEF PlanTypes
<1>11. \A f \in DOMAIN frames : Plan!Step(f)' = Plan!Step(f)
  BY <1>6 DEF Keeps, Plan!Step
<1>12. ASSUME NEW f \in DOMAIN frames, NEW k \in 1..Len(f)
       PROVE  Under(SubSeq(f, 1, k - 1), f[k])'
  <2> DEFINE g == SubSeq(f, 1, k - 1)
  <2>1. Under(g, f[k])
    BY Framed
  <2>2. g \in DOMAIN frames /\ f[k] \in DOMAIN frames[g].rets /\ (g # p \/ f[k] # m)
    BY <2>1 DEF Under
  <2> HIDE DEF g
  <2>3. Under(g, f[k])'
    BY <2>1, <2>2, <1>4, <1>6, <1>7, UnderKept
  <2>4. QED
    BY <2>3 DEF g
<1>13. PlanNesting'
  BY <1>4, <1>6, <1>9, <1>11, <1>12 DEF PlanNesting, Keeps
<1>14. ASSUME NEW x, Pending(x), x \notin Plan!Lost(p, m, frames[p].rets[m])
       PROVE  Pending(x)'
  <2>1. PICK f \in DOMAIN frames : \E n \in DOMAIN frames[f].rets :
            x \in Plan!Lost(f, n, frames[f].rets[n])
    BY <1>14 DEF Pending
  <2>2. PICK n \in DOMAIN frames[f].rets : x \in Plan!Lost(f, n, frames[f].rets[n])
    BY <2>1
  <2>3. \A k \in 1..Len(f) : Keeps(SubSeq(f, 1, k - 1))
    BY <1>6, Framed DEF Under
  <2>4. f # p \/ n # m
    BY <1>14, <2>2
  <2>5. QED
    BY <2>2, <2>3, <2>4, <1>4, <1>6, <1>7, PendingKept
<1>15. ASSUME NEW x, x \in Plan!Lost(p, m, v)
       PROVE  Pending(x)'
  <2>1. p \in Seq(Nat) /\ m \in Nat /\ \A k \in 1..Len(p) : Keeps(SubSeq(p, 1, k - 1))
    BY <1>6, Framed DEF Under
  <2>2. x \in Plan!Lost(p, m, v)'
    BY <2>1, <1>5, <1>15, LostKept
  <2>3. QED
    BY <2>2, <1>4, <1>6, <1>8 DEF Pending
<1>16. QED
  BY <1>1, <1>4, <1>9, <1>10, <1>13, <1>14, <1>15

\* A member that starts is running, or has its result already.
LEMMA StartedTypes ==
    ASSUME NEW p, NEW t
    PROVE  Plan!Started(p, t) \in SUBSET Outcome /\ (Plan!Nests(p, t) => Plan!Started(p, t) = {"running"})
<1>1. Plan!Result(p, t, {"unreg"}) \in SUBSET Outcome /\ Plan!Result(p, t, { }) \in SUBSET Outcome
  BY ResultTypes DEF Outcome
<1>2. QED
  BY <1>1 DEF Plan!Started, Plan!Nests, Outcome

\* No plan is executed for a step that waits for none.
LEMMA NoneBelow ==
    ASSUME PlanTypes, PlanNesting, NEW p \in DOMAIN frames,
           \A m \in DOMAIN frames[p].rets : frames[p].rets[m] # {"running"}
    PROVE  /\ \A f \in DOMAIN frames : \A k \in 1..Len(f) :
                  /\ SubSeq(f, 1, k - 1) # p /\ SubSeq(f, 1, k - 1) \in DOMAIN frames
                  /\ f[k] \in DOMAIN frames[SubSeq(f, 1, k - 1)].rets
           /\ \A m \in Nat : Append(p, m) \notin DOMAIN frames
<1>1. \A m : ~Under(p, m)
  BY DEF Under
<1>2. ASSUME NEW m \in Nat, Append(p, m) \in DOMAIN frames
      PROVE  FALSE
  <2> DEFINE q == Append(p, m)
  <2>1. p \in Seq(Nat)
    BY Framed
  <2>2. Len(q) = Len(p) + 1 /\ q[Len(p) + 1] = m /\ SubSeq(q, 1, Len(p)) = p
    BY <2>1, Longer
  <2>3. Len(p) + 1 \in 1..Len(q) /\ (Len(p) + 1) - 1 = Len(p)
    BY <2>1, <2>2
  <2>4. Under(SubSeq(q, 1, (Len(p) + 1) - 1), q[Len(p) + 1])
    BY <1>2, <2>3, Framed
  <2>5. QED
    BY <2>2, <2>3, <2>4, <1>1
<1>3. ASSUME NEW f \in DOMAIN frames, NEW k \in 1..Len(f)
      PROVE  /\ SubSeq(f, 1, k - 1) # p /\ SubSeq(f, 1, k - 1) \in DOMAIN frames
             /\ f[k] \in DOMAIN frames[SubSeq(f, 1, k - 1)].rets
  <2>1. Under(SubSeq(f, 1, k - 1), f[k])
    BY Framed
  <2>2. QED
    BY <2>1, <1>1 DEF Under
<1>4. QED
  BY <1>2, <1>3, Zenon

\* A step starts: its plan skills get frames of their own.
LEMMA StartsKeeps ==
    ASSUME PlanTypes, PlanNesting, NEW p \in DOMAIN frames, frames[p].rets = << >>,
           frames[p].at <= Len(frames[p].plan), Plan!Starts(p),
           completed' = completed, planKind' = planKind
    PROVE  /\ PlanTypes' /\ PlanNesting' /\ << >> \in DOMAIN frames'
           /\ \A f \in DOMAIN frames : f # p => frames'[f] = frames[f]
           /\ \A x : (Pending(x) => Pending(x)') /\ (x \in lost' => x \in lost \/ Pending(x)')
<1> DEFINE g == Plan!Step(p)
           new == {Append(p, m) : m \in {n \in DOMAIN g : Plan!Nests(p, g[n])}}
           rs == [m \in DOMAIN g |-> Plan!Started(p, g[m])]
<1>1. p \in Seq(Nat) /\ frames[p] \in PlanFrame
  BY Framed
<1>2. g \in Seq(Plan!Task)
  BY <1>1 DEF PlanFrame, Plan!Step
<1>3. DOMAIN g = 1..Len(g) /\ DOMAIN g \subseteq Nat
  BY <1>2
<1>4. rs \in Seq(SUBSET Outcome) /\ Len(rs) = Len(g) /\ DOMAIN rs = DOMAIN g
  BY <1>2, <1>3, StartedTypes
<1>5. \A m : frames[p].rets = << >> /\ m \in DOMAIN frames[p].rets => frames[p].rets[m] # {"running"}
  BY Framed
<1>6. \A f \in DOMAIN frames : \A k \in 1..Len(f) :
          /\ SubSeq(f, 1, k - 1) # p /\ SubSeq(f, 1, k - 1) \in DOMAIN frames
          /\ f[k] \in DOMAIN frames[SubSeq(f, 1, k - 1)].rets
  BY <1>5, NoneBelow
<1>7. new \cap DOMAIN frames = { }
  BY <1>3, <1>5, NoneBelow
<1>8. ASSUME NEW m \in DOMAIN g, Plan!Nests(p, g[m])
      PROVE  /\ Append(p, m) \in new /\ Append(p, m) \in Seq(Nat)
             /\ Plan!Frame(Skills[g[m].skill], Plan!DepthIn(p) + 1) \in PlanFrame
             /\ Len(Skills[g[m].skill]) >= 1
             /\ g[m].skill \in Plan!PlanSkill
  <2>1. g[m].skill \in Plan!PlanSkill
    BY <1>8 DEF Plan!Nests
  <2>2. Skills[g[m].skill] \in Seq(Seq(Plan!Task)) /\ Skills[g[m].skill] # << >>
    BY <2>1, PlansAssumption
  <2>3. Plan!DepthIn(p) \in Nat
    BY <1>1 DEF Plan!DepthIn, PlanFrame
  <2>4. Plan!Frame(Skills[g[m].skill], Plan!DepthIn(p) + 1) \in PlanFrame
    BY <2>2, <2>3, EmptySeq DEF Plan!Frame, PlanFrame
  <2>5. Len(Skills[g[m].skill]) >= 1
    BY <2>2, EmptySeq
  <2>6. QED
    BY <2>1, <2>4, <2>5, <1>8, <1>1, <1>3, Longer
<1>9. /\ DOMAIN frames' = DOMAIN frames \cup new
      /\ \A f \in DOMAIN frames : f # p => frames'[f] = frames[f]
      /\ frames'[p] = [frames[p] EXCEPT !.rets = rs]
      /\ \A q \in new : frames'[q] = Plan!Frame(Skills[g[Plan!Last(q)].skill], Plan!DepthIn(p) + 1)
  BY <1>7 DEF Plan!Starts
<1>10. \A m \in DOMAIN g : Plan!Last(Append(p, m)) = m
  BY <1>1, <1>3, Longer DEF Plan!Last
<1> HIDE DEF new
<1>11. frames'[p] \in PlanFrame /\ frames'[p].rets = rs /\ Keeps(p)
  BY <1>1, <1>4, <1>9 DEF PlanFrame, Keeps
<1>12. \A q \in new : \E m \in DOMAIN g : /\ q = Append(p, m) /\ Plan!Nests(p, g[m])
                                          /\ frames'[q] = Plan!Frame(Skills[g[m].skill], Plan!DepthIn(p) + 1)
  <2>1. ASSUME NEW q \in new
        PROVE  \E m \in DOMAIN g : /\ q = Append(p, m) /\ Plan!Nests(p, g[m])
                                   /\ frames'[q] = Plan!Frame(Skills[g[m].skill], Plan!DepthIn(p) + 1)
    <3>1. PICK m \in DOMAIN g : q = Append(p, m) /\ Plan!Nests(p, g[m])
      BY Zenon DEF new
    <3>2. Plan!Last(q) = m
      BY <3>1, <1>10
    <3>3. frames'[q] = Plan!Frame(Skills[g[Plan!Last(q)].skill], Plan!DepthIn(p) + 1)
      BY <1>9
    <3>4. QED
      BY <3>1, <3>2, <3>3
  <2>2. QED
    BY <2>1, Zenon
<1>13. \A f \in DOMAIN frames : Keeps(f)
  BY <1>9, <1>11 DEF Keeps
<1>14. PlanTypes'
  <2>1. \A f \in DOMAIN frames' : f \in Seq(Nat) /\ frames'[f] \in PlanFrame
    BY <1>8, <1>9, <1>11, <1>12 DEF PlanTypes
  <2>2. frames' = [f \in DOMAIN frames' |-> frames'[f]]
    BY DEF Plan!Starts
  <2>3. QED
    BY <2>1, <2>2 DEF PlanTypes
<1>15. ASSUME NEW f \in DOMAIN frames, NEW k \in 1..Len(f)
       PROVE  Under(SubSeq(f, 1, k - 1), f[k])'
  <2> DEFINE h == SubSeq(f, 1, k - 1)
  <2>1. Under(h, f[k])
    BY Framed
  <2>2. h # p /\ h \in DOMAIN frames /\ f[k] \in DOMAIN frames[h].rets
    BY <1>6
  <2> HIDE DEF h
  <2>3. Under(h, f[k])'
    BY <2>1, <2>2, <1>9, <1>13, UnderKept
  <2>4. QED
    BY <2>3 DEF h
<1>16. ASSUME NEW m \in DOMAIN g, Plan!Nests(p, g[m])
       PROVE  Under(p, m)'
  <2>1. frames'[p].rets[m] = {"running"}
    BY <1>11, <1>16, StartedTypes
  <2>2. Plan!Step(p)' = g
    BY <1>11 DEF Keeps, Plan!Step
  <2>3. QED
    BY <2>1, <2>2, <1>4, <1>8, <1>9, <1>11, <1>16 DEF Under
<1>17. ASSUME NEW q \in new, NEW k \in 1..Len(q)
       PROVE  Under(SubSeq(q, 1, k - 1), q[k])'
  <2>1. PICK m \in DOMAIN g : q = Append(p, m) /\ Plan!Nests(p, g[m])
    BY <1>12
  <2>2. m \in Nat
    BY <1>3
  <2>3. CASE k \in 1..Len(p)
    BY <2>1, <2>2, <2>3, <1>1, <1>15, Longer
  <2>4. CASE k \notin 1..Len(p)
    <3>1. k = Len(p) + 1 /\ k - 1 = Len(p)
      BY <2>1, <2>2, <2>4, <1>1, Longer
    <3>2. SubSeq(q, 1, k - 1) = p /\ q[k] = m
      BY <3>1, <2>1, <2>2, <1>1, Longer
    <3>3. QED
      BY <3>2, <2>1, <1>16
  <2>5. QED
    BY <2>3, <2>4
<1>18. PlanNesting'
  <2>1. \A f \in DOMAIN frames : Plan!Step(f)' = Plan!Step(f)
    BY <1>13 DEF Keeps, Plan!Step
  <2>2. ASSUME NEW f \in DOMAIN frames
        PROVE  /\ frames'[f].rets # << >> \/ f # << >> => frames'[f].at <= Len(frames'[f].plan)
               /\ frames'[f].rets # << >> => Len(frames'[f].rets) = Len(Plan!Step(f)')
    BY <2>1, <1>4, <1>9, <1>11, <1>13 DEF PlanNesting, Keeps
  <2>3. ASSUME NEW f \in new
        PROVE  /\ frames'[f].rets # << >> \/ f # << >> => frames'[f].at <= Len(frames'[f].plan)
               /\ frames'[f].rets # << >> => Len(frames'[f].rets) = Len(Plan!Step(f)')
    <3>1. PICK m \in DOMAIN g : /\ Plan!Nests(p, g[m])
                                /\ frames'[f] = Plan!Frame(Skills[g[m].skill], Plan!DepthIn(p) + 1)
      BY <1>12
    <3>2. frames'[f].rets = << >> /\ frames'[f].at = 1 /\ frames'[f].plan = Skills[g[m].skill]
      BY <3>1 DEF Plan!Frame
    <3>3. QED
      BY <3>1, <3>2, <1>8
  <2>4. QED
    BY <2>2, <2>3, <1>9, <1>15, <1>17 DEF PlanNesting
<1>19. ASSUME NEW x, Pending(x)
       PROVE  Pending(x)'
  <2>1. PICK f \in DOMAIN frames : \E n \in DOMAIN frames[f].rets :
            x \in Plan!Lost(f, n, frames[f].rets[n])
    BY <1>19 DEF Pending
  <2>2. PICK n \in DOMAIN frames[f].rets : x \in Plan!Lost(f, n, frames[f].rets[n])
    BY <2>1
  <2>3. \A k \in 1..Len(f) : Keeps(SubSeq(f, 1, k - 1))
    BY <1>13, Framed DEF Under
  <2>4. f # p
    <3>1. DOMAIN << >> = { }
      OBVIOUS
    <3>2. QED
      BY <3>1, <2>2
  <2>5. QED
    BY <2>2, <2>3, <2>4, <1>9, <1>13, PendingKept
<1>20. ASSUME NEW x, x \in lost', x \notin lost
       PROVE  Pending(x)'
  <2>1. PICK m \in DOMAIN g : x \in Plan!Lost(p, m, Plan!Started(p, g[m]))
    BY <1>20 DEF Plan!Starts
  <2>2. \A k \in 1..Len(p) : Keeps(SubSeq(p, 1, k - 1))
    BY <1>13, Framed DEF Under
  <2>3. \A s : Plan!Lost(p, m, s)' = Plan!Lost(p, m, s)
    BY <1>1, <1>3, <1>11, <2>2, LostKept
  <2>4. m \in DOMAIN frames'[p].rets /\ frames'[p].rets[m] = Plan!Started(p, g[m])
    BY <1>4, <1>11
  <2>5. ASSUME NEW s, frames'[p].rets[m] = s, x \in Plan!Lost(p, m, s)
        PROVE  Pending(x)'
    <3>1. x \in Plan!Lost(p, m, s)'
      BY <2>3, <2>5
    <3>2. QED
      BY <3>1, <2>4, <2>5, <1>9 DEF Pending
  <2>6. QED
    BY <2>1, <2>4, <2>5
<1>21. << >> \in DOMAIN frames'
  BY <1>9, Framed
<1>22. QED
  BY <1>9, <1>14, <1>18, <1>19, <1>20, <1>21

\* A plan skill returns, and with it the failure of its step.
LEMMA ReturnsKeeps ==
    ASSUME PlanTypes, PlanNesting, NEW p \in DOMAIN frames, p # << >>,
           \A m \in DOMAIN frames[p].rets : frames[p].rets[m] # {"running"},
           NEW r \in SUBSET Outcome, Plan!Returns(p, r), completed' = completed, planKind' = planKind
    PROVE  /\ PlanTypes' /\ PlanNesting' /\ << >> \in DOMAIN frames'
           /\ frames[<< >>].rets # << >>
           /\ \A x \in {"failed", "estop"} :
                 /\ Pending(x)
                 /\ x = "failed" \/ Plan!Closed
                 /\ \A m \in DOMAIN frames[p].rets :
                       x \in Plan!Lost(p, m, frames[p].rets[m])
                           => x \in Plan!Lost(Plan!Front(p), Plan!Last(p), r)
                 => Pending(x)'
<1> DEFINE q == Plan!Front(p)
           n == Plan!Last(p)
           v == Plan!Result(q, Plan!Step(q)[n], r)
<1>1. p \in Seq(Nat) /\ q \in DOMAIN frames /\ Under(q, n) /\ q # p
  <2>1. p \in Seq(Nat) /\ q \in DOMAIN frames /\ Under(q, n)
    BY Framed
  <2>2. Len(q) # Len(p)
    BY <2>1, Shorter
  <2>3. QED
    BY <2>1, <2>2
<1>2. n \in DOMAIN frames[q].rets /\ frames[q].rets[n] = {"running"}
  BY <1>1 DEF Under
<1>3. frames[q] \in PlanFrame /\ frames[q].rets \in Seq(SUBSET Outcome) /\ q \in Seq(Nat) /\ n \in Nat
  BY <1>1, <1>2, Framed DEF PlanFrame
<1>4. v \in SUBSET Outcome
  BY ResultTypes
<1>5. /\ DOMAIN frames' = DOMAIN frames \ {p}
      /\ \A f \in DOMAIN frames' : f # q => frames'[f] = frames[f]
      /\ frames'[q] = [frames[q] EXCEPT !.rets[n] = v]
  BY <1>1 DEF Plan!Returns
<1> HIDE DEF v
<1>6. [frames[q].rets EXCEPT ![n] = v] \in Seq(SUBSET Outcome)
      /\ Len([frames[q].rets EXCEPT ![n] = v]) = Len(frames[q].rets)
      /\ DOMAIN [frames[q].rets EXCEPT ![n] = v] = DOMAIN frames[q].rets
  BY <1>2, <1>3, <1>4
<1>7. frames'[q] = [frames[q] EXCEPT !.rets = [frames[q].rets EXCEPT ![n] = v]]
  BY <1>5
<1>8. frames'[q] \in PlanFrame /\ Keeps(q) /\ frames'[q].rets = [frames[q].rets EXCEPT ![n] = v]
  BY <1>3, <1>6, <1>7 DEF PlanFrame, Keeps
<1>9. \A f \in DOMAIN frames' : /\ f \in DOMAIN frames /\ Keeps(f)
                                /\ DOMAIN frames'[f].rets = DOMAIN frames[f].rets
                                /\ Len(frames'[f].rets) = Len(frames[f].rets)
  BY <1>5, <1>6, <1>8 DEF Keeps
<1>10. \A f \in DOMAIN frames' : \A k \in DOMAIN frames[f].rets :
          f # q \/ k # n => frames'[f].rets[k] = frames[f].rets[k]
  BY <1>5, <1>8
<1>11. frames'[q].rets[n] = v
  BY <1>2, <1>3, <1>8
<1>12. \A f \in DOMAIN frames' : frames[f].rets = << >> <=> frames'[f].rets = << >>
  BY <1>3, <1>5, <1>6, <1>8, EmptySeq
<1>13. \A f \in DOMAIN frames : \A k \in 1..Len(f) :
          /\ SubSeq(f, 1, k - 1) # p /\ SubSeq(f, 1, k - 1) \in DOMAIN frames
          /\ f[k] \in DOMAIN frames[SubSeq(f, 1, k - 1)].rets
  BY NoneBelow
<1>14. PlanTypes'
  <2>1. \A f \in DOMAIN frames' : f \in Seq(Nat) /\ frames'[f] \in PlanFrame
    BY <1>5, <1>8 DEF PlanTypes
  <2>2. frames' = [f \in DOMAIN frames' |-> frames'[f]]
    BY DEF Plan!Returns
  <2>3. QED
    BY <2>1, <2>2 DEF PlanTypes
<1>15. ASSUME NEW f \in DOMAIN frames', NEW k \in 1..Len(f)
       PROVE  Under(SubSeq(f, 1, k - 1), f[k])' /\ Keeps(SubSeq(f, 1, k - 1))
  <2> DEFINE h == SubSeq(f, 1, k - 1)
  <2>1. f \in DOMAIN frames /\ f \in Seq(Nat) /\ f # p
    BY <1>5, <1>9, Framed
  <2>2. Under(h, f[k])
    BY <2>1, Framed
  <2>3. h \in DOMAIN frames' /\ f[k] \in DOMAIN frames[h].rets
    BY <2>1, <1>5, <1>13
  <2>4. ~(h = q /\ f[k] = n)
    <3>1. ASSUME h = q, f[k] = n
          PROVE  FALSE
      <4>1. \/ k = Len(f) /\ f = p
            \/ k + 1 \in 1..Len(f) /\ SubSeq(f, 1, (k + 1) - 1) = p
        BY <2>1, <1>1, <3>1, NextPrefix
      <4>2. QED
        BY <4>1, <2>1, <1>13
    <3>2. QED
      BY <3>1
  <2> HIDE DEF h
  <2>5. Under(h, f[k])' /\ Keeps(h)
    BY <2>2, <2>3, <2>4, <1>9, <1>10, UnderKept
  <2>6. QED
    BY <2>5 DEF h
<1>16. PlanNesting'
  <2>1. \A f \in DOMAIN frames' : Plan!Step(f)' = Plan!Step(f)
    BY <1>9 DEF Keeps, Plan!Step
  <2>2. QED
    BY <2>1, <1>9, <1>12, <1>15 DEF PlanNesting, Keeps
<1>17. << >> \in DOMAIN frames' /\ frames[<< >>].rets # << >>
  <2>1. << >> \in DOMAIN frames
    BY Framed
  <2>2. 1 \in 1..Len(p) /\ SubSeq(p, 1, 1 - 1) = << >>
    BY <1>1, EmptySeq, Prefix
  <2>3. p[1] \in DOMAIN frames[<< >>].rets
    BY <2>2, <1>13
  <2>4. QED
    BY <2>1, <2>3, <1>5
<1>18. ASSUME NEW x \in {"failed", "estop"}, Pending(x), x = "failed" \/ Plan!Closed,
              \A m \in DOMAIN frames[p].rets :
                  x \in Plan!Lost(p, m, frames[p].rets[m]) => x \in Plan!Lost(q, n, r)
       PROVE  Pending(x)'
  <2>1. PICK f \in DOMAIN frames : \E m \in DOMAIN frames[f].rets :
            x \in Plan!Lost(f, m, frames[f].rets[m])
    BY <1>18 DEF Pending
  <2>2. PICK m \in DOMAIN frames[f].rets : x \in Plan!Lost(f, m, frames[f].rets[m])
    BY <2>1
  <2>3. CASE f = p
    <3>1. x \in Plan!Lost(q, n, r)
      BY <1>18, <2>2, <2>3
    <3>2. x \in Plan!Lost(q, n, v)
      BY <3>1, <1>3, <1>18, ResultLost DEF v
    <3>3. q \in DOMAIN frames' /\ \A k \in 1..Len(q) : Keeps(SubSeq(q, 1, k - 1))
      BY <1>1, <1>5, <1>15
    <3>4. ASSUME NEW s, x \in Plan!Lost(q, n, s), frames'[q].rets[n] = s
          PROVE  Pending(x)'
      <4>1. x \in Plan!Lost(q, n, s)'
        BY <3>3, <3>4, <1>3, <1>8, LostKept
      <4>2. n \in DOMAIN frames'[q].rets
        BY <3>3, <1>2, <1>9
      <4>3. QED
        BY <3>3, <3>4, <4>1, <4>2 DEF Pending
    <3>5. QED
      BY <3>2, <3>4, <1>11
  <2>4. CASE f # p
    <3>1. ~(f = q /\ m = n)
      BY <1>2, <1>3, <2>2, NotForgiven
    <3>2. f \in DOMAIN frames' /\ \A k \in 1..Len(f) : Keeps(SubSeq(f, 1, k - 1))
      BY <2>4, <1>5, <1>15
    <3>3. QED
      BY <3>1, <3>2, <2>2, <1>9, <1>10, PendingKept
  <2>5. QED
    BY <2>3, <2>4
<1>19. QED
  BY <1>14, <1>16, <1>17, <1>18

\* A plan whose step has ended, or not begun, goes on elsewhere.
LEMMA FrameSet ==
    ASSUME PlanTypes, PlanNesting, NEW p \in DOMAIN frames,
           \A m \in DOMAIN frames[p].rets : frames[p].rets[m] # {"running"},
           NEW fr \in PlanFrame, fr.rets = << >>, p # << >> => fr.at <= Len(fr.plan),
           frames' = [frames EXCEPT ![p] = fr],
           completed' \in Seq(Seq(Plan!Task)), planKind' = planKind
    PROVE  /\ PlanTypes' /\ PlanNesting' /\ << >> \in DOMAIN frames'
           /\ frames'[p] = fr
           /\ \A f \in DOMAIN frames : f # p => frames'[f] = frames[f]
           /\ \A x : /\ Pending(x)
                     /\ \A m \in DOMAIN frames[p].rets : x \notin Plan!Lost(p, m, frames[p].rets[m])
                     => Pending(x)'
<1>1. /\ DOMAIN frames' = DOMAIN frames /\ frames'[p] = fr
      /\ \A f \in DOMAIN frames : f # p => frames'[f] = frames[f]
  OBVIOUS
<1>2. PlanTypes'
  BY <1>1 DEF PlanTypes
<1>3. \A f \in DOMAIN frames : \A k \in 1..Len(f) :
          /\ SubSeq(f, 1, k - 1) # p /\ SubSeq(f, 1, k - 1) \in DOMAIN frames
          /\ f[k] \in DOMAIN frames[SubSeq(f, 1, k - 1)].rets
  BY NoneBelow
<1>4. \A f \in DOMAIN frames : f # p => Keeps(f)
  BY <1>1 DEF Keeps
<1>5. ASSUME NEW f \in DOMAIN frames, NEW k \in 1..Len(f)
      PROVE  Under(SubSeq(f, 1, k - 1), f[k])' /\ Keeps(SubSeq(f, 1, k - 1))
  <2> DEFINE h == SubSeq(f, 1, k - 1)
  <2>1. Under(h, f[k]) /\ h # p /\ h \in DOMAIN frames /\ f[k] \in DOMAIN frames[h].rets
    BY <1>3, Framed
  <2> HIDE DEF h
  <2>2. Under(h, f[k])' /\ Keeps(h)
    BY <2>1, <1>1, <1>4, UnderKept
  <2>3. QED
    BY <2>2 DEF h
<1>6. PlanNesting'
  <2>1. \A f \in DOMAIN frames : f # p => Plan!Step(f)' = Plan!Step(f)
    BY <1>4 DEF Keeps, Plan!Step
  <2>2. QED
    BY <2>1, <1>1, <1>5 DEF PlanNesting
<1>7. ASSUME NEW x, Pending(x),
             \A m \in DOMAIN frames[p].rets : x \notin Plan!Lost(p, m, frames[p].rets[m])
      PROVE  Pending(x)'
  <2>1. PICK f \in DOMAIN frames : \E m \in DOMAIN frames[f].rets :
            x \in Plan!Lost(f, m, frames[f].rets[m])
    BY <1>7 DEF Pending
  <2>2. PICK m \in DOMAIN frames[f].rets : x \in Plan!Lost(f, m, frames[f].rets[m])
    BY <2>1
  <2>3. f # p
    BY <1>7, <2>2
  <2>4. QED
    BY <2>2, <2>3, <1>1, <1>4, <1>5, PendingKept
<1>8. << >> \in DOMAIN frames'
  BY <1>1, Framed
<1>9. QED
  BY <1>1, <1>2, <1>6, <1>7, <1>8

\* Before a step and after it nothing of it runs.
LEMMA NoneRunning ==
    ASSUME NEW p \in DOMAIN frames, frames[p].rets = << >> \/ Plan!Ended(p)
    PROVE  \A m \in DOMAIN frames[p].rets : frames[p].rets[m] # {"running"}
<1>1. CASE frames[p].rets = << >>
  BY <1>1
<1>2. CASE Plan!Ended(p)
  BY <1>2 DEF Plan!Ended, Plan!Returned
<1>3. QED
  BY <1>1, <1>2

\* So between two steps of the run the run's own plan is the only one.
LEMMA RootAlone ==
    ASSUME PlanTypes, PlanNesting, << >> \in DOMAIN frames,
           frames[<< >>].rets = << >> \/ Plan!Ended(<< >>)
    PROVE  DOMAIN frames = {<< >>}
<1>1. \A m \in DOMAIN frames[<< >>].rets : frames[<< >>].rets[m] # {"running"}
  BY NoneRunning
<1>2. ASSUME NEW f \in DOMAIN frames, f # << >>
      PROVE  FALSE
  <2>1. f \in Seq(Nat)
    BY Framed
  <2>2. 1 \in 1..Len(f) /\ SubSeq(f, 1, 1 - 1) = << >>
    BY <2>1, <1>2, EmptySeq, Prefix
  <2>3. QED
    BY <2>2, <1>1, NoneBelow
<1>3. QED
  BY <1>2

\* A step with a failed member is not done, and its failure is passed on.
LEMMA JoinedLost ==
    ASSUME PlanTypes, PlanNesting, NEW p \in DOMAIN frames, Plan!Ended(p),
           NEW m \in DOMAIN frames[p].rets, NEW x \in {"failed", "estop"},
           x \in Plan!Lost(p, m, frames[p].rets[m])
    PROVE  /\ "done" \notin Plan!Joined(frames[p].rets)
           /\ x \in Plan!Lost(p, m, Plan!Joined(frames[p].rets) \ {"raised"})
<1> DEFINE rs == frames[p].rets
           s == Plan!Joined(rs) \ {"raised"}
<1>1. p \in Seq(Nat) /\ m \in Nat /\ DOMAIN rs = 1..Len(rs) /\ frames[p].rets \in Seq(SUBSET Outcome)
  BY Framed DEF PlanFrame
<1>2. /\ rs[m] \cap {"done", "raised", "running", "agent"} = { }
      /\ x # "failed" => "estop" \in rs[m]
  BY <1>1, NotForgiven
<1>3. CASE Len(rs) = 1
  <2>1. m = 1
    BY <1>1, <1>3
  <2>2. Plan!Joined(rs) = rs[m] /\ s = rs[m]
    BY <2>1, <1>2, <1>3 DEF Plan!Joined
  <2>3. QED
    BY <2>2, <1>2
<1>4. CASE Len(rs) # 1
  <2>1. Plan!Joined(rs) = { }
    BY <1>2, <1>4 DEF Plan!Joined, Plan!AllDone
  <2>2. x = "failed"
    <3>1. Len(Plan!Step(p)) # 1
      BY <1>4 DEF PlanNesting, Plan!Ended
    <3>2. SubSeq(p, 1, Len(p)) = p /\ Len(p) \in 0..Len(p)
      BY <1>1
    <3>3. QED
      BY <3>1, <3>2 DEF Plan!Lost
  <2>3. QED
    BY <2>1, <2>2, SameLost
<1>5. QED
  BY <1>3, <1>4

\* The parts of the invariant about the run, for a step that leaves it as it is.
LEMMA RunGoesOn ==
    ASSUME PlanInv, PlanTypes', PlanNesting', << >> \in DOMAIN frames, << >> \in DOMAIN frames',
           planKind' = planKind, status' = status, isdone' = isdone,
           frames[<< >>].rets = << >> /\ frames'[<< >>].rets # << >>
               => status = "running" /\ (Plan!Closed \/ isdone),
           \A x \in {"failed", "estop"} : x = "failed" \/ Plan!Closed =>
               (Pending(x) => Pending(x)') /\ (x \in lost' => x \in lost \/ Pending(x)')
    PROVE  PlanInv'
<1>1. Plan!Closed' = Plan!Closed
  BY DEF Plan!Closed
<1>2. PlanStages'
  BY <1>1 DEF PlanInv, PlanStages, Plan!Idle, Plan!Root
<1>3. "failed" \in {"failed", "estop"} /\ "estop" \in {"failed", "estop"} /\ DOMAIN frames # { }
  OBVIOUS
<1>4. FailurePending'
  <2>1. ~Plan!Closed /\ "failed" \in lost' => ~isdone \/ Pending("failed")'
    BY <1>3 DEF PlanInv, FailurePending
  <2>2. Plan!Closed /\ "estop" \in lost' => Pending("estop")'
    BY <1>3 DEF PlanInv, FailurePending
  <2>3. QED
    BY <2>1, <2>2, <1>1 DEF FailurePending
<1>5. Plan!NoFailureHidden'
  BY DEF PlanInv, PlanStages, Plan!NoFailureHidden
<1>6. QED
  BY <1>2, <1>4, <1>5 DEF PlanInv

\* The steps of the plan skills and of the threads.
LEMMA SkillReturnsStep ==
    ASSUME PlanInv, NEW p, NEW m, Plan!SkillReturns(p, m)
    PROVE  PlanInv'
<1>1. /\ PlanTypes /\ PlanNesting /\ p \in DOMAIN frames /\ m \in DOMAIN frames[p].rets
      /\ frames[p].rets[m] = {"running"} /\ Plan!Step(p)[m].skill \in Code
      /\ planKind' = planKind /\ completed' = completed /\ status' = status /\ isdone' = isdone
  BY DEF PlanInv, Plan!SkillReturns, Plan!progress
<1>2. PICK r \in {{"done"}, {"done", "stop"}, { }, {"estop"}, {"unreg"}, {"raised"}} :
          /\ frames' = [frames EXCEPT ![p].rets[m] = Plan!Result(p, Plan!Step(p)[m], r)]
          /\ lost' = lost \cup Plan!Lost(p, m, r)
  BY DEF Plan!SkillReturns
<1>3. r \in SUBSET Outcome
  BY DEF Outcome
<1> DEFINE v == Plan!Result(p, Plan!Step(p)[m], r)
<1>4. v \in SUBSET Outcome
  BY <1>3, ResultTypes
<1>5. ~Under(p, m)
  BY <1>1, PlansAssumption DEF Under
<1>6. \A x \in {"failed", "estop"} : (x = "failed" \/ Plan!Closed) /\ x \in Plan!Lost(p, m, r)
          => x \in Plan!Lost(p, m, v)
  BY <1>1, <1>3, ResultLost, Framed
<1>7. \A x : x \notin Plan!Lost(p, m, frames[p].rets[m])
  BY <1>1, Framed, NotForgiven
<1> HIDE DEF v
<1>8. frames' = [frames EXCEPT ![p].rets[m] = v]
  BY <1>2 DEF v
<1>9. /\ PlanTypes' /\ PlanNesting' /\ DOMAIN frames' = DOMAIN frames
      /\ \A f \in DOMAIN frames : frames[f].rets = << >> => frames'[f].rets = << >>
      /\ \A x : /\ Pending(x) /\ x \notin Plan!Lost(p, m, frames[p].rets[m]) => Pending(x)'
                /\ x \in Plan!Lost(p, m, v) => Pending(x)'
  BY <1>1, <1>4, <1>5, <1>8, MemberSet
<1>10. << >> \in DOMAIN frames
  BY <1>1, Framed
<1>11. QED
  BY <1>1, <1>2, <1>6, <1>7, <1>9, <1>10, RunGoesOn

LEMMA AgentReturnsStep ==
    ASSUME PlanInv, NEW m, Plan!AgentReturns(m)
    PROVE  PlanInv'
<1> DEFINE p == << >>
           t == Plan!Step(p)[m]
<1>1. /\ PlanTypes /\ PlanNesting /\ p \in DOMAIN frames /\ m \in DOMAIN frames[p].rets
      /\ frames[p].rets[m] = {"agent"}
      /\ planKind' = planKind /\ completed' = completed /\ status' = status /\ isdone' = isdone
  BY DEF PlanInv, Plan!AgentReturns, Plan!progress, Plan!Root
<1>2. PICK r \in {{"done"}, { }}, raises \in BOOLEAN :
          /\ frames' = [frames EXCEPT ![p].rets[m] = IF raises THEN { } ELSE Plan!Marked(t, r)]
          /\ lost' = lost \cup Plan!Lost(p, m, r)
  BY DEF Plan!AgentReturns, Plan!Root
<1> DEFINE v == IF raises THEN { } ELSE Plan!Marked(t, r)
<1>3. v \in SUBSET Outcome
  BY DEF Outcome, Plan!Marked
<1>4. ~Under(p, m)
  BY <1>1 DEF Under
<1>5. p \in Seq(Nat) /\ m \in Nat
  BY <1>1, Framed
<1>6. ASSUME NEW x \in {"failed", "estop"}, x \in Plan!Lost(p, m, r)
      PROVE  x \in Plan!Lost(p, m, v)
  <2>1. r = { } /\ ~t.skip /\ x = "failed"
    BY <1>2, <1>5, <1>6, NotForgiven
  <2>2. v = { }
    BY <2>1 DEF Plan!Marked
  <2>3. QED
    BY <2>1, <2>2, <1>6
<1>7. \A x : x \notin Plan!Lost(p, m, frames[p].rets[m])
  BY <1>1, <1>5, NotForgiven
<1> HIDE DEF v
<1>8. frames' = [frames EXCEPT ![p].rets[m] = v]
  BY <1>2 DEF v
<1>9. /\ PlanTypes' /\ PlanNesting' /\ DOMAIN frames' = DOMAIN frames
      /\ \A f \in DOMAIN frames : frames[f].rets = << >> => frames'[f].rets = << >>
      /\ \A x : /\ Pending(x) /\ x \notin Plan!Lost(p, m, frames[p].rets[m]) => Pending(x)'
                /\ x \in Plan!Lost(p, m, v) => Pending(x)'
  BY <1>1, <1>3, <1>4, <1>8, MemberSet
<1>10. QED
  BY <1>1, <1>2, <1>6, <1>7, <1>9, RunGoesOn

LEMMA PlanSkillStepStep ==
    ASSUME PlanInv, NEW p \in DOMAIN frames, Plan!PlanSkillStep(p)
    PROVE  PlanInv'
<1>1. /\ PlanTypes /\ PlanNesting /\ p # << >> /\ frames[p].rets = << >>
      /\ planKind' = planKind /\ completed' = completed /\ status' = status /\ isdone' = isdone
  BY DEF PlanInv, Plan!PlanSkillStep, Plan!progress, Plan!Root, Plan!Idle
<1>2. << >> \in DOMAIN frames
  BY <1>1, Framed
<1>3. CASE Plan!Returns(p, { }) /\ lost' = lost
  <2>1. \A m \in DOMAIN frames[p].rets : frames[p].rets[m] # {"running"}
    BY <1>1, NoneRunning
  <2>2. \A m \in DOMAIN frames[p].rets : FALSE
    BY <1>1
  <2>3. { } \in SUBSET Outcome
    OBVIOUS
  <2>4. /\ PlanTypes' /\ PlanNesting' /\ << >> \in DOMAIN frames' /\ frames[<< >>].rets # << >>
        /\ \A x \in {"failed", "estop"} : Pending(x) /\ (x = "failed" \/ Plan!Closed) => Pending(x)'
    BY <1>1, <1>3, <2>1, <2>2, <2>3, ReturnsKeeps
  <2>5. QED
    BY <1>1, <1>2, <1>3, <2>4, RunGoesOn
<1>4. CASE Plan!Starts(p)
  <2>1. frames[p].at <= Len(frames[p].plan)
    BY <1>1 DEF PlanNesting
  <2>2. /\ PlanTypes' /\ PlanNesting' /\ << >> \in DOMAIN frames'
        /\ \A f \in DOMAIN frames : f # p => frames'[f] = frames[f]
        /\ \A x : (Pending(x) => Pending(x)') /\ (x \in lost' => x \in lost \/ Pending(x)')
    BY <1>1, <1>4, <2>1, StartsKeeps
  <2>3. frames'[<< >>].rets = frames[<< >>].rets
    BY <1>1, <1>2, <2>2
  <2>4. QED
    BY <1>1, <1>2, <2>2, <2>3, RunGoesOn
<1>5. QED
  BY <1>3, <1>4 DEF Plan!PlanSkillStep

\* What the members of a step return together is a result.
LEMMA JoinedTypes ==
    ASSUME PlanTypes, PlanNesting, NEW p \in DOMAIN frames, Plan!Ended(p)
    PROVE  Plan!Joined(frames[p].rets) \in SUBSET Outcome
<1>1. frames[p].rets \in Seq(SUBSET Outcome) /\ (Len(frames[p].rets) = 1 => 1 \in DOMAIN frames[p].rets)
  BY Framed DEF PlanFrame
<1>2. QED
  BY <1>1 DEF Plan!Joined, Plan!AllDone, Outcome

\* The frame of the next step.
LEMMA Advanced ==
    ASSUME NEW f \in PlanFrame, NEW k \in Nat \ {0}
    PROVE  /\ [f EXCEPT !.rets = << >>, !.at = k] \in PlanFrame
           /\ [f EXCEPT !.rets = << >>, !.at = k].rets = << >>
           /\ [f EXCEPT !.rets = << >>, !.at = k].at = k
           /\ [f EXCEPT !.rets = << >>, !.at = k].plan = f.plan
<1>1. << >> \in Seq(SUBSET Outcome)
  BY EmptySeq
<1>2. QED
  BY <1>1 DEF PlanFrame

LEMMA PlanSkillStepEndsStep ==
    ASSUME PlanInv, NEW p \in DOMAIN frames, Plan!PlanSkillStepEnds(p)
    PROVE  PlanInv'
<1> DEFINE rs == frames[p].rets
           r == Plan!Joined(rs) \ {"raised"}
<1>1. /\ PlanTypes /\ PlanNesting /\ p # << >> /\ Plan!Ended(p) /\ rs # << >>
      /\ planKind' = planKind /\ completed' = completed /\ status' = status /\ isdone' = isdone
      /\ lost' = lost \cup Plan!Dropped(rs)
  BY DEF PlanInv, Plan!PlanSkillStepEnds, Plan!progress, Plan!Root, Plan!Ended
<1>2. << >> \in DOMAIN frames /\ p \in Seq(Nat) /\ frames[p] \in PlanFrame /\ DOMAIN rs \subseteq Nat
  BY <1>1, Framed
<1>3. \A m \in DOMAIN rs : rs[m] # {"running"}
  BY <1>1, NoneRunning
<1>4. \A x \in {"failed", "estop"} : x \in lost' => x \in lost
  BY <1>1 DEF Plan!Dropped
<1>5. CASE Plan!Returns(p, r)
  <2>1. r \in SUBSET Outcome
    BY <1>1, JoinedTypes
  <2>2. ASSUME NEW x \in {"failed", "estop"}, NEW m \in DOMAIN rs, x \in Plan!Lost(p, m, rs[m])
        PROVE  x \in Plan!Lost(Plan!Front(p), Plan!Last(p), r)
    <3>1. x \in Plan!Lost(p, m, r)
      BY <1>1, <2>2, JoinedLost
    <3>2. QED
      BY <3>1, <1>1, <1>2, Above
  <2> HIDE DEF r
  <2>3. /\ PlanTypes' /\ PlanNesting' /\ << >> \in DOMAIN frames' /\ frames[<< >>].rets # << >>
        /\ \A x \in {"failed", "estop"} : Pending(x) /\ (x = "failed" \/ Plan!Closed) => Pending(x)'
    BY <1>1, <1>3, <1>5, <2>1, <2>2, ReturnsKeeps
  <2>4. QED
    BY <1>1, <1>2, <1>4, <2>3, RunGoesOn
<1>6. CASE Plan!Next1(p) /\ "done" \in r /\ frames[p].at # Len(frames[p].plan)
  <2> DEFINE fr == [frames[p] EXCEPT !.rets = << >>, !.at = frames[p].at + 1]
  <2>1. frames[p].at <= Len(frames[p].plan)
    BY <1>1 DEF PlanNesting
  <2>2. fr \in PlanFrame /\ fr.rets = << >> /\ fr.at <= Len(fr.plan)
    <3>1. /\ frames[p].plan \in Seq(Seq(Plan!Task)) /\ frames[p].at \in Nat \ {0}
          /\ frames[p].depth \in Nat
      BY <1>2 DEF PlanFrame
    <3>2. frames[p].at + 1 \in Nat \ {0} /\ frames[p].at + 1 <= Len(frames[p].plan)
      BY <3>1, <1>6, <2>1
    <3>3. QED
      BY <3>1, <3>2, <1>2, Advanced
  <2>3. frames' = [frames EXCEPT ![p] = fr]
    BY <1>1, <1>2, <1>6 DEF Plan!Next1, PlanTypes, PlanFrame
  <2>4. ASSUME NEW x \in {"failed", "estop"}, NEW m \in DOMAIN rs
        PROVE  x \notin Plan!Lost(p, m, rs[m])
    BY <1>1, <1>6, JoinedLost
  <2> HIDE DEF fr
  <2>5. completed' \in Seq(Seq(Plan!Task))
    BY <1>1 DEF PlanTypes
  <2>6. /\ PlanTypes' /\ PlanNesting' /\ << >> \in DOMAIN frames'
        /\ \A f \in DOMAIN frames : f # p => frames'[f] = frames[f]
        /\ \A x \in {"failed", "estop"} : Pending(x) => Pending(x)'
    BY <1>1, <1>3, <2>2, <2>3, <2>4, <2>5, FrameSet
  <2>7. frames'[<< >>].rets = frames[<< >>].rets
    BY <1>1, <1>2, <2>6
  <2>8. QED
    BY <1>1, <1>2, <1>4, <2>6, <2>7, RunGoesOn
<1>7. QED
  BY <1>5, <1>6 DEF Plan!PlanSkillStepEnds

\* The run ends.
LEMMA OverKeeps ==
    ASSUME PlanInv, NEW s \in {"planned", "success", "failed", "aborted", "error"}, Plan!Over(s),
           planKind' = planKind, completed' \in Seq(Seq(Plan!Task)), s = "planned" => Plan!Closed,
           s = "success" /\ ~Plan!Closed => "failed" \notin lost'
    PROVE  PlanInv'
<1>1. DOMAIN frames' = { } /\ status' = s /\ frames' \in [DOMAIN frames' -> PlanFrame]
  BY DEF Plan!Over
<1>2. Plan!Closed' = Plan!Closed
  BY DEF Plan!Closed
<1>3. PlanTypes' /\ PlanNesting'
  BY <1>1 DEF PlanTypes, PlanNesting
<1>4. PlanStages'
  BY <1>1, <1>2 DEF PlanStages
<1>5. FailurePending' /\ Plan!NoFailureHidden'
  BY <1>1, <1>2 DEF FailurePending, Plan!NoFailureHidden
<1>6. QED
  BY <1>3, <1>4, <1>5 DEF PlanInv

\* The run's own plan goes on, or is replaced.
LEMMA RootSet ==
    ASSUME PlanInv, << >> \in DOMAIN frames, frames[<< >>].rets = << >> \/ Plan!Ended(<< >>),
           NEW fr \in PlanFrame, fr.rets = << >>, frames' = [frames EXCEPT ![<< >>] = fr],
           completed' \in Seq(Seq(Plan!Task)), planKind' = planKind,
           status' = "running" \/ (status' = "certify" /\ Plan!Closed),
           ~Plan!Closed /\ "failed" \in lost' => ~isdone', Plan!Closed => "estop" \notin lost'
    PROVE  PlanInv'
<1>1. /\ PlanTypes' /\ PlanNesting' /\ << >> \in DOMAIN frames' /\ frames'[<< >>] = fr
  <2>1. PlanTypes /\ PlanNesting
    BY DEF PlanInv
  <2>2. \A m \in DOMAIN frames[<< >>].rets : frames[<< >>].rets[m] # {"running"}
    BY NoneRunning
  <2>3. QED
    BY <2>1, <2>2, FrameSet
<1>2. Plan!Closed' = Plan!Closed
  BY DEF Plan!Closed
<1>3. PlanStages'
  BY <1>1, <1>2 DEF PlanStages, Plan!Idle, Plan!Root
<1>4. FailurePending' /\ Plan!NoFailureHidden'
  BY <1>2 DEF FailurePending, Plan!NoFailureHidden
<1>5. QED
  BY <1>1, <1>3, <1>4 DEF PlanInv

\* Between two steps of the run: no failure is open but that of the last step.
LEMMA AtRoot ==
    ASSUME PlanInv, << >> \in DOMAIN frames, frames[<< >>].rets = << >> \/ Plan!Ended(<< >>)
    PROVE  /\ ~Plan!Closed /\ "failed" \in lost =>
                 ~isdone \/ (frames[<< >>].rets # << >> /\ "done" \notin Plan!Joined(frames[<< >>].rets))
           /\ Plan!Closed /\ "estop" \in lost =>
                 /\ frames[<< >>].rets # << >>
                 /\ "estop" \in frames[<< >>].rets[1] /\ "done" \notin frames[<< >>].rets[1]
<1>1. PlanTypes /\ PlanNesting /\ FailurePending /\ DOMAIN frames = {<< >>}
  BY RootAlone DEF PlanInv
<1>2. /\ << >> \in Seq(Nat) /\ DOMAIN frames[<< >>].rets = 1..Len(frames[<< >>].rets)
      /\ DOMAIN frames[<< >>].rets \subseteq Nat
  BY <1>1, Framed
<1>3. ASSUME NEW x \in {"failed", "estop"}, Pending(x)
      PROVE  /\ frames[<< >>].rets # << >> /\ Plan!Ended(<< >>)
             /\ \E m \in DOMAIN frames[<< >>].rets : x \in Plan!Lost(<< >>, m, frames[<< >>].rets[m])
  <2>1. PICK m \in DOMAIN frames[<< >>].rets : x \in Plan!Lost(<< >>, m, frames[<< >>].rets[m])
    BY <1>1, <1>3 DEF Pending
  <2>2. DOMAIN << >> = { }
    OBVIOUS
  <2>3. QED
    BY <2>1, <2>2
<1>4. ASSUME ~Plan!Closed, "failed" \in lost, isdone
      PROVE  frames[<< >>].rets # << >> /\ "done" \notin Plan!Joined(frames[<< >>].rets)
  <2>1. Pending("failed")
    BY <1>1, <1>4 DEF FailurePending
  <2>2. QED
    BY <2>1, <1>1, <1>3, JoinedLost
<1>5. ASSUME Plan!Closed, "estop" \in lost
      PROVE  /\ frames[<< >>].rets # << >>
             /\ "estop" \in frames[<< >>].rets[1] /\ "done" \notin frames[<< >>].rets[1]
  <2>1. Pending("estop")
    BY <1>1, <1>5 DEF FailurePending
  <2>2. PICK m \in DOMAIN frames[<< >>].rets : "estop" \in Plan!Lost(<< >>, m, frames[<< >>].rets[m])
    BY <2>1, <1>3
  <2>3. Len(Plan!Step(<< >>)) = 1
    <3>1. SubSeq(<< >>, 1, 0) = << >> /\ 0 \in 0..Len(<< >>)
      OBVIOUS
    <3>2. QED
      BY <2>2, <3>1 DEF Plan!Lost
  <2>4. Len(frames[<< >>].rets) = 1
    BY <2>1, <2>3, <1>1, <1>3 DEF PlanNesting
  <2>5. m = 1
    BY <2>4, <1>2
  <2>6. /\ "estop" \in frames[<< >>].rets[m] /\ "done" \notin frames[<< >>].rets[m]
    <3>1. ASSUME NEW r, "estop" \in Plan!Lost(<< >>, m, r)
          PROVE  "estop" \in r /\ "done" \notin r
      <4>1. m \in Nat /\ << >> \in Seq(Nat)
        BY <1>2
      <4>2. r \cap {"done", "raised", "running", "agent"} = { } /\ ("estop" # "failed" => "estop" \in r)
        BY <3>1, <4>1, NotForgiven
      <4>3. QED
        BY <4>2
    <3>2. QED
      BY <3>1, <2>2
  <2>7. QED
    BY <2>1, <2>5, <2>6, <1>3
<1>6. QED
  BY <1>4, <1>5

\* The steps of a typed plan and of the open loop.
LEMMA CommandStepStep ==
    ASSUME PlanInv, Plan!CommandStep
    PROVE  PlanInv'
<1>1. /\ PlanTypes /\ PlanNesting /\ << >> \in DOMAIN frames /\ frames[<< >>].rets = << >>
      /\ status = "running" /\ isdone /\ Plan!Starts(<< >>)
      /\ planKind' = planKind /\ completed' = completed /\ status' = status /\ isdone' = isdone
  BY DEF PlanInv, Plan!CommandStep, Plan!RootAt, Plan!Idle, Plan!Root, Plan!progress
<1>2. frames[<< >>].at <= Len(frames[<< >>].plan)
  <2>1. frames[<< >>].plan \in Seq(Seq(Plan!Task)) /\ frames[<< >>].at \in Nat
    BY <1>1, Framed DEF PlanFrame
  <2>2. ~(frames[<< >>].at > Len(frames[<< >>].plan))
    BY DEF Plan!CommandStep, Plan!PlanOver, Plan!Root
  <2>3. QED
    BY <2>1, <2>2
<1>3. /\ PlanTypes' /\ PlanNesting' /\ << >> \in DOMAIN frames'
      /\ \A x : (Pending(x) => Pending(x)') /\ (x \in lost' => x \in lost \/ Pending(x)')
  BY <1>1, <1>2, StartsKeeps
<1>4. QED
  BY <1>1, <1>3, RunGoesOn

LEMMA CommandStepEndsStep ==
    ASSUME PlanInv, Plan!CommandStepEnds
    PROVE  PlanInv'
<1> DEFINE root == frames[<< >>]
           k == IF {"done", "stop"} \subseteq Plan!Joined(root.rets) THEN Len(root.plan) + 1 ELSE root.at + 1
           fr == [root EXCEPT !.rets = << >>, !.at = k]
<1>1. /\ PlanTypes /\ PlanNesting /\ << >> \in DOMAIN frames /\ Plan!Ended(<< >>) /\ root.rets # << >>
      /\ ~Plan!Closed /\ status = "running"
      /\ planKind' = planKind /\ completed' = completed /\ status' = status
      /\ isdone' = ("done" \in Plan!Joined(root.rets))
      /\ lost' = lost \cup Plan!Dropped(root.rets)
  BY DEF PlanInv, PlanStages, Plan!Idle, Plan!CommandStepEnds, Plan!Ended, Plan!Root
<1>2. root \in PlanFrame
  BY <1>1, Framed
<1>3. k \in Nat \ {0}
  BY <1>2 DEF PlanFrame
<1>4. frames' = [frames EXCEPT ![<< >>] = fr]
  BY <1>1, <1>2 DEF Plan!CommandStepEnds, Plan!Root, PlanTypes, PlanFrame
<1> HIDE DEF k
<1>5. fr \in PlanFrame /\ fr.rets = << >>
  BY <1>2, <1>3, Advanced
<1> HIDE DEF fr
<1>6. "failed" \in lost' => ~isdone'
  <2>1. "failed" \in lost' => "failed" \in lost
    BY <1>1 DEF Plan!Dropped
  <2>2. isdone
    BY <1>1 DEF PlanInv, PlanStages
  <2>3. QED
    BY <2>1, <2>2, <1>1, AtRoot
<1>7. completed' \in Seq(Seq(Plan!Task))
  BY <1>1 DEF PlanTypes
<1>8. QED
  BY <1>1, <1>4, <1>5, <1>6, <1>7, RootSet

LEMMA CommandEndsStep ==
    ASSUME PlanInv, Plan!NoPlan \/ Plan!CommandCrashes \/ Plan!CommandDone
                    \/ Plan!ClosedCancelled \/ Plan!ClosedDone
    PROVE  PlanInv'
<1>1. planKind' = planKind /\ completed' = completed /\ isdone' = isdone /\ lost' = lost
      /\ completed' \in Seq(Seq(Plan!Task))
  BY DEF PlanInv, PlanTypes, Plan!NoPlan, Plan!CommandCrashes, Plan!CommandDone,
         Plan!ClosedCancelled, Plan!ClosedDone, Plan!progress
<1>2. CASE Plan!NoPlan \/ Plan!CommandCrashes
  <2>1. Plan!Over("error")
    BY <1>2 DEF Plan!NoPlan, Plan!CommandCrashes
  <2>2. QED
    BY <2>1, <1>1, OverKeeps
<1>3. CASE Plan!CommandDone
  <2>1. PICK s \in {"aborted", "success", "failed"} : Plan!Over(s) /\ (s = "success" => isdone)
    BY <1>3 DEF Plan!CommandDone
  <2>2. << >> \in DOMAIN frames /\ frames[<< >>].rets = << >> /\ ~Plan!Closed
    BY <1>3 DEF Plan!CommandDone, Plan!RootAt, Plan!Idle, Plan!Root
  <2>3. s = "success" => "failed" \notin lost'
    BY <2>1, <2>2, <1>1, AtRoot
  <2>4. QED
    BY <2>1, <2>3, <1>1, OverKeeps
<1>4. CASE Plan!ClosedCancelled \/ Plan!ClosedDone
  <2>1. PICK s \in {"aborted", "success", "failed"} : Plan!Over(s)
    BY <1>4 DEF Plan!ClosedCancelled, Plan!ClosedDone
  <2>2. Plan!Closed
    BY <1>4 DEF Plan!ClosedCancelled, Plan!ClosedDone
  <2>3. QED
    BY <2>1, <2>2, <1>1, OverKeeps
<1>5. QED
  BY <1>2, <1>3, <1>4

\* The frame of a plan from its k-th step on.
LEMMA FrameAt ==
    ASSUME NEW f \in PlanFrame, NEW k \in Nat \ {0}
    PROVE  [f EXCEPT !.at = k] \in PlanFrame /\ [f EXCEPT !.at = k].rets = f.rets
  BY DEF PlanFrame

\* The steps of the closed loop.
LEMMA ReplanKeeps ==
    ASSUME PlanInv, << >> \in DOMAIN frames, frames[<< >>].rets = << >> \/ Plan!Ended(<< >>),
           status = "running", Plan!Replan, Plan!Closed, "estop" \notin lost,
           planKind' = planKind, completed' = completed, lost' = lost
    PROVE  PlanInv'
<1>1. completed \in Seq(Seq(Plan!Task))
  BY DEF PlanInv, PlanTypes
<1>2. CASE Plan!Over("failed")
  BY <1>1, <1>2, OverKeeps
<1>3. ASSUME NEW rest \in Plans \cup {<< >>}, UNCHANGED status,
             frames' = [frames EXCEPT ![Plan!Root] =
                           [Plan!Frame(completed \o rest, 0) EXCEPT !.at = Len(completed) + 1]]
      PROVE  PlanInv'
  <2> DEFINE fr == [Plan!Frame(completed \o rest, 0) EXCEPT !.at = Len(completed) + 1]
  <2>1. rest \in Seq(Seq(Plan!Task))
    BY PlansAssumption, EmptySeq
  <2>2. completed \o rest \in Seq(Seq(Plan!Task)) /\ Len(completed) + 1 \in Nat \ {0}
    BY <2>1, <1>1
  <2>3. /\ Plan!Frame(completed \o rest, 0) \in PlanFrame
        /\ Plan!Frame(completed \o rest, 0).rets = << >>
    BY <2>2, EmptySeq DEF Plan!Frame, PlanFrame
  <2>4. fr \in PlanFrame /\ fr.rets = << >>
    BY <2>2, <2>3, FrameAt
  <2>5. frames' = [frames EXCEPT ![<< >>] = fr]
    BY <1>3 DEF Plan!Root
  <2> HIDE DEF fr
  <2>6. QED
    BY <2>4, <2>5, <1>1, <1>3, RootSet
<1>4. QED
  BY <1>2, <1>3 DEF Plan!Replan

\* What is open depends on the plans only.
LEMMA PendingSame ==
    ASSUME frames' = frames, planKind' = planKind, NEW x
    PROVE  Pending(x)' <=> Pending(x)
<1>1. \A p : Plan!Step(p)' = Plan!Step(p)
  BY DEF Plan!Step
<1>2. \A p, m, r : Plan!Forgiven(p, m, r)' = Plan!Forgiven(p, m, r)
  BY <1>1 DEF Plan!Forgiven
<1>3. \A p, m, r : Plan!Lost(p, m, r)' = Plan!Lost(p, m, r)
  BY <1>1, <1>2 DEF Plan!Lost
<1>4. QED
  BY <1>3 DEF Pending

LEMMA PlanReadStep ==
    ASSUME PlanInv, Plan!PlanRead
    PROVE  PlanInv'
<1>1. /\ frames' = frames /\ planKind' = planKind /\ completed' = completed /\ isdone' = isdone
      /\ lost' = lost /\ status' = "running" /\ status = "new" /\ ~Plan!Closed
  BY DEF Plan!PlanRead, Plan!progress
<1>2. PlanTypes' /\ PlanNesting'
  BY <1>1 DEF PlanInv, PlanTypes, PlanNesting, Under, Plan!Step
<1>5. FailurePending'
  BY <1>1, PendingSame DEF PlanInv, FailurePending, Plan!Closed
<1>3. PlanStages' /\ Plan!NoFailureHidden'
  BY <1>1 DEF PlanInv, PlanStages, Plan!NoFailureHidden, Plan!Idle, Plan!Root, Plan!Closed
<1>4. QED
  BY <1>2, <1>3, <1>5 DEF PlanInv

LEMMA PlannedStep ==
    ASSUME PlanInv, Plan!Planned \/ Plan!Certified
    PROVE  PlanInv'
<1>1. /\ planKind' = planKind /\ completed' = completed /\ isdone' = isdone /\ lost' = lost
      /\ status \in {"new", "certify"} /\ Plan!Closed
      /\ << >> \in DOMAIN frames /\ frames[<< >>].rets = << >>
      /\ PlanTypes /\ PlanNesting /\ completed' \in Seq(Seq(Plan!Task))
  BY DEF PlanInv, PlanTypes, PlanStages, Plan!Idle, Plan!Root, Plan!Planned, Plan!Certified,
         Plan!progress
<1>2. "estop" \notin lost
  BY <1>1, AtRoot
<1>3. frames[<< >>] \in PlanFrame
  BY <1>1, Framed
<1>4. ASSUME NEW s \in {"failed", "planned"}, Plan!Over(s)
      PROVE  PlanInv'
  BY <1>1, <1>4, OverKeeps
<1>5. ASSUME NEW plan \in Plans \cup {<< >>}, frames' = [frames EXCEPT ![Plan!Root].plan = plan],
             status' \in {"certify", "running"}
      PROVE  PlanInv'
  <2> DEFINE fr == [frames[<< >>] EXCEPT !.plan = plan]
  <2>1. plan \in Seq(Seq(Plan!Task))
    BY PlansAssumption, EmptySeq
  <2>2. fr \in PlanFrame /\ fr.rets = << >>
    BY <2>1, <1>1, <1>3 DEF PlanFrame
  <2>3. frames' = [frames EXCEPT ![<< >>] = fr]
    BY <1>1, <1>5 DEF PlanTypes, Plan!Root
  <2> HIDE DEF fr
  <2>4. QED
    BY <2>2, <2>3, <1>1, <1>2, <1>5, RootSet
<1>6. ASSUME frames' = frames, status' = "running"
      PROVE  PlanInv'
  <2>1. frames' = [frames EXCEPT ![<< >>] = frames[<< >>]]
    BY <1>1, <1>6 DEF PlanTypes
  <2>2. QED
    BY <2>1, <1>1, <1>2, <1>3, <1>6, RootSet
<1>7. CASE Plan!Planned
  BY <1>4, <1>5, <1>7 DEF Plan!Planned
<1>8. CASE Plan!Certified
  BY <1>4, <1>5, <1>6, <1>8 DEF Plan!Certified
<1>9. QED
  BY <1>7, <1>8

LEMMA NextAtRoot ==
    ASSUME PlanInv, << >> \in DOMAIN frames, frames[<< >>].rets = << >> \/ Plan!Ended(<< >>),
           frames[<< >>].at <= Len(frames[<< >>].plan),
           status = "running", status' = status, Plan!Next1(<< >>), Plan!Completes, Plan!Closed,
           "estop" \notin lost, planKind' = planKind, lost' = lost
    PROVE  PlanInv'
<1> DEFINE root == frames[<< >>]
           fr == [root EXCEPT !.rets = << >>, !.at = root.at + 1]
<1>1. PlanTypes /\ PlanNesting /\ root \in PlanFrame /\ completed \in Seq(Seq(Plan!Task))
  BY Framed DEF PlanInv, PlanTypes
<1>2. root.plan \in Seq(Seq(Plan!Task)) /\ root.at \in Nat \ {0} /\ root.at + 1 \in Nat \ {0}
  BY <1>1 DEF PlanFrame
<1>3. fr \in PlanFrame /\ fr.rets = << >>
  BY <1>1, <1>2, Advanced
<1>4. frames' = [frames EXCEPT ![<< >>] = fr]
  BY <1>1 DEF Plan!Next1, PlanTypes, PlanFrame
<1>5. Plan!Step(<< >>) \in Seq(Plan!Task)
  BY <1>2 DEF Plan!Step
<1>6. completed' \in Seq(Seq(Plan!Task))
  BY <1>1, <1>5 DEF Plan!Completes, Plan!Root
<1> HIDE DEF fr
<1>7. QED
  BY <1>3, <1>4, <1>6, RootSet

LEMMA ClosedStepStep ==
    ASSUME PlanInv, Plan!ClosedStep
    PROVE  PlanInv' /\ "estop" \notin lost
<1>1. /\ PlanTypes /\ PlanNesting /\ << >> \in DOMAIN frames /\ frames[<< >>].rets = << >>
      /\ status = "running" /\ Plan!Closed /\ planKind' = planKind /\ isdone' = isdone
  BY DEF PlanInv, Plan!ClosedStep, Plan!RootAt, Plan!Idle, Plan!Root
<1>2. frames[<< >>].at <= Len(frames[<< >>].plan)
  <2>1. frames[<< >>].plan \in Seq(Seq(Plan!Task)) /\ frames[<< >>].at \in Nat
    BY <1>1, Framed DEF PlanFrame
  <2>2. ~(frames[<< >>].at > Len(frames[<< >>].plan))
    BY DEF Plan!ClosedStep, Plan!PlanOver, Plan!Root
  <2>3. QED
    BY <2>1, <2>2
<1>3. "estop" \notin lost
  BY <1>1, AtRoot
<1>4. CASE Plan!Next1(<< >>) /\ Plan!Completes /\ status' = status /\ lost' = lost
  BY <1>1, <1>2, <1>3, <1>4, NextAtRoot
<1>5. CASE Plan!Replan /\ completed' = completed /\ lost' = lost
  BY <1>1, <1>3, <1>5, ReplanKeeps
<1>6. CASE Plan!Starts(<< >>) /\ completed' = completed /\ status' = status
  <2>1. /\ PlanTypes' /\ PlanNesting' /\ << >> \in DOMAIN frames'
        /\ \A x : (Pending(x) => Pending(x)') /\ (x \in lost' => x \in lost \/ Pending(x)')
    BY <1>1, <1>2, <1>6, StartsKeeps
  <2>2. QED
    BY <2>1, <1>1, <1>3, <1>6, RunGoesOn
<1>7. \/ Plan!Next1(<< >>) /\ Plan!Completes /\ status' = status /\ lost' = lost
      \/ Plan!Replan /\ completed' = completed /\ lost' = lost
      \/ Plan!Starts(<< >>) /\ completed' = completed /\ status' = status
  BY DEF Plan!ClosedStep, Plan!Root
<1>8. QED
  BY <1>3, <1>4, <1>5, <1>6, <1>7

LEMMA ClosedStepEndsStep ==
    ASSUME PlanInv, Plan!ClosedStepEnds
    PROVE  PlanInv' /\ ("estop" \in lost => Plan!Over("aborted") \/ Plan!Over("failed"))
                    /\ ("estop" \in lost => replans' = replans)
<1>1. /\ PlanTypes /\ PlanNesting /\ << >> \in DOMAIN frames /\ frames[<< >>].rets # << >>
      /\ Plan!Ended(<< >>) /\ Plan!Closed
      /\ planKind' = planKind /\ isdone' = isdone /\ lost' = lost
  BY DEF PlanInv, Plan!ClosedStepEnds, Plan!Ended, Plan!Root
<1>2. status = "running" /\ frames[<< >>].at <= Len(frames[<< >>].plan)
  BY <1>1 DEF PlanInv, PlanStages, PlanNesting, Plan!Idle, Plan!Root
<1>3. "estop" \in lost =>
          "estop" \in frames[<< >>].rets[1] /\ "done" \notin frames[<< >>].rets[1]
  BY <1>1, AtRoot
<1>4. completed \in Seq(Seq(Plan!Task))
  BY <1>1 DEF PlanTypes
<1>5. CASE (Plan!Over("aborted") \/ Plan!Over("failed")) /\ UNCHANGED <<completed, replans>>
  BY <1>1, <1>4, <1>5, OverKeeps
<1>6. CASE /\ "done" \in frames[<< >>].rets[1]
           /\ Plan!Next1(<< >>) /\ Plan!Completes /\ status' = status
  BY <1>1, <1>2, <1>3, <1>6, NextAtRoot
<1>7. CASE Plan!Retries(frames[<< >>].rets[1]) /\ Plan!Replan /\ completed' = completed
  <2>1. "estop" \notin lost
    BY <1>3, <1>7 DEF Plan!Retries
  <2>2. QED
    BY <2>1, <1>1, <1>2, <1>7, ReplanKeeps
<1>8. QED
  BY <1>5, <1>6, <1>7 DEF Plan!ClosedStepEnds, Plan!Root

\* Every step keeps the invariant, and it holds first.
LEMMA PlanStep ==
    ASSUME PlanInv, [Plan!Next]_planVars
    PROVE  PlanInv'
<1>1. CASE Plan!Cancel \/ UNCHANGED planVars
  <2>1. /\ frames' = frames /\ planKind' = planKind /\ completed' = completed /\ isdone' = isdone
        /\ lost' = lost /\ status' = status
    BY <1>1 DEF Plan!Cancel, planVars, Plan!progress
  <2>2. PlanTypes' /\ PlanNesting'
    BY <2>1 DEF PlanInv, PlanTypes, PlanNesting, Under, Plan!Step
  <2>5. FailurePending'
    BY <2>1, PendingSame DEF PlanInv, FailurePending, Plan!Closed
  <2>3. PlanStages' /\ Plan!NoFailureHidden'
    BY <2>1 DEF PlanInv, PlanStages, Plan!NoFailureHidden, Plan!Idle, Plan!Root, Plan!Closed
  <2>4. QED
    BY <2>2, <2>3, <2>5 DEF PlanInv
<1>2. CASE Plan!Runs
  BY <1>2, SkillReturnsStep, AgentReturnsStep, PlanSkillStepStep, PlanSkillStepEndsStep,
     CommandStepStep, CommandStepEndsStep, CommandEndsStep, PlanReadStep, PlannedStep,
     ClosedStepStep, ClosedStepEndsStep DEF Plan!Runs
<1>3. QED
  BY <1>1, <1>2 DEF Plan!Next

LEMMA PlanInit == Plan!Init => PlanInv
<1> SUFFICES ASSUME Plan!Init PROVE PlanInv
  OBVIOUS
<1>1. PICK plan \in Seq(Seq(Plan!Task)) : frames = [p \in {<< >>} |-> Plan!Frame(plan, 0)]
  BY PlansAssumption, EmptySeq DEF Plan!Init, Plan!Root
<1>2. DOMAIN frames = {<< >>} /\ frames[<< >>] = Plan!Frame(plan, 0)
  BY <1>1
<1>3. Plan!Frame(plan, 0) \in PlanFrame /\ Plan!Frame(plan, 0).rets = << >>
  BY EmptySeq DEF Plan!Frame, PlanFrame
<1>4. completed = << >> /\ isdone = TRUE /\ status = "new" /\ lost = { }
  BY DEF Plan!Init
<1>5. PlanTypes
  <2>1. << >> \in Seq(Nat) /\ completed \in Seq(Seq(Plan!Task))
    BY <1>4, EmptySeq
  <2>2. QED
    BY <2>1, <1>1, <1>2, <1>3 DEF PlanTypes
<1>6. PlanNesting
  <2>1. Len(<< >>) = 0
    BY EmptySeq
  <2>2. QED
    BY <2>1, <1>2, <1>3 DEF PlanNesting
<1>7. PlanStages
  BY <1>2, <1>3, <1>4 DEF PlanStages, Plan!Idle, Plan!Root
<1>8. FailurePending /\ Plan!NoFailureHidden
  BY <1>4 DEF FailurePending, Plan!NoFailureHidden
<1>9. QED
  BY <1>5, <1>6, <1>7, <1>8 DEF PlanInv

(***************************************************************************)
(* PlanInv is an invariant: plans nest, and no failure is lost on its way up. *)
(***************************************************************************)
THEOREM PlanInvariant == Plan!Spec => []PlanInv
<1>1. PlanInv /\ [Plan!Next]_(Plan!vars) => PlanInv'
  BY PlanStep DEF Plan!vars, planVars, Plan!progress
<1>2. QED
  BY PlanInit, <1>1, PTL DEF Plan!Spec

(***************************************************************************)
(* NoFailureHidden: a typed plan or an open-loop plan that ends in success *)
(* called no skill, however deep in plan skills and groups, that failed without *)
(* a `!` on the way to it (plan_skill.run_plan_skill, UnifiedAgent.run_direct). *)
(***************************************************************************)
THEOREM FailuresShown == Plan!Spec => []NoFailureHidden
<1>1. PlanInv => NoFailureHidden
  BY DEF PlanInv, NoFailureHidden
<1>2. QED
  BY PlanInvariant, <1>1, PTL

\* The order of the naturals, as a set of pairs.
Less == {ss \in Nat \X Nat : ss[1] < ss[2]}

\* Induction over the naturals, from their well-foundedness.
LEMMA Induct ==
    ASSUME NEW S, 0 \in S, \A n \in Nat : n \in S => n + 1 \in S
    PROVE  \A n \in Nat : n \in S
<1> SUFFICES ASSUME Nat \ S # {} PROVE FALSE
  OBVIOUS
<1>0. IsWellFoundedOn(Less, Nat)
  <2>1. OpToRel(<, Nat) = Less
    BY DEF OpToRel, Less
  <2>2. QED
    BY <2>1, NatLessThanWellFounded
<1>1. PICK x \in Nat \ S : \A y \in Nat \ S : <<y, x>> \notin Less
  BY <1>0, WFMin
<1>2. x # 0 /\ x - 1 \in Nat
  BY <1>1
<1>3. x - 1 \notin S
  BY <1>2, (x - 1) + 1 = x
<1>4. <<x - 1, x>> \in Less
  BY <1>2 DEF Less
<1>5. QED
  BY <1>1, <1>2, <1>3, <1>4

\* Two paths that agree on their first k members.
LEMMA SamePrefix ==
    ASSUME NEW f \in Seq(Nat), NEW p \in Seq(Nat), NEW k \in Nat, k <= Len(f), k <= Len(p),
           \A j \in 1..k : f[j] = p[j]
    PROVE  /\ SubSeq(f, 1, k) = SubSeq(p, 1, k)
           /\ k = Len(p) => SubSeq(f, 1, k) = p
           /\ k = Len(f) => SubSeq(p, 1, k) = f
<1> DEFINE s == SubSeq(f, 1, k)
           t == SubSeq(p, 1, k)
<1>1. s \in Seq(Nat) /\ Len(s) = k /\ \A j \in 1..k : s[j] = f[j]
  OBVIOUS
<1>2. t \in Seq(Nat) /\ Len(t) = k /\ \A j \in 1..k : t[j] = p[j]
  OBVIOUS
<1>3. k = Len(p) => t = p
  OBVIOUS
<1>4. k = Len(f) => s = f
  OBVIOUS
<1> HIDE DEF s, t
<1>5. \A j \in 1..Len(s) : s[j] = t[j]
  BY <1>1, <1>2
<1>6. s = t
  BY <1>1, <1>2, <1>5, SeqEqual
<1>7. QED
  BY <1>3, <1>4, <1>6 DEF s, t

(***************************************************************************)
(* After an emergency stop in a plan of single steps, the plans still executed *)
(* are those that called the skill which was stopped, one from the other: none *)
(* has a step to begin, and what runs is a plan skill.                     *)
(***************************************************************************)
LEMMA OnlyCallers ==
    ASSUME PlanInv, Plan!Closed, "estop" \in lost, NEW f \in DOMAIN frames
    PROVE  /\ frames[f].rets # << >>
           /\ \A m \in DOMAIN frames[f].rets : Plan!Returned(frames[f].rets[m]) \/ Under(f, m)
<1>1. PlanTypes /\ PlanNesting /\ FailurePending
  BY DEF PlanInv
<1>2. PICK p \in DOMAIN frames : \E m \in DOMAIN frames[p].rets :
          "estop" \in Plan!Lost(p, m, frames[p].rets[m])
  BY <1>1 DEF FailurePending, Pending
<1>3. PICK m \in DOMAIN frames[p].rets : "estop" \in Plan!Lost(p, m, frames[p].rets[m])
  BY <1>2
<1>4. f \in Seq(Nat) /\ p \in Seq(Nat) /\ m \in Nat
  BY <1>1, Framed
<1>5. \A k \in 0..Len(p) : Len(Plan!Step(SubSeq(p, 1, k))) = 1
  BY <1>3 DEF Plan!Lost
<1>6. ASSUME NEW k \in 0..Len(p), SubSeq(p, 1, k) \in DOMAIN frames,
             frames[SubSeq(p, 1, k)].rets # << >>
      PROVE  DOMAIN frames[SubSeq(p, 1, k)].rets = {1}
  <2> DEFINE g == SubSeq(p, 1, k)
  <2>1. Len(frames[g].rets) = 1
    BY <1>1, <1>5, <1>6 DEF PlanNesting
  <2>2. DOMAIN frames[g].rets = 1..Len(frames[g].rets)
    BY <1>1, <1>6, Framed
  <2>3. QED
    BY <2>1, <2>2
<1>7. frames[p].rets # << >> /\ DOMAIN frames[p].rets = {1} /\ Plan!Returned(frames[p].rets[1])
  <2>1. DOMAIN << >> = { }
    OBVIOUS
  <2>2. frames[p].rets # << >>
    BY <2>1, <1>3
  <2>3. SubSeq(p, 1, Len(p)) = p /\ Len(p) \in 0..Len(p)
    BY <1>4
  <2>4. DOMAIN frames[p].rets = {1}
    BY <2>2, <2>3, <1>6
  <2>5. Plan!Returned(frames[p].rets[m])
    <3>1. ASSUME NEW r, "estop" \in Plan!Lost(p, m, r)
          PROVE  Plan!Returned(r)
      <4>1. r \cap {"done", "raised", "running", "agent"} = { }
        BY <3>1, <1>4, NotForgiven
      <4>2. QED
        BY <4>1 DEF Plan!Returned
    <3>2. QED
      BY <3>1, <1>3
  <2>6. QED
    BY <2>2, <2>4, <2>5
<1>8. \A n : ~Under(p, n)
  BY <1>7 DEF Under, Plan!Returned
<1> DEFINE S == {k \in Nat : k <= Len(f) => k <= Len(p) /\ \A j \in 1..k : f[j] = p[j]}
<1>9. 0 \in S
  BY <1>4
<1>10. ASSUME NEW k \in Nat, k \in S
       PROVE  k + 1 \in S
  <2> SUFFICES ASSUME k + 1 <= Len(f)
               PROVE  k + 1 <= Len(p) /\ \A j \in 1..k + 1 : f[j] = p[j]
    OBVIOUS
  <2>1. k <= Len(f) /\ k <= Len(p) /\ \A j \in 1..k : f[j] = p[j]
    BY <1>4, <1>10
  <2>2. SubSeq(f, 1, k) = SubSeq(p, 1, k) /\ (k = Len(p) => SubSeq(f, 1, k) = p)
    BY <2>1, <1>4, SamePrefix
  <2>3. k + 1 \in 1..Len(f) /\ (k + 1) - 1 = k
    BY <1>4
  <2>4. Under(SubSeq(f, 1, k), f[k + 1])
    BY <2>3, <1>1, Framed
  <2>5. k # Len(p)
    BY <2>2, <2>4, <1>8
  <2>6. k + 1 \in 1..Len(p) /\ k \in 0..Len(p)
    BY <2>1, <2>5, <1>4
  <2>7. Under(SubSeq(p, 1, k), p[k + 1])
    BY <2>3, <2>6, <1>1, Framed
  <2>8. DOMAIN frames[SubSeq(p, 1, k)].rets = {1}
    <3>1. frames[SubSeq(p, 1, k)].rets # << >>
      BY <2>7 DEF Under
    <3>2. QED
      BY <3>1, <2>6, <2>7, <1>6 DEF Under
  <2>9. f[k + 1] = p[k + 1]
    BY <2>2, <2>4, <2>7, <2>8 DEF Under
  <2>10. QED
    BY <2>1, <2>6, <2>9
<1>11. Len(f) \in S
  <2> HIDE DEF S
  <2>1. \A n \in Nat : n \in S
    BY <1>9, <1>10, Induct
  <2>2. QED
    BY <2>1, <1>4
<1>12. Len(f) <= Len(p) /\ \A j \in 1..Len(f) : f[j] = p[j]
  BY <1>4, <1>11
<1>13. SubSeq(p, 1, Len(f)) = f /\ (Len(f) = Len(p) => f = p) /\ Len(f) \in 0..Len(p)
  <2>1. Len(f) \in Nat /\ Len(f) <= Len(f)
    BY <1>4
  <2>2. SubSeq(p, 1, Len(f)) = f
    BY <2>1, <1>4, <1>12, SamePrefix
  <2>3. SubSeq(p, 1, Len(p)) = p
    BY <1>4
  <2>4. Len(f) = Len(p) => f = p
    BY <2>2, <2>3, Zenon
  <2>5. Len(f) \in 0..Len(p)
    BY <2>1, <1>4, <1>12
  <2>6. QED
    BY <2>2, <2>4, <2>5
<1>14. CASE Len(f) = Len(p)
  BY <1>7, <1>13, <1>14
<1>15. CASE Len(f) # Len(p)
  <2>1. Len(f) + 1 \in 1..Len(p) /\ (Len(f) + 1) - 1 = Len(f)
    BY <1>4, <1>13, <1>15
  <2>2. Under(f, p[Len(f) + 1])
    BY <2>1, <1>1, <1>13, Framed
  <2>3. frames[f].rets # << >>
    BY <2>2 DEF Under
  <2>4. DOMAIN frames[f].rets = {1}
    BY <2>3, <1>6, <1>13
  <2>5. QED
    BY <2>2, <2>3, <2>4 DEF Under
<1>16. QED
  BY <1>14, <1>15

\* The members that run, and what a returned result becomes.
LEMMA RunningIs ==
    /\ \A z : z \in Plan!Running <=>
          \E p \in DOMAIN frames : \E m \in DOMAIN frames[p].rets :
              ~Plan!Returned(frames[p].rets[m]) /\ z = <<p, m>>
    /\ \A z : z \in Plan!Running' <=>
          \E p \in DOMAIN frames' : \E m \in DOMAIN frames'[p].rets :
              ~Plan!Returned(frames'[p].rets[m]) /\ z = <<p, m>>
  BY DEF Plan!Running, Plan!Returned

LEMMA ResultReturned ==
    ASSUME Plan!Closed, NEW p, NEW t, NEW r, Plan!Returned(r)
    PROVE  Plan!Returned(Plan!Result(p, t, r))
  BY DEF Plan!Closed, Plan!Returned, Plan!Result, Plan!Marked

\* A step after an emergency stop starts nothing and asks for no plan.
LEMMA EstopStep ==
    ASSUME PlanInv, [Plan!Next]_planVars, Plan!Closed, "estop" \in lost
    PROVE  Plan!Running' \subseteq Plan!Running /\ UNCHANGED replans
<1>1. /\ PlanTypes /\ PlanNesting
      /\ \A f \in DOMAIN frames : f \in Seq(Nat) /\ DOMAIN frames[f].rets \subseteq Nat /\ frames[f].rets # << >>
      /\ \A f \in DOMAIN frames : \A m \in DOMAIN frames[f].rets :
            Plan!Returned(frames[f].rets[m]) \/ Under(f, m)
  BY OnlyCallers, Framed DEF PlanInv
<1>2. CASE Plan!Cancel \/ UNCHANGED planVars
  <2>1. frames' = frames /\ replans' = replans
    BY <1>2 DEF Plan!Cancel, planVars, Plan!progress
  <2>2. QED
    BY <2>1, RunningIs
<1>3. ASSUME NEW p \in DOMAIN frames, NEW m \in DOMAIN frames[p].rets, Plan!SkillReturns(p, m)
      PROVE  FALSE
  <2>1. frames[p].rets[m] = {"running"} /\ Plan!Step(p)[m].skill \in Code
    BY <1>3 DEF Plan!SkillReturns
  <2>2. QED
    BY <2>1, <1>1, PlansAssumption DEF Under, Plan!Returned
<1>4. ASSUME NEW m, Plan!AgentReturns(m)
      PROVE  FALSE
  BY <1>1, <1>4 DEF Plan!AgentReturns, Plan!Returned, Under
<1>5. ASSUME NEW p \in DOMAIN frames, Plan!PlanSkillStep(p)
      PROVE  FALSE
  BY <1>1, <1>5 DEF Plan!PlanSkillStep, Plan!Idle
<1>6. ASSUME NEW p \in DOMAIN frames, Plan!PlanSkillStepEnds(p)
      PROVE  Plan!Running' \subseteq Plan!Running /\ UNCHANGED replans
  <2> DEFINE rs == frames[p].rets
             r == Plan!Joined(rs) \ {"raised"}
             q == Plan!Front(p)
             n == Plan!Last(p)
             v == Plan!Result(q, Plan!Step(q)[n], r)
  <2>1. p # << >> /\ Plan!Ended(p) /\ replans' = replans
    BY <1>6 DEF Plan!PlanSkillStepEnds, Plan!Root, Plan!progress
  <2>2. CASE Plan!Returns(p, r)
    <3>1. Plan!Returned(r)
      <4>1. Len(rs) = 1 => 1 \in DOMAIN rs
        BY <1>1, Framed
      <4>2. Plan!Returned(Plan!Joined(rs))
        BY <4>1, <2>1 DEF Plan!Joined, Plan!AllDone, Plan!Returned, Plan!Ended
      <4>3. QED
        BY <4>2 DEF Plan!Returned
    <3>2. Plan!Returned(v)
      BY <3>1, ResultReturned
    <3>3. q \in DOMAIN frames /\ frames[q] \in PlanFrame
      BY <1>1, <2>1, Framed
    <3> HIDE DEF r, v
    <3>4. /\ DOMAIN frames' = DOMAIN frames \ {p}
          /\ \A f \in DOMAIN frames' : f # q => frames'[f] = frames[f]
          /\ frames'[q].rets = [frames[q].rets EXCEPT ![n] = v] \/ q \notin DOMAIN frames'
      BY <3>3, <2>2 DEF Plan!Returns, v, PlanFrame
    <3>5. ASSUME NEW f \in DOMAIN frames', NEW m \in DOMAIN frames'[f].rets,
                 ~Plan!Returned(frames'[f].rets[m])
          PROVE  f \in DOMAIN frames /\ m \in DOMAIN frames[f].rets /\ ~Plan!Returned(frames[f].rets[m])
      <4>1. CASE f # q
        BY <3>4, <3>5, <4>1
      <4>2. CASE f = q
        BY <3>2, <3>4, <3>5, <4>2
      <4>3. QED
        BY <4>1, <4>2
    <3>6. QED
      BY <3>5, <2>1, RunningIs
  <2>3. CASE Plan!Next1(p)
    <3>1. frames[p] \in PlanFrame
      BY <1>1, Framed
    <3>2. /\ DOMAIN frames' = DOMAIN frames
          /\ \A f \in DOMAIN frames' : f # p => frames'[f] = frames[f]
          /\ frames'[p].rets = << >>
      BY <3>1, <2>3, <1>1 DEF Plan!Next1, PlanFrame, PlanTypes
    <3>3. ASSUME NEW f \in DOMAIN frames', NEW m \in DOMAIN frames'[f].rets
          PROVE  f # p
      <4>1. DOMAIN << >> = { }
        OBVIOUS
      <4>2. QED
        BY <4>1, <3>2
    <3>4. QED
      BY <3>2, <3>3, <2>1, RunningIs
  <2>4. QED
    BY <2>2, <2>3, <1>6 DEF Plan!PlanSkillStepEnds
<1>7. ASSUME Plan!ClosedStepEnds
      PROVE  Plan!Running' \subseteq Plan!Running /\ UNCHANGED replans
  <2>1. frames' = << >> /\ replans' = replans
    BY <1>7, ClosedStepEndsStep DEF Plan!Over
  <2>2. DOMAIN frames' = { }
    BY <2>1
  <2>3. QED
    BY <2>1, <2>2, RunningIs
<1>8. ~(Plan!NoPlan \/ Plan!PlanRead \/ Plan!CommandStep \/ Plan!CommandStepEnds
        \/ Plan!CommandCrashes \/ Plan!CommandDone)
  BY DEF Plan!NoPlan, Plan!PlanRead, Plan!CommandStep, Plan!CommandStepEnds, Plan!CommandCrashes,
         Plan!CommandDone
<1>9. ~(Plan!Planned \/ Plan!Certified \/ Plan!ClosedCancelled \/ Plan!ClosedDone)
  BY <1>1 DEF PlanInv, PlanStages, Plan!Planned, Plan!Certified, Plan!ClosedCancelled,
              Plan!ClosedDone, Plan!RootAt, Plan!Idle, Plan!Root
<1>10. ~Plan!ClosedStep
  BY ClosedStepStep
<1>11. CASE Plan!Runs
  BY <1>3, <1>4, <1>5, <1>6, <1>7, <1>8, <1>9, <1>10, <1>11 DEF Plan!Runs
<1>12. QED
  BY <1>2, <1>11 DEF Plan!Next

(***************************************************************************)
(* EstopEnds: after an emergency stop of a skill, in whatever plan skill, the *)
(* closed loop starts no skill and asks for no plan (ClosedLoop._cl_failed). *)
(***************************************************************************)
THEOREM EstopEndsRun == Plan!Spec => EstopEnds
<1>1. PlanInv /\ [Plan!Next]_(Plan!vars)
          => [Plan!Closed /\ "estop" \in lost
                  => Plan!Running' \subseteq Plan!Running /\ UNCHANGED replans]_(Plan!vars)
  BY EstopStep DEF Plan!vars, planVars, Plan!progress
<1>2. QED
  BY PlanInvariant, <1>1, PTL DEF Plan!Spec, EstopEnds, Plan!EstopEnds
=============================================================================
