------------------------------- MODULE Listens -------------------------------
(***************************************************************************)
(* The listens of the dashboard (utils.py) under the questions of Dialog:  *)
(* the robot's thread of an ask says the question and waits, in the        *)
(* browser or at the robot's microphone, for one phrase, with the options  *)
(* on the screen or without.  Whoever answers, clicks, types or stops does *)
(* it in a thread of its own: each looks a slot up under the lock and      *)
(* writes to it afterwards, without it.                                    *)
(*                                                                         *)
(* The Ask skill itself is external: it speaks, may open the buttons,      *)
(* listens once, and closes them.  Of a recording and its transcript only  *)
(* matters whether there is a phrase in it; the notes are left out, and so *)
(* is "End Q&A", which ends no listen of an ask.                           *)
(***************************************************************************)
EXTENDS Dialog, FiniteSets

CONSTANT Dashboards  \* bound: the slots the skill opens, if it does, in one run or another

Slot == Ask \X {"speak", "listen", "choose"}

ASSUME DashboardsAssumption == Dashboards \subseteq SUBSET Slot

\* What a slot says: nothing yet, no answer (or an error of the browser's), a phrase
\* (written by the browser, made of its recording by speech_to_text, or the option
\* clicked), or the error of a Stop, which goes before any text and
\* which only a request of the browser takes back.
Said == {"none", "nothing", "phrase", "stopped"}

\* Who ends the waits of others: a click on the buttons of an ask, the
\* executive, a Stop.
Ender == Ask \cup {MaxAsks + 1, MaxAsks + 2}
Executive == MaxAsks + 1
Stopper == MaxAsks + 2

VARIABLES
    dashboard,  \* the slots it may open
    phase,      \* where the robot's thread of each ask stands
    result,     \* what it is going to return
    pending,    \* the keys of _LISTEN_PENDING
    slot,       \* what the slots say; the event of one that says something is set
    post,       \* the browser's request about each slot
    choiceMade, \* _CHOICE_MADE (an Event)
    looked,     \* which enders have looked for open waits
    snap        \* the slots each has found and not ended yet

waits == <<pending, slot>>
robot == <<phase, result>>
enders == <<looked, snap>>
listens == <<robot, waits, post, choiceMade, enders>>
lvars == <<vars, dashboard, listens>>

LInit ==
    /\ Init /\ dashboard \in Dashboards
    /\ phase = [n \in Ask |-> "none"] /\ result = [n \in Ask |-> "silent"]
    /\ pending = {} /\ slot = [s \in Slot |-> "none"]
    /\ post = [s \in Slot |-> "none"] /\ choiceMade = FALSE
    /\ looked = {} /\ snap = [h \in Ender |-> {}]

-----------------------------------------------------------------------------
(* The robot's thread: say_to_user, listen_dashboard, record_phrase.       *)

Goes(n, to) == phase' = [phase EXCEPT ![n] = to]
Opens(s) == s \in dashboard /\ pending' = pending \cup {s} /\ UNCHANGED slot
Closes(s) == pending' = pending \ {s}
\* Nobody reads the slot any more: what is still written to it makes no difference.
Forgets(s) ==
    /\ slot' = [slot EXCEPT ![s] = "none"]
    /\ post' = [post EXCEPT ![s] = IF s[2] = "choose" /\ @ # "none" THEN @ ELSE "done"]

\* The question is said by the robot, or by the browser without waiting, ...
Says(n) ==
    /\ io[n] = "saying" /\ phase[n] = "none"
    /\ Goes(n, "said")
    /\ UNCHANGED <<vars, result, waits, post, choiceMade, enders>>

\* ... or the browser reports when it has been spoken.
SpeakOpens(n) ==
    /\ io[n] = "saying" /\ phase[n] = "none"
    /\ Goes(n, "speaking") /\ Opens(<<n, "speak">>)
    /\ UNCHANGED <<vars, result, post, choiceMade, enders>>

SpeakEnds(n) ==
    /\ phase[n] = "speaking"
    /\ Goes(n, "said") /\ Closes(<<n, "speak">>) /\ Forgets(<<n, "speak">>)
    /\ UNCHANGED <<vars, result, choiceMade, enders>>
SpeakIsOver(n) == slot[<<n, "speak">>] # "none" /\ SpeakEnds(n)

\* choose_open.
ButtonsOpen(n) ==
    /\ phase[n] = "said" /\ <<n, "choose">> \notin pending
    /\ Opens(<<n, "choose">>) /\ choiceMade' = FALSE
    /\ UNCHANGED <<vars, robot, post, enders>>

ListenOpens(n) ==
    /\ phase[n] = "said" /\ IoListens(n)
    /\ Goes(n, "listening") /\ Opens(<<n, "listen">>)
    /\ UNCHANGED <<result, post, choiceMade, enders>>

\* The wait ends and the slot is taken out; its error and text are read later.
ListenEnds(n) ==
    /\ phase[n] = "listening"
    /\ Goes(n, "popped") /\ Closes(<<n, "listen">>)
    /\ UNCHANGED <<vars, result, slot, post, choiceMade, enders>>
ListenIsOver(n) == slot[<<n, "listen">>] # "none" /\ ListenEnds(n)

\* An error raises, which is no answer.
Phrase(s) == slot[s] = "phrase"
ListenReads(n) ==
    /\ phase[n] = "popped"
    /\ Goes(n, "ended")
    /\ result' = [result EXCEPT ![n] = IF Phrase(<<n, "listen">>) THEN "heard" ELSE "silent"]
    /\ Forgets(<<n, "listen">>)
    /\ UNCHANGED <<vars, pending, choiceMade, enders>>

\* record_phrase: the robot's own microphone, until it has a phrase, its time is
\* over, or a Stop or a click (`choiceMade`) cuts it; what it has is transcribed.
RecordStarts(n) ==
    /\ phase[n] = "said" /\ <<n, "listen">> \notin dashboard /\ IoListens(n)
    /\ Goes(n, "recording")
    /\ UNCHANGED <<result, waits, post, choiceMade, enders>>

\* segment_phrase: a phrase, or too little of one.
RecordEnds(n) ==
    /\ phase[n] = "recording"
    /\ Goes(n, "ended") /\ result' \in {[result EXCEPT ![n] = r] : r \in {"heard", "silent"}}
    /\ UNCHANGED <<vars, waits, post, choiceMade, enders>>

\* choose_result (a click goes before what was heard) and choose_close, if the
\* buttons are open.
Returns(n) ==
    /\ phase[n] = "ended"
    /\ LET s == <<n, "choose">>
       IN  /\ IoEnds(n) /\ io'[n] = IF Phrase(s) THEN "heard" ELSE result[n]
           /\ IF s \in pending
              THEN Closes(s) /\ Forgets(s) /\ choiceMade' = FALSE
              ELSE UNCHANGED <<waits, post, choiceMade>>
    /\ Goes(n, "over") /\ result' = [result EXCEPT ![n] = "silent"]
    /\ UNCHANGED <<enders>>

-----------------------------------------------------------------------------
(* The browser: POST /agent/listen/{id} (submit_transcript).               *)

Live(s) == s \in pending \/ (s[2] = "listen" /\ phase[s[1]] = "popped")
Write(s, v) == slot' = IF Live(s) THEN [slot EXCEPT ![s] = v] ELSE slot

\* A text, or a recording that is transcribed before it is written.
PostLooks(s) ==
    /\ s \in pending /\ post[s] = "none"
    /\ post' = [post EXCEPT ![s] = "found"]
    /\ UNCHANGED <<vars, robot, waits, choiceMade, enders>>

\* The text, or an error of the microphone; of the buttons, an option shown.
PostWrites(s) ==
    /\ post[s] = "found"
    /\ \E says \in {"nothing", "phrase"} :
        /\ Write(s, says)
        /\ post' = [post EXCEPT ![s] = IF s[2] = "choose" /\ says = "phrase" THEN "clicked" ELSE "done"]
    /\ UNCHANGED <<vars, robot, pending, choiceMade, enders>>

-----------------------------------------------------------------------------
(* _end_listens and cancel_pending_listens: the slots are looked up under  *)
(* the lock and ended one by one after it.                                 *)

Looks(h, found) ==
    /\ h \notin looked
    /\ looked' = looked \cup {h} /\ snap' = [snap EXCEPT ![h] = found]
    /\ UNCHANGED <<vars, robot, waits, post, choiceMade>>

OpenListens == {s \in pending : s[2] = "listen"}

\* A click stops the microphone, and then the listens.
ClickLooks(n) ==
    /\ post[<<n, "choose">>] = "clicked" /\ n \notin looked
    /\ post' = [post EXCEPT ![<<n, "choose">>] = "done"] /\ choiceMade' = TRUE
    /\ looked' = looked \cup {n} /\ snap' = [snap EXCEPT ![n] = OpenListens]
    /\ UNCHANGED <<vars, robot, waits>>

ReleaseLooks == pc = "release" /\ Looks(Executive, OpenListens)
StopLooks == cancel /\ Looks(Stopper, pending)

\* The slots in the order in which they were opened.
First(S) == CHOOSE s \in S : \A q \in S : s[1] < q[1] \/ (s[1] = q[1] /\ (s[2] # "listen" \/ q = s))

EndsWith(h, v) ==
    /\ snap[h] # {}
    /\ LET s == First(snap[h])
       IN  /\ snap' = [snap EXCEPT ![h] = @ \ {s}]
           /\ Write(s, IF slot[s] = "stopped" THEN "stopped" ELSE v)
    /\ UNCHANGED <<vars, robot, pending, post, choiceMade, looked>>

\* Mutant: the text is written and nobody is woken.
EndsUnheard(h) ==
    /\ snap[h] # {}
    /\ snap' = [snap EXCEPT ![h] = @ \ {First(snap[h])}]
    /\ UNCHANGED <<vars, robot, waits, post, choiceMade, looked>>

Ends(h) == EndsWith(h, IF h = Stopper THEN "stopped" ELSE "nothing")

\* The executive goes on when it has ended what it found.
Released ==
    /\ Executive \in looked /\ snap[Executive] = {}
    /\ Release /\ looked' = looked \ {Executive}
    /\ UNCHANGED <<robot, waits, post, choiceMade, snap>>

-----------------------------------------------------------------------------
\* The steps of Dialog that leave the listens alone.
DialogSteps ==
    /\ \/ AskQuestion \/ PollTyped \/ Join \/ CheckStop \/ WaitForRobot \/ LastLook \/ Leave \/ Withdraw
       \/ \E u \in Utterance : Classify(u) \/ Deliver(u)
       \/ Stop
    /\ UNCHANGED listens

\* The thread of a wait that somebody has ended is woken.
Wakes(n) == SpeakIsOver(n) \/ ListenIsOver(n)
Browser(s) == PostLooks(s) \/ PostWrites(s)
EndersRun ==
    \/ ReleaseLooks \/ StopLooks
    \/ \E n \in Ask : ClickLooks(n)
    \/ \E h \in Ender : Ends(h)

LSteps ==
    \/ DialogSteps \/ Released \/ EndersRun
    \/ \E n \in Ask : \/ Says(n) \/ SpeakOpens(n) \/ SpeakEnds(n)
                      \/ ButtonsOpen(n) \/ ListenOpens(n) \/ RecordStarts(n)
                      \/ ListenEnds(n) \/ ListenReads(n) \/ RecordEnds(n) \/ Returns(n)
    \/ \E s \in Slot : Browser(s)
LNext == LSteps /\ UNCHANGED dashboard

(***************************************************************************)
(* The threads of the executive, of the stops and of the clicks run, and   *)
(* who is woken leaves its wait.  No wait is over because of its timeout,  *)
(* nobody has to say, click, type or stop anything, and the skill need not *)
(* go on.                                                                  *)
(***************************************************************************)
ExecutiveRuns == (Proceed /\ pc # "release" /\ UNCHANGED listens) \/ Released \/ ReleaseLooks
LSpec ==
    /\ LInit /\ [][LNext]_lvars
    /\ WF_lvars(ExecutiveRuns /\ UNCHANGED dashboard)
    /\ WF_lvars(EndersRun /\ UNCHANGED dashboard)
    /\ \A n \in Ask : WF_lvars(Wakes(n) /\ UNCHANGED dashboard)

-----------------------------------------------------------------------------
(* Properties.                                                             *)

LTypeOK ==
    /\ TypeOK
    /\ phase \in [Ask -> {"none", "speaking", "said", "listening", "recording", "popped", "ended",
                          "over"}]
    /\ result \in [Ask -> {"heard", "silent"}] /\ pending \subseteq Slot
    /\ slot \in [Slot -> Said]
    /\ post \in [Slot -> {"none", "found", "clicked", "done"}]
    /\ looked \subseteq Ender /\ snap \in [Ender -> SUBSET Slot]

(***************************************************************************)
(* A wait that a Stop, a typed answer or a click finds open is over, though*)
(* nobody answers it and no timeout runs out, whatever the browser writes  *)
(* to it in between ("listen_dashboard would otherwise keep the plan       *)
(* alive", cancel_pending_listens).                                        *)
(***************************************************************************)
Waits(n) == {<<n, "speak">>, <<n, "listen">>} \cap pending
Found(n) == \E h \in Ender : Waits(n) \cap snap[h] # {}
ReleasedWaitsEnd == \A n \in Ask : Found(n) ~> Waits(n) = {}

(***************************************************************************)
(* cancel_pending_listens: "The waiter sees error='cancelled' and raises": *)
(* no answer of the browser takes that back.                               *)
(***************************************************************************)
CancelledListenRaises ==
    [][\A s \in Slot : slot[s] = "stopped" => slot'[s] # "phrase"]_lvars

(***************************************************************************)
(* "The robot's listen ends before the next skill starts" (dialog.py:79):  *)
(* when the executive goes on with a typed answer the ask listens no more. *)
(***************************************************************************)
ListenEndsWithAsk ==
    pc = "leave" /\ outcome[asks].kind = "typed" => phase[asks] \notin {"listening", "recording"}

(***************************************************************************)
(* "A click ... stops the listen in progress" (utils.py:494): that of its  *)
(* own ask, and no later one is cut off by a click made before.            *)
(***************************************************************************)
ClickEndsOwnListen ==
    \A n \in Ask : phase[n] = "recording" /\ choiceMade => <<n, "choose">> \in pending
=============================================================================
