------------------------------- MODULE WebPage -------------------------------
(***************************************************************************)
(* The page that serve_web_interface of src/web/server.rs sends, for one   *)
(* camera: its script runs one callback at a time, and answers of the      *)
(* server, timers, images and clicks come in any order.                    *)
(*                                                                         *)
(* The page rebuilds the card of the camera each time the list of cameras  *)
(* arrives; callbacks of the cards before it still run, on the elements    *)
(* they were made for.  A click on start ends, two seconds after its       *)
(* answer, in an interval that polls the image ten times a second; the     *)
(* page remembers one interval for each camera.                            *)
(***************************************************************************)
EXTENDS Naturals, FiniteSets

CONSTANTS
    Card,       \* cards; one is used again when nothing refers to it any more
    MaxCalls,   \* bound: calls of one kind in flight for a card
    None        \* no card, no interval

ASSUME PageAssumption == None \notin Card /\ None \notin Nat /\ MaxCalls \in Nat \ {0}

Handle == 1 .. 2
Call == {"info", "start", "delay", "stop"}

VARIABLES
    camera,     \* what the server says of it: free to change at any time
    lists,      \* answers to loadCameras that are awaited
    cur,        \* the card in the document
    btn,        \* the button it shows: "start", "stop" or "none"
    off,        \* its buttons that are disabled
    video,      \* the image of the card is displayed
    img,        \* its load: "none", "loading", or "cleared" by an empty src
    hook,       \* its handlers: "attr", or set by "info" or by "delay"
    pend,       \* pend[c][k]: calls of kind k in flight for card c
    ival,       \* the card of a live interval, None of others
    reg,        \* window.videoRefreshIntervals
    quiet       \* ghost: stopped with nothing in flight, and not started since

cardVars == <<btn, off, video, img, hook>>
vars == <<camera, lists, cur, cardVars, pend, ival, reg, quiet>>

Idle == [k \in Call |-> 0]
Live == {h \in Handle : ival[h] # None}

(* TypeOK: the types; a card never shows both of its buttons. *)
TypeOK ==
    /\ camera \in {"other", "streaming"}
    /\ lists \in 0 .. MaxCalls
    /\ cur \in Card \cup {None}
    /\ btn \in {"start", "stop", "none"}
    /\ off \subseteq {"start", "stop"}
    /\ video \in [Card -> BOOLEAN]
    /\ img \in [Card -> {"none", "loading", "cleared"}]
    /\ hook \in [Card -> {"attr", "info", "delay"}]
    /\ pend \in [Card -> [Call -> 0 .. MaxCalls]]
    /\ ival \in [Handle -> Card \cup {None}]
    /\ reg \in Handle \cup {None}
    /\ quiet \in BOOLEAN

-----------------------------------------------------------------------------
Begin(c, k) ==
    /\ pend[c][k] < MaxCalls
    /\ pend' = [pend EXCEPT ![c][k] = @ + 1]
Done(c, k) ==
    /\ pend[c][k] > 0
    /\ pend' = [pend EXCEPT ![c][k] = @ - 1]

(* mutant: the button that was shown is not hidden *)
ButtonsBoth(c, b, disabled) ==
    IF c = cur
    THEN btn' = (IF btn \in {b, "none"} THEN b ELSE "both") /\ off' = disabled
    ELSE UNCHANGED <<btn, off>>

(* The buttons of a card that is not in the document nobody sees. *)
Buttons(c, b, disabled) ==
    IF c = cur THEN btn' = b /\ off' = disabled ELSE UNCHANGED <<btn, off>>

(* clearInterval of the interval that is remembered, if there is one. *)
Cleared == IF reg = None THEN ival ELSE [ival EXCEPT ![reg] = None]

(* mutant: the interval before is left running *)
RepollKeeping(c) ==
    \E h \in Handle \ Live : ival' = [ival EXCEPT ![h] = c] /\ reg' = h

(* clearInterval, setInterval: the interval of card c is the one remembered. *)
Repoll(c) ==
    LET h == CHOOSE x \in Handle : Cleared[x] = None
    IN ival' = [Cleared EXCEPT ![h] = c] /\ reg' = h

(* Nothing refers to a card that is not in the document any more. *)
Unused ==
    {c \in Card : /\ c # cur /\ pend[c] = Idle /\ img[c] = "none"
                  /\ \A h \in Handle : ival[h] # c}

-----------------------------------------------------------------------------
(* loadCameras: on loading the page, every 30 seconds, and by a click. *)
loadCameras ==
    /\ lists < MaxCalls
    /\ lists' = lists + 1
    /\ UNCHANGED <<camera, cur, cardVars, pend, ival, reg, quiet>>

(* mutant: a card is made and nothing asked about its camera *)
ListedWithoutInfo ==
    /\ lists > 0 /\ Unused # {}
    /\ lists' = lists - 1
    /\ LET c == CHOOSE x \in Unused : TRUE IN
          /\ cur' = c
          /\ btn' = "start" /\ off' = {}
          /\ video' = [video EXCEPT ![c] = FALSE]
          /\ hook' = [hook EXCEPT ![c] = "attr"]
    /\ UNCHANGED <<camera, img, pend, ival, reg, quiet>>

(* The list has the camera: createCameraCard, and its information fetched.  *)
Listed ==
    /\ lists > 0 /\ Unused # {}
    /\ lists' = lists - 1
    /\ LET c == CHOOSE x \in Unused : TRUE IN
          /\ cur' = c
          /\ btn' = "start" /\ off' = {}
          /\ video' = [video EXCEPT ![c] = FALSE]
          /\ hook' = [hook EXCEPT ![c] = "attr"]
          /\ Begin(c, "info")
    /\ UNCHANGED <<camera, img, ival, reg, quiet>>

(* It has no camera, or does not come: the grid shows a text instead. *)
NotListed ==
    /\ lists > 0
    /\ lists' = lists - 1
    /\ cur' = None /\ btn' = "none" /\ off' = {}
    /\ UNCHANGED <<camera, video, img, hook, pend, ival, reg, quiet>>

-----------------------------------------------------------------------------
(* loadCameraInfo of a camera that is streaming: the image stays hidden     *)
(* behind the state of the buffer, and an interval is set.                  *)
InfoStreaming(c) ==
    /\ camera = "streaming" /\ Done(c, "info")
    /\ Buttons(c, "stop", off \ {"stop"})
    /\ video' = [video EXCEPT ![c] = FALSE]
    /\ hook' = [hook EXCEPT ![c] = "info"]
    /\ Repoll(c)
    /\ UNCHANGED <<camera, lists, cur, img, quiet>>

(* Of one that is only connected, or disconnected: the image is hidden and  *)
(* emptied.  An interval stays.                                             *)
InfoOther(c) ==
    /\ camera # "streaming" /\ Done(c, "info")
    /\ Buttons(c, "start", off \ {"start"}) \/ Buttons(c, "none", off)
    /\ video' = [video EXCEPT ![c] = FALSE]
    /\ img' = [img EXCEPT ![c] = "cleared"]
    /\ UNCHANGED <<camera, lists, cur, hook, ival, reg, quiet>>

(* No answer, or another code than 200: nothing. *)
InfoFails(c) ==
    /\ Done(c, "info")
    /\ UNCHANGED <<camera, lists, cur, cardVars, ival, reg, quiet>>

-----------------------------------------------------------------------------
Click(b) == cur # None /\ btn = b /\ b \notin off

startStreaming ==
    /\ Click("start") /\ Begin(cur, "start")
    /\ off' = off \cup {"start"}
    /\ quiet' = FALSE
    /\ UNCHANGED <<camera, lists, cur, btn, video, img, hook, ival, reg>>

(* 200: the stop button is shown, as enabled or disabled as it was, and a   *)
(* timer set.                                                               *)
Started(c) ==
    /\ pend[c]["start"] > 0 /\ pend[c]["delay"] < MaxCalls
    /\ pend' = [pend EXCEPT ![c]["start"] = @ - 1, ![c]["delay"] = @ + 1]
    /\ Buttons(c, "stop", off)
    /\ UNCHANGED <<camera, lists, cur, video, img, hook, ival, reg, quiet>>

(* Another code enables the button of the card, an exception that of the    *)
(* card that is in the document by now.                                     *)
NotDone(c, k) ==
    /\ Done(c, k)
    /\ off' \in {off \ {k}} \cup (IF c = cur THEN {} ELSE {off})
    /\ UNCHANGED <<camera, lists, cur, btn, video, img, hook, ival, reg, quiet>>

(* Two seconds later the image is displayed and polled. *)
Delayed(c) ==
    /\ Done(c, "delay")
    /\ video' = [video EXCEPT ![c] = TRUE]
    /\ img' = [img EXCEPT ![c] = "loading"]
    /\ hook' = [hook EXCEPT ![c] = "delay"]
    /\ Repoll(c)
    /\ UNCHANGED <<camera, lists, cur, btn, off, quiet>>

stopStreaming ==
    /\ Click("stop") /\ Begin(cur, "stop")
    /\ off' = off \cup {"stop"}
    /\ UNCHANGED <<camera, lists, cur, btn, video, img, hook, ival, reg, quiet>>

(* mutant: the image is left as it is *)
StoppedShown(c) ==
    /\ Done(c, "stop")
    /\ Buttons(c, "start", off \ {"start"})
    /\ ival' = Cleared /\ reg' = None
    /\ quiet' = (quiet \/ (c = cur /\ \A d \in Card : pend'[d] = Idle))
    /\ UNCHANGED <<camera, lists, cur, video, img, hook>>

(* 200: the start button is shown, enabled; the stop button stays disabled. *)
Stopped(c) ==
    /\ Done(c, "stop")
    /\ Buttons(c, "start", off \ {"start"})
    /\ video' = [video EXCEPT ![c] = FALSE]
    /\ img' = [img EXCEPT ![c] = "cleared"]
    /\ ival' = Cleared /\ reg' = None
    /\ quiet' = (quiet \/ (c = cur /\ \A d \in Card : pend'[d] = Idle))
    /\ UNCHANGED <<camera, lists, cur, hook>>

-----------------------------------------------------------------------------
(* An interval fires: it sets the source of an image that is displayed.     *)
Poll(h) ==
    /\ h \in Live /\ video[ival[h]] /\ img[ival[h]] = "none"
    /\ img' = [img EXCEPT ![ival[h]] = "loading"]
    /\ UNCHANGED <<camera, lists, cur, btn, off, video, hook, pend, ival, reg, quiet>>

(* onload: the handler that loadCameraInfo set displays the image. *)
Loaded(c) ==
    /\ img[c] = "loading"
    /\ img' = [img EXCEPT ![c] = "none"]
    /\ video' = [video EXCEPT ![c] = @ \/ hook[c] = "info"]
    /\ UNCHANGED <<camera, lists, cur, btn, off, hook, pend, ival, reg, quiet>>

(* onerror, also of an empty source: the image is hidden, and by a handler  *)
(* of the script the interval remembered, whoever set it, is cleared.       *)
Failed(c) ==
    /\ img[c] # "none"
    /\ img' = [img EXCEPT ![c] = "none"]
    /\ video' = [video EXCEPT ![c] = FALSE]
    /\ ival' = IF hook[c] = "attr" THEN ival ELSE Cleared
    /\ UNCHANGED <<camera, lists, cur, btn, off, hook, pend, reg, quiet>>

CameraChanges ==
    /\ camera' \in {"other", "streaming"}
    /\ UNCHANGED <<lists, cur, cardVars, pend, ival, reg, quiet>>

-----------------------------------------------------------------------------
Init ==
    /\ camera = "other" /\ lists = 1 /\ cur = None
    /\ btn = "start" /\ off = {}
    /\ video = [c \in Card |-> FALSE] /\ img = [c \in Card |-> "none"]
    /\ hook = [c \in Card |-> "attr"]
    /\ pend = [c \in Card |-> Idle]
    /\ ival = [h \in Handle |-> None] /\ reg = None /\ quiet = FALSE

Info(c) == InfoStreaming(c) \/ InfoOther(c)

Callback(c) ==
    \/ Info(c) \/ InfoFails(c) \/ Started(c) \/ Delayed(c) \/ Stopped(c)
    \/ \E k \in {"start", "stop"} : NotDone(c, k)

Image(c) == Loaded(c) \/ Failed(c)

Next ==
    \/ loadCameras \/ Listed \/ NotListed \/ startStreaming \/ stopStreaming
    \/ \E c \in Card : Callback(c) \/ Image(c)
    \/ \E h \in Handle : Poll(h)
    \/ CameraChanges

Spec == Init /\ [][Next]_vars

(* The list is fetched every 30 seconds; each call and image comes to an    *)
(* end; and not every list fails, nor every answer about a camera or one    *)
(* that comes when its card is gone.                                        *)
FairSpec ==
    /\ Spec
    /\ WF_vars(loadCameras) /\ SF_vars(Listed)
    /\ \A c \in Card : WF_vars(Callback(c)) /\ WF_vars(Image(c))
    /\ SF_vars(cur # None /\ Info(cur))

-----------------------------------------------------------------------------
(* OneInterval: of all the intervals that answers, timers and cards before  *)
(* this one have set, at most one runs, and the page remembers it.          *)
OneInterval == Live \subseteq {reg}

(* QuietAfterStop: when a stop was answered with nothing else in flight,    *)
(* no image is polled and none displayed in the document until the next     *)
(* start, whatever images, lists and answers arrive.  It does not hold of   *)
(* a stop within the two seconds after a start, whose timer still comes.    *)
QuietAfterStop ==
    quiet => /\ \A h \in Live : ~ video[ival[h]]
             /\ cur # None => ~ video[cur]

(* StopOffered: as long as a camera streams, and a card is left for a new   *)
(* list, its stop button is there to be pressed again and again, although   *)
(* a stop leaves it disabled, answers fail and come late, and cards are     *)
(* rebuilt under them.                                                      *)
StopOffered ==
    <>[](camera = "streaming") /\ []<>(Unused # {}) => []<>Click("stop")
=============================================================================
