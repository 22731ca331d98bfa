---------------------------- MODULE WebPage_proofs ----------------------------
(***************************************************************************)
(* Proofs about the script of the main page, for any number of cards and   *)
(* of calls in flight for each of them.                                    *)
(*                                                                         *)
(* A stop is quiet not because images stop loading: those of cards that    *)
(* were replaced go on.  What keeps the page quiet is that no card which a *)
(* callback could still bring back, or an interval polls, is loading one.  *)
(***************************************************************************)
EXTENDS WebPage, TLAPS

(* Nothing is displayed on card c, nor about to be. *)
Blank(c) == ~ video[c] /\ img[c] # "loading"

QuietPage ==
    quiet => /\ \A c \in Card : pend[c]["start"] = 0 /\ pend[c]["delay"] = 0
             /\ cur # None => Blank(cur)
             /\ \A h \in Live : Blank(ival[h])
             /\ \A c \in Card : pend[c]["info"] > 0 => Blank(c)

WInv == TypeOK /\ OneInterval /\ QuietPage

-----------------------------------------------------------------------------
(* What is in flight: one more, or one less, of one kind for one card. *)
LEMMA BeginCounts ==
    ASSUME TypeOK, NEW c \in Card, NEW k \in Call, Begin(c, k)
    PROVE  /\ pend' \in [Card -> [Call -> 0 .. MaxCalls]]
           /\ pend'[c][k] = pend[c][k] + 1
           /\ \A d \in Card, j \in Call : d # c \/ j # k => pend'[d][j] = pend[d][j]
<1>1. /\ pend \in [Card -> [Call -> 0 .. MaxCalls]] /\ MaxCalls \in Nat
      /\ pend[c][k] < MaxCalls /\ pend' = [pend EXCEPT ![c][k] = @ + 1]
    BY PageAssumption DEF TypeOK, Begin
<1>2. pend[c][k] + 1 \in 0 .. MaxCalls
    BY <1>1
<1> QED
    BY <1>1, <1>2

LEMMA DoneCounts ==
    ASSUME TypeOK, NEW c \in Card, NEW k \in Call, Done(c, k)
    PROVE  /\ pend' \in [Card -> [Call -> 0 .. MaxCalls]]
           /\ pend[c][k] > 0 /\ pend'[c][k] = pend[c][k] - 1
           /\ \A d \in Card, j \in Call : d # c \/ j # k => pend'[d][j] = pend[d][j]
           /\ \A d \in Card, j \in Call : pend'[d][j] <= pend[d][j]
<1>1. /\ pend \in [Card -> [Call -> 0 .. MaxCalls]] /\ MaxCalls \in Nat
      /\ pend[c][k] > 0 /\ pend' = [pend EXCEPT ![c][k] = @ - 1]
    BY PageAssumption DEF TypeOK, Done
<1>2. pend[c][k] - 1 \in 0 .. MaxCalls
    BY <1>1
<1>3. /\ pend' \in [Card -> [Call -> 0 .. MaxCalls]]
      /\ pend'[c][k] = pend[c][k] - 1
      /\ \A d \in Card, j \in Call : d # c \/ j # k => pend'[d][j] = pend[d][j]
    BY <1>1, <1>2
<1>4. ASSUME NEW d \in Card, NEW j \in Call PROVE pend'[d][j] <= pend[d][j]
    <2>1. pend[d][j] \in Nat
        BY <1>1
    <2> QED
        BY <1>3, <2>1
<1> QED
    BY <1>1, <1>3, <1>4

(* The interval that is remembered is the only one, so none is left once it *)
(* is cleared, and one once it is set anew.                                 *)
LEMMA ClearedAll ==
    ASSUME TypeOK, OneInterval
    PROVE  /\ Cleared \in [Handle -> Card \cup {None}]
           /\ \A h \in Handle : Cleared[h] = None
BY PageAssumption DEF TypeOK, OneInterval, Live, Cleared, Handle

LEMMA RepollSets ==
    ASSUME TypeOK, OneInterval, NEW c \in Card, Repoll(c)
    PROVE  /\ ival' \in [Handle -> Card \cup {None}] /\ reg' \in Handle
           /\ \A h \in Live' : h = reg' /\ ival'[h] = c
<1>1. PICK h \in Handle : reg' = h /\ ival' = [Cleared EXCEPT ![h] = c]
    <2>1. 1 \in Handle /\ Cleared[1] = None
        BY ClearedAll DEF Handle
    <2>2. PICK h : h = CHOOSE x \in Handle : Cleared[x] = None
        OBVIOUS
    <2>3. h \in Handle
        BY <2>1, <2>2
    <2> QED
        BY <2>2, <2>3 DEF Repoll
<1>2. /\ ival' \in [Handle -> Card \cup {None}]
      /\ \A x \in Handle : ival'[x] = IF x = h THEN c ELSE None
    BY <1>1, ClearedAll
<1> QED
    BY <1>1, <1>2 DEF Live

LEMMA ButtonsTyped ==
    ASSUME TypeOK, NEW c, NEW b \in {"start", "stop", "none"},
           NEW disabled \in SUBSET {"start", "stop"}, Buttons(c, b, disabled)
    PROVE  btn' \in {"start", "stop", "none"} /\ off' \subseteq {"start", "stop"}
BY DEF Buttons, TypeOK

-----------------------------------------------------------------------------
(* One lemma for each callback. *)
LEMMA InitW == Init => WInv
<1> SUFFICES ASSUME Init PROVE WInv
    OBVIOUS
<1>1. Idle \in [Call -> 0 .. MaxCalls] /\ 1 \in 0 .. MaxCalls
    BY PageAssumption DEF Idle
<1>2. TypeOK
    BY <1>1 DEF Init, TypeOK
<1>3. OneInterval /\ QuietPage
    BY DEF Init, OneInterval, QuietPage, Live
<1> QED
    BY <1>2, <1>3 DEF WInv

LEMMA ListsKeep ==
    ASSUME WInv, loadCameras \/ NotListed \/ CameraChanges
    PROVE  WInv'
<1>1. TypeOK'
    <2>1. /\ lists' \in 0 .. MaxCalls
          /\ camera' \in {"other", "streaming"}
        BY PageAssumption DEF WInv, TypeOK, loadCameras, NotListed, CameraChanges
    <2>2. /\ cur' \in Card \cup {None} /\ btn' \in {"start", "stop", "none"}
          /\ off' \subseteq {"start", "stop"}
          /\ UNCHANGED <<video, img, hook, pend, ival, reg, quiet>>
        BY DEF WInv, TypeOK, loadCameras, NotListed, CameraChanges, cardVars
    <2> QED
        BY <2>1, <2>2 DEF WInv, TypeOK
<1>2. /\ UNCHANGED <<video, img, pend, ival, reg, quiet>>
      /\ cur' = cur \/ cur' = None
    BY DEF loadCameras, NotListed, CameraChanges, cardVars
<1>3. OneInterval' /\ QuietPage'
    BY <1>2 DEF WInv, OneInterval, QuietPage, Live, Blank
<1> QED
    BY <1>1, <1>3 DEF WInv

LEMMA ListedKeeps == ASSUME WInv, Listed PROVE WInv'
<1>1. PICK c \in Card :
          /\ c \in Unused /\ cur' = c /\ btn' = "start" /\ off' = {}
          /\ video' = [video EXCEPT ![c] = FALSE]
          /\ hook' = [hook EXCEPT ![c] = "attr"]
          /\ Begin(c, "info")
    <2>1. PICK c : c = CHOOSE x \in Unused : TRUE
        OBVIOUS
    <2>2. c \in Unused /\ c \in Card
        BY <2>1 DEF Listed, Unused
    <2> QED
        BY <2>1, <2>2 DEF Listed
<1>2. lists > 0 /\ lists' = lists - 1 /\ UNCHANGED <<camera, img, ival, reg, quiet>>
    BY DEF Listed
<1>3. TypeOK
    BY DEF WInv
<1>4. /\ pend' \in [Card -> [Call -> 0 .. MaxCalls]]
      /\ \A d \in Card, j \in Call : d # c \/ j # "info" => pend'[d][j] = pend[d][j]
    BY <1>1, <1>3, BeginCounts DEF Call
<1>5. TypeOK'
    BY <1>1, <1>2, <1>3, <1>4, PageAssumption DEF TypeOK
<1>6. \A d \in Card : Blank(d) \/ d = c => Blank(d)'
    BY <1>1, <1>2, <1>3 DEF Unused, Blank, TypeOK
<1>7. OneInterval' /\ Live' = Live
    BY <1>2 DEF WInv, OneInterval, Live
<1>8. QuietPage'
    <2>1. ASSUME NEW d \in Card, quiet, pend'[d]["info"] > 0 PROVE Blank(d)'
        BY <1>4, <1>6, <2>1 DEF WInv, QuietPage, Call
    <2>2. ASSUME NEW h \in Live, quiet PROVE Blank(ival[h])'
        <3>1. ival[h] \in Card
            BY <1>3 DEF TypeOK, Live
        <3> QED
            BY <1>2, <1>6, <2>2, <3>1 DEF WInv, QuietPage
    <2> QED
        BY <1>1, <1>2, <1>4, <1>6, <1>7, <2>1, <2>2 DEF WInv, QuietPage, Call, Blank
<1> QED
    BY <1>5, <1>7, <1>8 DEF WInv

(* A callback that makes no blank card show anything, and starts nothing,   *)
(* keeps the page quiet.                                                    *)
LEMMA QuietKept ==
    ASSUME WInv, TypeOK', cur' = cur, quiet' => quiet,
           quiet => \A d \in Card : Blank(d) => Blank(d)',
           quiet => \A h \in Live' : (h \in Live /\ ival'[h] = ival[h]) \/ Blank(ival[h])',
           quiet => \A d \in Card, k \in {"start", "delay", "info"} : pend'[d][k] <= pend[d][k]
    PROVE  QuietPage'
<1> SUFFICES ASSUME quiet'
             PROVE  /\ \A c \in Card : pend'[c]["start"] = 0 /\ pend'[c]["delay"] = 0
                    /\ cur' # None => Blank(cur)'
                    /\ \A h \in Live' : Blank(ival[h])'
                    /\ \A c \in Card : pend'[c]["info"] > 0 => Blank(c)'
    BY DEF QuietPage
<1>1. quiet /\ TypeOK
    BY DEF WInv
<1>2. /\ \A c \in Card : pend[c]["start"] = 0 /\ pend[c]["delay"] = 0
      /\ cur # None => Blank(cur)
      /\ \A h \in Live : Blank(ival[h])
      /\ \A c \in Card : pend[c]["info"] > 0 => Blank(c)
    BY <1>1 DEF WInv, QuietPage
<1>3. \A c \in Card, k \in Call : pend[c][k] \in Nat /\ pend'[c][k] \in Nat
    BY <1>1, PageAssumption DEF TypeOK
<1>4. \A c \in Card : pend'[c]["start"] = 0 /\ pend'[c]["delay"] = 0
    BY <1>1, <1>2, <1>3 DEF Call
<1>5. ASSUME NEW c \in Card, pend'[c]["info"] > 0 PROVE Blank(c)'
    BY <1>1, <1>2, <1>3, <1>5 DEF Call
<1>6. cur' # None => Blank(cur)'
    <2>1. cur # None => cur \in Card
        BY <1>1 DEF TypeOK
    <2> QED
        BY <1>1, <1>2, <2>1 DEF Blank
<1>7. ASSUME NEW h \in Live' PROVE Blank(ival[h])'
    <2>1. CASE h \in Live /\ ival'[h] = ival[h]
        <3>1. ival[h] \in Card /\ Blank(ival[h])
            BY <1>1, <1>2, <2>1 DEF TypeOK, Live
        <3> QED
            BY <1>1, <2>1, <3>1 DEF Blank
    <2> QED
        BY <1>1, <1>7, <2>1
<1> QED
    BY <1>4, <1>5, <1>6, <1>7

LEMMA InfoStreamingKeeps == ASSUME WInv, NEW c \in Card, InfoStreaming(c) PROVE WInv'
<1>1. TypeOK /\ OneInterval /\ "info" \in Call
    BY DEF WInv, Call
<1>2. /\ pend' \in [Card -> [Call -> 0 .. MaxCalls]]
      /\ \A d \in Card, j \in Call : pend'[d][j] <= pend[d][j]
    BY <1>1, DoneCounts DEF InfoStreaming
<1>3. btn' \in {"start", "stop", "none"} /\ off' \subseteq {"start", "stop"}
    <2>1. off \ {"stop"} \in SUBSET {"start", "stop"}
        BY <1>1 DEF TypeOK
    <2> QED
        BY <1>1, <2>1, ButtonsTyped DEF InfoStreaming
<1>4. /\ ival' \in [Handle -> Card \cup {None}] /\ reg' \in Handle
      /\ \A h \in Live' : h = reg' /\ ival'[h] = c
    BY <1>1, RepollSets DEF InfoStreaming
<1>5. TypeOK'
    BY <1>1, <1>2, <1>3, <1>4 DEF InfoStreaming, TypeOK
<1>6. OneInterval'
    BY <1>4 DEF OneInterval
<1>7. quiet => Blank(c)
    BY <1>1, DoneCounts DEF WInv, QuietPage, InfoStreaming
<1>8. \A d \in Card : Blank(d) => Blank(d)'
    BY <1>1 DEF InfoStreaming, TypeOK, Blank
<1>9. quiet => \A h \in Live' : Blank(ival[h])'
    BY <1>4, <1>7, <1>8 DEF Blank
<1>10. QuietPage'
    <2>1. \A d \in Card, k \in {"start", "delay", "info"} : pend'[d][k] <= pend[d][k]
        BY <1>2 DEF Call
    <2> QED
        BY <1>5, <1>8, <1>9, <2>1, QuietKept DEF InfoStreaming
<1> QED
    BY <1>5, <1>6, <1>10 DEF WInv

LEMMA InfoOtherKeeps ==
    ASSUME WInv, NEW c \in Card, InfoOther(c) \/ InfoFails(c) PROVE WInv'
<1>1. TypeOK /\ OneInterval /\ "info" \in Call
    BY DEF WInv, Call
<1>2. /\ pend' \in [Card -> [Call -> 0 .. MaxCalls]]
      /\ \A d \in Card, j \in Call : pend'[d][j] <= pend[d][j]
    BY <1>1, DoneCounts DEF InfoOther, InfoFails
<1>3. btn' \in {"start", "stop", "none"} /\ off' \subseteq {"start", "stop"}
    <2>1. off \ {"start"} \in SUBSET {"start", "stop"} /\ off \in SUBSET {"start", "stop"}
        BY <1>1 DEF TypeOK
    <2>2. CASE InfoOther(c)
        BY <1>1, <2>1, <2>2, ButtonsTyped DEF InfoOther
    <2>3. CASE InfoFails(c)
        BY <1>1, <2>3 DEF InfoFails, cardVars, TypeOK
    <2> QED
        BY <2>2, <2>3
<1>4. /\ UNCHANGED <<camera, lists, cur, hook, ival, reg, quiet>>
      /\ \/ UNCHANGED <<video, img>>
         \/ video' = [video EXCEPT ![c] = FALSE] /\ img' = [img EXCEPT ![c] = "cleared"]
    BY DEF InfoOther, InfoFails, cardVars
<1>5. TypeOK'
    BY <1>1, <1>2, <1>3, <1>4 DEF TypeOK
<1>6. OneInterval' /\ Live' = Live
    BY <1>1, <1>4 DEF OneInterval, Live
<1>7. \A d \in Card : Blank(d) => Blank(d)'
    BY <1>1, <1>4 DEF TypeOK, Blank
<1>8. QuietPage'
    <2>1. \A d \in Card, k \in {"start", "delay", "info"} : pend'[d][k] <= pend[d][k]
        BY <1>2 DEF Call
    <2> QED
        BY <1>4, <1>5, <1>6, <1>7, <2>1, QuietKept
<1> QED
    BY <1>5, <1>6, <1>8 DEF WInv

LEMMA ClicksKeep ==
    ASSUME WInv, startStreaming \/ stopStreaming PROVE WInv'
<1>1. TypeOK /\ OneInterval /\ cur \in Card /\ "start" \in Call /\ "stop" \in Call
    BY DEF WInv, Call, TypeOK, startStreaming, stopStreaming, Click
<1>2. /\ pend' \in [Card -> [Call -> 0 .. MaxCalls]]
      /\ stopStreaming => \A d \in Card, j \in Call \ {"stop"} : pend'[d][j] = pend[d][j]
    BY <1>1, BeginCounts DEF startStreaming, stopStreaming
<1>3. /\ UNCHANGED <<camera, lists, cur, btn, video, img, hook, ival, reg>>
      /\ off' \subseteq {"start", "stop"}
      /\ (startStreaming /\ quiet' = FALSE) \/ (stopStreaming /\ quiet' = quiet)
    BY <1>1 DEF startStreaming, stopStreaming, TypeOK
<1>4. TypeOK'
    BY <1>1, <1>2, <1>3 DEF TypeOK
<1>5. OneInterval' /\ Live' = Live
    BY <1>1, <1>3 DEF OneInterval, Live
<1>6. CASE startStreaming /\ quiet' = FALSE
    BY <1>4, <1>5, <1>6 DEF WInv, QuietPage
<1>7. CASE stopStreaming /\ quiet' = quiet
    <2>1. \A d \in Card, k \in {"start", "delay", "info"} : pend'[d][k] <= pend[d][k]
        <3>1. \A d \in Card, k \in Call : pend[d][k] \in Nat
            BY <1>1, PageAssumption DEF TypeOK
        <3> QED
            BY <1>2, <1>7, <3>1 DEF Call
    <2>2. \A d \in Card : Blank(d) => Blank(d)'
        BY <1>3 DEF Blank
    <2>3. QuietPage'
        BY <1>3, <1>4, <1>5, <1>7, <2>1, <2>2, QuietKept
    <2> QED
        BY <1>4, <1>5, <2>3 DEF WInv
<1> QED
    BY <1>3, <1>6, <1>7

LEMMA StartedKeeps ==
    ASSUME WInv, NEW c \in Card, Started(c) \/ Delayed(c) PROVE WInv'
<1>1. TypeOK /\ OneInterval /\ "start" \in Call /\ "delay" \in Call
    BY DEF WInv, Call
<1>2. ~ quiet
    BY DEF Started, Delayed, Done, WInv, QuietPage
<1>3. TypeOK' /\ OneInterval' /\ quiet' = quiet
    <2>1. CASE Started(c)
        <3>1. pend' \in [Card -> [Call -> 0 .. MaxCalls]]
            <4>1. /\ pend \in [Card -> [Call -> 0 .. MaxCalls]] /\ MaxCalls \in Nat
                  /\ pend[c]["start"] - 1 \in 0 .. MaxCalls
                  /\ pend[c]["delay"] + 1 \in 0 .. MaxCalls
                BY <1>1, <2>1, PageAssumption DEF TypeOK, Started
            <4> QED
                BY <1>1, <2>1, <4>1 DEF Started
        <3>2. btn' \in {"start", "stop", "none"} /\ off' \subseteq {"start", "stop"}
            <4>1. off \in SUBSET {"start", "stop"}
                BY <1>1 DEF TypeOK
            <4> QED
                BY <1>1, <2>1, <4>1, ButtonsTyped DEF Started
        <3> QED
            BY <1>1, <2>1, <3>1, <3>2 DEF Started, TypeOK, OneInterval, Live
    <2>2. CASE Delayed(c)
        <3>1. pend' \in [Card -> [Call -> 0 .. MaxCalls]]
            BY <1>1, <2>2, DoneCounts DEF Delayed
        <3>2. /\ ival' \in [Handle -> Card \cup {None}] /\ reg' \in Handle
              /\ \A h \in Live' : h = reg'
            BY <1>1, <2>2, RepollSets DEF Delayed
        <3>3. TypeOK'
            BY <1>1, <2>2, <3>1, <3>2 DEF Delayed, TypeOK
        <3> QED
            BY <2>2, <3>2, <3>3 DEF Delayed, OneInterval
    <2> QED
        BY <2>1, <2>2
<1> QED
    BY <1>2, <1>3 DEF WInv, QuietPage

LEMMA NotDoneKeeps ==
    ASSUME WInv, NEW c \in Card, NEW k \in {"start", "stop"}, NotDone(c, k) PROVE WInv'
<1>1. TypeOK /\ OneInterval /\ k \in Call
    BY DEF WInv, Call
<1>2. /\ pend' \in [Card -> [Call -> 0 .. MaxCalls]]
      /\ \A d \in Card, j \in Call : pend'[d][j] <= pend[d][j]
    BY <1>1, DoneCounts DEF NotDone
<1>3. UNCHANGED <<camera, lists, cur, btn, video, img, hook, ival, reg, quiet>>
    BY DEF NotDone
<1>4. TypeOK'
    BY <1>1, <1>2, <1>3 DEF NotDone, TypeOK
<1>5. OneInterval' /\ Live' = Live
    BY <1>1, <1>3 DEF OneInterval, Live
<1>6. \A d \in Card : Blank(d) => Blank(d)'
    BY <1>3 DEF Blank
<1>7. \A d \in Card, j \in {"start", "delay", "info"} : pend'[d][j] <= pend[d][j]
    BY <1>2 DEF Call
<1>8. QuietPage'
    BY <1>3, <1>4, <1>5, <1>6, <1>7, QuietKept
<1> QED
    BY <1>4, <1>5, <1>8 DEF WInv

LEMMA StoppedKeeps == ASSUME WInv, NEW c \in Card, Stopped(c) PROVE WInv'
<1>1. TypeOK /\ OneInterval /\ "stop" \in Call
    BY DEF WInv, Call
<1>2. /\ pend' \in [Card -> [Call -> 0 .. MaxCalls]]
      /\ \A d \in Card, j \in Call : pend'[d][j] <= pend[d][j]
    BY <1>1, DoneCounts DEF Stopped
<1>3. btn' \in {"start", "stop", "none"} /\ off' \subseteq {"start", "stop"}
    <2>1. off \ {"start"} \in SUBSET {"start", "stop"}
        BY <1>1 DEF TypeOK
    <2> QED
        BY <1>1, <2>1, ButtonsTyped DEF Stopped
<1>4. ival' \in [Handle -> Card \cup {None}] /\ reg' = None /\ Live' = {}
    BY <1>1, ClearedAll DEF Stopped, Live
<1>5. TypeOK'
    <2>1. quiet' \in BOOLEAN
        BY DEF Stopped
    <2>2. /\ video' \in [Card -> BOOLEAN]
          /\ img' \in [Card -> {"none", "loading", "cleared"}]
        BY <1>1 DEF Stopped, TypeOK
    <2> QED
        BY <1>1, <1>2, <1>3, <1>4, <2>1, <2>2 DEF Stopped, TypeOK
<1>6. OneInterval'
    BY <1>4 DEF OneInterval
<1>7. Blank(c)' /\ \A d \in Card : Blank(d) => Blank(d)'
    BY <1>1 DEF Stopped, TypeOK, Blank
<1>8. cur' = cur
    BY DEF Stopped
<1>9. CASE c = cur /\ \A d \in Card : pend'[d] = Idle
    <2>1. \A d \in Card, j \in Call : pend'[d][j] = 0
        BY <1>9 DEF Idle
    <2>2. Blank(cur)'
        BY <1>7, <1>8, <1>9 DEF Blank
    <2> QED
        BY <1>4, <1>5, <1>6, <2>1, <2>2 DEF WInv, QuietPage, Call
<1>10. CASE ~ (c = cur /\ \A d \in Card : pend'[d] = Idle)
    <2>1. quiet' => quiet
        BY <1>10 DEF Stopped
    <2>2. \A d \in Card, j \in {"start", "delay", "info"} : pend'[d][j] <= pend[d][j]
        BY <1>2 DEF Call
    <2>3. QuietPage'
        BY <1>4, <1>5, <1>7, <1>8, <2>1, <2>2, QuietKept
    <2> QED
        BY <1>5, <1>6, <2>3 DEF WInv
<1> QED
    BY <1>9, <1>10

LEMMA PollKeeps == ASSUME WInv, NEW h \in Handle, Poll(h) PROVE WInv'
<1>1. TypeOK /\ OneInterval /\ h \in Live
    BY DEF WInv, Poll
<1>2. ~ quiet
    BY <1>1 DEF Poll, WInv, QuietPage, Blank
<1>3. TypeOK' /\ OneInterval' /\ quiet' = quiet
    BY <1>1 DEF Poll, TypeOK, OneInterval, Live
<1> QED
    BY <1>2, <1>3 DEF WInv, QuietPage

LEMMA ImageKeeps == ASSUME WInv, NEW c \in Card, Image(c) PROVE WInv'
<1>1. TypeOK /\ OneInterval
    BY DEF WInv
<1>2. UNCHANGED <<camera, lists, cur, btn, off, hook, pend, reg, quiet>>
    BY DEF Image, Loaded, Failed
<1>3. /\ video' \in [Card -> BOOLEAN]
      /\ img' \in [Card -> {"none", "loading", "cleared"}]
      /\ \A d \in Card : Blank(d) => Blank(d)'
    <2>1. CASE Loaded(c)
        BY <1>1, <2>1 DEF Loaded, TypeOK, Blank
    <2>2. CASE Failed(c)
        BY <1>1, <2>2 DEF Failed, TypeOK, Blank
    <2> QED
        BY <2>1, <2>2 DEF Image
<1>4. ival' = ival \/ ival' = Cleared
    BY DEF Image, Loaded, Failed
<1>5. /\ ival' \in [Handle -> Card \cup {None}]
      /\ \A h \in Live' : h \in Live /\ ival'[h] = ival[h]
    BY <1>1, <1>4, ClearedAll DEF Live, TypeOK
<1>6. TypeOK'
    BY <1>1, <1>2, <1>3, <1>5 DEF TypeOK
<1>7. OneInterval'
    BY <1>1, <1>2, <1>5 DEF OneInterval
<1>8. QuietPage'
    <2>1. \A d \in Card, k \in {"start", "delay", "info"} : pend'[d][k] <= pend[d][k]
        <3>1. \A d \in Card, k \in Call : pend[d][k] \in Nat
            BY <1>1, PageAssumption DEF TypeOK
        <3> QED
            BY <1>2, <3>1 DEF Call
    <2> QED
        BY <1>2, <1>3, <1>5, <1>6, <2>1, QuietKept
<1> QED
    BY <1>6, <1>7, <1>8 DEF WInv

LEMMA NextW == ASSUME WInv, [Next]_vars PROVE WInv'
<1>1. ASSUME NEW c \in Card, Callback(c) PROVE WInv'
    BY <1>1, InfoStreamingKeeps, InfoOtherKeeps, StartedKeeps, NotDoneKeeps, StoppedKeeps
    DEF Callback, Info
<1>2. CASE UNCHANGED vars
    BY <1>2 DEF vars, cardVars, WInv, TypeOK, OneInterval, QuietPage, Live, Blank
<1> QED
    BY <1>1, <1>2, ListsKeep, ListedKeeps, ClicksKeep, PollKeeps, ImageKeeps DEF Next

LEMMA WInvariance == Spec => []WInv
BY InitW, NextW, PTL DEF Spec

(* What the page remembers keeps its type, and a card shows one button at   *)
(* most, whatever comes in whatever order.                                  *)
THEOREM PageTypes == Spec => []TypeOK
<1>1. WInv => TypeOK
    BY DEF WInv
<1> QED
    BY WInvariance, <1>1, PTL

(* Answers, timers and replaced cards never leave two intervals running for *)
(* a camera: each one that is set clears the one before.                    *)
THEOREM OneAtATime == Spec => []OneInterval
<1>1. WInv => OneInterval
    BY DEF WInv
<1> QED
    BY WInvariance, <1>1, PTL

(* After a stop with nothing else in flight the page polls and displays no  *)
(* image until the next start, however many lists are loaded and whatever   *)
(* the server says of the camera.                                           *)
THEOREM StopIsQuiet == Spec => []QuietAfterStop
<1>1. WInv => QuietAfterStop
    BY DEF WInv, QuietPage, QuietAfterStop, Blank
<1> QED
    BY WInvariance, <1>1, PTL
===============================================================================
