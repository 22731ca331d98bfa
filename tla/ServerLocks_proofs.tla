-------------------------- MODULE ServerLocks_proofs --------------------------
(***************************************************************************)
(* Proofs about the handlers of the server, for any number of cameras and  *)
(* of tasks, whichever handlers these run.                                 *)
(*                                                                         *)
(* What a program does with its locks is put into predicates that hold of  *)
(* a concatenation when they hold of its parts (Block, InOrder): each      *)
(* handler is shown to be made of a few kinds of parts.  What the tasks    *)
(* may then do follows from LockDiscipline.                                *)
(***************************************************************************)
EXTENDS ServerLocks, LockDiscipline_proofs

(* The guards a sequence of steps holds after i of them, and asks for next. *)
Before(s, i) == IF i = 0 THEN {} ELSE s[i].held
Asks(s, i) == s[i + 1].held \ Before(s, i)

OneByOne(s) == \A i \in 0 .. Len(s) - 1 : \A g, h \in Asks(s, i) : g = h

Nests(s) ==
    \A i \in 0 .. Len(s) - 1 : \A g \in Asks(s, i) : \A k \in i + 1 .. Len(s) :
        /\ g \notin s[k].held
        /\ \A m \in i + 1 .. k - 1 : g \in s[m].held
        => s[k].held \subseteq Before(s, i)

(* Writes go out under the lock of the socket, and a body right after its   *)
(* header.                                                                  *)
SocketHeld(c, held) == \E g \in held : g.lock = Socket(c) /\ g.mode = "W"

WritesWhole(s, c) ==
    \A i \in 1 .. Len(s) :
        /\ s[i].io # "none" => SocketHeld(c, s[i].held)
        /\ s[i].io = "header" => i < Len(s) /\ s[i + 1].io # "none"

Block(s, c) ==
    /\ s \in Seq(Step) /\ Len(s) >= 1 /\ s[Len(s)].held = {}
    /\ OneByOne(s) /\ Nests(s) /\ WritesWhole(s, c)

(* g is above all of held, if it is waited for. *)
Above(g, held) ==
    g.how \in {"await", "maybe"} => \A h \in held : Rank[h.lock] < Rank[g.lock]

InOrder(s) == \A i \in 0 .. Len(s) - 1 : \A g \in Asks(s, i) : Above(g, Before(s, i))

-----------------------------------------------------------------------------
(* The locks, their ranks, and the guards of the handlers. *)
LEMMA LockFacts ==
    ASSUME NEW c \in Camera
    PROVE  /\ Mgr \in Lock /\ Cam(c) \in Lock /\ Socket(c) \in Lock
           /\ Rank[Mgr] = 1 /\ Rank[Cam(c)] = 2 /\ Rank[Socket(c)] = 3
           /\ Mgr # Cam(c) /\ Mgr # Socket(c) /\ Cam(c) # Socket(c)
<1>1. Mgr[1] = "manager" /\ Cam(c)[1] = "camera" /\ Socket(c)[1] = "socket"
    BY DEF Mgr, Cam, Socket
<1>2. Mgr # Cam(c) /\ Mgr # Socket(c) /\ Cam(c) # Socket(c)
    BY <1>1
<1>3. Mgr \in ServerLock /\ Cam(c) \in ServerLock /\ Socket(c) \in ServerLock
    BY DEF ServerLock
<1>4. ServerRank[Mgr] = 1 /\ ServerRank[Cam(c)] = 2 /\ ServerRank[Socket(c)] = 3
    BY <1>1, <1>2, <1>3 DEF ServerRank
<1> QED
    BY <1>2, <1>3, <1>4, ServerAssumption

LEMMA GuardFacts ==
    ASSUME NEW l \in Lock, NEW m \in {"R", "W"}, NEW h \in How
    PROVE  /\ Ask(l, m, h) \in Guard /\ Nested(Ask(l, m, h)) \in Guard
           /\ Ask(l, m, h).lock = l /\ Ask(l, m, h).mode = m /\ Ask(l, m, h).how = h
           /\ Nested(Ask(l, m, h)).lock = l /\ Nested(Ask(l, m, h)).mode = m
           /\ Nested(Ask(l, m, h)).how = h
           /\ Ask(l, m, h).nest = 0 /\ Nested(Ask(l, m, h)).nest = 1
BY DEF Ask, Nested, Guard

LEMMA StepFacts ==
    ASSUME NEW guards \in SUBSET Guard
    PROVE  /\ Hold(guards) \in Step /\ Hold(guards).held = guards /\ Hold(guards).io = "none"
           /\ \A io \in Write : /\ Send(guards, io) \in Step
                                /\ Send(guards, io).held = guards
                                /\ Send(guards, io).io = io
BY DEF Hold, Send, Step, Write

-----------------------------------------------------------------------------
(* Blocks one after the other are a block. *)
LEMMA ConcatPoints ==
    ASSUME NEW s \in Seq(Step), NEW t \in Seq(Step), Len(s) >= 1, s[Len(s)].held = {}
    PROVE  /\ s \o t \in Seq(Step)
           /\ Len(s) \in Nat /\ Len(t) \in Nat /\ Len(s \o t) = Len(s) + Len(t)
           /\ \A i \in 1 .. Len(s) : (s \o t)[i] = s[i]
           /\ \A i \in 1 .. Len(t) : (s \o t)[Len(s) + i] = t[i]
           /\ \A i \in 0 .. Len(s) - 1 : Before(s \o t, i) = Before(s, i)
                                         /\ Asks(s \o t, i) = Asks(s, i)
           /\ \A i \in 0 .. Len(t) - 1 : Before(s \o t, Len(s) + i) = Before(t, i)
                                         /\ Asks(s \o t, Len(s) + i) = Asks(t, i)
<1> DEFINE st == s \o t
           m == Len(s)
           n == Len(t)
<1>1. m \in Nat /\ n \in Nat /\ m >= 1
    BY LenProperties
<1>2. /\ st \in Seq(Step) /\ Len(st) = m + n
      /\ \A i \in 1 .. m + n : st[i] = IF i <= m THEN s[i] ELSE t[i - m]
    BY ConcatProperties
<1> HIDE DEF st, m, n
<1>3. \A i \in 1 .. m : st[i] = s[i]
    BY <1>1, <1>2
<1>4. ASSUME NEW i \in 1 .. n PROVE st[m + i] = t[i]
    <2>1. m + i \in 1 .. m + n /\ ~(m + i <= m) /\ (m + i) - m = i
        BY <1>1
    <2> QED
        BY <1>2, <2>1
<1>5. ASSUME NEW i \in 0 .. m - 1
      PROVE  Before(st, i) = Before(s, i) /\ Asks(st, i) = Asks(s, i)
    <2>1. i + 1 \in 1 .. m /\ (i # 0 => i \in 1 .. m)
        BY <1>1
    <2> QED
        BY <1>3, <2>1 DEF Before, Asks
<1>6. ASSUME NEW i \in 0 .. n - 1
      PROVE  Before(st, m + i) = Before(t, i) /\ Asks(st, m + i) = Asks(t, i)
    <2>1. i + 1 \in 1 .. n /\ (m + i) + 1 = m + (i + 1) /\ m + i # 0
        BY <1>1
    <2>2. Before(st, m + i) = Before(t, i)
        <3>1. CASE i = 0
            <4>1. m + i = m /\ m \in 1 .. m
                BY <1>1, <3>1
            <4> QED
                BY <1>1, <1>3, <3>1, <4>1 DEF Before, m
        <3>2. CASE i # 0
            <4>1. i \in 1 .. n
                BY <1>1, <3>2
            <4> QED
                BY <1>4, <2>1, <3>2, <4>1 DEF Before
        <3> QED
            BY <3>1, <3>2
    <2>3. st[(m + i) + 1] = t[i + 1]
        BY <1>4, <2>1
    <2> QED
        BY <2>2, <2>3 DEF Asks
<1> QED
    BY <1>1, <1>2, <1>3, <1>4, <1>5, <1>6 DEF st, m, n

LEMMA ConcatBlock ==
    ASSUME NEW s, NEW t, NEW c, Block(s, c), Block(t, c)
    PROVE  Block(s \o t, c)
<1> DEFINE st == s \o t
           m == Len(s)
           n == Len(t)
<1>1. /\ s \in Seq(Step) /\ t \in Seq(Step) /\ m >= 1 /\ n >= 1
      /\ s[m].held = {} /\ t[n].held = {}
    BY DEF Block
<1>2. /\ st \in Seq(Step)
      /\ m \in Nat /\ n \in Nat /\ Len(st) = m + n
      /\ \A i \in 1 .. m : st[i] = s[i]
      /\ \A i \in 1 .. n : st[m + i] = t[i]
      /\ \A i \in 0 .. m - 1 : Before(st, i) = Before(s, i) /\ Asks(st, i) = Asks(s, i)
      /\ \A i \in 0 .. n - 1 : Before(st, m + i) = Before(t, i) /\ Asks(st, m + i) = Asks(t, i)
    BY <1>1, ConcatPoints
<1> HIDE DEF st, m, n
<1>3. \A i \in 0 .. Len(st) - 1 : i \in 0 .. m - 1 \/ \E k \in 0 .. n - 1 : i = m + k
    <2>1. ASSUME NEW i \in 0 .. Len(st) - 1, i \notin 0 .. m - 1
          PROVE  i - m \in 0 .. n - 1 /\ i = m + (i - m)
        BY <1>2, <2>1
    <2> QED
        BY <2>1
<1>4. \A i \in 1 .. Len(st) : i \in 1 .. m \/ \E k \in 1 .. n : i = m + k
    <2>1. ASSUME NEW i \in 1 .. Len(st), i \notin 1 .. m
          PROVE  i - m \in 1 .. n /\ i = m + (i - m)
        BY <1>2, <2>1
    <2> QED
        BY <2>1
<1>5. OneByOne(st)
    <2>1. /\ \A i \in 0 .. m - 1 : \A g, h \in Asks(s, i) : g = h
          /\ \A i \in 0 .. n - 1 : \A g, h \in Asks(t, i) : g = h
        BY DEF Block, OneByOne, m, n
    <2>2. ASSUME NEW i \in 0 .. Len(st) - 1, NEW g \in Asks(st, i), NEW h \in Asks(st, i)
          PROVE  g = h
        <3>1. CASE i \in 0 .. m - 1
            BY <1>2, <2>1, <3>1
        <3>2. CASE i \notin 0 .. m - 1
            <4>1. PICK k \in 0 .. n - 1 : i = m + k
                BY <1>3, <3>2
            <4> QED
                BY <1>2, <2>1, <4>1
        <3> QED
            BY <3>1, <3>2
    <2> QED
        BY <2>2 DEF OneByOne
<1>6. Nests(st)
    <2> SUFFICES ASSUME NEW i \in 0 .. Len(st) - 1, NEW g \in Asks(st, i),
                        NEW k \in i + 1 .. Len(st), g \notin st[k].held,
                        \A x \in i + 1 .. k - 1 : g \in st[x].held
                 PROVE  st[k].held \subseteq Before(st, i)
        BY DEF Nests
    <2>1. CASE i \in 0 .. m - 1
        <3>1. k \in i + 1 .. m
            <4>1. ASSUME k > m PROVE FALSE
                <5>1. m \in i + 1 .. k - 1 /\ m \in 1 .. m
                    BY <1>1, <1>2, <2>1, <4>1
                <5>2. st[m].held = {}
                    BY <1>1, <1>2, <5>1
                <5> QED
                    BY <5>1, <5>2
            <4> QED
                BY <1>2, <2>1, <4>1
        <3>2. st[k] = s[k] /\ g \in Asks(s, i) /\ Before(st, i) = Before(s, i)
            BY <1>2, <2>1, <3>1
        <3>3. \A x \in i + 1 .. k - 1 : g \in s[x].held
            <4>1. \A x \in i + 1 .. k - 1 : x \in 1 .. m
                BY <1>2, <2>1, <3>1
            <4> QED
                BY <1>2, <4>1
        <3> QED
            BY <2>1, <3>1, <3>2, <3>3 DEF Block, Nests, m
    <2>2. CASE i \notin 0 .. m - 1
        <3>1. PICK j \in 0 .. n - 1 : i = m + j
            BY <1>3, <2>2
        <3>2. k - m \in j + 1 .. n /\ k = m + (k - m)
            BY <1>2, <3>1
        <3>3. PICK y \in j + 1 .. n : k = m + y
            BY <3>2
        <3>4. y \in 1 .. n
            BY <1>2, <3>3
        <3>5. st[k] = t[y] /\ g \in Asks(t, j) /\ Before(st, i) = Before(t, j)
            BY <1>2, <3>1, <3>3, <3>4
        <3>6. ASSUME NEW x \in j + 1 .. y - 1 PROVE g \in t[x].held
            <4>1. m + x \in i + 1 .. k - 1 /\ x \in 1 .. n
                BY <1>2, <3>1, <3>3
            <4> QED
                BY <1>2, <4>1
        <3> QED
            BY <3>3, <3>5, <3>6 DEF Block, Nests, n
    <2> QED
        BY <2>1, <2>2
<1>7. WritesWhole(st, c)
    <2> SUFFICES ASSUME NEW i \in 1 .. Len(st)
                 PROVE  /\ st[i].io # "none" => SocketHeld(c, st[i].held)
                        /\ st[i].io = "header" => i < Len(st) /\ st[i + 1].io # "none"
        BY DEF WritesWhole
    <2>1. CASE i \in 1 .. m
        <3>1. st[i] = s[i]
            BY <1>2, <2>1
        <3>2. /\ s[i].io # "none" => SocketHeld(c, s[i].held)
              /\ s[i].io = "header" => i < m /\ s[i + 1].io # "none"
            BY <2>1 DEF Block, WritesWhole, m
        <3>3. i < m => i + 1 \in 1 .. m /\ i < Len(st)
            BY <1>1, <1>2, <2>1
        <3> QED
            BY <1>2, <3>1, <3>2, <3>3
    <2>2. CASE i \notin 1 .. m
        <3>1. PICK j \in 1 .. n : i = m + j
            BY <1>4, <2>2
        <3>2. st[i] = t[j]
            BY <1>2, <3>1
        <3>3. /\ t[j].io # "none" => SocketHeld(c, t[j].held)
              /\ t[j].io = "header" => j < n /\ t[j + 1].io # "none"
            BY <3>1 DEF Block, WritesWhole, n
        <3>4. j < n => j + 1 \in 1 .. n /\ i < Len(st) /\ i + 1 = m + (j + 1)
            BY <1>1, <1>2, <3>1
        <3> QED
            BY <1>2, <3>2, <3>3, <3>4
    <2> QED
        BY <2>1, <2>2
<1>8. Len(st) >= 1 /\ st[Len(st)].held = {}
    <2>1. n \in 1 .. n
        BY <1>1, <1>2
    <2> QED
        BY <1>1, <1>2, <2>1
<1> QED
    BY <1>2, <1>5, <1>6, <1>7, <1>8 DEF Block, st

(* What is asked for in the whole is asked for in one of the parts. *)
LEMMA ConcatAsks ==
    ASSUME NEW s, NEW t, NEW c, Block(s, c), Block(t, c),
           NEW i \in 0 .. Len(s \o t) - 1, NEW g \in Asks(s \o t, i)
    PROVE  \/ \E k \in 0 .. Len(s) - 1 :
                 g \in Asks(s, k) /\ Before(s \o t, i) = Before(s, k)
           \/ \E k \in 0 .. Len(t) - 1 :
                 g \in Asks(t, k) /\ Before(s \o t, i) = Before(t, k)
<1> DEFINE st == s \o t
           m == Len(s)
           n == Len(t)
<1>1. /\ m \in Nat /\ n \in Nat /\ Len(st) = m + n
      /\ \A k \in 0 .. m - 1 : Before(st, k) = Before(s, k) /\ Asks(st, k) = Asks(s, k)
      /\ \A k \in 0 .. n - 1 : Before(st, m + k) = Before(t, k) /\ Asks(st, m + k) = Asks(t, k)
    BY ConcatPoints DEF Block
<1>2. i \in 0 .. Len(st) - 1 /\ g \in Asks(st, i)
    OBVIOUS
<1> HIDE DEF st, m, n
<1>3. CASE i \in 0 .. m - 1
    BY <1>1, <1>2, <1>3 DEF m, st
<1>4. CASE i \notin 0 .. m - 1
    <2>1. i - m \in 0 .. n - 1 /\ i = m + (i - m)
        BY <1>1, <1>2, <1>4
    <2>2. PICK k \in 0 .. n - 1 : i = m + k
        BY <2>1
    <2>3. g \in Asks(t, k) /\ Before(st, i) = Before(t, k)
        BY <1>1, <1>2, <2>2
    <2> QED
        BY <2>2, <2>3 DEF n, st
<1> QED
    BY <1>3, <1>4

LEMMA ConcatInOrder ==
    ASSUME NEW s, NEW t, NEW c, Block(s, c), Block(t, c), InOrder(s), InOrder(t)
    PROVE  InOrder(s \o t)
<1>1. ASSUME NEW i \in 0 .. Len(s \o t) - 1, NEW g \in Asks(s \o t, i)
      PROVE  Above(g, Before(s \o t, i))
    <2>1. CASE \E k \in 0 .. Len(s) - 1 :
                   g \in Asks(s, k) /\ Before(s \o t, i) = Before(s, k)
        BY <2>1 DEF InOrder
    <2>2. CASE \E k \in 0 .. Len(t) - 1 :
                   g \in Asks(t, k) /\ Before(s \o t, i) = Before(t, k)
        BY <2>2 DEF InOrder
    <2> QED
        BY <2>1, <2>2, ConcatAsks
<1> QED
    BY <1>1 DEF InOrder

-----------------------------------------------------------------------------
(* The parts programs are made of.  In most, guards are only added until    *)
(* all are dropped at once.                                                 *)
Rises(s) == \A i, k \in 1 .. Len(s) : i <= k => s[i].held \subseteq s[k].held

LEMMA RiseAndDrop ==
    ASSUME NEW s \in Seq(Step), s[Len(s)].held = {},
           \A i, k \in 1 .. Len(s) - 1 : i <= k => s[i].held \subseteq s[k].held
    PROVE  Nests(s)
<1>1. Len(s) \in Nat
    BY LenProperties
<1>2. ASSUME NEW i \in 0 .. Len(s) - 1, NEW g \in Asks(s, i),
             NEW k \in i + 1 .. Len(s), g \notin s[k].held
      PROVE  s[k].held \subseteq Before(s, i)
    <2>1. CASE k = Len(s)
        BY <2>1
    <2>2. CASE k # Len(s)
        <3>1. i + 1 \in 1 .. Len(s) - 1 /\ k \in 1 .. Len(s) - 1 /\ i + 1 <= k
            BY <1>1, <2>2
        <3>2. s[i + 1].held \subseteq s[k].held
            BY <3>1
        <3> QED
            BY <1>2, <3>2 DEF Asks
    <2> QED
        BY <2>1, <2>2
<1> QED
    BY <1>2 DEF Nests

(* One guard, taken and dropped. *)
LEMMA OneScope ==
    ASSUME NEW a \in Guard, NEW c
    PROVE  Block(Scope(a), c) /\ InOrder(Scope(a))
<1> DEFINE s == <<Hold({a}), Hold({})>>
<1>1. /\ Hold({a}) \in Step /\ Hold({a}).held = {a} /\ Hold({a}).io = "none"
      /\ Hold({}) \in Step /\ Hold({}).held = {} /\ Hold({}).io = "none"
    BY StepFacts
<1>2. /\ s \in Seq(Step) /\ Len(s) = 2
      /\ s[1].held = {a} /\ s[2].held = {} /\ s[1].io = "none" /\ s[2].io = "none"
    BY <1>1
<1> HIDE DEF s
<1>3. /\ Before(s, 0) = {} /\ Asks(s, 0) = {a} /\ Asks(s, 1) = {}
    BY <1>2 DEF Before, Asks
<1>4. \A i \in 0 .. Len(s) - 1 : i = 0 \/ i = 1
    BY <1>2
<1>5. OneByOne(s) /\ InOrder(s)
    BY <1>3, <1>4 DEF OneByOne, InOrder, Above
<1>6. Nests(s)
    <2>1. \A i, k \in 1 .. Len(s) - 1 : i = 1 /\ k = 1
        BY <1>2
    <2>2. \A i, k \in 1 .. Len(s) - 1 : i <= k => s[i].held \subseteq s[k].held
        BY <2>1
    <2> QED
        BY <1>2, <2>2, RiseAndDrop
<1>7. WritesWhole(s, c)
    BY <1>2 DEF WritesWhole
<1> QED
    BY <1>2, <1>5, <1>6, <1>7 DEF Block, s, Scope

(* A second guard inside the scope of the first. *)
LEMMA TwoScopes ==
    ASSUME NEW a \in Guard, NEW b \in Guard, a # b, NEW c
    PROVE  Block(Inside(a, b), c) /\ (Above(b, {a}) => InOrder(Inside(a, b)))
<1> DEFINE s == <<Hold({a}), Hold({a, b}), Hold({})>>
<1>1. /\ Hold({a}) \in Step /\ Hold({a}).held = {a} /\ Hold({a}).io = "none"
      /\ Hold({a, b}) \in Step /\ Hold({a, b}).held = {a, b} /\ Hold({a, b}).io = "none"
      /\ Hold({}) \in Step /\ Hold({}).held = {} /\ Hold({}).io = "none"
    BY StepFacts
<1>2. /\ s \in Seq(Step) /\ Len(s) = 3
      /\ s[1].held = {a} /\ s[2].held = {a, b} /\ s[3].held = {}
      /\ s[1].io = "none" /\ s[2].io = "none" /\ s[3].io = "none"
    BY <1>1
<1> HIDE DEF s
<1>3. /\ Before(s, 0) = {} /\ Asks(s, 0) = {a}
      /\ Before(s, 1) = {a} /\ Asks(s, 1) = {b}
      /\ Asks(s, 2) = {}
    BY <1>2 DEF Before, Asks
<1>4. \A i \in 0 .. Len(s) - 1 : i = 0 \/ i = 1 \/ i = 2
    BY <1>2
<1>5. OneByOne(s)
    BY <1>3, <1>4 DEF OneByOne
<1>6. Above(b, {a}) => InOrder(s)
    <2> SUFFICES ASSUME Above(b, {a}), NEW i \in 0 .. Len(s) - 1, NEW g \in Asks(s, i)
                 PROVE  Above(g, Before(s, i))
        BY DEF InOrder
    <2>1. CASE i = 0
        BY <1>3, <2>1 DEF Above
    <2>2. CASE i = 1
        BY <1>3, <2>2
    <2>3. CASE i = 2
        BY <1>3, <2>3
    <2> QED
        BY <1>4, <2>1, <2>2, <2>3
<1>7. Nests(s)
    <2>1. \A i, k \in 1 .. Len(s) - 1 : i <= k => i = k \/ (i = 1 /\ k = 2)
        BY <1>2
    <2>2. \A i, k \in 1 .. Len(s) - 1 : i <= k => s[i].held \subseteq s[k].held
        BY <1>2, <2>1
    <2>3. s[Len(s)].held = {}
        BY <1>2
    <2> QED
        BY <1>2, <2>2, <2>3, RiseAndDrop
<1>8. WritesWhole(s, c)
    <2>1. \A i \in 1 .. Len(s) : i = 1 \/ i = 2 \/ i = 3
        BY <1>2
    <2> QED
        BY <1>2, <2>1 DEF WritesWhole
<1> QED
    BY <1>2, <1>5, <1>6, <1>7, <1>8 DEF Block, s, Inside

(* Writes under the guards held, the last of them the end of a message. *)
Written(w, held) ==
    /\ w \in Seq(Step) /\ Len(w) >= 1
    /\ \A i \in 1 .. Len(w) : w[i].held = held /\ w[i].io # "none"
    /\ w[Len(w)].io # "header"

LEMMA WritesWritten ==
    ASSUME NEW held \in SUBSET Guard
    PROVE  Written(OneWrite(held), held) /\ Written(TwoWrites(held), held)
<1>1. /\ Send(held, "message") \in Step /\ Send(held, "message").held = held
      /\ Send(held, "message").io = "message"
      /\ Send(held, "header") \in Step /\ Send(held, "header").held = held
      /\ Send(held, "header").io = "header"
    BY StepFacts DEF Write
<1>2. Written(OneWrite(held), held)
    <2> DEFINE w == <<Send(held, "message")>>
    <2>1. w \in Seq(Step) /\ Len(w) = 1 /\ w[1] = Send(held, "message")
        BY <1>1
    <2> HIDE DEF w
    <2>2. Written(w, held)
        BY <1>1, <2>1 DEF Written
    <2> QED
        BY <2>2 DEF w, OneWrite
<1>3. Written(TwoWrites(held), held)
    <2> DEFINE w == <<Send(held, "header"), Send(held, "message")>>
    <2>1. w \in Seq(Step) /\ Len(w) = 2
          /\ w[1] = Send(held, "header") /\ w[2] = Send(held, "message")
        BY <1>1
    <2> HIDE DEF w
    <2>2. \A i \in 1 .. Len(w) : i = 1 \/ i = 2
        BY <2>1
    <2>3. Written(w, held)
        BY <1>1, <2>1, <2>2 DEF Written
    <2> QED
        BY <2>3 DEF w, TwoWrites
<1> QED
    BY <1>2, <1>3

LEMMA ConcatWritten ==
    ASSUME NEW held, NEW v, NEW w, Written(v, held), Written(w, held)
    PROVE  Written(v \o w, held)
<1> DEFINE m == Len(v)
           n == Len(w)
           vw == v \o w
<1>1. v \in Seq(Step) /\ w \in Seq(Step) /\ m >= 1 /\ n >= 1 /\ m \in Nat /\ n \in Nat
    BY LenProperties DEF Written
<1>2. /\ vw \in Seq(Step) /\ Len(vw) = m + n
      /\ \A i \in 1 .. m + n : vw[i] = IF i <= m THEN v[i] ELSE w[i - m]
    BY <1>1, ConcatProperties
<1>3. /\ \A i \in 1 .. m : v[i].held = held /\ v[i].io # "none"
      /\ \A i \in 1 .. n : w[i].held = held /\ w[i].io # "none"
      /\ w[n].io # "header"
    BY DEF Written
<1> HIDE DEF m, n, vw
<1>4. ASSUME NEW i \in 1 .. m + n PROVE vw[i].held = held /\ vw[i].io # "none"
    <2>1. CASE i <= m
        <3>1. i \in 1 .. m /\ vw[i] = v[i]
            BY <1>1, <1>2, <2>1
        <3> QED
            BY <1>3, <3>1
    <2>2. CASE ~(i <= m)
        <3>1. i - m \in 1 .. n /\ vw[i] = w[i - m]
            BY <1>1, <1>2, <2>2
        <3> QED
            BY <1>3, <3>1
    <2> QED
        BY <2>1, <2>2
<1>5. vw[m + n] = w[n] /\ m + n >= 1
    <2>1. m + n \in 1 .. m + n /\ ~(m + n <= m) /\ (m + n) - m = n
        BY <1>1
    <2> QED
        BY <1>1, <1>2, <2>1
<1> QED
    BY <1>2, <1>3, <1>4, <1>5 DEF Written, vw

(* Guards taken one after the other, writes under them, and all dropped. *)
LEMMA Bracket ==
    ASSUME NEW c, NEW pre \in Seq(Step), Len(pre) >= 1, Rises(pre), OneByOne(pre),
           \A i \in 1 .. Len(pre) : pre[i].io = "none",
           NEW w, Written(w, pre[Len(pre)].held), SocketHeld(c, pre[Len(pre)].held)
    PROVE  LET s == pre \o w \o <<Hold({})>>
           IN  Block(s, c) /\ (InOrder(pre) => InOrder(s))
<1> DEFINE s == pre \o w \o <<Hold({})>>
           m == Len(pre)
           n == Len(w)
           held == pre[m].held
<1>1. /\ w \in Seq(Step) /\ m \in Nat /\ m >= 1 /\ n \in Nat /\ n >= 1
      /\ \A i \in 1 .. n : w[i].held = held /\ w[i].io # "none"
      /\ w[n].io # "header"
    BY LenProperties DEF Written
<1>2. Hold({}) \in Step /\ Hold({}).held = {} /\ Hold({}).io = "none"
    BY StepFacts
<1> DEFINE pw == pre \o w
           last == <<Hold({})>>
<1>3. last \in Seq(Step) /\ Len(last) = 1 /\ last[1].held = {} /\ last[1].io = "none"
    BY <1>2
<1>4. /\ pw \in Seq(Step) /\ Len(pw) = m + n
      /\ \A i \in 1 .. m + n : pw[i] = IF i <= m THEN pre[i] ELSE w[i - m]
    BY <1>1, ConcatProperties
<1> HIDE DEF last, pw
<1>5. /\ s \in Seq(Step) /\ Len(s) = (m + n) + 1
      /\ \A i \in 1 .. (m + n) + 1 : s[i] = IF i <= m + n THEN pw[i] ELSE last[i - (m + n)]
    <2>1. PICK q \in Seq(Step), l \in Seq(Step) : q = pw /\ l = last
        BY <1>3, <1>4
    <2>2. /\ q \o l \in Seq(Step) /\ Len(q \o l) = Len(q) + Len(l)
          /\ \A i \in 1 .. Len(q) + Len(l) :
                (q \o l)[i] = IF i <= Len(q) THEN q[i] ELSE l[i - Len(q)]
        BY ConcatProperties
    <2>3. s = q \o l
        BY <2>1 DEF pw, last
    <2>4. Len(q) = m + n /\ Len(l) = 1
        BY <1>3, <1>4, <2>1
    <2> HIDE DEF s
    <2> QED
        BY <2>1, <2>2, <2>3, <2>4
<1> HIDE DEF s, m, n, held
<1>6. PICK k \in Nat : k = m + n
    BY <1>1
<1>7. ASSUME NEW i \in 1 .. m PROVE s[i] = pre[i]
    <2>1. i \in 1 .. (m + n) + 1 /\ i \in 1 .. m + n /\ i <= m /\ i <= m + n
        BY <1>1
    <2> QED
        BY <1>4, <1>5, <2>1
<1>8. ASSUME NEW i \in m + 1 .. k
      PROVE  /\ s[i].held = held /\ s[i].io # "none"
             /\ s[i].io = "header" => i + 1 \in m + 1 .. k
    <2>1. i \in 1 .. (m + n) + 1 /\ i <= m + n /\ ~(i <= m) /\ i - m \in 1 .. n /\ i \in 1 .. m + n
        BY <1>1, <1>6
    <2>2. s[i] = w[i - m]
        BY <1>4, <1>5, <2>1
    <2>3. i = k => i - m = n
        BY <1>1, <1>6
    <2>4. i # k => i + 1 \in m + 1 .. k
        BY <1>1, <1>6
    <2> QED
        BY <1>1, <2>1, <2>2, <2>3, <2>4
<1>9. s[k + 1].held = {} /\ s[k + 1].io = "none" /\ Len(s) = k + 1
    <2>1. k + 1 \in 1 .. (m + n) + 1 /\ ~(k + 1 <= m + n) /\ (k + 1) - (m + n) = 1
        BY <1>1, <1>6
    <2>2. s[k + 1] = last[1]
        BY <1>5, <2>1
    <2> QED
        BY <1>3, <1>5, <1>6, <2>2
<1>10. /\ Rises(pre) => \A i, x \in 1 .. m : i <= x => pre[i].held \subseteq pre[x].held
       /\ held = pre[m].held /\ m \in 1 .. m
    BY <1>1 DEF Rises, m, held
<1>11. ASSUME NEW i \in 1 .. k, NEW x \in 1 .. k, i <= x
       PROVE  s[i].held \subseteq s[x].held
    <2>1. \A y \in 1 .. k : y \in 1 .. m \/ y \in m + 1 .. k
        BY <1>1
    <2>2. CASE i \in 1 .. m /\ x \in 1 .. m
        BY <1>7, <1>10, <1>11, <2>2
    <2>3. CASE i \in 1 .. m /\ x \in m + 1 .. k
        <3>1. pre[i].held \subseteq held
            BY <1>1, <1>10, <2>3
        <3> QED
            BY <1>7, <1>8, <2>3, <3>1
    <2>4. CASE i \in m + 1 .. k /\ x \in m + 1 .. k
        BY <1>8, <2>4
    <2>5. ~(i \in m + 1 .. k /\ x \in 1 .. m)
        BY <1>1, <1>11
    <2> QED
        BY <2>1, <2>2, <2>3, <2>4, <2>5
<1>12. Nests(s)
    <2>1. \A i, x \in 1 .. Len(s) - 1 : i <= x => s[i].held \subseteq s[x].held
        BY <1>9, <1>11
    <2> QED
        BY <1>5, <1>9, <2>1, RiseAndDrop
(* A write or the drop asks for nothing. *)
<1>13. ASSUME NEW i \in m .. k PROVE Asks(s, i) = {}
    <2>1. i # 0 /\ Before(s, i) = s[i].held
        BY <1>1 DEF Before
    <2>2. CASE i = k
        BY <1>9, <2>2 DEF Asks
    <2>3. CASE i # k
        <3>1. i + 1 \in m + 1 .. k /\ (i \in m + 1 .. k \/ i = m)
            BY <1>1, <2>3
        <3>2. s[i].held = held
            BY <1>7, <1>8, <1>10, <3>1
        <3> QED
            BY <1>8, <2>1, <3>1, <3>2 DEF Asks
    <2> QED
        BY <2>2, <2>3
<1>14. ASSUME NEW i \in 0 .. m - 1
       PROVE  Before(s, i) = Before(pre, i) /\ Asks(s, i) = Asks(pre, i)
    <2>1. i + 1 \in 1 .. m /\ (i # 0 => i \in 1 .. m)
        BY <1>1
    <2> QED
        BY <1>7, <2>1 DEF Before, Asks
<1>15. \A i \in 0 .. Len(s) - 1 : i \in 0 .. m - 1 \/ i \in m .. k
    BY <1>1, <1>6, <1>9
<1>16. OneByOne(s)
    <2>1. \A i \in 0 .. m - 1 : \A g, h \in Asks(pre, i) : g = h
        BY DEF OneByOne, m
    <2> QED
        BY <1>13, <1>14, <1>15, <2>1 DEF OneByOne
<1>17. InOrder(pre) => InOrder(s)
    <2>1. InOrder(pre) => \A i \in 0 .. m - 1 : \A g \in Asks(pre, i) : Above(g, Before(pre, i))
        BY DEF InOrder, m
    <2> QED
        BY <1>13, <1>14, <1>15, <2>1 DEF InOrder
<1>18. WritesWhole(s, c)
    <2>1. \A i \in 1 .. m : pre[i].io = "none"
        BY DEF m
    <2>2. SocketHeld(c, held)
        BY DEF held, m
    <2>3. ASSUME NEW i \in 1 .. Len(s)
          PROVE  /\ s[i].io # "none" => SocketHeld(c, s[i].held)
                 /\ s[i].io = "header" => i < Len(s) /\ s[i + 1].io # "none"
        <3>1. CASE i \in 1 .. m
            BY <1>7, <2>1, <3>1
        <3>2. CASE i \in m + 1 .. k
            <4>1. i < Len(s)
                BY <1>1, <1>6, <1>9, <3>2
            <4> QED
                BY <1>8, <2>2, <3>2, <4>1
        <3>3. CASE i = k + 1
            BY <1>9, <3>3
        <3>4. i \in 1 .. m \/ i \in m + 1 .. k \/ i = k + 1
            BY <1>1, <1>6, <1>9
        <3> QED
            BY <3>1, <3>2, <3>3, <3>4
    <2> QED
        BY <2>3 DEF WritesWhole
<1>19. Len(s) >= 1
    BY <1>9
<1> QED
    BY <1>5, <1>9, <1>12, <1>16, <1>17, <1>18, <1>19 DEF Block, s

LEMMA LastOf ==
    ASSUME NEW s \in Seq(Step), NEW n \in Nat, Len(s) = n
    PROVE  s[Len(s)] = s[n] /\ (n >= 1 => Len(s) >= 1)
OBVIOUS

(* Three guards, taken one after the other. *)
LEMMA ThreeRise ==
    ASSUME NEW a \in Guard, NEW b \in Guard, NEW d \in Guard, a # b, a # d, b # d,
           NEW s \in Seq(Step), Len(s) = 3,
           s[1].held = {a}, s[2].held = {a, b}, s[3].held = {a, b, d},
           s[1].io = "none", s[2].io = "none", s[3].io = "none"
    PROVE  /\ Rises(s) /\ OneByOne(s)
           /\ \A i \in 1 .. Len(s) : s[i].io = "none"
           /\ Above(b, {a}) /\ Above(d, {a, b}) => InOrder(s)
<1>1. /\ Before(s, 0) = {} /\ Asks(s, 0) = {a}
      /\ Before(s, 1) = {a} /\ Asks(s, 1) = {b}
      /\ Before(s, 2) = {a, b} /\ Asks(s, 2) = {d}
    BY DEF Before, Asks
<1>2. \A i \in 0 .. Len(s) - 1 : i = 0 \/ i = 1 \/ i = 2
    OBVIOUS
<1>3. \A i \in 1 .. Len(s) : i = 1 \/ i = 2 \/ i = 3
    OBVIOUS
<1>4. OneByOne(s)
    BY <1>1, <1>2 DEF OneByOne
<1>5. Rises(s)
    <2>1. \A i, k \in 1 .. Len(s) :
              i <= k => i = k \/ (i = 1 /\ k = 2) \/ (i = 1 /\ k = 3) \/ (i = 2 /\ k = 3)
        OBVIOUS
    <2> QED
        BY <2>1 DEF Rises
<1>6. Above(b, {a}) /\ Above(d, {a, b}) => InOrder(s)
    <2> SUFFICES ASSUME Above(b, {a}), Above(d, {a, b}),
                        NEW i \in 0 .. Len(s) - 1, NEW g \in Asks(s, i)
                 PROVE  Above(g, Before(s, i))
        BY DEF InOrder
    <2>1. CASE i = 0
        BY <1>1, <2>1 DEF Above
    <2>2. CASE i = 1
        BY <1>1, <2>2
    <2>3. CASE i = 2
        BY <1>1, <2>3
    <2> QED
        BY <1>2, <2>1, <2>2, <2>3
<1>7. \A i \in 1 .. Len(s) : s[i].io = "none"
    BY <1>3
<1> QED
    BY <1>4, <1>5, <1>6, <1>7

(* The guards the handlers ask for. *)
LEMMA HandlerGuards ==
    ASSUME NEW c \in Camera
    PROVE  /\ Rm \in Guard /\ Rm.lock = Mgr /\ Rm.mode = "R" /\ Rm.how = "await"
           /\ Wm \in Guard /\ Wm.lock = Mgr /\ Wm.mode = "W" /\ Wm.how = "await"
           /\ Rc(c) \in Guard /\ Rc(c).lock = Cam(c) /\ Rc(c).mode = "R" /\ Rc(c).how = "await"
           /\ Wc(c) \in Guard /\ Wc(c).lock = Cam(c) /\ Wc(c).mode = "W" /\ Wc(c).how = "await"
           /\ LsIfConnected(c) \in Guard /\ LsIfConnected(c).lock = Socket(c)
           /\ LsIfConnected(c).mode = "W" /\ LsIfConnected(c).how = "maybe"
           /\ Ls(c) \in Guard /\ Ls(c).lock = Socket(c)
           /\ Ls(c).mode = "W" /\ Ls(c).how = "await"
BY LockFacts, GuardFacts DEF Rm, Wm, Rc, Wc, LsIfConnected, Ls, How

(* Guards of different locks differ. *)
LEMMA OtherLock == \A g, h : g.lock # h.lock => g # h
OBVIOUS

LEMMA WriteCameraBlock ==
    ASSUME NEW c \in Camera
    PROVE  Block(WriteCamera(c), c) /\ InOrder(WriteCamera(c))
<1>1. Wm # Wc(c) /\ Above(Wc(c), {Wm})
    BY LockFacts, HandlerGuards DEF Above
<1> QED
    BY <1>1, HandlerGuards, TwoScopes DEF WriteCamera

LEMMA CloneConnBlock ==
    ASSUME NEW c \in Camera
    PROVE  Block(CloneConn(c), c) /\ InOrder(CloneConn(c))
<1>1. Rm # Rc(c) /\ Above(Rc(c), {Rm})
    BY LockFacts, HandlerGuards DEF Above
<1> QED
    BY <1>1, HandlerGuards, TwoScopes DEF CloneConn

LEMMA TryCloneBlock ==
    ASSUME NEW c \in Camera
    PROVE  Block(TryClone(c), c) /\ InOrder(TryClone(c))
<1> DEFINE need == Ask(Cam(c), "R", "need")
<1>1. need \in Guard /\ need.lock = Cam(c) /\ need.how = "need"
    BY LockFacts, GuardFacts DEF How
<1>2. Rm # need /\ Above(need, {Rm})
    BY <1>1, LockFacts, HandlerGuards DEF Above
<1> QED
    BY <1>1, <1>2, HandlerGuards, TwoScopes DEF TryClone

LEMMA AnswerBlock ==
    ASSUME NEW c \in Camera, NEW w, Written(w, {Rm, Rc(c), LsIfConnected(c)})
    PROVE  Block(Answer(c, w), c) /\ InOrder(Answer(c, w))
<1> DEFINE all == {Rm, Rc(c), LsIfConnected(c)}
           pre == <<Hold({Rm}), Hold({Rm, Rc(c)}), Hold(all)>>
<1>1. Rm # Rc(c) /\ Rm # LsIfConnected(c) /\ Rc(c) # LsIfConnected(c)
    BY LockFacts, HandlerGuards
<1>2. Above(Rc(c), {Rm}) /\ Above(LsIfConnected(c), {Rm, Rc(c)})
    BY LockFacts, HandlerGuards DEF Above
<1>3. /\ pre \in Seq(Step) /\ Len(pre) = 3
      /\ pre[1].held = {Rm} /\ pre[2].held = {Rm, Rc(c)} /\ pre[3].held = all
      /\ pre[1].io = "none" /\ pre[2].io = "none" /\ pre[3].io = "none"
    <2>1. /\ Hold({Rm}) \in Step /\ Hold({Rm}).held = {Rm} /\ Hold({Rm}).io = "none"
          /\ Hold({Rm, Rc(c)}) \in Step /\ Hold({Rm, Rc(c)}).held = {Rm, Rc(c)}
          /\ Hold({Rm, Rc(c)}).io = "none"
          /\ Hold(all) \in Step /\ Hold(all).held = all /\ Hold(all).io = "none"
        BY HandlerGuards, StepFacts
    <2> QED
        BY <2>1
<1>4. PICK a \in Guard, b \in Guard, d \in Guard :
          a = Rm /\ b = Rc(c) /\ d = LsIfConnected(c)
    BY HandlerGuards
<1>5. a # b /\ a # d /\ b # d /\ Above(b, {a}) /\ Above(d, {a, b})
    BY <1>1, <1>2, <1>4
<1> HIDE DEF pre
<1>6. PICK p \in Seq(Step) : p = pre
    BY <1>3
<1>7. /\ Len(p) = 3
       /\ p[1].held = {a} /\ p[2].held = {a, b} /\ p[3].held = {a, b, d}
       /\ p[1].io = "none" /\ p[2].io = "none" /\ p[3].io = "none"
    BY <1>3, <1>4, <1>6
<1>8. /\ Rises(p) /\ OneByOne(p) /\ InOrder(p)
      /\ \A i \in 1 .. Len(p) : p[i].io = "none"
    BY <1>5, <1>7, ThreeRise
<1>9. SocketHeld(c, {a, b, d}) /\ Written(w, {a, b, d})
    BY <1>4, HandlerGuards DEF SocketHeld
<1>10. p[Len(p)] = p[3] /\ Len(p) >= 1
    BY <1>7, LastOf
<1>11. p[Len(p)].held = {a, b, d}
    BY <1>7, <1>10
<1>12. SocketHeld(c, p[Len(p)].held) /\ Written(w, p[Len(p)].held)
    BY <1>9, <1>11
<1>13. Block(p \o w \o <<Hold({})>>, c) /\ InOrder(p \o w \o <<Hold({})>>)
    BY <1>8, <1>10, <1>12, Bracket
<1> QED
    BY <1>6, <1>13 DEF Answer, pre

LEMMA SendBlock ==
    ASSUME NEW c \in Camera, NEW how \in How, NEW w, Written(w, {Ask(Socket(c), "W", how)})
    PROVE  Block(SendOnClone(c, how, w), c) /\ InOrder(SendOnClone(c, how, w))
<1> DEFINE g == Ask(Socket(c), "W", how)
           pre == <<Hold({g})>>
<1>1. g \in Guard /\ g.lock = Socket(c) /\ g.mode = "W"
    BY LockFacts, GuardFacts
<1>2. Hold({g}) \in Step /\ Hold({g}).held = {g} /\ Hold({g}).io = "none"
    BY <1>1, StepFacts
<1> HIDE DEF g
<1>3. /\ pre \in Seq(Step) /\ Len(pre) = 1 /\ pre[1].held = {g} /\ pre[1].io = "none"
    BY <1>2
<1> HIDE DEF pre
<1>4. Before(pre, 0) = {} /\ Asks(pre, 0) = {g}
    BY <1>3 DEF Before, Asks
<1>5. \A i \in 0 .. Len(pre) - 1 : i = 0
    BY <1>3
<1>6. OneByOne(pre) /\ InOrder(pre)
    BY <1>4, <1>5 DEF OneByOne, InOrder, Above
<1>7. \A i \in 1 .. Len(pre) : i = 1
    BY <1>3
<1>8. Rises(pre) /\ \A i \in 1 .. Len(pre) : pre[i].io = "none"
    BY <1>3, <1>7 DEF Rises
<1>9. SocketHeld(c, {g}) /\ Written(w, {g})
    BY <1>1 DEF SocketHeld, g
<1>10. PICK p \in Seq(Step) : p = pre
    BY <1>3
<1>11. /\ Rises(p) /\ OneByOne(p) /\ InOrder(p)
       /\ \A i \in 1 .. Len(p) : p[i].io = "none"
    BY <1>3, <1>6, <1>8, <1>10
<1>12. Len(p) >= 1 /\ p[Len(p)].held = {g}
    <2>1. Len(p) = 1 /\ p[1].held = {g}
        BY <1>3, <1>10
    <2>2. p[Len(p)] = p[1] /\ Len(p) >= 1
        BY <2>1, LastOf
    <2> QED
        BY <2>1, <2>2
<1>13. SocketHeld(c, p[Len(p)].held) /\ Written(w, p[Len(p)].held)
    BY <1>9, <1>12
<1>14. Block(p \o w \o <<Hold({})>>, c) /\ InOrder(p \o w \o <<Hold({})>>)
    BY <1>11, <1>12, <1>13, Bracket
<1> QED
    BY <1>10, <1>14 DEF SendOnClone, pre, g

LEMMA FrameBlock ==
    ASSUME NEW c \in Camera
    PROVE  /\ Block(handle_video_frame(c), c) /\ InOrder(handle_video_frame(c))
           /\ Block(handle_video_frame_tcp(c), c) /\ InOrder(handle_video_frame_tcp(c))
           /\ Block(handle_code51_response(c), c) /\ InOrder(handle_code51_response(c))
<1>1. /\ Block(Scope(Wm), c) /\ InOrder(Scope(Wm))
      /\ Block(Scope(Wc(c)), c) /\ InOrder(Scope(Wc(c)))
    BY HandlerGuards, OneScope
<1>2. /\ Block(Scope(Wm) \o Scope(Wc(c)), c)
      /\ InOrder(Scope(Wm) \o Scope(Wc(c)))
    BY <1>1, ConcatBlock, ConcatInOrder
<1> QED
    BY <1>2 DEF handle_video_frame, handle_video_frame_tcp, handle_code51_response

LEMMA StopStreamingTaskBlock ==
    ASSUME NEW c \in Camera
    PROVE  Block(StopStreamingTask(c), c) /\ InOrder(StopStreamingTask(c))
<1>1. PICK wm \in Guard, wc \in Guard, rm \in Guard, rc \in Guard :
          /\ wm = Ask(Mgr, "W", "try") /\ wc = Ask(Cam(c), "W", "try")
          /\ rm = Ask(Mgr, "R", "need") /\ rc = Ask(Cam(c), "R", "need")
    BY LockFacts, GuardFacts DEF How
<1>2. wm # wc /\ rm # rc /\ Above(wc, {wm}) /\ Above(rc, {rm})
    BY <1>1, LockFacts, GuardFacts DEF How, Above
<1>3. PICK a, b, d : /\ a = Inside(wm, wc) /\ b = Inside(rm, rc)
                     /\ d = SendOnClone(c, "maybe", OneWrite({LsIfConnected(c)}))
    OBVIOUS
<1>4. Block(a, c) /\ InOrder(a) /\ Block(b, c) /\ InOrder(b)
    BY <1>2, <1>3, TwoScopes
<1>5. Block(d, c) /\ InOrder(d)
    <2>1. Written(OneWrite({LsIfConnected(c)}), {LsIfConnected(c)})
        BY HandlerGuards, WritesWritten
    <2> QED
        BY <1>3, <2>1, SendBlock DEF LsIfConnected, How
<1>6. Block(a \o b, c) /\ InOrder(a \o b)
    BY <1>4, ConcatBlock, ConcatInOrder
<1>7. Block(a \o b \o d, c) /\ InOrder(a \o b \o d)
    BY <1>5, <1>6, ConcatBlock, ConcatInOrder
<1> QED
    BY <1>1, <1>3, <1>7 DEF StopStreamingTask

-----------------------------------------------------------------------------
(* Guards taken and dropped one after the other in the scope of another: s  *)
(* goes through them and ends as u does.                                    *)
Visits(s, m, gs, n, u, q) ==
    /\ Len(s) = 2 * n + q /\ Len(u) = q
    /\ \A k \in 1 .. n : /\ s[2 * k - 1].held = {m} /\ s[2 * k].held = {m, gs[k]}
                         /\ gs[k] # m
    /\ \A i \in 1 .. 2 * n : s[i].io = "none"
    /\ u[1].held = {m} /\ \A x \in 1 .. q - 1 : m \in u[x].held
    /\ \A x \in 1 .. q : s[2 * n + x] = u[x]

(* What is asked for in s is one of the guards, or what u asks for. *)
Visited(s, m, gs, n, u, q) ==
    \A i \in 0 .. Len(s) - 1 : \A g \in Asks(s, i) :
        \/ \E k \in 1 .. n : g = gs[k] /\ Before(s, i) = {m}
        \/ \E x \in 0 .. q - 1 : g \in Asks(u, x) /\ Before(s, i) = Before(u, x)

LEMMA VisitThen ==
    ASSUME NEW c, NEW m \in Guard, NEW gs \in Seq(Guard), NEW n \in Nat,
           NEW u \in Seq(Step), NEW q \in Nat, Block(u, c),
           NEW s \in Seq(Step), Visits(s, m, gs, n, u, q)
    PROVE  Block(s, c) /\ Visited(s, m, gs, n, u, q)
<1>1. q >= 1 /\ u[q].held = {}
    BY DEF Block, Visits
<1>2. Len(s) = 2 * n + q /\ Len(s) \in Nat
    BY DEF Visits
<1>3. /\ u[1].held = {m} /\ \A x \in 1 .. q - 1 : m \in u[x].held
      /\ \A x \in 1 .. q : s[2 * n + x] = u[x]
    BY DEF Visits
<1>4. /\ \A k \in 1 .. n : /\ s[2 * k - 1].held = {m} /\ s[2 * k].held = {m, gs[k]}
                           /\ gs[k] # m
      /\ \A i \in 1 .. 2 * n : s[i].io = "none"
    BY DEF Visits
<1>5. /\ \A x \in 0 .. q - 1 : \A g, h \in Asks(u, x) : g = h
      /\ \A x \in 1 .. q :
            /\ u[x].io # "none" => SocketHeld(c, u[x].held)
            /\ u[x].io = "header" => x < q /\ u[x + 1].io # "none"
    BY <1>1 DEF Block, OneByOne, WritesWhole, Visits
(* The points of s. *)
<1>6. ASSUME NEW i \in 1 .. Len(s)
      PROVE  \/ \E k \in 1 .. n : i = 2 * k - 1
             \/ \E k \in 1 .. n : i = 2 * k
             \/ \E x \in 1 .. q : i = 2 * n + x
    <2>1. CASE i > 2 * n
        <3>1. i - 2 * n \in 1 .. q /\ i = 2 * n + (i - 2 * n)
            BY <1>1, <1>2, <2>1
        <3> QED
            BY <3>1
    <2>2. CASE ~(i > 2 * n)
        <3>1. PICK k \in Nat : i = 2 * k \/ i = 2 * k + 1
            <4>1. i \div 2 \in Nat /\ (i = 2 * (i \div 2) \/ i = 2 * (i \div 2) + 1)
                OBVIOUS
            <4> QED
                BY <4>1
        <3>2. CASE i = 2 * k
            <4>1. k \in 1 .. n
                BY <2>2, <3>2
            <4> QED
                BY <3>2, <4>1
        <3>3. CASE i = 2 * k + 1
            <4>1. k + 1 \in 1 .. n /\ i = 2 * (k + 1) - 1
                BY <2>2, <3>3
            <4> QED
                BY <4>1
        <3> QED
            BY <3>1, <3>2, <3>3
    <2> QED
        BY <2>1, <2>2
<1>7. ASSUME NEW i \in 1 .. Len(s) - 1 PROVE m \in s[i].held
    <2>1. i \in 1 .. Len(s)
        BY <1>2
    <2>2. CASE \E k \in 1 .. n : i = 2 * k - 1
        BY <1>4, <2>2
    <2>3. CASE \E k \in 1 .. n : i = 2 * k
        BY <1>4, <2>3
    <2>4. CASE \E x \in 1 .. q : i = 2 * n + x
        <3>1. PICK x \in 1 .. q : i = 2 * n + x
            BY <2>4
        <3>2. x \in 1 .. q - 1
            BY <1>1, <1>2, <3>1
        <3> QED
            BY <1>3, <3>1, <3>2
    <2> QED
        BY <1>6, <2>1, <2>2, <2>3, <2>4
(* What is asked for in s, and with what in hand. *)
<1>8. s[2 * n + 1].held = {m}
    <2>1. 1 \in 1 .. q
        BY <1>1
    <2> QED
        BY <1>3, <2>1
<1>9. ASSUME NEW k \in 1 .. n PROVE s[2 * k + 1].held = {m}
    <2>1. CASE k = n
        BY <1>8, <2>1
    <2>2. CASE k # n
        <3>1. k + 1 \in 1 .. n /\ 2 * (k + 1) - 1 = 2 * k + 1
            BY <2>2
        <3> QED
            BY <1>4, <3>1
    <2> QED
        BY <2>1, <2>2
<1>10. s[1].held = {m}
    <2>1. CASE n = 0
        BY <1>8, <2>1
    <2>2. CASE n # 0
        <3>1. 1 \in 1 .. n /\ 2 * 1 - 1 = 1
            BY <2>2
        <3> QED
            BY <1>4, <3>1
    <2> QED
        BY <2>1, <2>2
<1>11. Before(s, 0) = {} /\ Asks(s, 0) = {m}
    BY <1>10 DEF Before, Asks
<1>12. Before(u, 0) = {} /\ Asks(u, 0) = {m}
    BY <1>3 DEF Before, Asks
<1>13. ASSUME NEW k \in 1 .. n
       PROVE  Before(s, 2 * k - 1) = {m} /\ Asks(s, 2 * k - 1) = {gs[k]}
    <2>1. 2 * k - 1 # 0 /\ (2 * k - 1) + 1 = 2 * k
        OBVIOUS
    <2>2. s[2 * k - 1].held = {m} /\ s[2 * k].held = {m, gs[k]} /\ gs[k] # m
        BY <1>4
    <2> QED
        BY <2>1, <2>2 DEF Before, Asks
<1>14. ASSUME NEW k \in 1 .. n PROVE Asks(s, 2 * k) = {}
    <2>1. 2 * k # 0
        OBVIOUS
    <2>2. s[2 * k].held = {m, gs[k]}
        BY <1>4
    <2> QED
        BY <1>9, <2>1, <2>2 DEF Before, Asks
<1>15. ASSUME NEW x \in 1 .. q - 1
       PROVE  Before(s, 2 * n + x) = Before(u, x) /\ Asks(s, 2 * n + x) = Asks(u, x)
    <2>1. x \in 1 .. q /\ x + 1 \in 1 .. q /\ (2 * n + x) + 1 = 2 * n + (x + 1)
          /\ 2 * n + x # 0 /\ x # 0
        BY <1>1
    <2> QED
        BY <1>3, <2>1 DEF Before, Asks
<1>16. ASSUME NEW i \in 0 .. Len(s) - 1
       PROVE  \/ i = 0
              \/ \E k \in 1 .. n : i = 2 * k - 1
              \/ \E k \in 1 .. n : i = 2 * k
              \/ \E x \in 1 .. q - 1 : i = 2 * n + x
    <2>1. CASE i # 0
        <3>1. i \in 1 .. Len(s)
            BY <1>2, <2>1
        <3>2. ASSUME NEW x \in 1 .. q, i = 2 * n + x PROVE x \in 1 .. q - 1
            BY <1>1, <1>2, <3>2
        <3> QED
            BY <1>6, <3>1, <3>2
    <2> QED
        BY <2>1
<1>17. OneByOne(s)
    <2>1. ASSUME NEW i \in 0 .. Len(s) - 1, NEW g \in Asks(s, i), NEW h \in Asks(s, i)
          PROVE  g = h
        <3>1. CASE i = 0
            BY <1>11, <3>1
        <3>2. CASE \E k \in 1 .. n : i = 2 * k - 1
            <4>1. PICK k \in 1 .. n : i = 2 * k - 1
                BY <3>2
            <4>2. Asks(s, i) = {gs[k]}
                BY <1>13, <4>1
            <4> QED
                BY <4>2
        <3>3. CASE \E k \in 1 .. n : i = 2 * k
            <4>1. PICK k \in 1 .. n : i = 2 * k
                BY <3>3
            <4> QED
                BY <1>14, <4>1
        <3>4. CASE \E x \in 1 .. q - 1 : i = 2 * n + x
            <4>1. PICK x \in 1 .. q - 1 : i = 2 * n + x
                BY <3>4
            <4>2. x \in 0 .. q - 1
                BY <1>1
            <4> QED
                BY <1>5, <1>15, <4>1, <4>2
        <3> QED
            BY <1>16, <3>1, <3>2, <3>3, <3>4
    <2> QED
        BY <2>1 DEF OneByOne
<1>18. WritesWhole(s, c)
    <2>1. ASSUME NEW i \in 1 .. Len(s)
          PROVE  /\ s[i].io # "none" => SocketHeld(c, s[i].held)
                 /\ s[i].io = "header" => i < Len(s) /\ s[i + 1].io # "none"
        <3>1. CASE \E x \in 1 .. q : i = 2 * n + x
            <4>1. PICK x \in 1 .. q : i = 2 * n + x
                BY <3>1
            <4>2. x < q => /\ i < Len(s) /\ x + 1 \in 1 .. q
                           /\ i + 1 = 2 * n + (x + 1)
                BY <1>1, <1>2, <4>1
            <4>3. s[i] = u[x] /\ (x < q => s[i + 1] = u[x + 1])
                BY <1>3, <4>1, <4>2
            <4>4. /\ u[x].io # "none" => SocketHeld(c, u[x].held)
                  /\ u[x].io = "header" => x < q /\ u[x + 1].io # "none"
                BY <1>5
            <4> QED
                BY <4>2, <4>3, <4>4
        <3>2. CASE ~ \E x \in 1 .. q : i = 2 * n + x
            <4>1. i > 2 * n => i - 2 * n \in 1 .. q /\ i = 2 * n + (i - 2 * n)
                BY <1>1, <1>2
            <4>2. i \in 1 .. 2 * n
                BY <3>2, <4>1
            <4> QED
                BY <1>4, <4>2
        <3> QED
            BY <3>1, <3>2
    <2> QED
        BY <2>1 DEF WritesWhole
<1>19. s[Len(s)].held = {} /\ Len(s) >= 1
    <2>1. q \in 1 .. q
        BY <1>1
    <2>2. PICK e \in Nat : e = 2 * n + q
        BY <1>1
    <2>3. e >= 1
        BY <1>1, <2>2
    <2>4. Len(s) = e
        BY <1>2, <2>2
    <2>5. s[e] = u[q]
        BY <1>3, <2>1, <2>2
    <2>6. s[Len(s)] = s[e] /\ Len(s) >= 1
        BY <2>3, <2>4, LastOf
    <2> QED
        BY <1>1, <2>5, <2>6
<1>20. Nests(s)
    <2> SUFFICES ASSUME NEW i \in 0 .. Len(s) - 1, NEW g \in Asks(s, i),
                        NEW e \in i + 1 .. Len(s), g \notin s[e].held,
                        \A y \in i + 1 .. e - 1 : g \in s[y].held
                 PROVE  s[e].held \subseteq Before(s, i)
        BY DEF Nests
    <2>1. CASE i = 0
        <3>1. g = m
            BY <1>11, <2>1
        <3>2. e = Len(s)
            <4>1. e \in 1 .. Len(s) - 1 \/ e = Len(s)
                BY <1>2, <2>1
            <4> QED
                BY <1>7, <3>1, <4>1
        <3> QED
            BY <1>19, <3>2
    <2>2. CASE \E k \in 1 .. n : i = 2 * k - 1
        <3>1. PICK k \in 1 .. n : i = 2 * k - 1
            BY <2>2
        <3>2. g = gs[k] /\ Before(s, i) = {m} /\ g # m
            BY <1>4, <1>13, <3>1
        <3>3. e # 2 * k
            BY <1>4, <3>2
        <3>4. ASSUME e > 2 * k + 1 PROVE FALSE
            <4>1. 2 * k + 1 \in i + 1 .. e - 1
                BY <1>2, <3>1, <3>4
            <4> QED
                BY <1>9, <3>2, <4>1
        <3>5. e = 2 * k + 1
            BY <1>2, <3>1, <3>3, <3>4
        <3> QED
            BY <1>9, <3>2, <3>5
    <2>3. CASE \E k \in 1 .. n : i = 2 * k
        BY <1>14, <2>3
    <2>4. CASE \E x \in 1 .. q - 1 : i = 2 * n + x
        <3>1. PICK x \in 1 .. q - 1 : i = 2 * n + x
            BY <2>4
        <3>2. e - 2 * n \in x + 1 .. q /\ e = 2 * n + (e - 2 * n)
            BY <1>1, <1>2, <3>1
        <3>3. PICK z \in x + 1 .. q : e = 2 * n + z
            BY <3>2
        <3>4. z \in 1 .. q /\ x \in 0 .. q - 1
            BY <1>1, <3>3
        <3>5. s[e] = u[z] /\ g \in Asks(u, x) /\ Before(s, i) = Before(u, x)
            BY <1>3, <1>15, <3>1, <3>3, <3>4
        <3>6. ASSUME NEW y \in x + 1 .. z - 1 PROVE g \in u[y].held
            <4>1. 2 * n + y \in i + 1 .. e - 1 /\ y \in 1 .. q
                BY <1>1, <3>1, <3>3
            <4> QED
                BY <1>3, <4>1
        <3> QED
            BY <3>3, <3>4, <3>5, <3>6 DEF Block, Nests, Visits
    <2> QED
        BY <1>16, <2>1, <2>2, <2>3, <2>4
<1>21. ASSUME NEW i \in 0 .. Len(s) - 1, NEW g \in Asks(s, i)
       PROVE  \/ \E k \in 1 .. n : g = gs[k] /\ Before(s, i) = {m}
              \/ \E x \in 0 .. q - 1 : g \in Asks(u, x) /\ Before(s, i) = Before(u, x)
    <2>1. CASE i = 0
        <3>1. 0 \in 0 .. q - 1
            BY <1>1
        <3> QED
            BY <1>11, <1>12, <2>1, <3>1
    <2>2. CASE \E k \in 1 .. n : i = 2 * k - 1
        BY <1>13, <2>2
    <2>3. CASE \E k \in 1 .. n : i = 2 * k
        BY <1>14, <2>3
    <2>4. CASE \E x \in 1 .. q - 1 : i = 2 * n + x
        <3>1. PICK x \in 1 .. q - 1 : i = 2 * n + x
            BY <2>4
        <3>2. x \in 0 .. q - 1
            BY <1>1
        <3> QED
            BY <1>15, <3>1, <3>2
    <2> QED
        BY <1>16, <2>1, <2>2, <2>3, <2>4
<1>22. Block(s, c)
    BY <1>17, <1>18, <1>19, <1>20 DEF Block
<1> QED
    BY <1>21, <1>22 DEF Visited

LEMMA VisitPoints ==
    ASSUME NEW m \in Guard, NEW gs \in Seq(Guard)
    PROVE  /\ Visit(m, gs) \in Seq(Step) /\ Len(Visit(m, gs)) = 2 * Len(gs) + 1
           /\ \A i \in 1 .. 2 * Len(gs) + 1 : Visit(m, gs)[i].io = "none"
           /\ \A k \in 1 .. Len(gs) : /\ Visit(m, gs)[2 * k - 1].held = {m}
                                      /\ Visit(m, gs)[2 * k].held = {m, gs[k]}
           /\ Visit(m, gs)[2 * Len(gs) + 1] = Hold({m})
<1> DEFINE v == Visit(m, gs)
<1>1. PICK n \in Nat : n = Len(gs)
    BY LenProperties
<1>2. \A k \in 1 .. n : gs[k] \in Guard
    BY <1>1, ElementOfSeq
<1>3. Hold({m}) \in Step /\ Hold({m}).held = {m} /\ Hold({m}).io = "none"
    BY StepFacts
<1>4. ASSUME NEW g \in Guard
      PROVE  /\ Hold({m, g}) \in Step /\ Hold({m, g}).held = {m, g}
             /\ Hold({m, g}).io = "none"
    BY StepFacts
<1>5. v = [i \in 1 .. 2 * n + 1 |->
              Hold(IF i % 2 = 1 THEN {m} ELSE {m, gs[i \div 2]})]
    BY <1>1 DEF Visit
<1> HIDE DEF v
<1>6. ASSUME NEW k \in 1 .. n
      PROVE  v[2 * k - 1] = Hold({m}) /\ v[2 * k] = Hold({m, gs[k]})
    <2>1. /\ 2 * k - 1 \in 1 .. 2 * n + 1 /\ (2 * k - 1) % 2 = 1
          /\ 2 * k \in 1 .. 2 * n + 1 /\ (2 * k) % 2 # 1 /\ (2 * k) \div 2 = k
        OBVIOUS
    <2> QED
        BY <1>5, <2>1
<1>7. v[2 * n + 1] = Hold({m})
    <2>1. 2 * n + 1 \in 1 .. 2 * n + 1 /\ (2 * n + 1) % 2 = 1
        OBVIOUS
    <2> QED
        BY <1>5, <2>1
<1>8. ASSUME NEW i \in 1 .. 2 * n + 1 PROVE v[i] \in Step /\ v[i].io = "none"
    <2>1. CASE i % 2 = 1
        BY <1>3, <1>5, <2>1
    <2>2. CASE i % 2 # 1
        <3>1. i \div 2 \in 1 .. n
            BY <2>2
        <3>2. gs[i \div 2] \in Guard
            BY <1>2, <3>1
        <3> QED
            BY <1>4, <1>5, <2>2, <3>2
    <2> QED
        BY <2>1, <2>2
<1>9. v \in Seq(Step) /\ Len(v) = 2 * n + 1
    <2>1. PICK N \in Nat : N = 2 * n + 1
        OBVIOUS
    <2>2. \A i \in 1 .. N : v[i] \in Step
        BY <1>8, <2>1
    <2>3. v = [i \in 1 .. N |-> v[i]]
        BY <1>5, <2>1
    <2>4. [i \in 1 .. N |-> v[i]] \in [1 .. N -> Step]
        BY <2>2
    <2>5. v \in [1 .. N -> Step]
        BY <2>3, <2>4
    <2>6. v \in Seq(Step) /\ DOMAIN v = 1 .. N
        BY <2>5, SeqDef
    <2>7. Len(v) = N
        BY <2>6, LenProperties
    <2> QED
        BY <2>1, <2>6, <2>7
<1> QED
    BY <1>1, <1>2, <1>3, <1>4, <1>6, <1>7, <1>8, <1>9 DEF v

(* The same of Visit and what follows it, t: u is t with the guard taken.   *)
Taken(u, m, t) ==
    /\ Len(u) = Len(t) + 1 /\ u[1] = Hold({m})
    /\ \A x \in 1 .. Len(t) : u[x + 1] = t[x] /\ m \in u[x].held

LEMMA VisitBlock ==
    ASSUME NEW c, NEW m \in Guard, NEW gs \in Seq(Guard), \A k \in 1 .. Len(gs) : gs[k] # m,
           NEW t \in Seq(Step), NEW u \in Seq(Step), Block(u, c), Taken(u, m, t)
    PROVE  /\ Block(Visit(m, gs) \o t, c)
           /\ Visited(Visit(m, gs) \o t, m, gs, Len(gs), u, Len(u))
<1>1. PICK n \in Nat, q \in Nat : n = Len(gs) /\ q = Len(t)
    BY LenProperties
<1>2. PICK v \in Seq(Step) : v = Visit(m, gs)
    BY VisitPoints
<1>3. /\ \A i \in 1 .. 2 * n + 1 : v[i].io = "none"
      /\ \A k \in 1 .. n : v[2 * k - 1].held = {m} /\ v[2 * k].held = {m, gs[k]}
      /\ v[2 * n + 1] = Hold({m})
    BY <1>1, <1>2, VisitPoints
<1>4. Len(v) = 2 * n + 1
    BY <1>1, <1>2, VisitPoints
<1>5. PICK s \in Seq(Step) : s = v \o t
    BY ConcatProperties
<1>6. /\ s \in Seq(Step) /\ Len(s) = Len(v) + Len(t)
      /\ \A i \in 1 .. Len(v) + Len(t) : s[i] = IF i <= Len(v) THEN v[i] ELSE t[i - Len(v)]
    BY <1>5, ConcatProperties
<1>7. /\ Len(s) = (2 * n + 1) + q
      /\ \A i \in 1 .. (2 * n + 1) + q :
            s[i] = IF i <= 2 * n + 1 THEN v[i] ELSE t[i - (2 * n + 1)]
    BY <1>1, <1>4, <1>6
<1>8. /\ Len(u) = q + 1 /\ u[1] = Hold({m})
      /\ \A x \in 1 .. q : u[x + 1] = t[x] /\ m \in u[x].held
    BY <1>1 DEF Taken
<1>9. u[1].held = {m}
    BY <1>8, StepFacts
<1>10. \A i \in 1 .. 2 * n + 1 : s[i] = v[i]
    <2>1. ASSUME NEW i \in 1 .. 2 * n + 1
          PROVE  i \in 1 .. (2 * n + 1) + q /\ i <= 2 * n + 1
        OBVIOUS
    <2> QED
        BY <1>7, <2>1
<1>11. ASSUME NEW k \in 1 .. n
       PROVE  s[2 * k - 1].held = {m} /\ s[2 * k].held = {m, gs[k]}
    <2>1. 2 * k - 1 \in 1 .. 2 * n + 1 /\ 2 * k \in 1 .. 2 * n + 1
        OBVIOUS
    <2> QED
        BY <1>3, <1>10, <2>1
<1>12. ASSUME NEW i \in 1 .. 2 * n PROVE s[i].io = "none"
    <2>1. i \in 1 .. 2 * n + 1
        OBVIOUS
    <2> QED
        BY <1>3, <1>10, <2>1
<1>13. ASSUME NEW x \in 2 .. q + 1 PROVE s[2 * n + x] = u[x]
    <2>1. /\ 2 * n + x \in 1 .. (2 * n + 1) + q /\ ~(2 * n + x <= 2 * n + 1)
          /\ (2 * n + x) - (2 * n + 1) = x - 1 /\ x - 1 \in 1 .. q /\ (x - 1) + 1 = x
        OBVIOUS
    <2>2. s[2 * n + x] = t[x - 1]
        BY <1>7, <2>1
    <2>3. u[x] = t[x - 1]
        BY <1>8, <2>1
    <2> QED
        BY <2>2, <2>3
<1>14. ASSUME NEW x \in 1 .. q + 1 PROVE s[2 * n + x] = u[x]
    <2>1. CASE x = 1
        <3>1. 2 * n + 1 \in 1 .. 2 * n + 1
            OBVIOUS
        <3>2. s[2 * n + 1] = u[1]
            BY <1>3, <1>8, <1>10, <3>1
        <3> QED
            BY <2>1, <3>2
    <2>2. CASE x # 1
        <3>1. x \in 2 .. q + 1
            BY <2>2
        <3> QED
            BY <1>13, <3>1
    <2> QED
        BY <2>1, <2>2
<1>15. \A k \in 1 .. n : gs[k] # m
    BY <1>1
<1>16. PICK e \in Nat : e = q + 1 /\ e = Len(u)
    BY <1>8
<1>17. \A x \in 1 .. e - 1 : m \in u[x].held
    BY <1>8, <1>16
<1>18. Len(s) = 2 * n + e
    BY <1>7, <1>16
<1>19. \A x \in 1 .. e : s[2 * n + x] = u[x]
    BY <1>14, <1>16
<1>20. Block(s, c) /\ Visited(s, m, gs, n, u, e)
    <2>1. Visits(s, m, gs, n, u, e)
        BY <1>9, <1>11, <1>12, <1>15, <1>16, <1>17, <1>18, <1>19 DEF Visits
    <2> QED
        BY <2>1, VisitThen
<1> QED
    BY <1>1, <1>2, <1>5, <1>16, <1>20

(* The guards of the cameras, in the order of the map. *)
LEMMA CameraGuards ==
    ASSUME NEW n \in Nat, n <= Len(CameraSeq), NEW mode \in {"R", "W"},
           NEW gs, gs = [i \in 1 .. n |-> gs[i]],
           \A i \in 1 .. n : \E how \in How : gs[i] = Ask(Cam(CameraSeq[i]), mode, how)
    PROVE  /\ gs \in Seq(Guard) /\ Len(gs) = n
           /\ \A k \in 1 .. n : Rank[gs[k].lock] = 2
<1>1. Len(CameraSeq) \in Nat
    BY CameraAssumption, LenProperties
<1>2. ASSUME NEW i \in 1 .. n PROVE gs[i] \in Guard /\ Rank[gs[i].lock] = 2
    <2>1. CameraSeq[i] \in Camera
        BY <1>1 DEF Camera, Elements
    <2>2. PICK c \in Camera : c = CameraSeq[i]
        BY <2>1
    <2>3. Cam(c) \in Lock /\ Rank[Cam(c)] = 2
        BY LockFacts
    <2>4. PICK how \in How : gs[i] = Ask(Cam(c), mode, how)
        BY <2>2
    <2>5. Ask(Cam(c), mode, how) \in Guard /\ Ask(Cam(c), mode, how).lock = Cam(c)
        BY <2>3, GuardFacts
    <2> QED
        BY <2>3, <2>4, <2>5
<1>3. [i \in 1 .. n |-> gs[i]] \in [1 .. n -> Guard]
    BY <1>2
<1>4. gs \in [1 .. n -> Guard]
    BY <1>3
<1>5. gs \in Seq(Guard) /\ DOMAIN gs = 1 .. n
    BY <1>4, SeqDef
<1>6. Len(gs) = n
    BY <1>5, LenProperties
<1> QED
    BY <1>2, <1>5, <1>6

(* The search for a camera ends. *)
LEMMA IndexFacts ==
    ASSUME NEW c \in Camera
    PROVE  /\ Index(c) \in 1 .. Len(CameraSeq) /\ Index(c) \in Nat
           /\ Index(c) <= Len(CameraSeq) /\ Len(CameraSeq) \in Nat
<1>1. Len(CameraSeq) \in Nat
    BY CameraAssumption, LenProperties
<1>2. \E i \in 1 .. Len(CameraSeq) : CameraSeq[i] = c
    BY DEF Camera, Elements
<1>3. Index(c) \in 1 .. Len(CameraSeq)
    BY <1>2 DEF Index
<1> QED
    BY <1>1, <1>3

(* A handler that goes through cameras and returns. *)
LEMMA ScanBlock ==
    ASSUME NEW c, NEW m \in Guard, m.lock = Mgr, NEW n \in Nat, n <= Len(CameraSeq),
           NEW mode \in {"R", "W"}, NEW gs, gs = [i \in 1 .. n |-> gs[i]],
           \A i \in 1 .. n : \E how \in How : gs[i] = Ask(Cam(CameraSeq[i]), mode, how),
           Rank[Mgr] = 1
    PROVE  Block(Visit(m, gs) \o <<Hold({})>>, c) /\ InOrder(Visit(m, gs) \o <<Hold({})>>)
<1>1. /\ gs \in Seq(Guard) /\ Len(gs) = n
      /\ \A k \in 1 .. n : Rank[gs[k].lock] = 2
    BY CameraGuards
<1>2. PICK g \in Seq(Guard) : g = gs
    BY <1>1
<1>3. \A k \in 1 .. Len(g) : g[k] # m /\ Above(g[k], {m})
    BY <1>1, <1>2 DEF Above
<1>4. <<Hold({})>> \in Seq(Step) /\ Len(<<Hold({})>>) = 1
    BY StepFacts
<1>5. PICK t \in Seq(Step) : t = <<Hold({})>>
    BY <1>4
<1>6. Len(t) = 1 /\ t[1] = Hold({})
    BY <1>5
<1>7. Scope(m) \in Seq(Step) /\ Len(Scope(m)) = 2
      /\ Scope(m)[1] = Hold({m}) /\ Scope(m)[2] = Hold({})
    BY StepFacts DEF Scope
<1>8. PICK u \in Seq(Step) : u = Scope(m)
    BY <1>7
<1>9. Block(u, c) /\ InOrder(u)
    BY <1>8, OneScope
<1>10. u[1] = Hold({m}) /\ u[2] = Hold({}) /\ Len(u) = 2
    BY <1>7, <1>8
<1>11. m \in u[1].held
    BY <1>10, StepFacts
<1>12. Taken(u, m, t)
    <2>1. Len(u) = Len(t) + 1
        BY <1>6, <1>10
    <2>2. ASSUME NEW x \in 1 .. Len(t) PROVE u[x + 1] = t[x] /\ m \in u[x].held
        <3>1. x = 1 /\ x + 1 = 2
            BY <1>6
        <3>2. u[2] = t[1]
            BY <1>6, <1>10
        <3> QED
            BY <1>11, <3>1, <3>2
    <2> QED
        BY <1>10, <2>1, <2>2 DEF Taken
<1>13. PICK s : s = Visit(m, g) \o t
    OBVIOUS
<1>14. Block(s, c) /\ Visited(s, m, g, Len(g), u, Len(u))
    BY <1>3, <1>9, <1>12, <1>13, VisitBlock
<1>15. InOrder(s)
    BY <1>3, <1>9, <1>14 DEF InOrder, Visited
<1> QED
    BY <1>2, <1>5, <1>13, <1>14, <1>15

LEMMA ListCamerasBlock ==
    ASSUME NEW c \in Camera
    PROVE  Block(list_cameras, c) /\ InOrder(list_cameras)
<1>1. PICK n \in Nat : n = Len(CameraSeq)
    BY IndexFacts
<1>2. n <= Len(CameraSeq)
    BY <1>1
<1>3. PICK gs : gs = [i \in 1 .. n |-> Rc(CameraSeq[i])]
    OBVIOUS
<1>4. gs = [i \in 1 .. n |-> gs[i]]
    BY <1>3
<1>5. ASSUME NEW i \in 1 .. n
      PROVE  \E how \in How : gs[i] = Ask(Cam(CameraSeq[i]), "R", how)
    BY <1>3 DEF Rc, How
<1>6. /\ Block(Visit(Rm, gs) \o <<Hold({})>>, c)
      /\ InOrder(Visit(Rm, gs) \o <<Hold({})>>)
    BY <1>2, <1>4, <1>5, LockFacts, HandlerGuards, ScanBlock
<1> QED
    BY <1>1, <1>3, <1>6 DEF list_cameras

LEMMA IncompleteTaskBlock ==
    ASSUME NEW c \in Camera
    PROVE  /\ Block(periodic_incomplete_frame_task, c)
           /\ InOrder(periodic_incomplete_frame_task)
<1>1. PICK n \in Nat : n = Len(CameraSeq)
    BY IndexFacts
<1>2. n <= Len(CameraSeq)
    BY <1>1
<1>3. PICK gs : gs = [i \in 1 .. n |-> Ask(Cam(CameraSeq[i]), "W", "try")]
    OBVIOUS
<1>4. gs = [i \in 1 .. n |-> gs[i]]
    BY <1>3
<1>5. ASSUME NEW i \in 1 .. n
      PROVE  \E how \in How : gs[i] = Ask(Cam(CameraSeq[i]), "W", how)
    BY <1>3 DEF How
<1>6. /\ Block(Visit(Wm, gs) \o <<Hold({})>>, c)
      /\ InOrder(Visit(Wm, gs) \o <<Hold({})>>)
    BY <1>2, <1>4, <1>5, LockFacts, HandlerGuards, ScanBlock
<1> QED
    BY <1>1, <1>3, <1>6 DEF periodic_incomplete_frame_task

LEMMA VideoStreamBlock ==
    ASSUME NEW c \in Camera
    PROVE  Block(get_video_stream(c), c) /\ InOrder(get_video_stream(c))
<1>1. PICK n \in Nat : n = Index(c) /\ n <= Len(CameraSeq)
    BY IndexFacts
<1>2. PICK gs : gs = [i \in 1 .. n |-> Rc(CameraSeq[i])]
    OBVIOUS
<1>3. gs = [i \in 1 .. n |-> gs[i]]
    BY <1>2
<1>4. ASSUME NEW i \in 1 .. n
      PROVE  \E how \in How : gs[i] = Ask(Cam(CameraSeq[i]), "R", how)
    BY <1>2 DEF Rc, How
<1>5. /\ Block(Visit(Rm, gs) \o <<Hold({})>>, c)
      /\ InOrder(Visit(Rm, gs) \o <<Hold({})>>)
    BY <1>1, <1>3, <1>4, LockFacts, HandlerGuards, ScanBlock
<1> QED
    BY <1>1, <1>2, <1>5 DEF get_video_stream

LEMMA FindDeviceBlock ==
    ASSUME NEW c \in Camera
    PROVE  Block(FindDevice(c), c) /\ InOrder(FindDevice(c))
<1> DEFINE how(i) == IF i = Index(c) THEN "need" ELSE "try"
<1>1. PICK n \in Nat : n = Index(c) /\ n <= Len(CameraSeq)
    BY IndexFacts
<1>2. PICK gs : gs = [i \in 1 .. n |-> Ask(Cam(CameraSeq[i]), "R", how(i))]
    OBVIOUS
<1>3. gs = [i \in 1 .. n |-> gs[i]]
    BY <1>2
<1>4. ASSUME NEW i \in 1 .. n
      PROVE  \E h \in How : gs[i] = Ask(Cam(CameraSeq[i]), "R", h)
    <2>1. how(i) \in How
        BY DEF How
    <2> QED
        BY <1>2, <2>1
<1>5. /\ Block(Visit(Rm, gs) \o <<Hold({})>>, c)
      /\ InOrder(Visit(Rm, gs) \o <<Hold({})>>)
    BY <1>1, <1>3, <1>4, LockFacts, HandlerGuards, ScanBlock
<1> QED
    BY <1>1, <1>2, <1>5 DEF FindDevice

-----------------------------------------------------------------------------
(* The other handlers that are made of such parts. *)
LEMMA WebBlocks ==
    ASSUME NEW c \in Camera
    PROVE  /\ Block(start_streaming(c), c) /\ InOrder(start_streaming(c))
           /\ Block(trigger_snapshot(c), c) /\ InOrder(trigger_snapshot(c))
           /\ Block(stop_streaming(c), c) /\ InOrder(stop_streaming(c))
           /\ Block(send_tcp_message(c), c) /\ InOrder(send_tcp_message(c))
<1>1. /\ Block(FindDevice(c) \o TryClone(c), c)
      /\ InOrder(FindDevice(c) \o TryClone(c))
    BY FindDeviceBlock, TryCloneBlock, ConcatBlock, ConcatInOrder
<1>2. Written(OneWrite({Ls(c)}), {Ls(c)})
    BY HandlerGuards, WritesWritten
<1> QED
    BY <1>1, <1>2, FindDeviceBlock, SendBlock
    DEF start_streaming, trigger_snapshot, stop_streaming, send_tcp_message, Ls, How

LEMMA CommandBlocks ==
    ASSUME NEW c \in Camera
    PROVE  /\ Block(send_streaming_command(c), c) /\ InOrder(send_streaming_command(c))
           /\ Block(send_stop_streaming_command(c), c)
           /\ InOrder(send_stop_streaming_command(c))
           /\ Block(handle_nat_probe_response(c), c)
           /\ InOrder(handle_nat_probe_response(c))
<1> DEFINE held == {LsIfConnected(c)}
           one == TwoWrites(held)
           six == one \o one \o one
           clone == CloneConn(c)
<1>1. Written(one, held)
    BY HandlerGuards, WritesWritten
<1>2. Written(six, held)
    BY <1>1, ConcatWritten
<1>3. Block(clone, c) /\ InOrder(clone)
    BY CloneConnBlock
<1>4. ASSUME NEW w, Written(w, held)
      PROVE  /\ Block(SendOnClone(c, "maybe", w), c)
             /\ InOrder(SendOnClone(c, "maybe", w))
    BY <1>4, SendBlock DEF LsIfConnected, How
<1>5. ASSUME NEW w, Written(w, held)
      PROVE  /\ Block(clone \o SendOnClone(c, "maybe", w), c)
             /\ InOrder(clone \o SendOnClone(c, "maybe", w))
    BY <1>3, <1>4, <1>5, ConcatBlock, ConcatInOrder
<1>6. /\ Block(clone \o SendOnClone(c, "maybe", one), c)
      /\ InOrder(clone \o SendOnClone(c, "maybe", one))
    BY <1>1, <1>5
<1>7. /\ Block(clone \o SendOnClone(c, "maybe", six) \o WriteCamera(c), c)
      /\ InOrder(clone \o SendOnClone(c, "maybe", six) \o WriteCamera(c))
    BY <1>2, <1>5, WriteCameraBlock, ConcatBlock, ConcatInOrder
<1> QED
    BY <1>6, <1>7
    DEF send_streaming_command, send_stop_streaming_command, handle_nat_probe_response

LEMMA AnswerBlocks ==
    ASSUME NEW c \in Camera
    PROVE  /\ Block(handle_registration(c), c) /\ InOrder(handle_registration(c))
           /\ Block(handle_snapshot_request(c), c) /\ InOrder(handle_snapshot_request(c))
           /\ Block(handle_streaming_request(c), c) /\ InOrder(handle_streaming_request(c))
           /\ Block(handle_keepalive(c), c) /\ InOrder(handle_keepalive(c))
           /\ Block(start_streaming_for_camera(c), c)
           /\ InOrder(start_streaming_for_camera(c))
<1> DEFINE all == {Rm, Rc(c), LsIfConnected(c)}
           one == Answer(c, OneWrite(all))
           two == Answer(c, TwoWrites(all))
           write == WriteCamera(c)
<1>1. Written(OneWrite(all), all) /\ Written(TwoWrites(all), all)
    BY HandlerGuards, WritesWritten
<1>2. Block(one, c) /\ InOrder(one) /\ Block(two, c) /\ InOrder(two)
    BY <1>1, AnswerBlock
<1>3. Block(write, c) /\ InOrder(write)
    BY WriteCameraBlock
<1>4. Block(one \o write, c) /\ InOrder(one \o write)
    BY <1>2, <1>3, ConcatBlock, ConcatInOrder
<1>5. Block(two \o write, c) /\ InOrder(two \o write)
    BY <1>2, <1>3, ConcatBlock, ConcatInOrder
<1>6. Block(write \o one, c) /\ InOrder(write \o one)
    BY <1>2, <1>3, ConcatBlock, ConcatInOrder
<1>7. Block((write \o one) \o write, c) /\ InOrder((write \o one) \o write)
    BY <1>3, <1>6, ConcatBlock, ConcatInOrder
<1> QED
    BY <1>2, <1>4, <1>5, <1>7
    DEF handle_registration, handle_snapshot_request, handle_streaming_request,
        handle_keepalive, start_streaming_for_camera

-----------------------------------------------------------------------------
(* The handlers that ask against the order, and where they do. *)
LEMMA EndFragmentBlock ==
    ASSUME NEW c \in Camera
    PROVE  /\ Block(handle_video_frame_end(c), c)
           /\ \A i \in 0 .. Len(handle_video_frame_end(c)) - 1 :
                 \A g \in Asks(handle_video_frame_end(c), i) :
                    \/ Above(g, Before(handle_video_frame_end(c), i))
                    \/ g = Rm /\ Before(handle_video_frame_end(c), i) = {Wc(c)}
<1>1. PICK a \in Guard, b \in Guard, d \in Guard :
          /\ a = Wc(c) /\ b = Rm /\ d = Ask(Cam(c), "R", "try")
          /\ a # b /\ a # d /\ b # d /\ d.how = "try"
    <2>1. /\ Ask(Cam(c), "R", "try") \in Guard
          /\ Ask(Cam(c), "R", "try").lock = Cam(c)
          /\ Ask(Cam(c), "R", "try").how = "try"
        BY LockFacts, GuardFacts DEF How
    <2>2. Wc(c) # Ask(Cam(c), "R", "try")
        BY <2>1, HandlerGuards
    <2>3. Wc(c) # Rm /\ Rm # Ask(Cam(c), "R", "try")
        BY <2>1, LockFacts, HandlerGuards
    <2> QED
        BY <2>1, <2>2, <2>3, HandlerGuards
<1> DEFINE lit == <<Hold({a}), Hold({a, b}), Hold({a, b, d}),
                    Hold({a, b}), Hold({a}), Hold({})>>
<1>2. /\ lit \in Seq(Step) /\ Len(lit) = 6
      /\ lit[1].held = {a} /\ lit[2].held = {a, b} /\ lit[3].held = {a, b, d}
      /\ lit[4].held = {a, b} /\ lit[5].held = {a} /\ lit[6].held = {}
      /\ \A i \in 1 .. 6 : lit[i].io = "none"
    <2>1. /\ Hold({a}) \in Step /\ Hold({a}).held = {a} /\ Hold({a}).io = "none"
          /\ Hold({a, b}) \in Step /\ Hold({a, b}).held = {a, b}
          /\ Hold({a, b}).io = "none"
          /\ Hold({a, b, d}) \in Step /\ Hold({a, b, d}).held = {a, b, d}
          /\ Hold({a, b, d}).io = "none"
          /\ Hold({}) \in Step /\ Hold({}).held = {} /\ Hold({}).io = "none"
        BY StepFacts
    <2> QED
        BY <2>1
<1>3. PICK e \in Seq(Step) : e = lit
    BY <1>2
<1>4. /\ Len(e) = 6
      /\ e[1].held = {a} /\ e[2].held = {a, b} /\ e[3].held = {a, b, d}
      /\ e[4].held = {a, b} /\ e[5].held = {a} /\ e[6].held = {}
      /\ \A i \in 1 .. 6 : e[i].io = "none"
    BY <1>2, <1>3
<1> HIDE DEF lit
<1>5. /\ Before(e, 0) = {} /\ Asks(e, 0) = {a}
      /\ Before(e, 1) = {a} /\ Asks(e, 1) = {b}
      /\ Before(e, 2) = {a, b} /\ Asks(e, 2) = {d}
      /\ Asks(e, 3) = {} /\ Asks(e, 4) = {} /\ Asks(e, 5) = {}
    BY <1>1, <1>4 DEF Before, Asks
<1>6. \A i \in 0 .. Len(e) - 1 : i = 0 \/ i = 1 \/ i = 2 \/ i = 3 \/ i = 4 \/ i = 5
    BY <1>4
<1>7. OneByOne(e)
    BY <1>5, <1>6 DEF OneByOne
<1>8. Nests(e)
    <2> SUFFICES ASSUME NEW i \in 0 .. Len(e) - 1, NEW g \in Asks(e, i),
                        NEW k \in i + 1 .. Len(e), g \notin e[k].held
                 PROVE  e[k].held \subseteq Before(e, i)
        BY DEF Nests
    <2>1. k \in i + 1 .. 6
        BY <1>4
    <2>2. CASE i = 0
        <3>1. g = a /\ (k = 1 \/ k = 2 \/ k = 3 \/ k = 4 \/ k = 5 \/ k = 6)
            BY <1>5, <2>1, <2>2
        <3>2. k = 6
            BY <1>4, <3>1
        <3> QED
            BY <1>4, <3>2
    <2>3. CASE i = 1
        <3>1. g = b /\ (k = 2 \/ k = 3 \/ k = 4 \/ k = 5 \/ k = 6)
            BY <1>5, <2>1, <2>3
        <3>2. k = 5 \/ k = 6
            BY <1>4, <3>1
        <3> QED
            BY <1>4, <1>5, <2>3, <3>2
    <2>4. CASE i = 2
        <3>1. g = d /\ (k = 3 \/ k = 4 \/ k = 5 \/ k = 6)
            BY <1>5, <2>1, <2>4
        <3>2. k = 4 \/ k = 5 \/ k = 6
            BY <1>4, <3>1
        <3> QED
            BY <1>4, <1>5, <2>4, <3>2
    <2> QED
        BY <1>5, <1>6, <2>2, <2>3, <2>4
<1>9. WritesWhole(e, c)
    <2>1. \A i \in 1 .. Len(e) : e[i].io = "none"
        BY <1>4
    <2> QED
        BY <2>1 DEF WritesWhole
<1>10. e[Len(e)].held = {} /\ Len(e) >= 1
    <2>1. e[Len(e)] = e[6] /\ Len(e) >= 1
        BY <1>4, LastOf
    <2> QED
        BY <1>4, <2>1
<1>11. Block(e, c)
    BY <1>7, <1>8, <1>9, <1>10 DEF Block
<1>12. ASSUME NEW i \in 0 .. Len(e) - 1, NEW g \in Asks(e, i)
       PROVE  Above(g, Before(e, i)) \/ (g = b /\ Before(e, i) = {a})
    <2>1. CASE i = 0
        BY <1>5, <2>1 DEF Above
    <2>2. CASE i = 1
        BY <1>5, <2>2
    <2>3. CASE i = 2
        BY <1>1, <1>5, <2>3 DEF Above
    <2> QED
        BY <1>5, <1>6, <2>1, <2>2, <2>3
<1>13. PICK s : s = Scope(Wm)
    OBVIOUS
<1>14. Block(s, c) /\ InOrder(s)
    BY <1>13, HandlerGuards, OneScope
<1>15. Block(s \o e, c)
    BY <1>11, <1>14, ConcatBlock
<1>16. PICK f : f = s \o e
    OBVIOUS
<1>17. ASSUME NEW i \in 0 .. Len(f) - 1, NEW g \in Asks(f, i)
       PROVE  Above(g, Before(f, i)) \/ (g = b /\ Before(f, i) = {a})
    <2>1. CASE \E k \in 0 .. Len(s) - 1 : g \in Asks(s, k) /\ Before(f, i) = Before(s, k)
        BY <1>14, <2>1 DEF InOrder
    <2>2. CASE \E k \in 0 .. Len(e) - 1 : g \in Asks(e, k) /\ Before(f, i) = Before(e, k)
        BY <1>12, <2>2
    <2> QED
        BY <1>11, <1>14, <1>16, <2>1, <2>2, ConcatAsks
<1>18. f = handle_video_frame_end(c)
    BY <1>1, <1>3, <1>13, <1>16 DEF lit, handle_video_frame_end
<1> QED
    BY <1>1, <1>15, <1>16, <1>17, <1>18

Eight(s1, s2, s3, s4, s5, s6, s7, s8) ==
    <<s1, s2, s3>> \o <<s4, s5>> \o <<s6, s7, s8>>

StepsOf(e, s1, s2, s3, s4, s5, s6, s7, s8) ==
    /\ Len(e) = 8
    /\ e[1] = s1 /\ e[2] = s2 /\ e[3] = s3 /\ e[4] = s4
    /\ e[5] = s5 /\ e[6] = s6 /\ e[7] = s7 /\ e[8] = s8

LEMMA EightSteps ==
    ASSUME NEW s1 \in Step, NEW s2 \in Step, NEW s3 \in Step, NEW s4 \in Step,
           NEW s5 \in Step, NEW s6 \in Step, NEW s7 \in Step, NEW s8 \in Step
    PROVE  /\ Eight(s1, s2, s3, s4, s5, s6, s7, s8) \in Seq(Step)
           /\ StepsOf(Eight(s1, s2, s3, s4, s5, s6, s7, s8),
                      s1, s2, s3, s4, s5, s6, s7, s8)
<1>1. /\ <<s1, s2, s3>> \in Seq(Step) /\ <<s4, s5>> \in Seq(Step)
      /\ <<s6, s7, s8>> \in Seq(Step)
    OBVIOUS
<1>2. PICK u \in Seq(Step), v \in Seq(Step), w \in Seq(Step) :
          u = <<s1, s2, s3>> /\ v = <<s4, s5>> /\ w = <<s6, s7, s8>>
    BY <1>1
<1>3. /\ Len(u) = 3 /\ u[1] = s1 /\ u[2] = s2 /\ u[3] = s3
      /\ Len(v) = 2 /\ v[1] = s4 /\ v[2] = s5
      /\ Len(w) = 3 /\ w[1] = s6 /\ w[2] = s7 /\ w[3] = s8
    BY <1>2
<1>4. PICK uv \in Seq(Step) : uv = u \o v
    BY ConcatProperties
<1>5. /\ Len(uv) = 5
      /\ \A i \in 1 .. 5 : uv[i] = IF i <= 3 THEN u[i] ELSE v[i - 3]
    <2>1. /\ Len(uv) = Len(u) + Len(v)
          /\ \A i \in 1 .. Len(u) + Len(v) :
                uv[i] = IF i <= Len(u) THEN u[i] ELSE v[i - Len(u)]
        BY <1>4, ConcatProperties
    <2>2. Len(u) = 3 /\ Len(v) = 2
        BY <1>3
    <2>3. Len(u) + Len(v) = 5
        BY <2>2
    <2> QED
        BY <2>1, <2>2, <2>3
<1>6. PICK e \in Seq(Step) : e = uv \o w
    BY ConcatProperties
<1>7. /\ Len(e) = 8
      /\ \A i \in 1 .. 8 : e[i] = IF i <= 5 THEN uv[i] ELSE w[i - 5]
    <2>1. /\ Len(e) = Len(uv) + Len(w)
          /\ \A i \in 1 .. Len(uv) + Len(w) :
                e[i] = IF i <= Len(uv) THEN uv[i] ELSE w[i - Len(uv)]
        BY <1>6, ConcatProperties
    <2>2. Len(uv) = 5 /\ Len(w) = 3
        BY <1>3, <1>5
    <2>3. Len(uv) + Len(w) = 8
        BY <2>2
    <2> QED
        BY <2>1, <2>2, <2>3
<1>8. uv[1] = s1 /\ uv[2] = s2 /\ uv[3] = s3 /\ uv[4] = s4 /\ uv[5] = s5
    BY <1>3, <1>5
<1>9. /\ e[1] = s1 /\ e[2] = s2 /\ e[3] = s3 /\ e[4] = s4
      /\ e[5] = s5 /\ e[6] = s6 /\ e[7] = s7 /\ e[8] = s8
    BY <1>3, <1>7, <1>8
<1>10. e = Eight(s1, s2, s3, s4, s5, s6, s7, s8)
    BY <1>2, <1>4, <1>6 DEF Eight
<1>11. StepsOf(e, s1, s2, s3, s4, s5, s6, s7, s8)
    BY <1>7, <1>9 DEF StepsOf
<1> QED
    BY <1>10, <1>11

LEMMA DeviceInfoBlock ==
    ASSUME NEW c \in Camera
    PROVE  /\ Block(handle_device_info_request(c), c)
           /\ \A i \in 0 .. Len(handle_device_info_request(c)) - 1 :
                 \A g \in Asks(handle_device_info_request(c), i) :
                    \/ Above(g, Before(handle_device_info_request(c), i))
                    \/ /\ Rm \in Before(handle_device_info_request(c), i)
                       /\ \/ g = Nested(Wm)
                          \/ Nested(Wm) \in Before(handle_device_info_request(c), i)
<1>1. PICK a \in Guard, b \in Guard, d \in Guard, w \in Guard, x \in Guard :
          /\ a = Rm /\ b = Rc(c) /\ d = LsIfConnected(c)
          /\ w = Nested(Wm) /\ x = Nested(Wc(c))
          /\ a # b /\ a # d /\ b # d /\ w \notin {a, b, d} /\ x \notin {a, b, d, w}
          /\ Above(b, {a}) /\ Above(d, {a, b}) /\ SocketHeld(c, {a, b, d})
    <2>1. /\ Nested(Wm) \in Guard /\ Nested(Wm).lock = Mgr /\ Nested(Wm).mode = "W"
          /\ Nested(Wc(c)) \in Guard /\ Nested(Wc(c)).lock = Cam(c)
          /\ Nested(Wc(c)).mode = "W"
        BY LockFacts, GuardFacts DEF Wm, Wc, How
    <2>2. Nested(Wm) # Rm /\ Nested(Wc(c)) # Rc(c)
        BY <2>1, HandlerGuards
    <2>3. /\ Nested(Wm) # Rc(c) /\ Nested(Wm) # LsIfConnected(c)
          /\ Nested(Wc(c)) # Rm /\ Nested(Wc(c)) # LsIfConnected(c)
          /\ Nested(Wc(c)) # Nested(Wm)
        BY <2>1, LockFacts, HandlerGuards
    <2>4. Rm # Rc(c) /\ Rm # LsIfConnected(c) /\ Rc(c) # LsIfConnected(c)
        BY LockFacts, HandlerGuards
    <2>5. /\ Above(Rc(c), {Rm}) /\ Above(LsIfConnected(c), {Rm, Rc(c)})
          /\ SocketHeld(c, {Rm, Rc(c), LsIfConnected(c)})
        BY LockFacts, HandlerGuards DEF Above, SocketHeld
    <2> QED
        BY <2>1, <2>2, <2>3, <2>4, <2>5, HandlerGuards
<1> DEFINE all == {a, b, d}
           more == {a, b, d, w}
           most == {a, b, d, w, x}
<1>2. PICK s1 \in Step, s2 \in Step, s3 \in Step, s4 \in Step,
           s5 \in Step, s6 \in Step, s7 \in Step, s8 \in Step :
          /\ s1 = Hold({a}) /\ s2 = Hold({a, b}) /\ s3 = Hold(all)
          /\ s4 = Send(all, "header") /\ s5 = Send(all, "message")
          /\ s6 = Hold(all \cup {w}) /\ s7 = Hold(all \cup {w, x}) /\ s8 = Hold({})
    <2>1. /\ {a} \in SUBSET Guard /\ {a, b} \in SUBSET Guard /\ all \in SUBSET Guard
          /\ all \cup {w} \in SUBSET Guard /\ all \cup {w, x} \in SUBSET Guard
        OBVIOUS
    <2> HIDE DEF all
    <2> QED
        BY <2>1, StepFacts DEF Write
<1>3. /\ s1.held = {a} /\ s2.held = {a, b} /\ s3.held = all
      /\ s4.held = all /\ s5.held = all
      /\ s6.held = more /\ s7.held = most /\ s8.held = {}
      /\ s1.io = "none" /\ s2.io = "none" /\ s3.io = "none"
      /\ s4.io = "header" /\ s5.io = "message"
      /\ s6.io = "none" /\ s7.io = "none" /\ s8.io = "none"
    <2>1. all \cup {w} = more /\ all \cup {w, x} = most
        OBVIOUS
    <2> QED
        BY <1>2, <2>1 DEF Hold, Send
<1>4. PICK e \in Seq(Step) : e = Eight(s1, s2, s3, s4, s5, s6, s7, s8)
    BY EightSteps
<1>5. StepsOf(e, s1, s2, s3, s4, s5, s6, s7, s8)
    BY <1>4, EightSteps
<1>6. /\ Len(e) = 8
      /\ e[1].held = {a} /\ e[2].held = {a, b} /\ e[3].held = all
      /\ e[4].held = all /\ e[5].held = all
      /\ e[6].held = more /\ e[7].held = most /\ e[8].held = {}
    BY <1>3, <1>5 DEF StepsOf
<1>7. /\ e[1].io = "none" /\ e[2].io = "none" /\ e[3].io = "none"
      /\ e[4].io = "header" /\ e[5].io = "message"
      /\ e[6].io = "none" /\ e[7].io = "none" /\ e[8].io = "none"
    BY <1>3, <1>5 DEF StepsOf
<1>8. /\ Before(e, 0) = {} /\ Asks(e, 0) = {a}
      /\ Before(e, 1) = {a} /\ Asks(e, 1) = {b}
      /\ Before(e, 2) = {a, b} /\ Asks(e, 2) = {d}
      /\ Asks(e, 3) = {} /\ Asks(e, 4) = {}
      /\ Before(e, 5) = all /\ Asks(e, 5) = {w}
      /\ Before(e, 6) = more /\ Asks(e, 6) = {x}
      /\ Asks(e, 7) = {}
    BY <1>1, <1>6 DEF Before, Asks
<1>9. \A i \in 0 .. Len(e) - 1 : \/ i = 0 \/ i = 1 \/ i = 2 \/ i = 3
                                 \/ i = 4 \/ i = 5 \/ i = 6 \/ i = 7
    BY <1>6
<1>10. OneByOne(e)
    BY <1>8, <1>9 DEF OneByOne
<1>11. e[Len(e)].held = {} /\ Len(e) >= 1
    <2>1. e[Len(e)] = e[8] /\ Len(e) >= 1
        BY <1>6, LastOf
    <2> QED
        BY <1>6, <2>1
<1>12. Nests(e)
    <2>1. ASSUME NEW i \in 1 .. Len(e) - 1, NEW k \in 1 .. Len(e) - 1, i <= k
          PROVE  e[i].held \subseteq e[k].held
        <3>1. CASE k = 1 \/ k = 2
            <4>1. i = k \/ (i = 1 /\ k = 2)
                BY <2>1, <3>1
            <4> QED
                BY <1>6, <4>1
        <3>2. CASE k = 3 \/ k = 4 \/ k = 5
            <4>1. i = 1 \/ i = 2 \/ i = 3 \/ i = 4 \/ i = 5
                BY <2>1, <3>2
            <4>2. e[k].held = all
                BY <1>6, <3>2
            <4> QED
                BY <1>6, <4>1, <4>2
        <3>3. CASE k = 6
            <4>1. i = 1 \/ i = 2 \/ i = 3 \/ i = 4 \/ i = 5 \/ i = 6
                BY <2>1, <3>3
            <4> QED
                BY <1>6, <3>3, <4>1
        <3>4. CASE k = 7
            <4>1. i = 1 \/ i = 2 \/ i = 3 \/ i = 4 \/ i = 5 \/ i = 6 \/ i = 7
                BY <2>1, <3>4
            <4> QED
                BY <1>6, <3>4, <4>1
        <3>5. k = 1 \/ k = 2 \/ k = 3 \/ k = 4 \/ k = 5 \/ k = 6 \/ k = 7
            BY <1>6
        <3> QED
            BY <3>1, <3>2, <3>3, <3>4, <3>5
    <2> QED
        BY <1>11, <2>1, RiseAndDrop
<1>13. WritesWhole(e, c)
    <2>1. ASSUME NEW i \in 1 .. Len(e)
          PROVE  /\ e[i].io # "none" => SocketHeld(c, e[i].held)
                 /\ e[i].io = "header" => i < Len(e) /\ e[i + 1].io # "none"
        <3>1. i = 1 \/ i = 2 \/ i = 3 \/ i = 4 \/ i = 5 \/ i = 6 \/ i = 7 \/ i = 8
            BY <1>6
        <3>2. i # 4 => e[i].io # "header"
            BY <1>7, <3>1
        <3>3. e[i].io # "none" => i = 4 \/ i = 5
            BY <1>7, <3>1
        <3>4. SocketHeld(c, e[4].held) /\ SocketHeld(c, e[5].held)
            BY <1>1, <1>6
        <3>5. i = 4 => i < Len(e) /\ i + 1 = 5
            BY <1>6
        <3>6. e[5].io # "none"
            BY <1>7
        <3> QED
            BY <3>2, <3>3, <3>4, <3>5, <3>6
    <2> QED
        BY <2>1 DEF WritesWhole
<1>14. Block(e, c)
    BY <1>10, <1>11, <1>12, <1>13 DEF Block
<1>15. ASSUME NEW i \in 0 .. Len(e) - 1, NEW g \in Asks(e, i)
       PROVE  \/ Above(g, Before(e, i))
              \/ a \in Before(e, i) /\ (g = w \/ w \in Before(e, i))
    <2>1. CASE i = 0
        BY <1>8, <2>1 DEF Above
    <2>2. CASE i = 1
        BY <1>1, <1>8, <2>2
    <2>3. CASE i = 2
        BY <1>1, <1>8, <2>3
    <2>4. CASE i = 5
        BY <1>8, <2>4
    <2>5. CASE i = 6
        BY <1>8, <2>5
    <2> QED
        BY <1>8, <1>9, <2>1, <2>2, <2>3, <2>4, <2>5
<1>16. e = handle_device_info_request(c)
    BY <1>1, <1>2, <1>4 DEF handle_device_info_request, TwoWrites, Eight
<1> QED
    BY <1>1, <1>14, <1>15, <1>16

LEMMA CameraInfoBlock ==
    ASSUME NEW c \in Camera
    PROVE  /\ Block(get_camera_info(c), c)
           /\ \A i \in 0 .. Len(get_camera_info(c)) - 1 :
                 \A g \in Asks(get_camera_info(c), i) :
                    \/ Above(g, Before(get_camera_info(c), i))
                    \/ g = Nested(Rm) /\ Before(get_camera_info(c), i) = {Rm}
<1>1. PICK a \in Guard, b \in Guard, d \in Guard :
          /\ a = Rm /\ b = Nested(Rm) /\ d = Ask(Cam(c), "R", "try")
          /\ a # b /\ a # d /\ b # d /\ d.how = "try" /\ a.lock = Mgr /\ Rank[Mgr] = 1
    <2>1. /\ Nested(Rm) \in Guard /\ Nested(Rm).lock = Mgr /\ Nested(Rm).nest = 1
          /\ Rm.nest = 0
          /\ Ask(Cam(c), "R", "try") \in Guard
          /\ Ask(Cam(c), "R", "try").lock = Cam(c)
          /\ Ask(Cam(c), "R", "try").how = "try"
        BY LockFacts, GuardFacts DEF Rm, How
    <2>2. Rm # Nested(Rm)
        BY <2>1
    <2>3. Rm # Ask(Cam(c), "R", "try") /\ Nested(Rm) # Ask(Cam(c), "R", "try")
        BY <2>1, LockFacts, HandlerGuards
    <2> QED
        BY <2>1, <2>2, <2>3, LockFacts, HandlerGuards
<1> DEFINE lit == <<Hold({a, b}), Hold({a, b, d}), Hold({a, b}), Hold({})>>
           full == <<Hold({a}), Hold({a, b}), Hold({a, b, d}), Hold({a, b}), Hold({})>>
<1>2. /\ Hold({a}) \in Step /\ Hold({a}).held = {a} /\ Hold({a}).io = "none"
      /\ Hold({a, b}) \in Step /\ Hold({a, b}).held = {a, b} /\ Hold({a, b}).io = "none"
      /\ Hold({a, b, d}) \in Step /\ Hold({a, b, d}).held = {a, b, d}
      /\ Hold({a, b, d}).io = "none"
      /\ Hold({}) \in Step /\ Hold({}).held = {} /\ Hold({}).io = "none"
    BY StepFacts
<1>3. lit \in Seq(Step) /\ full \in Seq(Step)
    BY <1>2
<1>4. PICK t \in Seq(Step), u \in Seq(Step) : t = lit /\ u = full
    BY <1>3
<1>5. /\ Len(t) = 4 /\ t[1] = Hold({a, b}) /\ t[2] = Hold({a, b, d})
      /\ t[3] = Hold({a, b}) /\ t[4] = Hold({})
    BY <1>4
<1>6. /\ Len(u) = 5 /\ u[1] = Hold({a}) /\ u[2] = Hold({a, b})
      /\ u[3] = Hold({a, b, d}) /\ u[4] = Hold({a, b}) /\ u[5] = Hold({})
    BY <1>4
<1> HIDE DEF lit, full
<1>7. /\ Len(u) = 5 /\ u[1].held = {a} /\ u[2].held = {a, b}
      /\ u[3].held = {a, b, d} /\ u[4].held = {a, b} /\ u[5].held = {}
      /\ \A i \in 1 .. 5 : u[i].io = "none"
    <2>1. \A i \in 1 .. 5 : i = 1 \/ i = 2 \/ i = 3 \/ i = 4 \/ i = 5
        OBVIOUS
    <2> QED
        BY <1>2, <1>6, <2>1
<1>8. /\ Before(u, 0) = {} /\ Asks(u, 0) = {a}
      /\ Before(u, 1) = {a} /\ Asks(u, 1) = {b}
      /\ Before(u, 2) = {a, b} /\ Asks(u, 2) = {d}
      /\ Asks(u, 3) = {} /\ Asks(u, 4) = {}
    BY <1>1, <1>7 DEF Before, Asks
<1>9. \A i \in 0 .. Len(u) - 1 : i = 0 \/ i = 1 \/ i = 2 \/ i = 3 \/ i = 4
    BY <1>7
<1>10. OneByOne(u)
    BY <1>8, <1>9 DEF OneByOne
<1>11. Nests(u)
    <2> SUFFICES ASSUME NEW i \in 0 .. Len(u) - 1, NEW g \in Asks(u, i),
                        NEW k \in i + 1 .. Len(u), g \notin u[k].held
                 PROVE  u[k].held \subseteq Before(u, i)
        BY DEF Nests
    <2>1. k \in i + 1 .. 5
        BY <1>7
    <2>2. CASE i = 0
        <3>1. g = a /\ (k = 1 \/ k = 2 \/ k = 3 \/ k = 4 \/ k = 5)
            BY <1>8, <2>1, <2>2
        <3>2. k = 5
            BY <1>7, <3>1
        <3> QED
            BY <1>7, <3>2
    <2>3. CASE i = 1
        <3>1. g = b /\ (k = 2 \/ k = 3 \/ k = 4 \/ k = 5)
            BY <1>8, <2>1, <2>3
        <3>2. k = 5
            BY <1>7, <3>1
        <3> QED
            BY <1>7, <3>2
    <2>4. CASE i = 2
        <3>1. g = d /\ (k = 3 \/ k = 4 \/ k = 5)
            BY <1>8, <2>1, <2>4
        <3>2. k = 4 \/ k = 5
            BY <1>7, <3>1
        <3> QED
            BY <1>7, <1>8, <2>4, <3>2
    <2> QED
        BY <1>8, <1>9, <2>2, <2>3, <2>4
<1>12. WritesWhole(u, c)
    <2>1. \A i \in 1 .. Len(u) : u[i].io = "none"
        BY <1>7
    <2> QED
        BY <2>1 DEF WritesWhole
<1>13. u[Len(u)].held = {} /\ Len(u) >= 1
    <2>1. u[Len(u)] = u[5] /\ Len(u) >= 1
        BY <1>7, LastOf
    <2> QED
        BY <1>7, <2>1
<1>14. Block(u, c)
    BY <1>10, <1>11, <1>12, <1>13 DEF Block
<1>15. Taken(u, a, t)
    <2>1. Len(u) = Len(t) + 1
        BY <1>5, <1>7
    <2>2. \A x \in 1 .. Len(t) : x = 1 \/ x = 2 \/ x = 3 \/ x = 4
        BY <1>5
    <2>3. ASSUME NEW x \in 1 .. Len(t) PROVE u[x + 1] = t[x]
        <3>1. u[2] = t[1] /\ u[3] = t[2] /\ u[4] = t[3] /\ u[5] = t[4]
            BY <1>5, <1>6
        <3>2. 1 + 1 = 2 /\ 2 + 1 = 3 /\ 3 + 1 = 4 /\ 4 + 1 = 5
            OBVIOUS
        <3> QED
            BY <2>2, <3>1, <3>2
    <2>4. \A x \in 1 .. Len(t) : a \in u[x].held
        BY <1>7, <2>2
    <2> QED
        BY <1>6, <2>1, <2>3, <2>4 DEF Taken
<1>16. PICK n \in Nat : n = Index(c) /\ n <= Len(CameraSeq)
    BY IndexFacts
<1>17. PICK raw : raw = [i \in 1 .. n |-> Rc(CameraSeq[i])]
    OBVIOUS
<1>18. raw = [i \in 1 .. n |-> raw[i]]
    BY <1>17
<1>19. ASSUME NEW i \in 1 .. n
       PROVE  \E how \in How : raw[i] = Ask(Cam(CameraSeq[i]), "R", how)
    BY <1>17 DEF Rc, How
<1>20. raw \in Seq(Guard) /\ Len(raw) = n /\ \A k \in 1 .. n : Rank[raw[k].lock] = 2
    BY <1>16, <1>18, <1>19, CameraGuards
<1>21. PICK gs \in Seq(Guard) : gs = raw
    BY <1>20
<1>22. \A k \in 1 .. Len(gs) : gs[k] # a /\ Above(gs[k], {a})
    BY <1>1, <1>20, <1>21 DEF Above
<1>23. PICK s : s = Visit(a, gs) \o t
    OBVIOUS
<1>24. Block(s, c) /\ Visited(s, a, gs, Len(gs), u, Len(u))
    BY <1>14, <1>15, <1>22, <1>23, VisitBlock
<1>25. ASSUME NEW i \in 0 .. Len(u) - 1, NEW g \in Asks(u, i)
       PROVE  Above(g, Before(u, i)) \/ (g = b /\ Before(u, i) = {a})
    <2>1. CASE i = 0
        BY <1>8, <2>1 DEF Above
    <2>2. CASE i = 1
        BY <1>8, <2>2
    <2>3. CASE i = 2
        BY <1>1, <1>8, <2>3 DEF Above
    <2> QED
        BY <1>8, <1>9, <2>1, <2>2, <2>3
<1>26. ASSUME NEW i \in 0 .. Len(s) - 1, NEW g \in Asks(s, i)
       PROVE  Above(g, Before(s, i)) \/ (g = b /\ Before(s, i) = {a})
    <2>1. CASE \E k \in 1 .. Len(gs) : g = gs[k] /\ Before(s, i) = {a}
        BY <1>22, <2>1
    <2>2. CASE \E x \in 0 .. Len(u) - 1 : g \in Asks(u, x) /\ Before(s, i) = Before(u, x)
        BY <1>25, <2>2
    <2> QED
        BY <1>24, <2>1, <2>2 DEF Visited
<1>27. s = get_camera_info(c)
    BY <1>1, <1>4, <1>16, <1>17, <1>21, <1>23 DEF lit, get_camera_info
<1> QED
    BY <1>1, <1>24, <1>26, <1>27

-----------------------------------------------------------------------------
(* All handlers. *)
LEMMA HandlerBlock ==
    ASSUME NEW h \in Handler, NEW c \in Camera
    PROVE  /\ Block(ProgramOf(h, c), c)
           /\ h \notin NestedHandlers => InOrder(ProgramOf(h, c))
<1>1. CASE h \in {"open", "close", "heartbeat", "probe", "udp_heartbeat"}
    <2>1. ProgramOf(h, c) = WriteCamera(c)
        BY <1>1 DEF ProgramOf, ConnectionOpen, ConnectionClose, handle_heartbeat,
                    handle_udp_probe, handle_udp_heartbeat
    <2> QED
        BY <2>1, WriteCameraBlock
<1>2. CASE h \in {"registration", "snapshot", "streaming_request", "keepalive", "start_task"}
    <2>1. CASE h = "registration"
        BY <2>1, AnswerBlocks DEF ProgramOf
    <2>2. CASE h = "snapshot"
        BY <2>2, AnswerBlocks DEF ProgramOf
    <2>3. CASE h = "streaming_request"
        BY <2>3, AnswerBlocks DEF ProgramOf
    <2>4. CASE h = "keepalive"
        BY <2>4, AnswerBlocks DEF ProgramOf
    <2>5. CASE h = "start_task"
        BY <2>5, AnswerBlocks DEF ProgramOf
    <2> QED
        BY <1>2, <2>1, <2>2, <2>3, <2>4, <2>5
<1>3. CASE h \in {"nat_probe", "send_streaming", "send_stop"}
    <2>1. CASE h = "nat_probe"
        BY <2>1, CommandBlocks DEF ProgramOf
    <2>2. CASE h = "send_streaming"
        BY <2>2, CommandBlocks DEF ProgramOf
    <2>3. CASE h = "send_stop"
        BY <2>3, CommandBlocks DEF ProgramOf
    <2> QED
        BY <1>3, <2>1, <2>2, <2>3
<1>4. CASE h \in {"tcp_frame", "frame", "code51"}
    <2>1. CASE h = "tcp_frame"
        BY <2>1, FrameBlock DEF ProgramOf
    <2>2. CASE h = "frame"
        BY <2>2, FrameBlock DEF ProgramOf
    <2>3. CASE h = "code51"
        BY <2>3, FrameBlock DEF ProgramOf
    <2> QED
        BY <1>4, <2>1, <2>2, <2>3
<1>5. CASE h \in {"start", "trigger", "stop", "snapshot_task"}
    <2>1. CASE h = "start"
        BY <2>1, WebBlocks DEF ProgramOf
    <2>2. CASE h = "trigger"
        BY <2>2, WebBlocks DEF ProgramOf
    <2>3. CASE h = "stop"
        BY <2>3, WebBlocks DEF ProgramOf
    <2>4. CASE h = "snapshot_task"
        BY <2>4, WebBlocks DEF ProgramOf
    <2> QED
        BY <1>5, <2>1, <2>2, <2>3, <2>4
<1>6. CASE h \in {"list", "video", "stop_task", "incomplete"}
    <2>1. CASE h = "list"
        BY <2>1, ListCamerasBlock DEF ProgramOf
    <2>2. CASE h = "video"
        BY <2>2, VideoStreamBlock DEF ProgramOf
    <2>3. CASE h = "stop_task"
        BY <2>3, StopStreamingTaskBlock DEF ProgramOf
    <2>4. CASE h = "incomplete"
        BY <2>4, IncompleteTaskBlock DEF ProgramOf
    <2> QED
        BY <1>6, <2>1, <2>2, <2>3, <2>4
<1>7. CASE h \in NestedHandlers
    <2>1. CASE h = "device_info"
        <3>1. ProgramOf(h, c) = handle_device_info_request(c)
            BY <2>1 DEF ProgramOf
        <3> QED
            BY <1>7, <3>1, DeviceInfoBlock
    <2>2. CASE h = "frame_end"
        <3>1. ProgramOf(h, c) = handle_video_frame_end(c)
            BY <2>2 DEF ProgramOf
        <3> QED
            BY <1>7, <3>1, EndFragmentBlock
    <2>3. CASE h = "camera_info"
        <3>1. ProgramOf(h, c) = get_camera_info(c)
            BY <2>3 DEF ProgramOf
        <3> QED
            BY <1>7, <3>1, CameraInfoBlock
    <2> QED
        BY <1>7, <2>1, <2>2, <2>3 DEF NestedHandlers
<1> QED
    BY <1>1, <1>2, <1>3, <1>4, <1>5, <1>6, <1>7
    DEF Handler, TcpHandlers, UdpHandlers, WebHandlers, SpawnedHandlers, TimerHandlers

LEMMA JobFacts ==
    ASSUME NEW j \in Job
    PROVE  /\ j.handler \in Handler /\ j.camera \in Camera /\ j # Idle
           /\ Program[j] = ProgramOf(j.handler, j.camera)
           /\ Block(Program[j], j.camera)
           /\ j.handler \notin NestedHandlers => InOrder(Program[j])
           /\ \A i \in Nat : HeldIn(j, i) = Before(Program[j], i)
                             /\ AskedIn(j, i) = Asks(Program[j], i)
<1>1. j.handler \in Handler /\ j.camera \in Camera
    BY ServerAssumption DEF Jobs
<1>2. Program[j] = ProgramOf(j.handler, j.camera)
    BY ServerAssumption DEF ServerProgram
<1>3. j # Idle
    BY IdleAssumption
<1> QED
    BY <1>1, <1>2, <1>3, HandlerBlock DEF HeldIn, AskedIn, Before, Asks

LEMMA ServerAsksForOne == AsksForOne
<1> SUFFICES ASSUME NEW j \in Job, NEW i \in 0 .. Len(Program[j]) - 1,
                    NEW g \in AskedIn(j, i), NEW h \in AskedIn(j, i)
             PROVE  g = h
    BY DEF AsksForOne
<1>1. OneByOne(Program[j]) /\ AskedIn(j, i) = Asks(Program[j], i)
    BY JobFacts DEF Block
<1> QED
    BY <1>1 DEF OneByOne

LEMMA ServerScopesNest == ScopesNest
<1> SUFFICES ASSUME NEW j \in Job, NEW i \in 0 .. Len(Program[j]) - 1,
                    NEW g \in AskedIn(j, i), NEW k \in i + 1 .. Len(Program[j]),
                    g \notin Program[j][k].held,
                    \A m \in i + 1 .. k - 1 : g \in Program[j][m].held
             PROVE  Program[j][k].held \subseteq HeldIn(j, i)
    BY DEF ScopesNest
<1>1. /\ Nests(Program[j]) /\ AskedIn(j, i) = Asks(Program[j], i)
      /\ HeldIn(j, i) = Before(Program[j], i)
    BY JobFacts DEF Block
<1> QED
    BY <1>1 DEF Nests

(* The handlers that ask in order make ordered programs. *)
LEMMA PlainIsOrdered ==
    ASSUME \A t \in Task : \A j \in Runs[t] : j.handler \notin NestedHandlers
    PROVE  OrderedPrograms
<1> SUFFICES ASSUME NEW t \in Task, NEW j \in Runs[t], NEW i \in 0 .. Len(Program[j]) - 1,
                    NEW g \in AskedIn(j, i), NEW h \in HeldIn(j, i),
                    g.how \in {"await", "maybe"}
             PROVE  Rank[h.lock] < Rank[g.lock]
    BY ServerAsksForOne DEF OrderedPrograms, AsksUpward
<1>1. j \in Job
    BY RunsAssumption
<1>2. /\ InOrder(Program[j]) /\ AskedIn(j, i) = Asks(Program[j], i)
      /\ HeldIn(j, i) = Before(Program[j], i)
    BY <1>1, JobFacts
<1> QED
    BY <1>2 DEF InOrder, Above

-----------------------------------------------------------------------------
(* The invariant: that of LockDiscipline, and what the guards exclude. *)
SInv == LInv /\ MutualExclusion

LEMMA SInvariance == Spec => []SInv
<1>1. Spec => []MutualExclusion
    BY ServerAsksForOne, ServerScopesNest, GuardsExclude
<1>2. Spec => []LInv
    BY ServerAsksForOne, LInvariance
<1> QED
    BY <1>1, <1>2, PTL DEF SInv

(* A task in a handler, in the words of its program. *)
LEMMA TaskFacts ==
    ASSUME SInv, NEW t \in Task, job[t] # Idle
    PROVE  /\ job[t] \in Job /\ at[t] \in Nat
           /\ Len(Program[job[t]]) \in Nat /\ at[t] \in 0 .. Len(Program[job[t]]) - 1
           /\ Held(t) = Before(Program[job[t]], at[t])
           /\ Asked(t) = Asks(Program[job[t]], at[t])
           /\ Block(Program[job[t]], job[t].camera)
           /\ Held(t) \subseteq Guard /\ Asked(t) \subseteq Guard
<1>1. /\ job[t] \in Job /\ at[t] \in Nat /\ Len(Program[job[t]]) \in Nat
      /\ at[t] < Len(Program[job[t]]) /\ at[t] \in 0 .. Len(Program[job[t]]) - 1
    BY InProgram DEF SInv, LInv
<1>2. /\ Held(t) = Before(Program[job[t]], at[t])
      /\ Asked(t) = Asks(Program[job[t]], at[t])
      /\ Block(Program[job[t]], job[t].camera)
    BY <1>1, JobFacts DEF Held, Asked
<1>3. /\ at[t] + 1 \in 1 .. Len(Program[job[t]])
      /\ at[t] # 0 => at[t] \in 1 .. Len(Program[job[t]])
    BY <1>1
<1>4. Before(Program[job[t]], at[t]) \subseteq Guard
    BY <1>1, <1>3, ProgramAssumption DEF Before
<1>5. Asks(Program[job[t]], at[t]) \subseteq Guard
    BY <1>1, <1>3, ProgramAssumption DEF Asks
<1> QED
    BY <1>1, <1>2, <1>4, <1>5

LEMMA WholeInState == ASSUME SInv PROVE NoTornMessage
<1> SUFFICES ASSUME NEW c \in Camera, NEW t \in Task, MidMessage(t, c),
                    NEW u \in Task \ {t}, ReadyToWrite(u, c)
             PROVE  FALSE
    BY DEF NoTornMessage
<1>1. SocketHeld(c, Held(t))
    <2>1. job[t] # Idle /\ job[t].camera = c
        BY DEF MidMessage
    <2>2. PICK p : p = Program[job[t]]
        OBVIOUS
    <2>3. /\ at[t] \in Nat /\ Len(p) \in Nat /\ at[t] \in 0 .. Len(p) - 1
          /\ Held(t) = Before(p, at[t]) /\ WritesWhole(p, c)
        BY <2>1, <2>2, TaskFacts DEF Block
    <2>4. PICK i \in 1 .. at[t] :
              p[i].io = "header" /\ \A k \in i + 1 .. at[t] : p[k].io = "none"
        BY <2>2 DEF MidMessage
    <2>5. i \in 1 .. Len(p)
        BY <2>3
    <2>6. p[i + 1].io # "none" /\ SocketHeld(c, p[i].held)
        BY <2>3, <2>4, <2>5 DEF WritesWhole
    <2>7. i = at[t]
        <3>1. ASSUME i # at[t] PROVE FALSE
            <4>1. i + 1 \in i + 1 .. at[t]
                BY <2>3, <3>1
            <4> QED
                BY <2>4, <2>6, <4>1
        <3> QED
            BY <3>1
    <2> QED
        BY <2>3, <2>6, <2>7 DEF Before
<1>2. SocketHeld(c, Held(u))
    <2>1. job[u] # Idle /\ job[u].camera = c /\ Asked(u) = {}
        BY DEF ReadyToWrite
    <2>2. PICK p : p = Program[job[u]]
        OBVIOUS
    <2>3. /\ at[u] \in Nat /\ Len(p) \in Nat /\ at[u] \in 0 .. Len(p) - 1
          /\ Held(u) = Before(p, at[u]) /\ Asked(u) = Asks(p, at[u])
          /\ WritesWhole(p, c)
        BY <2>1, <2>2, TaskFacts DEF Block
    <2>4. p[at[u] + 1].io # "none" /\ at[u] + 1 \in 1 .. Len(p)
        BY <2>2, <2>3 DEF ReadyToWrite
    <2>5. SocketHeld(c, p[at[u] + 1].held)
        BY <2>3, <2>4 DEF WritesWhole
    <2>6. p[at[u] + 1].held \subseteq Held(u)
        BY <2>1, <2>3 DEF Asks
    <2> QED
        BY <2>5, <2>6 DEF SocketHeld
<1>3. PICK g \in Held(t), h \in Held(u) :
          g.lock = Socket(c) /\ h.lock = Socket(c) /\ g.mode = "W"
    BY <1>1, <1>2 DEF SocketHeld
<1> QED
    BY <1>3 DEF SInv, MutualExclusion, Conflict

(* Messages to a camera are never torn, whatever the tasks are doing: a     *)
(* task that has sent a header still holds the lock of the socket, and one  *)
(* that is about to write holds it too.                                     *)
THEOREM MessagesWhole == Spec => []NoTornMessage
BY SInvariance, WholeInState, PTL

-----------------------------------------------------------------------------
(* The three places where a task may ask against the order. *)
OutOfOrder(t, g) ==
    \/ job[t].handler = "device_info" /\ g.mode = "W" /\ Rm \in Held(t)
    \/ /\ job[t].handler = "frame_end" /\ g.mode = "R"
       /\ Held(t) = {Wc(job[t].camera)}
    \/ job[t].handler = "camera_info" /\ g.mode = "R" /\ Held(t) = {Rm}

LEMMA AgainstOrder ==
    ASSUME SInv, NEW t \in Task, AsksAgainstOrder(t)
    PROVE  /\ job[t] \in Job /\ job[t].camera \in Camera
           /\ job[t].handler \in NestedHandlers
           /\ \A g \in Asked(t) : g.lock = Mgr /\ OutOfOrder(t, g)
<1>1. job[t] # Idle
    BY DEF AsksAgainstOrder, Asked, AskedIn
<1>2. PICK g \in Asked(t), h \in Held(t) :
          g.how \in {"await", "maybe"} /\ Rank[h.lock] >= Rank[g.lock]
    BY DEF AsksAgainstOrder
<1>3. PICK j \in Job, i \in Nat :
          /\ j = job[t] /\ i = at[t] /\ i \in 0 .. Len(Program[j]) - 1
          /\ Held(t) = Before(Program[j], i) /\ Asked(t) = Asks(Program[j], i)
          /\ Held(t) \subseteq Guard /\ Asked(t) \subseteq Guard
    BY <1>1, TaskFacts
<1>4. /\ j.handler \in Handler /\ j.camera \in Camera
      /\ Program[j] = ProgramOf(j.handler, j.camera)
      /\ j.handler \notin NestedHandlers => InOrder(Program[j])
    BY JobFacts
<1>5. ~Above(g, Held(t))
    <2>1. /\ Rank[h.lock] \in 0 .. TopRank /\ Rank[g.lock] \in 0 .. TopRank
          /\ TopRank \in Nat
        BY <1>3, RankAssumption DEF Guard
    <2> QED
        BY <1>2, <2>1 DEF Above
<1>6. j.handler \in NestedHandlers
    BY <1>3, <1>4, <1>5 DEF InOrder
<1>7. PICK c \in Camera : c = j.camera
    BY <1>4
<1>8. /\ Rm.lock = Mgr /\ Rm.mode = "R" /\ Wm.lock = Mgr /\ Wm.mode = "W"
      /\ Nested(Rm).lock = Mgr /\ Nested(Rm).mode = "R"
      /\ Nested(Wm).lock = Mgr /\ Nested(Wm).mode = "W"
    BY LockFacts, GuardFacts, HandlerGuards DEF Rm, Wm, How
<1>9. g.lock = Mgr /\ OutOfOrder(t, g)
    <2>1. CASE j.handler = "device_info"
        <3>1. Program[j] = handle_device_info_request(c)
            BY <1>4, <1>7, <2>1 DEF ProgramOf
        <3>2. Rm \in Held(t) /\ (g = Nested(Wm) \/ Nested(Wm) \in Held(t))
            BY <1>3, <1>5, <3>1, DeviceInfoBlock
        <3>3. Nested(Wm) \notin Held(t)
            BY <1>8, <3>2 DEF SInv, MutualExclusion, Conflict
        <3> QED
            BY <1>3, <1>8, <2>1, <3>2, <3>3 DEF OutOfOrder
    <2>2. CASE j.handler = "frame_end"
        <3>1. Program[j] = handle_video_frame_end(c)
            BY <1>4, <1>7, <2>2 DEF ProgramOf
        <3>2. g = Rm /\ Held(t) = {Wc(c)}
            BY <1>3, <1>5, <3>1, EndFragmentBlock
        <3> QED
            BY <1>3, <1>7, <1>8, <2>2, <3>2 DEF OutOfOrder
    <2>3. CASE j.handler = "camera_info"
        <3>1. Program[j] = get_camera_info(c)
            BY <1>4, <1>7, <2>3 DEF ProgramOf
        <3>2. g = Nested(Rm) /\ Held(t) = {Rm}
            BY <1>3, <1>5, <3>1, CameraInfoBlock
        <3> QED
            BY <1>3, <1>8, <2>3, <3>2 DEF OutOfOrder
    <2> QED
        BY <1>6, <2>1, <2>2, <2>3 DEF NestedHandlers
<1>10. \A k \in Asked(t) : k = g
    BY ServerAsksForOne, OneAsked DEF SInv, LInv
<1> QED
    BY <1>3, <1>4, <1>6, <1>9, <1>10

(* Whatever the tasks run, only device info, an end fragment and camera     *)
(* info ever wait for a lock that is not above all they hold, and then for  *)
(* the manager.                                                             *)
THEOREM OnlyNested == Spec => []OnlyNestedOutOfOrder
<1>1. SInv => OnlyNestedOutOfOrder
    BY AgainstOrder DEF OnlyNestedOutOfOrder
<1> QED
    BY SInvariance, <1>1, PTL

(* All other handlers, run by any number of tasks for any number of         *)
(* cameras, never wait for one another in a circle, nor for themselves.     *)
THEOREM PlainHandlersGoOn ==
    (\A t \in Task : \A j \in Runs[t] : j.handler \notin NestedHandlers)
    => (Spec => [](NoCircularWait /\ NoTaskWaitsForItself))
<1> SUFFICES ASSUME \A t \in Task : \A j \in Runs[t] : j.handler \notin NestedHandlers
             PROVE  Spec => [](NoCircularWait /\ NoTaskWaitsForItself)
    OBVIOUS
<1>1. OrderedPrograms
    BY PlainIsOrdered
<1>2. Spec => []NoCircularWait
    BY <1>1, OrderedNeverCircular
<1>3. Spec => []NoTaskWaitsForItself
    BY <1>1, OrderedNeverAlone
<1> QED
    BY <1>2, <1>3, PTL

-----------------------------------------------------------------------------
(* What a circle of waiting tasks is made of: for each lock its members     *)
(* wait for, one of them holds it against another.                          *)
LEMMA CircleTasks ==
    ASSUME NEW S \in Circles
    PROVE  /\ S \in SUBSET Task /\ S \in SUBSET {t \in Task : Waiting(t)} /\ S # {}
           /\ \A t \in S : Waiting(t) /\ \E u \in S : WaitsFor(t, u)
BY DEF Circles

LEMMA HolderInCircle ==
    ASSUME SInv, NEW S \in Circles, NEW l \in Places(S)
    PROVE  \E t, u \in S : \E g \in Asked(t), h \in Held(u) :
              g.lock = l /\ h.lock = l /\ Conflict(g, h)
<1>1. PICK t \in S : \A u \in S : WaitsFor(t, u) =>
          \E g \in Asked(t), h \in Held(u) : g.lock = l /\ Conflict(g, h)
    BY CircleTasks, ServerAsksForOne, FirstInQueue DEF SInv
<1>2. PICK u \in S : WaitsFor(t, u)
    BY CircleTasks
<1>3. PICK g \in Asked(t), h \in Held(u) : g.lock = l /\ Conflict(g, h)
    BY <1>1, <1>2
<1> QED
    BY <1>3 DEF Conflict

LEMMA MemberAsks ==
    ASSUME SInv, NEW S \in Circles, NEW t \in S
    PROVE  \E l \in Places(S), g \in Asked(t) :
              /\ g.lock = l /\ g.how \in {"await", "maybe"} /\ g.mode \in {"R", "W"}
              /\ \E i \in 1 .. Len(queue[l]) : queue[l][i] = t
<1>1. PICK l \in Lock : /\ \E i \in 1 .. Len(queue[l]) : queue[l][i] = t
                        /\ \E g \in Asked(t) : g.lock = l /\ g.how \in {"await", "maybe"}
    BY CircleTasks, WaitersAsk DEF SInv
<1>2. PICK g \in Asked(t) : g.lock = l /\ g.how \in {"await", "maybe"}
    BY <1>1
<1>3. g.mode \in {"R", "W"}
    <2>1. job[t] # Idle
        BY <1>2 DEF Asked, AskedIn
    <2>2. Asked(t) \subseteq Guard
        BY <2>1, CircleTasks, TaskFacts
    <2> QED
        BY <2>2 DEF Guard
<1> QED
    BY <1>1, <1>2, <1>3 DEF Places

(* A member that holds a lock none waited for is above asks against order. *)
LEMMA HolderAgainstOrder ==
    ASSUME SInv, NEW S \in Circles, NEW u \in S, NEW h \in Held(u),
           \A k \in Places(S) : Rank[k] <= Rank[h.lock]
    PROVE  AsksAgainstOrder(u)
<1>1. PICK l \in Places(S), g \in Asked(u) : g.lock = l /\ g.how \in {"await", "maybe"}
    BY MemberAsks
<1> QED
    BY <1>1 DEF AsksAgainstOrder

(* Device info and camera info explain a circle by themselves. *)
Explained(S, t) ==
    /\ AsksAgainstOrder(t)
    /\ \/ job[t].handler = "device_info" /\ WaitsFor(t, t)
       \/ /\ job[t].handler = "frame_end"
          /\ \E u \in S : Holds(u, Mgr) /\ \E m \in {"R", "W"} :
                AwaitsIn(u, Cam(job[t].camera), m)
       \/ /\ job[t].handler = "camera_info"
          /\ \E u \in S : AwaitsIn(u, Mgr, "W")

LEMMA DeviceInfoAlone ==
    ASSUME SInv, NEW S \in Circles, NEW u \in S, AsksAgainstOrder(u),
           job[u].handler = "device_info"
    PROVE  Explained(S, u)
<1>1. PICK l \in Places(S), g \in Asked(u) :
          g.lock = l /\ \E i \in 1 .. Len(queue[l]) : queue[l][i] = u
    BY MemberAsks
<1>2. g.lock = Mgr /\ g.mode = "W" /\ Rm \in Held(u)
    BY CircleTasks, AgainstOrder DEF OutOfOrder
<1>3. Rm.lock = Mgr
    BY DEF Rm, Ask
<1>4. Conflict(g, Rm) /\ l \in Lock
    BY <1>2, <1>3 DEF Conflict, Places
<1>5. WaitsFor(u, u)
    BY <1>1, <1>2, <1>4 DEF WaitsFor
<1> QED
    BY <1>5 DEF Explained

LEMMA CameraInfoReads ==
    ASSUME SInv, NEW S \in Circles, NEW u \in S, AsksAgainstOrder(u),
           job[u].handler = "camera_info",
           NEW t \in S, NEW g \in Asked(t), NEW h \in Held(u), Conflict(g, h)
    PROVE  Explained(S, u)
<1>1. h = Rm
    <2>1. PICK k \in Asked(u) : OutOfOrder(u, k)
        BY CircleTasks, AgainstOrder DEF AsksAgainstOrder
    <2> QED
        BY <2>1 DEF OutOfOrder
<1>2. g.lock = Mgr /\ g.mode = "W"
    BY <1>1 DEF Conflict, Rm, Ask
<1>3. AwaitsIn(t, Mgr, "W")
    BY <1>2, CircleTasks DEF AwaitsIn
<1> QED
    BY <1>3 DEF Explained

(* An end fragment that asks against the order holds its camera, no more. *)
LEMMA EndFragmentHolds ==
    ASSUME SInv, NEW u \in Task, AsksAgainstOrder(u),
           job[u].handler = "frame_end", NEW h \in Held(u)
    PROVE  /\ job[u].camera \in Camera /\ h.lock = Cam(job[u].camera)
           /\ \A g \in Asked(u) : g.lock = Mgr
<1>1. job[u].camera \in Camera /\ \A g \in Asked(u) : g.lock = Mgr /\ OutOfOrder(u, g)
    BY AgainstOrder
<1>2. PICK k \in Asked(u) : OutOfOrder(u, k)
    BY <1>1 DEF AsksAgainstOrder
<1>3. h = Wc(job[u].camera)
    BY <1>2 DEF OutOfOrder
<1> QED
    BY <1>1, <1>3, HandlerGuards

LEMMA CameraLock ==
    ASSUME NEW l \in Lock
    PROVE  /\ Rank[l] \in {1, 2, 3}
           /\ Rank[l] = 1 => l = Mgr
           /\ Rank[l] = 2 => \E c \in Camera : l = Cam(c)
<1>1. CASE l = Mgr
    <2>1. ServerRank[l] = 1
        BY <1>1 DEF ServerRank, ServerLock
    <2> QED
        BY <1>1, <2>1, ServerAssumption
<1>2. CASE \E c \in Camera : l = Cam(c)
    BY <1>2, LockFacts
<1>3. CASE \E c \in Camera : l = Socket(c)
    BY <1>3, LockFacts
<1> QED
    BY <1>1, <1>2, <1>3, ServerAssumption DEF ServerLock

(* Of the locks a circle waits for, take the highest.  Who holds it asks    *)
(* against the order.  If that is an end fragment the lock is a camera's,   *)
(* and the circle waits for the manager too: whoever holds the manager asks *)
(* against the order as well, or for a camera that is held by someone who   *)
(* does.                                                                    *)
LEMMA CircleExplained ==
    ASSUME SInv, NEW S \in Circles
    PROVE  \E t \in S : Explained(S, t)
<1>1. PICK l \in Places(S) : \A k \in Places(S) : Rank[k] <= Rank[l]
    BY CircleTasks, HighestPlace
<1>2. ASSUME NEW k \in Places(S), Rank[k] = Rank[l]
      PROVE  \/ \E t \in S : Explained(S, t)
             \/ \E u \in S : \E h \in Held(u) :
                   /\ AsksAgainstOrder(u) /\ job[u].handler = "frame_end"
                   /\ h.lock = k
    <2>1. PICK t \in S, u \in S : \E g \in Asked(t), h \in Held(u) :
              g.lock = k /\ h.lock = k /\ Conflict(g, h)
        BY HolderInCircle
    <2>2. PICK g \in Asked(t), h \in Held(u) : g.lock = k /\ h.lock = k /\ Conflict(g, h)
        BY <2>1
    <2>3. AsksAgainstOrder(u)
        BY <1>1, <1>2, <2>2, HolderAgainstOrder
    <2>4. job[u].handler \in NestedHandlers
        BY <2>3, CircleTasks, AgainstOrder
    <2> QED
        BY <2>2, <2>3, <2>4, DeviceInfoAlone, CameraInfoReads DEF NestedHandlers
<1> SUFFICES ASSUME NEW u \in S, NEW h \in Held(u), AsksAgainstOrder(u),
                    job[u].handler = "frame_end", h.lock = l
             PROVE  \E t \in S : Explained(S, t)
    BY <1>2
<1>3. job[u].camera \in Camera /\ l = Cam(job[u].camera) /\ \A g \in Asked(u) : g.lock = Mgr
    BY CircleTasks, EndFragmentHolds
<1>4. Rank[l] = 2 /\ Rank[Mgr] = 1
    BY <1>3, LockFacts
<1>5. Mgr \in Places(S)
    BY <1>3, MemberAsks
<1>6. PICK w \in S, v \in S : \E gw \in Asked(w), hv \in Held(v) :
          gw.lock = Mgr /\ hv.lock = Mgr /\ Conflict(gw, hv)
    BY <1>5, HolderInCircle
<1>7. PICK gw \in Asked(w), hv \in Held(v) :
          gw.lock = Mgr /\ hv.lock = Mgr /\ Conflict(gw, hv)
    BY <1>6
<1>8. PICK k \in Places(S), g \in Asked(v) :
          g.lock = k /\ g.how \in {"await", "maybe"} /\ g.mode \in {"R", "W"}
    BY MemberAsks
<1>9. Rank[k] \in {1, 2} /\ k \in Lock
    BY <1>1, <1>4, CameraLock DEF Places
<1>10. CASE Rank[k] = 1
    <2>1. AsksAgainstOrder(v)
        BY <1>4, <1>7, <1>8, <1>10 DEF AsksAgainstOrder
    <2>2. job[v].handler \in NestedHandlers
        BY <2>1, CircleTasks, AgainstOrder
    <2>3. job[v].handler # "frame_end"
        <3>1. ASSUME job[v].handler = "frame_end" PROVE FALSE
            <4>1. job[v].camera \in Camera /\ hv.lock = Cam(job[v].camera)
                BY <2>1, <3>1, CircleTasks, EndFragmentHolds
            <4> QED
                BY <1>7, <4>1, LockFacts
        <3> QED
            BY <3>1
    <2> QED
        BY <1>7, <2>1, <2>2, <2>3, DeviceInfoAlone, CameraInfoReads DEF NestedHandlers
<1>11. CASE Rank[k] = 2
    <2> SUFFICES ASSUME NEW y \in S, NEW hy \in Held(y), AsksAgainstOrder(y),
                        job[y].handler = "frame_end", hy.lock = k
                 PROVE  Explained(S, y)
        BY <1>2, <1>4, <1>11
    <2>1. k = Cam(job[y].camera)
        BY CircleTasks, EndFragmentHolds
    <2>2. Holds(v, Mgr)
        BY <1>7 DEF Holds
    <2>3. AwaitsIn(v, Cam(job[y].camera), g.mode)
        BY <1>8, <2>1, CircleTasks DEF AwaitsIn
    <2> QED
        BY <1>8, <2>2, <2>3 DEF Explained
<1> QED
    BY <1>9, <1>10, <1>11

(* Every circle of waiting tasks has one of three reasons: device info that *)
(* waits for itself, an end fragment that holds the camera which a holder   *)
(* of the manager waits for, or camera info behind a writer of the manager. *)
(* No other interplay of the handlers can block them for ever, with any     *)
(* number of cameras, connections and requests.                             *)
THEOREM CirclesHaveReasons == Spec => []CirclesExplained
<1>1. SInv => CirclesExplained
    BY CircleExplained DEF CirclesExplained, Explained
<1> QED
    BY SInvariance, <1>1, PTL
===============================================================================
