------------------------ MODULE LockDiscipline_proofs ------------------------
(***************************************************************************)
(* Handlers that take their locks in order never wait in a circle, for any *)
(* number of tasks, locks and handlers, whatever the programs are.         *)
(*                                                                         *)
(* The invariant says why a task is in a queue: its program asks for that  *)
(* lock and waits for it.  From the order of the programs, a task waits    *)
(* for one lock only and for a higher one than all it holds; among waiting *)
(* tasks, the one first in the queue of the highest lock waits for none of *)
(* the others.                                                             *)
(***************************************************************************)
EXTENDS LockDiscipline, SequenceTheorems, WellFoundedInduction, TLAPS

(* A queued task asks for the lock of the queue, and is there once. *)
QueuedAsk ==
    \A l \in Lock : \A i \in 1 .. Len(queue[l]) :
        \E g \in Asked(queue[l][i]) : g.lock = l /\ g.how \in {"await", "maybe"}

QueuedOnce ==
    \A l \in Lock : \A i, k \in 1 .. Len(queue[l]) :
        queue[l][i] = queue[l][k] => i = k

(* A task runs its own handlers. *)
RunsOwn == \A t \in Task : job[t] \in Runs[t] \cup {Idle}

LInv == TypeOK /\ RunsOwn /\ QueuedAsk /\ QueuedOnce

(* Guards that exclude one another are not held at once, by two tasks or by *)
(* one.                                                                     *)
MutualExclusion ==
    \A t, u \in Task : \A g \in Held(t), h \in Held(u) :
        t # u \/ g # h => ~Conflict(g, h)

-----------------------------------------------------------------------------
(* A set of numbers that is not empty has a least element. *)
LEMMA LeastNumber ==
    ASSUME NEW S \in SUBSET Nat, S # {}
    PROVE  \E x \in S : \A y \in S : x <= y
<1>1. PICK x \in S : \A y \in S : ~(<<y, x>> \in OpToRel(<, Nat))
    BY NatLessThanWellFounded, WFMin
<1>2. ASSUME NEW y \in S PROVE x <= y
    <2>1. x \in Nat /\ y \in Nat /\ <<y, x>> \in Nat \X Nat
        OBVIOUS
    <2>2. y < x => <<y, x>> \in OpToRel(<, Nat)
        BY <2>1 DEF OpToRel
    <2>3. ~(y < x)
        BY <1>1, <2>2
    <2> QED
        BY <2>1, <2>3
<1> QED
    BY <1>2

LEMMA QueueTypes ==
    ASSUME TypeOK, NEW l \in Lock
    PROVE  /\ queue[l] \in Seq(Task)
           /\ Len(queue[l]) \in Nat
           /\ \A i \in 1 .. Len(queue[l]) : queue[l][i] \in Task
BY LenProperties, ElementOfSeq DEF TypeOK

(* A task in a handler asks for one guard at most. *)
LEMMA OneAsked ==
    ASSUME TypeOK, AsksForOne, NEW t \in Task,
           NEW g \in Asked(t), NEW h \in Asked(t)
    PROVE  g = h
<1>1. job[t] \in Job /\ at[t] \in 0 .. Len(Program[job[t]]) - 1
    <2>1. job[t] # Idle
        BY DEF Asked, AskedIn
    <2>2. job[t] \in Job /\ Len(Program[job[t]]) \in Nat
        BY <2>1, ProgramAssumption DEF TypeOK
    <2> QED
        BY <2>1, <2>2 DEF TypeOK
<1> QED
    BY <1>1 DEF AsksForOne, Asked

(* What is waited for outranks what is held. *)
LEMMA AskedOutranks ==
    ASSUME TypeOK, RunsOwn, AsksUpward, NEW t \in Task,
           NEW g \in Asked(t), g.how \in {"await", "maybe"}, NEW h \in Held(t)
    PROVE  Rank[h.lock] < Rank[g.lock]
<1>1. job[t] \in Runs[t] /\ at[t] \in 0 .. Len(Program[job[t]]) - 1
    <2>1. job[t] # Idle
        BY DEF Asked, AskedIn
    <2>2. job[t] \in Runs[t] /\ job[t] \in Job /\ Len(Program[job[t]]) \in Nat
        BY <2>1, ProgramAssumption DEF TypeOK, RunsOwn
    <2> QED
        BY <2>1, <2>2 DEF TypeOK
<1> QED
    BY <1>1 DEF AsksUpward, Asked, Held

(* A task that does not ask for a guard, or only tries, is in no queue. *)
LEMMA NotQueued ==
    ASSUME LInv, AsksForOne, NEW t \in Task,
           \/ Asked(t) = {}
           \/ \E g \in Asked(t) : g.how \in {"try", "need"}
    PROVE  ~Waiting(t)
<1> SUFFICES ASSUME Waiting(t) PROVE FALSE
    OBVIOUS
<1>1. PICK l \in Lock : \E i \in 1 .. Len(queue[l]) : t = queue[l][i]
    BY DEF Waiting, Elements
<1>2. PICK h \in Asked(t) : h.how \in {"await", "maybe"}
    BY <1>1 DEF LInv, QueuedAsk
<1>3. PICK g \in Asked(t) : g.how \in {"try", "need"}
    BY <1>2
<1>4. g = h
    BY <1>2, <1>3, OneAsked DEF LInv
<1> QED
    BY <1>2, <1>3, <1>4

(* ScopeEnd is a point of the program ahead of the task: its last step      *)
(* holds nothing.                                                           *)
LEMMA ScopeEnds ==
    ASSUME TypeOK, NEW t \in Task, NEW g \in Asked(t)
    PROVE  /\ ScopeEnd(t, g) \in at[t] + 1 .. Len(Program[job[t]])
           /\ g \notin Program[job[t]][ScopeEnd(t, g)].held
           /\ \A k \in at[t] + 1 .. ScopeEnd(t, g) - 1 : g \in Program[job[t]][k].held
<1> DEFINE P == Program[job[t]]
           Outside == {i \in at[t] + 1 .. Len(P) : g \notin P[i].held}
<1>1. job[t] # Idle
    BY DEF Asked, AskedIn
<1>2. at[t] \in Nat /\ Len(P) \in Nat /\ at[t] < Len(P) /\ P[Len(P)].held = {}
    BY <1>1, ProgramAssumption DEF TypeOK
<1> HIDE DEF P
<1>3. Len(P) \in Outside /\ Outside \in SUBSET Nat
    BY <1>2
<1>4. PICK i \in Outside : \A k \in Outside : i <= k
    BY <1>3, LeastNumber
<1>5. i \in at[t] + 1 .. Len(P) /\ g \notin P[i].held
    OBVIOUS
<1>6. \A k \in at[t] + 1 .. i - 1 : g \in P[k].held
    <2>1. ASSUME NEW k \in at[t] + 1 .. i - 1, g \notin P[k].held PROVE FALSE
        <3>1. k \in at[t] + 1 .. Len(P) /\ k < i
            BY <1>2, <1>5
        <3>2. k \in Outside
            BY <2>1, <3>1
        <3> QED
            BY <1>2, <1>4, <1>5, <3>1, <3>2
    <2> QED
        BY <2>1
<1> QED
    BY <1>5, <1>6 DEF ScopeEnd, P

-----------------------------------------------------------------------------
(* A task that is in no queue moves on in its program; the queues stay as   *)
(* they are.                                                                *)
LEMMA MoveKeeps ==
    ASSUME LInv, NEW t \in Task, job[t] # Idle, ~Waiting(t), UNCHANGED queue,
           NEW i \in at[t] + 1 .. Len(Program[job[t]]), MoveTo(t, i)
    PROVE  LInv'
<1>1. /\ at[t] \in Nat /\ job[t] \in Job /\ Len(Program[job[t]]) \in Nat
      /\ job \in [Task -> Job \cup {Idle}] /\ at \in [Task -> Nat]
    BY ProgramAssumption DEF LInv, TypeOK
<1>2. TypeOK'
    <2>1. CASE i = Len(Program[job[t]])
        <3>1. /\ job' = [job EXCEPT ![t] = Idle] /\ at' = [at EXCEPT ![t] = 0]
            BY <2>1 DEF MoveTo
        <3>2. job' \in [Task -> Job \cup {Idle}] /\ at' \in [Task -> Nat]
            BY <1>1, <3>1
        <3>3. ASSUME NEW u \in Task, job'[u] # Idle
              PROVE  at'[u] < Len(Program[job'[u]])
            <4>1. u # t
                BY <1>1, <3>1, <3>3
            <4>2. job'[u] = job[u] /\ at'[u] = at[u]
                BY <1>1, <3>1, <4>1
            <4> QED
                BY <3>3, <4>2 DEF LInv, TypeOK
        <3> QED
            BY <3>2, <3>3 DEF LInv, TypeOK
    <2>2. CASE i # Len(Program[job[t]])
        <3>1. i \in Nat /\ i < Len(Program[job[t]])
            BY <1>1, <2>2
        <3> QED
            BY <1>1, <2>2, <3>1 DEF LInv, TypeOK, MoveTo
    <2> QED
        BY <2>1, <2>2
<1>3. \A u \in Task \ {t} : Asked(u)' = Asked(u)
    <2>1. \A u \in Task \ {t} : job'[u] = job[u] /\ at'[u] = at[u]
        BY <1>1 DEF MoveTo
    <2> QED
        BY <2>1 DEF Asked
<1>4. QueuedAsk'
    <2>1. ASSUME NEW l \in Lock, NEW k \in 1 .. Len(queue[l])
          PROVE  queue[l][k] \in Task \ {t}
        BY <2>1, QueueTypes DEF LInv, Waiting, Elements
    <2> QED
        BY <1>3, <2>1 DEF LInv, QueuedAsk
<1>5. QueuedOnce'
    BY DEF LInv, QueuedOnce
<1>6. RunsOwn'
    BY <1>1 DEF LInv, RunsOwn, MoveTo
<1> QED
    BY <1>2, <1>4, <1>5, <1>6 DEF LInv

LEMMA BeginKeeps ==
    ASSUME LInv, AsksForOne, NEW t \in Task, Begin(t)
    PROVE  LInv'
<1>1. /\ job \in [Task -> Job \cup {Idle}] /\ at \in [Task -> Nat]
      /\ job[t] = Idle /\ UNCHANGED queue
    BY DEF LInv, TypeOK, Begin
<1>2. PICK j \in Runs[t] : job' = [job EXCEPT ![t] = j] /\ at' = [at EXCEPT ![t] = 0]
    BY DEF Begin
<1>3. j \in Job /\ Len(Program[j]) \in Nat \ {0}
    BY RunsAssumption, ProgramAssumption
<1>4. TypeOK'
    BY <1>1, <1>2, <1>3 DEF LInv, TypeOK
<1>5. ~Waiting(t)
    <2>1. Asked(t) = {}
        BY <1>1 DEF Asked, AskedIn
    <2> QED
        BY <2>1, NotQueued
<1>6. \A u \in Task \ {t} : Asked(u)' = Asked(u)
    BY <1>1, <1>2 DEF Asked
<1>7. QueuedAsk'
    <2>1. ASSUME NEW l \in Lock, NEW k \in 1 .. Len(queue[l])
          PROVE  queue[l][k] \in Task \ {t}
        BY <1>5, QueueTypes DEF LInv, Waiting, Elements
    <2> QED
        BY <1>1, <1>6, <2>1 DEF LInv, QueuedAsk
<1>8. QueuedOnce'
    BY <1>1 DEF LInv, QueuedOnce
<1>9. RunsOwn'
    BY <1>1, <1>2 DEF LInv, RunsOwn
<1> QED
    BY <1>4, <1>7, <1>8, <1>9 DEF LInv

LEMMA EnqueueKeeps ==
    ASSUME LInv, NEW t \in Task, Enqueue(t)
    PROVE  LInv'
<1>1. PICK g \in Asked(t) :
          /\ g.how \in {"await", "maybe"}
          /\ queue' = [queue EXCEPT ![g.lock] = Append(queue[g.lock], t)]
    BY DEF Enqueue
<1> DEFINE lock == g.lock
<1>2. UNCHANGED <<job, at>> /\ ~Waiting(t)
    BY DEF Enqueue
<1>3. \A u \in Task : AskedIn(job'[u], at'[u]) = Asked(u)
    BY <1>2 DEF Asked
<1>4. lock \in Lock
    <2>1. job[t] \in Job /\ at[t] + 1 \in 1 .. Len(Program[job[t]])
        <3>1. job[t] # Idle
            BY DEF Asked, AskedIn
        <3>2. job[t] \in Job /\ Len(Program[job[t]]) \in Nat
            BY <3>1, ProgramAssumption DEF LInv, TypeOK
        <3> QED
            BY <3>1, <3>2 DEF LInv, TypeOK
    <2>2. Program[job[t]][at[t] + 1].held \subseteq Guard
        BY <2>1, ProgramAssumption
    <2>3. g \in Guard
        BY <2>1, <2>2 DEF Asked, AskedIn
    <2> QED
        BY <2>3 DEF Guard
<1> HIDE DEF lock
<1>5. /\ queue[lock] \in Seq(Task) /\ Len(queue[lock]) \in Nat
      /\ queue'[lock] \in Seq(Task)
      /\ Len(queue'[lock]) = Len(queue[lock]) + 1
      /\ \A i \in 1 .. Len(queue[lock]) : queue'[lock][i] = queue[lock][i]
      /\ queue'[lock][Len(queue[lock]) + 1] = t
    <2>1. queue[lock] \in Seq(Task) /\ Len(queue[lock]) \in Nat
        BY <1>4, QueueTypes DEF LInv
    <2>2. queue'[lock] = Append(queue[lock], t)
        BY <1>1, <1>4 DEF LInv, TypeOK, lock
    <2> QED
        BY <2>1, <2>2, AppendProperties
<1>6. \A l \in Lock \ {lock} : queue'[l] = queue[l]
    BY <1>1, <1>4 DEF LInv, TypeOK, lock
<1>7. TypeOK'
    <2>1. queue' \in [Lock -> Seq(Task)]
        BY <1>1, <1>4, <1>5, <1>6 DEF LInv, TypeOK, lock
    <2> QED
        BY <1>2, <2>1 DEF LInv, TypeOK
<1>8. QueuedAsk'
    <2>1. ASSUME NEW l \in Lock, NEW i \in 1 .. Len(queue'[l])
          PROVE  \E h \in AskedIn(job'[queue'[l][i]], at'[queue'[l][i]]) : h.lock = l /\ h.how \in {"await", "maybe"}
        <3>1. CASE l = lock /\ i = Len(queue[lock]) + 1
            BY <1>1, <1>3, <1>5, <3>1 DEF lock
        <3>2. CASE ~(l = lock /\ i = Len(queue[lock]) + 1)
            <4>1. i \in 1 .. Len(queue[l]) /\ queue'[l][i] = queue[l][i]
                BY <1>5, <1>6, <3>2
            <4>2. queue[l][i] \in Task
                BY <4>1, QueueTypes DEF LInv
            <4> QED
                BY <1>3, <4>1, <4>2 DEF LInv, QueuedAsk
        <3> QED
            BY <3>1, <3>2
    <2> QED
        BY <2>1 DEF QueuedAsk, Asked
<1>9. QueuedOnce'
    <2>1. \A i \in 1 .. Len(queue[lock]) : queue[lock][i] # t
        BY <1>2, <1>4 DEF Waiting, Elements
    <2>2. ASSUME NEW l \in Lock, NEW i \in 1 .. Len(queue'[l]),
                 NEW k \in 1 .. Len(queue'[l]), queue'[l][i] = queue'[l][k]
          PROVE  i = k
        <3>1. CASE l # lock
            BY <1>6, <2>2, <3>1 DEF LInv, QueuedOnce
        <3>2. CASE l = lock
            <4>1. CASE i \in 1 .. Len(queue[lock]) /\ k \in 1 .. Len(queue[lock])
                <5>1. queue[lock][i] = queue[lock][k]
                    BY <1>5, <2>2, <3>2, <4>1
                <5> QED
                    BY <1>4, <4>1, <5>1 DEF LInv, QueuedOnce
            <4>2. CASE i = Len(queue[lock]) + 1 /\ k # i
                <5>1. k \in 1 .. Len(queue[lock]) /\ queue[lock][k] = t
                    BY <1>5, <2>2, <3>2, <4>2
                <5> QED
                    BY <2>1, <5>1
            <4>3. CASE k = Len(queue[lock]) + 1 /\ k # i
                <5>1. i \in 1 .. Len(queue[lock]) /\ queue[lock][i] = t
                    BY <1>5, <2>2, <3>2, <4>3
                <5> QED
                    BY <2>1, <5>1
            <4> QED
                BY <1>5, <3>2, <4>1, <4>2, <4>3
        <3> QED
            BY <3>1, <3>2
    <2> QED
        BY <2>2 DEF QueuedOnce
<1>10. RunsOwn'
    BY <1>2 DEF LInv, RunsOwn
<1> QED
    BY <1>7, <1>8, <1>9, <1>10 DEF LInv

LEMMA GrantKeeps ==
    ASSUME LInv, AsksForOne, NEW t \in Task, Grant(t)
    PROVE  LInv'
<1>1. PICK g \in Asked(t) :
          /\ queue[g.lock] # <<>> /\ Head(queue[g.lock]) = t
          /\ queue' = [queue EXCEPT ![g.lock] = Tail(queue[g.lock])]
    BY DEF Grant
<1> DEFINE lock == g.lock
<1>2. /\ job[t] # Idle /\ job[t] \in Job
      /\ at[t] \in Nat /\ Len(Program[job[t]]) \in Nat
      /\ at[t] + 1 \in 1 .. Len(Program[job[t]])
    <2>1. job[t] # Idle
        BY DEF Asked, AskedIn
    <2>2. job[t] \in Job /\ Len(Program[job[t]]) \in Nat
        BY <2>1, ProgramAssumption DEF LInv, TypeOK
    <2> QED
        BY <2>1, <2>2 DEF LInv, TypeOK
<1>3. lock \in Lock
    <2>1. Program[job[t]][at[t] + 1].held \subseteq Guard
        BY <1>2, ProgramAssumption
    <2>2. g \in Guard
        BY <1>2, <2>1 DEF Asked, AskedIn
    <2> QED
        BY <2>2 DEF Guard
<1> HIDE DEF lock
<1>4. /\ queue[lock] \in Seq(Task) /\ Len(queue[lock]) \in Nat
      /\ Len(queue[lock]) >= 1 /\ queue[lock][1] = t
      /\ queue'[lock] \in Seq(Task)
      /\ Len(queue'[lock]) = Len(queue[lock]) - 1
      /\ \A i \in 1 .. Len(queue'[lock]) : queue'[lock][i] = queue[lock][i + 1]
    <2>1. queue[lock] \in Seq(Task) /\ Len(queue[lock]) \in Nat /\ queue[lock] # <<>>
        BY <1>1, <1>3, QueueTypes DEF LInv, lock
    <2>2. queue'[lock] = Tail(queue[lock])
        BY <1>1, <1>3 DEF LInv, TypeOK, lock
    <2>3. Len(queue[lock]) >= 1 /\ queue[lock][1] = t
        BY <1>1, <2>1, EmptySeq DEF lock
    <2> QED
        BY <2>1, <2>2, <2>3, HeadTailProperties
<1>5. \A l \in Lock \ {lock} : queue'[l] = queue[l]
    BY <1>1, <1>3 DEF LInv, TypeOK, lock
<1>6. /\ job' \in [Task -> Job \cup {Idle}] /\ at' \in [Task -> Nat]
      /\ \A u \in Task : job'[u] # Idle => at'[u] < Len(Program[job'[u]])
      /\ \A u \in Task \ {t} : job'[u] = job[u] /\ at'[u] = at[u]
    <2>1. MoveTo(t, at[t] + 1)
        BY DEF Grant, Advance
    <2>2. job \in [Task -> Job \cup {Idle}] /\ at \in [Task -> Nat]
        BY DEF LInv, TypeOK
    <2>3. /\ job' \in [Task -> Job \cup {Idle}] /\ at' \in [Task -> Nat]
          /\ \A u \in Task \ {t} : job'[u] = job[u] /\ at'[u] = at[u]
          /\ job'[t] # Idle => job'[t] = job[t] /\ at'[t] = at[t] + 1
                               /\ at[t] + 1 # Len(Program[job[t]])
        BY <1>2, <2>1, <2>2 DEF MoveTo
    <2>4. \A u \in Task \ {t} : job'[u] # Idle => at'[u] < Len(Program[job'[u]])
        BY <2>3 DEF LInv, TypeOK
    <2>5. job'[t] # Idle => at'[t] < Len(Program[job'[t]])
        BY <1>2, <2>3
    <2> QED
        BY <2>3, <2>4, <2>5
<1>7. TypeOK'
    <2>1. queue' \in [Lock -> Seq(Task)]
        BY <1>1, <1>3, <1>4, <1>5 DEF LInv, TypeOK, lock
    <2> QED
        BY <1>6, <2>1 DEF TypeOK
<1>8. \A u \in Task \ {t} : AskedIn(job'[u], at'[u]) = Asked(u)
    BY <1>6 DEF Asked
(* t was in this queue only, and at its head only. *)
<1>9. ASSUME NEW l \in Lock, NEW i \in 1 .. Len(queue[l]), queue[l][i] = t
      PROVE  l = lock /\ i = 1
    <2>1. PICK h \in Asked(t) : h.lock = l
        BY <1>9 DEF LInv, QueuedAsk
    <2>2. h = g
        BY <2>1, OneAsked DEF LInv
    <2>3. l = lock
        BY <2>1, <2>2 DEF lock
    <2>4. 1 \in 1 .. Len(queue[lock]) /\ i \in 1 .. Len(queue[lock])
        BY <1>4, <2>3
    <2>5. queue[lock][i] = queue[lock][1]
        BY <1>4, <1>9, <2>3
    <2>6. i = 1
        BY <1>3, <2>4, <2>5 DEF LInv, QueuedOnce
    <2> QED
        BY <2>3, <2>6
<1>10. QueuedAsk'
    <2>1. ASSUME NEW l \in Lock, NEW i \in 1 .. Len(queue'[l])
          PROVE  \E h \in AskedIn(job'[queue'[l][i]], at'[queue'[l][i]]) : h.lock = l /\ h.how \in {"await", "maybe"}
        <3>1. PICK k \in 1 .. Len(queue[l]) :
                  queue'[l][i] = queue[l][k] /\ ~(l = lock /\ k = 1)
            <4>1. CASE l = lock
                <5>1. i + 1 \in 1 .. Len(queue[l]) /\ queue'[l][i] = queue[l][i + 1]
                    BY <1>4, <4>1
                <5>2. i + 1 # 1
                    BY <1>4, <4>1
                <5> QED
                    BY <5>1, <5>2
            <4>2. CASE l # lock
                BY <1>5, <4>2
            <4> QED
                BY <4>1, <4>2
        <3>2. queue[l][k] \in Task \ {t}
            BY <1>9, <3>1, QueueTypes DEF LInv
        <3> QED
            BY <1>8, <3>1, <3>2 DEF LInv, QueuedAsk
    <2> QED
        BY <2>1 DEF QueuedAsk, Asked
<1>11. QueuedOnce'
    <2>1. ASSUME NEW l \in Lock, NEW i \in 1 .. Len(queue'[l]),
                 NEW k \in 1 .. Len(queue'[l]), queue'[l][i] = queue'[l][k]
          PROVE  i = k
        <3>1. CASE l # lock
            BY <1>5, <2>1, <3>1 DEF LInv, QueuedOnce
        <3>2. CASE l = lock
            <4>1. \A m \in 1 .. Len(queue'[lock]) :
                      /\ m + 1 \in 1 .. Len(queue[lock])
                      /\ queue'[lock][m] = queue[lock][m + 1]
                <5> DEFINE n == Len(queue[lock])
                           less == Len(queue'[lock])
                <5>1. n \in Nat /\ n >= 1 /\ less = n - 1
                    BY <1>4
                <5> HIDE DEF n, less
                <5>2. \A m \in 1 .. less : m + 1 \in 1 .. n
                    BY <5>1
                <5> QED
                    BY <1>4, <5>2 DEF n, less
            <4>2. i \in 1 .. Len(queue'[lock]) /\ k \in 1 .. Len(queue'[lock])
                BY <3>2
            <4>3. queue'[lock][i] = queue'[lock][k]
                BY <2>1, <3>2
            <4>4. queue[lock][i + 1] = queue[lock][k + 1]
                BY <4>1, <4>2, <4>3
            <4>5. i + 1 = k + 1
                BY <1>3, <4>1, <4>2, <4>4 DEF LInv, QueuedOnce
            <4>6. i \in Int /\ k \in Int
                OBVIOUS
            <4> QED
                BY <4>5, <4>6
        <3> QED
            BY <3>1, <3>2
    <2> QED
        BY <2>1 DEF QueuedOnce
<1>12. RunsOwn'
    BY <1>2 DEF LInv, RunsOwn, TypeOK, Grant, Advance, MoveTo
<1> QED
    BY <1>7, <1>10, <1>11, <1>12 DEF LInv

LEMMA InitLInv == Init => LInv
<1> SUFFICES ASSUME Init PROVE LInv
    OBVIOUS
<1>1. /\ job = [t \in Task |-> Idle] /\ at = [t \in Task |-> 0]
      /\ queue = [l \in Lock |-> <<>>]
    BY DEF Init
<1>2. TypeOK
    BY <1>1 DEF TypeOK
<1>3. \A l \in Lock : 1 .. Len(queue[l]) = {}
    BY <1>1
<1> QED
    BY <1>1, <1>2, <1>3 DEF LInv, RunsOwn, QueuedAsk, QueuedOnce

LEMMA NextLInv ==
    ASSUME AsksForOne, LInv, [Next]_vars
    PROVE  LInv'
<1>1. ASSUME NEW t \in Task, Run(t) PROVE LInv'
    <2>1. \A g \in Asked(t) : job[t] # Idle
        BY DEF Asked, AskedIn
    <2>2. job[t] # Idle =>
              /\ at[t] + 1 \in at[t] + 1 .. Len(Program[job[t]])
              /\ Len(Program[job[t]]) \in at[t] + 1 .. Len(Program[job[t]])
        <3>1. job[t] # Idle => job[t] \in Job /\ Len(Program[job[t]]) \in Nat
            BY ProgramAssumption DEF LInv, TypeOK
        <3> QED
            BY <3>1 DEF LInv, TypeOK
    <2>3. CASE Acquire(t)
        BY <2>1, <2>2, <2>3, MoveKeeps DEF Acquire, Advance
    <2>4. CASE Enqueue(t)
        BY <2>4, EnqueueKeeps
    <2>5. CASE Grant(t)
        BY <2>5, GrantKeeps
    <2>6. CASE TryGet(t)
        <3>1. ~Waiting(t)
            BY <2>6, NotQueued DEF TryGet
        <3> QED
            BY <2>1, <2>2, <2>6, <3>1, MoveKeeps DEF TryGet, Advance
    <2>7. CASE TryMiss(t)
        <3>1. ~Waiting(t)
            BY <2>7, NotQueued DEF TryMiss
        <3>2. PICK g \in Asked(t) : MoveTo(t, ScopeEnd(t, g))
            BY <2>7 DEF TryMiss
        <3>3. ScopeEnd(t, g) \in at[t] + 1 .. Len(Program[job[t]])
            BY ScopeEnds DEF LInv
        <3> QED
            BY <2>1, <2>7, <3>1, <3>2, <3>3, MoveKeeps DEF TryMiss
    <2>8. CASE GiveUp(t)
        <3>1. ~Waiting(t)
            BY <2>8, NotQueued DEF GiveUp
        <3> QED
            BY <2>1, <2>2, <2>8, <3>1, MoveKeeps DEF GiveUp, Return
    <2>9. CASE NoConnection(t)
        <3>1. PICK g \in Asked(t) : MoveTo(t, ScopeEnd(t, g))
            BY <2>9 DEF NoConnection
        <3>2. ScopeEnd(t, g) \in at[t] + 1 .. Len(Program[job[t]])
            BY ScopeEnds DEF LInv
        <3> QED
            BY <2>1, <2>9, <3>1, <3>2, MoveKeeps DEF NoConnection
    <2>10. CASE Proceed(t)
        <3>1. ~Waiting(t)
            BY <2>10, NotQueued DEF Proceed
        <3> QED
            BY <2>2, <2>10, <3>1, MoveKeeps DEF Proceed, Advance
    <2>11. CASE FailWrite(t)
        <3>1. ~Waiting(t)
            BY <2>11, NotQueued DEF FailWrite
        <3> QED
            BY <2>2, <2>11, <3>1, MoveKeeps DEF FailWrite, Return
    <2> QED
        BY <1>1, <2>3, <2>4, <2>5, <2>6, <2>7, <2>8, <2>9, <2>10, <2>11 DEF Run
<1>2. CASE UNCHANGED vars
    BY <1>2 DEF vars, LInv, TypeOK, RunsOwn, QueuedAsk, QueuedOnce, Asked
<1> QED
    BY <1>1, <1>2, BeginKeeps DEF Next

-----------------------------------------------------------------------------
(* The locks that members of S are queued for. *)
Places(S) == {l \in Lock : \E i \in 1 .. Len(queue[l]) : queue[l][i] \in S}

LEMMA WaitersAsk ==
    ASSUME LInv, NEW t \in Task, Waiting(t)
    PROVE  \E l \in Lock : /\ \E i \in 1 .. Len(queue[l]) : queue[l][i] = t
                           /\ \E g \in Asked(t) : g.lock = l /\ g.how \in {"await", "maybe"}
<1>1. PICK l \in Lock : \E i \in 1 .. Len(queue[l]) : t = queue[l][i]
    BY DEF Waiting, Elements
<1> QED
    BY <1>1 DEF LInv, QueuedAsk

(* Of the locks a set of tasks waits for, one is the highest. *)
LEMMA HighestPlace ==
    ASSUME NEW S \in SUBSET {t \in Task : Waiting(t)}, S # {}
    PROVE  \E l \in Places(S) : \A k \in Places(S) : Rank[k] <= Rank[l]
<1> DEFINE Below == {TopRank - Rank[l] : l \in Places(S)}
<1>1. \A l \in Places(S) : Rank[l] \in 0 .. TopRank /\ TopRank \in Nat
    BY RankAssumption DEF Places
<1>2. Places(S) # {}
    BY DEF Waiting, Elements, Places
<1>3. Below \in SUBSET Nat /\ Below # {}
    BY <1>1, <1>2
<1>4. PICK b \in Below : \A c \in Below : b <= c
    BY <1>3, LeastNumber
<1>5. PICK l \in Places(S) : b = TopRank - Rank[l]
    OBVIOUS
<1>6. \A k \in Places(S) : TopRank - Rank[l] <= TopRank - Rank[k]
    BY <1>4, <1>5
<1>7. \A k \in Places(S) : Rank[k] <= Rank[l]
    BY <1>1, <1>6
<1> QED
    BY <1>7

(* The first of a set of tasks in the queue of a lock waits, of these, only *)
(* for one that holds the lock.                                             *)
LEMMA FirstInQueue ==
    ASSUME LInv, AsksForOne, NEW S \in SUBSET Task, NEW l \in Places(S)
    PROVE  \E t \in S :
              /\ \E i \in 1 .. Len(queue[l]) : queue[l][i] = t
              /\ \E g \in Asked(t) : g.lock = l /\ g.how \in {"await", "maybe"}
              /\ \A u \in S : WaitsFor(t, u) =>
                    \E g \in Asked(t), h \in Held(u) : g.lock = l /\ Conflict(g, h)
<1> DEFINE Spots == {i \in 1 .. Len(queue[l]) : queue[l][i] \in S}
<1>1. Spots \in SUBSET Nat /\ Spots # {} /\ l \in Lock
    BY DEF Places
<1>2. PICK i \in Spots : \A k \in Spots : i <= k
    BY <1>1, LeastNumber
<1> DEFINE t == queue[l][i]
<1>3. t \in S /\ t \in Task /\ i \in 1 .. Len(queue[l])
    OBVIOUS
<1>4. PICK g \in Asked(t) : g.lock = l /\ g.how \in {"await", "maybe"}
    BY <1>1, <1>3 DEF LInv, QueuedAsk
<1>5. ASSUME NEW u \in S, WaitsFor(t, u)
      PROVE  \E h \in Held(u) : Conflict(g, h)
    <2>1. PICK l2 \in Lock : \E i2 \in 1 .. Len(queue[l2]) :
              /\ queue[l2][i2] = t
              /\ \/ \E g2 \in Asked(t) : \E h \in Held(u) : g2.lock = l2 /\ Conflict(g2, h)
                 \/ \E k \in 1 .. i2 - 1 : queue[l2][k] = u
        BY <1>5 DEF WaitsFor
    <2>2. PICK i2 \in 1 .. Len(queue[l2]) :
              /\ queue[l2][i2] = t
              /\ \/ \E g2 \in Asked(t) : \E h \in Held(u) : g2.lock = l2 /\ Conflict(g2, h)
                 \/ \E k \in 1 .. i2 - 1 : queue[l2][k] = u
        BY <2>1
    <2>3. l2 = l
        <3>1. PICK h \in Asked(t) : h.lock = l2
            BY <2>2 DEF LInv, QueuedAsk
        <3>2. g = h
            BY <1>3, OneAsked DEF LInv
        <3> QED
            BY <1>4, <3>1, <3>2
    <2>4. i2 = i
        BY <1>1, <1>3, <2>2, <2>3 DEF LInv, QueuedOnce
    <2>5. ASSUME NEW k \in 1 .. i - 1, queue[l][k] = u PROVE FALSE
        <3>1. i \in Nat /\ Len(queue[l]) \in Nat
            BY <1>1, <1>3, QueueTypes DEF LInv
        <3>2. k \in 1 .. Len(queue[l]) /\ k < i
            BY <1>3, <3>1
        <3>3. k \in Spots
            BY <2>5, <3>2
        <3> QED
            BY <1>2, <3>1, <3>2, <3>3
    <2>6. PICK g2 \in Asked(t), h \in Held(u) : Conflict(g2, h)
        BY <2>2, <2>3, <2>4, <2>5
    <2>7. g2 = g
        BY <1>3, OneAsked DEF LInv
    <2> QED
        BY <2>6, <2>7
<1> QED
    BY <1>3, <1>4, <1>5

(* Among waiting tasks the first in the queue of the highest lock waits for *)
(* none of the others.                                                      *)
LEMMA OrderedMeansNoCircle ==
    ASSUME OrderedPrograms, LInv
    PROVE  NoCircularWait
<1> SUFFICES ASSUME NEW S \in SUBSET {t \in Task : Waiting(t)}, S # {}
             PROVE  \E t \in S : \A u \in S : ~WaitsFor(t, u)
    BY DEF NoCircularWait
<1>1. \A l \in Lock : Rank[l] \in Nat
    BY RankAssumption
<1>2. PICK l \in Places(S) : \A k \in Places(S) : Rank[k] <= Rank[l]
    BY HighestPlace
<1>3. PICK t \in S : \A u \in S : WaitsFor(t, u) =>
          \E g \in Asked(t), h \in Held(u) : g.lock = l /\ Conflict(g, h)
    BY FirstInQueue DEF OrderedPrograms
<1>4. ASSUME NEW u \in S, WaitsFor(t, u) PROVE FALSE
    <2>1. PICK h \in Held(u) : h.lock = l
        BY <1>3, <1>4 DEF Conflict
    <2>2. PICK k \in Lock : /\ \E i \in 1 .. Len(queue[k]) : queue[k][i] = u
                            /\ \E g \in Asked(u) : g.lock = k /\ g.how \in {"await", "maybe"}
        BY WaitersAsk
    <2>3. Rank[l] < Rank[k]
        BY <2>1, <2>2, AskedOutranks DEF LInv, OrderedPrograms
    <2>4. Rank[k] <= Rank[l]
        BY <1>2, <2>2 DEF Places
    <2> QED
        BY <1>1, <2>2, <2>3, <2>4 DEF Places
<1> QED
    BY <1>4

LEMMA LInvariance == ASSUME AsksForOne PROVE Spec => []LInv
BY InitLInv, NextLInv, PTL DEF Spec

(* Tasks, their places in their handlers and the queues keep their types,   *)
(* and no handler runs past the end of its program.                         *)
THEOREM LockTypes == AsksForOne => (Spec => []TypeOK)
<1> SUFFICES ASSUME AsksForOne PROVE Spec => []TypeOK
    OBVIOUS
<1>1. LInv => TypeOK
    BY DEF LInv
<1> QED
    BY LInvariance, <1>1, PTL

(* Handlers that ask for manager, camera and socket in this order never     *)
(* wait for one another in a circle: the lock discipline of the server is   *)
(* enough, for any number of cameras, connections and requests.             *)
THEOREM OrderedNeverCircular == OrderedPrograms => (Spec => []NoCircularWait)
<1> SUFFICES ASSUME OrderedPrograms PROVE Spec => []NoCircularWait
    OBVIOUS
<1>1. LInv => NoCircularWait
    BY OrderedMeansNoCircle
<1> QED
    BY LInvariance, <1>1, PTL DEF OrderedPrograms

(* In particular no handler waits for a lock it holds itself. *)
THEOREM OrderedNeverAlone == OrderedPrograms => (Spec => []NoTaskWaitsForItself)
<1> SUFFICES ASSUME OrderedPrograms PROVE Spec => []NoTaskWaitsForItself
    OBVIOUS
<1>1. ASSUME LInv PROVE NoTaskWaitsForItself
    <2>1. ASSUME NEW t \in Task, WaitsFor(t, t) PROVE FALSE
        <3>1. Waiting(t)
            BY <2>1 DEF WaitsFor, Waiting, Elements
        <3>2. {t} \in (SUBSET {u \in Task : Waiting(u)}) \ {{}}
            BY <3>1
        <3>3. NoCircularWait
            BY <1>1, OrderedMeansNoCircle
        <3> QED
            BY <2>1, <3>2, <3>3 DEF NoCircularWait
    <2> QED
        BY <2>1 DEF NoTaskWaitsForItself
<1> QED
    BY LInvariance, <1>1, PTL DEF OrderedPrograms

-----------------------------------------------------------------------------
(* A step after which a task holds no more than before, or one more guard   *)
(* that nothing stands in the way of, keeps guards exclusive.               *)
LEMMA ExclusionKept ==
    ASSUME MutualExclusion, NEW t \in Task, NEW more,
           \A u \in Task \ {t} : Held(u)' = Held(u),
           Held(t)' \subseteq Held(t) \cup more,
           \A g \in more : Free(g),
           \A g, h \in more : g = h
    PROVE  MutualExclusion'
<1>1. ASSUME NEW u \in Task, NEW v \in Task, NEW g \in Held(u)', NEW h \in Held(v)',
             u # v \/ g # h
      PROVE  ~Conflict(g, h)
    <2>1. CASE g \in Held(u) /\ h \in Held(v)
        BY <1>1, <2>1 DEF MutualExclusion
    <2>2. CASE g \notin Held(u) /\ h \in Held(v)
        BY <1>1, <2>2 DEF Free
    <2>3. CASE h \notin Held(v) /\ g \in Held(u)
        BY <1>1, <2>3 DEF Free, Conflict
    <2>4. CASE g \notin Held(u) /\ h \notin Held(v)
        BY <1>1, <2>4
    <2> QED
        BY <2>1, <2>2, <2>3, <2>4
<1> QED
    BY <1>1 DEF MutualExclusion

(* Where a task is in its program. *)
LEMMA InProgram ==
    ASSUME TypeOK, NEW t \in Task, job[t] # Idle
    PROVE  /\ job[t] \in Job /\ at[t] \in Nat /\ Len(Program[job[t]]) \in Nat
           /\ at[t] < Len(Program[job[t]]) /\ at[t] \in 0 .. Len(Program[job[t]]) - 1
           /\ Program[job[t]][Len(Program[job[t]])].held = {}
BY ProgramAssumption DEF TypeOK

(* What a task holds once it has moved: what its program says. *)
LEMMA MoveHolds ==
    ASSUME TypeOK, NEW t \in Task, job[t] # Idle,
           NEW i \in at[t] + 1 .. Len(Program[job[t]]), MoveTo(t, i)
    PROVE  /\ \A u \in Task \ {t} : Held(u)' = Held(u)
           /\ Held(t)' \subseteq Program[job[t]][i].held
<1>1. /\ job \in [Task -> Job \cup {Idle}] /\ at \in [Task -> Nat]
      /\ at[t] \in Nat /\ i \in Nat /\ i # 0
    BY InProgram DEF TypeOK
<1>2. \A u \in Task \ {t} : job'[u] = job[u] /\ at'[u] = at[u]
    BY <1>1 DEF MoveTo
<1>3. Held(t)' \subseteq Program[job[t]][i].held
    <2>1. CASE i = Len(Program[job[t]])
        BY <1>1, <2>1 DEF MoveTo, Held, HeldIn
    <2>2. CASE i # Len(Program[job[t]])
        BY <1>1, <2>2 DEF MoveTo, Held, HeldIn
    <2> QED
        BY <2>1, <2>2
<1> QED
    BY <1>2, <1>3 DEF Held

LEMMA AdvanceHolds ==
    ASSUME TypeOK, NEW t \in Task, job[t] # Idle, Advance(t)
    PROVE  /\ \A u \in Task \ {t} : Held(u)' = Held(u)
           /\ Held(t)' \subseteq Held(t) \cup Asked(t)
<1>1. at[t] + 1 \in at[t] + 1 .. Len(Program[job[t]])
    BY InProgram
<1>2. Program[job[t]][at[t] + 1].held \subseteq Held(t) \cup Asked(t)
    BY DEF Held, Asked, AskedIn
<1> QED
    BY <1>1, <1>2, MoveHolds DEF Advance

LEMMA ReturnHolds ==
    ASSUME TypeOK, NEW t \in Task, job[t] # Idle, Return(t)
    PROVE  /\ \A u \in Task \ {t} : Held(u)' = Held(u)
           /\ Held(t)' \subseteq Held(t)
<1>1. Len(Program[job[t]]) \in at[t] + 1 .. Len(Program[job[t]])
    BY InProgram
<1> QED
    BY <1>1, InProgram, MoveHolds DEF Return

LEMMA PassHolds ==
    ASSUME TypeOK, ScopesNest, NEW t \in Task, NEW g \in Asked(t), MoveTo(t, ScopeEnd(t, g))
    PROVE  /\ \A u \in Task \ {t} : Held(u)' = Held(u)
           /\ Held(t)' \subseteq Held(t)
<1>1. job[t] # Idle
    BY DEF Asked, AskedIn
<1>2. PICK k : k = ScopeEnd(t, g)
    OBVIOUS
<1>3. /\ k \in at[t] + 1 .. Len(Program[job[t]])
      /\ g \notin Program[job[t]][k].held
      /\ \A m \in at[t] + 1 .. k - 1 : g \in Program[job[t]][m].held
    BY <1>2, ScopeEnds
<1>4. Program[job[t]][k].held \subseteq Held(t)
    BY <1>1, <1>3, InProgram DEF ScopesNest, Asked, Held
<1> QED
    BY <1>1, <1>2, <1>3, <1>4, MoveHolds

LEMMA ExclusionStep ==
    ASSUME AsksForOne, ScopesNest, LInv, MutualExclusion, [Next]_vars
    PROVE  MutualExclusion'
<1>1. TypeOK
    BY DEF LInv
<1>2. ASSUME NEW t \in Task, NEW g \in Asked(t), Free(g), Advance(t)
      PROVE  MutualExclusion'
    <2>1. job[t] # Idle
        BY <1>2 DEF Asked, AskedIn
    <2>2. \A h \in Asked(t) : h = g
        BY <1>1, OneAsked
    <2> QED
        BY <1>1, <1>2, <2>1, <2>2, AdvanceHolds, ExclusionKept
<1>3. ASSUME NEW t \in Task, \A u \in Task \ {t} : Held(u)' = Held(u),
             Held(t)' \subseteq Held(t)
      PROVE  MutualExclusion'
    BY <1>3 DEF MutualExclusion
<1>4. ASSUME NEW t \in Task, Begin(t) PROVE MutualExclusion'
    <2>1. /\ job \in [Task -> Job \cup {Idle}] /\ at \in [Task -> Nat]
        BY <1>1 DEF TypeOK
    <2>2. \A u \in Task \ {t} : job'[u] = job[u] /\ at'[u] = at[u]
        BY <1>4, <2>1 DEF Begin
    <2>3. at'[t] = 0
        BY <1>4, <2>1 DEF Begin
    <2> QED
        BY <1>3, <2>2, <2>3 DEF Held, HeldIn
<1>5. ASSUME NEW t \in Task, Run(t) PROVE MutualExclusion'
    <2>1. CASE Acquire(t)
        BY <1>2, <2>1 DEF Acquire
    <2>2. CASE Enqueue(t)
        BY <1>3, <2>2 DEF Enqueue, Held
    <2>3. CASE Grant(t)
        BY <1>2, <2>3 DEF Grant
    <2>4. CASE TryGet(t)
        BY <1>2, <2>4 DEF TryGet, Available
    <2>5. CASE TryMiss(t)
        BY <1>1, <1>3, <2>5, PassHolds DEF TryMiss
    <2>6. CASE GiveUp(t)
        <3>1. job[t] # Idle
            BY <2>6 DEF GiveUp, Asked, AskedIn
        <3> QED
            BY <1>1, <1>3, <2>6, <3>1, ReturnHolds DEF GiveUp
    <2>7. CASE NoConnection(t)
        BY <1>1, <1>3, <2>7, PassHolds DEF NoConnection
    <2>8. CASE Proceed(t)
        BY <1>1, <1>3, <2>8, AdvanceHolds DEF Proceed
    <2>9. CASE FailWrite(t)
        BY <1>1, <1>3, <2>9, ReturnHolds DEF FailWrite
    <2> QED
        BY <1>5, <2>1, <2>2, <2>3, <2>4, <2>5, <2>6, <2>7, <2>8, <2>9 DEF Run
<1>6. CASE UNCHANGED vars
    BY <1>6 DEF vars, MutualExclusion, Held
<1> QED
    BY <1>4, <1>5, <1>6 DEF Next

(* A handler that gets a guard, waiting or trying, or goes on without it,   *)
(* never holds it together with one it excludes, not even one of its own.   *)
THEOREM GuardsExclude == AsksForOne /\ ScopesNest => (Spec => []MutualExclusion)
<1> SUFFICES ASSUME AsksForOne, ScopesNest PROVE Spec => []MutualExclusion
    OBVIOUS
<1>1. Init => MutualExclusion
    BY DEF Init, MutualExclusion, Held, HeldIn
<1>2. LInv /\ MutualExclusion /\ [Next]_vars => MutualExclusion'
    BY ExclusionStep
<1> QED
    BY LInvariance, <1>1, <1>2, PTL DEF Spec
=============================================================================
