--------------------------- MODULE LockDiscipline ---------------------------
(***************************************************************************)
(* Tasks that run handlers over shared locks.  The locks are tokio's       *)
(* RwLock and Mutex (external to src/, modelled from how the handlers use  *)
(* them): a fair queue in order of request, any number of readers or one   *)
(* writer, a reader waits behind a queued writer, try_read and try_write   *)
(* never wait, and a guard held by the asking task counts like any other.  *)
(*                                                                         *)
(* A handler is given by its program: the sequence of lock configurations  *)
(* it goes through, each with the guards held once the step is done and    *)
(* what the step writes to the camera's TCP socket.  A program ends with   *)
(* no guard held.  The concrete programs are in ServerLocks.               *)
(***************************************************************************)
EXTENDS Integers, Sequences

CONSTANTS
    Task,       \* tokio tasks
    Job,        \* handler invocations a task can run
    Program,    \* the sequence of steps of each job
    Runs,       \* the jobs each task may run, one at a time, again and again
    Idle,       \* not a job: the task is between two handlers
    Lock,
    Rank,       \* the order in which locks should be taken
    TopRank

(* How a guard is asked for: waiting for it; waiting, but only if there is  *)
(* something to lock (a TCP connection); trying, and going on without it;   *)
(* trying, and returning without it.                                        *)
How == {"await", "maybe", "try", "need"}
Guard == [lock : Lock, mode : {"R", "W"}, how : How, nest : {0, 1}]

(* A step may write nothing, the header of a message whose body follows, or *)
(* the end of a message.                                                    *)
Write == {"none", "header", "message"}
Step == [held : SUBSET Guard, io : Write]

ASSUME IdleAssumption == Idle \notin Job
ASSUME RunsAssumption == Runs \in [Task -> SUBSET Job]
ASSUME RankAssumption == TopRank \in Nat /\ Rank \in [Lock -> 0 .. TopRank]
ASSUME ProgramAssumption ==
    /\ DOMAIN Program = Job
    /\ \A j \in Job :
          /\ \A i \in 1 .. Len(Program[j]) :
                Program[j][i].held \subseteq Guard /\ Program[j][i].io \in Write
          /\ Len(Program[j]) \in Nat \ {0}
          /\ Program[j][Len(Program[j])].held = {}

VARIABLES
    job,        \* job[t]: the handler t is in, or Idle
    at,         \* at[t]: steps of it done
    queue       \* queue[l]: the tasks waiting for l, in order of request

vars == <<job, at, queue>>

-----------------------------------------------------------------------------
(* The guards a program holds after its first i steps, and those it asks    *)
(* for next.                                                                *)
HeldIn(j, i) == IF j = Idle \/ i = 0 THEN {} ELSE Program[j][i].held
AskedIn(j, i) == IF j = Idle THEN {} ELSE Program[j][i + 1].held \ HeldIn(j, i)

Held(t) == HeldIn(job[t], at[t])
Asked(t) == AskedIn(job[t], at[t])

Elements(s) == {s[i] : i \in 1 .. Len(s)}
Waiting(t) == \E l \in Lock : t \in Elements(queue[l])

Conflict(g, h) == g.lock = h.lock /\ (g.mode = "W" \/ h.mode = "W")
Free(g) == \A u \in Task : \A h \in Held(u) : ~Conflict(g, h)

(* What try_read and try_write find: queued readers do not stop a reader.   *)
QueuedModes(l) == {g.mode : g \in UNION {Asked(u) : u \in Elements(queue[l])}}
Available(g) ==
    Free(g) /\ IF g.mode = "R" THEN "W" \notin QueuedModes(g.lock)
                               ELSE queue[g.lock] = <<>>

(* Control moves to the point after step i of the program. *)
MoveTo(t, i) ==
    IF i = Len(Program[job[t]])
    THEN job' = [job EXCEPT ![t] = Idle] /\ at' = [at EXCEPT ![t] = 0]
    ELSE UNCHANGED job /\ at' = [at EXCEPT ![t] = i]

Return(t) == MoveTo(t, Len(Program[job[t]]))
Advance(t) == MoveTo(t, at[t] + 1)

(* The first step past the scope of guard g: where a handler goes on that   *)
(* did not get it.                                                          *)
ScopeEnd(t, g) ==
    CHOOSE i \in at[t] + 1 .. Len(Program[job[t]]) :
        /\ g \notin Program[job[t]][i].held
        /\ \A k \in at[t] + 1 .. i - 1 : g \in Program[job[t]][k].held

-----------------------------------------------------------------------------
Begin(t) ==
    /\ job[t] = Idle
    /\ \E j \in Runs[t] : job' = [job EXCEPT ![t] = j]
    /\ at' = [at EXCEPT ![t] = 0]
    /\ UNCHANGED queue

(* mutant: a lock that lets readers pass writers who wait *)
AcquireAhead(t) ==
    /\ ~Waiting(t)
    /\ \E g \in Asked(t) :
          g.how \in {"await", "maybe"} /\ (queue[g.lock] = <<>> \/ g.mode = "R") /\ Free(g)
    /\ Advance(t)
    /\ UNCHANGED queue

(* read().await, write().await or lock().await on a lock nobody stands in   *)
(* the way of.                                                              *)
Acquire(t) ==
    /\ ~Waiting(t)
    /\ \E g \in Asked(t) :
          g.how \in {"await", "maybe"} /\ queue[g.lock] = <<>> /\ Free(g)
    /\ Advance(t)
    /\ UNCHANGED queue

(* The same on a lock that is taken or already waited for. *)
Enqueue(t) ==
    /\ ~Waiting(t)
    /\ \E g \in Asked(t) :
          /\ g.how \in {"await", "maybe"}
          /\ queue[g.lock] # <<>> \/ ~Free(g)
          /\ queue' = [queue EXCEPT ![g.lock] = Append(queue[g.lock], t)]
    /\ UNCHANGED <<job, at>>

(* The lock is handed to the task at the head of its queue. *)
Grant(t) ==
    /\ \E g \in Asked(t) :
          /\ queue[g.lock] # <<>> /\ Head(queue[g.lock]) = t /\ Free(g)
          /\ queue' = [queue EXCEPT ![g.lock] = Tail(queue[g.lock])]
    /\ Advance(t)

(* try_read() or try_write() succeeds. *)
TryGet(t) ==
    /\ \E g \in Asked(t) : g.how \in {"try", "need"} /\ Available(g)
    /\ Advance(t)
    /\ UNCHANGED queue

(* It fails: the handler goes on without the guard, *)
TryMiss(t) ==
    /\ \E g \in Asked(t) :
          g.how = "try" /\ ~Available(g) /\ MoveTo(t, ScopeEnd(t, g))
    /\ UNCHANGED queue

(* or gives up. *)
GiveUp(t) ==
    /\ \E g \in Asked(t) : g.how = "need" /\ ~Available(g)
    /\ Return(t)
    /\ UNCHANGED queue

(* The camera has no TCP connection to lock. *)
NoConnection(t) ==
    /\ ~Waiting(t)
    /\ \E g \in Asked(t) : g.how = "maybe" /\ MoveTo(t, ScopeEnd(t, g))
    /\ UNCHANGED queue

(* Guards are dropped, or bytes are written to the socket. *)
Proceed(t) ==
    /\ job[t] # Idle /\ Asked(t) = {}
    /\ Advance(t)
    /\ UNCHANGED queue

(* Writing fails: the error propagates out of the handler and drops all. *)
FailWrite(t) ==
    /\ job[t] # Idle /\ Asked(t) = {}
    /\ Program[job[t]][at[t] + 1].io # "none"
    /\ Return(t)
    /\ UNCHANGED queue

Run(t) ==
    \/ Acquire(t) \/ Enqueue(t) \/ Grant(t)
    \/ TryGet(t) \/ TryMiss(t) \/ GiveUp(t)
    \/ NoConnection(t)
    \/ Proceed(t) \/ FailWrite(t)

Init ==
    /\ job = [t \in Task |-> Idle]
    /\ at = [t \in Task |-> 0]
    /\ queue = [l \in Lock |-> <<>>]

Next == \E t \in Task : Begin(t) \/ Run(t)

Spec == Init /\ [][Next]_vars

(* A task that can go on does: the runtime polls every ready task, and the  *)
(* camera keeps reading from its TCP connection.                            *)
FairSpec == Spec /\ \A t \in Task : WF_vars(Run(t))

-----------------------------------------------------------------------------
TypeOK ==
    /\ job \in [Task -> Job \cup {Idle}]
    /\ at \in [Task -> Nat]
    /\ \A t \in Task :
          job[t] # Idle => at[t] < Len(Program[job[t]])
    /\ queue \in [Lock -> Seq(Task)]

(* t cannot go on before u does something: t is queued for a lock that u    *)
(* holds, or waits for further ahead in the queue.                          *)
WaitsFor(t, u) ==
    \E l \in Lock : \E i \in 1 .. Len(queue[l]) :
        /\ queue[l][i] = t
        /\ \/ \E g \in Asked(t) : \E h \in Held(u) : g.lock = l /\ Conflict(g, h)
           \/ \E k \in 1 .. i - 1 : queue[l][k] = u

(* NoTaskWaitsForItself: no handler asks for a lock it already holds in a   *)
(* way that excludes the request.                                           *)
NoTaskWaitsForItself == \A t \in Task : ~WaitsFor(t, t)

(* NoCircularWait: no set of tasks waits on one another for ever.  Every    *)
(* set of waiting tasks has a member that waits for none of them, so that   *)
(* some handler can always go on.                                           *)
NoCircularWait ==
    \A S \in (SUBSET {t \in Task : Waiting(t)}) \ {{}} :
        \E t \in S : \A u \in S : ~WaitsFor(t, u)

(* EveryHandlerReturns: whatever the interleaving, a handler that has begun *)
(* comes to its end.                                                        *)
EveryHandlerReturns ==
    \A t \in Task : job[t] # Idle ~> job[t] = Idle

(* The discipline of the programs.  Each asks for one guard at a time; one  *)
(* that goes on without a guard is then where it was when it asked for it,  *)
(* or has let go of more; *)
AsksForOne ==
    \A j \in Job : \A i \in 0 .. Len(Program[j]) - 1 :
        \A g, h \in AskedIn(j, i) : g = h

ScopesNest ==
    \A j \in Job : \A i \in 0 .. Len(Program[j]) - 1 : \A g \in AskedIn(j, i) :
        \A k \in i + 1 .. Len(Program[j]) :
            /\ g \notin Program[j][k].held
            /\ \A m \in i + 1 .. k - 1 : g \in Program[j][m].held
            => Program[j][k].held \subseteq HeldIn(j, i)

(* and those that are run wait only for locks of a higher rank than all     *)
(* they hold.                                                               *)
AsksUpward ==
    \A t \in Task : \A j \in Runs[t] : \A i \in 0 .. Len(Program[j]) - 1 :
        \A g \in AskedIn(j, i), h \in HeldIn(j, i) :
            g.how \in {"await", "maybe"} => Rank[h.lock] < Rank[g.lock]

OrderedPrograms == AsksForOne /\ AsksUpward
=============================================================================
