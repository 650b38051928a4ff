------------------------------ MODULE ThreadPool ------------------------------
(***************************************************************************)
(* The thread pool: clients enqueue tasks, workers sleep on the condition   *)
(* variable, take tasks from the queue and run them outside the lock, the   *)
(* destructor stops and joins the workers.  Whatever happens under          *)
(* queue_mutex_ is one step: a worker evaluates its predicate and goes to   *)
(* sleep in one, so no notification falls in between.                      *)
(***************************************************************************)
EXTENDS Sequences, Integers, SequencesExt

CONSTANTS Worker, Client, Task

ASSUME PoolConstants == Worker # {}

VARIABLES
  tasks,      \* tasks_, the queue
  stop,       \* stop_
  worker,     \* each worker: "awake", "asleep", "running" or "returned"
  running,    \* the task each running worker has taken
  client,     \* each client: "idle", or "enqueued" before its notify_one
  destructor, \* "none", "stopped", "notified" or "joined"
  accepted,   \* history: tasks in the order Enqueue took them
  taken,      \* history: tasks in the order they were taken
  finished    \* history: tasks run to their end

poolVars == <<tasks, stop, worker, running, client, destructor, accepted, taken, finished>>

PoolInit ==
  /\ tasks = <<>> /\ stop = FALSE
  /\ worker = [w \in Worker |-> "awake"]
  /\ running = [w \in Worker |-> {}]
  /\ client = [c \in Client |-> "idle"]
  /\ destructor = "none"
  /\ accepted = <<>> /\ taken = <<>> /\ finished = {}
----------------------------------------------------------------------------
(* Enqueue.                                                                *)

Enqueue(c, task) ==
  /\ client[c] = "idle"
  /\ task \notin ToSet(accepted)
  /\ ~ stop
  /\ tasks' = Append(tasks, task)
  /\ accepted' = Append(accepted, task)
  /\ client' = [client EXCEPT ![c] = "enqueued"]
  /\ UNCHANGED <<stop, worker, running, destructor, taken, finished>>

\* Enqueue without its notification.
NotifyNobody(c) ==
  /\ client[c] = "enqueued"
  /\ client' = [client EXCEPT ![c] = "idle"]
  /\ UNCHANGED <<tasks, stop, worker, running, destructor, accepted, taken, finished>>

\* notify_one, after the lock is released: one sleeper wakes up, if there is one.
NotifyOne(c) ==
  /\ client[c] = "enqueued"
  /\ client' = [client EXCEPT ![c] = "idle"]
  /\ \/ \E w \in Worker : worker[w] = "asleep" /\ worker' = [worker EXCEPT ![w] = "awake"]
     \/ (\A w \in Worker : worker[w] # "asleep") /\ UNCHANGED worker
  /\ UNCHANGED <<tasks, stop, running, destructor, accepted, taken, finished>>
----------------------------------------------------------------------------
(* The body of a worker.                                                   *)

Sleep(w) ==
  /\ worker[w] = "awake" /\ ~ stop /\ tasks = <<>>
  /\ worker' = [worker EXCEPT ![w] = "asleep"]
  /\ UNCHANGED <<tasks, stop, running, client, destructor, accepted, taken, finished>>

WakeSpuriously(w) ==
  /\ worker[w] = "asleep"
  /\ worker' = [worker EXCEPT ![w] = "awake"]
  /\ UNCHANGED <<tasks, stop, running, client, destructor, accepted, taken, finished>>

\* A stopped worker does not look at the queue any more.
ReturnWithTasksLeft(w) ==
  /\ worker[w] = "awake" /\ stop
  /\ worker' = [worker EXCEPT ![w] = "returned"]
  /\ UNCHANGED <<tasks, stop, running, client, destructor, accepted, taken, finished>>

Return(w) ==
  /\ worker[w] = "awake" /\ stop /\ tasks = <<>>
  /\ worker' = [worker EXCEPT ![w] = "returned"]
  /\ UNCHANGED <<tasks, stop, running, client, destructor, accepted, taken, finished>>

\* front() under the lock and pop() only after the task has run.
TakeWithoutPop(w) ==
  /\ worker[w] = "awake" /\ tasks # <<>>
  /\ running' = [running EXCEPT ![w] = {Head(tasks)}]
  /\ taken' = Append(taken, Head(tasks))
  /\ worker' = [worker EXCEPT ![w] = "running"]
  /\ UNCHANGED <<tasks, stop, client, destructor, accepted, finished>>

Take(w) ==
  /\ worker[w] = "awake" /\ tasks # <<>>
  /\ running' = [running EXCEPT ![w] = {Head(tasks)}]
  /\ taken' = Append(taken, Head(tasks))
  /\ tasks' = Tail(tasks)
  /\ worker' = [worker EXCEPT ![w] = "running"]
  /\ UNCHANGED <<stop, client, destructor, accepted, finished>>

Finish(w) ==
  /\ worker[w] = "running"
  /\ finished' = finished \cup running[w]
  /\ running' = [running EXCEPT ![w] = {}]
  /\ worker' = [worker EXCEPT ![w] = "awake"]
  /\ UNCHANGED <<tasks, stop, client, destructor, accepted, taken>>
----------------------------------------------------------------------------
(* The destructor.                                                         *)

Stop ==
  /\ destructor = "none"
  /\ stop' = TRUE /\ destructor' = "stopped"
  /\ UNCHANGED <<tasks, worker, running, client, accepted, taken, finished>>

\* notify_one in the place of notify_all.
NotifyOnlyOne ==
  /\ destructor = "stopped"
  /\ destructor' = "notified"
  /\ \/ \E w \in Worker : worker[w] = "asleep" /\ worker' = [worker EXCEPT ![w] = "awake"]
     \/ (\A w \in Worker : worker[w] # "asleep") /\ UNCHANGED worker
  /\ UNCHANGED <<tasks, stop, running, client, accepted, taken, finished>>

NotifyAll ==
  /\ destructor = "stopped"
  /\ destructor' = "notified"
  /\ worker' = [w \in Worker |-> IF worker[w] = "asleep" THEN "awake" ELSE worker[w]]
  /\ UNCHANGED <<tasks, stop, running, client, accepted, taken, finished>>

Join ==
  /\ destructor = "notified"
  /\ \A w \in Worker : worker[w] = "returned"
  /\ destructor' = "joined"
  /\ UNCHANGED <<tasks, stop, worker, running, client, accepted, taken, finished>>
----------------------------------------------------------------------------
WorkerStep(w) == Sleep(w) \/ Return(w) \/ Take(w) \/ Finish(w)

PoolNext ==
  \/ \E c \in Client : NotifyOne(c) \/ \E t \in Task : Enqueue(c, t)
  \/ \E w \in Worker : WorkerStep(w) \/ WakeSpuriously(w)
  \/ Stop \/ NotifyAll \/ Join

\* Every thread that can run does, and tasks end.  Nobody need enqueue or stop.
PoolSpec ==
  /\ PoolInit /\ [][PoolNext]_poolVars
  /\ \A w \in Worker : WF_poolVars(WorkerStep(w))
  /\ \A c \in Client : WF_poolVars(NotifyOne(c))
  /\ WF_poolVars(NotifyAll \/ Join)
----------------------------------------------------------------------------
(* Properties.                                                             *)

\* Tasks are taken once each, in the order in which they were accepted.
TakenInOrder == accepted = taken \o tasks

\* Once the destructor has joined the workers, no accepted task is left undone:
\* its future will be ready.
NothingLeftBehind == destructor = "joined" => finished = ToSet(accepted)

\* Every accepted task is run, whether or not the pool is being destroyed.
AcceptedTasksRun ==
  \A t \in Task : (t \in ToSet(accepted)) ~> (t \in finished)

\* The destructor returns.
PoolDestructorReturns == stop ~> (destructor = "joined")
=============================================================================
