---------------------------- MODULE CompactionLoop ----------------------------
(***************************************************************************)
(* When the compaction thread of the storage engine wakes up: the condition *)
(* variable of StorageEngine::CompactionLoop, the flushes that notify it   *)
(* and the destructor that stops and joins it.                             *)
(*                                                                         *)
(* Neither notifier holds compaction_cv_mutex_, so a notification can fall *)
(* between the evaluation of the predicate and the moment the thread       *)
(* blocks, and is then lost; wait_for's timeout of five seconds is what    *)
(* the thread has to fall back on.  Of the catalogue only the number of    *)
(* level 0 files is kept.                                                  *)
(***************************************************************************)
EXTENDS Integers

CONSTANTS
  Flusher,                   \* threads that flush memtables
  kLevel0CompactionTrigger,
  MaxFlushes                 \* bound of the runs: files added

ASSUME LoopConstants == {kLevel0CompactionTrigger, MaxFlushes} \subseteq Nat

VARIABLES
  loop,        \* the thread: "top", "pred", "block", "wait", "check", "run", "exited"
  level0,      \* level 0 files in the catalogue
  taken,       \* those the running compaction has selected
  shutdown,    \* shutdown_
  flusher,     \* each flusher: "idle", or "added" before its notify_one
  destructor,  \* "none", "set", "notified", "joined"
  flushes      \* history: files added

loopVars == <<loop, level0, taken, shutdown, flusher, destructor, flushes>>

NeedsCompaction == level0 >= kLevel0CompactionTrigger

Init ==
  /\ loop = "top" /\ level0 = 0 /\ taken = 0
  /\ shutdown = FALSE
  /\ flusher = [f \in Flusher |-> "idle"]
  /\ destructor = "none"
  /\ flushes = 0

LoopGoes(from, to) == loop = from /\ loop' = to
----------------------------------------------------------------------------
(* The thread.                                                             *)

LoopTop ==
  /\ LoopGoes("top", IF shutdown THEN "exited" ELSE "pred")
  /\ UNCHANGED <<level0, taken, shutdown, flusher, destructor, flushes>>

\* wait_for evaluates the predicate, at first and after every wake-up.
EvaluatePredicate ==
  /\ LoopGoes("pred", IF shutdown \/ NeedsCompaction THEN "check" ELSE "block")
  /\ UNCHANGED <<level0, taken, shutdown, flusher, destructor, flushes>>

\* Only now does a notification reach the thread.
Block ==
  /\ LoopGoes("block", "wait")
  /\ UNCHANGED <<level0, taken, shutdown, flusher, destructor, flushes>>

SpuriousWakeup ==
  /\ LoopGoes("wait", "pred")
  /\ UNCHANGED <<level0, taken, shutdown, flusher, destructor, flushes>>

\* A wait without a time limit.
NoTimeout == FALSE /\ UNCHANGED loopVars

\* Five seconds are over: wait_for returns whatever the predicate says.
Timeout ==
  /\ LoopGoes("wait", "check")
  /\ UNCHANGED <<level0, taken, shutdown, flusher, destructor, flushes>>

\* The second look at shutdown_ and at the triggers.
Check ==
  /\ LoopGoes("check", IF shutdown THEN "exited" ELSE IF NeedsCompaction THEN "run" ELSE "top")
  /\ taken' = IF ~ shutdown /\ NeedsCompaction THEN level0 ELSE 0
  /\ UNCHANGED <<level0, shutdown, flusher, destructor, flushes>>

\* RunCompaction succeeds; the checkpoint is saved either way.
RunSucceeds ==
  /\ LoopGoes("run", "top")
  /\ level0' = level0 - taken
  /\ taken' = 0
  /\ UNCHANGED <<shutdown, flusher, destructor, flushes>>

\* The thread ends with the compaction that fails.
RunFailsAndEnds ==
  /\ LoopGoes("run", "exited")
  /\ taken' = 0
  /\ UNCHANGED <<level0, shutdown, flusher, destructor, flushes>>

\* RunCompaction fails, as often as it likes; the error is only printed.
RunFails ==
  /\ LoopGoes("run", "top")
  /\ taken' = 0
  /\ UNCHANGED <<level0, shutdown, flusher, destructor, flushes>>
----------------------------------------------------------------------------
(* Its notifiers.                                                          *)

Notified == IF loop = "wait" THEN "pred" ELSE loop

FlusherAdds(f) ==
  /\ destructor = "none"
  /\ flusher[f] = "idle"
  /\ flushes < MaxFlushes
  /\ level0' = level0 + 1
  /\ flushes' = flushes + 1
  /\ flusher' = [flusher EXCEPT ![f] = "added"]
  /\ UNCHANGED <<loop, taken, shutdown, destructor>>

FlusherNotifies(f) ==
  /\ flusher[f] = "added"
  /\ flusher' = [flusher EXCEPT ![f] = "idle"]
  /\ loop' = Notified
  /\ UNCHANGED <<level0, taken, shutdown, destructor, flushes>>

\* The checkpoint that follows AddFile cannot be saved: FlushMemTable returns
\* without its notification.
FlusherGivesUp(f) ==
  /\ flusher[f] = "added"
  /\ flusher' = [flusher EXCEPT ![f] = "idle"]
  /\ UNCHANGED <<loop, level0, taken, shutdown, destructor, flushes>>

\* The destructor: no call is under way when it starts.
DestructorSets ==
  /\ destructor = "none"
  /\ \A f \in Flusher : flusher[f] = "idle"
  /\ destructor' = "set"
  /\ shutdown' = TRUE
  /\ UNCHANGED <<loop, level0, taken, flusher, flushes>>

DestructorNotifies ==
  /\ destructor = "set"
  /\ destructor' = "notified"
  /\ loop' = Notified
  /\ UNCHANGED <<level0, taken, shutdown, flusher, flushes>>

DestructorJoins ==
  /\ destructor = "notified"
  /\ loop = "exited"
  /\ destructor' = "joined"
  /\ UNCHANGED <<loop, level0, taken, shutdown, flusher, flushes>>
----------------------------------------------------------------------------
LoopStep ==
  LoopTop \/ EvaluatePredicate \/ Block \/ Check \/ RunSucceeds \/ RunFails

DestructorStep == DestructorNotifies \/ DestructorJoins

Next ==
  \/ LoopStep \/ SpuriousWakeup \/ Timeout
  \/ \E f \in Flusher : FlusherAdds(f) \/ FlusherNotifies(f) \/ FlusherGivesUp(f)
  \/ DestructorSets \/ DestructorStep

\* The scheduler runs every thread that can run and a timed wait ends.  That
\* anyone flushes or destroys the engine is not assumed, nor that a
\* notification or a spurious wake-up comes in time.
Fairness ==
  /\ WF_loopVars(LoopStep)
  /\ WF_loopVars(Timeout)
  /\ \A f \in Flusher : WF_loopVars(FlusherNotifies(f) \/ FlusherGivesUp(f))
  /\ WF_loopVars(DestructorStep)

Spec == Init /\ [][Next]_loopVars /\ Fairness
----------------------------------------------------------------------------
(* Properties.                                                             *)

\* The destructor ends, even when its notification is lost and every compaction
\* fails from some time on.
DestructorReturns == (destructor = "set") ~> (destructor = "joined")

\* Enough level 0 files get compacted, unless the engine is shut down, even
\* when the notification of their flush is lost or never sent, provided that
\* compactions do not fail for ever.
CompactionHappens ==
  <>[][~ RunFails]_loopVars => (NeedsCompaction ~> (~ NeedsCompaction \/ shutdown))

\* No failure makes the thread give up: as long as level 0 stays full it tries
\* again and again, even if every attempt so far has failed.
FailuresAreRetried ==
  <>[](NeedsCompaction /\ ~ shutdown) => []<>(loop = "run")
=============================================================================
