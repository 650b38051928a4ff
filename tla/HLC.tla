--------------------------------- MODULE HLC ---------------------------------
(***************************************************************************)
(* The hybrid logical clock: one HLC per node, each over its own physical  *)
(* clock, and the timestamps the nodes send one another.  A timestamp is   *)
(* one machine word, the physical time above the logical counter; the      *)
(* shift drops the bits of the physical time that do not fit and the       *)
(* disjunction with the counter does not carry like a sum.                 *)
(***************************************************************************)
EXTENDS Integers, FiniteSetsExt

CONSTANTS
  Node,
  PhysicalLimit,  \* 2^48 in the code
  LogicalLimit,   \* 2^16 in the code
  MinTime,        \* bounds of the runs: the readings of the physical clocks,
  MaxTime,        \* about 6.4 * 2^48 for PhysicalClock today
  MaxEvents       \* bound of the runs: timestamps taken

ASSUME ClockConstants ==
  /\ {PhysicalLimit, LogicalLimit} \subseteq Nat \ {0}
  /\ PhysicalLimit % 2 = 0
  /\ {MinTime, MaxTime, MaxEvents} \subseteq Nat

VARIABLES
  micros,        \* what clock_->NowMicros() answers on each node
  current_time,  \* current_time_ of each node
  sent,          \* timestamps that travel in messages
  events,        \* history: timestamps taken
  last_reading   \* history: the reading at the last timestamp of each node

hlcVars == <<micros, current_time, sent, events, last_reading>>

GetPhysicalTime(hlc_time) == hlc_time \div LogicalLimit
GetLogicalTime(hlc_time) == hlc_time % LogicalLimit

\* (physical << 16) | logical, where logical may just have left its field: its
\* only bit is then the lowest bit of the physical time.
Pack(physical, logical) ==
  LET high == (physical * LogicalLimit) % (PhysicalLimit * LogicalLimit)
  IN  IF logical < LogicalLimit THEN high + logical
      ELSE IF physical % 2 = 1 THEN high
      ELSE high + LogicalLimit

NowValue(n) ==
  IF micros[n] > GetPhysicalTime(current_time[n])
  THEN Pack(micros[n], 0)
  ELSE Pack(GetPhysicalTime(current_time[n]), GetLogicalTime(current_time[n]) + 1)

\* The remote counter alone decides when the physical times are equal.
UpdateIgnoringOwnCounter(n, remote_time) ==
  LET remote == GetPhysicalTime(remote_time)
      largest == Max({micros[n], GetPhysicalTime(current_time[n]), remote})
  IN  IF largest = remote THEN Pack(largest, GetLogicalTime(remote_time) + 1)
      ELSE Pack(largest, 0)

UpdateValue(n, remote_time) ==
  LET times == {current_time[n], remote_time}
      max_physical == Max({micros[n]} \cup {GetPhysicalTime(t) : t \in times})
      tied == {t \in times : GetPhysicalTime(t) = max_physical}
  IN  IF tied = {} THEN Pack(max_physical, 0)
      ELSE Pack(max_physical, Max({GetLogicalTime(t) : t \in tied}) + 1)
----------------------------------------------------------------------------
HLCInit ==
  /\ micros \in [Node -> MinTime .. MaxTime]
  /\ current_time = [n \in Node |-> 0]
  /\ sent = {}
  /\ events = 0
  /\ last_reading = micros

\* system_clock may be set, forwards or back.
ClockMoves(n) ==
  /\ \E t \in MinTime .. MaxTime : micros' = [micros EXCEPT ![n] = t]
  /\ UNCHANGED <<current_time, sent, events, last_reading>>

\* Now(), for a local event or for a message about to be sent.
Now(n) ==
  /\ events < MaxEvents
  /\ current_time' = [current_time EXCEPT ![n] = NowValue(n)]
  /\ sent' = sent \cup {NowValue(n)}
  /\ events' = events + 1
  /\ last_reading' = [last_reading EXCEPT ![n] = micros[n]]
  /\ UNCHANGED micros

\* Update(remote_time), for a message received, possibly late or twice.
Update(n, remote_time) ==
  /\ events < MaxEvents
  /\ current_time' = [current_time EXCEPT ![n] = UpdateValue(n, remote_time)]
  /\ events' = events + 1
  /\ last_reading' = [last_reading EXCEPT ![n] = micros[n]]
  /\ UNCHANGED <<micros, sent>>

HLCNext ==
  \E n \in Node : ClockMoves(n) \/ Now(n) \/ \E t \in sent : Update(n, t)

HLCSpec == HLCInit /\ [][HLCNext]_hlcVars
----------------------------------------------------------------------------
(* Properties.                                                             *)

\* How often the physical time of the word has started over from zero.
Era(t) == t \div PhysicalLimit

\* Since its last timestamp n's clock was not set back, nor did the word start
\* over; in the first era, where the reading fits, it may be set back.
Steady(n) ==
  /\ Era(micros[n]) = Era(last_reading[n])
  /\ Era(micros[n]) > 0 => micros[n] >= last_reading[n]

RoomFor(times) == \A t \in times : GetLogicalTime(t) < LogicalLimit - 1

\* The timestamp that n takes is not smaller than the one before it, and larger
\* if the clock has moved on; in the first era it is larger than that and than
\* those it received.
FollowsClock(n, received) ==
  /\ current_time'[n] >= current_time[n]
  /\ micros[n] > last_reading[n] => current_time'[n] > current_time[n]
  /\ Era(micros[n]) = 0
       => \A t \in {current_time[n]} \cup received : current_time'[n] > t

\* A node's timestamps follow its clock, also with readings over 48 bits, as those
\* of PhysicalClock are since 1978; with readings that fit, as those of the tests'
\* clock, they are ordered by causality, however the clocks are set.
OrderedWithinEra ==
  [][\A n \in Node :
       /\ Now(n) /\ Steady(n) /\ RoomFor({current_time[n]}) => FollowsClock(n, {})
       /\ \A t \in sent :
            Update(n, t) /\ Steady(n) /\ RoomFor({current_time[n], t})
              => FollowsClock(n, {t})]_hlcVars

(* What the document says and the code does not do.                        *)

\* clock/README.md: "This guarantees that if Event A caused Event B,
\* Timestamp(A) < Timestamp(B), regardless of hardware clock drift."
CausallyOrdered ==
  [][\A n \in Node :
       /\ Now(n) => current_time'[n] > current_time[n]
       /\ \A t \in sent : Update(n, t) =>
            current_time'[n] > current_time[n] /\ current_time'[n] > t]_hlcVars
=============================================================================
