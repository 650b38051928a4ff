------------------------------ MODULE RaftState ------------------------------
(***************************************************************************)
(* The role, term and vote of one Raft node (RaftState).  Every method     *)
(* holds the mutex for its whole length, so every method is one action;    *)
(* the calls come from the rest of the node, in any order.  LoadState is   *)
(* for startup and is called, if at all, before anything but               *)
(* SetStateChangeCallback.  What a callback does is up to the node; the    *)
(* model keeps what it is told.                                            *)
(***************************************************************************)
EXTENDS Integers

CONSTANTS
  Peer,      \* ids of the other nodes
  self_id,   \* id of this node
  NoId,      \* the empty id
  MaxTerm    \* bound of the runs

ASSUME RaftConstants == self_id \notin Peer /\ NoId \notin Peer \cup {self_id} /\ MaxTerm \in Nat

VARIABLES
  current_role, current_term, voted_for, leader_id,
  on_state_change,  \* whether on_state_change_ is set
  started,    \* history: the state is loaded or a transition was asked for
  notified,   \* history: the roles the last method passed to the callback, or <<>>
  heard,      \* history: the last role that a callback was told
  unheard     \* history: the roles taken on while no callback was set

listenerVars == <<notified, heard, unheard>>
raftVars ==
  <<current_role, current_term, voted_for, leader_id, on_state_change, started, listenerVars>>

Id == Peer \cup {self_id}

RaftInit ==
  /\ current_role = "follower" /\ current_term = 0
  /\ voted_for = NoId /\ leader_id = NoId
  /\ on_state_change = FALSE /\ started = FALSE
  /\ notified = <<>> /\ heard = "follower" /\ unheard = {}

\* An empty function takes the callback away.
SetStateChangeCallback(is_set) ==
  /\ on_state_change' = is_set
  /\ notified' = <<>>
  /\ UNCHANGED <<current_role, current_term, voted_for, leader_id, started, heard, unheard>>

\* The callback, if there is one, is told of the transition.
CallBack(old_role, new_role) ==
  IF on_state_change
  THEN notified' = <<old_role, new_role>> /\ heard' = new_role /\ UNCHANGED unheard
  ELSE notified' = <<>> /\ UNCHANGED heard /\ unheard' = unheard \cup ({new_role} \ {old_role})

NoCallBack == notified' = <<>> /\ UNCHANGED <<heard, unheard>>

LoadState(term, vote) ==
  /\ ~ started
  /\ current_term' = term /\ voted_for' = vote
  /\ started' = TRUE
  /\ UNCHANGED <<current_role, leader_id, on_state_change, listenerVars>>

\* A candidate that keeps the vote it had.
CandidateKeepsVote ==
  /\ current_role # "leader" /\ current_term < MaxTerm
  /\ current_role' = "candidate"
  /\ current_term' = current_term + 1
  /\ leader_id' = NoId
  /\ CallBack(current_role, "candidate")
  /\ started' = TRUE
  /\ UNCHANGED <<voted_for, on_state_change>>

TransitionToCandidate ==
  /\ current_role # "leader" /\ current_term < MaxTerm
  /\ current_role' = "candidate"
  /\ current_term' = current_term + 1
  /\ voted_for' = self_id
  /\ leader_id' = NoId
  /\ CallBack(current_role, "candidate")
  /\ started' = TRUE
  /\ UNCHANGED on_state_change

TransitionToLeader ==
  /\ current_role = "candidate"
  /\ current_role' = "leader"
  /\ leader_id' = self_id
  /\ CallBack(current_role, "leader")
  /\ started' = TRUE
  /\ UNCHANGED <<current_term, voted_for, on_state_change>>

\* The vote is cleared whenever the node steps down.
StepDownClearsVote(new_term, known_leader_id) ==
  /\ new_term >= current_term
  /\ voted_for' = NoId
  /\ current_role' = "follower"
  /\ current_term' = new_term
  /\ leader_id' = known_leader_id
  /\ IF current_role # "follower" THEN CallBack(current_role, "follower") ELSE NoCallBack
  /\ started' = TRUE
  /\ UNCHANGED on_state_change

\* Only a leader that steps down is told.
StepDownOfCandidateUnheard(new_term, known_leader_id) ==
  /\ new_term >= current_term
  /\ voted_for' = IF new_term > current_term THEN NoId ELSE voted_for
  /\ current_role' = "follower"
  /\ current_term' = new_term
  /\ leader_id' = known_leader_id
  /\ IF current_role = "leader" THEN CallBack(current_role, "follower") ELSE NoCallBack
  /\ started' = TRUE
  /\ UNCHANGED on_state_change

StepDown(new_term, known_leader_id) ==
  /\ new_term >= current_term
  /\ voted_for' = IF new_term > current_term THEN NoId ELSE voted_for
  /\ current_role' = "follower"
  /\ current_term' = new_term
  /\ leader_id' = known_leader_id
  /\ IF current_role # "follower" THEN CallBack(current_role, "follower") ELSE NoCallBack
  /\ started' = TRUE
  /\ UNCHANGED on_state_change

GrantVote(candidate_id) ==
  /\ voted_for \in {NoId, candidate_id}
  /\ voted_for' = candidate_id
  /\ NoCallBack
  /\ started' = TRUE
  /\ UNCHANGED <<current_role, current_term, leader_id, on_state_change>>

\* An illegal transition, a lower term or a second vote: an error and no change.
Refused(new_term, candidate_id) ==
  /\ \/ current_role = "leader"
     \/ current_role # "candidate"
     \/ new_term < current_term
     \/ voted_for \notin {NoId, candidate_id}
  /\ NoCallBack
  /\ started' = TRUE
  /\ UNCHANGED <<current_role, current_term, voted_for, leader_id, on_state_change>>

RaftNext ==
  \/ \E is_set \in BOOLEAN : SetStateChangeCallback(is_set)
  \/ TransitionToCandidate
  \/ TransitionToLeader
  \/ \E id \in Id : GrantVote(id)
  \/ \E term \in 0 .. MaxTerm :
       \/ \E vote \in Id \cup {NoId} : LoadState(term, vote)
       \/ \E leader \in Id \cup {NoId} : StepDown(term, leader)
       \/ \E id \in Id : Refused(term, id)

RaftSpec == RaftInit /\ [][RaftNext]_raftVars
----------------------------------------------------------------------------
(* Properties.                                                             *)

Role == {"follower", "candidate", "leader"}

\* Types, and a leader knows itself as the leader.
RaftTypeOK ==
  /\ current_role \in Role
  /\ current_term \in Nat
  /\ voted_for \in Id \cup {NoId}
  /\ leader_id \in Id \cup {NoId}
  /\ current_role = "leader" => leader_id = self_id

\* Whoever stands for election or leads has spent its vote on itself, so it
\* cannot also help another candidate of that term to win.
CandidateVotedForItself == current_role # "follower" => voted_for = self_id

\* A vote lasts as long as its term, and terms never go back, whatever the
\* order of the calls once the state is loaded.
VoteLastsItsTerm ==
  [][started =>
       /\ current_term' >= current_term
       /\ current_term' = current_term /\ voted_for # NoId => voted_for' = voted_for]_raftVars

\* A listener that was there for every change of role knows the role: no path
\* through the methods changes it without the callback being told.
ListenerKnowsRole == unheard = {} => heard = current_role

(* What the header says and the code does not do.                          *)

\* raft_state.h: "triggers callbacks on role changes".
NotifiedOnChangeOnly == notified # <<>> => notified[1] # notified[2]
=============================================================================
