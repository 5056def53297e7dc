---------------------------- MODULE RaftNodeInv ----------------------------
(***************************************************************************)
(* The strengthenings that make the invariants of RaftNode inductive.      *)
(***************************************************************************)
EXTENDS RaftNode

(***************************************************************************)
(* Only a leader's heartbeat pass may run, and at is a position in m_peers *)
(* or just past it.                                                        *)
(***************************************************************************)
PassShape ==
    \A n \in Node :
       /\ at[n] >= 1
       /\ holder[n] = "heartbeat" => m_state[n] = "Leader"

(* heartbeatLoop never puts an entry into args.entries. *)
NoEntries(r) == r.type = "AppendEntries" => r.entries = << >>

NoEntriesSent ==
    /\ \A c \in Conn : \A k \in 1..Len(reqs[c]) : NoEntries(reqs[c][k])
    /\ \A o \in orphans : NoEntries(o[2])

(***************************************************************************)
(* What the vector accesses of the code rest on: indices are well typed    *)
(* only because they stay inside the log, and they do because nothing is   *)
(* ever removed from a log.                                                *)
(***************************************************************************)
IndexInv == TypeOK /\ PassShape /\ NoEntriesSent /\ IndexSafety

-----------------------------------------------------------------------------
(***************************************************************************)
(* While no process restarts: a vote was given in a term the voter has     *)
(* reached, and the vote of its present term is the one m_votedFor names.  *)
(***************************************************************************)
VoteRemembered ==
    \A g \in grants :
       /\ g[2] <= m_currentTerm[g[1]]
       /\ g[2] = m_currentTerm[g[1]] => m_votedFor[g[1]] = g[3]

-----------------------------------------------------------------------------
(***************************************************************************)
(* Why every election is won with real votes: a request for votes in a     *)
(* connection was sent by its owner in a term it has reached, and a vote   *)
(* in it, or counted, was given to its owner.  A restart starts the terms  *)
(* anew, and the connections with them.                                    *)
(***************************************************************************)
Unread(queue) == {queue[k] : k \in 1..Len(queue)}

VotersOf(n) == VotersUpTo(n, m_currentTerm[n])

AsksForOwner(c, r) ==
    r.type = "RequestVote" =>
      r.candidateId = c[1] /\ r.term <= m_currentTerm[c[1]]

BringsVote(c, r) ==
    r.type = "RequestVoteReply" /\ r.voteGranted => c[2] \in VotersOf(c[1])

ConnBallots ==
    \A c \in Conn : /\ \A r \in Unread(reqs[c]) : AsksForOwner(c, r)
                   /\ \A r \in Unread(reps[c]) : BringsVote(c, r)

CountsVotes(n) ==
    holder[n] = "election" =>
      /\ votes[n] \subseteq VotersOf(n)
      /\ <<n, m_currentTerm[n], n>> \in grants

(* A winner voted for itself in the term it won. *)
WinnersVote == \A e \in elected : <<e[2], e[1], e[2]>> \in grants

BallotInv ==
    /\ ConnBallots
    /\ \A n \in Node : CountsVotes(n)
    /\ WinnersVote
    /\ WonWithVotes

=============================================================================
