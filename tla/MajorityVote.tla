----------------------------- MODULE MajorityVote -----------------------------
(***************************************************************************)
(* pkg/p2p/client.go: asking several peers until a majority agrees.        *)
(*                                                                         *)
(* requestByMajority starts as many voters (goroutines) as a majority has  *)
(* members.  A voter that is handed a token asks a random peer, again with *)
(* another peer when that fails, puts the answer into the channel of votes *)
(* and waits for the next token or for quit.  The caller collects the      *)
(* votes until enough different peers gave the same answer; then it stops  *)
(* every voter, which it can only do while that one waits, and passes the  *)
(* verdict on the peers.                                                   *)
(*                                                                         *)
(* Abstractions.  Peers are honest (they fail, or give the true answer) or *)
(* Liars (anything).  The channel of votes is a slot per voter: a voter    *)
(* has one vote in it at most, and votes that wait together may be taken   *)
(* in any order.  Sends of token and quit are rendezvous, hence one step   *)
(* of caller and voter.  Any peer may be drawn, throttled or not, and a    *)
(* throttle may expire at any time.  DeThrottle resets a weight that no    *)
(* code reads and leaves throttledUntil alone: it is no step here.         *)
(***************************************************************************)
EXTENDS Integers, FiniteSets

CONSTANTS
    Peer,
    Liar,      \* the peers that may give a wrong answer
    Body,      \* the answers peers may give
    Truth,     \* the answer of the honest ones
    Majority,  \* 3 in the code
    None

ASSUME PeerAssumption ==
    /\ IsFiniteSet(Peer) /\ Liar \subseteq Peer
    /\ Truth \in Body /\ None \notin Body
    /\ Majority \in Nat \ {0}

VARIABLES
    pc,         \* what the caller is at
    next,       \* the voter it starts or stops next
    voter,      \* what each voter is at
    vote,       \* the vote of each voter in the channel
    seenBy,     \* the peers that gave an answer, as far as collected
    throttled,  \* the throttled peers
    result      \* the answer a majority gave

vars == <<pc, next, voter, vote, seenBy, throttled, result>>

Voter  == 1..Majority
Honest == Peer \ Liar
Vote   == [peer : Peer, body : Body]
NoVote == [peer |-> None, body |-> None]

TypeOK ==
    /\ pc \in {"start", "collect", "stop", "returned"}
    /\ next \in Voter
    /\ voter \in [Voter -> {"select", "request", "gone"}]
    /\ vote \in [Voter -> Vote \cup {NoVote}]
    /\ seenBy \in [Body -> SUBSET Peer]
    /\ throttled \subseteq Peer
    /\ result \in Body \cup {None}

NoVoters == [v \in Voter |-> "select"]
NoVotes  == [v \in Voter |-> NoVote]
NoneSeen == [b \in Body |-> {}]

Init ==
    /\ pc = "start" /\ next = 1 /\ result = None
    /\ voter = NoVoters /\ vote = NoVotes /\ seenBy = NoneSeen
    /\ throttled = {}

-----------------------------------------------------------------------------
(* The caller *)

\* Each voter is created and handed its first token.
StartVoter ==
    /\ pc = "start"
    /\ voter' = [voter EXCEPT ![next] = "request"]
    /\ IF next < Majority THEN next' = next + 1 /\ UNCHANGED pc
                          ELSE next' = 1 /\ pc' = "collect"
    /\ UNCHANGED <<vote, seenBy, throttled, result>>

\* MUTANT of Decides: one peer less is enough.
Decides_OneLess(p, b) ==
    p \notin seenBy[b] /\ Cardinality(seenBy[b] \cup {p}) >= Majority - 1

\* The answer b of peer p completes a majority: others gave it before, p did not.
Decides(p, b) ==
    /\ seenBy[b] # {} /\ p \notin seenBy[b]
    /\ Cardinality(seenBy[b] \cup {p}) >= Majority

\* MUTANT of Collect: a new answer makes the map of the answers anew.
Collect_StartsOver(v) ==
    LET p == vote[v].peer
        b == vote[v].body
    IN  /\ pc = "collect" /\ vote[v] # NoVote
        /\ vote' = [vote EXCEPT ![v] = NoVote]
        /\ seenBy' = IF seenBy[b] = {} THEN [NoneSeen EXCEPT ![b] = {p}]
                                      ELSE [seenBy EXCEPT ![b] = @ \cup {p}]
        /\ IF Decides(p, b)
           THEN pc' = "stop" /\ result' = b /\ UNCHANGED voter
           ELSE voter' = [voter EXCEPT ![v] = "request"] /\ UNCHANGED <<pc, result>>
        /\ UNCHANGED <<next, throttled>>

\* A vote is taken from the channel; the voter that cast it gets a new token
\* unless this vote decides.
Collect(v) ==
    LET p == vote[v].peer
        b == vote[v].body
    IN  /\ pc = "collect" /\ vote[v] # NoVote
        /\ vote' = [vote EXCEPT ![v] = NoVote]
        /\ seenBy' = [seenBy EXCEPT ![b] = @ \cup {p}]
        /\ IF Decides(p, b)
           THEN pc' = "stop" /\ result' = b /\ UNCHANGED voter
           ELSE voter' = [voter EXCEPT ![v] = "request"] /\ UNCHANGED <<pc, result>>
        /\ UNCHANGED <<next, throttled>>

Losers == UNION {seenBy[b] : b \in Body \ {result}}

\* MUTANT of Verdict: the peers of the majority are throttled.
Verdict_Winners == throttled \cup seenBy[result]

\* Peers that gave another answer are throttled.
Verdict == throttled \cup Losers

\* v.stop() returns when the voter takes the quit, which it does in its select.
StopVoter ==
    /\ pc = "stop"
    /\ voter[next] = "select"
    /\ voter' = [voter EXCEPT ![next] = "gone"]
    /\ IF next < Majority
       THEN next' = next + 1 /\ UNCHANGED <<pc, throttled>>
       ELSE next' = 1 /\ pc' = "returned" /\ throttled' = Verdict
    /\ UNCHANGED <<vote, seenBy, result>>

\* The next request starts from scratch but for what is known of the peers.
NewRequest ==
    /\ pc = "returned"
    /\ pc' = "start" /\ next' = 1 /\ result' = None
    /\ voter' = NoVoters /\ vote' = NoVotes /\ seenBy' = NoneSeen
    /\ UNCHANGED throttled

-----------------------------------------------------------------------------
(* The voters *)

\* A peer answers: the vote is sent, and the voter is back in its select.
Answer(v, p, b) ==
    /\ voter[v] = "request"
    /\ p \in Honest => b = Truth
    /\ vote' = [vote EXCEPT ![v] = [peer |-> p, body |-> b]]
    /\ voter' = [voter EXCEPT ![v] = "select"]
    /\ UNCHANGED <<pc, next, seenBy, throttled, result>>

\* The request fails: the peer is throttled and another one drawn.  The test of
\* len(v.quit) is always true, for quit has no buffer.
Fail(v, p) ==
    /\ voter[v] = "request"
    /\ throttled' = throttled \cup {p}
    /\ UNCHANGED <<pc, next, voter, vote, seenBy, result>>

\* 20 seconds after it was throttled last a peer is usable again.
Expire(p) ==
    /\ p \in throttled
    /\ throttled' = throttled \ {p}
    /\ UNCHANGED <<pc, next, voter, vote, seenBy, result>>

Caller == StartVoter \/ (\E v \in Voter : Collect(v)) \/ StopVoter \/ NewRequest
Voting(v) == \E p \in Peer : Fail(v, p) \/ \E b \in Body : Answer(v, p, b)

Next ==
    \/ Caller
    \/ \E v \in Voter : Voting(v)
    \/ \E p \in Peer : Expire(p)

\* The caller runs; a vote in the channel is taken, for the channel is a queue; a
\* voter that keeps asking random peers gets the answer of each honest peer.
Fairness ==
    /\ WF_vars(StartVoter) /\ WF_vars(StopVoter) /\ WF_vars(NewRequest)
    /\ \A v \in Voter : WF_vars(Collect(v))
    /\ \A v \in Voter, p \in Honest : SF_vars(Answer(v, p, Truth))

Spec == Init /\ [][Next]_vars
FairSpec == Spec /\ Fairness

-----------------------------------------------------------------------------
(* Properties *)

\* As long as fewer peers lie than a majority has members, a wrong answer is
\* never returned: repeated votes of a peer count once, whoever asked it.
HonestWins ==
    Cardinality(Liar) < Majority /\ result # None => result = Truth

\* While votes are collected every voter is either asking or has a vote in the
\* channel, and never both: none waits for a token nobody will send, and the
\* channel never holds more votes than it has room for.
TokensConserved ==
    pc = "collect" => \A v \in Voter : (voter[v] = "request") <=> (vote[v] = NoVote)

\* When the request returns no voter is left behind: none can later block on the
\* channel or throttle a peer on behalf of a finished request.
NoVoterLeft == pc = "returned" => \A v \in Voter : voter[v] = "gone"

\* The verdict on the peers throttles liars only: an honest peer may be throttled
\* because a request to it failed, but not for its answer.
OnlyLiarsPunished ==
    [][pc = "stop" /\ pc' = "returned" /\ Cardinality(Liar) < Majority
         => throttled' \ throttled \subseteq Liar]_vars

\* A request comes to its end, though repeated and wrong votes come in between and
\* voters must be back in their select to be stopped.
Returns == (pc = "start") ~> (pc = "returned")
=============================================================================
