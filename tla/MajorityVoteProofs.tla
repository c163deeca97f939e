-------------------------- MODULE MajorityVoteProofs --------------------------
(***************************************************************************)
(* Safety of MajorityVote for every set of peers and liars and every size  *)
(* of the majority.  The inductive invariant has three parts beyond the    *)
(* types: how far the caller has come in starting and stopping the voters, *)
(* what it knows of the result, and that wrong answers come from liars.    *)
(***************************************************************************)
EXTENDS MajorityVote, FiniteSetTheorems, TLAPS

\* A voter that was started is asking or has voted; the others have done neither.
Balanced(v) == voter[v] = "request" <=> vote[v] = NoVote
Fresh(v)    == voter[v] = "select" /\ vote[v] = NoVote

\* Voters are started, and stopped, one after the other.
VoterInv ==
    /\ pc = "start" => \A v \in Voter : IF v < next THEN Balanced(v) ELSE Fresh(v)
    /\ pc = "collect" => next = 1 /\ \A v \in Voter : Balanced(v)
    /\ pc = "stop" => \A v \in Voter : v < next => voter[v] = "gone"
    /\ pc = "returned" => \A v \in Voter : voter[v] = "gone"

ResultInv ==
    /\ pc \in {"start", "collect"} => result = None
    /\ pc \in {"stop", "returned"} => result \in Body

\* A wrong answer, in the channel or collected, was given by a liar.
LiarInv ==
    /\ \A b \in Body \ {Truth} : seenBy[b] \subseteq Liar
    /\ \A v \in Voter : vote[v] \in Vote /\ vote[v].body # Truth => vote[v].peer \in Liar
    /\ HonestWins

VInv == TypeOK /\ VoterInv /\ ResultInv /\ LiarInv

-----------------------------------------------------------------------------

\* A majority that gave the same wrong answer is a majority of liars.
LEMMA WrongNeedsLiars ==
    ASSUME NEW S, S \subseteq Liar, Cardinality(S) >= Majority
    PROVE  Cardinality(Liar) >= Majority
<1>1. IsFiniteSet(Liar)
  BY PeerAssumption, FS_Subset
<1>2. Cardinality(S) <= Cardinality(Liar)
  BY <1>1, FS_Subset
<1>3. Cardinality(Liar) \in Nat /\ Cardinality(S) \in Nat
  BY <1>1, FS_Subset, FS_CardinalityType
<1> QED BY <1>2, <1>3, PeerAssumption

LEMMA VoteShape ==
    ASSUME NEW p \in Peer, NEW b \in Body
    PROVE  [peer |-> p, body |-> b] \in Vote /\ [peer |-> p, body |-> b] # NoVote
BY PeerAssumption DEF Vote, NoVote

LEMMA VoteOf ==
    ASSUME TypeOK, NEW v \in Voter, vote[v] # NoVote
    PROVE  vote[v] \in Vote /\ vote[v].peer \in Peer /\ vote[v].body \in Body
BY DEF TypeOK, Vote

LEMMA VInit == Init => VInv
<1> SUFFICES ASSUME Init PROVE VInv
  OBVIOUS
<1> USE PeerAssumption DEF Init, NoVoters, NoVotes, NoneSeen, Voter
<1>1. TypeOK
  BY DEF TypeOK
<1>2. VoterInv
  BY DEF VoterInv, Fresh
<1>3. ResultInv
  BY DEF ResultInv
<1>4. NoVote \notin Vote
  BY DEF NoVote, Vote
<1>5. LiarInv
  BY <1>4 DEF LiarInv, HonestWins
<1> QED BY <1>1, <1>2, <1>3, <1>5 DEF VInv

LEMMA StartVoterInv == VInv /\ StartVoter => VInv'
<1> SUFFICES ASSUME VInv, StartVoter PROVE VInv'
  OBVIOUS
<1> USE PeerAssumption DEF VInv, StartVoter, Voter
<1>1. TypeOK'
  BY DEF TypeOK
<1>2. VoterInv'
  BY DEF TypeOK, VoterInv, Balanced, Fresh
<1>3. ResultInv'
  BY DEF ResultInv
<1>4. LiarInv'
  BY DEF LiarInv, HonestWins
<1> QED BY <1>1, <1>2, <1>3, <1>4

LEMMA CollectInv == ASSUME NEW v \in Voter PROVE VInv /\ Collect(v) => VInv'
<1> SUFFICES ASSUME VInv, Collect(v) PROVE VInv'
  OBVIOUS
<1> DEFINE p == vote[v].peer
           b == vote[v].body
<1>1. vote[v] \in Vote /\ p \in Peer /\ b \in Body
  BY VoteOf DEF VInv, Collect
<1>2. seenBy' = [seenBy EXCEPT ![b] = @ \cup {p}]
  BY DEF Collect
<1>3. TypeOK'
  BY <1>1, <1>2 DEF VInv, TypeOK, Collect
<1>4. VoterInv'
  <2>1. CASE Decides(p, b)
    BY <2>1 DEF VInv, VoterInv, Collect, Voter
  <2>2. CASE ~Decides(p, b)
    <3>1. voter' = [voter EXCEPT ![v] = "request"] /\ vote' = [vote EXCEPT ![v] = NoVote]
      BY <2>2 DEF Collect
    <3>2. pc' = "collect" /\ pc = "collect" /\ next' = next
      BY <2>2 DEF Collect
    <3> QED BY <3>1, <3>2 DEF VInv, TypeOK, VoterInv, Balanced
  <2> QED BY <2>1, <2>2
<1>5. \A c \in Body \ {Truth} : seenBy'[c] \subseteq Liar
  BY <1>1, <1>2 DEF VInv, TypeOK, LiarInv
<1>6. NoVote \notin Vote
  BY PeerAssumption DEF NoVote, Vote
<1>7. \A w \in Voter : vote'[w] \in Vote /\ vote'[w].body # Truth => vote'[w].peer \in Liar
  BY <1>6 DEF VInv, TypeOK, LiarInv, Collect
<1>8. CASE Decides(p, b)
  <2>1. pc' = "stop" /\ result' = b
    BY <1>8 DEF Collect
  <2>2. ResultInv'
    BY <1>1, <2>1 DEF ResultInv
  <2>3. Cardinality(seenBy'[b]) >= Majority
    BY <1>1, <1>2, <1>8 DEF VInv, TypeOK, Decides
  <2>4. b # Truth => Cardinality(Liar) >= Majority
    BY <1>1, <1>5, <2>3, WrongNeedsLiars
  <2>5. Cardinality(Liar) \in Nat
    BY PeerAssumption, FS_Subset, FS_CardinalityType
  <2>6. HonestWins'
    BY <2>1, <2>4, <2>5, PeerAssumption DEF HonestWins
  <2>7. LiarInv'
    BY <1>5, <1>7, <2>6 DEF LiarInv
  <2> QED BY <1>3, <1>4, <2>2, <2>7 DEF VInv
<1>9. CASE ~Decides(p, b)
  <2>1. pc' = "collect" /\ result' = result
    BY <1>9 DEF Collect
  <2>2. ResultInv'
    BY <2>1 DEF VInv, ResultInv, Collect
  <2>3. LiarInv'
    BY <1>5, <1>7, <2>1 DEF VInv, LiarInv, HonestWins
  <2> QED BY <1>3, <1>4, <2>2, <2>3 DEF VInv
<1> QED BY <1>8, <1>9

LEMMA StopVoterInv == VInv /\ StopVoter => VInv'
<1> SUFFICES ASSUME VInv, StopVoter PROVE VInv'
  OBVIOUS
<1> USE PeerAssumption DEF VInv, StopVoter
<1>1. result \in Body
  BY DEF ResultInv
<1>2. Verdict \subseteq Peer
  BY DEF TypeOK, Verdict, Losers
<1>3. TypeOK'
  BY <1>2 DEF TypeOK, Voter
<1>4. VoterInv'
  BY DEF TypeOK, VoterInv, Voter
<1>5. ResultInv'
  BY <1>1 DEF ResultInv, Verdict
<1>6. LiarInv'
  BY DEF LiarInv, HonestWins
<1> QED BY <1>3, <1>4, <1>5, <1>6

LEMMA NewRequestInv == VInv /\ NewRequest => VInv'
<1> SUFFICES ASSUME VInv, NewRequest PROVE VInv'
  OBVIOUS
<1> USE PeerAssumption DEF NewRequest, NoVoters, NoVotes, NoneSeen, Voter
<1>1. TypeOK'
  BY DEF VInv, TypeOK
<1>2. VoterInv'
  BY DEF VoterInv, Fresh
<1>3. ResultInv'
  BY DEF ResultInv
<1>4. NoVote \notin Vote
  BY DEF NoVote, Vote
<1>5. LiarInv'
  BY <1>4 DEF LiarInv, HonestWins
<1> QED BY <1>1, <1>2, <1>3, <1>5 DEF VInv

LEMMA AnswerInv ==
    ASSUME NEW v \in Voter, NEW p \in Peer, NEW b \in Body
    PROVE  VInv /\ Answer(v, p, b) => VInv'
<1> SUFFICES ASSUME VInv, Answer(v, p, b) PROVE VInv'
  OBVIOUS
<1> DEFINE a == [peer |-> p, body |-> b]
<1>1. a \in Vote /\ a # NoVote
  BY VoteShape
<1>2. vote' = [vote EXCEPT ![v] = a] /\ voter' = [voter EXCEPT ![v] = "select"]
  BY DEF Answer
<1>3. TypeOK'
  BY <1>1, <1>2 DEF VInv, TypeOK, Answer
<1>4. VoterInv'
  BY <1>1, <1>2 DEF VInv, TypeOK, VoterInv, Answer, Balanced, Fresh, Voter
<1>5. ResultInv'
  BY DEF VInv, ResultInv, Answer
<1>6. b # Truth => p \in Liar
  BY DEF Answer, Honest
<1>7. LiarInv'
  BY <1>2, <1>6 DEF VInv, TypeOK, LiarInv, HonestWins, Answer
<1> QED BY <1>3, <1>4, <1>5, <1>7 DEF VInv

LEMMA FailInv ==
    ASSUME NEW v \in Voter, NEW p \in Peer PROVE VInv /\ Fail(v, p) => VInv'
<1> SUFFICES ASSUME VInv, Fail(v, p) PROVE VInv'
  OBVIOUS
<1>1. TypeOK'
  BY DEF VInv, TypeOK, Fail
<1>2. VoterInv'
  BY DEF VInv, VoterInv, Fail, Balanced, Fresh
<1>3. ResultInv'
  BY DEF VInv, ResultInv, Fail
<1>4. LiarInv'
  BY DEF VInv, LiarInv, HonestWins, Fail
<1> QED BY <1>1, <1>2, <1>3, <1>4 DEF VInv

LEMMA VStep == VInv /\ [Next]_vars => VInv'
<1> SUFFICES ASSUME VInv, [Next]_vars PROVE VInv'
  OBVIOUS
<1>1. CASE StartVoter
  BY <1>1, StartVoterInv
<1>2. ASSUME NEW v \in Voter, Collect(v) PROVE VInv'
  BY <1>2, CollectInv
<1>3. CASE StopVoter
  BY <1>3, StopVoterInv
<1>4. CASE NewRequest
  BY <1>4, NewRequestInv
<1>5. ASSUME NEW v \in Voter, Voting(v) PROVE VInv'
  BY <1>5, AnswerInv, FailInv DEF Voting
<1>6. ASSUME NEW p \in Peer, Expire(p) PROVE VInv'
  BY <1>6 DEF Expire, VInv, TypeOK, VoterInv, ResultInv, LiarInv, HonestWins,
              Balanced, Fresh
<1>7. CASE UNCHANGED vars
  BY <1>7 DEF vars, VInv, TypeOK, VoterInv, ResultInv, LiarInv, HonestWins,
              Balanced, Fresh
<1> QED BY <1>1, <1>2, <1>3, <1>4, <1>5, <1>6, <1>7 DEF Next, Caller

\* The inductive invariant of a request.
THEOREM VoteInvariant == Spec => []VInv
BY VInit, VStep, PTL DEF Spec

\* The variables of a request keep their types: no vote is of anyone but a peer, and
\* no loop over the voters leaves their range.
THEOREM TypeCorrect == Spec => []TypeOK
<1>1. VInv => TypeOK
  BY DEF VInv
<1> QED BY <1>1, VoteInvariant, PTL

\* requestByMajority returns the true answer whatever the other peers say, as long
\* as fewer of them lie than a majority has members.
THEOREM MajorityIsTrue == Spec => []HonestWins
<1>1. VInv => HonestWins
  BY DEF VInv, LiarInv
<1> QED BY <1>1, VoteInvariant, PTL

\* The loop over the votes never waits for a voter that has no token.
THEOREM TokensAreConserved == Spec => []TokensConserved
<1>1. VInv => TokensConserved
  BY DEF VInv, VoterInv, TokensConserved, Balanced
<1> QED BY <1>1, VoteInvariant, PTL

\* requestByMajority leaves no goroutine behind.
THEOREM VotersAreStopped == Spec => []NoVoterLeft
<1>1. VInv => NoVoterLeft
  BY DEF VInv, VoterInv, NoVoterLeft
<1> QED BY <1>1, VoteInvariant, PTL

\* The verdict of requestByMajority never falls on an honest peer, whatever the
\* liars answered, as long as they are fewer than a majority.
THEOREM HonestNotPunished == Spec => OnlyLiarsPunished
<1> DEFINE Punish == pc = "stop" /\ pc' = "returned" /\ Cardinality(Liar) < Majority
                       => throttled' \ throttled \subseteq Liar
<1>1. VInv /\ [Next]_vars => [Punish]_vars
  <2> SUFFICES ASSUME VInv, Next, pc = "stop", pc' = "returned",
                      Cardinality(Liar) < Majority
               PROVE  throttled' \ throttled \subseteq Liar
    OBVIOUS
  <2>1. StopVoter
    BY DEF Next, Caller, Voting, StartVoter, Collect, NewRequest, Fail, Answer, Expire
  <2>2. result = Truth
    BY PeerAssumption DEF VInv, ResultInv, LiarInv, HonestWins
  <2>3. Losers \subseteq Liar
    BY <2>2 DEF VInv, LiarInv, Losers
  <2>4. throttled' \subseteq throttled \cup Losers
    BY <2>1 DEF StopVoter, Verdict
  <2> QED BY <2>3, <2>4
<1> QED BY <1>1, VoteInvariant, PTL DEF Spec, OnlyLiarsPunished
=============================================================================
