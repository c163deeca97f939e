-------------------------- MODULE PeerManagerProofs --------------------------
(***************************************************************************)
(* What PeerManager does whatever the number of peers, callers and copies, *)
(* and whatever the peers say: the map and a pass of the iterator have one *)
(* object per address, and a renewal begins with every peer that is not    *)
(* throttled.                                                              *)
(***************************************************************************)
EXTENDS PeerManager, TLAPS

\* One object per url.
Single(O) == \A o, q \in O : UrlOf(o) = UrlOf(q) => o = q

\* The next map has one object per url as well: it becomes the current one, of which
\* the next pass of the iterator is a part.
PInv ==
    /\ TypeOK
    /\ Single(peers)
    /\ Single(renewal.new)
    /\ Single(drawn \cup left)

LEMMA SinglePart ==
    ASSUME NEW O, Single(O), NEW P \in SUBSET O
    PROVE  Single(P)
BY DEF Single

\* Objects of different urls are different, and an object is made where one is free.
LEMMA MadeObjects ==
    ASSUME NEW U \in SUBSET Url
    PROVE  /\ Made(Makable(U)) \subseteq Object
           /\ Single(Made(Makable(U)))
           /\ \A o \in Made(Makable(U)) : UrlOf(o) \in U
<1>1. ASSUME NEW u \in Makable(U)
      PROVE  u \in U /\ <<u, NewPeer(u)>> \in Object
  <2>1. u \in U /\ \E n \in 1..Copies : <<u, n>> \notin InUse
    BY DEF Makable
  <2>2. NewPeer(u) \in 1..Copies
    BY <2>1 DEF NewPeer
  <2> QED BY <2>1, <2>2 DEF Object
<1>2. \A o \in Made(Makable(U)) :
         \E u \in Makable(U) : o = <<u, NewPeer(u)>> /\ UrlOf(o) = u
  BY DEF Made, UrlOf
<1> QED BY <1>1, <1>2 DEF Single

LEMMA PInit == Init => PInv
<1> SUFFICES ASSUME Init PROVE PInv
  OBVIOUS
<1> USE PeersAssumption
<1>1. PICK U \in (SUBSET Url) \ {{}} : peers = {<<u, 1>> : u \in U}
  BY DEF Init
<1>2. peers \subseteq Object /\ Single(peers)
  BY <1>1 DEF Object, Single, UrlOf
<1>3. TypeOK
  BY <1>2 DEF Init, TypeOK
<1> QED BY <1>2, <1>3 DEF Init, PInv, Single

\* What a renewal keeps are current peers, with all that are not throttled.
LEMMA Kept == ASSUME NEW keep \in Keeps PROVE keep \subseteq peers /\ peers \ throttled \subseteq keep
BY DEF Keeps, IsThrottled

LEMMA StartInv ==
    ASSUME PInv, StartRenewal, UNCHANGED <<peers, height, throttled, iterator, held, recent>>,
           ticker' \in {"armed", "off"}
    PROVE  PInv'
<1>1. PICK keep \in Keeps : renewal' = [on |-> TRUE, new |-> keep, ask |-> peers]
  BY DEF StartRenewal
<1>2. keep \subseteq peers /\ Single(keep)
  BY Kept, SinglePart DEF PInv
<1>3. TypeOK'
  BY <1>1, <1>2 DEF PInv, TypeOK, iterator
<1> QED BY <1>1, <1>2, <1>3 DEF PInv, iterator

LEMMA GetInv ==
    ASSUME PInv, NEW o, NEW U \in SUBSET Url, GetPeerUrls(o, U)
    PROVE  PInv'
<1> DEFINE fresh == U \ Urls(renewal.new)
           made  == Made(Makable(fresh))
           new   == renewal.new \cup made
<1>1. /\ made \subseteq Object /\ Single(made)
      /\ \A p \in made : UrlOf(p) \notin Urls(renewal.new)
  BY MadeObjects
<1>2. new \subseteq Object
  BY <1>1 DEF PInv, TypeOK
<1>3. Single(new)
  BY <1>1 DEF PInv, Single, Urls
<1>4. /\ renewal' \in [on : BOOLEAN, new : SUBSET Object, ask : SUBSET Object]
      /\ renewal'.new = new
  BY <1>2 DEF PInv, TypeOK, GetPeerUrls
<1>5. height' \in [Object -> Height]
  <2>1. PICK h \in [made -> Height] :
           height' = [p \in Object |-> IF p \in made THEN h[p] ELSE height[p]]
    BY DEF GetPeerUrls, SetHeight
  <2> QED BY <2>1 DEF PInv, TypeOK
<1> HIDE DEF new, made
<1>6. TypeOK'
  BY <1>4, <1>5 DEF PInv, TypeOK, GetPeerUrls, iterator
<1> QED BY <1>3, <1>4, <1>6 DEF PInv, GetPeerUrls, iterator

LEMMA PStep == PInv /\ [Next]_vars => PInv'
<1> SUFFICES ASSUME PInv, [Next]_vars PROVE PInv'
  OBVIOUS
<1>1. ASSUME NEW c \in Caller, Ask(c) \/ Throttle(c) \/ Release(c) PROVE PInv'
  BY <1>1 DEF Ask, Throttle, Release, PInv, TypeOK, iterator
<1>2. ASSUME NEW c \in Caller, NEW o \in left, RandomPeer(c, o) PROVE PInv'
  <2>1. o \in Object /\ drawn' \cup left' = drawn \cup left
    BY <1>2 DEF RandomPeer, PInv, TypeOK
  <2> QED BY <1>2, <2>1 DEF RandomPeer, PInv, TypeOK
<1>3. CASE SetIterators \/ ResetIterator
  <2>1. (drawn \cup left)' \subseteq peers
    BY <1>3 DEF SetIterators, ResetIterator
  <2>2. Single(drawn \cup left)'
    BY <2>1, SinglePart DEF PInv
  <2> QED BY <1>3, <2>1, <2>2 DEF SetIterators, ResetIterator, PInv, TypeOK
<1>4. ASSUME NEW o \in throttled, Expire(o) PROVE PInv'
  BY <1>4 DEF Expire, PInv, TypeOK, iterator
<1>5. CASE Tick \/ RenewPeers
  BY <1>5, StartInv DEF Tick, RenewPeers, PInv, TypeOK
<1>6. CASE AskPeer
  <2>1. PICK o \in renewal.ask : GetPeerUrlsFails(o) \/ \E U \in SUBSET Url : GetPeerUrls(o, U)
    BY <1>6 DEF AskPeer
  <2>2. CASE GetPeerUrlsFails(o)
    BY <2>2 DEF GetPeerUrlsFails, PInv, TypeOK, iterator
  <2> QED BY <2>1, <2>2, GetInv
<1>7. CASE EndRenewal
  BY <1>7 DEF EndRenewal, PInv, TypeOK, Idle, Single, iterator
<1>8. CASE Pause
  BY <1>8 DEF Pause, PInv, TypeOK, iterator
<1>9. CASE UNCHANGED vars
  BY <1>9 DEF vars, PInv, TypeOK, iterator
<1> QED BY <1>1, <1>2, <1>3, <1>4, <1>5, <1>6, <1>7, <1>8, <1>9 DEF Next

\* The inductive invariant of the manager.
LEMMA ManagerInvariant == Spec => []PInv
BY PInit, PStep, PTL DEF Spec

\* The manager's variables keep their types, whatever urls the peers asked name.
THEOREM TypeCorrect == Spec => []TypeOK
<1>1. PInv => TypeOK
  BY DEF PInv
<1> QED BY <1>1, ManagerInvariant, PTL

\* The map of peers, and a pass of the iterator, have one object per address: the
\* members of a majority vote are different peers, however often the peers were renewed.
THEOREM DifferentPeers == Spec => []OneObjectPerUrl
<1>1. PInv => OneObjectPerUrl
  BY DEF PInv, Single, OneObjectPerUrl
<1> QED BY <1>1, ManagerInvariant, PTL

\* A renewal keeps what is not throttled, so it leaves some peer if one of them is not.
THEOREM SomePeerLeft == Spec => RenewalLeavesSome
<1>1. [Next]_vars =>
        [~renewal.on /\ renewal'.on /\ peers \ throttled # {} => renewal'.new # {}]_vars
  <2> SUFFICES ASSUME Next, ~renewal.on, renewal'.on, peers \ throttled # {}
               PROVE  renewal'.new # {}
    OBVIOUS
  <2>1. StartRenewal
    BY DEF Next, Ask, Throttle, Release, RandomPeer, SetIterators, ResetIterator, Expire, Tick,
           RenewPeers, AskPeer, GetPeerUrls, GetPeerUrlsFails, EndRenewal, Pause, Idle
  <2>2. PICK keep \in Keeps : renewal' = [on |-> TRUE, new |-> keep, ask |-> peers]
    BY <2>1 DEF StartRenewal
  <2> QED BY <2>2, Kept
<1> QED BY <1>1, PTL DEF Spec, RenewalLeavesSome
=============================================================================
