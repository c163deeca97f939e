----------------------------- MODULE PeerManager -----------------------------
(***************************************************************************)
(* pkg/p2p/manager: the known peers, and the iterators that draw one.      *)
(*                                                                         *)
(* RandomPeer draws the next peer from a shuffled copy of the usable ones  *)
(* and takes a new copy when that is used up, again and again if nobody is *)
(* usable.  A job renews the peers every ten minutes: it keeps some of the *)
(* old ones, asks all old ones for addresses, and swaps the maps; until    *)
(* then, and in the iterators for longer, the old objects are in use.      *)
(*                                                                         *)
(* Abstractions.  A peer object is named by its address and a number, free *)
(* again when nothing refers to the object.  Its height is what the peer   *)
(* said when the object was made (0 if it did not answer).  There is one   *)
(* iterator.  A throttle may end at any time, and ten minutes are longer   *)
(* than the thirty seconds in which a renewal is not repeated.  The body   *)
(* of an iterator's lock is one step, but for each turn of the loop.       *)
(***************************************************************************)
EXTENDS Integers, FiniteSets

CONSTANTS
    Url,        \* base urls
    Copies,     \* bound: objects of one url in use at a time
    Height,     \* what peers may say
    MinHeight,  \* what the iterator is for
    MaxPeers,   \* 300 in the code
    Caller,     \* goroutines that draw peers
    None,       \* what a caller has that does not use a peer
    Asking      \* and one in RandomPeer

ASSUME PeersAssumption ==
    /\ IsFiniteSet(Url) /\ Url # {} /\ Copies \in Nat \ {0}
    /\ Height \subseteq Nat /\ 0 \in Height /\ MinHeight \in Nat
    /\ MaxPeers \in Nat \ {0}
    /\ None \notin Url \X (1..Copies) /\ Asking \notin Url \X (1..Copies)
    /\ None # Asking

VARIABLES
    peers,      \* manager.peers, a set of objects
    height,     \* of each object
    throttled,  \* the objects whose throttledUntil is to come
    ready,      \* SetIterators was called
    drawn,      \* of the iterator: the part before idx
    left,       \* and the part from idx on
    held,       \* what each caller has: None, or an object, or it is asking
    renewal,    \* of initPeers: the next map and the objects still to ask
    ticker,     \* renewPeersTicker
    recent      \* less than 30 seconds since lastRenew

vars == <<peers, height, throttled, ready, drawn, left, held, renewal, ticker, recent>>
iterator == <<ready, drawn, left>>

Object == Url \X (1..Copies)
UrlOf(o) == o[1]
Urls(S)  == {UrlOf(o) : o \in S}
Idle     == [on |-> FALSE, new |-> {}, ask |-> {}]

TypeOK ==
    /\ peers \subseteq Object
    /\ height \in [Object -> Height]
    /\ throttled \subseteq Object
    /\ ready \in BOOLEAN /\ recent \in BOOLEAN
    /\ drawn \subseteq Object /\ left \subseteq Object
    /\ held \in [Caller -> Object \cup {None, Asking}]
    /\ renewal \in [on : BOOLEAN, new : SUBSET Object, ask : SUBSET Object]
    /\ ticker \in {"armed", "off"}

\* Objects something refers to.
InUse == peers \cup renewal.new \cup renewal.ask \cup drawn \cup left
         \cup {held[c] : c \in Caller}

\* NewPeer for the url u is given an object out of use.
NewPeer(u) == CHOOSE n \in 1..Copies : <<u, n>> \notin InUse

\* Those of a set of urls a new object can be made for.
Makable(U) == {u \in U : \E n \in 1..Copies : <<u, n>> \notin InUse}

\* New objects, and what SetHeight finds out.
Made(U) == {<<u, NewPeer(u)>> : u \in U}
SetHeight(O) ==
    \E h \in [O -> Height] :
        height' = [o \in Object |-> IF o \in O THEN h[o] ELSE height[o]]

-----------------------------------------------------------------------------
\* NewManager: the configured peers are tried, and initPeers called at once.
Init ==
    /\ \E U \in (SUBSET Url) \ {{}} : peers = {<<u, 1>> : u \in U}
    /\ height \in {h \in [Object -> Height] : \A o \in Object \ peers : h[o] = 0}
    /\ throttled = {}
    /\ ready = FALSE /\ drawn = {} /\ left = {}
    /\ held = [c \in Caller |-> None]
    /\ renewal = [on |-> TRUE, new |-> peers, ask |-> peers]
    /\ ticker = "off" /\ recent = FALSE

-----------------------------------------------------------------------------
(* Throttling *)

IsUsable(o) == height[o] >= MinHeight \/ o \notin throttled

\* The result is negated: true of the peers that are not throttled.
IsThrottled(o) == o \notin throttled

\* A caller throttles the peer it has, after a failed request ...
Throttle(c) ==
    /\ held[c] \in Object
    /\ throttled' = throttled \cup {held[c]}
    /\ held' = [held EXCEPT ![c] = None]
    /\ UNCHANGED <<peers, height, iterator, renewal, ticker, recent>>

\* ... or lets go of it.
Release(c) ==
    /\ held[c] \in Object
    /\ held' = [held EXCEPT ![c] = None]
    /\ UNCHANGED <<peers, height, throttled, iterator, renewal, ticker, recent>>

\* throttledUntil passes.
Expire(o) ==
    /\ o \in throttled
    /\ throttled' = throttled \ {o}
    /\ UNCHANGED <<peers, height, iterator, held, renewal, ticker, recent>>

-----------------------------------------------------------------------------
(* Drawing *)

\* The iterator is made after the first renewal.
SetIterators ==
    /\ ~ready /\ ~renewal.on
    /\ ready' = TRUE
    /\ drawn' = {} /\ left' = {o \in peers : IsUsable(o)}
    /\ UNCHANGED <<peers, height, throttled, held, renewal, ticker, recent>>

\* RandomPeer is called.
Ask(c) ==
    /\ ready /\ held[c] = None
    /\ held' = [held EXCEPT ![c] = Asking]
    /\ UNCHANGED <<peers, height, throttled, iterator, renewal, ticker, recent>>

\* It returns the next peer of the iterator.
RandomPeer(c, o) ==
    /\ held[c] = Asking /\ o \in left
    /\ held' = [held EXCEPT ![c] = o]
    /\ drawn' = drawn \cup {o} /\ left' = left \ {o}
    /\ UNCHANGED <<peers, height, throttled, ready, renewal, ticker, recent>>

\* MUTANT of ResetIterator: the usable peers are added to those it has.
ResetIterator_Appends ==
    /\ left = {} /\ \E c \in Caller : held[c] = Asking
    /\ left' = drawn \cup {o \in peers : IsUsable(o)} /\ drawn' = {}
    /\ UNCHANGED <<peers, height, throttled, ready, held, renewal, ticker, recent>>

\* MUTANT of ResetIterator: the index is not set back.
ResetIterator_KeepsIndex ==
    /\ left = {} /\ \E c \in Caller : held[c] = Asking
    /\ left' = {o \in peers : IsUsable(o)} \ drawn
    /\ UNCHANGED <<peers, height, throttled, ready, drawn, held, renewal, ticker, recent>>

\* A turn of its loop: there is no next peer, and the iterator starts over with
\* the peers that are usable now, be it none.
ResetIterator ==
    /\ left = {} /\ \E c \in Caller : held[c] = Asking
    /\ left' = {o \in peers : IsUsable(o)} /\ drawn' = {}
    /\ UNCHANGED <<peers, height, throttled, ready, held, renewal, ticker, recent>>

-----------------------------------------------------------------------------
(* Renewing *)

\* MUTANT of Keeps: every peer is kept or dropped by the coin.
Keeps_ByCoin == SUBSET peers

\* What initPeers may keep: the peers "throttled", and others as the coin says.
Keeps ==
    LET always == {o \in peers : IsThrottled(o)}
    IN  {always \cup some :
            some \in {S \in SUBSET (peers \ always) : Cardinality(S) <= MaxPeers \div 2}}

\* initPeers begins with the current peers.
StartRenewal ==
    /\ ready /\ ~renewal.on
    /\ \E keep \in Keeps : renewal' = [on |-> TRUE, new |-> keep, ask |-> peers]

\* The ticker fires, or somebody calls RenewPeers: not so soon after the last time.
Tick ==
    /\ ticker = "armed" /\ ~recent
    /\ ticker' = "off"
    /\ StartRenewal
    /\ UNCHANGED <<peers, height, throttled, iterator, held, recent>>

RenewPeers ==
    /\ ~recent
    /\ StartRenewal
    /\ UNCHANGED <<peers, height, throttled, iterator, held, ticker, recent>>

\* Peer o names some urls; those that are new get an object.  Enough is enough.
GetPeerUrls(o, U) ==
    LET made == Made(Makable(U \ Urls(renewal.new)))
        new  == renewal.new \cup made
    IN  /\ renewal.on /\ o \in renewal.ask
        /\ renewal' = [renewal EXCEPT
                         !.new = new,
                         !.ask = IF Cardinality(new) > MaxPeers THEN {} ELSE @ \ {o}]
        /\ SetHeight(made)
        /\ throttled' = throttled \ made
        /\ UNCHANGED <<peers, iterator, held, ticker, recent>>

\* It does not answer.
GetPeerUrlsFails(o) ==
    /\ renewal.on /\ o \in renewal.ask
    /\ renewal' = [renewal EXCEPT !.ask = @ \ {o}]
    /\ UNCHANGED <<peers, height, throttled, iterator, held, ticker, recent>>

\* MUTANT of EndRenewal: the ticker is made once.
EndRenewal_OneShot ==
    /\ renewal.on /\ renewal.ask = {}
    /\ peers' = renewal.new
    /\ renewal' = Idle
    /\ recent' = TRUE
    /\ ticker' = IF ready THEN ticker ELSE "armed"
    /\ UNCHANGED <<height, throttled, iterator, held>>

\* The maps are swapped, and the next renewal is set up.
EndRenewal ==
    /\ renewal.on /\ renewal.ask = {}
    /\ peers' = renewal.new
    /\ renewal' = Idle
    /\ recent' = TRUE
    /\ ticker' = "armed"
    /\ UNCHANGED <<height, throttled, iterator, held>>

\* Thirty seconds are over.
Pause ==
    /\ recent
    /\ recent' = FALSE
    /\ UNCHANGED <<peers, height, throttled, iterator, held, renewal, ticker>>

-----------------------------------------------------------------------------
AskPeer == \E o \in renewal.ask :
              GetPeerUrlsFails(o) \/ \E U \in SUBSET Url : GetPeerUrls(o, U)

Next ==
    \/ \E c \in Caller : Ask(c) \/ Throttle(c) \/ Release(c)
    \/ \E c \in Caller, o \in left : RandomPeer(c, o)
    \/ SetIterators \/ ResetIterator
    \/ \E o \in throttled : Expire(o)
    \/ Tick \/ RenewPeers \/ AskPeer \/ EndRenewal \/ Pause

\* Time passes, the job runs, callers queue at the iterator's lock, and the one
\* that has it goes on turning in the loop: it meets a usable peer if there is one
\* again and again.
Fairness ==
    /\ \A o \in Object : WF_vars(Expire(o))
    /\ WF_vars(Pause) /\ WF_vars(Tick) /\ WF_vars(AskPeer) /\ WF_vars(EndRenewal)
    /\ WF_vars(SetIterators)
    /\ SF_vars(ResetIterator /\ left' # {})
    /\ \A c \in Caller : SF_vars(\E o \in left : RandomPeer(c, o))

Spec == Init /\ [][Next]_vars
FairSpec == Spec /\ Fairness

-----------------------------------------------------------------------------
(* Properties *)

\* The map has one object per address, and so has a pass of the iterator: while
\* no pass ends, different objects are different peers, as the majority vote takes
\* them to be, however often the peers were renewed since.
OneObjectPerUrl ==
    /\ \A o, q \in peers : UrlOf(o) = UrlOf(q) => o = q
    /\ \A o, q \in drawn \cup left : UrlOf(o) = UrlOf(q) => o = q

\* RandomPeer returns unless no peer is left: throttles end.
RandomPeerReturns ==
    \A c \in Caller : (held[c] = Asking) ~> (held[c] # Asking \/ peers = {})

\* The peers are renewed for ever.
Renewed == []<>renewal.on

\* A renewal that begins while some peer is not throttled leaves some peer,
\* whatever the coins and the peers asked say.
RenewalLeavesSome ==
    [][~renewal.on /\ renewal'.on /\ peers \ throttled # {} => renewal'.new # {}]_vars

\* "remember throttled peers", "we don't forget about peers that we throttled": a
\* renewal keeps the peers that are throttled when it begins.
ThrottledRemembered ==
    [][~renewal.on /\ renewal'.on => peers \cap throttled \subseteq renewal'.new]_vars
=============================================================================
