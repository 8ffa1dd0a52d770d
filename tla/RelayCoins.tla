----------------------------- MODULE RelayCoins -----------------------------
(***************************************************************************)
(* What the relay says of coins (relay/peer.py, PeerManager's cache;       *)
(* relay/fallback.py; relay/server.py, handle_coins and handle_coin) and   *)
(* what the daemon concludes (chia_relay.py, wait_for_confirmation).       *)
(*                                                                         *)
(* A full node follows the chain at its own pace, answers registrations    *)
(* with what it knows and pushes what it learns later, in order, on one    *)
(* connection.  The reader task of a connection puts pushes into the cache *)
(* at once; an answer is handed to the handler that asked, which puts it   *)
(* into the cache when it runs.  When no peer announces blocks any more,   *)
(* hosted sources are asked instead.                                       *)
(*                                                                         *)
(* A coin is absent, then unspent, then spent, and all of them have one    *)
(* puzzle hash.  Reorganisations of the chain are left out.                *)
(***************************************************************************)
EXTENDS Naturals, Sequences, FiniteSets

CONSTANTS
  Coins,
  Peers,      \* connections, each with a full node behind it
  Handlers,   \* requests /v1/coins may be in hand together
  Watched,    \* the coin that the daemon has spent and asks for
  CacheFor,   \* RELAY fallback_cache_s
  MaxFaults,  \* bound on lost connections, timeouts and failed sources
  MaxClock    \* bound on the clock of the fallback chain

RelayCoinsAssumption ==
  /\ Watched \in Coins
  /\ {CacheFor, MaxFaults, MaxClock} \subseteq Nat

Absent == 0
Unspent == 1
Spent == 2
States == {Absent, Unspent, Spent}

VARIABLES
  chain,     \* the state of each coin
  view,      \* what each node knows of it
  up, subs,  \* the connections, and the coins each is registered for
  wire,      \* messages on the way to the relay, in order
  asked,     \* who waits for the answer on each connection
  got,       \* answers handed over and not yet in the cache
  cache,     \* PeerManager._coins; absent is not there
  watching,  \* PeerManager._watched: the puzzle hash is in it
  quiet,     \* no peak for peak_stale_after_s
  hosted,    \* FallbackChain: the fetches in hand, the entry kept, who turned to it
  clock, faults,
  concluded, \* what wait_for_confirmation returned
  served     \* how old the last answer from the hosted entry was

node == <<chain, view>>
link == <<up, subs, wire, asked>>
relay == <<got, cache, watching, quiet>>
coinVars == <<node, link, relay, hosted, clock, faults, concluded, served>>

Nobody == "nobody"
Poller == "poller"    \* the handler of the daemon's polls, one at a time
Requesters == Handlers \cup {Poller} \cup Peers   \* a peer: its maintainer re-registers
NoEntry == [there |-> FALSE]
NoStates == [c \in Coins |-> Absent]

CoinsInit ==
  /\ chain = [c \in Coins |-> IF c = Watched THEN Unspent ELSE Absent]
  /\ view = [p \in Peers |-> chain]
  /\ up = [p \in Peers |-> TRUE] /\ subs = [p \in Peers |-> {}]
  /\ wire = [p \in Peers |-> <<>>] /\ asked = [p \in Peers |-> Nobody]
  /\ got = [r \in Requesters |-> <<>>]
  /\ cache = NoStates /\ watching = FALSE /\ quiet = FALSE
  /\ hosted = [fetch |-> [h \in Handlers |-> NoEntry], kept |-> NoEntry, turned |-> {}]
  /\ clock = 0 /\ faults = 0
  /\ concluded = "none" /\ served = 0

-----------------------------------------------------------------------------
(* The nodes                                                               *)

\* A coin is created, or spent.
Block(c) ==
  /\ chain[c] < Spent
  /\ chain' = [chain EXCEPT ![c] = @ + 1]
  /\ UNCHANGED <<view, link, relay, hosted, clock, faults, concluded, served>>

\* A node learns of it, and pushes it if it is registered for.
Follow(p, c) ==
  /\ view[p][c] < chain[c]
  /\ view' = [view EXCEPT ![p][c] = chain[c]]
  /\ wire' = IF up[p] /\ c \in subs[p]
             THEN [wire EXCEPT ![p] = Append(@, [kind |-> "push",
                     states |-> [NoStates EXCEPT ![c] = chain[c]]])]
             ELSE wire
  /\ UNCHANGED <<chain, up, subs, asked, relay, hosted, clock, faults, concluded, served>>

\* RegisterForPhUpdates, RegisterForCoinUpdates: the node takes the
\* registration and answers with what it knows of what it was asked for.
AskedFor(r) == IF r = Poller THEN {Watched} ELSE Coins
Answer(p) ==
  /\ up[p] /\ asked[p] # Nobody
  /\ \A i \in DOMAIN wire[p] : wire[p][i].kind # "answer"
  /\ LET these == AskedFor(asked[p])
         states == [c \in Coins |-> IF c \in these THEN view[p][c] ELSE Absent]
     IN  /\ wire' = [wire EXCEPT ![p] = Append(@, [kind |-> "answer", states |-> states])]
         /\ subs' = [subs EXCEPT ![p] = @ \cup these]
  /\ UNCHANGED <<node, up, asked, relay, hosted, clock, faults, concluded, served>>

-----------------------------------------------------------------------------
(* The cache                                                               *)

\* _ingest_coin_states: each state that arrives replaces the one that is there.
Ingested(states) ==
  [c \in Coins |-> IF states[c] = Absent THEN cache[c] ELSE states[c]]

\* _dispatch: an answer goes to whoever waits for it, a push into the cache.
Deliver(p) ==
  /\ wire[p] # <<>>
  /\ LET m == Head(wire[p]) IN
     IF m.kind = "answer" /\ asked[p] # Nobody
     THEN /\ got' = [got EXCEPT ![asked[p]] = Append(@, m.states)]
          /\ asked' = [asked EXCEPT ![p] = Nobody]
          /\ UNCHANGED <<cache, quiet>>
     ELSE /\ cache' = Ingested(m.states)
          /\ quiet' = IF m.kind = "push" THEN FALSE ELSE quiet
          /\ UNCHANGED <<got, asked>>
  /\ wire' = [wire EXCEPT ![p] = Tail(@)]
  /\ UNCHANGED <<node, up, subs, watching, hosted, clock, faults, concluded, served>>

\* get_coins, the maintainer: the task that asked runs again.
Ingest(r) ==
  /\ got[r] # <<>>
  /\ cache' = Ingested(Head(got[r]))
  /\ got' = [got EXCEPT ![r] = Tail(@)]
  /\ watching' = (watching \/ r \in Handlers)
  /\ UNCHANGED <<node, link, quiet, hosted, clock, faults, concluded, served>>

-----------------------------------------------------------------------------
(* Connections                                                             *)

Fault == faults < MaxFaults /\ faults' = faults + 1

\* get_coins_with_source: a request that a peer failed goes to the sources.
Turns(p) ==
  hosted' = [hosted EXCEPT !.turned = @ \cup ({asked[p]} \cap Handlers)]

\* wait_for_confirmation: a poll that a peer failed ends the wait.
Raises(p) ==
  concluded' = IF asked[p] = Poller /\ concluded = "none" THEN "error" ELSE concluded

\* The connection is gone, and with it the registrations, the messages and
\* the request.
Disconnect(p) ==
  /\ up[p] /\ Fault
  /\ up' = [up EXCEPT ![p] = FALSE]
  /\ subs' = [subs EXCEPT ![p] = {}]
  /\ wire' = [wire EXCEPT ![p] = <<>>]
  /\ asked' = [asked EXCEPT ![p] = Nobody]
  /\ Turns(p) /\ Raises(p)
  /\ UNCHANGED <<node, relay, clock, served>>

\* _maintain: connected again, the puzzle hashes being watched are registered
\* for.
Reconnect(p) ==
  /\ ~up[p]
  /\ up' = [up EXCEPT ![p] = TRUE]
  /\ asked' = [asked EXCEPT ![p] = IF watching THEN p ELSE Nobody]
  /\ UNCHANGED <<node, subs, wire, relay, hosted, clock, faults, concluded, served>>

\* REQUEST_TIMEOUT
TimeOut(p) ==
  /\ asked[p] # Nobody /\ Fault
  /\ asked' = [asked EXCEPT ![p] = Nobody]
  /\ Turns(p) /\ Raises(p)
  /\ UNCHANGED <<node, up, subs, wire, relay, clock, served>>

\* peak_stale_after_s pass without a peak; another peak comes.
GoQuiet ==
  /\ ~quiet /\ Fault
  /\ quiet' = TRUE
  /\ UNCHANGED <<node, link, got, cache, watching, hosted, clock, concluded, served>>

Peak ==
  /\ quiet /\ \E p \in Peers : up[p]
  /\ quiet' = FALSE
  /\ UNCHANGED <<node, link, got, cache, watching, hosted, clock, faults, concluded, served>>

-----------------------------------------------------------------------------
(* /v1/coins                                                               *)

Waits(r) ==
  \/ got[r] # <<>> \/ \E p \in Peers : asked[p] = r
  \/ r \in hosted.turned \/ (r \in Handlers /\ hosted.fetch[r].there)

\* _p2p_is_fresh
Fresh == ~quiet /\ \E p \in Peers : up[p]

\* Mutant: a watched puzzle hash is answered from the cache.
AskUnwatched(h) ==
  /\ Fresh /\ ~Waits(h) /\ ~watching
  /\ \E p \in Peers :
       /\ up[p] /\ asked[p] = Nobody
       /\ asked' = [asked EXCEPT ![p] = h]
  /\ UNCHANGED <<node, up, subs, wire, relay, hosted, clock, faults, concluded, served>>

\* get_coins_with_source, get_coins: one peer is asked, every time.
Ask(h) ==
  /\ Fresh /\ ~Waits(h)
  /\ \E p \in Peers :
       /\ up[p] /\ asked[p] = Nobody
       /\ asked' = [asked EXCEPT ![p] = h]
  /\ UNCHANGED <<node, up, subs, wire, relay, hosted, clock, faults, concluded, served>>

\* The hosted sources: the pool is not fresh, or a peer failed the request.
ToHosted(h) == h \in hosted.turned \/ (~Fresh /\ ~Waits(h))

\* FallbackChain.get_coins with an entry for the puzzle hashes.
Hit == hosted.kept.there /\ clock - hosted.kept.at <= CacheFor

Serve(h) ==
  /\ ToHosted(h) /\ Hit
  /\ served' = clock - hosted.kept.read
  /\ hosted' = [hosted EXCEPT !.turned = @ \ {h}]
  /\ UNCHANGED <<node, link, relay, clock, faults, concluded>>

\* No entry, or an old one: the sources are asked.
Fetch(h) ==
  /\ ToHosted(h) /\ ~Hit
  /\ hosted' = [hosted EXCEPT !.turned = @ \ {h},
                 !.fetch[h] = [there |-> TRUE, at |-> clock, read |-> clock]]
  /\ UNCHANGED <<node, link, relay, clock, faults, concluded, served>>

\* CoinsetSource: the source reads its coins a while after the fetch began.
SourceReads(h) ==
  /\ hosted.fetch[h].there
  /\ hosted' = [hosted EXCEPT !.fetch[h].read = clock]
  /\ UNCHANGED <<node, link, relay, clock, faults, concluded, served>>

\* Mutant: the entry's time is when the answer came.
KeptOnArrival(h) == [hosted.fetch[h] EXCEPT !.at = clock]

Kept(h) == hosted.fetch[h]

\* The answer arrives and is kept under the time of the request, or every
\* source failed.
Fetched(h) ==
  /\ hosted.fetch[h].there
  /\ \/ /\ hosted' = [hosted EXCEPT !.kept = Kept(h), !.fetch[h] = NoEntry]
        /\ UNCHANGED faults
     \/ Fault /\ hosted' = [hosted EXCEPT !.fetch[h] = NoEntry]
  /\ UNCHANGED <<node, link, relay, clock, concluded, served>>

Tick ==
  /\ clock < MaxClock /\ clock' = clock + 1
  /\ UNCHANGED <<node, link, relay, hosted, faults, concluded, served>>

-----------------------------------------------------------------------------
(* /v1/coin/{id}, and the daemon that polls it                             *)

\* Mutant: a coin that the relay knows is one whose spend is confirmed.
ConfirmedWhenKnown == cache[Watched] # Absent

\* wait_for_confirmation(created=False): spent_height is there.
Confirms == cache[Watched] = Spent

\* get_coins_by_ids: a coin that is not in the cache is asked for by its id.
\* With no peer at all the poll fails, which is left out: the wait ends as with
\* Raises.
PollAsks ==
  /\ concluded = "none"
  /\ cache[Watched] = Absent /\ ~Waits(Poller)
  /\ \E p \in Peers :
       /\ up[p] /\ asked[p] = Nobody
       /\ asked' = [asked EXCEPT ![p] = Poller]
  /\ UNCHANGED <<node, up, subs, wire, relay, hosted, clock, faults, concluded, served>>

\* One that is there is answered from it.
Poll ==
  /\ concluded = "none"
  /\ Confirms
  /\ concluded' = "confirmed"
  /\ UNCHANGED <<node, link, relay, hosted, clock, faults, served>>

\* BroadcastUnknown
PollTimesOut ==
  /\ concluded = "none" /\ Fault
  /\ concluded' = "unknown"
  /\ UNCHANGED <<node, link, relay, hosted, clock, served>>

\* The task of a request goes on.
Handles(h) == Ingest(h) \/ Serve(h) \/ Fetch(h) \/ Fetched(h)

CoinsNext ==
  \/ \E c \in Coins : Block(c) \/ \E p \in Peers : Follow(p, c)
  \/ \E p \in Peers : Answer(p) \/ Deliver(p) \/ Disconnect(p) \/ Reconnect(p) \/ TimeOut(p)
  \/ \E r \in Requesters : Ingest(r)
  \/ \E h \in Handlers : Ask(h) \/ Serve(h) \/ Fetch(h) \/ SourceReads(h) \/ Fetched(h)
  \/ GoQuiet \/ Peak \/ Tick
  \/ PollAsks \/ Poll \/ PollTimesOut

\* Nodes follow the chain and announce it, answers arrive, tasks run,
\* connections are made again, and somebody keeps asking for coins.
CoinsFairness ==
  /\ \A p \in Peers :
       /\ \A c \in Coins : WF_coinVars(Follow(p, c))
       /\ WF_coinVars(Answer(p)) /\ WF_coinVars(Deliver(p)) /\ WF_coinVars(Reconnect(p))
  /\ \A r \in Peers \cup {Poller} : WF_coinVars(Ingest(r))
  /\ \A h \in Handlers : SF_coinVars(Ask(h)) /\ WF_coinVars(Handles(h))
  /\ WF_coinVars(Peak)

CoinsSpec == CoinsInit /\ [][CoinsNext]_coinVars
FairCoinsSpec == CoinsSpec /\ CoinsFairness

-----------------------------------------------------------------------------
(* Properties                                                              *)

\* A spend that the daemon reports as confirmed is on the chain, whatever the
\* relay has in its cache (wait_for_confirmation).
ConfirmedIsSpent == concluded = "confirmed" => chain[Watched] = Spent

\* What is served from the hosted entry was read within the last
\* fallback_cache_s (FallbackChain.get_coins).
HostedIsRecent == served <= CacheFor

\* As long as somebody asks for the coins, the cache comes to have their
\* state, in whatever order older ones arrived (get_coins).
CacheCatchesUp == \A c \in Coins : chain[c] = Spent ~> cache[c] = Spent
=============================================================================
