----------------------------- MODULE MarketFeed -----------------------------
(***************************************************************************)
(* How StateManager gets its markets and their books.                      *)
(*                                                                         *)
(*   Gamma --> MarketDiscoveryLoop --events--> StateManager                *)
(*                     |                            ^                      *)
(*                     +--cmds--> MarketWsLoop -----+                      *)
(*                                                                         *)
(* Discovery follows the clock: it tracks the current and the next market, *)
(* and the one before during a grace time, sends an identity when it has   *)
(* changed, seeds tick sizes once, and keeps the websocket subscribed to   *)
(* what it wants quoted.  Its sends may wait for room, so that the others  *)
(* run between any two of them.  The websocket loop keeps its wanted set   *)
(* across reconnects.  A market is named by the start of its interval; its *)
(* two tokens are subscribed and seeded together, so they are one here.    *)
(* What the messages of a session carry is left out.                       *)
(***************************************************************************)
EXTENDS Integers, Sequences, FiniteSets, SequencesExt

CONSTANTS
  Interval,     \* length of a market (900 s)
  Grace,        \* market_discovery_grace_s, not negative
  FirstNow,     \* bound: the clock at the start
  MaxNow,       \* bound: the clock
  EventCap,     \* capacity of tx_events (4096)
  CmdCap,       \* capacity of tx_market_ws_cmd (256)
  MaxSessions,  \* bound: sessions of the market websocket
  Faults,       \* kinds of failures that may happen
  MaxFaults     \* bound: failures of any kind

FaultKinds == {"gamma", "seed", "connect", "subscribe", "break"}

ASSUME FeedAssumption ==
  /\ Interval \in Nat \ {0} /\ Grace \in Nat
  /\ FirstNow \in Nat /\ MaxNow \in Nat /\ FirstNow <= MaxNow
  /\ EventCap \in Nat \ {0} /\ CmdCap \in Nat \ {0}
  /\ MaxSessions \in Nat /\ MaxFaults \in Nat
  /\ Faults \subseteq FaultKinds

VARIABLES
  now, gamma,                       \* the clock and what Gamma says of each market
  pc, slugs, desired, out,          \* one pass of discovery; out is what it is sending
  lastTracked, lastSent, cache, seeded, subscribed,   \* what it keeps between passes
  events, cmds,                     \* the two channels
  markets,                          \* StateManager.markets
  conn, wanted,                     \* MarketWsLoop: its phase, `subscribed`
  server, broken,                   \* the session: what the exchange serves; is it dead?
  sessions, faults                   \* counters of the bounds

pass     == <<pc, slugs, desired, out>>
kept     == <<lastTracked, lastSent, cache, seeded, subscribed>>
socket   == <<conn, wanted, server, broken, sessions>>
vars     == <<now, gamma, pass, kept, events, cmds, markets, socket, faults>>

StartOf(time) == time - (time % Interval)     \* interval_start_s
Markets == {m \in (StartOf(FirstNow) - Interval)..(MaxNow + Interval) : m % Interval = 0}
NoMarket == "none"

Status      == {"open", "closed"}               \* of a market that has an identity
Event       == [kind : {"tracked"}, slugs : SUBSET Markets]
               \cup [kind : {"discovered"}, slug : Markets, status : Status]
               \cup [kind : {"seed"}, slug : Markets]
Command     == [op : {"subscribe", "unsubscribe"}, tokens : SUBSET Markets]
MarketState == [status : Status \cup {NoMarket}, tick : BOOLEAN]

TypeOK ==
  /\ now \in FirstNow..MaxNow
  /\ gamma \in [Markets -> Status \cup {"unlisted"}]
  /\ pc \in {"wait", "cur", "next", "prev", "seed", "unsub", "sub", "dead"}
  /\ slugs \in [cur : Markets, next : Markets, prev : SUBSET Markets]
  /\ {desired, lastTracked, seeded, subscribed, wanted, server} \subseteq SUBSET Markets
  /\ {lastSent, cache} \subseteq [Markets -> Status \cup {NoMarket}]
  /\ out \in Seq(Event) /\ events \in Seq(Event) /\ cmds \in Seq(Command)
  /\ markets \in [Markets -> MarketState]
  /\ conn \in {"connecting", "up", "backoff", "ended"}
  /\ broken \in BOOLEAN
  /\ sessions \in Nat /\ faults \in Nat

\* A failure of that kind happens.
Hit(kind) ==
  /\ kind \in Faults /\ faults < MaxFaults
  /\ faults' = faults + 1
-----------------------------------------------------------------------------
(* Discovery *)

DiscoverySlugs(time) ==
  [cur |-> StartOf(time), next |-> StartOf(time) + Interval,
   prev |-> IF Grace > 0 /\ time - StartOf(time) <= Grace
            THEN {StartOf(time) - Interval} ELSE {}]

TrackedSlugs(window) == {window.cur, window.next} \cup window.prev

Retain(f, keep) == [m \in Markets |-> IF m \in keep THEN f[m] ELSE NoMarket]

\* The top of the loop of run.
Poll ==
  /\ pc = "wait" /\ out = <<>>
  /\ slugs' = DiscoverySlugs(now)
  /\ LET tracked == TrackedSlugs(slugs')
     IN  /\ lastTracked' = tracked
         /\ out' = IF tracked = lastTracked THEN <<>>
                   ELSE <<[kind |-> "tracked", slugs |-> tracked]>>
         /\ lastSent' = Retain(lastSent, tracked)
         /\ cache' = Retain(cache, tracked)
  /\ desired' = {} /\ pc' = "cur"
  /\ UNCHANGED <<now, gamma, seeded, subscribed, events, cmds, markets, socket, faults>>

\* One send of discovery to StateManager.
Send ==
  /\ out # <<>> /\ Len(events) < EventCap
  /\ events' = Append(events, Head(out)) /\ out' = Tail(out)
  /\ UNCHANGED <<now, gamma, pc, slugs, desired, kept, cmds, markets, socket, faults>>

\* Mutant: what is in the cache is not fetched again.
IdentityOnce(m, fetch) ==
  IF cache[m] # NoMarket THEN cache[m] ELSE IF fetch /\ gamma[m] # "unlisted" THEN gamma[m] ELSE NoMarket

\* fetch_or_cached_identity.
Identity(m, fetch) == IF fetch /\ gamma[m] # "unlisted" THEN gamma[m] ELSE cache[m]

\* Mutant: only the first identity of a market is announced.
TakeFirstIdentity(m, fetch) ==
  LET status == Identity(m, fetch)
  IN  /\ cache' = [cache EXCEPT ![m] = status]
      /\ lastSent' = [lastSent EXCEPT ![m] = IF status # NoMarket THEN status ELSE @]
      /\ out' = IF status # NoMarket /\ lastSent[m] = NoMarket
                THEN <<[kind |-> "discovered", slug |-> m, status |-> status]>> ELSE out

\* What the loop does with the identity of m: remember it, and send it if it is news.
TakeIdentity(m, fetch) ==
  LET status == Identity(m, fetch)
  IN  /\ cache' = [cache EXCEPT ![m] = status]
      /\ IF status # NoMarket /\ status # lastSent[m]
         THEN /\ lastSent' = [lastSent EXCEPT ![m] = status]
              /\ out' = <<[kind |-> "discovered", slug |-> m, status |-> status]>>
         ELSE UNCHANGED <<lastSent, out>>

FetchCurrent ==
  /\ pc \in {"cur", "next"} /\ out = <<>>
  /\ LET m == slugs[pc]
     IN  /\ TakeIdentity(m, TRUE)
         /\ desired' = IF Identity(m, TRUE) = NoMarket THEN desired ELSE desired \cup {m}
  /\ pc' = IF pc = "cur" THEN "next" ELSE "prev"
  /\ UNCHANGED <<now, gamma, slugs, lastTracked, seeded, subscribed, events, cmds, markets,
                 socket, faults>>

\* The market before is fetched until it is known to be closed.
FetchPrevious ==
  /\ pc = "prev" /\ out = <<>>
  /\ \/ slugs.prev = {} /\ UNCHANGED <<cache, lastSent, out>>
     \/ \E m \in slugs.prev : TakeIdentity(m, cache[m] # "closed")
  /\ pc' = "seed"
  /\ UNCHANGED <<now, gamma, slugs, desired, lastTracked, seeded, subscribed, events, cmds,
                 markets, socket, faults>>

\* An error of Gamma leaves run: the loop is not started again.
FetchFails ==
  /\ pc \in {"cur", "next", "prev"} /\ out = <<>>
  /\ pc = "prev" => \E m \in slugs.prev : cache[m] # "closed"
  /\ Hit("gamma")
  /\ pc' = "dead"
  /\ UNCHANGED <<now, gamma, slugs, desired, out, kept, events, cmds, markets, socket>>

\* fetch_tick_sizes: an answer for some of the tokens, or an error for all.
SeedTicks(answered) ==
  /\ pc = "seed" /\ out = <<>>
  /\ answered \subseteq desired \ seeded
  /\ IF answered = desired \ seeded THEN UNCHANGED faults ELSE Hit("seed")
  /\ seeded' = seeded \cup answered
  /\ out' = SetToSeq({[kind |-> "seed", slug |-> m] : m \in answered})
  /\ pc' = "unsub"
  /\ UNCHANGED <<now, gamma, slugs, desired, lastTracked, lastSent, cache, subscribed, events,
                 cmds, markets, socket>>

\* Mutant: a command that finds no room is dropped.
SendOrDrop(op, tokens) ==
  IF tokens = {} \/ Len(cmds) = CmdCap THEN UNCHANGED cmds
  ELSE cmds' = Append(cmds, [op |-> op, tokens |-> tokens])

\* A command is sent unless it would be empty.
SendCommand(op, tokens) ==
  IF tokens = {} THEN UNCHANGED cmds
  ELSE Len(cmds) < CmdCap /\ cmds' = Append(cmds, [op |-> op, tokens |-> tokens])

Unsubscribe ==
  /\ pc = "unsub" /\ out = <<>>
  /\ SendCommand("unsubscribe", subscribed \ desired)
  /\ pc' = "sub"
  /\ UNCHANGED <<now, gamma, slugs, desired, out, kept, events, markets, socket, faults>>

Subscribe ==
  /\ pc = "sub"
  /\ SendCommand("subscribe", desired \ subscribed)
  /\ subscribed' = desired
  /\ pc' = "wait"
  /\ UNCHANGED <<now, gamma, slugs, desired, out, lastTracked, lastSent, cache, seeded, events,
                 markets, socket, faults>>
-----------------------------------------------------------------------------
(* The market websocket *)

\* apply_command_to_set.
Applied(cmd, set) ==
  IF cmd.op = "subscribe" THEN set \cup cmd.tokens ELSE set \ cmd.tokens

\* Connecting; the first subscription may fail to be sent, which only warns.
Connect ==
  /\ conn = "connecting" /\ sessions < MaxSessions
  /\ sessions' = sessions + 1 /\ conn' = "up"
  /\ \/ server' = wanted /\ broken' = FALSE /\ UNCHANGED faults
     \/ wanted # {} /\ sessions' < MaxSessions /\ Hit("subscribe") /\ server' = {} /\ broken' = TRUE
  /\ UNCHANGED <<now, gamma, pass, kept, events, cmds, markets, wanted>>

ConnectFails ==
  /\ conn = "connecting" /\ Hit("connect")
  /\ conn' = "backoff"
  /\ UNCHANGED <<now, gamma, pass, kept, events, cmds, markets, wanted, server, broken,
                 sessions>>

\* Mutant: a command reaches the session and not the set.
HandleCommandOnWire ==
  /\ conn = "up" /\ cmds # <<>>
  /\ server' = (IF broken THEN {} ELSE Applied(Head(cmds), server))
  /\ cmds' = Tail(cmds)
  /\ UNCHANGED <<now, gamma, pass, kept, events, markets, conn, broken, wanted, sessions, faults>>

\* handle_command: the set is changed first, and what changed is sent.  On a dead
\* connection the send may fail, which ends the session, or go nowhere.
HandleCommand ==
  /\ conn = "up" /\ cmds # <<>>
  /\ wanted' = Applied(Head(cmds), wanted)
  /\ \/ /\ server' = IF broken THEN {} ELSE Applied(Head(cmds), server)
        /\ UNCHANGED <<conn, broken>>
     \/ /\ broken /\ wanted' # wanted
        /\ conn' = "backoff" /\ server' = {} /\ broken' = FALSE
  /\ cmds' = Tail(cmds)
  /\ UNCHANGED <<now, gamma, pass, kept, events, markets, sessions, faults>>

\* A command while the loop waits to reconnect.
QueueCommand ==
  /\ conn = "backoff" /\ cmds # <<>>
  /\ wanted' = Applied(Head(cmds), wanted) /\ cmds' = Tail(cmds)
  /\ UNCHANGED <<now, gamma, pass, kept, events, markets, conn, server, broken,
                 sessions, faults>>

\* The connection dies without a word.  The loop sends no ping and reads without a timeout:
\* nothing need ever tell it.
Break ==
  /\ conn = "up" /\ ~broken /\ sessions < MaxSessions /\ Hit("break")
  /\ broken' = TRUE /\ server' = {}
  /\ UNCHANGED <<now, gamma, pass, kept, events, cmds, markets, conn, wanted, sessions>>

\* A read error, a close frame, the end of the stream, a pong that cannot be sent.
SessionEnds ==
  /\ conn = "up" /\ (broken \/ sessions < MaxSessions)
  /\ conn' = "backoff" /\ server' = {} /\ broken' = FALSE
  /\ UNCHANGED <<now, gamma, pass, kept, events, cmds, markets, wanted, sessions, faults>>

BackoffOver ==
  /\ conn = "backoff"
  /\ conn' = "connecting"
  /\ UNCHANGED <<now, gamma, pass, kept, events, cmds, markets, wanted, server, broken,
                 sessions, faults>>

\* Discovery held the only sender of commands: without it the loop returns.
SocketEnds ==
  /\ pc = "dead" /\ cmds = <<>> /\ conn \in {"up", "backoff"}
  /\ conn' = "ended" /\ server' = {} /\ broken' = FALSE
  /\ UNCHANGED <<now, gamma, pass, kept, events, cmds, markets, wanted, sessions, faults>>
-----------------------------------------------------------------------------
(* StateManager *)

NewMarket(status) == [status |-> status, tick |-> FALSE]
NoState == NewMarket(NoMarket)
Known(state) == state.status # NoMarket

\* apply_event for the events of these two senders.
ApplyEvent(states, event) ==
  CASE event.kind = "tracked" ->
         [m \in Markets |-> IF m \in event.slugs THEN states[m] ELSE NoState]
    [] event.kind = "discovered" ->
         [states EXCEPT ![event.slug] = IF Known(@) THEN [@ EXCEPT !.status = event.status]
                                        ELSE NewMarket(event.status)]
    [] event.kind = "seed" ->
         [states EXCEPT ![event.slug].tick = @ \/ Known(states[event.slug])]

Apply ==
  /\ events # <<>>
  /\ markets' = ApplyEvent(markets, Head(events)) /\ events' = Tail(events)
  /\ UNCHANGED <<now, gamma, pass, kept, cmds, socket, faults>>
-----------------------------------------------------------------------------
(* The world *)

Clock ==
  /\ now < MaxNow /\ now' = now + 1
  /\ UNCHANGED <<gamma, pass, kept, events, cmds, markets, socket, faults>>

\* Gamma lists a market (when it does so before anybody asks does not matter), and
\* closes it after its end.
GammaChanges(m) ==
  /\ \/ gamma[m] = "unlisted" /\ m <= StartOf(now) + Interval /\ gamma' = [gamma EXCEPT ![m] = "open"]
     \/ gamma[m] = "open" /\ m + Interval <= now /\ gamma' = [gamma EXCEPT ![m] = "closed"]
  /\ UNCHANGED <<now, pass, kept, events, cmds, markets, socket, faults>>

Init ==
  /\ now = FirstNow
  /\ gamma = [m \in Markets |-> IF m <= StartOf(FirstNow) THEN "open" ELSE "unlisted"]
  /\ pc = "wait" /\ slugs = DiscoverySlugs(FirstNow) /\ desired = {} /\ out = <<>>
  /\ lastTracked = {} /\ seeded = {} /\ subscribed = {}
  /\ lastSent = [m \in Markets |-> NoMarket] /\ cache = [m \in Markets |-> NoMarket]
  /\ events = <<>> /\ cmds = <<>>
  /\ markets = [m \in Markets |-> NoState]
  /\ conn = "connecting" /\ wanted = {} /\ server = {} /\ broken = FALSE
  /\ sessions = 0 /\ faults = 0

DiscoveryStep ==
  \/ Poll \/ Send \/ FetchCurrent \/ FetchPrevious \/ Unsubscribe \/ Subscribe
  \/ \E answered \in SUBSET Markets : SeedTicks(answered)

SocketStep ==
  Connect \/ HandleCommand \/ QueueCommand \/ BackoffOver \/ SocketEnds

Next ==
  \/ DiscoveryStep \/ FetchFails
  \/ SocketStep \/ ConnectFails \/ Break \/ SessionEnds
  \/ Apply \/ Clock
  \/ \E m \in Markets : GammaChanges(m)

Spec == Init /\ [][Next]_vars

\* Tasks run while they have work, and a connect ends.  That a dead session ends is not
\* assumed.
FairSpec ==
  /\ Spec
  /\ WF_vars(DiscoveryStep) /\ WF_vars(Connect) /\ WF_vars(HandleCommand \/ QueueCommand)
  /\ WF_vars(BackoffOver) /\ WF_vars(SocketEnds) /\ WF_vars(Apply)
=============================================================================
