------------------------ MODULE MarketFeedProperties ------------------------
(***************************************************************************)
(* What is claimed of MarketFeed.  StateManager and the websocket lag      *)
(* behind what discovery has sent them: the claims compare what they will  *)
(* have, once they have read their channels, with what discovery believes. *)
(***************************************************************************)
EXTENDS MarketFeed

Ahead == FoldLeft(ApplyEvent, markets, events \o out)
AheadWanted == FoldLeft(LAMBDA set, cmd : Applied(cmd, set), wanted, cmds)

\* StateManager keeps exactly the tracked markets that discovery has announced,
\* as it announced them last, with the tick sizes it was sent once and for all: no
\* SetTrackedMarkets overtakes a MarketDiscovered, no seed comes before its market, and
\* nothing is taken for sent when it is not.
IdentitiesAreCurrent ==
  \A m \in Markets :
    /\ Ahead[m].status = (IF m \in lastTracked THEN lastSent[m] ELSE NoMarket)
    /\ m \in seeded /\ Known(Ahead[m]) => Ahead[m].tick

\* The websocket will want what discovery believes it is subscribed to, and a live
\* session serves what it wants, whatever happened to its sessions in between: commands
\* that came while it was down, or whose send ended the session before, are in its first
\* subscription.
SubscriptionsFollow ==
  /\ conn # "ended" =>
       AheadWanted = IF pc = "sub" THEN subscribed \cap desired ELSE subscribed
  /\ conn = "up" /\ ~broken => server = wanted

Window == DiscoverySlugs(now)

\* Once the world is quiet, the websocket serves the current and the next market if Gamma
\* lists them: what discovery has sent survives failed connects, failed sends and sessions
\* that ended.  Two things end this for good, as the code has it: an error of Gamma, which
\* ends discovery, and a session that is dead and that nothing tells (MarketWsLoop::run
\* sends no ping and has no read timeout).
FeedSettles ==
  <>[](pc = "dead" \/ broken \/ \A m \in {Window.cur, Window.next} :
                                    gamma[m] # "unlisted" => m \in server)

\* Once the world is quiet, StateManager knows of every tracked market that has
\* closed, which is what its redemption waits for.
ClosureIsLearned ==
  <>[](pc = "dead" \/ \A m \in TrackedSlugs(Window) :
                        gamma[m] = "closed" => markets[m].status = "closed")
=============================================================================
