---------------------------- MODULE MCBackground ----------------------------
(***************************************************************************)
(* The loops that work behind trading, together: Candles, RealtimeFeed,    *)
(* Fetchers, PhraseCounts, Documents, Watchdog and Upkeep.  They share no  *)
(* state: a behaviour runs the one that `part` names, and the variables of *)
(* the others stay at a start of theirs.  `item` is what a liveness        *)
(* property is about: a market, a post, a source, a service.               *)
(***************************************************************************)
EXTENDS Integers, FiniteSets, TLC

CONSTANTS
  Quoted, Opens, Closes, Span, Budget, Retention, Horizon, RunFailures,   \* of Candles
  Account, MainServices, LongestWait, Posts, FeedFailures,                \* of RealtimeFeed
  Sources, FetcherWait, FetcherStale,                                     \* of Fetchers
  Spoken, RefreshEvery, Asks, FactFailures,                               \* of PhraseCounts
  Writers, Urls, Texts, MaxVersion, StoreFailures,                        \* of Documents
  Monitored, SignalLoop, PriceFeed, Stale, Cap, MaxTrouble,               \* of Watchdog
  Day, DigestHour, Changes, MaxUpkeepTrouble                              \* of Upkeep

VARIABLES
  part, item,
  clock, have, cursor, job, runFailures, cut,
  rtRows, rtCursor, stored, feed, pub, rtFailures, trips, ticks, missed,
  dead, fetcherRows, beatAge,
  listed, up, counts, ready, todo, terms, asked, phraseFailures,
  text, web, table, mine, toStore, upsert, rewritten, overlapped, storeFailures,
  heartbeat, hung, connected, subscribed, message, uptime, runState, alerted, pass,
  passed, trouble, told, excused,
  hour, change, digestIn, refreshIn, checkIn, digests, checkAge, checkFailed, at,
  aborted, unsaved, saved, beat, failed, dbFailed, upkeepTrouble

candles == <<clock, have, cursor, job, runFailures, cut>>
posts   == <<rtRows, rtCursor, stored, feed, pub, rtFailures, trips, ticks, missed>>
sources == <<dead, fetcherRows, beatAge>>
phrases == <<listed, up, counts, ready, todo, terms, asked, phraseFailures>>
store   == <<text, web, table, mine, toStore, upsert, rewritten, overlapped, storeFailures>>
watch   == <<heartbeat, hung, connected, subscribed, message, uptime, runState, alerted,
             pass, passed, trouble, told, excused>>
upkeep  == <<hour, change, digestIn, refreshIn, checkIn, digests, checkAge, checkFailed,
             at, aborted, unsaved, saved, beat, failed, dbFailed, upkeepTrouble>>

back == <<part, item, candles, posts, sources, phrases, store, watch, upkeep>>

K == INSTANCE Candles WITH Markets <- Quoted, Failures <- RunFailures, failures <- runFailures
R == INSTANCE RealtimeFeed WITH
       Feed <- Account, Others <- MainServices, MaxSkip <- LongestWait,
       Failures <- FeedFailures, rows <- rtRows, cursor <- rtCursor, failures <- rtFailures
F == INSTANCE Fetchers WITH
       MaxSkip <- FetcherWait, Stale <- FetcherStale, rows <- fetcherRows, beat <- beatAge
P == INSTANCE PhraseCounts WITH
       Markets <- Spoken, Failures <- FactFailures,
       Refresh <- RefreshEvery, row <- counts, failures <- phraseFailures
D == INSTANCE Documents WITH
       Sessions <- Writers, Failures <- StoreFailures, todo <- toStore,
       failures <- storeFailures
W == INSTANCE Watchdog WITH
       Services <- Monitored, Loop <- SignalLoop, Feed <- PriceFeed, row <- heartbeat, active <- alerted
U == INSTANCE Upkeep WITH MaxTrouble <- MaxUpkeepTrouble, trouble <- upkeepTrouble

ASSUME BackgroundAssumption ==
  /\ K!CandleAssumption
  /\ Account \notin MainServices /\ LongestWait \in Nat \ {0, 1} /\ IsFiniteSet(Posts)
  /\ MaxVersion \in Nat /\ MaxVersion < D!None
  /\ Day \in Nat /\ DigestHour \in 2 .. Day - 2 /\ Changes \subseteq {"none", "forward"}

\* The posts, and the loops, are interchangeable: one stands for all.
Items == [candles |-> Quoted, posts |-> {CHOOSE p \in Posts : TRUE}, sources |-> Sources,
          phrases |-> {CHOOSE m \in Spoken : TRUE}, store |-> {CHOOSE s \in Writers : TRUE},
          watch |-> Monitored, upkeep |-> {"none"}]

OneText == [u \in Urls |-> [v \in 0 .. MaxVersion |-> CHOOSE t \in Texts : TRUE]]

\* Of two markets whose lives overlap, the second closes later and is longer than a
\* request.
MCOpens == [m \in Quoted |-> IF m = "early" THEN 0 ELSE 1]
MCCloses == [m \in Quoted |-> IF m = "early" THEN 2 ELSE 4]

BackInit ==
  /\ part \in DOMAIN Items /\ item \in Items[part]
  /\ K!Init /\ R!Init /\ F!Init /\ P!Init /\ D!Init /\ W!Init /\ U!Init
  /\ part # "phrases" => listed = {}
  /\ part # "store" => text = OneText
  /\ part # "watch" => hung = {}
  /\ part # "upkeep" => hour = 0 /\ change = "none"

BackNext ==
  \/ /\ part = "candles" /\ K!Next
     /\ UNCHANGED <<part, item, posts, sources, phrases, store, watch, upkeep>>
  \/ /\ part = "posts" /\ R!Next
     /\ UNCHANGED <<part, item, candles, sources, phrases, store, watch, upkeep>>
  \/ /\ part = "sources" /\ F!Next
     /\ UNCHANGED <<part, item, candles, posts, phrases, store, watch, upkeep>>
  \/ /\ part = "phrases" /\ P!Next
     /\ UNCHANGED <<part, item, candles, posts, sources, store, watch, upkeep>>
  \/ /\ part = "store" /\ D!Next
     /\ UNCHANGED <<part, item, candles, posts, sources, phrases, watch, upkeep>>
  \/ /\ part = "watch" /\ W!Next
     /\ UNCHANGED <<part, item, candles, posts, sources, phrases, store, upkeep>>
  \/ /\ part = "upkeep" /\ U!Next
     /\ UNCHANGED <<part, item, candles, posts, sources, phrases, store, watch>>

\* The fairness of each module's own specification.
BackFairness ==
  /\ WF_candles(part = "candles" /\ K!Refresh)
  /\ WF_posts(part = "posts" /\ R!Cycle)
  /\ \A s \in Sources : WF_sources(part = "sources" /\ F!Calls(s))
  /\ WF_phrases(part = "phrases" /\ P!Step)
  /\ \A s \in Writers : WF_store(part = "store" /\ D!Step(s))
  /\ WF_watch(part = "watch" /\ W!WatchdogStep) /\ WF_watch(part = "watch" /\ W!Tick)

BackSpec ==
  /\ BackInit
  /\ [][BackNext]_back
  /\ BackFairness

-----------------------------------------------------------------------------
(* "Cursors record what was covered": what a candle cursor claims is there. *)
(* Not so, see CandlesCut.cfg: FeedsKnow has what holds instead.            *)
CoverageTrue == K!CoverageTrue

(* A feed knows what it has: the wait of a refused service is what its      *)
(* refusals and its own committed cycles make it, the cursor of an account  *)
(* passes no post that was not stored or missed, a history of candles has no *)
(* holes and its cursor claims no more than is there unless a fetch was cut *)
(* by the budget, a market let through to the strategy has counts, and two  *)
(* rows say the same only for one of the two reasons Documents names.       *)
FeedsKnow == /\ R!BackoffLaw /\ R!NoPostSkipped
             /\ K!CoverageClaimed
             /\ P!ReadyHasCounts
             /\ D!TwinsExplained

(* The daily chores: one digest a day, a heartbeat that means saved rows,   *)
(* the changelog looked at in time.                                         *)
ChoresDone == U!DigestOncePerDay /\ U!BeatIsSaved /\ U!ChangelogWatched

(* The realtime loop changes the shared backoff table only as module        *)
(* Backoff allows.                                                          *)
RealtimeBackoffKept == R!BackoffKept

(* One outage, one page, unless the watchdog lost its memory of the first.  *)
OncePerOutage == W!OncePerOutage

(* What lasts comes out: a published post is stored or missed in the end     *)
(* (PostsArrive), the history of a closed market is stored whole before the *)
(* exchange drops it unless a fetch was cut (HistoryKept), no session of the store is open for ever*)
(* (SessionsEnd); an outage of Reddit's, or of a source out of quota, shows *)
(* in its heartbeat (OutageShows), a service that hangs is paged about      *)
(* (HangsArePaged), the counts of an API that is back are put right         *)
(* (CountsRecover).                                                         *)
Lasts == CASE part = "posts"   -> item \in R!Published
           [] part = "candles" -> clock > Closes[item] /\ item \notin cut
           [] part = "store"   -> ~D!Idle(item)
           [] part = "sources" -> dead[item] \in IF item = "reddit" THEN F!Refusals \ {"404"}
                                                 ELSE {"429"}
           [] part = "watch"   -> W!Watched(item)
           [] part = "phrases" -> up /\ item \in listed /\ P!HasRow(item)
           [] OTHER            -> FALSE
Answered == CASE part = "posts"   -> item \in stored \cup missed
              [] part = "candles" -> have[item] = K!Life(item) \/ K!Gone(item, clock)
              [] part = "sources" -> F!Shows(item)
              [] part = "watch"   -> item \in told
              [] part = "phrases" -> counts[item].counts = "right"
              [] OTHER            -> FALSE

LastingIsAnswered == <>[]Lasts => <>[]Answered
=============================================================================
