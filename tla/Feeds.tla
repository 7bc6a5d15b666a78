-------------------------------- MODULE Feeds --------------------------------
(***************************************************************************)
(* One RSS or YouTube feed and one chain of channel rules (feedTick,       *)
(* validateFeed, channelPost in src/src/automation.js).  A scan works on a *)
(* copy of the feed and saves it around every message; the panel edits the *)
(* feed between two ticks.                                                 *)
(***************************************************************************)
EXTENDS Naturals, Sequences, FiniteSets, SequencesExt

CONSTANTS
  Addresses,          \* the URLs a feed may have
  PerSource,          \* entries each of them publishes
  PerDocument,        \* entries of a document that are read (40)
  Remembered,         \* entries a feed remembers (200)
  QueueBound,         \* entries it queues (100)
  Dests,              \* destinations of the feed
  Window,             \* entries one scan works on (3)
  Hops,               \* channel k reposts to channel k + 1; the last one back to the first
  MaxFeedStops, MaxEdits

VARIABLES
  source,     \* per URL the entries it shows now
  feed,       \* feed:<id> as stored: url, initialized, seen, pending
  scan,       \* FALSE, or TRUE while feedTick works on the feed
  forgotten,  \* history: how often the feed dropped an entry from its memory
  feedSent,   \* history: the messages that arrived: entry, its turn, destination
  feedTwice,  \* history: those that arrived again
  baseline,   \* history: what a first scan noted of its URL: entry, its turn
  posts,      \* channel posts whose update is still to be handled: channel and origin
  copied,     \* autocopied and autogenerated keys
  copies,     \* history: copies made of the first post
  feedStops, edits

feedVars == <<source, feed, scan, forgotten, feedSent, feedTwice, baseline, posts, copied, copies, feedStops, edits>>
sentVars == <<feedSent, feedTwice>>
channelVars == <<posts, copied, copies>>

Entries == Addresses \X (1..PerSource)
\* What a source may show, each entry under an id of its own, in any order.
Documents(url) == {shown \in SUBSET ({url} \X (1..PerSource)) : Cardinality(shown) <= PerDocument}
Seen == ToSet(feed.seen)

FeedsInit ==
  /\ source \in [Addresses -> UNION {Documents(url) : url \in Addresses}]
  /\ \A url \in Addresses : source[url] \in Documents(url)
  /\ \E url \in Addresses : feed = [url |-> url, initialized |-> FALSE, seen |-> <<>>, pending |-> <<>>]
  /\ scan = FALSE
  /\ forgotten = [e \in Entries |-> 0]
  /\ feedSent = {} /\ feedTwice = {} /\ baseline = {}
  /\ posts = {[channel |-> 1, id |-> 0]} /\ copied = {} /\ copies = 0
  /\ feedStops = 0 /\ edits = 0

\* Entries come, go, and come back.
Publish(url) ==
  /\ scan = FALSE
  /\ \E shown \in Documents(url) : source' = [source EXCEPT ![url] = shown]
  /\ UNCHANGED <<feed, scan, forgotten, sentVars, baseline, channelVars, feedStops, edits>>

\* The turn of an entry tells its queueings apart: one for each time it was
\* forgotten.
Turn(e) == <<e, forgotten[e]>>
Forget(dropped) == forgotten' = [e \in Entries |-> forgotten[e] + (IF e \in dropped THEN 1 ELSE 0)]

\* Broken: the first scan notes nothing, and the next one queues what was there.
FirstScan_NotesNothing ==
  /\ scan = FALSE /\ ~feed.initialized
  /\ feed' = [feed EXCEPT !.initialized = TRUE]
  /\ baseline' = baseline \cup {Turn(e) : e \in source[feed.url]}
  /\ UNCHANGED <<source, scan, forgotten, sentVars, channelVars, feedStops, edits>>

\* The first scan only notes what is there.
FirstScan ==
  /\ scan = FALSE /\ ~feed.initialized
  /\ \E order \in SetToSeqs(source[feed.url]) : feed' = [feed EXCEPT !.seen = order, !.initialized = TRUE]
  /\ baseline' = baseline \cup {Turn(e) : e \in source[feed.url]}
  /\ UNCHANGED <<source, scan, forgotten, sentVars, channelVars, feedStops, edits>>

Room == IF Len(feed.pending) < QueueBound THEN QueueBound - Len(feed.pending) ELSE 0
Queued(e) == [turn |-> Turn(e), targets |-> [d \in Dests |-> "pending"]]
Latest(s, n) == IF Len(s) <= n THEN s ELSE SubSeq(s, Len(s) - n + 1, Len(s))

\* A later one queues what is new to it, as far as there is room, for every
\* destination, remembers the last of all it noted, and saves that before it
\* sends anything.
ScanFeed ==
  /\ scan = FALSE /\ feed.initialized
  /\ \E fresh \in SetToSeqs(source[feed.url] \ Seen) :
       LET taken == SubSeq(fresh, 1, IF Len(fresh) < Room THEN Len(fresh) ELSE Room)
           noted == feed.seen \o taken
       IN /\ feed' = [feed EXCEPT !.pending = @ \o [k \in DOMAIN taken |-> Queued(taken[k])],
                                  !.seen = Latest(noted, Remembered)]
          /\ Forget(ToSet(noted) \ ToSet(Latest(noted, Remembered)))
  /\ scan' = TRUE
  /\ UNCHANGED <<source, sentVars, baseline, channelVars, feedStops, edits>>

AtHand == 1..(IF Len(feed.pending) < Window THEN Len(feed.pending) ELSE Window)
Mark(k, d, status) == [feed EXCEPT !.pending[k].targets[d] = status]
InFlight == {x \in AtHand \X Dests : feed.pending[x[1]].targets[x[2]] = "sending"}

\* Broken: an interrupted message is sent again.
Retried == "pending"
\* A destination found "sending" at the start was interrupted: it goes to review.
Interrupted == "review"

SendEntry(k, d) ==
  /\ scan /\ InFlight = {} /\ k \in AtHand /\ feed.pending[k].targets[d] = "pending"
  /\ feed' = Mark(k, d, "sending")
  /\ UNCHANGED <<source, scan, forgotten, sentVars, baseline, channelVars, feedStops, edits>>

MessageOf(x) == <<feed.pending[x[1]].turn, x[2]>>
Arrive(messages) == feedSent' = feedSent \cup messages /\ feedTwice' = feedTwice \cup (messages \cap feedSent)

EntryAnswered(k, d) ==
  /\ scan /\ <<k, d>> \in InFlight
  /\ \E status \in {"sent", "review", "failed"} :
       /\ feed' = Mark(k, d, status)
       /\ \/ status # "failed" /\ Arrive({MessageOf(<<k, d>>)})
          \/ status # "sent" /\ UNCHANGED sentVars
  /\ UNCHANGED <<source, scan, forgotten, baseline, channelVars, feedStops, edits>>

Unfinished(item) == \E d \in Dests : item.targets[d] \in {"pending", "review"}

EndScan ==
  /\ scan /\ InFlight = {}
  /\ \A k \in AtHand : \A d \in Dests : feed.pending[k].targets[d] # "pending"
  /\ LET left == {k \in DOMAIN feed.pending : Unfinished(feed.pending[k])} IN
     \E order \in [1..Cardinality(left) -> left] :
       /\ \A i, j \in DOMAIN order : i < j => order[i] < order[j]
       /\ feed' = [feed EXCEPT !.pending = [i \in DOMAIN order |-> feed.pending[order[i]]]]
  /\ scan' = FALSE
  /\ UNCHANGED <<source, forgotten, sentVars, baseline, channelVars, feedStops, edits>>

\* An eviction; the next scan puts the message that was on its way into review.
FeedEvicted ==
  /\ scan /\ feedStops < MaxFeedStops
  /\ feedStops' = feedStops + 1 /\ scan' = FALSE
  /\ Arrive({MessageOf(x) : x \in InFlight}) \/ UNCHANGED sentVars
  /\ LET reviewed(targets) == [d \in Dests |-> IF targets[d] = "sending" THEN Interrupted ELSE targets[d]]
     IN feed' = [feed EXCEPT !.pending = [k \in DOMAIN feed.pending |->
                   [feed.pending[k] EXCEPT !.targets = reviewed(feed.pending[k].targets)]]]
  /\ UNCHANGED <<source, forgotten, baseline, channelVars, edits>>

\* validateFeed: another URL starts from nothing, an edit that keeps it does not.
EditFeed(url) ==
  /\ scan = FALSE /\ edits < MaxEdits /\ edits' = edits + 1
  /\ IF url = feed.url THEN UNCHANGED <<feed, forgotten>>
     ELSE /\ feed' = [url |-> url, initialized |-> FALSE, seen |-> <<>>, pending |-> <<>>]
          /\ Forget(Seen)
  /\ UNCHANGED <<source, scan, sentVars, baseline, channelVars, feedStops>>

-----------------------------------------------------------------------------
(* channelPost: a post is copied along its rules.  validateFeed refuses    *)
(* cycles it can see, but a channel may be named by number or by username. *)

NextChannel(c) == IF c < Hops THEN c + 1 ELSE 1

\* The update of a post; the copy gets an update of its own.  Telegram may
\* deliver an update again as long as it was not answered.
Repost(p, again) ==
  /\ p \in posts
  /\ posts' = IF again THEN posts ELSE posts \ {p}
  /\ UNCHANGED <<copied, copies>>
  /\ \/ <<"generated", p.id>> \in copied
     \/ <<"copied", p.id>> \in copied
  /\ UNCHANGED <<source, feed, scan, forgotten, sentVars, baseline, feedStops, edits>>

CopyPost(p, evicted) ==
  /\ p \in posts /\ ~({<<"generated", p.id>>, <<"copied", p.id>>} \cap copied # {})
  /\ evicted => feedStops < MaxFeedStops
  /\ feedStops' = feedStops + (IF evicted THEN 1 ELSE 0)
  /\ copies' = copies + 1
  /\ posts' = (IF evicted THEN posts ELSE posts \ {p})
              \cup {[channel |-> NextChannel(p.channel), id |-> copies + 1]}
  /\ copied' = copied \cup {<<"copied", p.id>>}
                      \cup (IF evicted THEN {} ELSE {<<"generated", copies + 1>>})
  /\ UNCHANGED <<source, feed, scan, forgotten, sentVars, baseline, edits>>

FeedNext ==
  \/ FirstScan \/ ScanFeed \/ EndScan \/ FeedEvicted
  \/ \E url \in Addresses : EditFeed(url) \/ Publish(url)
  \/ \E k \in 1..Window, d \in Dests : SendEntry(k, d) \/ EntryAnswered(k, d)
ChannelNext == \E p \in posts : \E b \in BOOLEAN : Repost(p, b) \/ CopyPost(p, b)

FeedsNext == FeedNext \/ ChannelNext
FeedsSpec == FeedsInit /\ [][FeedsNext]_feedVars

-----------------------------------------------------------------------------
\* Whatever is interrupted, a destination gets an entry once, and what a first
\* scan found at its URL never, unless the feed has forgotten the entry since: it
\* noted Remembered others, or another URL in between; a channel post is copied
\* once, and once more for every eviction that lost the mark of a copy.
FeedPostsOnce ==
  /\ feedTwice = {}
  /\ \A turn \in baseline, d \in Dests : <<turn, d>> \notin feedSent
  /\ copies <= 1 + feedStops
=============================================================================
