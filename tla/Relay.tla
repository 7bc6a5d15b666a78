------------------------------- MODULE Relay --------------------------------
(***************************************************************************)
(* Copying a customer's message to the configured chats without forward    *)
(* attribution (src/src/automation.js, relayMessage, publishRelay and      *)
(* relayTick): rows that collect an album, wait for the administrator or   *)
(* are ready, and are published once.  Updates, the panel and the minute's *)
(* tick are served one at a time (the coordinator's queue); the process    *)
(* may be evicted at any point of them.                                    *)
(***************************************************************************)
EXTENDS Naturals, Sequences

CONSTANTS
  RelayDests,                   \* settings.relay.destinations
  MaxRelays, MaxRelayStops, MaxRelayClicks

VARIABLES
  relays,        \* the "relay" rows, in the order of allEntities
  album,         \* the row "relayalbum" names, 0 for none
  relayOn, approval, bot,  \* settings.relay.enabled and .approval (the module is on), the token's bot
  publishing,    \* the row being published, 0 for none
  visiting,       \* the rows the tick has still to visit
  relayed,        \* history: copies of a row at a destination
  agreed,        \* history: rows the administrator, or his settings, released
  relayStops, relayClicks

relayVars == <<relays, album, relayOn, approval, bot, publishing, visiting, relayed, agreed, relayStops, relayClicks>>

\* to: the status of each destination.
NewRow(status, m) ==
  [status |-> status, messages |-> {m}, to |-> [d \in RelayDests |-> "none"], bot |-> bot]
Rows == DOMAIN relays
Idle == publishing = 0 /\ visiting = <<>>

RelayInit ==
  /\ relays = <<>> /\ album = 0 /\ relayOn = TRUE /\ approval \in BOOLEAN /\ bot = 1
  /\ publishing = 0 /\ visiting = <<>>
  /\ relayed = [r \in 1..MaxRelays |-> [d \in RelayDests |-> 0]] /\ agreed = {}
  /\ relayStops = 0 /\ relayClicks = 0

-----------------------------------------------------------------------------
(* publishRelay                                                            *)

\* Broken: a row that was published before may be published again.
AnyStatus(row, ds) == row.bot = bot /\ ds # {}
Publishable(row, ds) ==
  /\ row.status \in {"pending", "ready"}
  /\ row.bot = bot /\ ds # {}   \* of this bot, and at least one valid destination

Published(rows, r, ds) ==
  [rows EXCEPT ![r].status = "publishing", ![r].to = [d \in RelayDests |-> IF d \in ds THEN "pending" ELSE "none"]]

\* One destination: "sending" is saved before the copy is asked for.
SendCopy ==
  /\ publishing # 0
  /\ ~ \E d \in RelayDests : relays[publishing].to[d] = "sending"
  /\ \E d \in RelayDests :
       /\ relays[publishing].to[d] = "pending"
       /\ relays' = [relays EXCEPT ![publishing].to[d] = "sending"]
       /\ \E arrives \in {0, 1} : relayed' = [relayed EXCEPT ![publishing][d] = @ + arrives]
  /\ UNCHANGED <<album, relayOn, approval, bot, publishing, visiting, agreed, relayStops, relayClicks>>

\* "review": the answer was lost, "failed": refused, or only part of an album copied.
CopyAnswered ==
  /\ publishing # 0
  /\ \E d \in RelayDests, answer \in {"sent", "review", "failed"} :
       /\ relays[publishing].to[d] = "sending"
       /\ answer = "sent" => relayed[publishing][d] > 0
       /\ relays' = [relays EXCEPT ![publishing].to[d] = answer]
  /\ UNCHANGED <<album, relayOn, approval, bot, publishing, visiting, relayed, agreed, relayStops, relayClicks>>

EndPublish ==
  /\ publishing # 0
  /\ LET to == relays[publishing].to IN
       /\ \A d \in RelayDests : to[d] \notin {"pending", "sending"}
       /\ relays' = [relays EXCEPT ![publishing].status =
                       IF \A d \in RelayDests : to[d] \in {"sent", "none"} THEN "sent" ELSE "failed"]
  /\ publishing' = 0
  /\ UNCHANGED <<album, relayOn, approval, bot, visiting, relayed, agreed, relayStops, relayClicks>>

-----------------------------------------------------------------------------
(* relayMessage: an update delivered again after an eviction makes its row  *)
(* again; a message of an album joins the row that still collects it.  The  *)
(* notice to the administrator (notifyRelayAdmin) changes nothing here.     *)

SingleMessage ==
  /\ Idle /\ relayOn /\ Len(relays) < MaxRelays
  /\ \/ approval /\ relays' = Append(relays, NewRow("pending", 1)) /\ UNCHANGED <<publishing, agreed>>
     \/ /\ ~approval /\ agreed' = agreed \cup {Len(relays) + 1}
        /\ \/ relays' = Published(Append(relays, NewRow("ready", 1)), Len(relays) + 1, RelayDests)
              /\ publishing' = Len(relays) + 1
           \/ relays' = Append(relays, NewRow("ready", 1)) /\ UNCHANGED publishing   \* evicted
  /\ UNCHANGED <<album, relayOn, approval, bot, visiting, relayed, relayStops, relayClicks>>

AlbumMessage ==
  \E m \in {1, 2} :
    /\ Idle /\ relayOn
    /\ IF album # 0 /\ relays[album].status = "collecting"
       THEN relays' = [relays EXCEPT ![album].messages = @ \cup {m}] /\ UNCHANGED album
       ELSE /\ Len(relays) < MaxRelays /\ relays' = Append(relays, NewRow("collecting", m))
            /\ album' \in {album, Len(relays) + 1}   \* evicted before the album's record is saved
    /\ UNCHANGED <<relayOn, approval, bot, publishing, visiting, relayed, agreed, relayStops, relayClicks>>

-----------------------------------------------------------------------------
(* relayTick: a publication that throws ends the visit of the rows          *)

BeginRelayTick ==
  /\ Idle /\ relays # <<>> /\ visiting' = [i \in Rows |-> i]
  /\ UNCHANGED <<relays, album, relayOn, approval, bot, publishing, relayed, agreed, relayStops, relayClicks>>

\* Publishes row r of rows, or throws.
Release(rows, r) ==
  /\ agreed' = agreed \cup {r}
  /\ IF Publishable(rows[r], RelayDests)
     THEN relays' = Published(rows, r, RelayDests) /\ publishing' = r /\ visiting' = Tail(visiting)
     ELSE relays' = rows /\ visiting' = <<>> /\ UNCHANGED publishing

VisitRow ==
  /\ publishing = 0 /\ visiting # <<>>
  /\ LET r == Head(visiting) IN
       \/ /\ relays[r].status = "publishing"   \* the process that published it is gone
          /\ relays' = [relays EXCEPT ![r].status = "review"]
          /\ visiting' = Tail(visiting) /\ UNCHANGED <<publishing, agreed>>
       \/ relays[r].status = "ready" /\ relayOn /\ ~approval /\ Release(relays, r)
       \/ /\ relays[r].status = "collecting"   \* four seconds after its last message
          /\ IF approval
             THEN /\ relays' = [relays EXCEPT ![r].status = "pending"]
                  /\ visiting' = Tail(visiting) /\ UNCHANGED <<publishing, agreed>>
             ELSE LET rows == [relays EXCEPT ![r].status = "ready"] IN
                  IF relayOn THEN Release(rows, r)
                  ELSE /\ relays' = rows /\ agreed' = agreed \cup {r}
                       /\ visiting' = Tail(visiting) /\ UNCHANGED publishing
       \/ /\ relays[r].status \notin {"publishing"} /\ ~(relays[r].status = "ready" /\ relayOn /\ ~approval)
          /\ visiting' = Tail(visiting) /\ UNCHANGED <<relays, publishing, agreed>>
  /\ UNCHANGED <<album, relayOn, approval, bot, relayed, relayStops, relayClicks>>

-----------------------------------------------------------------------------
(* The administrator, in the panel and in Telegram                         *)

Clicked == relayClicks < MaxRelayClicks /\ relayClicks' = relayClicks + 1 /\ UNCHANGED relayStops

Approve ==
  \E r \in Rows, ds \in SUBSET RelayDests :
    /\ Idle /\ Clicked /\ Publishable(relays[r], ds)
    /\ relays' = Published(relays, r, ds) /\ publishing' = r /\ agreed' = agreed \cup {r}
    /\ UNCHANGED <<album, relayOn, approval, bot, visiting, relayed>>

\* Broken: the bot's button rejects what is already out.
RejectsAll == {"pending", "ready", "failed", "publishing", "sent", "review"}
\* The bot's button; the panel rejects a pending row only.
Rejects == {"pending", "ready", "failed"}
RejectRelay ==
  \E r \in Rows :
    /\ Idle /\ Clicked /\ relays[r].status \in Rejects
    /\ relays' = [relays EXCEPT ![r].status = "rejected"]
    /\ UNCHANGED <<album, relayOn, approval, bot, publishing, visiting, relayed, agreed>>

RelaySettings ==
  /\ Idle /\ Clicked
  /\ \/ relayOn' = ~relayOn /\ UNCHANGED <<approval, bot>>
     \/ approval' = ~approval /\ UNCHANGED <<relayOn, bot>>
     \/ bot' = 3 - bot /\ UNCHANGED <<relayOn, approval>>
  /\ UNCHANGED <<relays, album, publishing, visiting, relayed, agreed>>

RelayEvicted ==
  /\ ~Idle /\ relayStops < MaxRelayStops /\ relayStops' = relayStops + 1
  /\ publishing' = 0 /\ visiting' = <<>>
  /\ UNCHANGED <<relays, album, relayOn, approval, bot, relayed, agreed, relayClicks>>

RelayNext ==
  \/ SendCopy \/ CopyAnswered \/ EndPublish \/ SingleMessage \/ AlbumMessage \/ BeginRelayTick \/ VisitRow
  \/ Approve \/ RejectRelay \/ RelaySettings \/ RelayEvicted

RelaySpec == RelayInit /\ [][RelayNext]_relayVars

-----------------------------------------------------------------------------
\* A row reaches each chat once at most, through evictions, lost answers and the
\* tick; only a row that was released reaches any; and what the administrator
\* rejected never went out whole.
RelayOnce ==
  \A r \in Rows :
    /\ \A d \in RelayDests :
         /\ relayed[r][d] <= 1
         /\ relayed[r][d] > 0 => r \in agreed /\ relays[r].to[d] # "none"
    /\ relays[r].status = "rejected" =>
         (\A d \in RelayDests : relays[r].to[d] = "none") \/ (\E d \in RelayDests : relays[r].to[d] \in {"failed", "review"})
    /\ relays[r].status = "sent" => \A d \in RelayDests : relays[r].to[d] \in {"sent", "none"}
=============================================================================
