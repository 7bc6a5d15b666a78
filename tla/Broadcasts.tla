------------------------------ MODULE Broadcasts ------------------------------
(***************************************************************************)
(* One broadcast job (src/src/broadcast.js): the coordinator works through *)
(* its targets in batches, saving the job around every message, while the  *)
(* administrator pauses, resumes, stops or skips between two ticks.        *)
(* NextDue stands for every reason a tick ends early: the batch, the       *)
(* twelve seconds, the pause Telegram asks for.                            *)
(***************************************************************************)
EXTENDS Naturals, FiniteSets

CONSTANTS
  NTargets, MaxCycles,
  MaxAttempts,       \* tries to delete a message before giving up (5)
  MaxBroadcastStops, \* evictions of the process
  MaxBadSaves,       \* saves that fail while the process lives
  MaxClicks          \* of the administrator

VARIABLES
  job,        \* broadcast:<id> as stored
  ticking,    \* "no", or who runs the tick: "cron" or "panel"
  older,      \* the copy broadcastTick read before it called tickBroadcast
  moduleOn,   \* the broadcast (and channel) module is enabled
  unreachable,\* targets whose user is banned or blocked the bot
  removals,   \* deletion:<job>:<cycle>:<cursor> -> attempts
  removed,    \* messages deleted, or listed under deleteerror
  got, lost,  \* history: messages per target and cycle; deliveries nobody knows of
  broadcastStops, badSaves, clicks

removalVars == <<removals, removed>>
bounds == <<broadcastStops, badSaves, clicks>>
broadcastVars == <<job, ticking, older, moduleOn, unreachable, removalVars, got, lost, bounds>>

Nowhere == NTargets       \* no target is in flight
Slots == (0..MaxCycles) \X (0..(NTargets - 1))

BroadcastInit ==
  /\ \E status \in {"running", "scheduled", "ticking"}, repeat \in BOOLEAN :
       job = [status |-> status, repeat |-> repeat, cursor |-> 0, cycle |-> 0,
              sent |-> 0, failed |-> 0, inFlight |-> Nowhere]
  /\ ticking = "no" /\ older = job
  /\ moduleOn = TRUE /\ unreachable = {}
  /\ removals = [m \in {} |-> 0] /\ removed = {}
  /\ got = [m \in Slots |-> 0] /\ lost = {}
  /\ broadcastStops = 0 /\ badSaves = 0 /\ clicks = 0

\* Broken: what was in flight when the process stopped is sent again.
SentAgain == [job EXCEPT !.inFlight = Nowhere]
NeedsReview == [job EXCEPT !.status = "needs_review"]

\* A tick that only corrects the status: an interrupted delivery of this or of
\* an earlier version, or a module that was switched off.
BroadcastHeld ==
  /\ ticking = "no"
  /\ \/ job.status = "ticking" /\ job' = NeedsReview
     \/ job.status \in {"running", "scheduled"} /\ ~moduleOn /\ job' = [job EXCEPT !.status = "paused"]
     \/ /\ job.status \in {"running", "scheduled"} /\ moduleOn /\ job.inFlight # Nowhere
        /\ job' = NeedsReview
  /\ UNCHANGED <<ticking, older, moduleOn, unreachable, removalVars, got, lost, bounds>>

BeginTick(by) ==
  /\ ticking = "no" /\ job.status \in {"running", "scheduled"} /\ moduleOn /\ job.inFlight = Nowhere
  /\ job.cycle <= MaxCycles
  /\ ticking' = by /\ older' = job
  /\ job' = [job EXCEPT !.status = "running"]
  /\ UNCHANGED <<moduleOn, unreachable, removalVars, got, lost, bounds>>

Passed(ok) == [job EXCEPT !.cursor = @ + 1, !.inFlight = Nowhere,
                          !.sent = @ + (IF ok THEN 1 ELSE 0), !.failed = @ + (IF ok THEN 0 ELSE 1)]

\* The next target is noted as in flight before the message leaves, or passed
\* over when its user is banned or has blocked the bot.
SendNext ==
  /\ ticking # "no" /\ job.cursor < NTargets /\ job.inFlight = Nowhere
  /\ job' = IF job.cursor \in unreachable THEN Passed(FALSE) ELSE [job EXCEPT !.inFlight = job.cursor]
  /\ UNCHANGED <<ticking, older, moduleOn, unreachable, removalVars, got, lost, bounds>>

Message == <<job.cycle, job.cursor>>
Arrives == got' = [got EXCEPT ![Message] = @ + 1]

Delivered ==
  /\ job' = Passed(TRUE) /\ Arrives
  /\ removals' = [m \in DOMAIN removals \cup {Message} |-> IF m = Message THEN 0 ELSE removals[m]]
  /\ UNCHANGED <<ticking, unreachable, lost>>

Refused ==
  /\ job' = Passed(FALSE)
  /\ unreachable' \in {unreachable, unreachable \cup {job.cursor}}
  /\ UNCHANGED <<ticking, got, lost, removals>>

TooMany ==
  /\ job' = [job EXCEPT !.inFlight = Nowhere] /\ ticking' = "no"
  /\ UNCHANGED <<unreachable, got, lost, removals>>

Uncertain ==
  /\ job' = NeedsReview /\ ticking' = "no"
  /\ Arrives \/ UNCHANGED got
  /\ lost' = lost \cup {Message}
  /\ UNCHANGED <<unreachable, removals>>

DeliveryAnswers ==
  /\ ticking # "no" /\ job.inFlight # Nowhere
  /\ Delivered \/ Refused \/ TooMany \/ Uncertain
  /\ UNCHANGED <<older, moduleOn, removed, bounds>>

\* The tick ends early, or at the last target: the job is done or starts again.
EndTick ==
  /\ ticking # "no" /\ job.inFlight = Nowhere
  /\ ticking' = "no"
  /\ job' = IF job.cursor < NTargets THEN job
            ELSE IF job.repeat THEN [job EXCEPT !.status = "scheduled", !.cycle = @ + 1, !.cursor = 0]
            ELSE [job EXCEPT !.status = "done"]
  /\ UNCHANGED <<older, moduleOn, unreachable, removalVars, got, lost, bounds>>

\* A save fails after the message was sent.  The cron tick then stores the copy
\* it had read before the tick, a panel tick leaves the job as last saved.
SaveFails ==
  /\ ticking # "no" /\ job.inFlight # Nowhere /\ badSaves < MaxBadSaves
  /\ badSaves' = badSaves + 1
  /\ Arrives \/ UNCHANGED got
  /\ lost' = lost \cup {Message}
  /\ job' = IF ticking = "cron" THEN older ELSE job
  /\ ticking' = "no"
  /\ UNCHANGED <<older, moduleOn, unreachable, removalVars, broadcastStops, clicks>>

BroadcastEvicted ==
  /\ ticking # "no" /\ broadcastStops < MaxBroadcastStops
  /\ broadcastStops' = broadcastStops + 1 /\ ticking' = "no"
  /\ IF job.inFlight = Nowhere THEN UNCHANGED <<got, lost>>
     ELSE (Arrives \/ UNCHANGED got) /\ lost' = lost \cup {Message}
  /\ UNCHANGED <<job, older, moduleOn, unreachable, removalVars, badSaves, clicks>>

Click(action) ==
  /\ ticking = "no" /\ clicks < MaxClicks /\ clicks' = clicks + 1
  /\ job' = CASE action = "pause" /\ job.status \in {"running", "scheduled"} -> [job EXCEPT !.status = "paused"]
              [] action = "resume" /\ job.status = "paused" -> [job EXCEPT !.status = "running"]
              [] action = "stop" -> [job EXCEPT !.status = "stopped"]
              [] action = "skip" /\ job.status = "needs_review" ->
                   [Passed(FALSE) EXCEPT !.status = "running"]
              [] OTHER -> job
  /\ UNCHANGED <<ticking, older, moduleOn, unreachable, removalVars, got, lost, broadcastStops, badSaves>>

ToggleModule ==
  /\ ticking = "no" /\ clicks < MaxClicks /\ clicks' = clicks + 1
  /\ moduleOn' = ~moduleOn
  /\ UNCHANGED <<job, ticking, older, unreachable, removalVars, got, lost, broadcastStops, badSaves>>

\* The end of broadcastTick: a message whose time has come is deleted, or tried
\* again later; after MaxAttempts it is only listed.
DeleteMessage(m) ==
  /\ ticking = "no" /\ m \in DOMAIN removals
  /\ \E deleted \in BOOLEAN :
       IF deleted \/ removals[m] + 1 >= MaxAttempts
       THEN /\ removals' = [x \in DOMAIN removals \ {m} |-> removals[x]]
            /\ removed' = removed \cup {m}
       ELSE removals' = [removals EXCEPT ![m] = @ + 1] /\ UNCHANGED removed
  /\ UNCHANGED <<job, ticking, older, moduleOn, unreachable, got, lost, bounds>>

BroadcastNext ==
  \/ BroadcastHeld \/ SendNext \/ DeliveryAnswers \/ EndTick \/ SaveFails \/ BroadcastEvicted \/ ToggleModule
  \/ \E by \in {"cron", "panel"} : BeginTick(by)
  \/ \E action \in {"pause", "resume", "stop", "skip"} : Click(action)
  \/ \E m \in Slots : DeleteMessage(m)

BroadcastSpec == BroadcastInit /\ [][BroadcastNext]_broadcastVars

-----------------------------------------------------------------------------
\* Whatever is interrupted, paused or skipped, no target gets the message of a
\* cycle twice, unless a save failed under a living process; what was sent and
\* what was not add up to the targets behind the cursor; and every message that
\* got through is deleted, listed or still to be deleted, unless its answer
\* was lost.
BroadcastOnce ==
  /\ \A m \in Slots : got[m] <= 1 + badSaves
  /\ job.sent + job.failed = job.cycle * NTargets + job.cursor
  /\ \A m \in Slots \ lost : got[m] > 0 => m \in removed \cup DOMAIN removals
=============================================================================
