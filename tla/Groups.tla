------------------------------- MODULE Groups -------------------------------
(***************************************************************************)
(* A guarded group (src/src/groups.js): one member who joins, is          *)
(* challenged, talks and is punished, the administrators' commands, the    *)
(* night mode of groupTick and a raffle.  The coordinator's group lock     *)
(* makes each update and each tick one step, cut only by an eviction; an   *)
(* update is then delivered again.                                         *)
(***************************************************************************)
EXTENDS Naturals

CONSTANTS
  WarnLimit,
  MaxJoins, MaxCommands, MaxNights, MaxGroupStops

VARIABLES
  group,     \* group:<id>: on, captcha (or rules), lockChat, nightActive, normalPermissions
  chat,      \* the chat's permissions at Telegram: "own" of the group, "all" or "locked"
  member,    \* at Telegram: here, muted, whether the mute ends by itself, banned for "no", "minute" or "ever"
  challenge, \* captcha:<group>:<member>
  warns,     \* warn:<group>:<member>
  raffle,    \* raffle:<id> and the number of winners announced
  arriving,  \* join updates not yet handled (chat_member and new_chat_members)
  nightTime, \* isNight
  verified,  \* history: he passed, or an administrator or a refusal of Telegram let him in
  joins, commands, nights, groupStops

groupBounds == <<joins, commands, nights, groupStops>>
groupVars == <<group, chat, member, challenge, warns, raffle, arriving, nightTime, verified, groupBounds>>

NoChallenge == [status |-> "none", perms |-> "none", fresh |-> FALSE, late |-> FALSE, attempts |-> 0]

GroupInit ==
  /\ \E captcha \in BOOLEAN :
       group = [on |-> TRUE, captcha |-> captcha, lock |-> FALSE, night |-> FALSE, normal |-> "none"]
  /\ chat = "own" /\ member = [here |-> FALSE, muted |-> FALSE, until |-> FALSE, banned |-> "no"]
  /\ challenge = NoChallenge /\ warns = 0 /\ raffle = [status |-> "none", joined |-> 0, announced |-> 0]
  /\ arriving = 0 /\ nightTime = FALSE /\ verified = FALSE
  /\ joins = 0 /\ commands = 0 /\ nights = 0 /\ groupStops = 0

CanTalk == member.here /\ ~member.muted /\ chat # "locked"
Quiet(g) == g.night \/ g.lock                \* the chat is closed
Normal(g) == IF g.normal = "none" THEN "all" ELSE g.normal
Restricted(perms) == [member EXCEPT !.muted = perms = "locked", !.until = FALSE]
Stops == groupStops < MaxGroupStops /\ groupStops' = groupStops + 1

Join ==
  /\ ~member.here /\ member.banned = "no" /\ joins < MaxJoins /\ joins' = joins + 1
  /\ member' = [member EXCEPT !.here = TRUE] /\ arriving' \in {1, 2}
  /\ verified' = (verified /\ challenge.fresh)
  /\ UNCHANGED <<group, chat, challenge, warns, raffle, nightTime, commands, nights, groupStops>>

Leave ==
  /\ member.here /\ member' = [member EXCEPT !.here = FALSE]
  /\ UNCHANGED <<group, chat, challenge, warns, raffle, arriving, nightTime, verified, groupBounds>>

Challenged == [NoChallenge EXCEPT !.status = "pending", !.fresh = TRUE,
                 !.perms = IF Quiet(group) THEN group.normal ELSE chat]

\* Broken: the challenge is stored before the member is restricted.
ChallengeStoredFirst ==
  \/ /\ member' = Restricted("locked") /\ challenge' = Challenged
     /\ arriving' = arriving - 1 /\ UNCHANGED <<verified, groupStops>>
  \/ /\ Stops /\ challenge' = Challenged /\ UNCHANGED <<arriving, verified, member>>

\* The member is restricted first, the challenge is stored after.
ChallengeMember ==
  \/ /\ member' = Restricted("locked") /\ challenge' = Challenged
     /\ arriving' = arriving - 1 /\ UNCHANGED <<verified, groupStops>>
  \/ /\ Stops /\ member' = Restricted("locked")       \* evicted on the way
     /\ challenge' \in {challenge, Challenged} /\ UNCHANGED <<arriving, verified>>
  \/ /\ arriving' = arriving - 1 /\ verified' = TRUE  \* the bot may not restrict
     /\ UNCHANGED <<member, challenge, groupStops>>

HandleJoin ==
  /\ arriving > 0
  /\ IF ~group.on \/ ~group.captcha
     THEN /\ arriving' = arriving - 1 /\ verified' = TRUE
          /\ UNCHANGED <<member, challenge, groupStops>>
     ELSE IF challenge.fresh
     THEN arriving' = arriving - 1 /\ UNCHANGED <<member, challenge, verified, groupStops>>
     ELSE ChallengeMember
  /\ UNCHANGED <<group, chat, warns, raffle, nightTime, joins, commands, nights>>

\* The button: it may be wrong, and a verified member waits while the chat is closed.
AnswerCaptcha ==
  /\ challenge.status = "pending" /\ ~challenge.late
  /\ \/ /\ challenge' = [challenge EXCEPT !.attempts = @ + 1, !.late = challenge.attempts + 1 >= 3]
        /\ UNCHANGED <<member, verified, groupStops>>
     \/ /\ verified' = TRUE
        /\ IF Quiet(group)
           THEN challenge' = [challenge EXCEPT !.status = "passed_waiting"] /\ UNCHANGED <<member, groupStops>>
           ELSE /\ member' = Restricted(challenge.perms)
                /\ \/ challenge' = [challenge EXCEPT !.status = "passed"] /\ UNCHANGED groupStops
                   \/ Stops /\ UNCHANGED challenge
  /\ UNCHANGED <<group, chat, warns, raffle, arriving, nightTime, joins, commands, nights>>

Seconds ==
  /\ \/ challenge.fresh /\ challenge' = [challenge EXCEPT !.fresh = FALSE] /\ UNCHANGED member
     \/ ~challenge.fresh /\ challenge.status = "pending" /\ ~challenge.late
        /\ challenge' = [challenge EXCEPT !.late = TRUE] /\ UNCHANGED member
     \/ member.until /\ member' = [member EXCEPT !.muted = FALSE, !.until = FALSE] /\ UNCHANGED challenge
     \/ /\ member.banned = "minute" /\ member' = [member EXCEPT !.banned = "no"]
        /\ challenge' = [challenge EXCEPT !.fresh = FALSE]
  /\ UNCHANGED <<group, chat, warns, raffle, arriving, nightTime, verified, groupBounds>>

Muted(m) == [m EXCEPT !.muted = TRUE, !.until = TRUE]
Banned(time) == [here |-> FALSE, muted |-> FALSE, until |-> FALSE, banned |-> time]

\* violation: whatever is said in a group locked in the panel breaks its rules.
Violations == IF group.lock THEN {"chat_locked"} ELSE {"link", "flood"}

\* sanction: the last warning turns into the penalty of the warnings.
Sanction(penalty, warnPenalty) ==
  LET action == IF penalty = "warn" /\ warns + 1 >= WarnLimit THEN warnPenalty ELSE penalty IN
  /\ warns' = warns + (IF penalty = "warn" THEN 1 ELSE 0)
  /\ member' = CASE action = "mute" -> Muted(member) [] action = "ban" -> Banned("ever") [] OTHER -> member

\* moderateMessage: a message that breaks a rule is deleted, and punished when it
\* could be; one that cannot be deleted, or the membership gate, goes without.
ModerateMessage ==
  /\ CanTalk /\ group.on /\ warns < WarnLimit
  /\ \E reason \in Violations, penalty \in {"delete", "warn", "mute", "ban"}, warnPenalty \in {"mute", "ban"} :
       Sanction(penalty, warnPenalty)
  /\ UNCHANGED <<group, chat, challenge, raffle, arriving, nightTime, verified, groupBounds>>

\* quickCommand of an administrator: /mute, /unmute, /ban, /unban and the warnings
\* put the member in his hands; the other commands answer, pin or delete messages.
MemberCommand ==
  /\ commands < MaxCommands /\ commands' = commands + 1 /\ group.on
  /\ \/ member' = Muted(member) /\ UNCHANGED warns
     \/ member' = Restricted(IF Quiet(group) THEN "locked" ELSE Normal(group)) /\ UNCHANGED warns
     \/ member' \in {Banned("ever"), [member EXCEPT !.banned = "no"]} /\ UNCHANGED warns
     \/ warns > 0 /\ warns' \in {0, warns - 1} /\ UNCHANGED member
  /\ verified' = TRUE
  /\ UNCHANGED <<group, chat, challenge, raffle, arriving, nightTime, joins, nights, groupStops>>

Lock ==
  /\ commands < MaxCommands /\ commands' = commands + 1 /\ group.on
  /\ group' = [group EXCEPT !.lock = TRUE]
  /\ chat' \in {chat, "locked"}
  /\ UNCHANGED <<member, challenge, warns, raffle, arriving, nightTime, verified, joins, nights, groupStops>>

Unlock ==
  /\ commands < MaxCommands /\ commands' = commands + 1 /\ group.on
  /\ group' = [group EXCEPT !.lock = FALSE]
  /\ chat' \in {chat, Normal(group)}                \* Telegram may refuse
  /\ UNCHANGED <<member, challenge, warns, raffle, arriving, nightTime, verified, joins, nights, groupStops>>

\* /raffle, its two buttons, and an eviction between the stored winner and the announcement.
Raffle ==
  /\ commands < MaxCommands /\ commands' = commands + 1
  /\ \/ raffle' = [status |-> "active", joined |-> 0, announced |-> 0] /\ UNCHANGED groupStops
     \/ /\ raffle.status = "active" /\ raffle' = [raffle EXCEPT !.joined = 1] /\ UNCHANGED groupStops
     \/ /\ raffle.status = "active" /\ raffle.joined > 0
        /\ \/ raffle' = [raffle EXCEPT !.status = "drawn", !.announced = @ + 1] /\ UNCHANGED groupStops
           \/ Stops /\ raffle' = [raffle EXCEPT !.status = "drawn"]
  /\ UNCHANGED <<group, chat, member, challenge, warns, arriving, nightTime, verified, joins, nights>>

\* The panel saves the group; lockChat there does not touch Telegram.
SaveGroup ==
  /\ commands < MaxCommands /\ commands' = commands + 1
  /\ \E on, captcha, lock \in BOOLEAN : group' = [group EXCEPT !.on = on, !.captcha = captcha, !.lock = lock]
  /\ UNCHANGED <<chat, member, challenge, warns, raffle, arriving, nightTime, verified, joins, nights, groupStops>>

\* The record goes when nobody waits for it to be restored.
RemoveGroup ==
  /\ commands < MaxCommands /\ commands' = commands + 1
  /\ ~group.night /\ challenge.status \notin {"pending", "passed_waiting"}
  /\ group' = [on |-> FALSE, captcha |-> FALSE, lock |-> FALSE, night |-> FALSE, normal |-> "none"]
  /\ UNCHANGED <<chat, member, challenge, warns, raffle, arriving, nightTime, verified, joins, nights, groupStops>>

Nightfall ==
  /\ nightTime \/ nights < MaxNights
  /\ nightTime' = ~nightTime /\ nights' = nights + (IF nightTime THEN 0 ELSE 1)
  /\ UNCHANGED <<group, chat, member, challenge, warns, raffle, arriving, verified, joins, commands, groupStops>>

\* groupTick, first part: the night begins (getChat, the permissions to come
\* back to, the closing) or ends; "goes" tells whether the tick goes on.
NightOutcomes ==
  LET wanted == group.on /\ nightTime
      kept == [group EXCEPT !.normal = chat]
      Out(g, c, goes, stop) == [group |-> g, chat |-> c, goes |-> goes, stop |-> stop]
  IN CASE wanted /\ ~group.night ->
            {Out(group, chat, FALSE, 0), Out(kept, chat, TRUE, 0), Out(kept, "locked", FALSE, 1),
             Out([kept EXCEPT !.night = TRUE], "locked", TRUE, 0)}
       [] ~wanted /\ group.night /\ ~group.lock ->
            {Out(group, chat, TRUE, 0), Out(group, Normal(group), FALSE, 1),
             Out([group EXCEPT !.night = FALSE], Normal(group), TRUE, 0)}
       [] OTHER -> {Out(group, chat, TRUE, 0)}

\* Second part: who waited is let in, who was late is banned for a minute.
ChallengeTick(g) ==
  LET disabled == ~g.on \/ ~g.captcha IN
  IF ~Quiet(g) /\ challenge.status \in {"passed_waiting"} \cup (IF disabled THEN {"pending"} ELSE {})
  THEN \/ /\ member' = Restricted(challenge.perms) /\ verified' = TRUE
          /\ challenge' = [challenge EXCEPT !.status = "passed"]
       \/ UNCHANGED <<member, verified, challenge>>
  ELSE IF challenge.status = "pending" /\ challenge.late /\ ~disabled
  THEN \/ member' = Banned("minute") /\ challenge' = [challenge EXCEPT !.status = "expired"] /\ UNCHANGED verified
       \/ UNCHANGED <<member, verified, challenge>>
  ELSE UNCHANGED <<member, verified, challenge>>

GroupTick ==
  /\ \E n \in NightOutcomes :
       /\ groupStops + n.stop <= MaxGroupStops /\ groupStops' = groupStops + n.stop
       /\ group' = n.group /\ chat' = n.chat
       /\ IF n.goes THEN ChallengeTick(n.group) ELSE UNCHANGED <<member, verified, challenge>>
  /\ UNCHANGED <<warns, raffle, arriving, nightTime, joins, commands, nights>>

GroupNext ==
  \/ Join \/ Leave \/ HandleJoin \/ AnswerCaptcha \/ Seconds \/ ModerateMessage \/ MemberCommand
  \/ Lock \/ Unlock \/ Raffle \/ SaveGroup \/ RemoveGroup \/ Nightfall \/ GroupTick

GroupSpec == GroupInit /\ [][GroupNext]_groupVars

-----------------------------------------------------------------------------
\* Once his join has been handled, a member who has not passed the challenge
\* stays muted, however the handling was cut and repeated, whatever else
\* happened to him meanwhile; and a raffle is decided once.
VerifiedToTalk ==
  /\ member.here /\ arriving = 0 /\ ~verified => member.muted
  /\ raffle.announced <= 1
=============================================================================
