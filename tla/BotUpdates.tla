----------------------------- MODULE BotUpdates -----------------------------
(***************************************************************************)
(* The customers' updates (src/src/telegram.js): the first /start and its  *)
(* inviter, the membership gate, the points of a signup (src/src/crm.js),  *)
(* deep links, support and feedback, and the votes under a post            *)
(* (src/src/engagement.js).  Updates are served one at a time; each saves  *)
(* its records in order, and an eviction after any of them makes Telegram  *)
(* deliver the update again, perhaps after later ones.  What the managers' *)
(* prompts, the orders and the services do is in other modules, and a tap  *)
(* that only shows a page changes nothing here.                            *)
(***************************************************************************)
EXTENDS Naturals, Sequences, FiniteSets, SequencesExt

CONSTANTS
  Customers,         \* small naturals; 0 is nobody
  Regulars,          \* customers whose signup was completed before
  MaxUpdates, MaxUpdateStops, MaxCrmClicks

VARIABLES
  db,                \* what is stored: people, points, rewards, tickets, votes
  loyalty,           \* enabled(settings, "crm") and settings.loyalty.enabled
  pollMode,          \* of the one poll: "single", "multiple" or "quiz"
  undone,            \* updates that will be delivered again
  firstStart,        \* history: the inviter a customer's first update named
  owed,              \* history: rewards the completed signups called for
  texts,             \* history: texts sent for a ticket
  updates, updateStops, crmClicks

botVars == <<db, loyalty, pollMode, undone, firstStart, owed, texts, updates, updateStops, crmClicks>>

Options == {1, 2}
Person(known) ==
  [known |-> known, banned |-> FALSE, referredBy |-> 0, pendingStart |-> "", signupCompleted |-> known,
   supportOpen |-> FALSE, flow |-> ""]
Signup(u) == [kind |-> "signup", of |-> u, to |-> u]
Referral(u, i) == [kind |-> "referral", of |-> u, to |-> i]
Quiz(u) == [kind |-> "quiz", of |-> u, to |-> u]

BotInit ==
  /\ db = [people |-> [u \in Customers |-> Person(u \in Regulars)],
           points |-> [u \in Customers |-> 0], rewards |-> {}, tickets |-> [u \in Customers |-> 0],
           votes |-> [u \in Customers |-> {}], tally |-> [o \in Options |-> 0], participants |-> 0]
  /\ loyalty \in BOOLEAN /\ pollMode \in {"single", "multiple", "quiz"}
  /\ undone = {} /\ firstStart = [u \in Customers |-> 0] /\ owed = {} /\ texts = 0
  /\ updates = 0 /\ updateStops = 0 /\ crmClicks = 0

-----------------------------------------------------------------------------
(* A handler is the sequence of the stores it leaves behind, save by save   *)

Saved(d, u, f, v) == [d EXCEPT !.people[u][f] = v]

\* Broken: the record that this event was rewarded is not looked up.
RewardedAgain(d, r) == [d EXCEPT !.points[r.to] = @ + 1, !.rewards = @ \cup {r}]
\* rewardWrites: the account and the event are committed together.
Rewarded(d, r) ==
  IF r \in d.rewards THEN d ELSE [d EXCEPT !.points[r.to] = @ + 1, !.rewards = @ \cup {r}]

Inviter(d, u) == LET i == d.people[u].referredBy IN IF i # 0 /\ d.people[i].known /\ ~d.people[i].banned THEN i ELSE 0
Due(d, u) ==
  IF ~loyalty THEN {}
  ELSE {Signup(u)} \cup (IF Inviter(d, u) # 0 THEN {Referral(u, Inviter(d, u))} ELSE {})

\* Broken: the signup counts as completed before its points are.
MarkedFirst(d, u) ==
  IF d.people[u].signupCompleted THEN <<d>>
  ELSE LET d1 == Saved(d, u, "signupCompleted", TRUE) IN
       <<d1>> \o (IF loyalty THEN <<Rewarded(d1, Signup(u))>> ELSE <<>>)
completeSignup(d, u) ==
  IF d.people[u].signupCompleted THEN <<d>>
  ELSE IF ~loyalty THEN <<Saved(d, u, "signupCompleted", TRUE)>>
  ELSE LET d1 == Rewarded(d, Signup(u))
           d2 == IF Inviter(d, u) # 0 THEN Rewarded(d1, Referral(u, Inviter(d, u))) ELSE d1
       IN <<d1, d2, Saved(d2, u, "signupCompleted", TRUE)>>

touchUser(d, u) == Saved(d, u, "known", TRUE)

\* A link "fb_" opens the feedback of a post.
deepStart(d, u, param) ==
  IF param = "fb" THEN <<Saved(Saved(d, u, "flow", "feedback"), u, "supportOpen", FALSE)>> ELSE <<>>
Ticket(d, u) == [d EXCEPT !.tickets[u] = @ + 1]

\* What a private message does once the gate let it through.
Command(d, u, m) ==
  CASE m.text = "/start" -> <<Saved(d, u, "pendingStart", "")>> \o
                            deepStart(Saved(d, u, "pendingStart", ""), u, d.people[u].pendingStart)
    [] m.text = "/cancel" -> <<Saved(Saved(d, u, "flow", ""), u, "supportOpen", FALSE)>>
    [] m.text = "/support" -> <<Saved(Saved(d, u, "flow", ""), u, "supportOpen", TRUE)>>
    [] m.text = "words" /\ d.people[u].flow = "feedback" -> <<Ticket(d, u), Saved(Ticket(d, u), u, "flow", "")>>
    [] m.text = "words" /\ d.people[u].flow = "" /\ d.people[u].supportOpen -> <<Ticket(d, u)>>
    [] OTHER -> <<>>

Started(d, u, m, isNew) ==
  IF m.text # "/start" THEN d
  ELSE [d EXCEPT !.people[u] = [@ EXCEPT !.pendingStart = m.param, !.supportOpen = FALSE, !.flow = "",
                                  !.referredBy = IF isNew /\ m.inviter \notin {0, u} THEN m.inviter
                                                   ELSE d.people[u].referredBy]]

onMessage(d, m) ==
  LET u == m.from
      d1 == touchUser(d, u)
      d2 == Started(d1, u, m, ~d.people[u].known)
      signup == completeSignup(d2, u)
  IN IF d.people[u].banned THEN <<d1>>
     ELSE IF ~m.gate THEN <<d1, d2>>
     ELSE <<d1, d2>> \o signup \o Command(Last(signup), u, m)

\* engagementCallback: the vote, the tally and the points of a quiz are one commit.
Voted(d, u, o) ==
  LET mine == d.votes[u]
      now == IF pollMode = "multiple" THEN (IF o \in mine THEN mine \ {o} ELSE mine \cup {o}) ELSE {o}
      d1 == [d EXCEPT !.votes[u] = now,
               !.tally = [p \in Options |-> @[p] + (IF p \in now \ mine THEN 1 ELSE 0) - (IF p \in mine \ now THEN 1 ELSE 0)],
               !.participants = @ + (IF mine = {} /\ now # {} THEN 1 ELSE 0) - (IF mine # {} /\ now = {} THEN 1 ELSE 0)]
  IN IF pollMode = "quiz" /\ mine # {} THEN d
     ELSE IF pollMode = "quiz" /\ loyalty /\ o = 1 THEN Rewarded(d1, Quiz(u)) ELSE d1

onCallback(d, m) ==
  LET u == m.from
      d1 == touchUser(d, u)
      signup == completeSignup(d1, u)
      d2 == Saved(Last(signup), u, "pendingStart", "")
  IN IF d.people[u].banned \/ ~m.gate THEN <<d1>>
     ELSE IF m.data \in Options THEN <<d1, Voted(d1, u, m.data)>>
     ELSE IF m.data = 0 THEN <<d1>> \o signup \o <<d2>> \o deepStart(d2, u, d1.people[u].pendingStart)
     ELSE <<d1, Saved(Saved(d1, u, "supportOpen", TRUE), u, "flow", "")>>   \* support:open

-----------------------------------------------------------------------------
membershipGate == BOOLEAN   \* whether the sender is in every required chat when his update is handled
\* Only a /start has a parameter: an inviter's link, or a post's ("fb").
Messages ==
  {m \in [from : Customers, text : {"/start", "/cancel", "/support", "words"}, inviter : Customers \cup {0},
          param : {"", "ref", "fb"}, data : {9}, gate : membershipGate] :
     IF m.text # "/start" THEN m.inviter = 0 /\ m.param = "" /\ m.gate
     ELSE IF m.inviter # 0 THEN m.param = "ref" ELSE m.param \in {"", "fb"}}
\* 0: "I joined, check again"; 1 and 2: a vote; 3: the support button.
Taps ==
  [from : Customers, text : {""}, inviter : {0}, param : {""}, data : Options \cup {0, 3},
   gate : membershipGate]

\* Telegram, and the marker of an update: saved only after the handler returned.
Serve(m, saves) ==
  /\ m \in undone \/ updates < MaxUpdates
  /\ updates' = updates + (IF m \in undone THEN 0 ELSE 1)
  /\ texts' = texts + (IF m.text = "words" /\ m \notin undone THEN 1 ELSE 0)
  /\ \/ db' = Last(saves) /\ undone' = undone \ {m} /\ UNCHANGED updateStops
     \/ /\ updateStops < MaxUpdateStops /\ updateStops' = updateStops + 1
        /\ undone' = undone \cup {m}
        /\ \E k \in DOMAIN saves : db' = saves[k]
  /\ firstStart' = [firstStart EXCEPT ![m.from] =
                      IF ~db.people[m.from].known /\ m.inviter # m.from THEN m.inviter ELSE @]
  /\ owed' = IF db'.people[m.from].signupCompleted /\ ~db.people[m.from].signupCompleted
             THEN owed \cup Due([db EXCEPT !.people[m.from].referredBy = db'.people[m.from].referredBy], m.from)
             ELSE owed
  /\ UNCHANGED <<loyalty, pollMode, crmClicks>>

ServeMessage == \E m \in Messages : Serve(m, onMessage(db, m))
ServeTap == \E m \in Taps : Serve(m, onCallback(db, m))

-----------------------------------------------------------------------------
Clicks == crmClicks < MaxCrmClicks /\ crmClicks' = crmClicks + 1
Ban ==
  \E u \in Customers :
    /\ Clicks /\ db.people[u].known
    /\ db' = Saved(db, u, "banned", ~db.people[u].banned)
    /\ UNCHANGED <<loyalty, pollMode, undone, firstStart, owed, texts, updates, updateStops>>
ToggleLoyalty ==
  /\ Clicks /\ loyalty' = ~loyalty
  /\ UNCHANGED <<db, pollMode, undone, firstStart, owed, texts, updates, updateStops>>

BotNext == ServeMessage \/ ServeTap \/ Ban \/ ToggleLoyalty
BotSpec == BotInit /\ [][BotNext]_botVars

-----------------------------------------------------------------------------
\* Every signup that counts as completed has paid its points and its inviter's,
\* the inviter is the one the customer's first message named, nobody is paid
\* twice for one event, the points are those of the events, and a poll's counts
\* are its votes: through updates delivered twice and out of order.  A text
\* reaches support once, but for one more after each eviction.
SignupsPaid ==
  /\ owed \subseteq db.rewards
  /\ \A r \in db.rewards : r.kind = "referral" => r.to = firstStart[r.of] /\ r.to # r.of
  /\ \A u \in Customers :
       /\ db.points[u] = Cardinality({r \in db.rewards : r.to = u})
       /\ Cardinality({r \in db.rewards : r.kind = "referral" /\ r.of = u}) <= 1
  /\ \A o \in Options : db.tally[o] = Cardinality({u \in Customers : o \in db.votes[u]})
  /\ db.participants = Cardinality({u \in Customers : db.votes[u] # {}})
  /\ SumFunctionOnSet(db.tickets, Customers) <= texts + updateStops
=============================================================================
