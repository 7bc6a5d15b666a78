------------------------------ MODULE AdminBot ------------------------------
(***************************************************************************)
(* The bot's management from Telegram (src/src/admin-bot.js): the screens  *)
(* and the buttons they offer, the router of the taps, the prompts and the *)
(* texts that answer them, and the editor of the main page's buttons,      *)
(* which the panel (src/src/routes/menu.routes.js) saves as a whole.  Any  *)
(* button of any message ever sent may be tapped.  An update handled when  *)
(* the process is evicted is delivered again, perhaps after later ones.    *)
(***************************************************************************)
EXTENDS Naturals, Sequences, SequencesExt, FiniteSetsExt

CONSTANTS
  MenuWidth, MenuHeight,   \* 8 and 10 in the code
  MaxButtons,              \* buttons ever made
  MaxAdminTaps, MaxAdminStops

VARIABLES
  menu,      \* menu.inlineButtons, the buttons by identity
  flow,      \* user.flow of the administrator
  again,     \* the update that will be delivered again
  buttons,   \* history: buttons ever made
  owned,     \* history: how many buttons the administrator should have
  due, made, \* history: what prompts and switches called for, and what was done
  adminTaps, adminStops

adminVars == <<menu, flow, again, buttons, owned, due, made, adminTaps, adminStops>>

-----------------------------------------------------------------------------
(* The screens: the taps they offer                                        *)

adminHome == {"adm:stats", "adm:users", "adm:settings", "adm:broadcast", "adm:news", "adm:rates", "adm:relay",
  "adm:orders", "adm:products", "adm:coupons", "adm:menu", "adm:support", "adm:engagement", "adm:groups", "adm:feeds",
  "adm:faq", "adm:crm", "adm:media", "adm:lock", "adm:webhook", "adm:tuning", "adm:shop", "adm:token", "adm:sb",
  "adm:services"}
newsScreens == {"adm:nsend:", "adm:nintmenu", "adm:ncatmenu", "adm:nauto", "adm:ndest", "adm:ncat:", "adm:nint:"}
ratesScreens == {"adm:rsend:", "adm:rtmenu", "adm:rcatmenu", "adm:rauto", "adm:rddest", "adm:rsrc", "adm:rcat:", "adm:rt:"}
\* A row that is neither pending nor ready shows its status on a button "noop".
relayScreens == {"adm:relayview:", "adm:rapp", "adm:ron", "adm:rdest", "rl:pub:", "rl:rej:", "noop"}
settingsScreens == {"adm:setpurpose", "adm:langmode", "adm:adminid", "adm:modules", "adm:purpose:", "adm:module:"}
peopleScreens == {"adm:user:", "adm:usermsg:", "adm:broadcast:new", "adm:ticket:", "adm:reply:", "adm:close:",
  "adm:order:", "adm:orderact:", "adm:group:", "adm:grouptoggle:", "adm:feed:", "adm:feedscan:", "adm:feeddelete:",
  "adm:faqitem:", "adm:faqadd", "adm:faqtoggle:", "adm:faqdelete:", "adm:crm.toggle"}
shopScreens == {"adm:prod:", "adm:prodadd", "adm:prodtoggle:", "adm:proddelete:", "adm:coupon:", "adm:couponadd",
  "adm:media:", "adm:mediadel:", "adm:locktoggle", "adm:lockset", "adm:whset", "adm:whdel", "adm:batch", "adm:delay",
  "adm:shpay", "adm:shaddr", "adm:shcard", "adm:shprotect", "adm:shnotify", "adm:tokenset", "adm:sbtoggle", "adm:sbtext"}
menuListScreen == {"adm:mb:", "adm:mbx:", "adm:mbadd"}
buttonEditorScreen == {"adm:mbt:", "adm:mbv:", "adm:mbl:", "adm:mbr:", "adm:mbu:", "adm:mbd:", "adm:mbx:"}
typePrompts == {"adm:atype:", "adm:bt:", "adm:cancel", "adm:root"}

Offered == adminHome \cup newsScreens \cup ratesScreens \cup relayScreens \cup settingsScreens \cup peopleScreens
           \cup shopScreens \cup menuListScreen \cup buttonEditorScreen \cup typePrompts

\* What the router does with a tap: it opens a prompt, ...
Prompts == [t \in {"adm:adminid", "adm:usermsg:", "adm:broadcast:new", "adm:reply:", "adm:faqadd", "adm:rddest",
                   "adm:prodadd", "adm:couponadd", "adm:lockset", "adm:shcard", "adm:shnotify", "adm:tokenset",
                   "adm:sbtext", "adm:mbadd", "adm:mbt:", "adm:mbv:", "adm:ndest", "adm:rdest"} |->
  CASE t = "adm:broadcast:new" -> "broadcast_text" [] t = "adm:mbadd" -> "add_text"
    [] t \in {"adm:usermsg:", "adm:reply:", "adm:faqadd", "adm:prodadd", "adm:couponadd"} -> "makes"
    [] OTHER -> "sets"]
\* ... switches or sends something at once, ...
Switches == {"adm:langmode", "adm:module:", "adm:grouptoggle:", "adm:faqtoggle:", "adm:crm.toggle", "adm:prodtoggle:",
  "adm:locktoggle", "adm:batch", "adm:delay", "adm:shpay", "adm:shaddr", "adm:shprotect", "adm:sbtoggle", "adm:rapp", "adm:ron"}
NewsSwitches == {"adm:nauto", "adm:nsend:"}
RatesSwitches == {"adm:rauto", "adm:rsend:"}
\* ... sets or deletes what the tap names, so that a second tap changes nothing, ...
Sets == {"adm:purpose:", "adm:user:", "adm:close:", "adm:orderact:", "adm:feedscan:", "adm:feeddelete:", "adm:faqdelete:",
  "adm:proddelete:", "adm:coupon:", "adm:mediadel:", "adm:whset", "adm:whdel", "rl:pub:", "rl:rej:",
  "adm:ncat:", "adm:nint:", "adm:rcat:", "adm:rt:"}
\* ... edits the menu or ends a prompt, or only shows a screen.
Edits == {"adm:mbl:", "adm:mbr:", "adm:mbu:", "adm:mbd:", "adm:mbx:"}
Shows == adminHome \cup {"adm:setpurpose", "adm:modules", "adm:ticket:", "adm:order:", "adm:group:", "adm:feed:",
  "adm:faqitem:", "adm:prod:", "adm:media:", "adm:rtmenu", "adm:rcatmenu", "adm:rsrc", "adm:nintmenu", "adm:ncatmenu",
  "adm:relayview:", "adm:mb:"}
Routed == DOMAIN Prompts \cup Switches \cup NewsSwitches \cup RatesSwitches \cup Sets \cup Edits \cup Shows \cup typePrompts

-----------------------------------------------------------------------------
NoFlow == [type |-> "none", r |-> 0, b |-> 0]
Nothing == [kind |-> "none", what |-> "", r |-> 0, b |-> 0]
Shown(m) == UNION {Range(m[r]) : r \in DOMAIN m}
\* A row goes with its last button.
Tidy(m, r) == IF m[r] = <<>> THEN RemoveAt(m, r) ELSE m

AdminInit ==
  /\ menu = <<<<1, 2>>, <<3>>>> /\ flow = NoFlow /\ again = Nothing
  /\ buttons = 3 /\ owned = 3 /\ due = 0 /\ made = 0 /\ adminTaps = 0 /\ adminStops = 0

\* The update being handled is a new one, or the one delivered again.
Update(u) == again = u \/ adminTaps < MaxAdminTaps
Counts(u) == adminTaps' = adminTaps + (IF again = u THEN 0 ELSE 1)
New(u) == again # u
Handled(u) == again' = (IF again = u THEN Nothing ELSE again) /\ UNCHANGED adminStops
Cut(u) == again \in {Nothing, u} /\ adminStops < MaxAdminStops /\ adminStops' = adminStops + 1 /\ again' = u

Tap(t, r, b) == [kind |-> "tap", what |-> t, r |-> r, b |-> b]
Text(answer) == [kind |-> "text", what |-> answer, r |-> 0, b |-> 0]

\* A tap that opens a prompt, goes home or cancels.
OpenPrompt ==
  \E t \in DOMAIN Prompts :
    LET u == Tap(t, 1, 1) IN
    /\ Update(u) /\ Counts(u)
    /\ due' = due + (IF New(u) /\ Prompts[t] \in {"makes", "broadcast_text", "add_text"} THEN 1 ELSE 0)
    /\ \/ flow' = [NoFlow EXCEPT !.type = Prompts[t]] /\ (Handled(u) \/ Cut(u))
       \/ UNCHANGED flow /\ Cut(u)
    /\ UNCHANGED <<menu, buttons, owned, made>>

LeavePrompt ==
  \E t \in {"adm:root", "adm:cancel"} :
    /\ Update(Tap(t, 0, 0)) /\ Counts(Tap(t, 0, 0))
    /\ flow' = NoFlow /\ Handled(Tap(t, 0, 0))
    /\ UNCHANGED <<menu, buttons, owned, due, made>>

\* A switch, or a digest sent at once; both happen again when the tap does.
Switch ==
  \E t \in Switches \cup NewsSwitches \cup RatesSwitches :
    LET u == Tap(t, 0, 0) IN
    /\ Update(u) /\ Counts(u)
    /\ due' = due + (IF New(u) THEN 1 ELSE 0)
    /\ \/ made' = made + 1 /\ (Handled(u) \/ Cut(u))
       \/ UNCHANGED made /\ Cut(u)
    /\ UNCHANGED <<menu, flow, buttons, owned>>

\* The recipients of a broadcast: only right after its text.
PickTarget ==
  LET u == Tap("adm:bt:", 0, 0) IN
  /\ Update(u) /\ Counts(u)
  /\ IF flow.type # "broadcast_target"
     THEN Handled(u) /\ UNCHANGED <<flow, made>>
     ELSE \/ made' = made + 1 /\ (flow' = NoFlow \/ UNCHANGED flow) /\ Cut(u)
          \/ made' = made + 1 /\ flow' = NoFlow /\ Handled(u)
  /\ UNCHANGED <<menu, buttons, owned, due>>

\* Any other button a screen offers: it sets what it names, only shows a screen,
\* or is known to no handler ("noop"), which answers that the feature is disabled.
Acting == DOMAIN Prompts \cup Switches \cup NewsSwitches \cup RatesSwitches \cup Edits \cup typePrompts
Look ==
  /\ adminTaps < MaxAdminTaps
  /\ \E t \in Offered \ Acting :
       /\ adminTaps' = adminTaps + 1
       /\ UNCHANGED <<menu, flow, again, buttons, owned, due, made, adminStops>>

PickType ==
  LET u == Tap("adm:atype:", 0, 0) IN
  /\ Update(u) /\ Counts(u)
  /\ flow' = IF flow.type = "add_type" THEN [flow EXCEPT !.type = "add_value"] ELSE flow
  /\ (Handled(u) \/ Cut(u))
  /\ UNCHANGED <<menu, buttons, owned, due, made>>

-----------------------------------------------------------------------------
(* The buttons of the main page                                            *)

At(m, r, b) == r \in DOMAIN m /\ b \in DOMAIN m[r]
Without(m, r, b) == [m EXCEPT ![r] = RemoveAt(@, b)]
Swapped(row, i, j) == [row EXCEPT ![i] = row[j], ![j] = row[i]]
\* Broken: a button moved to another row stays in its own.
MovedTwice(m, t, r, b) == [m EXCEPT ![r - 1] = Append(@, m[r][b])]
\* Telegram's order of one: left, right, up, down.  Moving down the only button of
\* the last row but one fails before the menu is saved.
Moved(m, t, r, b) ==
  CASE t = "adm:mbl:" /\ b > 1 -> [m EXCEPT ![r] = Swapped(@, b - 1, b)]
    [] t = "adm:mbr:" /\ b < Len(m[r]) -> [m EXCEPT ![r] = Swapped(@, b, b + 1)]
    [] t = "adm:mbu:" /\ r > 1 -> Tidy([Without(m, r, b) EXCEPT ![r - 1] = Append(@, m[r][b])], r)
    [] t = "adm:mbd:" /\ r < Len(m) /\ ~(Len(m[r]) = 1 /\ r = Len(m) - 1)
         -> Tidy([Without(m, r, b) EXCEPT ![r + 1] = Append(@, m[r][b])], r)
    [] OTHER -> m

EditMenu ==
  \E t \in Edits, r \in 1..3, b \in 1..3 :
    LET u == Tap(t, r, b)
        edited == IF ~At(menu, r, b) THEN menu
                  ELSE IF t = "adm:mbx:" THEN Tidy(Without(menu, r, b), r) ELSE Moved(menu, t, r, b)
    IN /\ Update(u) /\ Counts(u)
       /\ owned' = owned - (IF New(u) /\ t = "adm:mbx:" /\ At(menu, r, b) THEN 1 ELSE 0)
       /\ \/ menu' = edited /\ (Handled(u) \/ Cut(u))
          \/ UNCHANGED menu /\ Cut(u)
       /\ UNCHANGED <<flow, buttons, due, made>>

\* The last row with room, or a new one.
WithButton(m, x) ==
  LET room == {i \in DOMAIN m : Len(m[i]) < MenuWidth} IN
  IF room # {} THEN [m EXCEPT ![Max(room)] = Append(@, x)]
  ELSE IF Len(m) < MenuHeight THEN Append(m, <<x>>) ELSE m

\* The panel saves the rows it shows, cut to what a keyboard may hold.
SaveMenu ==
  /\ adminTaps < MaxAdminTaps /\ adminTaps' = adminTaps + 1
  /\ menu' = [i \in 1..Min({Len(menu), MenuHeight}) |-> SubSeq(menu[i], 1, Min({Len(menu[i]), MenuWidth}))]
  /\ owned' = owned - (Cardinality(Shown(menu)) - Cardinality(Shown(menu')))
  /\ UNCHANGED <<flow, again, buttons, due, made, adminStops>>

-----------------------------------------------------------------------------
(* adminFlow: a text answers the prompt, whatever it says                  *)

\* What is saved first; the flow is reset after it.  A text that does not fit
\* ends the flow too.
Answered(type) ==
  CASE type = "makes" -> made' = made + 1 /\ UNCHANGED <<menu, buttons, owned>>
    [] type = "add_value" /\ buttons < MaxButtons
         -> /\ menu' = WithButton(menu, buttons + 1) /\ buttons' = buttons + 1
            /\ made' = made + (IF menu' = menu THEN 0 ELSE 1)
            /\ owned' = owned + (IF menu' = menu THEN 0 ELSE 1)
    [] OTHER -> UNCHANGED <<menu, made, buttons, owned>>
\* Broken: the flow is left as it was.
NextFlowKept(type) == flow
NextFlow(type) ==
  CASE type = "broadcast_text" -> [NoFlow EXCEPT !.type = "broadcast_target"]
    [] type = "add_text" -> [NoFlow EXCEPT !.type = "add_type"]
    [] OTHER -> NoFlow

TypeText ==
  \E answer \in {"fits", "misfits"} :
    LET u == Text(answer) IN
    /\ Update(u) /\ Counts(u)
    /\ IF flow.type \in {"none", "broadcast_target", "add_type"}   \* not for adminFlow
       THEN Handled(u) /\ UNCHANGED <<menu, flow, buttons, owned, made>>
       ELSE IF answer = "misfits"
       THEN flow' = NoFlow /\ Handled(u) /\ UNCHANGED <<menu, buttons, owned, made>>
       ELSE \/ Answered(flow.type) /\ flow' = NextFlow(flow.type) /\ (Handled(u) \/ Cut(u))
            \/ Answered(flow.type) /\ UNCHANGED flow /\ Cut(u)
    /\ UNCHANGED due

AdminNext ==
  \/ OpenPrompt \/ LeavePrompt \/ Switch \/ PickTarget \/ PickType \/ Look \/ EditMenu \/ SaveMenu \/ TypeText

AdminSpec == AdminInit /\ [][AdminNext]_adminVars

-----------------------------------------------------------------------------
\* No button stands in two places.
EachOnce(m) ==
  \A r1, r2 \in DOMAIN m : \A b1 \in DOMAIN m[r1], b2 \in DOMAIN m[r2] :
    m[r1][b1] = m[r2][b2] => r1 = r2 /\ b1 = b2

\* A prompt or a switch leads to one product, coupon, message, broadcast, digest
\* or button at most, and a tap on "delete" to one button less, but for one more
\* by each update that an eviction made the bot handle twice; and moving, deleting
\* and adding never double a button or lose another one.
AdminActsOnce ==
  /\ made <= due + adminStops
  /\ LET number == Cardinality(Shown(menu)) IN number + adminStops >= owned /\ number <= owned + adminStops
  /\ EachOnce(menu)
=============================================================================
