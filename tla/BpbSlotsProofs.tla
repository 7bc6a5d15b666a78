---------------------------- MODULE BpbSlotsProofs ----------------------------
(***************************************************************************)
(* Theorems about BpbSlots for every value of its constants that satisfies *)
(* the assumption: who holds a slot, which links are dead, and what a paid *)
(* operation has.                                                          *)
(***************************************************************************)
EXTENDS BpbSlots, SumProofs

-----------------------------------------------------------------------------
(* The inductive invariant *)

Holds(a)  == a \in Rows /\ slot[a].status = "sold"
Holder(a) == slot[a].holder

OneSlot ==
  \A a, b \in Accounts : Holds(a) /\ Holds(b) /\ Holder(a) = Holder(b) => a = b

(* A sold slot belongs to a service that its operation bought.             *)
Bought(s) ==
  LET o == s[1] IN
  /\ s \in Services /\ operation[o] # None /\ operation[o].target = None
  /\ s[2] < operation[o].quantity
  /\ operation[o].status \in {"sending", "review", "done"}
  /\ operation[o].status = "done" => service[s] # None
HolderInv == \A a \in Accounts : Holds(a) => Bought(Holder(a))

OneWorker == \A a, b \in Installed : slot[a].cf = slot[b].cf => a = b

(* The links of a row that were given away are finitely many, so there is  *)
(* always one that was not.                                                *)
GivenInv == \A a \in Accounts : IsFiniteSet(GivenOf(a))

(* Only a service that exists can be refunded.                             *)
RequestInv == \A s \in request : service[s] # None

IInv == TypeOK /\ OneSlot /\ HolderInv /\ OneWorker /\ OnlyStoredLinks /\ GivenInv /\ RequestInv

-----------------------------------------------------------------------------
(* Rows and links *)

(* What a row that exists looks like.                                      *)
LEMMA RowFacts ==
  ASSUME TypeOK, NEW a \in Rows
  PROVE  /\ a \in Accounts /\ slot[a] \in Row
         /\ slot[a].status = "sold" <=> slot[a].holder # None
         /\ slot[a].status \in {"free", "sold"} => a \in Installed
         /\ slot[a].status = "sold" => slot[a].holder \in Services
<1>1. a \in Accounts /\ slot[a] \in Row
  BY DEF TypeOK, Rows
<1>2. slot[a].holder \in Services \union {None}
  BY <1>1 DEF Row
<1>3. QED
  BY <1>1, <1>2 DEF TypeOK, Installed

(* A record with the fields of a row is one.                               *)
LEMMA RowIsNotNone == \A row \in Row : row # None /\ row # Gone
BY SlotsAssumption

(* SlotsAccounted is made of the parts of the invariant.                   *)
LEMMA PartsAreSlots == TypeOK /\ OneSlot /\ HolderInv /\ OneWorker => SlotsAccounted
<1>. SUFFICES ASSUME TypeOK, OneSlot, HolderInv, OneWorker,
                     NEW a \in Rows, slot[a].status = "sold"
              PROVE  /\ HeldBy(slot[a].holder) = {a}
                     /\ operation[slot[a].holder[1]].status \in {"sending", "review", "done"}
                     /\ operation[slot[a].holder[1]].status = "done" => service[slot[a].holder] # None
  BY DEF SlotsAccounted, OneWorker
<1>1. a \in Accounts /\ Holds(a)
  BY RowFacts DEF Holds
<1>2. \A b \in HeldBy(slot[a].holder) : b = a
  BY <1>1, RowFacts DEF HeldBy, Holds, OneSlot, Holder
<1>3. a \in HeldBy(slot[a].holder)
  BY DEF HeldBy
<1>4. QED
  BY <1>1, <1>2, <1>3 DEF HolderInv, Bought, Holder

(* The smallest number of a finite set of numbers is one of them.          *)
LEMMA MinIsMember ==
  ASSUME NEW S, S \subseteq Nat, IsFiniteSet(S), S # {}
  PROVE  Min(S) \in S
<1>. DEFINE Good == {T \in SUBSET S : T = {} \/ \E m \in T : \A y \in T : m =< y}
<1>1. ASSUME NEW T \in SUBSET S, \A x \in T : T \ {x} \in Good
      PROVE  T \in Good
  <2>1. CASE T = {}
    BY <2>1
  <2>2. CASE T # {}
    <3>1. PICK x \in T : TRUE
      BY <2>2
    <3>2. CASE T \ {x} = {}
      BY <3>1, <3>2
    <3>3. CASE \E m \in T \ {x} : \A y \in T \ {x} : m =< y
      <4>1. PICK m \in T \ {x} : \A y \in T \ {x} : m =< y
        BY <3>3
      <4>2. CASE m =< x
        BY <4>1, <4>2
      <4>3. CASE x =< m
        BY <3>1, <4>1, <4>3
      <4>4. QED
        BY <3>1, <4>1, <4>2, <4>3
    <3>4. QED
      BY <1>1, <3>1, <3>2, <3>3
  <2>3. QED
    BY <2>1, <2>2
<1>2. S \in Good
  <2>. HIDE DEF Good
  <2>1. \A T \in SUBSET S : T \in Good
    BY <1>1, SubsetInduction
  <2>2. QED
    BY <2>1
<1>3. QED
  BY <1>2 DEF Min

(* There is a path that was never given away.                              *)
LEMMA FreshIsNew ==
  ASSUME NEW a \in Accounts, IsFiniteSet(GivenOf(a))
  PROVE  Fresh(a) \in Nat /\ Fresh(a) # 0 /\ Fresh(a) \notin GivenOf(a) /\ Fresh(a) # slot[a].link
<1>. DEFINE n == Cardinality(Seen(a))
            choice == (1 .. n + 1) \ Seen(a)
<1>1. Seen(a) = GivenOf(a) \union {slot[a].link}
  BY DEF Seen
<1>2. IsFiniteSet(Seen(a)) /\ n \in Nat
  <2>1. IsFiniteSet(Seen(a))
    BY <1>1, FS_AddElement
  <2>2. QED
    BY <2>1, FS_CardinalityType
<1>3. choice # {}
  <2>1. SUFFICES ASSUME 1 .. n + 1 \subseteq Seen(a) PROVE FALSE
    OBVIOUS
  <2>2. Cardinality(1 .. n + 1) <= n
    BY <1>2, <2>1, FS_Subset
  <2>3. Cardinality(1 .. n + 1) = n + 1
    BY <1>2, FS_Interval
  <2>4. QED
    BY <1>2, <2>2, <2>3
<1>4. Fresh(a) \in choice
  <2>1. choice \subseteq Nat /\ IsFiniteSet(choice)
    <3>1. IsFiniteSet(1 .. n + 1)
      BY <1>2, FS_Interval
    <3>2. choice \subseteq 1 .. n + 1
      OBVIOUS
    <3>3. QED
      BY <1>2, <3>1, <3>2, FS_Subset
  <2>2. Fresh(a) = Min(choice)
    BY DEF Fresh
  <2>. HIDE DEF choice
  <2>3. QED
    BY <1>3, <2>1, <2>2, MinIsMember
<1>5. QED
  BY <1>1, <1>2, <1>4

-----------------------------------------------------------------------------
(* What a step leaves of the invariant *)

(* An operation keeps what it is for, and a service its row.               *)
OperationsKept ==
  \A o \in Operations : operation[o] # None =>
    /\ operation'[o] # None
    /\ operation'[o].target = operation[o].target
    /\ operation'[o].quantity = operation[o].quantity
ServicesKept == \A s \in Services : service[s] # None => service'[s] # None

(* A link that is given away is one that a row stores and keeps.           *)
GivenGrows ==
  \A s \in Services : \A l \in given'[s] :
    \/ l \in given[s]
    \/ \E a \in Accounts : l = <<a, slot[a].link>> /\ slot'[a].link = slot[a].link

(* The path of a row stays or is new, and so is the one its worker answers *)
(* to; both are new when a sold row is given back.                         *)
LinkKept(a) ==
  a \in Installed' =>
    (a \in Installed /\ slot'[a].link = slot[a].link) \/ slot'[a].link = Fresh(a)
ServedKept(a) ==
  a \in Installed' =>
    \/ served'[a] \in {0, slot'[a].link, Fresh(a)}
    \/ a \in Installed /\ served'[a] = served[a] /\ slot'[a].link = slot[a].link
FreedAnew(a) ==
  Holds(a) /\ a \in Installed' /\ ~Holds(a)' => slot'[a].link = Fresh(a) /\ served'[a] = Fresh(a)
LinksKept == \A a \in Accounts : LinkKept(a) /\ ServedKept(a) /\ FreedAnew(a)

(* At most one worker is installed.                                        *)
WorkersKept ==
  /\ \A a \in Installed' : a \in Rows /\ slot'[a].cf = slot[a].cf
  /\ \/ Installed' \subseteq Installed
     \/ \E c \in Accounts : Installed' \subseteq Installed \union {c} /\ ~Claimed(c)

Kept == /\ TypeOK' /\ OneSlot' /\ HolderInv' /\ RequestInv'
        /\ GivenGrows /\ LinksKept /\ WorkersKept

(* What PaidMeansSlots says of one step.                                   *)
Paid ==
  \A o \in Operations :
    operation'[o] # operation[o] /\ operation'[o].status = "done"
      => \A s \in Covers(o) : HeldBy(s)' # {}

(* A step gives nobody a link but the stored one.                          *)
LEMMA GivenStays ==
  ASSUME IInv, Kept, NEW a \in Accounts
  PROVE  /\ GivenOf(a)' \subseteq GivenOf(a) \union {slot[a].link}
         /\ slot'[a].link # slot[a].link => GivenOf(a)' \subseteq GivenOf(a)
         /\ Fresh(a) \notin GivenOf(a)'
<1>1. ASSUME NEW s \in Services, NEW l \in given'[s], l[1] = a
      PROVE  l[2] \in GivenOf(a) \/ (l[2] = slot[a].link /\ slot'[a].link = slot[a].link)
  <2>1. l = <<a, l[2]>>
    BY <1>1 DEF Kept, TypeOK
  <2>2. CASE l \in given[s]
    BY <1>1, <2>2 DEF GivenOf
  <2>3. CASE \E b \in Accounts : l = <<b, slot[b].link>> /\ slot'[b].link = slot[b].link
    BY <2>1, <2>3
  <2>4. QED
    BY <1>1, <2>2, <2>3 DEF Kept, GivenGrows
<1>2. ASSUME NEW n \in GivenOf(a)'
      PROVE  n \in GivenOf(a) \/ (n = slot[a].link /\ slot'[a].link = slot[a].link)
  <2>1. PICK l \in UNION {given'[s] : s \in Services} : l[1] = a /\ n = l[2]
    BY <1>2 DEF GivenOf
  <2>2. QED
    BY <1>1, <2>1
<1>3. Fresh(a) \notin GivenOf(a) /\ Fresh(a) # slot[a].link
  BY FreshIsNew DEF IInv, GivenInv
<1>4. QED
  BY <1>2, <1>3

(* What a step does to links.                                              *)
LEMMA KeptRotates == IInv /\ Kept => RotatedWhenFreed
<1>. SUFFICES ASSUME IInv, Kept, NEW a \in Installed, a \in Installed'
              PROVE  /\ slot'[a].link # slot[a].link => slot'[a].link \notin GivenOf(a)'
                     /\ slot[a].status = "sold" /\ slot'[a].status # "sold" =>
                          slot'[a].link # slot[a].link /\ served'[a] \notin GivenOf(a)'
  BY DEF RotatedWhenFreed
<1>1. a \in Accounts /\ a \in Rows
  BY DEF Installed, Rows
<1>2. LinkKept(a) /\ FreedAnew(a)
  BY <1>1 DEF Kept, LinksKept
<1>3. Fresh(a) \notin GivenOf(a)' /\ Fresh(a) # slot[a].link
  BY <1>1, GivenStays, FreshIsNew DEF IInv, GivenInv
<1>4. QED
  BY <1>1, <1>2, <1>3 DEF LinkKept, FreedAnew, Holds

(* These together keep the invariant.                                      *)
LEMMA KeptKeeps == IInv /\ Kept => IInv'
<1>. SUFFICES ASSUME IInv, Kept PROVE IInv'
  OBVIOUS
<1>1. OneWorker'
  <2>1. SUFFICES ASSUME NEW a \in Installed', NEW b \in Installed', slot'[a].cf = slot'[b].cf
                 PROVE  a = b
    BY DEF OneWorker
  <2>2. slot[a].cf = slot[b].cf /\ a \in Rows /\ b \in Rows
    BY <2>1 DEF Kept, WorkersKept
  <2>3. CASE a \in Installed /\ b \in Installed
    BY <2>2, <2>3 DEF IInv, OneWorker
  <2>4. ASSUME NEW c \in Accounts, Installed' \subseteq Installed \union {c}, ~Claimed(c)
        PROVE  a = b
    BY <2>2, <2>3, <2>4 DEF Claimed
  <2>5. QED
    BY <2>3, <2>4 DEF Kept, WorkersKept
<1>2. OnlyStoredLinks'
  <2>1. SUFFICES ASSUME NEW a \in Installed', served'[a] # 0, served'[a] \in GivenOf(a)'
                 PROVE  served'[a] = slot'[a].link
    BY DEF OnlyStoredLinks
  <2>2. a \in Accounts
    BY DEF Installed, Rows
  <2>3. ServedKept(a)
    BY <2>2 DEF Kept, LinksKept
  <2>4. Fresh(a) \notin GivenOf(a)' /\ GivenOf(a)' \subseteq GivenOf(a) \union {slot[a].link}
    BY <2>2, GivenStays
  <2>5. QED
    BY <2>1, <2>3, <2>4 DEF ServedKept, IInv, OnlyStoredLinks
<1>3. GivenInv'
  <2>1. SUFFICES ASSUME NEW a \in Accounts PROVE IsFiniteSet(GivenOf(a)')
    BY DEF GivenInv
  <2>2. GivenOf(a)' \subseteq GivenOf(a) \union {slot[a].link}
    BY GivenStays
  <2>3. IsFiniteSet(GivenOf(a) \union {slot[a].link})
    BY FS_AddElement DEF IInv, GivenInv
  <2>4. QED
    BY <2>2, <2>3, FS_Subset
<1>4. QED
  BY <1>1, <1>2, <1>3 DEF IInv, Kept

-----------------------------------------------------------------------------
(* Steps that change no slot or one *)

(* Sold slots stay with their services as long as their operations stay.   *)
LEMMA HoldersStay ==
  ASSUME IInv, OperationsKept, ServicesKept,
         \A a \in Accounts : Holds(a)' => Holds(a) /\ Holder(a)' = Holder(a),
         \A a \in Accounts : Holds(a) =>
           LET o == Holder(a)[1] IN
           \/ operation'[o].status = operation[o].status
           \/ operation'[o].status \in {"sending", "review"}
           \/ operation'[o].status = "done" /\ service'[Holder(a)] # None
  PROVE  OneSlot' /\ HolderInv'
<1>1. OneSlot'
  BY DEF IInv, OneSlot
<1>2. ASSUME NEW a \in Accounts, Holds(a)'
      PROVE  Bought(Holder(a))'
  <2>1. PICK s : s = Holder(a) /\ s = Holder(a)'
    BY <1>2
  <2>2. Holds(a) /\ Bought(s)
    BY <1>2, <2>1 DEF IInv, HolderInv
  <2>3. s \in Services /\ s[1] \in Operations
    BY <2>2 DEF Bought, Services
  <2>4. Bought(s)'
    BY <2>1, <2>2, <2>3 DEF Bought, OperationsKept, ServicesKept
  <2>5. QED
    BY <2>1, <2>4
<1>3. QED
  BY <1>1, <1>2 DEF HolderInv

(* Where no slot changes nothing about slots does.                         *)
LEMMA SameSlots ==
  ASSUME UNCHANGED slot
  PROVE  /\ \A a \in Accounts : Holds(a)' = Holds(a) /\ Holder(a)' = Holder(a)
         /\ UNCHANGED served => LinksKept
         /\ WorkersKept
BY DEF Holds, Holder, Rows, Installed, LinksKept, LinkKept, ServedKept, FreedAnew, WorkersKept

(* The row of one operation changes, before it has slots or after.         *)
LEMMA OperationStep ==
  ASSUME IInv, NEW o \in Operations, NEW row \in OperationRow,
         operation' = [operation EXCEPT ![o] = row],
         operation[o] # None => row.target = operation[o].target /\ row.quantity = operation[o].quantity,
         \/ row.status \in {"sending", "review"}
         \/ \A a \in Accounts : Holds(a) => Holder(a)[1] # o,
         UNCHANGED <<slot, service, request, doomed, served, given, failures>>
  PROVE  Kept
<1>1. TypeOK'
  BY DEF IInv, TypeOK, Rows
<1>2. OperationsKept /\ ServicesKept
  BY SlotsAssumption DEF IInv, TypeOK, OperationsKept, ServicesKept
<1>3. OneSlot' /\ HolderInv'
  <2>1. \A p \in Operations : p # o => operation'[p] = operation[p]
    BY DEF IInv, TypeOK
  <2>2. operation'[o] = row
    BY DEF IInv, TypeOK
  <2>3. \A a \in Accounts : Holds(a) => Holder(a)[1] \in Operations
    BY DEF IInv, HolderInv, Bought, Services
  <2>4. \A a \in Accounts : Holds(a)' => Holds(a) /\ Holder(a)' = Holder(a)
    BY SameSlots
  <2>5. \A a \in Accounts : Holds(a) =>
           \/ operation'[Holder(a)[1]].status = operation[Holder(a)[1]].status
           \/ operation'[Holder(a)[1]].status \in {"sending", "review"}
    BY <2>1, <2>2, <2>3
  <2>6. QED
    BY <1>2, <2>4, <2>5, HoldersStay
<1>4. GivenGrows
  BY DEF GivenGrows
<1>5. QED
  BY <1>1, <1>3, <1>4, SameSlots DEF Kept, RequestInv, IInv

(* What a handler may make of one row and of the worker it stands for.     *)
RowAllowed(a, row) ==
  /\ row \in Row
  /\ (row.status = "sold") = (row.holder # None)
  /\ row.status \in {"free", "sold"} => row.link # 0
  /\ row.status = "sold" => Holds(a) /\ row.holder = Holder(a)
  /\ row.link # 0 =>
       /\ a \in Rows /\ row.cf = slot[a].cf
       /\ a \in Installed \/ ~Claimed(a)
       /\ (a \in Installed /\ row.link = slot[a].link) \/ row.link = Fresh(a)

(* What it may make of the path the worker answers to.                     *)
PathAllowed(a, row, path) ==
  row # Gone /\ row.link # 0 =>
    /\ \/ path \in {0, row.link, Fresh(a)}
       \/ a \in Installed /\ path = served[a] /\ row.link = slot[a].link
    /\ Holds(a) /\ row.status # "sold" => row.link = Fresh(a) /\ path = Fresh(a)

(* A step that changes one row and its worker keeps what Kept says.        *)
LEMMA RowStep ==
  ASSUME IInv, NEW a \in Accounts, NEW row, row = Gone \/ RowAllowed(a, row), NEW path \in Nat,
         slot' = [slot EXCEPT ![a] = row], served' = [served EXCEPT ![a] = path],
         PathAllowed(a, row, path),
         UNCHANGED <<operation, service, request, doomed, given>>,
         failures' \in 0 .. MaxFailures
  PROVE  Kept
<1>1. slot'[a] = row /\ \A b \in Accounts : b # a => slot'[b] = slot[b]
  BY DEF IInv, TypeOK
<1>2. served'[a] = path /\ \A b \in Accounts : b # a => served'[b] = served[b]
  BY DEF IInv, TypeOK
<1>3. \A b \in Accounts : b # a => /\ b \in Rows' <=> b \in Rows
                                   /\ b \in Installed' <=> b \in Installed
                                   /\ Holds(b)' <=> Holds(b)
                                   /\ Holder(b)' = Holder(b)
  BY <1>1 DEF Rows, Installed, Holds, Holder
<1>4. a \in Rows' => RowAllowed(a, row) /\ row # Gone
  BY <1>1 DEF Rows
<1>5. TypeOK'
  <2>1. row \in Row \union {None, Gone}
    BY DEF RowAllowed
  <2>2. slot' \in [Accounts -> Row \union {None, Gone}] /\ served' \in [Accounts -> Nat]
    BY <2>1 DEF IInv, TypeOK
  <2>3. \A b \in Rows' : /\ (slot'[b].status = "sold") = (slot'[b].holder # None)
                         /\ slot'[b].status \in {"free", "sold"} => slot'[b].link # 0
    <3>1. \A b \in Rows' : b \in Accounts
      BY DEF Rows
    <3>2. QED
      BY <1>1, <1>3, <1>4, <3>1 DEF RowAllowed, IInv, TypeOK
  <2>4. QED
    BY <2>2, <2>3 DEF IInv, TypeOK
<1>6. OneSlot' /\ HolderInv'
  <2>1. \A b \in Accounts : Holds(b)' => Holds(b) /\ Holder(b)' = Holder(b)
    BY <1>1, <1>3, <1>4 DEF RowAllowed, Holds, Holder
  <2>2. OperationsKept /\ ServicesKept
    BY DEF OperationsKept, ServicesKept
  <2>3. QED
    BY <2>1, <2>2, HoldersStay
<1>7. GivenGrows
  BY DEF GivenGrows
<1>8. ASSUME NEW b \in Accounts
      PROVE  LinkKept(b) /\ ServedKept(b) /\ FreedAnew(b)
  <2>1. CASE b # a
    BY <1>1, <1>2, <1>3, <2>1 DEF LinkKept, ServedKept, FreedAnew
  <2>2. CASE b = a
    <3>1. a \in Installed' => RowAllowed(a, row) /\ row # Gone /\ row.link # 0
      BY <1>1, <1>4 DEF Installed
    <3>2. LinkKept(a)
      BY <1>1, <3>1 DEF LinkKept, RowAllowed
    <3>3. ServedKept(a)
      BY <1>1, <1>2, <3>1 DEF ServedKept, PathAllowed
    <3>4. FreedAnew(a)
      BY <1>1, <1>2, <3>1 DEF FreedAnew, PathAllowed, Holds, Installed
    <3>5. QED
      BY <2>2, <3>2, <3>3, <3>4
  <2>3. QED
    BY <2>1, <2>2
<1>9. WorkersKept
  <2>1. \A b \in Installed' : b \in Accounts /\ (b # a => b \in Installed)
    BY <1>3 DEF Installed, Rows
  <2>2. a \in Installed' => RowAllowed(a, row) /\ row.link # 0
    BY <1>1, <1>4 DEF Installed
  <2>3. \A b \in Installed' : b \in Rows /\ slot'[b].cf = slot[b].cf
    BY <1>1, <2>1, <2>2 DEF RowAllowed, Installed
  <2>4. CASE a \in Installed' /\ a \notin Installed
    BY <2>1, <2>2, <2>3, <2>4 DEF RowAllowed, WorkersKept
  <2>5. CASE a \notin Installed' \/ a \in Installed
    BY <2>1, <2>3, <2>5 DEF WorkersKept
  <2>6. QED
    BY <2>4, <2>5
<1>10. QED
  BY <1>5, <1>6, <1>7, <1>8, <1>9 DEF Kept, LinksKept, RequestInv, IInv

-----------------------------------------------------------------------------
(* Administration of the rows and their time *)

(* A row may stay what it is, but for its time.                            *)
LEMMA RowMayStay ==
  ASSUME IInv, NEW a \in Rows, NEW left \in Nat
  PROVE  /\ RowAllowed(a, slot[a])
         /\ RowAllowed(a, [slot[a] EXCEPT !.left = left])
<1>1. a \in Accounts /\ slot[a] \in Row
  BY RowFacts DEF IInv
<1>2. DEFINE row == [slot[a] EXCEPT !.left = left]
<1>3. /\ row \in Row /\ row.status = slot[a].status /\ row.cf = slot[a].cf
      /\ row.link = slot[a].link /\ row.holder = slot[a].holder
  BY <1>1 DEF Row
<1>4. /\ (slot[a].status = "sold") = (slot[a].holder # None)
      /\ slot[a].status \in {"free", "sold"} => slot[a].link # 0
  BY DEF IInv, TypeOK
<1>5. slot[a].link # 0 => a \in Installed
  BY DEF Installed
<1>. HIDE DEF row
<1>6. RowAllowed(a, row)
  BY <1>3, <1>4, <1>5 DEF RowAllowed, Holds, Holder
<1>7. RowAllowed(a, slot[a])
  BY <1>1, <1>4, <1>5 DEF RowAllowed, Holds, Holder
<1>8. QED
  BY <1>6, <1>7 DEF row

(* A new row has no worker.                                                *)
LEMMA CreateKeeps ==
  ASSUME IInv, NEW a \in Accounts, NEW cf \in Tokens[a], CreateBpbAccount(a, cf)
  PROVE  Kept
<1>. DEFINE row == [status |-> "pending_install", cf |-> cf, link |-> 0, holder |-> None, left |-> 0]
<1>1. row \in Row /\ row.status = "pending_install" /\ row.link = 0 /\ row.holder = None
  BY DEF Row
<1>2. slot' = [slot EXCEPT ![a] = row] /\ UNCHANGED <<operation, service, request, doomed, given, failures>>
  BY DEF CreateBpbAccount
<1>3. served[a] \in Nat /\ served' = [served EXCEPT ![a] = served[a]] /\ failures' \in 0 .. MaxFailures
  BY DEF CreateBpbAccount, IInv, TypeOK
<1>. HIDE DEF row
<1>4. RowAllowed(a, row) /\ PathAllowed(a, row, served[a])
  BY <1>1 DEF RowAllowed, PathAllowed
<1>5. QED
  BY <1>2, <1>3, <1>4, RowStep

(* An installation leaves a free row with its link, or a broken one.       *)
LEMMA InstallKeeps ==
  ASSUME IInv, NEW a \in Accounts, NEW outcome \in Outcomes, InstallBpbOnAccount(a, outcome)
  PROVE  Kept
<1>. DEFINE free   == [slot[a] EXCEPT !.status = "free", !.link = InstalledLink(a)]
            broken == [slot[a] EXCEPT !.status = "error"]
<1>1. a \in Rows /\ slot[a].status # "sold" /\ slot[a] \in Row /\ slot[a].holder = None
  BY RowFacts DEF InstallBpbOnAccount, IInv
<1>2. /\ Fresh(a) \in Nat /\ Fresh(a) # 0
      /\ InstalledLink(a) \in Nat /\ InstalledLink(a) # 0
      /\ InstalledLink(a) = Fresh(a) \/ (a \in Installed /\ InstalledLink(a) = slot[a].link)
      /\ a \in Installed => InstalledLink(a) = slot[a].link
  BY <1>1, FreshIsNew DEF InstalledLink, IInv, GivenInv, Row, Installed
<1>3. RowAllowed(a, broken) /\ broken.link = slot[a].link
  <2>1. /\ broken \in Row /\ broken.status = "error" /\ broken.cf = slot[a].cf
        /\ broken.link = slot[a].link /\ broken.holder = None
    BY <1>1 DEF Row
  <2>. HIDE DEF broken
  <2>2. QED
    BY <1>1, <2>1, RowIsNotNone DEF RowAllowed, Holder, Installed
<1>4. ~Claimed(a) => RowAllowed(a, free) /\ free.link = InstalledLink(a)
  <2>1. /\ free \in Row /\ free.status = "free" /\ free.cf = slot[a].cf
        /\ free.link = InstalledLink(a) /\ free.holder = None
    BY <1>1, <1>2 DEF Row
  <2>. HIDE DEF free
  <2>2. QED
    BY <1>1, <1>2, <2>1 DEF RowAllowed, Holder, Installed
<1>5. RowAllowed(a, slot[a])
  BY <1>1, RowMayStay
<1>6. failures' \in 0 .. MaxFailures
  BY SlotsAssumption DEF InstallBpbOnAccount, Called, IInv, TypeOK
<1>7. UNCHANGED <<operation, service, request, doomed, given>> /\ served[a] \in Nat
  BY DEF InstallBpbOnAccount, IInv, TypeOK
<1>8. \/ served' = [served EXCEPT ![a] = served[a]]
      \/ /\ served' = [served EXCEPT ![a] = InstalledLink(a)]
         /\ outcome = "ok" \/ (outcome = "lost" /\ a \in Installed)
  BY DEF InstallBpbOnAccount, IInv, TypeOK
<1>9. slot = [slot EXCEPT ![a] = slot[a]]
  BY DEF IInv, TypeOK
<1>10. ~Holds(a)
  BY <1>1 DEF Holds
<1>11. CASE outcome = "ok"
  <2>1. ~Claimed(a) /\ slot' = [slot EXCEPT ![a] = free]
    BY <1>11 DEF InstallBpbOnAccount
  <2>2. served' = [served EXCEPT ![a] = InstalledLink(a)]
    BY <1>11 DEF InstallBpbOnAccount
  <2>3. RowAllowed(a, free) /\ PathAllowed(a, free, InstalledLink(a))
    BY <1>4, <1>10, <2>1 DEF PathAllowed
  <2>. HIDE DEF free
  <2>4. QED
    BY <1>2, <1>6, <1>7, <2>1, <2>2, <2>3, RowStep
<1>12. ASSUME NEW row, row.link = slot[a].link, RowAllowed(a, row),
              slot' = [slot EXCEPT ![a] = row], outcome # "ok"
       PROVE  Kept
  <2>1. CASE served' = [served EXCEPT ![a] = served[a]]
    <3>1. PathAllowed(a, row, served[a])
      BY <1>1, <1>10, <1>12 DEF PathAllowed, Installed
    <3>2. QED
      BY <1>6, <1>7, <1>12, <2>1, <3>1, RowStep
  <2>2. CASE served' = [served EXCEPT ![a] = InstalledLink(a)] /\ a \in Installed
    <3>1. PathAllowed(a, row, InstalledLink(a))
      BY <1>2, <1>10, <1>12, <2>2 DEF PathAllowed
    <3>2. QED
      BY <1>2, <1>6, <1>7, <1>12, <2>2, <3>1, RowStep
  <2>3. QED
    BY <1>8, <1>12, <2>1, <2>2
<1>13. CASE outcome # "ok" /\ slot' = [slot EXCEPT ![a] = broken]
  <2>. HIDE DEF broken
  <2>1. QED
    BY <1>3, <1>12, <1>13
<1>14. CASE outcome # "ok" /\ slot' = slot
  BY <1>5, <1>9, <1>12, <1>14
<1>15. QED
  BY <1>11, <1>13, <1>14 DEF InstallBpbOnAccount, Outcomes

(* A revocation frees the row under a path nobody was given, or leaves it. *)
LEMMA RevokeKeeps ==
  ASSUME IInv, NEW a \in Accounts, NEW outcome \in Outcomes, RevokeBpbSlot(a, outcome)
  PROVE  Kept
<1>. DEFINE free == [slot[a] EXCEPT !.status = "free", !.link = Fresh(a), !.holder = None, !.left = 0]
<1>1. a \in Rows /\ a \in Installed /\ slot[a] \in Row
  BY RowFacts DEF RevokeBpbSlot, IInv, Installed
<1>2. Fresh(a) \in Nat /\ Fresh(a) # 0
  BY FreshIsNew DEF IInv, GivenInv
<1>3. RowAllowed(a, free) /\ free.link = Fresh(a)
  <2>1. /\ free \in Row /\ free.status = "free" /\ free.cf = slot[a].cf
        /\ free.link = Fresh(a) /\ free.holder = None
    BY <1>1, <1>2 DEF Row
  <2>. HIDE DEF free
  <2>2. QED
    BY <1>1, <1>2, <2>1, RowIsNotNone DEF RowAllowed
<1>4. failures' \in 0 .. MaxFailures
  BY SlotsAssumption DEF RevokeBpbSlot, Called, IInv, TypeOK
<1>5. UNCHANGED <<operation, service, request, doomed, given>> /\ served[a] \in Nat
  BY DEF RevokeBpbSlot, IInv, TypeOK
<1>6. CASE outcome = "ok"
  <2>1. slot' = [slot EXCEPT ![a] = free] /\ served' = [served EXCEPT ![a] = Fresh(a)]
    BY <1>6 DEF RevokeBpbSlot
  <2>2. PathAllowed(a, free, Fresh(a))
    BY <1>3 DEF PathAllowed
  <2>. HIDE DEF free
  <2>3. QED
    BY <1>2, <1>3, <1>4, <1>5, <2>1, <2>2, RowStep
<1>7. CASE outcome # "ok"
  <2>1. slot' = [slot EXCEPT ![a] = slot[a]]
    BY <1>7 DEF RevokeBpbSlot, IInv, TypeOK
  <2>2. PICK path \in {served[a], Fresh(a)} : served' = [served EXCEPT ![a] = path]
    BY DEF RevokeBpbSlot, IInv, TypeOK
  <2>3. PathAllowed(a, slot[a], path)
    BY <1>1 DEF PathAllowed, Holds
  <2>4. QED
    BY <1>1, <1>2, <1>4, <1>5, <2>1, <2>2, <2>3, RowMayStay, RowStep
<1>8. QED
  BY <1>6, <1>7

(* The worker answers to the stored path.                                  *)
LEMMA SettingsKeep ==
  ASSUME IInv, NEW a \in Accounts, NEW outcome \in Outcomes, ApplyBpbSettings(a, outcome)
  PROVE  Kept
<1>1. a \in Rows /\ a \in Installed /\ slot[a] \in Row /\ slot[a].link \in Nat
  BY RowFacts DEF ApplyBpbSettings, IInv, Installed, Row
<1>2. failures' \in 0 .. MaxFailures
  BY SlotsAssumption DEF ApplyBpbSettings, Called, IInv, TypeOK
<1>3. UNCHANGED <<operation, service, request, doomed, given>> /\ served[a] \in Nat
  BY DEF ApplyBpbSettings, IInv, TypeOK
<1>4. slot' = [slot EXCEPT ![a] = slot[a]]
  BY DEF ApplyBpbSettings, IInv, TypeOK
<1>5. PICK path \in {served[a], slot[a].link} : served' = [served EXCEPT ![a] = path]
  BY DEF ApplyBpbSettings, IInv, TypeOK
<1>6. PathAllowed(a, slot[a], path)
  BY <1>1 DEF PathAllowed, Holds
<1>7. QED
  BY <1>1, <1>2, <1>3, <1>4, <1>5, <1>6, RowMayStay, RowStep

(* A row that is deleted holds nothing; one that stays is sold.            *)
LEMMA DeleteKeeps ==
  ASSUME IInv, NEW a \in Accounts, NEW force \in BOOLEAN, DeleteBpbAccount(a, force)
  PROVE  Kept
<1>1. PICK path \in {served[a], 0} : served' = [served EXCEPT ![a] = path]
  BY DEF DeleteBpbAccount, IInv, TypeOK
<1>2. path \in Nat /\ failures' \in 0 .. MaxFailures /\ a \in Rows
  BY DEF DeleteBpbAccount, IInv, TypeOK
<1>3. UNCHANGED <<operation, service, request, doomed, given>>
  BY DEF DeleteBpbAccount
<1>4. CASE slot' = [slot EXCEPT ![a] = Gone]
  BY <1>1, <1>2, <1>3, <1>4, RowStep DEF PathAllowed
<1>5. CASE slot' = slot /\ slot[a].status = "sold"
  <2>1. slot' = [slot EXCEPT ![a] = slot[a]]
    BY <1>5 DEF IInv, TypeOK
  <2>2. PathAllowed(a, slot[a], path)
    BY <1>1, <1>2, <1>5 DEF PathAllowed, Installed
  <2>3. QED
    BY <1>1, <1>2, <1>3, <2>1, <2>2, RowMayStay, RowStep
<1>6. QED
  BY <1>4, <1>5 DEF DeleteBpbAccount

(* The time of a row passes.                                               *)
LEMMA TimeKeeps ==
  ASSUME IInv, NEW a \in Accounts, TimePasses(a)
  PROVE  Kept
<1>1. a \in Rows /\ slot[a] \in Row /\ slot[a].left > 0
  BY RowFacts DEF TimePasses, IInv
<1>2. slot[a].left - 1 \in Nat
  BY <1>1 DEF Row
<1>. DEFINE row == [slot[a] EXCEPT !.left = slot[a].left - 1]
<1>3. RowAllowed(a, row) /\ row.status = slot[a].status /\ row.link = slot[a].link
  BY <1>1, <1>2, RowMayStay DEF Row
<1>4. slot' = [slot EXCEPT ![a] = row]
  BY DEF TimePasses
<1>5. served' = [served EXCEPT ![a] = served[a]] /\ served[a] \in Nat /\ failures' \in 0 .. MaxFailures
  BY DEF TimePasses, IInv, TypeOK
<1>6. UNCHANGED <<operation, service, request, doomed, given>>
  BY DEF TimePasses
<1>7. PathAllowed(a, row, served[a])
  BY <1>1, <1>3 DEF PathAllowed, Holds, Installed
<1>. HIDE DEF row
<1>8. QED
  BY <1>3, <1>4, <1>5, <1>6, <1>7, RowStep

-----------------------------------------------------------------------------
(* Sales *)

(* The slot of a service is one of those of the operation that bought it.  *)
LEMMA HeldIsCovered ==
  ASSUME IInv, NEW a \in Accounts, Holds(a)
  PROVE  LET s == Holder(a) IN
         /\ s \in Services /\ s[1] \in Operations /\ Bought(s)
         /\ s \in Covers(s[1]) /\ a \in HeldBy(s)
<1>1. Bought(Holder(a))
  BY DEF IInv, HolderInv
<1>2. PICK o \in Operations, n \in 0 .. MaxQuantity - 1 : Holder(a) = <<o, n>>
  BY <1>1 DEF Bought, Services
<1>3. operation[o] \in OperationRow /\ operation[o].target = None /\ n < operation[o].quantity
  BY <1>1, <1>2 DEF Bought, IInv, TypeOK
<1>4. operation[o].quantity \in 1 .. MaxQuantity /\ MaxQuantity \in Nat
  BY <1>3, SlotsAssumption DEF OperationRow
<1>5. n \in 0 .. operation[o].quantity - 1
  BY <1>3, <1>4
<1>6. QED
  BY <1>1, <1>2, <1>3, <1>5 DEF Covers, HeldBy, Holds, Holder, Bought

(* An operation that has not started has no slot.                          *)
LEMMA NoSlotYet ==
  ASSUME IInv, NEW o \in Operations,
         operation[o] = None \/ operation[o].status \in {"quoted", "queued", "failed"} \/ operation[o].target # None
  PROVE  \A a \in Accounts : Holds(a) => Holder(a)[1] # o
BY HeldIsCovered DEF Bought

(* An operation covers services.                                           *)
LEMMA CoversServices ==
  ASSUME TypeOK, NEW o \in Operations, operation[o] # None
  PROVE  Covers(o) \subseteq Services
<1>1. operation[o] \in OperationRow
  BY DEF TypeOK
<1>2. CASE operation[o].target # None
  BY <1>1, <1>2 DEF Covers, OperationRow
<1>3. CASE operation[o].target = None
  <2>1. operation[o].quantity \in 1 .. MaxQuantity /\ MaxQuantity \in Nat
    BY <1>1, SlotsAssumption DEF OperationRow
  <2>2. 0 .. operation[o].quantity - 1 \subseteq 0 .. MaxQuantity - 1
    BY <2>1
  <2>3. Covers(o) = {o} \X (0 .. operation[o].quantity - 1)
    BY <1>3 DEF Covers
  <2>4. QED
    BY <2>2, <2>3 DEF Services
<1>4. QED
  BY <1>2, <1>3

(* The status of an operation changes and nothing else does.               *)
LEMMA EndingKeeps ==
  ASSUME IInv, NEW o \in Operations, operation[o] # None,
         NEW status \in {"queued", "sending", "review", "failed"}, EndsAs(o, status),
         status \in {"sending", "review"} \/ \A a \in Accounts : Holds(a) => Holder(a)[1] # o,
         UNCHANGED <<slot, service, request, doomed, served, given, failures>>
  PROVE  Kept
<1>. DEFINE row == [operation[o] EXCEPT !.status = status]
<1>1. operation[o] \in OperationRow
  BY DEF IInv, TypeOK
<1>2. /\ row \in OperationRow /\ row.status = status
      /\ row.target = operation[o].target /\ row.quantity = operation[o].quantity
  BY <1>1 DEF OperationRow
<1>3. operation' = [operation EXCEPT ![o] = row]
  BY DEF EndsAs
<1>. HIDE DEF row
<1>4. QED
  BY <1>2, <1>3, OperationStep

(* A quote is a new operation.                                             *)
LEMMA QuoteKeeps ==
  ASSUME IInv, NEW o \in Operations, NEW offer \in Offers[o], Quote(o, offer)
  PROVE  Kept
<1>. DEFINE row == [status |-> "quoted", target |-> offer.target, quantity |-> offer.quantity]
<1>1. offer \in [target : Services \union {None}, quantity : 1 .. MaxQuantity]
  BY SlotsAssumption
<1>2. row \in OperationRow
  BY <1>1 DEF OperationRow
<1>3. /\ operation[o] = None /\ operation' = [operation EXCEPT ![o] = row]
      /\ UNCHANGED <<slot, service, request, doomed, served, given, failures>>
  BY DEF Quote
<1>. HIDE DEF row
<1>4. QED
  BY <1>2, <1>3, NoSlotYet, OperationStep

(* The operations that end without a slot, or stop.                        *)
LEMMA PurchaseKeeps == ASSUME IInv, NEW o \in Operations, Purchase(o) PROVE Kept
<1>1. EndsAs(o, "queued") /\ UNCHANGED <<slot, service, request, doomed, served, given, failures>>
  BY DEF Purchase, EndsAs
<1>2. QED
  BY <1>1, NoSlotYet, EndingKeeps DEF Purchase

(* An operation that stopped waits for a decision.                         *)
LEMMA InterruptedKeeps == ASSUME IInv, NEW o \in Operations, Interrupted(o) PROVE Kept
BY EndingKeeps DEF Interrupted

(* An operation that is cancelled has no slot.                             *)
LEMMA CancellationKeeps == ASSUME IInv, NEW o \in Operations, CancelOperation(o) PROVE Kept
<1>1. \A a \in Accounts : Holds(a) => Holder(a)[1] # o
  <2>1. CASE operation[o].status = "queued"
    BY <2>1, NoSlotYet
  <2>2. CASE Unused(o)
    BY <2>2, HeldIsCovered DEF Unused
  <2>3. QED
    BY <2>1, <2>2 DEF CancelOperation
<1>2. QED
  BY <1>1, EndingKeeps DEF CancelOperation

-----------------------------------------------------------------------------
(* Steps that sell slots or change their time *)

(* Rows stay, with their workers; a free one may be sold.                  *)
RowsStay ==
  /\ slot' \in [Accounts -> Row \union {None, Gone}]
  /\ \A a \in Accounts : a \in Rows' <=> a \in Rows
  /\ \A a \in Rows : /\ slot'[a].cf = slot[a].cf /\ slot'[a].link = slot[a].link
                     /\ \/ slot'[a].status = slot[a].status /\ slot'[a].holder = slot[a].holder
                        \/ /\ slot[a].status = "free" /\ slot'[a].status = "sold"
                           /\ slot'[a].holder \in Services
(* What such a step keeps of rows, links and workers.                      *)
LEMMA RowsStayKeeps ==
  ASSUME IInv, RowsStay, UNCHANGED served
  PROVE  /\ LinksKept /\ WorkersKept
         /\ \A a \in Rows' : (slot'[a].status = "sold") = (slot'[a].holder # None)
         /\ \A a \in Rows' : slot'[a].status \in {"free", "sold"} => slot'[a].link # 0
<1>1. \A a \in Rows : a \in Accounts
  BY DEF Rows
<1>2. \A a \in Accounts : a \in Installed' <=> a \in Installed
  BY <1>1 DEF RowsStay, Installed
<1>3. \A a \in Accounts : LinkKept(a) /\ ServedKept(a)
  BY <1>1, <1>2 DEF LinkKept, ServedKept, RowsStay, Installed
<1>4. \A a \in Accounts : FreedAnew(a)
  BY <1>1 DEF FreedAnew, RowsStay, Holds
<1>7. WorkersKept
  <2>1. \A a \in Installed' : a \in Accounts /\ a \in Installed /\ a \in Rows
    BY <1>2 DEF Installed, Rows
  <2>2. QED
    BY <2>1 DEF WorkersKept, RowsStay
<1>8. \A a \in Rows' : a \in Rows
  BY DEF RowsStay, Rows
<1>9. \A a \in Rows' : (slot'[a].status = "sold") = (slot'[a].holder # None)
  <2>1. None \notin Services
    BY SlotsAssumption
  <2>2. QED
    BY <1>8, <2>1 DEF RowsStay, IInv, TypeOK
<1>10. \A a \in Rows' : slot'[a].status \in {"free", "sold"} => slot'[a].link # 0
  BY <1>8 DEF RowsStay, IInv, TypeOK
<1>11. QED
  BY <1>3, <1>4, <1>7, <1>9, <1>10 DEF LinksKept

(* Only the time of rows changes.                                          *)
LEMMA TimeOnly ==
  ASSUME IInv, NEW S, NEW left \in Nat,
         slot' = [a \in Accounts |-> IF a \in S THEN [slot[a] EXCEPT !.left = left] ELSE slot[a]],
         S \subseteq Rows
  PROVE  /\ RowsStay
         /\ \A a \in Accounts : /\ Holds(a)' <=> Holds(a)
                                /\ Holds(a) => Holder(a)' = Holder(a)
<1>1. ASSUME NEW a \in Accounts, a \in S
      PROVE  /\ a \in Rows /\ a \in Rows' /\ slot'[a] \in Row
             /\ slot'[a].cf = slot[a].cf /\ slot'[a].link = slot[a].link
             /\ slot'[a].status = slot[a].status /\ slot'[a].holder = slot[a].holder
  <2>1. a \in Rows /\ slot[a] \in Row /\ slot'[a] = [slot[a] EXCEPT !.left = left]
    BY <1>1, RowFacts DEF IInv
  <2>. DEFINE row == [slot[a] EXCEPT !.left = left]
  <2>2. /\ row \in Row /\ row.cf = slot[a].cf /\ row.link = slot[a].link
        /\ row.status = slot[a].status /\ row.holder = slot[a].holder
    BY <2>1 DEF Row
  <2>3. slot'[a] = row
    BY <2>1
  <2>. HIDE DEF row
  <2>4. QED
    BY <2>1, <2>2, <2>3, RowIsNotNone DEF Rows
<1>2. ASSUME NEW a \in Accounts, a \notin S
      PROVE  slot'[a] = slot[a] /\ (a \in Rows' <=> a \in Rows)
  BY <1>2 DEF Rows
<1>3. slot' \in [Accounts -> Row \union {None, Gone}]
  <2>1. \A a \in Accounts : slot'[a] \in Row \union {None, Gone}
    BY <1>1, <1>2 DEF IInv, TypeOK
  <2>2. QED
    BY <2>1
<1>4. RowsStay
  <2>1. \A a \in Rows : a \in Accounts
    BY DEF Rows
  <2>2. QED
    BY <1>1, <1>2, <1>3, <2>1 DEF RowsStay
<1>5. QED
  BY <1>1, <1>2, <1>4 DEF Holds, Holder

(* A refund ends the time of a slot.                                       *)
LEMMA RefundKeeps ==
  ASSUME IInv, NEW s \in Services, service[s] # None, Expire(s),
         service' = [service EXCEPT ![s].status = "refunded"],
         Condemn(s), request' \subseteq request,
         UNCHANGED <<operation, served, given, failures>>
  PROVE  Kept
<1>1. HeldBy(s) \subseteq Rows
  BY DEF HeldBy
<1>2. RowsStay /\ \A a \in Accounts : (Holds(a)' <=> Holds(a)) /\ (Holds(a) => Holder(a)' = Holder(a))
  BY <1>1, TimeOnly DEF Expire
<1>. DEFINE row == [service[s] EXCEPT !.status = "refunded"]
<1>3. row \in ServiceRow /\ row # None
  BY SlotsAssumption DEF IInv, TypeOK, ServiceRow
<1>4. service' = [service EXCEPT ![s] = row]
  OBVIOUS
<1>. HIDE DEF row
<1>5. OperationsKept /\ ServicesKept
  BY <1>3, <1>4 DEF IInv, TypeOK, OperationsKept, ServicesKept
<1>6. OneSlot' /\ HolderInv'
  BY <1>2, <1>5, HoldersStay
<1>7. TypeOK'
  <2>1. service' \in [Services -> ServiceRow \union {None}]
    BY <1>3, <1>4 DEF IInv, TypeOK
  <2>2. {<<a, slot[a].link>> : a \in HeldBy(s)} \subseteq Accounts \X Nat
    <3>1. \A a \in HeldBy(s) : a \in Accounts /\ slot[a].link \in Nat
      BY <1>1, RowFacts DEF IInv, Row
    <3>2. QED
      BY <3>1
  <2>3. doomed' \in [Services -> SUBSET (Accounts \X Nat)]
    BY <2>2 DEF Condemn, IInv, TypeOK
  <2>4. QED
    BY <1>2, <2>1, <2>3, RowsStayKeeps DEF RowsStay, IInv, TypeOK
<1>8. RequestInv'
  BY <1>5 DEF IInv, RequestInv, ServicesKept, TypeOK
<1>9. GivenGrows
  BY DEF GivenGrows
<1>10. QED
  BY <1>2, <1>6, <1>7, <1>8, <1>9, RowsStayKeeps DEF Kept

(* A cancellation by the customer pays back at once.                       *)
LEMMA CancelServiceKeeps == ASSUME IInv, NEW s \in Services, CancelBpbService(s) PROVE Kept
BY RefundKeeps DEF CancelBpbService

(* A request for a refund is made of a service that exists, or dropped.    *)
LEMMA RequestKeeps ==
  ASSUME IInv, request' \subseteq Services, \A s \in request' : service[s] # None,
         UNCHANGED <<slot, operation, service, doomed, served, given, failures>>
  PROVE  Kept
<1>1. TypeOK'
  BY DEF IInv, TypeOK, Rows
<1>2. OneSlot' /\ HolderInv'
  BY DEF IInv, OneSlot, HolderInv, Bought, Holds, Holder, Rows
<1>3. GivenGrows /\ RequestInv'
  BY DEF GivenGrows, RequestInv
<1>4. QED
  BY <1>1, <1>2, <1>3, SameSlots DEF Kept

(* A request is made of a service that exists.                             *)
LEMMA RequestRefundKeeps == ASSUME IInv, NEW s \in Services, RequestRefund(s) PROVE Kept
<1>1. request' \subseteq Services /\ \A t \in request' : service[t] # None
  BY DEF RequestRefund, IInv, TypeOK, RequestInv
<1>2. QED
  BY <1>1, RequestKeeps DEF RequestRefund

(* A request is granted or dropped.                                        *)
LEMMA DecisionKeeps ==
  ASSUME IInv, NEW s \in Services, NEW approve \in BOOLEAN, DecideBpbRefund(s, approve)
  PROVE  Kept
<1>1. request' \subseteq request /\ s \in request /\ UNCHANGED <<operation, served, given, failures>>
  BY DEF DecideBpbRefund
<1>2. CASE approve
  BY <1>1, <1>2, RefundKeeps DEF DecideBpbRefund, IInv, RequestInv
<1>3. CASE ~approve
  <2>1. request' \subseteq Services /\ \A t \in request' : service[t] # None
    BY <1>1 DEF IInv, TypeOK, RequestInv
  <2>2. UNCHANGED <<slot, operation, service, doomed, served, given, failures>>
    BY <1>1, <1>3 DEF DecideBpbRefund
  <2>3. QED
    BY <2>1, <2>2, RequestKeeps
<1>4. QED
  BY <1>2, <1>3

(* A settled operation has its services, each with the link of its slot.   *)
LEMMA SettleFacts ==
  ASSUME IInv, NEW o \in Operations, operation[o] # None, NEW from, Settle(o, from),
         \A s \in Covers(o) : /\ from[s] \in Rows /\ slot'[from[s]].link = slot[from[s]].link
                              /\ Holds(from[s])' /\ Holder(from[s])' = s
  PROVE  /\ operation' \in [Operations -> OperationRow \union {None}]
         /\ service' \in [Services -> ServiceRow \union {None}]
         /\ given' \in [Services -> SUBSET (Accounts \X Nat)]
         /\ OperationsKept /\ ServicesKept /\ GivenGrows
         /\ operation'[o].status = "done"
         /\ \A p \in Operations : p # o => operation'[p] = operation[p]
         /\ \A s \in Covers(o) : service'[s] # None
         /\ Paid
<1>. DEFINE row == [operation[o] EXCEPT !.status = "done"]
<1>1. /\ row \in OperationRow /\ row.status = "done" /\ row # None
      /\ row.target = operation[o].target /\ row.quantity = operation[o].quantity
  BY SlotsAssumption DEF IInv, TypeOK, OperationRow
<1>2. operation' = [operation EXCEPT ![o] = row]
  BY DEF Settle, EndsAs
<1>. HIDE DEF row
<1>3. /\ operation' \in [Operations -> OperationRow \union {None}] /\ OperationsKept
      /\ operation'[o].status = "done" /\ \A p \in Operations : p # o => operation'[p] = operation[p]
  BY <1>1, <1>2 DEF IInv, TypeOK, OperationsKept
<1>4. Covers(o) \subseteq Services
  BY CoversServices DEF IInv
<1>5. ASSUME NEW s \in Covers(o)
      PROVE  /\ from[s] \in Accounts /\ slot[from[s]].link \in Nat
             /\ service'[s] \in ServiceRow /\ service'[s] # None
             /\ given'[s] = given[s] \union {<<from[s], slot[from[s]].link>>}
  <2>1. from[s] \in Accounts /\ slot[from[s]].link \in Nat
    BY <1>5, RowFacts DEF IInv, Row
  <2>2. service'[s] = [status |-> "active", account |-> from[s]]
    BY <1>4, <1>5 DEF Settle
  <2>3. service'[s] \in ServiceRow
    BY <2>1, <2>2 DEF ServiceRow
  <2>4. QED
    BY <1>4, <1>5, <2>1, <2>3, SlotsAssumption DEF Settle
<1>6. ASSUME NEW s \in Services, s \notin Covers(o)
      PROVE  service'[s] = service[s] /\ given'[s] = given[s]
  BY <1>6 DEF Settle
<1>7. service' \in [Services -> ServiceRow \union {None}]
  <2>1. \A s \in Services : service'[s] \in ServiceRow \union {None}
    BY <1>5, <1>6 DEF IInv, TypeOK
  <2>2. service' = [s \in Services |-> service'[s]]
    BY DEF Settle
  <2>3. QED
    BY <2>1, <2>2
<1>8. given' \in [Services -> SUBSET (Accounts \X Nat)]
  <2>1. \A s \in Services : given'[s] \in SUBSET (Accounts \X Nat)
    BY <1>5, <1>6 DEF IInv, TypeOK
  <2>2. given' = [s \in Services |-> given'[s]]
    BY DEF Settle
  <2>3. QED
    BY <2>1, <2>2
<1>9. ServicesKept
  BY <1>5, <1>6 DEF ServicesKept
<1>10. GivenGrows
  BY <1>5, <1>6 DEF GivenGrows
<1>11. Paid
  <2>1. \A s \in Covers(o) : HeldBy(s)' # {}
    BY DEF HeldBy, Holds, Holder
  <2>2. QED
    BY <1>3, <2>1 DEF Paid
<1>12. QED
  BY <1>3, <1>5, <1>7, <1>8, <1>9, <1>10, <1>11

(* The evidence of the slots settles an operation that was not.            *)
LEMMA ReconciliationKeeps ==
  ASSUME IInv, NEW o \in Operations, ReconcileBpbOperation(o)
  PROVE  Kept /\ Paid
<1>1. PICK from \in [Covers(o) -> Rows] : (\A s \in Covers(o) : from[s] \in HeldBy(s)) /\ Settle(o, from)
  BY DEF ReconcileBpbOperation
<1>2. operation[o] # None /\ UNCHANGED <<slot, request, doomed, served, failures>>
  BY DEF ReconcileBpbOperation
<1>3. \A a \in Accounts : Holds(a)' = Holds(a) /\ Holder(a)' = Holder(a)
  BY <1>2, SameSlots
<1>4. \A s \in Covers(o) : /\ from[s] \in Rows /\ slot'[from[s]].link = slot[from[s]].link
                           /\ Holds(from[s])' /\ Holder(from[s])' = s
  BY <1>1, <1>2, <1>3 DEF HeldBy, Holds, Holder, Rows
<1>5. /\ operation' \in [Operations -> OperationRow \union {None}]
      /\ service' \in [Services -> ServiceRow \union {None}]
      /\ given' \in [Services -> SUBSET (Accounts \X Nat)]
      /\ OperationsKept /\ ServicesKept /\ GivenGrows
      /\ operation'[o].status = "done"
      /\ \A p \in Operations : p # o => operation'[p] = operation[p]
      /\ \A s \in Covers(o) : service'[s] # None
      /\ Paid
  BY <1>1, <1>2, <1>4, SettleFacts
<1>6. OneSlot' /\ HolderInv'
  <2>1. ASSUME NEW a \in Accounts, Holds(a)
        PROVE  LET p == Holder(a)[1] IN
               \/ operation'[p].status = operation[p].status
               \/ operation'[p].status = "done" /\ service'[Holder(a)] # None
    BY <1>5, <2>1, HeldIsCovered
  <2>2. QED
    BY <1>3, <1>5, <2>1, HoldersStay
<1>7. TypeOK'
  BY <1>2, <1>5 DEF IInv, TypeOK, Rows
<1>8. RequestInv'
  BY <1>2, <1>5 DEF IInv, TypeOK, RequestInv, ServicesKept
<1>9. QED
  BY <1>2, <1>5, <1>6, <1>7, <1>8, SameSlots DEF Kept

(* A synchronization gives a service the link that its row stores.         *)
LEMMA SynchronizationKeeps == ASSUME IInv, NEW s \in Services, SynchronizeBpb(s) PROVE Kept
<1>0. PICK b : b = service[s].account
  OBVIOUS
<1>. DEFINE status == IF slot[b].status # "sold" \/ slot[b].left = 0 THEN "expired" ELSE "active"
            row    == [service[s] EXCEPT !.status = status]
<1>1. /\ service[s] # None /\ b \in Rows /\ UNCHANGED <<slot, operation, request, doomed, served, failures>>
      /\ service' = [service EXCEPT ![s] = row]
      /\ given' = [given EXCEPT ![s] = @ \union {<<b, slot[b].link>>}]
  BY <1>0 DEF SynchronizeBpb
<1>2. b \in Accounts /\ slot[b].link \in Nat
  BY <1>1, RowFacts DEF IInv, Row
<1>3. row \in ServiceRow /\ row # None
  BY <1>1, SlotsAssumption DEF IInv, TypeOK, ServiceRow
<1>. HIDE DEF row
<1>4. OperationsKept /\ ServicesKept
  BY <1>1, <1>3 DEF IInv, TypeOK, OperationsKept, ServicesKept
<1>5. GivenGrows
  <2>1. SUFFICES ASSUME NEW t \in Services, NEW l \in given'[t], l \notin given[t]
                 PROVE  \E a \in Accounts : l = <<a, slot[a].link>> /\ slot'[a].link = slot[a].link
    BY DEF GivenGrows
  <2>2. l = <<b, slot[b].link>>
    BY <1>1, <2>1 DEF IInv, TypeOK
  <2>3. QED
    BY <1>1, <1>2, <2>2
<1>6. OneSlot' /\ HolderInv'
  BY <1>1, <1>4, SameSlots, HoldersStay
<1>7. TypeOK'
  BY <1>1, <1>2, <1>3 DEF IInv, TypeOK, Rows
<1>8. RequestInv'
  BY <1>1, <1>4 DEF IInv, TypeOK, RequestInv, ServicesKept
<1>9. QED
  BY <1>1, <1>5, <1>6, <1>7, <1>8, SameSlots DEF Kept

(* An operation that ends or stops keeps what it is for.                   *)
LEMMA EndFacts ==
  ASSUME TypeOK, NEW o \in Operations, operation[o] # None,
         NEW status \in {"queued", "sending", "review", "done", "failed"}, EndsAs(o, status)
  PROVE  /\ operation' \in [Operations -> OperationRow \union {None}] /\ OperationsKept
         /\ operation'[o].status = status
         /\ \A p \in Operations : p # o => operation'[p] = operation[p]
<1>. DEFINE row == [operation[o] EXCEPT !.status = status]
<1>1. /\ row \in OperationRow /\ row.status = status /\ row # None
      /\ row.target = operation[o].target /\ row.quantity = operation[o].quantity
  BY SlotsAssumption DEF TypeOK, OperationRow
<1>2. operation' = [operation EXCEPT ![o] = row]
  BY DEF EndsAs
<1>. HIDE DEF row
<1>3. QED
  BY <1>1, <1>2 DEF TypeOK, OperationsKept

(* The same of an operation that is settled or stopped.                    *)
LEMMA SettleOrStopFacts ==
  ASSUME IInv, NEW o \in Operations, operation[o] # None, NEW from, SettleOrStop(o, from),
         \A s \in Covers(o) : /\ from[s] \in Rows /\ slot'[from[s]].link = slot[from[s]].link
                              /\ Holds(from[s])' /\ Holder(from[s])' = s
  PROVE  /\ operation' \in [Operations -> OperationRow \union {None}]
         /\ service' \in [Services -> ServiceRow \union {None}]
         /\ given' \in [Services -> SUBSET (Accounts \X Nat)]
         /\ OperationsKept /\ ServicesKept /\ GivenGrows
         /\ operation'[o].status \in {"sending", "done"}
         /\ \A p \in Operations : p # o => operation'[p] = operation[p]
         /\ operation'[o].status = "done" => \A s \in Covers(o) : service'[s] # None
         /\ Paid
<1>1. CASE Settle(o, from)
  BY <1>1, SettleFacts
<1>2. CASE EndsAs(o, "sending") /\ UNCHANGED <<service, given>>
  BY <1>2, EndFacts DEF IInv, TypeOK, ServicesKept, GivenGrows, Paid
<1>3. QED
  BY <1>1, <1>2 DEF SettleOrStop

(* A renewal prolongs the slot its service holds.                          *)
LEMMA RenewalKeeps ==
  ASSUME IInv, NEW o \in Operations, ProcessRenewal(o)
  PROVE  Kept /\ Paid
<1>1. /\ operation[o] # None /\ operation[o].status = "queued" /\ operation[o].target # None
      /\ UNCHANGED <<request, served, failures>>
  BY DEF ProcessRenewal
<1>2. PICK s : s = operation[o].target
  OBVIOUS
<1>3. \A a \in Accounts : Holds(a) => Holder(a)[1] # o
  BY <1>1, NoSlotYet
<1>4. ASSUME NEW a \in HeldBy(s), slot' = [slot EXCEPT ![a].left = @ + 1],
             doomed' = [doomed EXCEPT ![s] = {}], SettleOrStop(o, [t \in {s} |-> a])
      PROVE  Kept /\ Paid
  <2>1. /\ a \in Rows /\ a \in Accounts /\ slot[a] \in Row /\ Holds(a) /\ Holder(a) = s
    BY <1>4, RowFacts DEF HeldBy, Holds, Holder, IInv
  <2>2. PICK left \in Nat : left = slot[a].left + 1
    BY <2>1 DEF Row
  <2>3. slot' = [b \in Accounts |-> IF b \in {a} THEN [slot[b] EXCEPT !.left = left] ELSE slot[b]]
    BY <1>4, <2>1, <2>2 DEF IInv, TypeOK
  <2>4. RowsStay /\ \A b \in Accounts : (Holds(b)' <=> Holds(b)) /\ (Holds(b) => Holder(b)' = Holder(b))
    <3>1. {a} \subseteq Rows
      BY <2>1
    <3>2. QED
      BY <2>3, <3>1, TimeOnly
  <2>5. Covers(o) = {s}
    BY <1>1, <1>2 DEF Covers
  <2>. DEFINE from == [t \in {s} |-> a]
  <2>6. \A t \in Covers(o) : /\ from[t] \in Rows /\ slot'[from[t]].link = slot[from[t]].link
                             /\ Holds(from[t])' /\ Holder(from[t])' = t
    <3>1. slot'[a].link = slot[a].link /\ Holds(a)' /\ Holder(a)' = s
      BY <2>1, <2>4 DEF RowsStay
    <3>2. QED
      BY <2>1, <2>5, <3>1
  <2>7. SettleOrStop(o, from)
    BY <1>4
  <2>. HIDE DEF from
  <2>8. /\ operation' \in [Operations -> OperationRow \union {None}]
        /\ service' \in [Services -> ServiceRow \union {None}]
        /\ given' \in [Services -> SUBSET (Accounts \X Nat)]
        /\ OperationsKept /\ ServicesKept /\ GivenGrows
        /\ \A p \in Operations : p # o => operation'[p] = operation[p]
        /\ Paid
    BY <1>1, <2>6, <2>7, SettleOrStopFacts
  <2>9. OneSlot' /\ HolderInv'
    <3>1. ASSUME NEW b \in Accounts, Holds(b)
          PROVE  operation'[Holder(b)[1]].status = operation[Holder(b)[1]].status
      BY <1>3, <2>8, <3>1, HeldIsCovered
    <3>2. QED
      BY <2>4, <2>8, <3>1, HoldersStay
  <2>10. TypeOK'
    BY <1>1, <1>4, <2>4, <2>8, RowsStayKeeps DEF RowsStay, IInv, TypeOK
  <2>11. RequestInv'
    BY <1>1, <2>8 DEF IInv, TypeOK, RequestInv, ServicesKept
  <2>12. QED
    BY <1>1, <2>4, <2>8, <2>9, <2>10, <2>11, RowsStayKeeps DEF Kept
<1>5. CASE EndsAs(o, "failed") /\ UNCHANGED <<slot, service, doomed, given>>
  BY <1>1, <1>3, <1>5, EndingKeeps, EndFacts DEF Paid, IInv
<1>6. QED
  BY <1>2, <1>4, <1>5 DEF ProcessRenewal

(* Free slots are sold to services of the operation, one to each.          *)
LEMMA AssignedFacts ==
  ASSUME IInv, NEW o \in Operations, operation[o] # None, operation[o].status = "queued",
         operation[o].target = None, UNCHANGED served,
         NEW D, D \subseteq Covers(o), NEW from \in [D -> Assignable],
         \A s, t \in D : from[s] = from[t] => s = t, Assigned(from)
  PROVE  /\ RowsStay /\ OneSlot'
         /\ \A s \in D : /\ from[s] \in Rows /\ slot'[from[s]].link = slot[from[s]].link
                         /\ Holds(from[s])' /\ Holder(from[s])' = s
         /\ \A a \in Accounts : Holds(a)' =>
              \/ \E s \in D : from[s] = a /\ Holder(a)' = s
              \/ Holds(a) /\ Holder(a)' = Holder(a) /\ Holder(a)[1] # o
<1>1. \A s \in D : s \in Services /\ s[1] = o
  <2>1. Covers(o) = {o} \X (0 .. operation[o].quantity - 1)
    BY DEF Covers
  <2>2. QED
    BY <2>1, CoversServices DEF IInv
<1>2. ASSUME NEW s \in D
      PROVE  LET a == from[s] IN
             /\ a \in Accounts /\ a \in Rows /\ ~Holds(a) /\ slot[a].status = "free"
             /\ a \in Rows' /\ slot'[a] \in Row
             /\ slot'[a].cf = slot[a].cf /\ slot'[a].link = slot[a].link
             /\ slot'[a].status = "sold" /\ slot'[a].holder = s
  <2>1. PICK a \in Assignable : a = from[s]
    OBVIOUS
  <2>2. a \in Rows /\ a \in Accounts /\ slot[a].status = "free" /\ slot[a] \in Row
    BY <2>1, RowFacts DEF Assignable, Installed, IInv
  <2>3. (CHOOSE t \in DOMAIN from : from[t] = a) = s
    <3>1. DOMAIN from = D /\ s \in D
      OBVIOUS
    <3>2. \A t \in D : from[t] = a => t = s
      BY <2>1
    <3>3. QED
      BY <2>1, <3>1, <3>2
  <2>. DEFINE row == [slot[a] EXCEPT !.status = "sold", !.left = 1, !.holder = s]
  <2>4. slot'[a] = row
    BY <2>1, <2>2, <2>3 DEF Assigned
  <2>5. /\ row \in Row /\ row.cf = slot[a].cf /\ row.link = slot[a].link
        /\ row.status = "sold" /\ row.holder = s
    BY <1>1, <2>2 DEF Row
  <2>. HIDE DEF row
  <2>6. a \in Rows'
    BY <2>2, <2>4, <2>5, RowIsNotNone DEF Rows
  <2>7. QED
    BY <2>1, <2>2, <2>4, <2>5, <2>6 DEF Holds
<1>3. ASSUME NEW a \in Accounts, ~\E s \in D : from[s] = a
      PROVE  slot'[a] = slot[a] /\ (a \in Rows' <=> a \in Rows)
  <2>1. slot'[a] = slot[a]
    BY <1>3 DEF Assigned
  <2>2. QED
    BY <2>1 DEF Rows
<1>4. RowsStay
  <2>1. \A a \in Accounts : slot'[a] \in Row \union {None, Gone}
    BY <1>2, <1>3 DEF IInv, TypeOK
  <2>2. slot' = [a \in Accounts |-> slot'[a]]
    BY DEF Assigned
  <2>3. slot' \in [Accounts -> Row \union {None, Gone}]
    BY <2>1, <2>2
  <2>4. \A a \in Rows : a \in Accounts
    BY DEF Rows
  <2>5. \A a \in Accounts : a \in Rows' <=> a \in Rows
    BY <1>2, <1>3
  <2>6. ASSUME NEW a \in Rows
        PROVE  /\ slot'[a].cf = slot[a].cf /\ slot'[a].link = slot[a].link
               /\ \/ slot'[a].status = slot[a].status /\ slot'[a].holder = slot[a].holder
                  \/ /\ slot[a].status = "free" /\ slot'[a].status = "sold"
                     /\ slot'[a].holder \in Services
    BY <1>1, <1>2, <1>3, <2>4, <2>6
  <2>7. QED
    BY <2>3, <2>5, <2>6 DEF RowsStay
<1>5. ASSUME NEW s \in D
      PROVE  /\ from[s] \in Rows /\ slot'[from[s]].link = slot[from[s]].link
             /\ Holds(from[s])' /\ Holder(from[s])' = s
  BY <1>2 DEF Holds, Holder
<1>6. ASSUME NEW a \in Accounts, Holds(a)'
      PROVE  \/ \E s \in D : from[s] = a /\ Holder(a)' = s
             \/ Holds(a) /\ Holder(a)' = Holder(a) /\ Holder(a)[1] # o
  <2>1. CASE \E s \in D : from[s] = a
    BY <1>5, <2>1
  <2>2. CASE ~\E s \in D : from[s] = a
    <3>1. Holds(a) /\ Holder(a)' = Holder(a)
      BY <1>3, <1>6, <2>2 DEF Holds, Holder
    <3>2. QED
      BY <3>1, NoSlotYet
  <2>3. QED
    BY <2>1, <2>2
<1>7. OneSlot'
  <2>1. SUFFICES ASSUME NEW a \in Accounts, NEW b \in Accounts, Holds(a)', Holds(b)', Holder(a)' = Holder(b)'
                 PROVE  a = b
    BY DEF OneSlot
  <2>2. PICK s : s = Holder(a)' /\ s = Holder(b)'
    BY <2>1
  <2>3. QED
    BY <1>1, <1>6, <2>1, <2>2 DEF IInv, OneSlot
<1>8. QED
  BY <1>4, <1>5, <1>6, <1>7

(* A purchase takes free slots, and is settled when it has enough of them. *)
LEMMA ProcessPurchaseKeeps ==
  ASSUME IInv, NEW o \in Operations, ProcessPurchase(o)
  PROVE  Kept /\ Paid
<1>. DEFINE n == Cardinality(Assignable)
            q == operation[o].quantity
            Wanted(m) == {o} \X (0 .. m - 1)
            Slots(m) == {f \in [Wanted(m) -> Assignable] :
                           \A s, t \in Wanted(m) : f[s] = f[t] => s = t}
<1>1. /\ operation[o] # None /\ operation[o].status = "queued" /\ operation[o].target = None
      /\ UNCHANGED <<request, doomed, served, failures>>
  BY DEF ProcessPurchase
<1>2. n \in Nat /\ q \in 1 .. MaxQuantity /\ MaxQuantity \in Nat
  <2>1. Assignable \subseteq Accounts
    BY DEF Assignable, Installed, Rows
  <2>2. IsFiniteSet(Assignable)
    BY <2>1, SlotsAssumption, FS_Subset
  <2>3. operation[o] \in OperationRow
    BY <1>1 DEF IInv, TypeOK
  <2>4. QED
    BY <2>2, <2>3, SlotsAssumption, FS_CardinalityType DEF OperationRow
<1>3. Covers(o) = Wanted(q)
  BY <1>1 DEF Covers
<1>4. \/ q <= n /\ \E from \in Slots(q) : Assigned(from) /\ SettleOrStop(o, from)
      \/ /\ n > 0 /\ n < q /\ \E from \in Slots(n) : Assigned(from)
         /\ EndsAs(o, "review") /\ UNCHANGED <<service, given>>
      \/ n = 0 /\ EndsAs(o, "failed") /\ UNCHANGED <<slot, service, given>>
  BY DEF ProcessPurchase
<1>5. ASSUME NEW m \in {n, q}, m <= q, NEW from \in Slots(m), Assigned(from),
             \/ m = q /\ SettleOrStop(o, from)
             \/ EndsAs(o, "review") /\ UNCHANGED <<service, given>>
      PROVE  Kept /\ Paid
  <2>1. PICK D : D = Wanted(m)
    OBVIOUS
  <2>2. D \subseteq Covers(o)
    <3>1. 0 .. m - 1 \subseteq 0 .. q - 1
      BY <1>2, <1>5
    <3>2. QED
      BY <1>3, <2>1, <3>1
  <2>3. from \in [D -> Assignable] /\ \A s, t \in D : from[s] = from[t] => s = t
    BY <2>1
  <2>. HIDE DEF n, q, Wanted, Slots
  <2>4. /\ RowsStay /\ OneSlot'
        /\ \A s \in D : /\ from[s] \in Rows /\ slot'[from[s]].link = slot[from[s]].link
                        /\ Holds(from[s])' /\ Holder(from[s])' = s
        /\ \A a \in Accounts : Holds(a)' =>
             \/ \E s \in D : from[s] = a /\ Holder(a)' = s
             \/ Holds(a) /\ Holder(a)' = Holder(a) /\ Holder(a)[1] # o
    BY <1>1, <1>5, <2>2, <2>3, AssignedFacts
  <2>5. /\ operation' \in [Operations -> OperationRow \union {None}]
        /\ service' \in [Services -> ServiceRow \union {None}]
        /\ given' \in [Services -> SUBSET (Accounts \X Nat)]
        /\ OperationsKept /\ ServicesKept /\ GivenGrows
        /\ operation'[o].status \in {"sending", "review", "done"}
        /\ \A p \in Operations : p # o => operation'[p] = operation[p]
        /\ operation'[o].status = "done" => \A s \in Covers(o) : service'[s] # None
        /\ Paid
    <3>1. CASE m = q /\ SettleOrStop(o, from)
      BY <1>1, <1>3, <2>1, <2>4, <3>1, SettleOrStopFacts
    <3>2. CASE EndsAs(o, "review") /\ UNCHANGED <<service, given>>
      BY <1>1, <3>2, EndFacts DEF IInv, TypeOK, ServicesKept, GivenGrows, Paid
    <3>3. QED
      BY <1>5, <3>1, <3>2
  <2>6. HolderInv'
    <3>1. SUFFICES ASSUME NEW a \in Accounts, Holds(a)' PROVE Bought(Holder(a))'
      BY DEF HolderInv
    <3>2. PICK h : h = Holder(a)'
      OBVIOUS
    <3>3. CASE \E s \in D : from[s] = a /\ Holder(a)' = s
      <4>1. h \in Covers(o)
        BY <2>2, <3>2, <3>3
      <4>2. h \in Services /\ h[1] = o /\ h[2] < operation[o].quantity
        <5>1. h \in {o} \X (0 .. operation[o].quantity - 1)
          BY <1>3, <4>1 DEF Wanted, q
        <5>2. operation[o].quantity \in Nat
          BY <1>2 DEF q
        <5>3. h[2] < operation[o].quantity
          BY <5>1, <5>2
        <5>4. QED
          BY <1>1, <4>1, <5>1, <5>3, CoversServices DEF IInv
      <4>3. Bought(h)'
        BY <1>1, <2>5, <4>1, <4>2 DEF Bought, OperationsKept
      <4>4. QED
        BY <3>2, <4>3
    <3>4. CASE Holds(a) /\ Holder(a)' = Holder(a) /\ Holder(a)[1] # o
      <4>1. h = Holder(a) /\ Bought(h) /\ h[1] \in Operations /\ h[1] # o /\ h \in Services
        BY <3>2, <3>4, HeldIsCovered
      <4>2. Bought(h)'
        BY <2>5, <4>1 DEF Bought, ServicesKept
      <4>3. QED
        BY <3>2, <4>2
    <3>5. QED
      BY <2>4, <3>1, <3>3, <3>4
  <2>7. TypeOK'
    BY <1>1, <2>4, <2>5, RowsStayKeeps DEF RowsStay, IInv, TypeOK
  <2>8. RequestInv'
    BY <1>1, <2>5 DEF IInv, TypeOK, RequestInv, ServicesKept
  <2>9. QED
    BY <1>1, <2>4, <2>5, <2>6, <2>7, <2>8, RowsStayKeeps DEF Kept
<1>6. CASE n = 0 /\ EndsAs(o, "failed") /\ UNCHANGED <<slot, service, given>>
  <2>1. \A a \in Accounts : Holds(a) => Holder(a)[1] # o
    BY <1>1, NoSlotYet
  <2>2. QED
    BY <1>1, <1>6, <2>1, EndingKeeps, EndFacts DEF Paid, IInv
<1>. HIDE DEF Slots, n, q
<1>7. QED
  BY <1>2, <1>4, <1>5, <1>6

-----------------------------------------------------------------------------
(* The theorems *)

(* At the start there are no rows.                                         *)
LEMMA InitInv == Init => IInv
<1>. SUFFICES ASSUME Init PROVE IInv
  OBVIOUS
<1>1. Rows = {}
  BY DEF Init, Rows
<1>2. \A s \in Services : given[s] = {}
  BY DEF Init
<1>3. Services \subseteq Services /\ 0 \in 0 .. MaxFailures
  BY SlotsAssumption
<1>4. TypeOK
  BY <1>1, <1>3 DEF Init, TypeOK
<1>5. GivenInv
  <2>1. \A a \in Accounts : GivenOf(a) = {}
    BY <1>2 DEF GivenOf
  <2>2. QED
    BY <2>1, FS_EmptySet DEF GivenInv
<1>6. QED
  BY <1>1, <1>2, <1>4, <1>5
     DEF Init, IInv, OneSlot, HolderInv, OneWorker, OnlyStoredLinks, RequestInv, Holds, Installed

(* The actions that leave operations alone, or do not end one as done.     *)
LEMMA NotPaid ==
  ASSUME IInv,
         \/ UNCHANGED operation
         \/ \E o \in Operations, row \in OperationRow :
              row.status # "done" /\ operation' = [operation EXCEPT ![o] = row]
  PROVE  Paid
BY DEF Paid, IInv, TypeOK

(* Every step of the administrator.                                        *)
LEMMA AdministratorKeeps == ASSUME IInv, Administrator PROVE Kept /\ Paid
<1>1. ASSUME NEW a \in Accounts, NEW cf \in Tokens[a], CreateBpbAccount(a, cf)
      PROVE  Kept /\ Paid
  BY <1>1, CreateKeeps, NotPaid DEF CreateBpbAccount
<1>2. ASSUME NEW a \in Accounts, NEW outcome \in Outcomes, InstallBpbOnAccount(a, outcome)
      PROVE  Kept /\ Paid
  BY <1>2, InstallKeeps, NotPaid DEF InstallBpbOnAccount
<1>3. ASSUME NEW a \in Accounts, NEW outcome \in Outcomes, RevokeBpbSlot(a, outcome)
      PROVE  Kept /\ Paid
  BY <1>3, RevokeKeeps, NotPaid DEF RevokeBpbSlot
<1>4. ASSUME NEW a \in Accounts, NEW outcome \in Outcomes, ApplyBpbSettings(a, outcome)
      PROVE  Kept /\ Paid
  BY <1>4, SettingsKeep, NotPaid DEF ApplyBpbSettings
<1>5. ASSUME NEW a \in Accounts, NEW force \in BOOLEAN, DeleteBpbAccount(a, force)
      PROVE  Kept /\ Paid
  BY <1>5, DeleteKeeps, NotPaid DEF DeleteBpbAccount
<1>6. ASSUME NEW o \in Operations, CancelOperation(o)
      PROVE  Kept /\ Paid
  BY <1>6, CancellationKeeps, EndFacts DEF CancelOperation, Paid, IInv
<1>7. ASSUME NEW s \in Services, NEW approve \in BOOLEAN, DecideBpbRefund(s, approve)
      PROVE  Kept /\ Paid
  BY <1>7, DecisionKeeps, NotPaid DEF DecideBpbRefund
<1>8. QED
  BY <1>1, <1>2, <1>3, <1>4, <1>5, <1>6, <1>7, ReconciliationKeeps DEF Administrator

(* Every step of a customer.                                               *)
LEMMA CustomerKeeps == ASSUME IInv, Customer PROVE Kept /\ Paid
<1>1. ASSUME NEW o \in Operations, Purchase(o)
      PROVE  Kept /\ Paid
  <2>1. operation[o] # None /\ EndsAs(o, "queued")
    BY <1>1 DEF Purchase, EndsAs
  <2>2. QED
    BY <1>1, <2>1, PurchaseKeeps, EndFacts DEF Paid, IInv
<1>2. ASSUME NEW o \in Operations, NEW offer \in Offers[o], Quote(o, offer)
      PROVE  Kept /\ Paid
  <2>1. \A p \in Operations : operation'[p] # operation[p] => operation'[p].status = "quoted"
    BY <1>2 DEF Quote, IInv, TypeOK
  <2>2. QED
    BY <1>2, <2>1, QuoteKeeps DEF Paid
<1>3. ASSUME NEW s \in Services, CancelBpbService(s)
      PROVE  Kept /\ Paid
  BY <1>3, CancelServiceKeeps, NotPaid DEF CancelBpbService
<1>4. ASSUME NEW s \in Services, RequestRefund(s)
      PROVE  Kept /\ Paid
  BY <1>4, RequestRefundKeeps, NotPaid DEF RequestRefund
<1>5. QED
  BY <1>1, <1>2, <1>3, <1>4 DEF Customer

(* Every step.                                                             *)
LEMMA NextKeeps == IInv /\ Next => Kept /\ Paid
<1>. SUFFICES ASSUME IInv, Next PROVE Kept /\ Paid
  OBVIOUS
<1>1. ASSUME NEW o \in Operations, Interrupted(o)
      PROVE  Kept /\ Paid
  BY <1>1, InterruptedKeeps, EndFacts DEF Interrupted, Paid, IInv
<1>2. ASSUME NEW s \in Services, SynchronizeBpb(s)
      PROVE  Kept /\ Paid
  BY <1>2, SynchronizationKeeps, NotPaid DEF SynchronizeBpb
<1>3. ASSUME NEW a \in Accounts, NEW outcome \in Outcomes, BpbTick(a, outcome)
      PROVE  Kept /\ Paid
  BY <1>3, RevokeKeeps, NotPaid DEF BpbTick, RevokeBpbSlot
<1>4. ASSUME NEW a \in Accounts, TimePasses(a)
      PROVE  Kept /\ Paid
  BY <1>4, TimeKeeps, NotPaid DEF TimePasses
<1>5. QED
  BY <1>1, <1>2, <1>3, <1>4, AdministratorKeeps, CustomerKeeps, ProcessPurchaseKeeps, RenewalKeeps
     DEF Next, Engine, Expiry

(* The invariant is inductive.                                             *)
THEOREM SlotInvariance == Spec => []IInv
<1>1. IInv /\ UNCHANGED vars => IInv'
  BY DEF IInv, vars, TypeOK, OneSlot, HolderInv, Bought, OneWorker, OnlyStoredLinks, GivenInv, GivenOf, RequestInv,
         Holds, Holder, Rows, Installed
<1>2. QED
  BY InitInv, NextKeeps, KeptKeeps, <1>1, PTL DEF Spec

(* Every variable keeps its type.                                          *)
THEOREM SlotTypes == Spec => []TypeOK
BY SlotInvariance, PTL DEF IInv

(* A slot is sold to one service, of an operation that was settled or can  *)
(* still be, and once only, whatever call fails, is repeated or is lost.   *)
THEOREM SlotsSoldOnce == Spec => []SlotsAccounted
<1>1. IInv => SlotsAccounted
  BY PartsAreSlots DEF IInv
<1>2. QED
  BY <1>1, SlotInvariance, PTL

(* The worker of an installed row answers to no link that was given away   *)
(* but the one the row stores, no row gets a path anybody was given, and a *)
(* slot that is given back has a new path, to which alone its worker       *)
(* answers.                                                                *)
THEOREM LinksDie == Spec => OldLinksDie
<1>1. IInv => OnlyStoredLinks
  BY DEF IInv
<1>2. IInv /\ [Next]_vars => [RotatedWhenFreed]_vars
  BY NextKeeps, KeptRotates
<1>3. QED
  BY <1>1, <1>2, SlotInvariance, PTL DEF Spec, OldLinksDie

(* A customer is charged only in a step after which each service of the    *)
(* operation has a slot.                                                   *)
THEOREM ChargedWithSlots == Spec => PaidMeansSlots
<1>1. IInv /\ [Next]_vars => [Paid]_vars
  BY NextKeeps
<1>2. QED
  BY <1>1, SlotInvariance, PTL DEF Spec, PaidMeansSlots, Paid
=============================================================================
