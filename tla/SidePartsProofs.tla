-------------------------- MODULE SidePartsProofs ---------------------------
(***************************************************************************)
(* The parts beside the shop, proved for every value of their constants:   *)
(* broadcasts, relayed messages, groups, the care of services, connectors  *)
(* of panels, feeds and copied posts, market rates.  Each part has a       *)
(* section: its inductive invariant, what follows from it, and a lemma for *)
(* each action; the theorem closes it.  A step of MCSideParts is a step of *)
(* one part and leaves the state of the others.                            *)
(***************************************************************************)
EXTENDS MCSideParts, SumProofs, SequenceTheorems

-----------------------------------------------------------------------------
(* Broadcasts                                                              *)

JobStatus == {"running", "scheduled", "ticking", "paused", "stopped", "done", "needs_review"}
Job == [status : JobStatus, repeat : BOOLEAN, cursor : Nat, cycle : Nat, sent : Nat, failed : Nat, inFlight : Nat]

(* What was sent and what was not add up to the targets behind the cursor. *)
JobFine(j) ==
  /\ j \in Job
  /\ j.cursor <= NTargets
  /\ j.inFlight # NTargets => j.inFlight = j.cursor
  /\ j.status \in {"ticking", "needs_review"} => j.cursor < NTargets
  /\ j.sent + j.failed = j.cycle * NTargets + j.cursor

(* A slot behind the cursor may have been reached, one ahead of it only by *)
(* a save that failed, and the slot at the cursor only while it is noted   *)
(* as in flight and nobody is sending.                                     *)
SlotFine(m) ==
  /\ got[m] <= 1 + badSaves
  /\ m[1] > job.cycle \/ (m[1] = job.cycle /\ m[2] > job.cursor) => got[m] <= badSaves
  /\ m[1] = job.cycle /\ m[2] = job.cursor /\ (job.inFlight = NTargets \/ ticking # "no") => got[m] <= badSaves
  /\ got[m] > 0 /\ m \notin lost => m \in removed \cup DOMAIN removals

BroadcastIInv ==
  /\ JobFine(job) /\ JobFine(older)
  /\ ticking # "no" => job.status = "running"
  /\ badSaves \in Nat /\ got \in [Broad!Slots -> Nat]
  /\ \A m \in Broad!Slots : SlotFine(m)

BroadcastSizes == NTargets \in Nat \ {0} /\ MaxCycles \in Nat

LEMMA BroadcastPromise == ASSUME BroadcastSizes, BroadcastIInv PROVE Broad!BroadcastOnce
  BY DEF BroadcastSizes, BroadcastIInv, SlotFine, JobFine, Job, Broad!BroadcastOnce

LEMMA BroadcastInitially == ASSUME BroadcastSizes, Broad!BroadcastInit PROVE BroadcastIInv
  <1>1. JobFine(job)
    BY DEF BroadcastSizes, JobFine, Job, JobStatus, Broad!BroadcastInit, Broad!Nowhere
  <1> QED BY <1>1 DEF BroadcastSizes, BroadcastIInv, SlotFine, Broad!BroadcastInit, Broad!Slots

(* The job after one more target, running.                                 *)
LEMMA PassedFine ==
  ASSUME BroadcastSizes, JobFine(job), job.cursor < NTargets, NEW ok \in BOOLEAN,
         NEW j, j \in {Broad!Passed(ok), [Broad!Passed(ok) EXCEPT !.status = "running"]}, j.status = "running"
  PROVE  JobFine(j) /\ j.cycle = job.cycle /\ j.cursor = job.cursor + 1 /\ j.inFlight = NTargets
  <1>1. /\ j.cycle = job.cycle /\ j.cursor = job.cursor + 1 /\ j.inFlight = NTargets /\ j \in Job
        /\ j.sent + j.failed = job.sent + job.failed + 1
    <2>0. job \in Job /\ NTargets \in Nat
      BY DEF BroadcastSizes, JobFine
    <2>1. CASE ok
      <3>1. Broad!Passed(ok) = [job EXCEPT !.cursor = @ + 1, !.inFlight = NTargets, !.sent = @ + 1, !.failed = @ + 0]
        BY <2>1 DEF Broad!Passed, Broad!Nowhere
      <3>2. /\ j \in Job /\ j.cycle = job.cycle /\ j.cursor = job.cursor + 1 /\ j.inFlight = NTargets
            /\ j.sent = job.sent + 1 /\ j.failed = job.failed + 0
        <4>1. PICK c \in Nat, n \in Nat, f \in Nat : c = job.cursor + 1 /\ n = job.sent + 1 /\ f = job.failed + 0
          BY <2>0 DEF Job
        <4>2. Broad!Passed(ok) = [job EXCEPT !.cursor = c, !.inFlight = NTargets, !.sent = n, !.failed = f]
          BY <3>1, <4>1
        <4>3. CASE j = Broad!Passed(ok)
          <5>1. /\ j \in Job /\ j.cycle = job.cycle /\ j.cursor = c /\ j.inFlight = NTargets
                /\ j.sent = n /\ j.failed = f
            BY <2>0, <4>2, <4>3 DEF Job
          <5> QED BY <4>1, <5>1
        <4>4. CASE j = [Broad!Passed(ok) EXCEPT !.status = "running"]
          <5>1. /\ j \in Job /\ j.cycle = job.cycle /\ j.cursor = c /\ j.inFlight = NTargets
                /\ j.sent = n /\ j.failed = f
            BY <2>0, <4>2, <4>4 DEF Job, JobStatus
          <5> QED BY <4>1, <5>1
        <4> QED BY <4>3, <4>4
      <3> QED BY <2>0, <3>2 DEF Job
    <2>2. CASE ~ok
      <3>1. Broad!Passed(ok) = [job EXCEPT !.cursor = @ + 1, !.inFlight = NTargets, !.sent = @ + 0, !.failed = @ + 1]
        BY <2>2 DEF Broad!Passed, Broad!Nowhere
      <3>2. /\ j \in Job /\ j.cycle = job.cycle /\ j.cursor = job.cursor + 1 /\ j.inFlight = NTargets
            /\ j.sent = job.sent + 0 /\ j.failed = job.failed + 1
        <4>1. PICK c \in Nat, n \in Nat, f \in Nat : c = job.cursor + 1 /\ n = job.sent + 0 /\ f = job.failed + 1
          BY <2>0 DEF Job
        <4>2. Broad!Passed(ok) = [job EXCEPT !.cursor = c, !.inFlight = NTargets, !.sent = n, !.failed = f]
          BY <3>1, <4>1
        <4>3. CASE j = Broad!Passed(ok)
          <5>1. /\ j \in Job /\ j.cycle = job.cycle /\ j.cursor = c /\ j.inFlight = NTargets
                /\ j.sent = n /\ j.failed = f
            BY <2>0, <4>2, <4>3 DEF Job
          <5> QED BY <4>1, <5>1
        <4>4. CASE j = [Broad!Passed(ok) EXCEPT !.status = "running"]
          <5>1. /\ j \in Job /\ j.cycle = job.cycle /\ j.cursor = c /\ j.inFlight = NTargets
                /\ j.sent = n /\ j.failed = f
            BY <2>0, <4>2, <4>4 DEF Job, JobStatus
          <5> QED BY <4>1, <5>1
        <4> QED BY <4>3, <4>4
      <3> QED BY <2>0, <3>2 DEF Job
    <2> QED BY <2>1, <2>2
  <1>2. PICK tens \in Int : tens = job.cycle * NTargets
    BY DEF BroadcastSizes, JobFine, Job
  <1>3. j.sent + j.failed = j.cycle * NTargets + j.cursor
    BY <1>1, <1>2 DEF JobFine, Job
  <1> QED BY <1>1, <1>3 DEF JobFine, Job, BroadcastSizes

(* The message in flight gets through or not, and the slot of the cursor   *)
(* is the only one that may change.                                        *)
LEMMA Arrival ==
  ASSUME BroadcastSizes, BroadcastIInv, Broad!Arrives \/ UNCHANGED got, ticking # "no"
  PROVE  /\ got' \in [Broad!Slots -> Nat]
         /\ \A m \in Broad!Slots :
              IF m[1] = job.cycle /\ m[2] = job.cursor THEN got[m] <= badSaves /\ got'[m] <= badSaves + 1
              ELSE got'[m] = got[m]
  <1>1. CASE UNCHANGED got
    BY <1>1 DEF BroadcastSizes, BroadcastIInv, SlotFine, Broad!Slots
  <1>2. CASE Broad!Arrives
    <2>1. got' \in [Broad!Slots -> Nat]
      <3>1. CASE Broad!Message \in Broad!Slots
        <4>1. got[Broad!Message] + 1 \in Nat
          BY <3>1 DEF BroadcastIInv
        <4> QED BY <1>2, <4>1 DEF BroadcastIInv, Broad!Arrives
      <3>2. CASE Broad!Message \notin Broad!Slots
        <4>1. got' = got
          BY <1>2, <3>2 DEF BroadcastIInv, Broad!Arrives
        <4> QED BY <4>1 DEF BroadcastIInv
      <3> QED BY <3>1, <3>2
    <2> SUFFICES ASSUME NEW m \in Broad!Slots
          PROVE IF m[1] = job.cycle /\ m[2] = job.cursor THEN got[m] <= badSaves /\ got'[m] <= badSaves + 1
                ELSE got'[m] = got[m]
      BY <2>1
    <2>2. m[1] = job.cycle /\ m[2] = job.cursor => m = Broad!Message
      BY DEF Broad!Message, Broad!Slots
    <2>3. m = Broad!Message => m[1] = job.cycle /\ m[2] = job.cursor
      BY DEF Broad!Message
    <2>4. got[m] \in Nat /\ badSaves \in Nat /\ SlotFine(m)
      BY DEF BroadcastIInv
    <2> QED BY <1>2, <2>2, <2>3, <2>4 DEF BroadcastIInv, SlotFine, Broad!Arrives
  <1> QED BY <1>1, <1>2

(* A tick that stops with its message in flight: nobody knows of it.       *)
LEMMA LostInFlight ==
  ASSUME BroadcastSizes, BroadcastIInv, ticking # "no", Broad!Arrives \/ UNCHANGED got,
         JobFine(job)', job'.cycle = job.cycle, job'.cursor = job.cursor, job'.inFlight = job.cursor,
         job.cursor < NTargets,
         ticking' = "no", lost' = lost \cup {Broad!Message}, UNCHANGED <<older, removals, removed, badSaves>>
  PROVE  BroadcastIInv'
  <1>1. JobFine(older)' /\ badSaves \in Nat /\ badSaves' = badSaves /\ job.cursor \in Nat /\ job.cycle \in Nat
    BY DEF BroadcastIInv, JobFine, Job
  <1>2. ASSUME NEW m \in Broad!Slots PROVE SlotFine(m)'
    <2>1. /\ got[m] \in Nat /\ got'[m] \in Nat
          /\ IF m[1] = job.cycle /\ m[2] = job.cursor THEN got[m] <= badSaves /\ got'[m] <= badSaves + 1
            ELSE got'[m] = got[m]
      BY Arrival DEF BroadcastIInv
    <2>2. m[1] = job.cycle /\ m[2] = job.cursor => m \in lost'
      BY DEF Broad!Slots, Broad!Message
    <2>3. SlotFine(m) /\ m[1] \in Nat /\ m[2] \in Nat
      BY DEF BroadcastIInv, Broad!Slots
    <2>4. job'.inFlight # NTargets
      BY DEF BroadcastSizes, BroadcastIInv, JobFine, Job
    <2> QED BY <1>1, <2>1, <2>2, <2>3, <2>4 DEF SlotFine
  <1>3. got' \in [Broad!Slots -> Nat]
    BY Arrival
  <1> QED BY <1>1, <1>2, <1>3 DEF BroadcastIInv

(* A step that leaves what the targets were sent.                          *)
LEMMA JobMoves ==
  ASSUME BroadcastIInv, UNCHANGED <<older, removed, removals, got, lost, badSaves>>,
         JobFine(job)', (ticking # "no" => job.status = "running")', \A m \in Broad!Slots : SlotFine(m)'
  PROVE  BroadcastIInv'
  BY DEF BroadcastIInv

LEMMA BroadcastStep == ASSUME BroadcastSizes, BroadcastIInv, Broad!BroadcastNext PROVE BroadcastIInv'
  <1> USE DEF BroadcastSizes
  <1>0. /\ JobFine(job) /\ JobFine(older) /\ badSaves \in Nat /\ got \in [Broad!Slots -> Nat]
        /\ \A m \in Broad!Slots : SlotFine(m) /\ got[m] \in Nat /\ m[1] \in Nat /\ m[2] \in Nat /\ m[2] < NTargets
    BY DEF BroadcastIInv, Broad!Slots
  <1>a. job.cursor \in Nat /\ job.cycle \in Nat /\ job.inFlight \in Nat /\ job.status \in JobStatus
    BY <1>0 DEF JobFine, Job
  <1>1. ASSUME Broad!BroadcastHeld PROVE BroadcastIInv'
    <2>1. JobFine(job)' /\ job'.cycle = job.cycle /\ job'.cursor = job.cursor /\ job'.inFlight = job.inFlight
      BY <1>0, <1>1 DEF JobFine, Job, JobStatus, Broad!BroadcastHeld, Broad!NeedsReview, Broad!Nowhere
    <2> QED BY <1>0, <1>1, <2>1 DEF BroadcastIInv, SlotFine, Broad!BroadcastHeld, Broad!bounds, Broad!removalVars
  <1>2. ASSUME NEW by \in {"cron", "panel"}, Broad!BeginTick(by) PROVE BroadcastIInv'
    <2>1. /\ JobFine(job)' /\ job'.cycle = job.cycle /\ job'.cursor = job.cursor /\ job'.inFlight = job.inFlight
          /\ job.inFlight = NTargets /\ job'.status = "running"
      BY <1>0, <1>2 DEF JobFine, Job, JobStatus, Broad!BeginTick, Broad!Nowhere
    <2> QED BY <1>0, <1>2, <2>1 DEF BroadcastIInv, SlotFine, Broad!BeginTick, Broad!bounds, Broad!removalVars
  <1>3. ASSUME Broad!SendNext PROVE BroadcastIInv'
    <2>0. job.status = "running" /\ job.inFlight = NTargets /\ job.cursor < NTargets /\ ticking # "no"
      BY <1>0, <1>a, <1>3 DEF BroadcastIInv, Broad!SendNext, Broad!Nowhere
    <2>1. CASE job.cursor \in unreachable
      <3>1. job' = Broad!Passed(FALSE) /\ job'.status = "running"
        BY <1>3, <2>0, <2>1 DEF Broad!SendNext, Broad!Passed
      <3>2. JobFine(job)' /\ job'.cycle = job.cycle /\ job'.cursor = job.cursor + 1 /\ job'.inFlight = NTargets
        BY <1>0, <2>0, <3>1, PassedFine
      <3>3. UNCHANGED <<ticking, older, removed, removals, got, lost, badSaves>>
        BY <1>3 DEF Broad!SendNext, Broad!bounds, Broad!removalVars
      <3>4. ASSUME NEW m \in Broad!Slots PROVE SlotFine(m)'
        BY <1>0, <1>a, <3>2, <3>3 DEF SlotFine
      <3> QED BY <1>0, <3>1, <3>2, <3>3, <3>4, JobMoves
    <2>2. CASE job.cursor \notin unreachable
      <3>1. job' = [job EXCEPT !.inFlight = job.cursor]
        BY <1>3, <2>2 DEF Broad!SendNext
      <3>2. /\ JobFine(job)' /\ job'.cycle = job.cycle /\ job'.cursor = job.cursor /\ job'.status = "running"
        BY <1>0, <2>0, <3>1 DEF JobFine, Job, JobStatus
      <3> QED BY <1>0, <1>a, <1>3, <2>0, <3>2
                 DEF BroadcastIInv, SlotFine, Broad!SendNext, Broad!bounds, Broad!removalVars
    <2> QED BY <2>1, <2>2
  <1>4. ASSUME Broad!DeliveryAnswers PROVE BroadcastIInv'
    <2>0. /\ job.status = "running" /\ job.inFlight = job.cursor /\ job.cursor < NTargets /\ ticking # "no"
          /\ UNCHANGED <<older, removed, badSaves>>
      <3>1. ticking # "no" /\ job.inFlight # NTargets /\ UNCHANGED <<older, removed, badSaves>>
        BY <1>4 DEF Broad!DeliveryAnswers, Broad!Nowhere, Broad!bounds
      <3>2. job.status = "running"
        BY <3>1 DEF BroadcastIInv
      <3> QED BY <1>0, <1>a, <3>1, <3>2 DEF JobFine
    <2>1. CASE Broad!Delivered
      <3>1. job' = Broad!Passed(TRUE) /\ job'.status = "running" /\ Broad!Arrives
        BY <2>0, <2>1 DEF Broad!Delivered, Broad!Passed
      <3>2. JobFine(job)' /\ job'.cycle = job.cycle /\ job'.cursor = job.cursor + 1 /\ job'.inFlight = NTargets
        BY <1>0, <2>0, <3>1, PassedFine
      <3>3. DOMAIN removals' = DOMAIN removals \cup {<<job.cycle, job.cursor>>} /\ lost' = lost /\ ticking' = ticking
        BY <2>1 DEF Broad!Delivered, Broad!Message
      <3>4. ASSUME NEW m \in Broad!Slots PROVE SlotFine(m)'
        <4>1. m[1] = job.cycle /\ m[2] = job.cursor => m \in DOMAIN removals'
          BY <3>3 DEF Broad!Slots
        <4>2. /\ got[m] \in Nat /\ got'[m] \in Nat
              /\ IF m[1] = job.cycle /\ m[2] = job.cursor THEN got[m] <= badSaves /\ got'[m] <= badSaves + 1
                ELSE got'[m] = got[m]
          BY <1>0, <2>0, <3>1, Arrival
        <4> QED BY <1>0, <1>a, <2>0, <3>2, <3>3, <4>1, <4>2 DEF SlotFine
      <3>5. got' \in [Broad!Slots -> Nat]
        BY <2>0, <3>1, Arrival
      <3> QED BY <1>0, <2>0, <3>1, <3>2, <3>4, <3>5 DEF BroadcastIInv
    <2>2. CASE Broad!Refused
      <3>1. job' = Broad!Passed(FALSE) /\ job'.status = "running"
        BY <2>0, <2>2 DEF Broad!Refused, Broad!Passed
      <3>2. JobFine(job)' /\ job'.cycle = job.cycle /\ job'.cursor = job.cursor + 1 /\ job'.inFlight = NTargets
        BY <1>0, <2>0, <3>1, PassedFine
      <3>3. UNCHANGED <<ticking, older, removed, removals, got, lost, badSaves>>
        BY <2>0, <2>2 DEF Broad!Refused
      <3>4. ASSUME NEW m \in Broad!Slots PROVE SlotFine(m)'
        BY <1>0, <1>a, <3>2, <3>3 DEF SlotFine
      <3> QED BY <1>0, <3>1, <3>2, <3>3, <3>4, JobMoves
    <2>3. CASE Broad!TooMany
      <3>1. JobFine(job)' /\ job'.cycle = job.cycle /\ job'.cursor = job.cursor
        BY <1>0, <2>0, <2>3 DEF JobFine, Job, JobStatus, Broad!TooMany, Broad!Nowhere
      <3> QED BY <1>0, <1>a, <2>0, <2>3, <3>1 DEF BroadcastIInv, SlotFine, Broad!TooMany
    <2>4. CASE Broad!Uncertain
      <3>1. /\ JobFine(job)' /\ job'.cycle = job.cycle /\ job'.cursor = job.cursor /\ job'.inFlight = job.cursor
        BY <1>0, <2>0, <2>4 DEF JobFine, Job, JobStatus, Broad!Uncertain, Broad!NeedsReview
      <3> QED BY <1>0, <1>a, <2>0, <2>4, <3>1, LostInFlight DEF Broad!Uncertain
    <2> QED BY <1>4, <2>1, <2>2, <2>3, <2>4 DEF Broad!DeliveryAnswers
  <1>5. ASSUME Broad!EndTick PROVE BroadcastIInv'
    <2>0. job.status = "running" /\ job.inFlight = NTargets /\ ticking # "no"
      BY <1>5 DEF BroadcastIInv, Broad!EndTick, Broad!Nowhere
    <2>1. CASE job.cursor < NTargets
      <3>1. job' = job
        BY <1>5, <2>1 DEF Broad!EndTick
      <3> QED BY <1>0, <1>a, <1>5, <2>0, <3>1
                 DEF BroadcastIInv, SlotFine, Broad!EndTick, Broad!bounds, Broad!removalVars
    <2>2. CASE job.cursor = NTargets /\ job.repeat
      <3>1. job' = [job EXCEPT !.status = "scheduled", !.cycle = job.cycle + 1, !.cursor = 0]
        BY <1>5, <2>2 DEF Broad!EndTick
      <3>2. /\ job'.cycle = job.cycle + 1 /\ job'.cursor = 0 /\ job' \in Job /\ job'.inFlight = NTargets
            /\ job'.status = "scheduled" /\ job'.sent = job.sent /\ job'.failed = job.failed
        <4>1. job \in Job
          BY <1>0 DEF JobFine
        <4>2. /\ job'.cycle = job.cycle + 1 /\ job'.cursor = 0 /\ job'.inFlight = job.inFlight
              /\ job'.status = "scheduled" /\ job'.sent = job.sent /\ job'.failed = job.failed
          BY <3>1, <4>1 DEF Job
        <4>3. job' \in Job
          <5>1. PICK n \in Nat : n = job.cycle + 1
            BY <4>1 DEF Job
          <5>2. job' = [job EXCEPT !.status = "scheduled", !.cycle = n, !.cursor = 0]
            BY <3>1, <5>1
          <5> QED BY <4>1, <5>2 DEF Job, JobStatus
        <4> QED BY <2>0, <4>2, <4>3
      <3>3. job'.cycle * NTargets = job.cycle * NTargets + NTargets
        BY <1>a, <3>2
      <3>4. JobFine(job)'
        BY <1>0, <2>2, <3>2, <3>3 DEF JobFine, Job
      <3>5. UNCHANGED <<older, removed, removals, got, lost, badSaves>> /\ ticking' = "no"
        BY <1>5 DEF Broad!EndTick, Broad!bounds, Broad!removalVars
      <3>6. ASSUME NEW m \in Broad!Slots PROVE SlotFine(m)'
        BY <1>0, <1>a, <3>2, <3>5 DEF SlotFine
      <3> QED BY <1>0, <3>4, <3>5, <3>6, JobMoves
    <2>3. CASE job.cursor = NTargets /\ ~job.repeat
      <3>1. job' = [job EXCEPT !.status = "done"]
        BY <1>5, <2>3 DEF Broad!EndTick
      <3>2. JobFine(job)' /\ job'.cycle = job.cycle /\ job'.cursor = job.cursor /\ job'.inFlight = job.inFlight
        BY <1>0, <2>0, <3>1 DEF JobFine, Job, JobStatus
      <3>5. UNCHANGED <<older, removed, removals, got, lost, badSaves>> /\ ticking' = "no"
        BY <1>5 DEF Broad!EndTick, Broad!bounds, Broad!removalVars
      <3>6. ASSUME NEW m \in Broad!Slots PROVE SlotFine(m)'
        BY <1>0, <1>a, <2>0, <3>2, <3>5 DEF SlotFine
      <3>7. JobFine(job)'
        BY <3>2
      <3> QED BY <3>5, <3>6, <3>7, JobMoves
    <2>4. job.cursor < NTargets \/ job.cursor = NTargets
      BY <1>0, <1>a DEF JobFine
    <2> QED BY <2>1, <2>2, <2>3, <2>4
  <1>6. ASSUME Broad!SaveFails PROVE BroadcastIInv'
    <2>0. ticking # "no" /\ (Broad!Arrives \/ UNCHANGED got)
      BY <1>6 DEF Broad!SaveFails
    <2>1. job' \in {older, job} /\ ticking' = "no" /\ badSaves' = badSaves + 1 /\ lost' = lost \cup {Broad!Message}
          /\ UNCHANGED <<older, removals, removed>>
      BY <1>6 DEF Broad!SaveFails, Broad!removalVars
    <2>2. JobFine(job)' /\ JobFine(older)'
      BY <1>0, <2>1
    <2>3. ASSUME NEW m \in Broad!Slots PROVE SlotFine(m)'
      <3>1. /\ got[m] \in Nat /\ got'[m] \in Nat
            /\ IF m[1] = job.cycle /\ m[2] = job.cursor THEN got[m] <= badSaves /\ got'[m] <= badSaves + 1
              ELSE got'[m] = got[m]
        BY <1>0, <2>0, Arrival
      <3>2. m[1] = job.cycle /\ m[2] = job.cursor => m \in lost'
        BY <2>1 DEF Broad!Slots, Broad!Message
      <3>3. got'[m] <= badSaves'
        BY <1>0, <2>1, <3>1 DEF SlotFine
      <3> QED BY <1>0, <2>1, <3>1, <3>2, <3>3 DEF SlotFine
    <2>4. got' \in [Broad!Slots -> Nat]
      BY <2>0, Arrival
    <2> QED BY <1>0, <2>1, <2>2, <2>3, <2>4 DEF BroadcastIInv
  <1>7. ASSUME Broad!BroadcastEvicted PROVE BroadcastIInv'
    <2>0. ticking # "no" /\ ticking' = "no" /\ UNCHANGED <<job, older, removals, removed, badSaves>>
      BY <1>7 DEF Broad!BroadcastEvicted, Broad!removalVars
    <2>1. CASE job.inFlight = NTargets
      BY <1>0, <1>7, <2>0, <2>1 DEF BroadcastIInv, SlotFine, Broad!BroadcastEvicted, Broad!Nowhere
    <2>2. CASE job.inFlight # NTargets
      <3>1. (Broad!Arrives \/ UNCHANGED got) /\ lost' = lost \cup {Broad!Message}
        BY <1>7, <2>2 DEF Broad!BroadcastEvicted, Broad!Nowhere
      <3>2. job'.inFlight = job.cursor
        BY <1>0, <2>0, <2>2 DEF JobFine
      <3>3. job.cursor < NTargets /\ JobFine(job)' /\ job'.cycle = job.cycle /\ job'.cursor = job.cursor
        BY <1>0, <1>a, <2>0, <2>2 DEF JobFine
      <3> QED BY <2>0, <3>1, <3>2, <3>3, LostInFlight
    <2> QED BY <2>1, <2>2
  <1>8. ASSUME NEW action \in {"pause", "resume", "stop", "skip"}, Broad!Click(action) PROVE BroadcastIInv'
    <2>0. ticking = "no" /\ UNCHANGED <<ticking, older, removals, removed, got, lost, badSaves>>
      BY <1>8 DEF Broad!Click, Broad!removalVars
    <2>1. CASE action = "skip" /\ job.status = "needs_review"
      <3>1. job' = [Broad!Passed(FALSE) EXCEPT !.status = "running"] /\ job'.status = "running"
        <4>1. job' = [Broad!Passed(FALSE) EXCEPT !.status = "running"]
          BY <1>8, <2>1 DEF Broad!Click
        <4>2. job \in Job
          BY <1>0 DEF JobFine
        <4> QED BY <4>1, <4>2 DEF Broad!Passed, Job
      <3>2. job.cursor < NTargets
        BY <1>0, <2>1 DEF JobFine
      <3>3. JobFine(job)' /\ job'.cycle = job.cycle /\ job'.cursor = job.cursor + 1 /\ job'.inFlight = NTargets
        BY <1>0, <3>1, <3>2, PassedFine
      <3> QED BY <1>0, <1>a, <2>0, <3>3 DEF BroadcastIInv, SlotFine
    <2>2. CASE ~(action = "skip" /\ job.status = "needs_review")
      <3>1. \E s \in {"running", "paused", "stopped"} : job' = [job EXCEPT !.status = s] \/ job' = job
        BY <1>8, <2>2 DEF Broad!Click
      <3>2. JobFine(job)' /\ job'.cycle = job.cycle /\ job'.cursor = job.cursor /\ job'.inFlight = job.inFlight
        BY <1>0, <3>1 DEF JobFine, Job, JobStatus
      <3> QED BY <1>0, <1>a, <2>0, <3>2 DEF BroadcastIInv, SlotFine
    <2> QED BY <2>1, <2>2
  <1>9. ASSUME Broad!ToggleModule PROVE BroadcastIInv'
    BY <1>9 DEF BroadcastIInv, SlotFine, Broad!ToggleModule, Broad!removalVars
  <1>10. ASSUME NEW x \in Broad!Slots, Broad!DeleteMessage(x) PROVE BroadcastIInv'
    <2>1. UNCHANGED <<job, ticking, older, got, lost, badSaves>>
      BY <1>10 DEF Broad!DeleteMessage, Broad!bounds
    <2>2. removed' \cup DOMAIN removals' = removed \cup DOMAIN removals
      <3>1. PICK deleted \in BOOLEAN :
              IF deleted \/ removals[x] + 1 >= MaxAttempts
              THEN removals' = [y \in DOMAIN removals \ {x} |-> removals[y]] /\ removed' = removed \cup {x}
              ELSE removals' = [removals EXCEPT ![x] = @ + 1] /\ UNCHANGED removed
        BY <1>10 DEF Broad!DeleteMessage
      <3>2. x \in DOMAIN removals
        BY <1>10 DEF Broad!DeleteMessage
      <3>3. CASE deleted \/ removals[x] + 1 >= MaxAttempts
        BY <3>1, <3>2, <3>3
      <3>4. CASE ~(deleted \/ removals[x] + 1 >= MaxAttempts)
        BY <3>1, <3>4
      <3> QED BY <3>3, <3>4
    <2> QED BY <1>0, <2>1, <2>2 DEF BroadcastIInv, SlotFine
  <1> QED BY <1>1, <1>2, <1>3, <1>4, <1>5, <1>6, <1>7, <1>8, <1>9, <1>10 DEF Broad!BroadcastNext

(* A step of the whole is a step of this part or leaves its state.          *)
LEMMA BroadcastsAlone == [Next]_allVars => Broad!BroadcastNext \/ UNCHANGED broadcastsState
  BY DEF Next, Rest, allVars

\* Whatever is interrupted, paused or skipped, no recipient gets the message of
\* a round twice unless a save failed under a living process, the counts add up
\* to the cursor, and what got through will be deleted or is listed
\* (tickBroadcast in src/src/broadcast.js).
THEOREM BroadcastsOnce == Spec => []EveryBroadcastOnce
  <1>0. BroadcastSizes
    BY PartsAssumption DEF PartsAssumption, BroadcastSizes
  <1>1. Init => BroadcastIInv
    BY <1>0, BroadcastInitially DEF Init
  <1>2. BroadcastIInv /\ [Next]_allVars => BroadcastIInv'
    <2>1. BroadcastIInv /\ UNCHANGED broadcastsState => BroadcastIInv'
      BY DEF BroadcastIInv, SlotFine, broadcastsState
    <2> QED BY <1>0, <2>1, BroadcastStep, BroadcastsAlone
  <1>3. BroadcastIInv => EveryBroadcastOnce
    BY <1>0, BroadcastPromise DEF EveryBroadcastOnce
  <1> QED BY <1>1, <1>2, <1>3, PTL DEF Spec
-----------------------------------------------------------------------------
(* Relay                                                                   *)

RelayStatus == {"collecting", "pending", "ready", "publishing", "sent", "failed", "review", "rejected"}
RelayAnswer == {"none", "pending", "sending", "sent", "review", "failed"}
RelayRow == [status : RelayStatus, messages : SUBSET {1, 2}, to : [RelayDests -> RelayAnswer], bot : {1, 2}]

(* The rows, and what points at them.                                      *)
RelayShapeInv ==
  /\ relays \in Seq(RelayRow) /\ Len(relays) <= MaxRelays
  /\ album \in Nat /\ album <= Len(relays)
  /\ publishing \in Nat /\ publishing <= Len(relays)
  /\ visiting \in Seq(Nat) /\ \A i \in 1..Len(visiting) : visiting[i] \in 1..Len(relays)
  /\ relayed \in [1..MaxRelays -> [RelayDests -> Nat]]
  /\ bot \in {1, 2}

(* What a row's status says about its destinations, and they about the     *)
(* copies made.                                                            *)
RelayRowFine(row, out, released) ==
  /\ row.status \in {"collecting", "pending", "ready"} => \A d \in RelayDests : row.to[d] = "none"
  /\ row.status = "failed" => \E d \in RelayDests : row.to[d] \in {"failed", "review"}
  /\ row.status = "rejected" =>
       (\A d \in RelayDests : row.to[d] = "none") \/ (\E d \in RelayDests : row.to[d] \in {"failed", "review"})
  /\ row.status = "sent" => \A d \in RelayDests : row.to[d] \in {"sent", "none"}
  /\ \A d \in RelayDests :
       /\ out[d] <= 1
       /\ row.to[d] \in {"none", "pending"} => out[d] = 0
       /\ row.to[d] # "none" => released

RelayRowsInv == \A r \in 1..Len(relays) : RelayRowFine(relays[r], relayed[r], r \in agreed)
(* Rows that do not exist yet have not been copied.                        *)
NewRowsInv == \A r \in 1..MaxRelays : r > Len(relays) => \A d \in RelayDests : relayed[r][d] = 0
PublishInv == publishing # 0 => relays[publishing].status = "publishing"

RelayIInv == RelayShapeInv /\ RelayRowsInv /\ NewRowsInv /\ PublishInv

-----------------------------------------------------------------------------
LEMMA RelayPromise == RelayIInv => Relaying!RelayOnce
  <1> SUFFICES ASSUME RelayIInv, NEW r \in 1..Len(relays)
        PROVE /\ \A d \in RelayDests : /\ relayed[r][d] <= 1
                                       /\ relayed[r][d] > 0 => r \in agreed /\ relays[r].to[d] # "none"
              /\ relays[r].status = "rejected" =>
                   (\A d \in RelayDests : relays[r].to[d] = "none")
                   \/ (\E d \in RelayDests : relays[r].to[d] \in {"failed", "review"})
              /\ relays[r].status = "sent" => \A d \in RelayDests : relays[r].to[d] \in {"sent", "none"}
    <2>1. Relaying!Rows = 1..Len(relays)
      BY DEF RelayIInv, RelayShapeInv, Relaying!Rows
    <2> QED BY <2>1 DEF Relaying!RelayOnce
  <1>1. RelayRowFine(relays[r], relayed[r], r \in agreed)
    BY DEF RelayIInv, RelayRowsInv
  <1> QED BY <1>1 DEF RelayRowFine

LEMMA RelayInitially == ASSUME MaxRelays \in Nat PROVE Relaying!RelayInit => RelayIInv
  <1> SUFFICES ASSUME MaxRelays \in Nat, Relaying!RelayInit PROVE RelayIInv
    OBVIOUS
  <1>1. relays \in Seq(RelayRow) /\ Len(relays) = 0 /\ visiting \in Seq(Nat) /\ Len(visiting) = 0
    BY DEF Relaying!RelayInit
  <1> QED BY <1>1 DEF Relaying!RelayInit, RelayIInv, RelayShapeInv, RelayRowsInv, NewRowsInv, PublishInv

-----------------------------------------------------------------------------
(* A step either changes one row in place or appends one.                  *)
LEMMA ChangesRow ==
  ASSUME RelayIInv, NEW r \in 1..Len(relays), NEW row \in RelayRow,
         relays' = [relays EXCEPT ![r] = row],
         relayed' \in [1..MaxRelays -> [RelayDests -> Nat]],
         \A q \in 1..MaxRelays : q # r => relayed'[q] = relayed[q],
         RelayRowFine(row, relayed'[r], r \in agreed'),
         agreed \subseteq agreed',
         album' \in Nat, album' <= Len(relays), bot' \in {1, 2},
         publishing' \in Nat, publishing' <= Len(relays),
         visiting' \in Seq(Nat), \A i \in 1..Len(visiting') : visiting'[i] \in 1..Len(relays),
         publishing' # 0 => relays'[publishing'].status = "publishing",
         MaxRelays \in Nat
  PROVE  RelayIInv'
  <1>1. relays' \in Seq(RelayRow) /\ Len(relays') = Len(relays)
    BY ExceptSeq DEF RelayIInv, RelayShapeInv
  <1>2. RelayShapeInv'
    BY <1>1 DEF RelayIInv, RelayShapeInv
  <1>3. RelayRowsInv'
    <2> SUFFICES ASSUME NEW q \in 1..Len(relays)
          PROVE RelayRowFine(relays'[q], relayed'[q], q \in agreed')
      BY <1>1 DEF RelayRowsInv, RelayRowFine
    <2>1. CASE q = r
      BY <2>1 DEF RelayIInv, RelayShapeInv
    <2>2. CASE q # r
      <3>1. relays'[q] = relays[q] /\ relayed'[q] = relayed[q]
        BY <2>2 DEF RelayIInv, RelayShapeInv
      <3>2. RelayRowFine(relays[q], relayed[q], q \in agreed)
        BY DEF RelayIInv, RelayRowsInv
      <3> QED BY <3>1, <3>2 DEF RelayRowFine
    <2> QED BY <2>1, <2>2
  <1>4. NewRowsInv'
    BY <1>1 DEF RelayIInv, RelayShapeInv, NewRowsInv
  <1> QED BY <1>1, <1>2, <1>3, <1>4 DEF RelayIInv, PublishInv

LEMMA AppendsRow ==
  ASSUME RelayIInv, Len(relays) < MaxRelays, NEW row \in RelayRow,
         relays' = Append(relays, row), relayed' = relayed,
         RelayRowFine(row, relayed[Len(relays) + 1], Len(relays) + 1 \in agreed'),
         agreed \subseteq agreed',
         album' \in Nat, album' <= Len(relays) + 1, bot' = bot,
         publishing' \in {0, Len(relays) + 1}, publishing' # 0 => row.status = "publishing",
         visiting' = visiting, MaxRelays \in Nat
  PROVE  RelayIInv'
  <1>1. /\ relays' \in Seq(RelayRow) /\ Len(relays') = Len(relays) + 1
        /\ \A i \in 1..Len(relays) : relays'[i] = relays[i]
        /\ relays'[Len(relays) + 1] = row /\ Len(relays) \in Nat
    BY AppendProperties, LenProperties DEF RelayIInv, RelayShapeInv
  <1>2. RelayShapeInv'
    BY <1>1 DEF RelayIInv, RelayShapeInv
  <1>3. RelayRowsInv'
    <2> SUFFICES ASSUME NEW q \in 1..(Len(relays) + 1)
          PROVE RelayRowFine(relays'[q], relayed[q], q \in agreed')
      BY <1>1 DEF RelayRowsInv, RelayRowFine
    <2>1. CASE q = Len(relays) + 1
      BY <2>1, <1>1
    <2>2. CASE q # Len(relays) + 1
      <3>1. q \in 1..Len(relays) /\ relays'[q] = relays[q]
        BY <2>2, <1>1
      <3>2. RelayRowFine(relays[q], relayed[q], q \in agreed)
        BY <3>1 DEF RelayIInv, RelayRowsInv
      <3> QED BY <3>1, <3>2 DEF RelayRowFine
    <2> QED BY <2>1, <2>2
  <1>4. NewRowsInv'
    BY <1>1 DEF RelayIInv, NewRowsInv
  <1>5. PublishInv'
    BY <1>1 DEF PublishInv
  <1> QED BY <1>2, <1>3, <1>4, <1>5 DEF RelayIInv

LEMMA LeavesRows ==
  ASSUME RelayIInv, relays' = relays, relayed' = relayed, agreed' = agreed,
         album' \in Nat, album' <= Len(relays), bot' \in {1, 2},
         publishing' \in {0, publishing},
         visiting' \in Seq(Nat), \A i \in 1..Len(visiting') : visiting'[i] \in 1..Len(relays)
  PROVE  RelayIInv'
  BY DEF RelayIInv, RelayShapeInv, RelayRowsInv, RelayRowFine, NewRowsInv, PublishInv

-----------------------------------------------------------------------------
(* The publication of a row.                                               *)

LEMMA RelayRowOf ==
  ASSUME MaxRelays \in Nat, RelayIInv, NEW r \in 1..Len(relays)
  PROVE  /\ relays[r] \in RelayRow /\ relayed[r] \in [RelayDests -> Nat] /\ r \in 1..MaxRelays
         /\ RelayRowFine(relays[r], relayed[r], r \in agreed)
  <1>1. relays[r] \in RelayRow
    BY ElementOfSeq DEF RelayIInv, RelayShapeInv
  <1>2. r \in 1..MaxRelays
    BY LenProperties DEF RelayIInv, RelayShapeInv
  <1> QED BY <1>1, <1>2 DEF RelayIInv, RelayShapeInv, RelayRowsInv

PublishedRow(row, ds) ==
  [row EXCEPT !.status = "publishing", !.to = [d \in RelayDests |-> IF d \in ds THEN "pending" ELSE "none"]]

(* A row nobody was sent may be published, once it is released.            *)
LEMMA PublishedFine ==
  ASSUME NEW row \in RelayRow, NEW out \in [RelayDests -> Nat], NEW ds, \A d \in RelayDests : out[d] = 0
  PROVE  PublishedRow(row, ds) \in RelayRow /\ RelayRowFine(PublishedRow(row, ds), out, TRUE)
  <1> DEFINE new == PublishedRow(row, ds)
  <1>1. new \in RelayRow
    BY DEF PublishedRow, RelayRow, RelayStatus, RelayAnswer
  <1>2. new.status = "publishing" /\ \A d \in RelayDests : new.to[d] \in {"none", "pending"}
    BY DEF PublishedRow, RelayRow
  <1> QED BY <1>1, <1>2 DEF RelayRowFine

LEMMA Unsent ==
  ASSUME MaxRelays \in Nat, RelayIInv, NEW r \in 1..Len(relays), relays[r].status \in {"collecting", "pending", "ready"}
  PROVE  \A d \in RelayDests : relayed[r][d] = 0
  BY RelayRowOf DEF RelayRowFine

LEMMA SendCopyStep == ASSUME MaxRelays \in Nat, RelayIInv, Relaying!SendCopy PROVE RelayIInv'
  <1>1. PICK d \in RelayDests :
          /\ relays[publishing].to[d] = "pending"
          /\ relays' = [relays EXCEPT ![publishing].to[d] = "sending"]
          /\ \E arrives \in {0, 1} : relayed' = [relayed EXCEPT ![publishing][d] = @ + arrives]
    BY DEF Relaying!SendCopy
  <1> DEFINE row == [relays[publishing] EXCEPT !.to[d] = "sending"]
  <1>2. publishing \in 1..Len(relays) /\ relays[publishing].status = "publishing"
    BY DEF Relaying!SendCopy, RelayIInv, RelayShapeInv, PublishInv
  <1>3. row \in RelayRow /\ relays' = [relays EXCEPT ![publishing] = row]
    BY <1>1, <1>2, RelayRowOf DEF RelayRow, RelayAnswer
  <1>4. /\ relayed' \in [1..MaxRelays -> [RelayDests -> Nat]]
        /\ \A q \in 1..MaxRelays : q # publishing => relayed'[q] = relayed[q]
        /\ relayed'[publishing][d] <= 1
        /\ \A e \in RelayDests : e # d => relayed'[publishing][e] = relayed[publishing][e]
    BY <1>1, <1>2, RelayRowOf DEF RelayRowFine, RelayIInv, RelayShapeInv
  <1>5. RelayRowFine(row, relayed'[publishing], publishing \in agreed)
    BY <1>1, <1>2, <1>4, RelayRowOf DEF RelayRowFine, RelayRow
  <1>6. relays'[publishing].status = "publishing"
    BY <1>2, <1>3 DEF RelayIInv, RelayShapeInv, RelayRow
  <1> HIDE DEF row
  <1>7. /\ agreed' = agreed /\ album' = album /\ bot' = bot /\ publishing' = publishing /\ visiting' = visiting
        /\ RelayShapeInv
    BY DEF Relaying!SendCopy, RelayIInv
  <1> QED BY <1>2, <1>3, <1>4, <1>5, <1>6, <1>7, ChangesRow DEF RelayShapeInv

LEMMA CopyAnsweredStep == ASSUME MaxRelays \in Nat, RelayIInv, Relaying!CopyAnswered PROVE RelayIInv'
  <1>1. PICK d \in RelayDests, reply \in {"sent", "review", "failed"} :
          /\ relays[publishing].to[d] = "sending"
          /\ reply = "sent" => relayed[publishing][d] > 0
          /\ relays' = [relays EXCEPT ![publishing].to[d] = reply]
    BY DEF Relaying!CopyAnswered
  <1> DEFINE row == [relays[publishing] EXCEPT !.to[d] = reply]
  <1>2. publishing \in 1..Len(relays) /\ relays[publishing].status = "publishing"
    BY DEF Relaying!CopyAnswered, RelayIInv, RelayShapeInv, PublishInv
  <1>3. row \in RelayRow /\ relays' = [relays EXCEPT ![publishing] = row]
    BY <1>1, <1>2, RelayRowOf DEF RelayRow, RelayAnswer
  <1>4. RelayRowFine(row, relayed[publishing], publishing \in agreed)
    BY <1>1, <1>2, RelayRowOf DEF RelayRowFine, RelayRow
  <1>5. relays'[publishing].status = "publishing"
    BY <1>2, <1>3 DEF RelayIInv, RelayShapeInv, RelayRow
  <1> HIDE DEF row
  <1>6. /\ agreed' = agreed /\ album' = album /\ bot' = bot /\ publishing' = publishing /\ visiting' = visiting
        /\ relayed' = relayed /\ RelayShapeInv
    BY DEF Relaying!CopyAnswered, RelayIInv
  <1> QED BY <1>2, <1>3, <1>4, <1>5, <1>6, ChangesRow DEF RelayShapeInv

LEMMA EndPublishStep == ASSUME MaxRelays \in Nat, RelayIInv, Relaying!EndPublish PROVE RelayIInv'
  <1> DEFINE to == relays[publishing].to
             end == IF \A d \in RelayDests : to[d] \in {"sent", "none"} THEN "sent" ELSE "failed"
             row == [relays[publishing] EXCEPT !.status = end]
  <1>1. /\ publishing # 0 /\ \A d \in RelayDests : to[d] \notin {"pending", "sending"}
        /\ relays' = [relays EXCEPT ![publishing].status = end]
    BY DEF Relaying!EndPublish
  <1>2. publishing \in 1..Len(relays)
    BY <1>1 DEF RelayIInv, RelayShapeInv
  <1>3. row \in RelayRow /\ relays' = [relays EXCEPT ![publishing] = row]
    <2>1. end \in RelayStatus
      BY DEF RelayStatus
    <2> HIDE DEF end
    <2>2. row \in RelayRow
      BY <1>2, <2>1, RelayRowOf DEF RelayRow
    <2>3. relays' = [relays EXCEPT ![publishing] = row]
      BY <1>1 DEF end
    <2> QED
      BY <2>2, <2>3
  <1>4. row.status = end /\ row.to = to /\ to \in [RelayDests -> RelayAnswer]
    BY <1>2, RelayRowOf DEF RelayRow
  <1>5. end = "failed" => \E d \in RelayDests : to[d] \in {"failed", "review"}
    BY <1>1, <1>4 DEF RelayAnswer
  <1>6. end \in {"sent", "failed"} /\ (end = "sent" => \A d \in RelayDests : to[d] \in {"sent", "none"})
    OBVIOUS
  <1>7. \A d \in RelayDests : /\ relayed[publishing][d] <= 1
                              /\ to[d] \in {"none", "pending"} => relayed[publishing][d] = 0
                              /\ to[d] # "none" => publishing \in agreed
    BY <1>2, RelayRowOf DEF RelayRowFine
  <1> HIDE DEF end, row, to
  <1>8. RelayRowFine(row, relayed[publishing], publishing \in agreed)
    BY <1>4, <1>5, <1>6, <1>7 DEF RelayRowFine
  <1>9. /\ agreed' = agreed /\ album' = album /\ bot' = bot /\ publishing' = 0 /\ visiting' = visiting
        /\ relayed' = relayed /\ RelayShapeInv
    BY DEF Relaying!EndPublish, RelayIInv
  <1>10. /\ relayed' \in [1..MaxRelays -> [RelayDests -> Nat]] /\ album' \in Nat /\ album' <= Len(relays)
         /\ bot' \in {1, 2} /\ publishing' \in Nat /\ publishing' <= Len(relays)
         /\ visiting' \in Seq(Nat) /\ \A i \in 1..Len(visiting') : visiting'[i] \in 1..Len(relays)
    BY <1>2, <1>9 DEF RelayShapeInv
  <1>11. RelayRowFine(row, relayed'[publishing], publishing \in agreed')
    BY <1>8, <1>9
  <1> QED BY <1>2, <1>3, <1>9, <1>10, <1>11, ChangesRow

-----------------------------------------------------------------------------
(* New messages.                                                           *)

LEMMA NewRowFine ==
  ASSUME MaxRelays \in Nat, RelayIInv, Len(relays) < MaxRelays,
         NEW status \in {"collecting", "pending", "ready"}, NEW m \in {1, 2}
  PROVE  /\ Relaying!NewRow(status, m) \in RelayRow /\ Relaying!NewRow(status, m).status = status
         /\ RelayRowFine(Relaying!NewRow(status, m), relayed[Len(relays) + 1], FALSE)
         /\ relayed[Len(relays) + 1] \in [RelayDests -> Nat]
         /\ \A d \in RelayDests : relayed[Len(relays) + 1][d] = 0
  <1>1. Len(relays) + 1 \in 1..MaxRelays /\ Len(relays) + 1 > Len(relays)
    BY LenProperties DEF RelayIInv, RelayShapeInv
  <1>2. /\ relayed[Len(relays) + 1] \in [RelayDests -> Nat]
        /\ \A d \in RelayDests : relayed[Len(relays) + 1][d] = 0
    BY <1>1 DEF RelayIInv, RelayShapeInv, NewRowsInv
  <1>3. Relaying!NewRow(status, m) \in RelayRow /\ Relaying!NewRow(status, m).status = status
    BY DEF Relaying!NewRow, RelayRow, RelayStatus, RelayAnswer, RelayIInv, RelayShapeInv
  <1>4. \A d \in RelayDests : Relaying!NewRow(status, m).to[d] = "none"
    BY DEF Relaying!NewRow
  <1> QED BY <1>2, <1>3, <1>4 DEF RelayRowFine

LEMMA SingleMessageStep == ASSUME MaxRelays \in Nat, RelayIInv, Relaying!SingleMessage PROVE RelayIInv'
  <1> DEFINE n == Len(relays) + 1
             ready == Relaying!NewRow("ready", 1)
  <1>0. /\ Len(relays) < MaxRelays /\ publishing = 0 /\ RelayShapeInv /\ Len(relays) \in Nat
        /\ album' = album /\ bot' = bot /\ visiting' = visiting /\ relayed' = relayed
    BY LenProperties DEF Relaying!SingleMessage, Relaying!Idle, RelayIInv, RelayShapeInv
  <1>1. CASE relays' = Append(relays, Relaying!NewRow("pending", 1)) /\ publishing' = publishing /\ agreed' = agreed
    <2>1. Relaying!NewRow("pending", 1) \in RelayRow /\ RelayRowFine(Relaying!NewRow("pending", 1), relayed[n], n \in agreed)
      BY <1>0, NewRowFine DEF RelayRowFine
    <2> QED BY <1>0, <1>1, <2>1, AppendsRow DEF RelayShapeInv
  <1>2. CASE relays' = Append(relays, ready) /\ publishing' = publishing /\ agreed' = agreed \cup {n}
    <2>1. ready \in RelayRow /\ RelayRowFine(ready, relayed[n], n \in agreed')
      BY <1>0, NewRowFine DEF RelayRowFine
    <2> QED BY <1>0, <1>2, <2>1, AppendsRow DEF RelayShapeInv
  <1>3. CASE relays' = Relaying!Published(Append(relays, ready), n, RelayDests) /\ publishing' = n /\ agreed' = agreed \cup {n}
    <2> DEFINE row == PublishedRow(ready, RelayDests)
    <2>1. ready \in RelayRow
      BY <1>0, NewRowFine
    <2>2. row \in RelayRow /\ RelayRowFine(row, relayed[n], TRUE) /\ row.status = "publishing"
      <3>1. row \in RelayRow /\ RelayRowFine(row, relayed[n], TRUE)
        BY <1>0, <2>1, NewRowFine, PublishedFine
      <3> QED BY <3>1, <2>1 DEF PublishedRow, RelayRow
    <2>3. relays' = Append(relays, row)
      <3> DEFINE longer == Append(relays, ready)
      <3>1. /\ longer \in Seq(RelayRow) /\ Len(longer) = n /\ longer[n] = ready
            /\ \A i \in 1..Len(relays) : longer[i] = relays[i]
        BY <1>0, <2>1, AppendProperties DEF RelayShapeInv
      <3>2. relays' = [longer EXCEPT ![n] = row]
        BY <1>0, <1>3, <2>1, <3>1 DEF Relaying!Published, PublishedRow, RelayRow
      <3> HIDE DEF longer, row, ready
      <3>3. /\ relays' \in Seq(RelayRow) /\ Len(relays') = n /\ relays'[n] = row
            /\ \A i \in 1..Len(relays) : relays'[i] = relays[i]
        BY <1>0, <2>2, <3>1, <3>2, ExceptSeq
      <3>4. /\ Append(relays, row) \in Seq(RelayRow) /\ Len(Append(relays, row)) = n /\ Append(relays, row)[n] = row
            /\ \A i \in 1..Len(relays) : Append(relays, row)[i] = relays[i]
        BY <1>0, <2>2, AppendProperties DEF RelayShapeInv
      <3>5. \A i \in 1..n : relays'[i] = Append(relays, row)[i]
        BY <1>0, <3>3, <3>4
      <3> QED BY <3>3, <3>4, <3>5, SeqEqual
    <2>4. RelayRowFine(row, relayed[n], n \in agreed')
      BY <1>3, <2>2
    <2> HIDE DEF row, ready
    <2> QED BY <1>0, <1>3, <2>2, <2>3, <2>4, AppendsRow DEF RelayShapeInv
  <1> QED BY <1>1, <1>2, <1>3 DEF Relaying!SingleMessage

LEMMA AlbumMessageStep == ASSUME MaxRelays \in Nat, RelayIInv, Relaying!AlbumMessage PROVE RelayIInv'
  <1> PICK m \in {1, 2} :
        /\ Relaying!Idle /\ relayOn
        /\ IF album # 0 /\ relays[album].status = "collecting"
           THEN relays' = [relays EXCEPT ![album].messages = @ \cup {m}] /\ UNCHANGED album
           ELSE /\ Len(relays) < MaxRelays /\ relays' = Append(relays, Relaying!NewRow("collecting", m))
                /\ album' \in {album, Len(relays) + 1}
        /\ UNCHANGED <<relayOn, approval, bot, publishing, visiting, relayed, agreed, relayStops, relayClicks>>
    BY DEF Relaying!AlbumMessage
  <1>0. /\ publishing = 0 /\ publishing' = 0 /\ bot' = bot /\ visiting' = visiting /\ relayed' = relayed
        /\ agreed' = agreed /\ RelayShapeInv /\ Len(relays) \in Nat
    BY LenProperties DEF Relaying!Idle, RelayIInv, RelayShapeInv
  <1>1. CASE album # 0 /\ relays[album].status = "collecting"
    <2> DEFINE row == [relays[album] EXCEPT !.messages = @ \cup {m}]
    <2>1. album \in 1..Len(relays) /\ album' = album
      BY <1>0, <1>1 DEF RelayShapeInv
    <2>2. relays[album] \in RelayRow /\ RelayRowFine(relays[album], relayed[album], album \in agreed)
      BY <2>1, RelayRowOf
    <2>3. row \in RelayRow /\ row.status = relays[album].status /\ row.to = relays[album].to
      BY <2>2 DEF RelayRow
    <2>4. relays' = [relays EXCEPT ![album] = row]
      BY <1>1, <2>1, <2>2 DEF RelayRow
    <2> HIDE DEF row
    <2>5. RelayRowFine(row, relayed'[album], album \in agreed')
      BY <1>0, <2>2, <2>3 DEF RelayRowFine
    <2> QED BY <1>0, <2>1, <2>3, <2>4, <2>5, ChangesRow DEF RelayShapeInv
  <1>2. CASE ~(album # 0 /\ relays[album].status = "collecting")
    <2> DEFINE row == Relaying!NewRow("collecting", m)
    <2>1. Len(relays) < MaxRelays /\ relays' = Append(relays, row) /\ album' \in {album, Len(relays) + 1}
      BY <1>2
    <2>2. row \in RelayRow /\ RelayRowFine(row, relayed[Len(relays) + 1], Len(relays) + 1 \in agreed')
      BY <2>1, NewRowFine DEF RelayRowFine
    <2> HIDE DEF row
    <2> QED BY <1>0, <2>1, <2>2, AppendsRow DEF RelayShapeInv
  <1> QED BY <1>1, <1>2

-----------------------------------------------------------------------------
(* The tick.                                                               *)

LEMMA StillInRange ==
  ASSUME RelayIInv, visiting # <<>>
  PROVE  /\ Tail(visiting) \in Seq(Nat) /\ Head(visiting) \in 1..Len(relays)
         /\ \A i \in 1..Len(Tail(visiting)) : Tail(visiting)[i] \in 1..Len(relays)
  <1>1. visiting \in Seq(Nat) /\ \A i \in 1..Len(visiting) : visiting[i] \in 1..Len(relays)
    BY DEF RelayIInv, RelayShapeInv
  <1> QED BY <1>1, HeadTailProperties

LEMMA BeginRelayTickStep == ASSUME MaxRelays \in Nat, RelayIInv, Relaying!BeginRelayTick PROVE RelayIInv'
  <1>1. relays \in Seq(RelayRow) /\ Len(relays) \in Nat /\ Relaying!Rows = 1..Len(relays)
    BY LenProperties DEF RelayIInv, RelayShapeInv, Relaying!Rows
  <1>2. visiting' \in Seq(Nat) /\ \A i \in 1..Len(visiting') : visiting'[i] \in 1..Len(relays)
    BY <1>1 DEF Relaying!BeginRelayTick
  <1> QED BY <1>2, LeavesRows DEF Relaying!BeginRelayTick, RelayIInv, RelayShapeInv

LEMMA ReleaseStep ==
  ASSUME MaxRelays \in Nat, RelayIInv, publishing = 0, visiting # <<>>,
         NEW r, r = Head(visiting), NEW rows,
         relays[r].status \in {"collecting", "ready"},
         rows = [relays EXCEPT ![r] = [relays[r] EXCEPT !.status = "ready"]],
         Relaying!Release(rows, r), UNCHANGED <<album, relayOn, approval, bot, relayed, relayStops, relayClicks>>
  PROVE  RelayIInv'
  <1> DEFINE base == [relays[r] EXCEPT !.status = "ready"]
             row == PublishedRow(base, RelayDests)
  <1>1. /\ r \in 1..Len(relays) /\ RelayShapeInv
        /\ Tail(visiting) \in Seq(Nat) /\ \A i \in 1..Len(Tail(visiting)) : Tail(visiting)[i] \in 1..Len(relays)
    BY StillInRange DEF RelayIInv
  <1>2. /\ relays[r] \in RelayRow /\ relayed[r] \in [RelayDests -> Nat] /\ \A d \in RelayDests : relayed[r][d] = 0
        /\ \A d \in RelayDests : relays[r].to[d] = "none"
    BY <1>1, RelayRowOf, Unsent DEF RelayRowFine
  <1>3. base \in RelayRow /\ base.status = "ready" /\ base.to = relays[r].to
    BY <1>2 DEF RelayRow, RelayStatus
  <1>4. row \in RelayRow /\ RelayRowFine(row, relayed[r], TRUE) /\ row.status = "publishing"
    <2>1. row \in RelayRow /\ RelayRowFine(row, relayed[r], TRUE)
      BY <1>2, <1>3, PublishedFine
    <2> QED BY <2>1, <1>3 DEF PublishedRow, RelayRow
  <1>5. RelayRowFine(base, relayed[r], TRUE)
    BY <1>2, <1>3 DEF RelayRowFine
  <1>6. /\ album' = album /\ bot' = bot /\ relayed' = relayed /\ agreed' = agreed \cup {r}
        /\ rows = [relays EXCEPT ![r] = base]
    BY DEF Relaying!Release
  <1>7. CASE Relaying!Publishable(rows[r], RelayDests)
    <2>1. relays' = Relaying!Published(rows, r, RelayDests) /\ publishing' = r /\ visiting' = Tail(visiting)
      BY <1>7 DEF Relaying!Release
    <2>2. relays' = [relays EXCEPT ![r] = row]
      BY <1>1, <1>3, <1>6, <2>1 DEF Relaying!Published, PublishedRow, RelayRow, RelayShapeInv
    <2> HIDE DEF row, base
    <2>3. relays'[publishing'].status = "publishing"
      BY <1>1, <1>4, <2>1, <2>2 DEF RelayShapeInv
    <2>4. RelayRowFine(row, relayed'[r], r \in agreed')
      BY <1>4, <1>6
    <2>5. /\ publishing' \in Nat /\ publishing' <= Len(relays) /\ agreed \subseteq agreed'
          /\ relayed' \in [1..MaxRelays -> [RelayDests -> Nat]] /\ bot' \in {1, 2}
          /\ album' \in Nat /\ album' <= Len(relays)
          /\ visiting' \in Seq(Nat) /\ \A i \in 1..Len(visiting') : visiting'[i] \in 1..Len(relays)
      BY <1>1, <1>6, <2>1 DEF RelayShapeInv
    <2>6. \A q \in 1..MaxRelays : q # r => relayed'[q] = relayed[q]
      BY <1>6
    <2> QED BY <1>1, <1>4, <2>2, <2>3, <2>4, <2>5, <2>6, ChangesRow
  <1>8. CASE ~Relaying!Publishable(rows[r], RelayDests)
    <2>1. relays' = [relays EXCEPT ![r] = base] /\ publishing' = 0 /\ visiting' = <<>>
      BY <1>6, <1>8 DEF Relaying!Release
    <2> HIDE DEF row, base
    <2>2. RelayRowFine(base, relayed'[r], r \in agreed')
      BY <1>5, <1>6
    <2>3. visiting' \in Seq(Nat) /\ Len(visiting') = 0 /\ Len(relays) \in Nat
      BY <1>1, <2>1, LenProperties DEF RelayShapeInv
    <2>4. /\ publishing' = 0 /\ publishing' \in Nat /\ publishing' <= Len(relays) /\ agreed \subseteq agreed'
          /\ relayed' \in [1..MaxRelays -> [RelayDests -> Nat]] /\ bot' \in {1, 2}
          /\ album' \in Nat /\ album' <= Len(relays)
          /\ visiting' \in Seq(Nat) /\ \A i \in 1..Len(visiting') : visiting'[i] \in 1..Len(relays)
      BY <1>1, <1>6, <2>1, <2>3 DEF RelayShapeInv
    <2>5. \A q \in 1..MaxRelays : q # r => relayed'[q] = relayed[q]
      BY <1>6
    <2> QED BY <1>1, <1>3, <2>1, <2>2, <2>4, <2>5, ChangesRow
  <1> QED BY <1>7, <1>8

(* A row that was published nowhere, or only asked for, gets another status. *)
LEMMA RowStatusStep ==
  ASSUME MaxRelays \in Nat, RelayIInv, NEW r \in 1..Len(relays), NEW status \in {"pending", "ready", "review", "rejected"},
         relays' = [relays EXCEPT ![r].status = status],
         \/ relays[r].status \in {"collecting", "pending", "ready"}
         \/ relays[r].status = "failed" /\ status = "rejected"
         \/ status = "review",
         publishing = 0, publishing' = 0,
         visiting' \in Seq(Nat), \A i \in 1..Len(visiting') : visiting'[i] \in 1..Len(relays),
         relayed' = relayed, agreed \subseteq agreed', album' = album, bot' = bot
  PROVE  RelayIInv'
  <1> DEFINE row == [relays[r] EXCEPT !.status = status]
  <1>1. relays[r] \in RelayRow /\ RelayRowFine(relays[r], relayed[r], r \in agreed) /\ RelayShapeInv /\ Len(relays) \in Nat
    BY RelayRowOf, LenProperties DEF RelayIInv, RelayShapeInv
  <1>2. row \in RelayRow /\ row.status = status /\ row.to = relays[r].to
    BY <1>1 DEF RelayRow, RelayStatus
  <1>3. relays' = [relays EXCEPT ![r] = row]
    BY <1>1 DEF RelayRow
  <1> HIDE DEF row
  <1>4. RelayRowFine(row, relayed'[r], r \in agreed')
    BY <1>1, <1>2 DEF RelayRowFine
  <1>5. /\ relayed' \in [1..MaxRelays -> [RelayDests -> Nat]] /\ bot' \in {1, 2}
        /\ album' \in Nat /\ album' <= Len(relays) /\ publishing' \in Nat /\ publishing' <= Len(relays)
    BY <1>1 DEF RelayShapeInv
  <1>6. \A q \in 1..MaxRelays : q # r => relayed'[q] = relayed[q]
    OBVIOUS
  <1> QED BY <1>2, <1>3, <1>4, <1>5, <1>6, ChangesRow

LEMMA VisitRowStep == ASSUME MaxRelays \in Nat, RelayIInv, Relaying!VisitRow PROVE RelayIInv'
  <1> DEFINE r == Head(visiting)
             rows == [relays EXCEPT ![r].status = "ready"]
  <1>1. /\ publishing = 0 /\ visiting # <<>>
        /\ UNCHANGED <<album, relayOn, approval, bot, relayed, relayStops, relayClicks>>
    BY DEF Relaying!VisitRow
  <1>2. /\ r \in 1..Len(relays) /\ Tail(visiting) \in Seq(Nat)
        /\ \A i \in 1..Len(Tail(visiting)) : Tail(visiting)[i] \in 1..Len(relays)
    BY <1>1, StillInRange
  <1>3. relays \in Seq(RelayRow) /\ relays[r] \in RelayRow
    BY <1>2, RelayRowOf DEF RelayIInv, RelayShapeInv
  <1>4. rows = [relays EXCEPT ![r] = [relays[r] EXCEPT !.status = "ready"]]
    BY <1>2, <1>3
  <1>5. CASE /\ relays[r].status = "publishing"
             /\ relays' = [relays EXCEPT ![r].status = "review"]
             /\ visiting' = Tail(visiting) /\ UNCHANGED <<publishing, agreed>>
    BY <1>1, <1>2, <1>5, RowStatusStep
  <1>6. CASE relays[r].status = "ready" /\ relayOn /\ ~approval /\ Relaying!Release(relays, r)
    <2>1. relays[r] = [relays[r] EXCEPT !.status = "ready"]
      BY <1>3, <1>6 DEF RelayRow
    <2>2. relays = [relays EXCEPT ![r] = relays[r]]
      BY <1>2, <1>3
    <2>3. relays = [relays EXCEPT ![r] = [relays[r] EXCEPT !.status = "ready"]]
      BY <2>1, <2>2
    <2> QED BY <1>1, <1>6, <2>3, ReleaseStep
  <1>7. CASE /\ relays[r].status = "collecting"
             /\ IF approval
                THEN /\ relays' = [relays EXCEPT ![r].status = "pending"]
                     /\ visiting' = Tail(visiting) /\ UNCHANGED <<publishing, agreed>>
                ELSE IF relayOn THEN Relaying!Release(rows, r)
                     ELSE /\ relays' = rows /\ agreed' = agreed \cup {r}
                          /\ visiting' = Tail(visiting) /\ UNCHANGED publishing
    <2>1. CASE approval
      BY <1>1, <1>2, <1>7, <2>1, RowStatusStep
    <2>2. CASE ~approval /\ relayOn
      BY <1>1, <1>4, <1>7, <2>2, ReleaseStep
    <2>3. CASE ~approval /\ ~relayOn
      BY <1>1, <1>2, <1>7, <2>3, RowStatusStep
    <2> QED BY <2>1, <2>2, <2>3
  <1>8. CASE visiting' = Tail(visiting) /\ UNCHANGED <<relays, publishing, agreed>>
    BY <1>1, <1>2, <1>8, LeavesRows DEF RelayIInv, RelayShapeInv
  <1> QED BY <1>5, <1>6, <1>7, <1>8 DEF Relaying!VisitRow

-----------------------------------------------------------------------------
(* The administrator, and evictions.                                       *)

LEMMA ApproveStep == ASSUME MaxRelays \in Nat, RelayIInv, Relaying!Approve PROVE RelayIInv'
  <1> PICK r \in Relaying!Rows, ds \in SUBSET RelayDests :
        /\ Relaying!Idle /\ Relaying!Clicked /\ Relaying!Publishable(relays[r], ds)
        /\ relays' = Relaying!Published(relays, r, ds) /\ publishing' = r /\ agreed' = agreed \cup {r}
        /\ UNCHANGED <<album, relayOn, approval, bot, visiting, relayed>>
    BY DEF Relaying!Approve
  <1> DEFINE row == PublishedRow(relays[r], ds)
  <1>1. r \in 1..Len(relays) /\ RelayShapeInv
    BY DEF Relaying!Rows, RelayIInv, RelayShapeInv
  <1>2. /\ relays[r] \in RelayRow /\ relayed[r] \in [RelayDests -> Nat] /\ \A d \in RelayDests : relayed[r][d] = 0
    BY <1>1, RelayRowOf, Unsent DEF Relaying!Publishable
  <1>3. row \in RelayRow /\ RelayRowFine(row, relayed[r], TRUE)
    BY <1>2, PublishedFine
  <1>4. row.status = "publishing"
    BY <1>2 DEF PublishedRow, RelayRow
  <1>5. relays' = [relays EXCEPT ![r] = row]
    BY <1>1, <1>2 DEF Relaying!Published, PublishedRow, RelayRow, RelayShapeInv
  <1> HIDE DEF row
  <1>6. RelayRowFine(row, relayed'[r], r \in agreed')
    BY <1>3 DEF RelayRowFine
  <1>7. relays'[publishing'].status = "publishing"
    BY <1>1, <1>4, <1>5 DEF RelayShapeInv
  <1>8. /\ publishing' \in Nat /\ publishing' <= Len(relays) /\ agreed \subseteq agreed'
        /\ relayed' \in [1..MaxRelays -> [RelayDests -> Nat]] /\ bot' \in {1, 2}
        /\ album' \in Nat /\ album' <= Len(relays)
        /\ visiting' \in Seq(Nat) /\ \A i \in 1..Len(visiting') : visiting'[i] \in 1..Len(relays)
    BY <1>1 DEF RelayShapeInv
  <1>9. \A q \in 1..MaxRelays : q # r => relayed'[q] = relayed[q]
    OBVIOUS
  <1> QED BY <1>1, <1>3, <1>5, <1>6, <1>8, <1>9, <1>7, ChangesRow

LEMMA RejectRelayStep == ASSUME MaxRelays \in Nat, RelayIInv, Relaying!RejectRelay PROVE RelayIInv'
  <1> PICK r \in Relaying!Rows :
        /\ Relaying!Idle /\ Relaying!Clicked /\ relays[r].status \in Relaying!Rejects
        /\ relays' = [relays EXCEPT ![r].status = "rejected"]
        /\ UNCHANGED <<album, relayOn, approval, bot, publishing, visiting, relayed, agreed>>
    BY DEF Relaying!RejectRelay
  <1>1. /\ r \in 1..Len(relays) /\ publishing = 0 /\ visiting \in Seq(Nat)
        /\ \A i \in 1..Len(visiting) : visiting[i] \in 1..Len(relays)
    BY DEF Relaying!Rows, Relaying!Idle, RelayIInv, RelayShapeInv
  <1>2. relays[r].status \in {"pending", "ready", "failed"}
    BY DEF Relaying!Rejects
  <1> QED BY <1>1, <1>2, RowStatusStep

LEMMA RelaySettingsStep == ASSUME MaxRelays \in Nat, RelayIInv, Relaying!RelaySettings PROVE RelayIInv'
  <1>1. RelayShapeInv /\ bot' \in {1, 2}
    BY DEF Relaying!RelaySettings, RelayIInv, RelayShapeInv
  <1> QED BY <1>1, LeavesRows DEF Relaying!RelaySettings, RelayShapeInv

LEMMA RelayEvictedStep == ASSUME MaxRelays \in Nat, RelayIInv, Relaying!RelayEvicted PROVE RelayIInv'
  <1>1. RelayShapeInv /\ visiting' \in Seq(Nat) /\ Len(visiting') = 0
    BY DEF Relaying!RelayEvicted, RelayIInv
  <1> QED BY <1>1, LeavesRows DEF Relaying!RelayEvicted, RelayShapeInv

LEMMA RelayStays == ASSUME MaxRelays \in Nat, RelayIInv, UNCHANGED relayState PROVE RelayIInv'
  BY DEF relayState, RelayIInv, RelayShapeInv, RelayRowsInv, RelayRowFine, NewRowsInv, PublishInv

LEMMA RelayStep == ASSUME MaxRelays \in Nat, RelayIInv, Relaying!RelayNext PROVE RelayIInv'
  <1>1. CASE Relaying!SendCopy \/ Relaying!CopyAnswered \/ Relaying!EndPublish
    BY <1>1, SendCopyStep, CopyAnsweredStep, EndPublishStep
  <1>2. CASE Relaying!SingleMessage \/ Relaying!AlbumMessage
    BY <1>2, SingleMessageStep, AlbumMessageStep
  <1>3. CASE Relaying!BeginRelayTick \/ Relaying!VisitRow
    BY <1>3, BeginRelayTickStep, VisitRowStep
  <1>4. CASE Relaying!Approve \/ Relaying!RejectRelay \/ Relaying!RelaySettings \/ Relaying!RelayEvicted
    BY <1>4, ApproveStep, RejectRelayStep, RelaySettingsStep, RelayEvictedStep
  <1> QED BY <1>1, <1>2, <1>3, <1>4 DEF Relaying!RelayNext

LEMMA RelaysAlone == [Next]_allVars => Relaying!RelayNext \/ UNCHANGED relayState
  BY DEF Next, Rest, allVars

\* Through evictions, lost answers and the tick, for any destinations and
\* any number of rows: a row is copied to a chat once at most, only if it
\* was released, and what was rejected never went out whole.
THEOREM RelaysOnce == Spec => []EveryRelayOnce
  <1>1. Init => RelayIInv
    BY PartsAssumption, RelayInitially DEF Init, PartsAssumption
  <1>2. RelayIInv /\ [Next]_allVars => RelayIInv'
    BY PartsAssumption, RelayStep, RelayStays, RelaysAlone DEF PartsAssumption
  <1>3. RelayIInv => EveryRelayOnce
    BY RelayPromise DEF EveryRelayOnce
  <1> QED BY <1>1, <1>2, <1>3, PTL DEF Spec

-----------------------------------------------------------------------------
(* Groups                                                                  *)

Permissions == {"none", "own", "all", "locked"}
MemberType == member \in [here : BOOLEAN, muted : BOOLEAN, until : BOOLEAN, banned : {"no", "minute", "ever"}]
ChallengeType ==
  challenge \in [status : {"none", "pending", "passed", "passed_waiting", "expired"}, perms : Permissions,
                 fresh : BOOLEAN, late : BOOLEAN, attempts : Nat]
RaffleType == raffle \in [status : {"none", "active", "drawn"}, joined : Nat, announced : Nat]
GroupType ==
  /\ group \in [on : BOOLEAN, captcha : BOOLEAN, lock : BOOLEAN, night : BOOLEAN, normal : Permissions]
  /\ chat \in Permissions

(* He who has to pass the challenge is muted without an end once his join  *)
(* was handled, or while a fresh challenge awaits a join that comes again; *)
(* and who is banned is not here.                                          *)
SilentInv ==
  /\ member.here => member.banned = "no"
  /\ ~verified /\ member.banned = "no" /\ (challenge.fresh \/ (member.here /\ arriving = 0)) =>
       member.muted /\ ~member.until

(* The winner is announced by the draw only.                               *)
RaffleInv == RaffleType /\ raffle.announced <= 1 /\ (raffle.status = "active" => raffle.announced = 0)

GroupIInv == MemberType /\ ChallengeType /\ GroupType /\ arriving \in Nat /\ SilentInv /\ RaffleInv

LEMMA GroupPromise == GroupIInv => Grouping!VerifiedToTalk
  BY DEF GroupIInv, SilentInv, RaffleInv, Grouping!VerifiedToTalk

LEMMA GroupInitially == ASSUME Grouping!GroupInit PROVE GroupIInv
  <1>1. MemberType /\ SilentInv
    BY DEF MemberType, SilentInv, Grouping!GroupInit, Grouping!NoChallenge
  <1>2. ChallengeType
    BY DEF ChallengeType, Permissions, Grouping!GroupInit, Grouping!NoChallenge
  <1>3. GroupType
    BY DEF GroupType, Permissions, Grouping!GroupInit
  <1>4. RaffleInv /\ arriving \in Nat
    BY DEF RaffleInv, RaffleType, Grouping!GroupInit
  <1> QED BY <1>1, <1>2, <1>3, <1>4 DEF GroupIInv

(* What may become of the member, and of his challenge.                    *)
LEMMA MemberMoves ==
  ASSUME MemberType, NEW perms,
         member' \in {member, Grouping!Restricted(perms), Grouping!Muted(member), Grouping!Banned("ever"),
                      Grouping!Banned("minute"), [member EXCEPT !.here = TRUE], [member EXCEPT !.here = FALSE],
                      [member EXCEPT !.banned = "no"], [member EXCEPT !.muted = FALSE, !.until = FALSE]}
  PROVE  MemberType' /\ (member'.here => member.here \/ member' = [member EXCEPT !.here = TRUE])
  <1>1. CASE member' \in {member, [member EXCEPT !.here = TRUE], [member EXCEPT !.here = FALSE]}
    BY <1>1 DEF MemberType
  <1>2. CASE member' = [member EXCEPT !.banned = "no"]
    BY <1>2 DEF MemberType
  <1>3. CASE member' \in {[member EXCEPT !.muted = FALSE, !.until = FALSE], Grouping!Muted(member)}
    <2>1. member' \in {[member EXCEPT !.muted = FALSE, !.until = FALSE], [member EXCEPT !.muted = TRUE, !.until = TRUE]}
      BY <1>3 DEF Grouping!Muted
    <2>2. MemberType'
      BY <2>1 DEF MemberType
    <2>3. member'.here = member.here
      BY <2>1 DEF MemberType
    <2> QED BY <2>2, <2>3
  <1>4. CASE member' = Grouping!Restricted(perms)
    <2>1. PICK muted \in BOOLEAN : muted = (perms = "locked")
      OBVIOUS
    <2>2. member' = [member EXCEPT !.muted = muted, !.until = FALSE]
      BY <1>4, <2>1 DEF Grouping!Restricted
    <2> QED BY <2>2 DEF MemberType
  <1>5. CASE member' \in {Grouping!Banned("ever"), Grouping!Banned("minute")}
    <2>1. \E time \in {"ever", "minute"} : member' = [here |-> FALSE, muted |-> FALSE, until |-> FALSE, banned |-> time]
      BY <1>5 DEF Grouping!Banned
    <2>2. ~member'.here
      BY <2>1
    <2> QED BY <2>1, <2>2 DEF MemberType
  <1> QED BY <1>1, <1>2, <1>3, <1>4, <1>5

LEMMA GroupStep == ASSUME GroupIInv, Grouping!GroupNext PROVE GroupIInv'
  <1>0. MemberType /\ ChallengeType /\ GroupType /\ arriving \in Nat /\ SilentInv /\ RaffleInv
    BY DEF GroupIInv
  <1>a. UNCHANGED raffle => RaffleInv'
    BY <1>0 DEF RaffleInv, RaffleType
  <1>b. UNCHANGED <<group, chat>> => GroupType'
    BY <1>0 DEF GroupType
  <1>c. UNCHANGED challenge => ChallengeType'
    BY <1>0 DEF ChallengeType
  <1>d. UNCHANGED member => MemberType'
    BY <1>0 DEF MemberType
  <1>e. UNCHANGED <<member, challenge, verified, arriving>> => SilentInv'
    BY <1>0 DEF SilentInv
  <1>1. CASE Grouping!Join
    <2>1. /\ member' = [member EXCEPT !.here = TRUE] /\ member.banned = "no" /\ arriving' \in {1, 2}
          /\ (verified' <=> verified /\ challenge.fresh) /\ UNCHANGED <<challenge, group, chat, raffle>>
      BY <1>1 DEF Grouping!Join
    <2>2. MemberType' /\ member'.banned = "no" /\ member'.muted = member.muted /\ member'.until = member.until
      BY <1>0, <2>1 DEF MemberType
    <2>3. SilentInv'
      BY <1>0, <2>1, <2>2 DEF SilentInv
    <2> QED BY <1>0, <1>a, <1>b, <1>c, <2>1, <2>2, <2>3 DEF GroupIInv
  <1>2. CASE Grouping!Leave
    <2>1. member' = [member EXCEPT !.here = FALSE] /\ UNCHANGED <<challenge, verified>>
      BY <1>2 DEF Grouping!Leave
    <2>2. MemberType' /\ ~member'.here /\ member'.banned = member.banned /\ member'.muted = member.muted
          /\ member'.until = member.until
      BY <1>0, <2>1 DEF MemberType
    <2>3. SilentInv'
      BY <1>0, <2>1, <2>2 DEF SilentInv
    <2> QED BY <1>0, <1>2, <1>a, <1>b, <1>c, <2>2, <2>3 DEF Grouping!Leave, Grouping!groupBounds, GroupIInv
  <1>3. CASE Grouping!HandleJoin
    <2>0. UNCHANGED <<group, chat, raffle>> /\ arriving > 0
      BY <1>3 DEF Grouping!HandleJoin
    <2>1. CASE /\ UNCHANGED <<member, challenge>> /\ arriving' = arriving - 1
               /\ verified' = TRUE \/ (UNCHANGED verified /\ challenge.fresh)
      <3>1. SilentInv'
        BY <1>0, <2>1 DEF MemberType, SilentInv
      <3> QED BY <1>0, <1>a, <1>b, <1>c, <1>d, <2>0, <2>1, <3>1 DEF GroupIInv
    <2>2. CASE Grouping!ChallengeMember
      <3>0. Grouping!Challenged.fresh /\ Grouping!Challenged \in [status : {"pending"}, perms : Permissions,
                 fresh : BOOLEAN, late : BOOLEAN, attempts : Nat]
        BY <1>0 DEF Grouping!Challenged, Grouping!NoChallenge, GroupType, Permissions
      <3>1. CASE member' = Grouping!Restricted("locked") /\ challenge' \in {challenge, Grouping!Challenged}
                 /\ arriving' \in {arriving, arriving - 1}
        <4>1. MemberType' /\ member'.muted /\ ~member'.until /\ member'.here = member.here /\ member'.banned = member.banned
          BY <1>0, <3>1 DEF Grouping!Restricted, MemberType
        <4>2. ChallengeType'
          BY <1>0, <3>0, <3>1 DEF ChallengeType
        <4>3. SilentInv'
          BY <1>0, <4>1 DEF SilentInv
        <4> QED BY <1>0, <1>a, <1>b, <2>0, <3>1, <4>1, <4>2, <4>3 DEF GroupIInv
      <3>2. CASE arriving' = arriving - 1 /\ verified' = TRUE /\ UNCHANGED <<member, challenge>>
        BY <2>1, <3>2
      <3> QED BY <2>2, <3>1, <3>2 DEF Grouping!ChallengeMember
    <2> QED BY <1>3, <2>1, <2>2 DEF Grouping!HandleJoin
  <1>4. CASE Grouping!AnswerCaptcha
    <2>0. UNCHANGED <<group, chat, raffle, arriving>>
      BY <1>4 DEF Grouping!AnswerCaptcha
    <2>1. PICK late \in BOOLEAN : late = (challenge.attempts + 1 >= 3)
      <3>1. CASE challenge.attempts + 1 >= 3
        <4>1. TRUE = (challenge.attempts + 1 >= 3)
          BY <3>1
        <4> QED BY <4>1, Zenon
      <3>2. CASE ~(challenge.attempts + 1 >= 3)
        <4>1. FALSE = (challenge.attempts + 1 >= 3)
          BY <3>2
        <4> QED BY <4>1, Zenon
      <3> QED BY <3>1, <3>2
    <2>2. PICK n \in Nat : n = challenge.attempts + 1
      BY <1>0 DEF ChallengeType
    <2>3. challenge' \in {challenge, [challenge EXCEPT !.attempts = n, !.late = late],
                         [challenge EXCEPT !.status = "passed_waiting"], [challenge EXCEPT !.status = "passed"]}
      BY <1>4, <2>1, <2>2 DEF Grouping!AnswerCaptcha
    <2>4. ChallengeType' /\ challenge'.fresh = challenge.fresh
      BY <1>0, <2>3 DEF ChallengeType
    <2>5. MemberType' /\ member'.here = member.here /\ member'.banned = member.banned
      <3>1. member' \in {member, Grouping!Restricted(challenge.perms)}
        BY <1>4 DEF Grouping!AnswerCaptcha
      <3> QED BY <1>0, <3>1, MemberMoves DEF Grouping!Restricted, MemberType
    <2>6. verified' = TRUE \/ UNCHANGED <<member, verified>>
      BY <1>4 DEF Grouping!AnswerCaptcha
    <2>7. SilentInv'
      BY <1>0, <2>0, <2>4, <2>5, <2>6 DEF SilentInv
    <2> QED BY <1>0, <1>a, <1>b, <2>0, <2>4, <2>5, <2>7 DEF GroupIInv
  <1>5. CASE Grouping!Seconds
    <2>1. MemberType' /\ ChallengeType'
      BY <1>0, <1>5 DEF Grouping!Seconds, MemberType, ChallengeType
    <2>2. SilentInv'
      BY <1>0, <1>5 DEF Grouping!Seconds, MemberType, ChallengeType, SilentInv
    <2> QED BY <1>0, <1>5, <1>a, <1>b, <2>1, <2>2 DEF Grouping!Seconds, Grouping!groupBounds, GroupIInv
  <1>6. CASE Grouping!ModerateMessage
    <2>0. UNCHANGED <<group, chat, raffle, arriving, challenge, verified>> /\ member.here /\ ~member.muted
      BY <1>6 DEF Grouping!ModerateMessage, Grouping!CanTalk, Grouping!groupBounds
    <2>1. member' \in {member, Grouping!Muted(member), Grouping!Banned("ever")}
      BY <1>6 DEF Grouping!ModerateMessage, Grouping!Sanction
    <2>2. MemberType'
      BY <1>0, <2>1, MemberMoves
    <2>3. member.banned = "no" /\ (verified \/ ~(challenge.fresh \/ arriving = 0))
      BY <1>0, <2>0 DEF SilentInv
    <2>4. SilentInv'
      <3>1. CASE member' = member
        BY <1>e, <2>0, <3>1
      <3>2. CASE member' = Grouping!Muted(member)
        <4>1. member'.here = member.here /\ member'.banned = member.banned
          BY <1>0, <3>2 DEF Grouping!Muted, MemberType
        <4> QED BY <2>0, <2>3, <4>1 DEF SilentInv
      <3>3. CASE member' = Grouping!Banned("ever")
        <4>1. ~member'.here /\ member'.banned = "ever"
          BY <3>3 DEF Grouping!Banned
        <4> QED BY <4>1 DEF SilentInv
      <3> QED BY <2>1, <3>1, <3>2, <3>3
    <2> QED BY <1>0, <1>a, <1>b, <1>c, <2>0, <2>2, <2>4 DEF GroupIInv
  <1>7. CASE Grouping!MemberCommand
    <2>1. PICK perms : member' \in {member, Grouping!Muted(member), Grouping!Restricted(perms), Grouping!Banned("ever"),
                                    [member EXCEPT !.banned = "no"]}
      BY <1>7 DEF Grouping!MemberCommand
    <2>2. MemberType'
      BY <1>0, <2>1, MemberMoves
    <2>3. verified' = TRUE
      BY <1>7 DEF Grouping!MemberCommand
    <2>4. member'.here => member'.banned = "no"
      <3>1. CASE member' \in {member, [member EXCEPT !.banned = "no"]}
        BY <1>0, <3>1 DEF SilentInv, MemberType
      <3>2. CASE member' \in {Grouping!Muted(member), Grouping!Restricted(perms)}
        <4>1. member'.here = member.here /\ member'.banned = member.banned
          BY <1>0, <3>2 DEF Grouping!Muted, Grouping!Restricted, MemberType
        <4> QED BY <1>0, <4>1 DEF SilentInv
      <3>3. CASE member' = Grouping!Banned("ever")
        BY <3>3 DEF Grouping!Banned
      <3> QED BY <2>1, <3>1, <3>2, <3>3
    <2>5. SilentInv'
      BY <2>3, <2>4 DEF SilentInv
    <2> QED BY <1>0, <1>7, <1>a, <1>b, <1>c, <2>2, <2>5 DEF Grouping!MemberCommand, GroupIInv
  <1>8. CASE Grouping!Lock \/ Grouping!Unlock
    <2>1. GroupType'
      BY <1>0, <1>8 DEF Grouping!Lock, Grouping!Unlock, Grouping!Normal, Permissions, GroupType
    <2> QED BY <1>0, <1>8, <1>a, <1>c, <1>d, <1>e, <2>1 DEF Grouping!Lock, Grouping!Unlock, GroupIInv
  <1>9. CASE Grouping!Raffle
    <2>1. RaffleInv'
      <3>1. CASE raffle' = [status |-> "active", joined |-> 0, announced |-> 0]
        BY <3>1 DEF RaffleType, RaffleInv
      <3>2. CASE raffle.status = "active" /\ raffle' = [raffle EXCEPT !.joined = 1]
        BY <1>0, <3>2 DEF RaffleType, RaffleInv
      <3>3. CASE raffle.status = "active" /\ raffle' = [raffle EXCEPT !.status = "drawn", !.announced = @ + 1]
        <4>1. raffle.announced + 1 = 1
          BY <1>0, <3>3 DEF RaffleInv
        <4>2. raffle' = [raffle EXCEPT !.status = "drawn", !.announced = 1]
          BY <3>3, <4>1
        <4>3. raffle'.status = "drawn" /\ raffle'.announced = 1
          BY <1>0, <4>2 DEF RaffleType, RaffleInv
        <4>4. RaffleType'
          BY <1>0, <4>2 DEF RaffleType, RaffleInv
        <4> QED BY <4>3, <4>4 DEF RaffleInv
      <3>4. CASE raffle.status = "active" /\ raffle' = [raffle EXCEPT !.status = "drawn"]
        BY <1>0, <3>4 DEF RaffleType, RaffleInv
      <3> QED BY <1>9, <3>1, <3>2, <3>3, <3>4 DEF Grouping!Raffle
    <2> QED BY <1>0, <1>9, <1>b, <1>c, <1>d, <1>e, <2>1 DEF Grouping!Raffle, GroupIInv
  <1>10. CASE Grouping!SaveGroup \/ Grouping!RemoveGroup
    <2>1. GroupType'
      <3>1. CASE Grouping!SaveGroup
        BY <1>0, <3>1 DEF Grouping!SaveGroup, GroupType
      <3>2. CASE Grouping!RemoveGroup
        BY <1>0, <3>2 DEF Grouping!RemoveGroup, Permissions, GroupType
      <3> QED BY <1>10, <3>1, <3>2
    <2> QED BY <1>0, <1>10, <1>a, <1>c, <1>d, <1>e, <2>1 DEF Grouping!SaveGroup, Grouping!RemoveGroup, GroupIInv
  <1>11. CASE Grouping!Nightfall
    BY <1>0, <1>11, <1>a, <1>b, <1>c, <1>d, <1>e DEF Grouping!Nightfall, GroupIInv
  <1>12. CASE Grouping!GroupTick
    <2>1. PICK n \in Grouping!NightOutcomes :
            /\ group' = n.group /\ chat' = n.chat
            /\ IF n.goes THEN Grouping!ChallengeTick(n.group) ELSE UNCHANGED <<member, verified, challenge>>
      BY <1>12 DEF Grouping!GroupTick
    <2>2. UNCHANGED <<raffle, arriving>>
      BY <1>12 DEF Grouping!GroupTick
    <2>3. GroupType'
      <3>1. Grouping!Normal(group) \in Permissions
        BY <1>0 DEF Grouping!Normal, Permissions, GroupType
      <3>2. /\ n.group \in {group, [group EXCEPT !.normal = chat], [[group EXCEPT !.normal = chat] EXCEPT !.night = TRUE],
                            [group EXCEPT !.night = FALSE]}
            /\ n.chat \in {chat, "locked", Grouping!Normal(group)}
        BY DEF Grouping!NightOutcomes
      <3>3. n.chat \in Permissions
        BY <1>0, <3>1, <3>2 DEF Permissions, GroupType
      <3>4. n.group \in [on : BOOLEAN, captcha : BOOLEAN, lock : BOOLEAN, night : BOOLEAN, normal : Permissions]
        BY <1>0, <3>2 DEF GroupType
      <3> QED BY <2>1, <3>3, <3>4 DEF GroupType
    <2>4. CASE UNCHANGED <<member, verified, challenge>>
      BY <1>0, <1>a, <1>c, <1>d, <1>e, <2>2, <2>3, <2>4 DEF GroupIInv
    <2>5. CASE member' = Grouping!Restricted(challenge.perms) /\ verified' = TRUE
               /\ challenge' = [challenge EXCEPT !.status = "passed"]
      <3>1. MemberType' /\ SilentInv'
        BY <1>0, <2>5 DEF Grouping!Restricted, MemberType, SilentInv
      <3>2. ChallengeType'
        BY <1>0, <2>5 DEF ChallengeType
      <3> QED BY <1>0, <1>a, <2>2, <2>3, <3>1, <3>2 DEF GroupIInv
    <2>6. CASE member' = Grouping!Banned("minute") /\ challenge' = [challenge EXCEPT !.status = "expired"]
      <3>1. MemberType' /\ SilentInv'
        BY <2>6 DEF Grouping!Banned, MemberType, SilentInv
      <3>2. ChallengeType'
        BY <1>0, <2>6 DEF ChallengeType
      <3> QED BY <1>0, <1>a, <2>2, <2>3, <3>1, <3>2 DEF GroupIInv
    <2> QED BY <2>1, <2>4, <2>5, <2>6 DEF Grouping!ChallengeTick
  <1> QED BY <1>1, <1>2, <1>3, <1>4, <1>5, <1>6, <1>7, <1>8, <1>9, <1>10, <1>11, <1>12 DEF Grouping!GroupNext
LEMMA GroupKeeps == ASSUME GroupIInv, UNCHANGED groupsState PROVE GroupIInv'
  BY DEF groupsState, GroupIInv, MemberType, ChallengeType, GroupType, SilentInv, RaffleInv, RaffleType

LEMMA GroupsAlone == [Next]_allVars => Grouping!GroupNext \/ UNCHANGED groupsState
  BY DEF Next, Rest, allVars

\* Once his join has been handled, a member who has not passed the challenge
\* stays muted, whatever the administrators, the night and evictions do to him,
\* and a raffle is decided once (onJoin, captchaCallback and the tick in
\* src/src/groups.js).
THEOREM TalkersVerified == Spec => []EveryTalkerVerified
  <1>1. Init => GroupIInv
    BY GroupInitially DEF Init
  <1>2. GroupIInv /\ [Next]_allVars => GroupIInv'
    BY GroupStep, GroupKeeps, GroupsAlone
  <1>3. GroupIInv => EveryTalkerVerified
    BY GroupPromise DEF EveryTalkerVerified
  <1> QED BY <1>1, <1>2, <1>3, PTL DEF Spec

-----------------------------------------------------------------------------
(* Service care                                                            *)

AccountRecord == [state : {"on", "off", "none"}, key : Nat]
RequestStatus == {"none", "pending", "review", "processing", "approved", "rejected"}
CareTypes ==
  /\ DOMAIN care = {"status", "at", "owner", "token", "key", "lock", "delivery", "held"}
  /\ care.at \in {1, 2} /\ care.key \in Nat
  /\ accounts \in [1..2 -> AccountRecord]
  /\ request \in [Caring!Kinds -> [status : RequestStatus, before : Nat]]
  /\ fetch.key \in Nat /\ known \in [{"buyer", "friend"} -> SUBSET Nat] /\ shown \in SUBSET Nat
  /\ links \in Nat

(* The second account works beside the first only while the move is        *)
(* undecided, and the first stops before the second takes over.            *)
AccountsInv ==
  /\ care.at = 2 => accounts[1].state # "on"
  /\ care.at = 1 /\ accounts[2].state # "none" => request["move"].status \in {"processing", "review"}

(* Every link there is was made; ...                                       *)
LinksInv ==
  /\ care.key <= links /\ fetch.key <= links
  /\ accounts[1].key <= links /\ accounts[2].key <= links
  /\ \A k \in known["buyer"] \cup shown : k <= links

(* ... the account a move has prepared has a link nobody was shown; ...    *)
PreparedInv ==
  care.at = 1 /\ accounts[2].state # "none" =>
    /\ accounts[2].key # 0
    /\ accounts[2].key \notin known["buyer"] \cup shown \cup {care.key, fetch.key, accounts[1].key}

(* ... and a link that changed since a transfer was decided is not one the *)
(* former owner was shown then.                                            *)
ChangedInv ==
  /\ request["transfer"].status = "review" =>
       accounts[care.at].key = request["transfer"].before \/ accounts[care.at].key \notin shown
  /\ care.owner = "friend" => accounts[care.at].key \notin shown

(* A service was paid back at most once, and works since only if it was    *)
(* put to work again.                                                      *)
PaidInv ==
  /\ credits \in {0, 1}
  /\ credits > 0 /\ accounts[care.at].state = "on" => reopened

CareIInv == CareTypes /\ AccountsInv /\ LinksInv /\ PreparedInv /\ ChangedInv /\ PaidInv

LEMMA CarePromise == CareIInv => Caring!CareIsSound
  <1>1. CareIInv => credits <= 1 /\ (credits > 0 /\ accounts[care.at].state = "on" => reopened)
    BY DEF CareIInv, PaidInv
  <1> QED BY <1>1 DEF CareIInv, CareTypes, AccountsInv, ChangedInv, AccountRecord, Caring!CareIsSound

(* Nothing is paid back, and the account in use works only if it did, or   *)
(* if that was noted.                                                      *)
LEMMA PaidKept ==
  ASSUME PaidInv, credits' = credits, reopened => reopened',
         accounts'[care'.at].state = "on" => accounts[care.at].state = "on" \/ credits = 0 \/ reopened'
  PROVE  PaidInv'
  BY DEF PaidInv

LEMMA CareInitially == ASSUME Caring!CareInit PROVE CareIInv
  <1>1. /\ DOMAIN care = {"status", "at", "owner", "token", "key", "lock", "delivery", "held"}
        /\ care.at = 1 /\ care.key = 1 /\ care.owner = "buyer" /\ fetch.key = 0 /\ links = 1
    BY DEF Caring!CareInit
  <1>2. accounts \in [1..2 -> AccountRecord] /\ accounts[1].key = 1 /\ accounts[2].key = 0 /\ accounts[2].state = "none"
    BY DEF Caring!CareInit, AccountRecord
  <1>3. request \in [Caring!Kinds -> [status : RequestStatus, before : Nat]] /\ request["transfer"].status = "none"
    BY DEF Caring!CareInit, Caring!Kinds, Caring!NoRequest, RequestStatus
  <1>4. known \in [{"buyer", "friend"} -> SUBSET Nat] /\ known["buyer"] = {} /\ shown = {} /\ credits = 0
    BY DEF Caring!CareInit
  <1> QED BY <1>1, <1>2, <1>3, <1>4 DEF CareIInv, CareTypes, AccountsInv, LinksInv, PreparedInv, ChangedInv, PaidInv

(* The service after the panel was asked: its link is an account's.        *)
LEMMA SynchronizedIs ==
  \A s, accs : DOMAIN s = {"status", "at", "owner", "token", "key", "lock", "delivery", "held"} =>
    /\ DOMAIN Caring!Synchronized(s, accs) = DOMAIN s
    /\ Caring!Synchronized(s, accs).at = s.at /\ Caring!Synchronized(s, accs).owner = s.owner
    /\ Caring!Synchronized(s, accs).key \in {s.key, accs[s.at].key}
  BY DEF Caring!Synchronized

(* A step at the account in use: its state or its link may change, the     *)
(* link to a new one; the service may take its word.                       *)
LEMMA AccountMoves ==
  ASSUME CareIInv, NEW a \in AccountRecord, accounts' = [accounts EXCEPT ![care.at] = a],
         a.key = accounts[care.at].key \/ (a.key = links + 1 /\ links' = links + 1),
         links' \in {links, links + 1},
         DOMAIN care' = DOMAIN care, care'.at = care.at, care'.owner = care.owner,
         care'.key \in {care.key, a.key},
         request' = request \/ (request["move"]' = request["move"] /\ request["transfer"]' = request["transfer"]
                                /\ request' \in [Caring!Kinds -> [status : RequestStatus, before : Nat]]),
         UNCHANGED <<fetch, known, shown>>, PaidInv'
  PROVE  CareIInv'
  <1>0. CareTypes /\ AccountsInv /\ LinksInv /\ PreparedInv /\ ChangedInv
    BY DEF CareIInv
  <1>1. /\ accounts'[care.at] = a /\ \A b \in 1..2 : b # care.at => accounts'[b] = accounts[b]
        /\ accounts' \in [1..2 -> AccountRecord] /\ care.at \in {1, 2}
        /\ accounts[1].key \in Nat /\ accounts[2].key \in Nat /\ a.key \in Nat
    BY <1>0 DEF CareTypes, AccountRecord
  <1>2. /\ CareTypes'
        /\ request["move"]' = request["move"] /\ request["transfer"]' = request["transfer"]
    BY <1>0, <1>1 DEF CareTypes
  <1>3. LinksInv'
    BY <1>0, <1>1 DEF CareTypes, LinksInv
  <1>4. CASE care.at = 1
    <2>1. accounts'[1] = a /\ accounts'[2] = accounts[2]
      BY <1>1, <1>4
    <2>2. AccountsInv'
      BY <1>0, <1>2, <1>4, <2>1 DEF AccountsInv
    <2>3. PreparedInv'
      BY <1>0, <1>1, <1>4, <2>1 DEF PreparedInv, LinksInv, CareTypes
    <2>4. ChangedInv'
      BY <1>0, <1>1, <1>2, <1>4, <2>1 DEF ChangedInv, LinksInv, CareTypes
    <2> QED BY <1>2, <1>3, <2>2, <2>3, <2>4 DEF CareIInv
  <1>5. CASE care.at = 2
    <2>1. accounts'[2] = a /\ accounts'[1] = accounts[1]
      BY <1>1, <1>5
    <2>2. AccountsInv' /\ PreparedInv'
      BY <1>0, <1>5, <2>1 DEF AccountsInv, PreparedInv
    <2>4. ChangedInv'
      BY <1>0, <1>1, <1>2, <1>5, <2>1 DEF ChangedInv, LinksInv, CareTypes
    <2> QED BY <1>2, <1>3, <2>2, <2>4 DEF CareIInv
  <1> QED BY <1>1, <1>4, <1>5

(* The steps that leave the accounts and the service as they are.          *)
LEMMA LinkShown ==
  ASSUME CareIInv, UNCHANGED <<care, accounts, request, shown, credits, reopened, links>>, fetch'.key \in {fetch.key, care.key, 0},
         NEW u \in {"buyer", "friend"}, NEW ks \in SUBSET {care.key, fetch.key},
         known' = [known EXCEPT ![u] = @ \cup ks]
  PROVE  CareIInv'
  <1>0. CareTypes /\ AccountsInv /\ LinksInv /\ PreparedInv /\ ChangedInv
    BY DEF CareIInv
  <1>1. /\ known' \in [{"buyer", "friend"} -> SUBSET Nat]
        /\ \A k \in known'["buyer"] : k \in known["buyer"] \/ k \in {care.key, fetch.key}
    BY <1>0 DEF CareTypes
  <1>2. CareTypes' /\ AccountsInv' /\ ChangedInv'
    BY <1>0, <1>1 DEF CareTypes, AccountsInv, ChangedInv
  <1>5. PaidInv'
    BY DEF CareIInv, PaidInv
  <1>3. LinksInv'
    BY <1>0, <1>1 DEF CareTypes, LinksInv
  <1>4. PreparedInv'
    BY <1>0, <1>1 DEF CareTypes, PreparedInv
  <1> QED BY <1>2, <1>3, <1>4, <1>5 DEF CareIInv

LEMMA CareKeeps == ASSUME CareIInv, UNCHANGED careState PROVE CareIInv'
  BY DEF careState, CareIInv, CareTypes, AccountsInv, LinksInv, PreparedInv, ChangedInv, PaidInv

LEMMA CareFacts ==
  ASSUME CareIInv
  PROVE  /\ accounts[care.at] \in AccountRecord
         /\ \A st \in {"on", "off", "none"} :
              /\ Caring!Set(care.at, st) = [accounts EXCEPT ![care.at] = [accounts[care.at] EXCEPT !.state = st]]
              /\ [accounts[care.at] EXCEPT !.state = st] \in AccountRecord
              /\ [accounts[care.at] EXCEPT !.state = st].key = accounts[care.at].key
         /\ Caring!Rotated(care.at) = [accounts EXCEPT ![care.at] = [accounts[care.at] EXCEPT !.key = links + 1]]
         /\ [accounts[care.at] EXCEPT !.key = links + 1] \in AccountRecord
         /\ [accounts[care.at] EXCEPT !.key = links + 1].key = links + 1
         /\ accounts = [accounts EXCEPT ![care.at] = accounts[care.at]]
  <1>1. /\ accounts \in [1..2 -> AccountRecord] /\ care.at \in 1..2 /\ links + 1 \in Nat /\ accounts[care.at] \in AccountRecord
    BY DEF CareIInv, CareTypes
  <1>2. [accounts[care.at] EXCEPT !.key = links + 1] \in AccountRecord
    <2>1. PICK n \in Nat : n = links + 1
      BY <1>1
    <2>2. [accounts[care.at] EXCEPT !.key = n] \in AccountRecord
      BY <1>1 DEF AccountRecord
    <2> QED BY <2>1, <2>2
  <1>3. [accounts[care.at] EXCEPT !.key = links + 1].key = links + 1
    BY <1>1 DEF AccountRecord
  <1>4. \A st \in {"on", "off", "none"} : [accounts[care.at] EXCEPT !.state = st] \in AccountRecord
    BY <1>1 DEF AccountRecord
  <1>5. \A st \in {"on", "off", "none"} : [accounts[care.at] EXCEPT !.state = st].key = accounts[care.at].key
    BY <1>1 DEF AccountRecord
  <1>6. accounts = [accounts EXCEPT ![care.at] = accounts[care.at]]
    BY <1>1
  <1> QED BY <1>1, <1>2, <1>3, <1>4, <1>5, <1>6 DEF Caring!Set, Caring!Rotated, Caring!NewKey

LEMMA CareStep == ASSUME CareIInv, Caring!CareNext PROVE CareIInv'
  <1>0. /\ CareTypes /\ AccountsInv /\ LinksInv /\ PreparedInv /\ ChangedInv /\ PaidInv
        /\ accounts[care.at] \in AccountRecord /\ care.at \in {1, 2}
    BY CareFacts DEF CareIInv, CareTypes
  <1>1. ASSUME NEW enabled \in BOOLEAN, Caring!Toggle(enabled) PROVE CareIInv'
    <2>1. PICK a \in AccountRecord : accounts' = [accounts EXCEPT ![care.at] = a] /\ a.key = accounts[care.at].key
      BY <1>0, <1>1, CareFacts DEF Caring!Toggle
    <2>2. care' = care \/ care' = Caring!Synchronized(care, accounts')
      BY <1>1 DEF Caring!Toggle
    <2>a. accounts'[care.at] = a
      BY <1>0, <2>1 DEF CareTypes
    <2>3. /\ DOMAIN care' = DOMAIN care /\ care'.at = care.at /\ care'.owner = care.owner
          /\ care'.key \in {care.key, a.key}
      BY <1>0, <2>a, <2>2, SynchronizedIs DEF CareTypes
    <2>4. UNCHANGED <<request, fetch, known, shown, credits, links>>
      BY <1>1 DEF Caring!Toggle
    <2>5. PaidInv'
      <3>1. PICK c \in Caring!Calls :
              /\ reopened' = (reopened \/ (enabled /\ c.took /\ credits > 0))
              /\ accounts' = IF c.took THEN Caring!Set(care.at, IF enabled THEN "on" ELSE "off") ELSE accounts
        BY <1>1 DEF Caring!Toggle
      <3>2. credits \in {0, 1}
        BY <1>0 DEF PaidInv
      <3>3. CASE ~c.took
        BY <1>0, <2>3, <2>4, <3>1, <3>3, PaidKept
      <3>4. CASE c.took
        <4>1. accounts'[care.at].state = IF enabled THEN "on" ELSE "off"
          BY <1>0, <3>1, <3>4 DEF Caring!Set, CareTypes, AccountRecord
        <4>a. credits > 0 \/ credits = 0
          BY <3>2
        <4>2. enabled => credits = 0 \/ reopened'
          BY <3>1, <3>4, <4>a, Zenon
        <4> QED BY <1>0, <2>3, <2>4, <3>1, <4>1, <4>2, PaidKept
      <3> QED BY <3>3, <3>4
    <2> QED BY <1>0, <2>1, <2>3, <2>4, <2>5, AccountMoves
  <1>2. ASSUME Caring!Revoke PROVE CareIInv'
    <2>0. links' = links + 1 /\ UNCHANGED <<request, fetch, known, shown, credits, reopened>>
      BY <1>2 DEF Caring!Revoke, Caring!Rotates, Caring!NewKey, Caring!refundVars
    <2>1. PICK a \in AccountRecord : /\ accounts' = [accounts EXCEPT ![care.at] = a]
                                     /\ a.key \in {accounts[care.at].key, links + 1} /\ a.state = accounts[care.at].state
      <3>1. [accounts[care.at] EXCEPT !.key = links + 1].state = accounts[care.at].state
        BY <1>0 DEF AccountRecord
      <3> QED BY <1>0, <1>2, <3>1, CareFacts DEF Caring!Revoke
    <2>2. care' = care \/ care' = Caring!Synchronized([care EXCEPT !.token = @ + 1], accounts')
      BY <1>2 DEF Caring!Revoke
    <2>3. /\ DOMAIN care' = DOMAIN care /\ care'.at = care.at /\ care'.owner = care.owner
          /\ care'.key \in {care.key, a.key}
      <3>1. PICK s : s = [care EXCEPT !.token = @ + 1]
        OBVIOUS
      <3>2. DOMAIN s = DOMAIN care /\ s.at = care.at /\ s.owner = care.owner /\ s.key = care.key
        BY <1>0, <3>1 DEF CareTypes
      <3>3. accounts'[care.at] = a
        BY <1>0, <2>1 DEF CareTypes
      <3>4. care' = care \/ care' = Caring!Synchronized(s, accounts')
        BY <2>2, <3>1
      <3>5. DOMAIN s = {"status", "at", "owner", "token", "key", "lock", "delivery", "held"}
        BY <1>0, <3>2 DEF CareTypes
      <3>6. CASE care' = care
        BY <3>6
      <3>7. CASE care' = Caring!Synchronized(s, accounts')
        BY <3>2, <3>3, <3>5, <3>7, SynchronizedIs
      <3> QED BY <3>4, <3>6, <3>7
    <2>4. PaidInv'
      <3>1. accounts'[care'.at].state = accounts[care.at].state
        BY <1>0, <2>1, <2>3 DEF CareTypes
      <3> QED BY <1>0, <2>0, <3>1, PaidKept
    <2> QED BY <1>0, <2>0, <2>1, <2>3, <2>4, AccountMoves
  <1>3. ASSUME Caring!Sync PROVE CareIInv'
    <2>1. /\ care' = Caring!Synchronized(care, accounts)
          /\ UNCHANGED <<accounts, request, fetch, known, shown, credits, reopened, links>>
      BY <1>3 DEF Caring!Sync, Caring!refundVars
    <2>2. /\ DOMAIN care' = DOMAIN care /\ care'.at = care.at /\ care'.owner = care.owner
          /\ care'.key \in {care.key, accounts[care.at].key}
      BY <1>0, <2>1, SynchronizedIs DEF CareTypes
    <2>3. accounts' = [accounts EXCEPT ![care.at] = accounts[care.at]]
      BY <2>1, CareFacts
    <2>4. PaidInv'
      BY <1>0, <2>1, <2>2, PaidKept
    <2> QED BY <1>0, <2>1, <2>2, <2>3, <2>4, AccountMoves
  <1>4. ASSUME NEW kind \in Caring!Kinds, Caring!Ask(kind) \/ Caring!Reject(kind) PROVE CareIInv'
    <2>1. UNCHANGED <<care, accounts, fetch, known, shown, credits, reopened, links>>
      BY <1>4 DEF Caring!Ask, Caring!Reject, Caring!careBounds, Caring!refundVars
    <2>2. /\ request' \in [Caring!Kinds -> [status : RequestStatus, before : Nat]]
          /\ request'[kind].status \in {"pending", "rejected"} /\ \A k \in Caring!Kinds \ {kind} : request'[k] = request[k]
          /\ request[kind].status \notin {"processing", "review"}
      BY <1>0, <1>4 DEF Caring!Ask, Caring!Reject, Caring!Final, CareTypes, RequestStatus
    <2>3. "move" \in Caring!Kinds /\ "transfer" \in Caring!Kinds
      BY DEF Caring!Kinds
    <2>4. AccountsInv'
      BY <1>0, <2>1, <2>2, <2>3 DEF AccountsInv
    <2>5. ChangedInv'
      BY <1>0, <2>1, <2>2, <2>3 DEF ChangedInv
    <2> QED BY <1>0, <2>1, <2>2, <2>4, <2>5 DEF CareIInv, CareTypes, LinksInv, PreparedInv, PaidInv
  <1>5. ASSUME Caring!Refund PROVE CareIInv'
    <2>a. Caring!OtherAmounts \subseteq Nat
      BY <1>0 DEF Caring!OtherAmounts, CareTypes, Caring!Kinds
    <2>b. PICK call \in Caring!CallsOf("refund", Caring!Account.state # "on"), other \in Caring!OtherAmounts :
            LET d == IF other = 1 /\ call.ends = "done" THEN [call EXCEPT !.ends = "failed"] ELSE call IN
            /\ Caring!Recovers("refund") \/ Caring!Account.state # "none" \/ d.ends = "failed"
            /\ accounts' = IF d.took /\ Caring!Account.state # "none" THEN Caring!Set(care.at, "off") ELSE accounts
            /\ request' = Caring!Marked("refund", d, other)
            /\ IF d.ends = "done"
               THEN /\ care' = [care EXCEPT !.status = "refunded", !.lock = "none"]
                    /\ credits' = Caring!Booked(credits)
               ELSE /\ care' = IF Caring!Recovers("refund") THEN care ELSE Caring!Locked("refund")
                    /\ credits' = credits /\ reopened' = reopened
      BY <1>5 DEF Caring!Refund, Caring!refundVars
    <2>d. PICK c : c = IF other = 1 /\ call.ends = "done" THEN [call EXCEPT !.ends = "failed"] ELSE call
      OBVIOUS
    <2>1. /\ Caring!Recovers("refund") \/ Caring!Account.state # "none" \/ c.ends = "failed"
          /\ accounts' = IF c.took /\ Caring!Account.state # "none" THEN Caring!Set(care.at, "off") ELSE accounts
          /\ request' = Caring!Marked("refund", c, other)
          /\ IF c.ends = "done"
             THEN /\ care' = [care EXCEPT !.status = "refunded", !.lock = "none"]
                  /\ credits' = Caring!Booked(credits)
             ELSE /\ care' = IF Caring!Recovers("refund") THEN care ELSE Caring!Locked("refund")
                  /\ credits' = credits /\ reopened' = reopened
      BY <2>b, <2>d
    <2>c. c.took = call.took /\ (c.ends = "done" => call.ends = "done")
      BY <2>d DEF Caring!CallsOf, Caring!Calls
    <2>2. PICK a \in AccountRecord : /\ accounts' = [accounts EXCEPT ![care.at] = a] /\ a.key = accounts[care.at].key
                                     /\ (c.took /\ accounts[care.at].state # "none" => a.state = "off")
                                     /\ (~(c.took /\ accounts[care.at].state # "none") => a.state = accounts[care.at].state)
      <3>1. CASE c.took /\ Caring!Account.state # "none"
        <4>1. [accounts[care.at] EXCEPT !.state = "off"].state = "off"
          BY <1>0 DEF AccountRecord
        <4> QED BY <2>1, <3>1, <4>1, CareFacts DEF Caring!Account
      <3>2. CASE ~(c.took /\ Caring!Account.state # "none")
        BY <2>1, <3>2, CareFacts DEF Caring!Account
      <3> QED BY <3>1, <3>2
    <2>3. DOMAIN care' = DOMAIN care /\ care'.at = care.at /\ care'.owner = care.owner /\ care'.key = care.key
      BY <1>0, <2>1 DEF CareTypes, Caring!Locked
    <2>4. /\ request["move"]' = request["move"] /\ request["transfer"]' = request["transfer"]
          /\ request' \in [Caring!Kinds -> [status : RequestStatus, before : Nat]]
      BY <1>0, <2>1, <2>a DEF Caring!Marked, CareTypes, Caring!Kinds, RequestStatus
    <2>5. PaidInv'
      <3>1. CASE c.ends # "done"
        <4>1. accounts'[care.at] = a
          BY <1>0, <2>2 DEF CareTypes
        <4>2. a.state = "on" => accounts[care.at].state = "on"
          BY <1>0, <2>1, <2>2 DEF AccountRecord, Caring!Account, Caring!CallsOf, Caring!Calls
        <4> QED BY <1>0, <2>1, <2>3, <3>1, <4>1, <4>2, PaidKept
      <3>2. CASE c.ends = "done"
        <4>1. accounts'[care.at].state # "on"
          <5>1. CASE Caring!Recovers("refund")
            <6>1. Caring!Account.state # "on" /\ ~c.took
              BY <2>c, <3>2, <5>1 DEF Caring!CallsOf
            <6> QED BY <1>0, <2>2, <6>1 DEF CareTypes, Caring!Account
          <5>2. CASE ~Caring!Recovers("refund")
            <6>1. c.took /\ Caring!Account.state # "none"
              BY <2>1, <2>c, <3>2, <5>2 DEF Caring!CallsOf, Caring!Calls
            <6> QED BY <1>0, <2>2, <6>1 DEF CareTypes, Caring!Account
          <5> QED BY <5>1, <5>2
        <4>2. credits' \in {0, 1}
          BY <1>0, <2>1, <3>2 DEF PaidInv, Caring!Booked
        <4> QED BY <2>3, <4>1, <4>2 DEF PaidInv
      <3> QED BY <3>1, <3>2
    <2>6. UNCHANGED <<fetch, known, shown, links>>
      BY <1>5 DEF Caring!Refund
    <2> QED BY <1>0, <2>2, <2>3, <2>4, <2>5, <2>6, AccountMoves
  <1>6. ASSUME Caring!Transfer PROVE CareIInv'
    <2> DEFINE resumed == Caring!Recovers("transfer")
    <2>0. request["transfer"].before \in Nat /\ accounts[care.at].key \in Nat /\ care.owner = "buyer"
      BY <1>0, <1>6 DEF CareTypes, AccountRecord, Caring!Kinds, Caring!Transfer, Caring!Decides
    <2>1. PICK noted \in Nat : noted = IF resumed THEN request["transfer"].before ELSE accounts[care.at].key
      BY <2>0
    <2>2. PICK c \in Caring!CallsOf("transfer", accounts[care.at].key # noted) :
            /\ IF resumed THEN links' = links ELSE links' = links + 1
            /\ accounts' = IF c.took THEN Caring!Rotated(care.at) ELSE accounts
            /\ request' = Caring!Marked("transfer", c, noted)
            /\ care' = IF c.ends = "done"
                       THEN [care EXCEPT !.owner = "friend", !.token = @ + 1, !.key = accounts'[care.at].key,
                                         !.lock = "none", !.delivery = "pending"]
                       ELSE IF resumed THEN care ELSE Caring!Locked("transfer")
      BY <1>6, <2>1 DEF Caring!Transfer, Caring!Account, Caring!Rotates, Caring!NewKey
    <2>3. /\ shown' = IF resumed THEN shown ELSE known["buyer"] \cup (IF fetch.by = "buyer" THEN {fetch.key} ELSE {})
          /\ UNCHANGED <<fetch, known, credits, reopened>>
      BY <1>6 DEF Caring!Transfer, Caring!refundVars
    <2>4. PICK a \in AccountRecord :
            /\ accounts' = [accounts EXCEPT ![care.at] = a] /\ accounts'[care.at] = a
            /\ a.state = accounts[care.at].state
            /\ a.key = IF c.took THEN links + 1 ELSE accounts[care.at].key
      <3>1. CASE c.took
        <4>1. [accounts[care.at] EXCEPT !.key = links + 1].state = accounts[care.at].state
          BY <1>0 DEF AccountRecord
        <4>2. PICK b \in AccountRecord : b = [accounts[care.at] EXCEPT !.key = links + 1] /\ b.key = links + 1
          BY CareFacts
        <4>3. accounts' = [accounts EXCEPT ![care.at] = b] /\ accounts'[care.at] = b
          BY <1>0, <2>2, <3>1, <4>2, CareFacts DEF CareTypes
        <4> QED BY <3>1, <4>1, <4>2, <4>3
      <3>2. CASE ~c.took
        <4>1. accounts' = [accounts EXCEPT ![care.at] = accounts[care.at]] /\ accounts'[care.at] = accounts[care.at]
          BY <2>2, <3>2, CareFacts
        <4> QED BY <1>0, <3>2, <4>1
      <3> QED BY <3>1, <3>2
    <2>5. /\ DOMAIN care' = DOMAIN care /\ care'.at = care.at
          /\ (c.ends = "done" => care'.key = a.key)
          /\ (c.ends # "done" => care'.key = care.key /\ care'.owner = care.owner)
      BY <1>0, <2>2, <2>4 DEF CareTypes, Caring!Locked
    <2>6. /\ request' \in [Caring!Kinds -> [status : RequestStatus, before : Nat]]
          /\ request'["move"] = request["move"] /\ request'["transfer"].before = noted
      BY <1>0, <2>1, <2>2 DEF Caring!Marked, CareTypes, Caring!Kinds, RequestStatus
    <2>7. /\ c.took => ~resumed /\ links' = links + 1
          /\ c.ends = "done" => c.took \/ (resumed /\ a.key # request["transfer"].before)
          /\ links' \in {links, links + 1}
      BY <2>1, <2>2, <2>4 DEF Caring!CallsOf, Caring!Calls
    <2>8. accounts' \in [1..2 -> AccountRecord] /\ a.key \in Nat /\ links' \in Nat
      BY <1>0, <2>4, <2>7 DEF CareTypes, AccountRecord
    <2>9. shown' = shown \/ (~resumed /\ shown' \subseteq known["buyer"] \cup {fetch.key})
      BY <2>3
    <2>10. shown' \subseteq Nat /\ \A k \in shown' : k <= links
      BY <1>0, <2>9 DEF CareTypes, LinksInv
    <2>11. care'.key \in {care.key, a.key} /\ care'.key \in Nat
      BY <1>0, <2>5, <2>8 DEF CareTypes
    <2>12. CareTypes'
      BY <1>0, <2>3, <2>5, <2>6, <2>8, <2>10, <2>11 DEF CareTypes
    <2>13. \A b \in {1, 2} : /\ accounts'[b].state = accounts[b].state
                            /\ accounts'[b].key = IF b = care.at THEN a.key ELSE accounts[b].key
      BY <1>0, <2>4 DEF CareTypes
    <2>14. AccountsInv'
      BY <1>0, <2>5, <2>6, <2>13 DEF AccountsInv
    <2>15. a.key <= links' /\ links <= links'
      <3>1. links \in Nat /\ accounts[care.at].key <= links /\ accounts[care.at].key \in Nat
        BY <1>0, <2>0 DEF LinksInv, CareTypes
      <3>2. CASE c.took
        BY <2>4, <2>7, <3>1, <3>2
      <3>3. CASE ~c.took
        BY <2>4, <2>7, <3>1, <3>3
      <3> QED BY <3>2, <3>3
    <2>16. LinksInv'
      BY <1>0, <2>3, <2>8, <2>10, <2>11, <2>13, <2>15 DEF LinksInv, CareTypes, AccountRecord
    <2>17. PreparedInv'
      BY <1>0, <2>3, <2>4, <2>5, <2>7, <2>9, <2>11, <2>13 DEF PreparedInv, LinksInv, CareTypes
    <2>18. c.ends = "done" => a.key \notin shown'
      <3>1. CASE c.took
        BY <1>0, <2>4, <2>10, <3>1 DEF CareTypes
      <3>2. CASE ~c.took
        BY <1>0, <2>3, <2>4, <2>7, <3>2 DEF ChangedInv, Caring!Recovers
      <3> QED BY <3>1, <3>2
    <2>19. request'["transfer"].status = "review" => c.ends = "failed"
      BY <1>0, <2>2 DEF Caring!Marked, CareTypes, Caring!Kinds
    <2>20. c.ends = "failed" => a.key = noted \/ a.key \notin shown'
      <3>1. CASE c.took
        BY <1>0, <2>4, <2>10, <3>1 DEF CareTypes
      <3>2. CASE ~c.took
        BY <1>0, <2>1, <2>3, <2>4, <2>7, <3>2 DEF ChangedInv, Caring!Recovers
      <3> QED BY <3>1, <3>2
    <2>21. ChangedInv'
      BY <2>0, <2>4, <2>5, <2>6, <2>18, <2>19, <2>20 DEF ChangedInv
    <2>22. PaidInv'
      BY <1>0, <2>3, <2>4, <2>5, PaidKept
    <2> QED BY <1>0, <2>3, <2>12, <2>14, <2>16, <2>17, <2>21, <2>22 DEF CareIInv
  <1>7. ASSUME Caring!Move PROVE CareIInv'
    <2> DEFINE resumed == Caring!Recovers("move")
    <2>1. /\ request["move"].status \in {"pending", "review"} /\ care.owner = "buyer" /\ care.at = 1
          /\ UNCHANGED <<fetch, known, shown, credits>>
      BY <1>7 DEF Caring!Move, Caring!Decides
    <2>2. PICK c \in Caring!Calls, created \in BOOLEAN :
            /\ c.took => created
            /\ resumed => created = (accounts[2].state # "none")
            /\ IF resumed THEN links' = links ELSE links' = links + 1
            /\ LET there == IF created /\ accounts[2].state = "none"
                            THEN [accounts EXCEPT ![2] = [state |-> "on", key |-> links + 1]] ELSE accounts
               IN accounts' = IF c.took THEN [there EXCEPT ![1].state = "off"] ELSE there
            /\ request' = Caring!Marked("move", c, 0)
            /\ care' = IF c.ends = "done"
                       THEN [care EXCEPT !.at = 2, !.status = "active", !.key = accounts'[2].key, !.token = @ + 1,
                                         !.lock = "none", !.delivery = "pending"]
                       ELSE Caring!Locked("move")
            /\ reopened' = (reopened \/ (c.ends = "done" /\ credits > 0))
      BY <1>7 DEF Caring!Move, Caring!Rotates, Caring!NewKey
    <2>3. PICK n \in Nat : n = links + 1
      BY <1>0 DEF CareTypes
    <2>4. PICK second \in AccountRecord :
            /\ accounts' = IF c.took THEN [[accounts EXCEPT ![2] = second] EXCEPT ![1].state = "off"]
                           ELSE [accounts EXCEPT ![2] = second]
            /\ IF created /\ accounts[2].state = "none" THEN second.state = "on" /\ second.key = n
               ELSE second = accounts[2]
      <3>1. CASE created /\ accounts[2].state = "none"
        <4>1. [state |-> "on", key |-> n] \in AccountRecord
          BY DEF AccountRecord
        <4> QED BY <2>2, <2>3, <3>1, <4>1
      <3>2. CASE ~(created /\ accounts[2].state = "none")
        <4>1. accounts = [accounts EXCEPT ![2] = accounts[2]] /\ accounts[2] \in AccountRecord
          BY <1>0 DEF CareTypes
        <4> QED BY <2>2, <3>2, <4>1
      <3> QED BY <3>1, <3>2
    <2>5. PICK first \in AccountRecord :
            /\ accounts' \in [1..2 -> AccountRecord] /\ accounts'[1] = first /\ accounts'[2] = second
            /\ first.key = accounts[1].key
            /\ IF c.took THEN first.state = "off" ELSE first.state = accounts[1].state
      <3>0. accounts \in [1..2 -> AccountRecord] /\ accounts[1] \in AccountRecord
        BY <1>0 DEF CareTypes
      <3> DEFINE there == [accounts EXCEPT ![2] = second]
      <3>a. there \in [1..2 -> AccountRecord] /\ there[1] = accounts[1] /\ there[2] = second
        BY <3>0
      <3>1. CASE c.took
        <4>1. PICK first \in AccountRecord : first = [accounts[1] EXCEPT !.state = "off"]
          BY <3>0 DEF AccountRecord
        <4>2. first.state = "off" /\ first.key = accounts[1].key
          BY <3>0, <4>1 DEF AccountRecord
        <4>3. accounts' = [there EXCEPT ![1] = first]
          <5>1. accounts' = [there EXCEPT ![1].state = "off"]
            BY <2>4, <3>1
          <5> HIDE DEF there
          <5> QED BY <3>a, <4>1, <5>1
        <4> HIDE DEF there
        <4> QED BY <3>a, <3>1, <4>2, <4>3
      <3>2. CASE ~c.took
        BY <2>4, <3>0, <3>a, <3>2
      <3> QED BY <3>1, <3>2
    <2>6. accounts' \in [1..2 -> AccountRecord] /\ accounts'[1] = first /\ accounts'[2] = second
      BY <2>5
    <2>7. /\ DOMAIN care' = DOMAIN care /\ care'.owner = "buyer"
          /\ (c.ends = "done" => c.took /\ care'.at = 2 /\ care'.key = second.key)
          /\ (c.ends # "done" => care'.at = 1 /\ care'.key = care.key)
      BY <1>0, <2>1, <2>2, <2>6 DEF CareTypes, Caring!Locked, Caring!Calls
    <2>8. /\ request' \in [Caring!Kinds -> [status : RequestStatus, before : Nat]]
          /\ request'["transfer"] = request["transfer"]
          /\ (c.ends # "done" => request'["move"].status \in {"processing", "review"})
      BY <1>0, <2>2 DEF Caring!Marked, Caring!Calls, CareTypes, Caring!Kinds, RequestStatus
    <2>9. first.key \in Nat /\ second.key \in Nat /\ links' \in Nat /\ links <= links' /\ links \in Nat
      BY <1>0, <2>2 DEF CareTypes, AccountRecord
    <2>10. CareTypes'
      BY <1>0, <2>1, <2>6, <2>7, <2>8, <2>9 DEF CareTypes
    <2>11. AccountsInv'
      BY <1>0, <2>1, <2>5, <2>6, <2>7, <2>8 DEF AccountsInv
    <2>12. second.key = n \/ (second = accounts[2] /\ (c.took => accounts[2].state # "none"))
      BY <2>2, <2>4
    <2>13. second.key = n => links' = n
      <3>1. CASE resumed /\ second.key = n
        <4>1. ~(created /\ accounts[2].state = "none")
          <5> HIDE DEF resumed
          <5>1. resumed => created = (accounts[2].state # "none")
            BY <2>2
          <5> QED BY <3>1, <5>1
        <4>2. accounts[2].key = n /\ accounts[2].key <= links /\ n = links + 1 /\ links \in Nat
          BY <1>0, <2>3, <2>4, <3>1, <4>1 DEF LinksInv, CareTypes
        <4> QED BY <4>2
      <3>2. CASE ~resumed
        BY <2>2, <2>3, <3>2
      <3> QED BY <3>1, <3>2
    <2>14. second.key <= links'
      BY <1>0, <2>9, <2>12, <2>13 DEF LinksInv
    <2>15. LinksInv'
      BY <1>0, <2>1, <2>5, <2>6, <2>7, <2>9, <2>14 DEF LinksInv, CareTypes
    <2>16. second.state # "none" =>
             /\ second.key # 0
             /\ second.key \notin known["buyer"] \cup shown \cup {care.key, fetch.key, accounts[1].key}
      BY <1>0, <2>1, <2>3, <2>9, <2>12 DEF PreparedInv, LinksInv, CareTypes
    <2>17. PreparedInv'
      BY <2>1, <2>5, <2>6, <2>7, <2>16 DEF PreparedInv
    <2>18. c.ends = "done" => second.state # "none"
      BY <2>2, <2>4, <2>7
    <2>19. ChangedInv'
      BY <1>0, <2>1, <2>5, <2>6, <2>7, <2>8, <2>16, <2>18 DEF ChangedInv
    <2>20. PaidInv'
      <3>0. credits \in {0, 1}
        BY <1>0 DEF PaidInv
      <3>a. credits > 0 \/ credits = 0
        BY <3>0
      <3>1. c.ends = "done" => credits = 0 \/ reopened'
        BY <2>2, <3>a, Zenon
      <3>2. c.ends # "done" /\ accounts'[care'.at].state = "on" => accounts[care.at].state = "on"
        BY <2>1, <2>5, <2>7
      <3> QED BY <1>0, <2>1, <2>2, <3>1, <3>2, PaidKept
    <2> QED BY <1>0, <2>1, <2>10, <2>11, <2>15, <2>17, <2>19, <2>20 DEF CareIInv
  <1>8. ASSUME Caring!ServiceTick PROVE CareIInv'
    <2>1. PICK c \in Caring!Calls, removes \in BOOLEAN, synced \in {care, Caring!Synchronized(care, accounts)} :
            /\ accounts' = IF removes /\ c.took THEN Caring!Set(care.at, "none") ELSE accounts
            /\ care' \in Caring!Delivered(care) \cup {care, synced, [synced EXCEPT !.status = "deleted"]}
      BY <1>8 DEF Caring!ServiceTick
    <2>2. PICK a \in AccountRecord : /\ accounts' = [accounts EXCEPT ![care.at] = a] /\ a.key = accounts[care.at].key
                                     /\ a.state \in {"none", accounts[care.at].state}
      <3>1. [accounts[care.at] EXCEPT !.state = "none"].state = "none"
        BY <1>0 DEF AccountRecord
      <3> QED BY <1>0, <2>1, <3>1, CareFacts
    <2>3. /\ DOMAIN synced = DOMAIN care /\ synced.at = care.at /\ synced.owner = care.owner
          /\ synced.key \in {care.key, a.key}
      <3>1. CASE synced = care
        BY <3>1
      <3>2. CASE synced = Caring!Synchronized(care, accounts)
        BY <1>0, <2>2, <3>2, SynchronizedIs DEF CareTypes
      <3> QED BY <3>1, <3>2
    <2>4. /\ DOMAIN care' = DOMAIN care /\ care'.at = care.at /\ care'.owner = care.owner
          /\ care'.key \in {care.key, a.key}
      <3>1. CASE care' \in Caring!Delivered(care)
        BY <1>0, <3>1 DEF Caring!Delivered, CareTypes
      <3>2. CASE care' \in {care, synced, [synced EXCEPT !.status = "deleted"]}
        BY <1>0, <2>3, <3>2 DEF CareTypes
      <3> QED BY <2>1, <3>1, <3>2
    <2>5. UNCHANGED <<request, fetch, known, shown, credits, reopened, links>>
      BY <1>8 DEF Caring!ServiceTick, Caring!refundVars
    <2>6. PaidInv'
      <3>1. accounts'[care'.at].state \in {"none", accounts[care.at].state}
        BY <1>0, <2>2, <2>4 DEF CareTypes
      <3> QED BY <1>0, <2>5, <3>1, PaidKept
    <2> QED BY <1>0, <2>2, <2>4, <2>5, <2>6, AccountMoves
  <1>9. ASSUME NEW u \in {"buyer", "friend"}, Caring!ViewService(u) \/ Caring!CombinedSubscription(u) \/ Caring!StartFetch(u)
        PROVE CareIInv'
    <2>1. UNCHANGED <<care, accounts, request, shown, credits, reopened, links>> /\ fetch'.key \in {fetch.key, care.key, 0}
      BY <1>9 DEF Caring!ViewService, Caring!CombinedSubscription, Caring!StartFetch, Caring!careBounds, Caring!refundVars
    <2>2. CASE Caring!StartFetch(u)
      <3>1. known' = [known EXCEPT ![u] = @ \cup {}]
        BY <1>0, <2>2 DEF Caring!StartFetch, CareTypes
      <3> QED BY <2>1, <3>1, LinkShown
    <2>3. CASE Caring!ViewService(u) \/ Caring!CombinedSubscription(u)
      <3>1. known' = [known EXCEPT ![u] = @ \cup {care.key}]
        BY <2>3 DEF Caring!ViewService, Caring!CombinedSubscription
      <3> QED BY <2>1, <3>1, LinkShown
    <2> QED BY <1>9, <2>2, <2>3
  <1>10. ASSUME Caring!EndFetch PROVE CareIInv'
    <2>1. UNCHANGED <<care, accounts, request, shown, credits, reopened, links>> /\ fetch'.key = 0
      BY <1>10 DEF Caring!EndFetch, Caring!careBounds, Caring!refundVars
    <2>2. CASE known' = known
      <3>1. known' = [known EXCEPT !["buyer"] = @ \cup {}]
        BY <1>0, <2>2 DEF CareTypes
      <3> QED BY <2>1, <3>1, LinkShown
    <2>3. CASE known' = [known EXCEPT ![fetch.by] = @ \cup {fetch.key}]
      <3>1. CASE fetch.by \in {"buyer", "friend"}
        BY <2>1, <2>3, <3>1, LinkShown
      <3>2. CASE fetch.by \notin {"buyer", "friend"}
        <4>1. known' = known
          BY <1>0, <2>3, <3>2 DEF CareTypes
        <4> QED BY <2>2, <4>1
      <3> QED BY <3>1, <3>2
    <2> QED BY <1>10, <2>2, <2>3 DEF Caring!EndFetch
  <1> QED BY <1>1, <1>2, <1>3, <1>4, <1>5, <1>6, <1>7, <1>8, <1>9, <1>10 DEF Caring!CareNext
LEMMA CareAlone == [Next]_allVars => Caring!CareNext \/ UNCHANGED careState
  BY DEF Next, Rest, allVars

\* Two accounts of one service work at once only while its move is undecided; a
\* service is paid back once, and works afterwards only if it was enabled or moved
\* again; and after a transfer nothing the former owner had been shown, or was
\* fetching, opens the account (simpleServiceAction and the decided requests in
\* src/src/services/engine.js).
THEOREM ServicesCared == Spec => []EveryServiceCared
  <1>1. Init => CareIInv
    BY CareInitially DEF Init
  <1>2. CareIInv /\ [Next]_allVars => CareIInv'
    BY CareStep, CareKeeps, CareAlone
  <1>3. CareIInv => EveryServiceCared
    BY CarePromise DEF EveryServiceCared
  <1> QED BY <1>1, <1>2, <1>3, PTL DEF Spec

-----------------------------------------------------------------------------
(* Connectors                                                              *)

AccountType == [exists : BOOLEAN, on : BOOLEAN, limit : Int, ends : Int, link : Nat, used : Nat, options : Nat]
Ways == {"marzban", "remnawave", "xui", "xui_token", "sui", "hiddify", "wgdashboard", "ibsng", "mikrotik"}

(* WGDashboard's requests, as they are left one after another.             *)
W1 == <<"setEnds">>
W2 == <<"dropEnds", "setEnds">>
W3 == <<"setLimit", "dropEnds", "setEnds">>
W4 == <<"dropLimit", "setLimit", "dropEnds", "setEnds">>
Peer == <<"peer", "dropLimit", "setLimit", "dropEnds", "setEnds">>
Read == <<"get", "dropLimit", "setLimit", "dropEnds", "setEnds">>

(* What may be left of an operation of each kind.                          *)
CreateLefts(d) ==
  CASE d = "wgdashboard" -> {Peer, W4, W3, W2, W1} [] d = "ibsng" -> {<<"user", "name">>, <<"name">>}
    [] d = "mikrotik" -> {<<"named", "profile">>, <<"profile">>} [] OTHER -> {<<"add">>}
UpdateLefts(d) ==
  CASE d = "wgdashboard" -> {Read, W4, W3, W2, W1} [] d \in Panel!WrittenBack -> {<<"get", "write">>, <<"write">>}
    [] OTHER -> {<<"get", "terms">>, <<"terms">>}
SimpleLefts(name) ==
  CASE name = "toggle" -> {<<"get", "flip">>, <<"flip">>, <<"get", "write">>, <<"write">>}
    [] name = "reset" -> {<<"get", "zero">>, <<"zero">>, <<"get", "write">>, <<"write">>}
    [] OTHER -> {<<"get", "link">>, <<"link">>, <<"get", "write">>, <<"write">>}
RemoveLefts == {<<"del">>, <<"get", "del">>, <<"flip", "del">>, <<"get", "flip", "del">>, <<"get", "get", "flip", "del">>}

LEMMA Joined ==
  /\ <<"peer">> \o W4 = Peer /\ <<"get">> \o W4 = Read
  /\ <<"named">> \o <<"profile">> = <<"named", "profile">> /\ <<"add">> \o <<>> = <<"add">>
  /\ <<"user", "name">> \o <<>> = <<"user", "name">>
  <1>0. ASSUME NEW S, NEW s \in Seq(S), NEW t \in Seq(S), NEW u \in Seq(S), Len(u) = Len(s) + Len(t),
               \A i \in 1..Len(u) : u[i] = IF i <= Len(s) THEN s[i] ELSE t[i - Len(s)]
        PROVE  s \o t = u
    <2>1. s \o t \in Seq(S) /\ Len(s \o t) = Len(u) /\ \A i \in 1..Len(u) : (s \o t)[i] = u[i]
      BY <1>0, ConcatProperties
    <2> QED BY <2>1, SeqEqual
  <1>a. \A a, b, c, d, e : <<a>> \o <<b, c, d, e>> = <<a, b, c, d, e>>
    <2>1. SUFFICES ASSUME NEW a, NEW b, NEW c, NEW d, NEW e PROVE <<a>> \o <<b, c, d, e>> = <<a, b, c, d, e>>
      OBVIOUS
    <2>2. PICK S : a \in S /\ b \in S /\ c \in S /\ d \in S /\ e \in S
      <3>1. \E S : S = {a, b, c, d, e}
        OBVIOUS
      <3> QED BY <3>1
    <2>3. <<a>> \in Seq(S) /\ <<b, c, d, e>> \in Seq(S) /\ <<a, b, c, d, e>> \in Seq(S)
      BY <2>2
    <2>4. Len(<<a>>) = 1 /\ Len(<<b, c, d, e>>) = 4 /\ Len(<<a, b, c, d, e>>) = 5
      OBVIOUS
    <2>5. \A i \in 1..5 : <<a, b, c, d, e>>[i] = IF i <= 1 THEN <<a>>[i] ELSE <<b, c, d, e>>[i - 1]
      OBVIOUS
    <2>6. \A i \in 1..Len(<<a, b, c, d, e>>) :
            <<a, b, c, d, e>>[i] = IF i <= Len(<<a>>) THEN <<a>>[i] ELSE <<b, c, d, e>>[i - Len(<<a>>)]
      BY <2>4, <2>5
    <2>7. Len(<<a, b, c, d, e>>) = Len(<<a>>) + Len(<<b, c, d, e>>)
      BY <2>4
    <2> QED BY ONLY <1>0, <2>3, <2>6, <2>7
  <1>1. <<"peer">> \o W4 = Peer
    BY <1>a DEF W4, Peer
  <1>2. <<"get">> \o W4 = Read
    BY <1>a DEF W4, Read
  <1>3. <<"named">> \o <<"profile">> = <<"named", "profile">>
    <2>1. ASSUME NEW S, NEW a \in S, NEW b \in S PROVE <<a>> \o <<b>> = <<a, b>>
      <3>1. <<a>> \in Seq(S) /\ <<b>> \in Seq(S) /\ <<a, b>> \in Seq(S)
        OBVIOUS
      <3>2. Len(<<a>>) = 1 /\ Len(<<b>>) = 1 /\ Len(<<a, b>>) = 2
        OBVIOUS
      <3>3. \A i \in 1..2 : <<a, b>>[i] = IF i <= 1 THEN <<a>>[i] ELSE <<b>>[i - 1]
        OBVIOUS
      <3>4. \A i \in 1..Len(<<a, b>>) : <<a, b>>[i] = IF i <= Len(<<a>>) THEN <<a>>[i] ELSE <<b>>[i - Len(<<a>>)]
        BY <3>2, <3>3
      <3>5. Len(<<a, b>>) = Len(<<a>>) + Len(<<b>>)
        BY <3>2
      <3> QED BY ONLY <1>0, <3>1, <3>4, <3>5
    <2>2. "named" \in {"named", "profile"} /\ "profile" \in {"named", "profile"}
      OBVIOUS
    <2> QED BY ONLY <2>1, <2>2
  <1>4. <<"add">> \o <<>> = <<"add">> 
    OBVIOUS
  <1>5. <<"user", "name">> \o <<>> = <<"user", "name">>
    OBVIOUS
  <1> QED BY <1>1, <1>2, <1>3, <1>4, <1>5

(* What an operation is asked to do, by the panel's way.                   *)
LEMMA Asked ==
  ASSUME NEW d \in Ways
  PROVE  /\ Panel!Requests(d, "create") = CASE d = "wgdashboard" -> Peer [] d = "ibsng" -> <<"user", "name">>
                                            [] d = "mikrotik" -> <<"named", "profile">> [] OTHER -> <<"add">>
         /\ Panel!Requests(d, "update") \in UpdateLefts(d) \cup {<<>>}
         /\ \A name \in {"toggle", "reset", "revoke"} : Panel!Requests(d, name) \in SimpleLefts(name) \cup {<<>>}
         /\ Panel!Requests(d, "remove") \in RemoveLefts
         /\ Panel!finishCreate[d] = CASE d = "wgdashboard" -> W4 [] d = "mikrotik" -> <<"profile">> [] OTHER -> <<>>
  <1> USE DEF Ways
  <1>0. Panel!PROVIDERS = Ways
    BY DEF Panel!PROVIDERS
  <1>1. Panel!finishCreate[d] = CASE d = "wgdashboard" -> W4 [] d = "mikrotik" -> <<"profile">> [] OTHER -> <<>>
    BY <1>0 DEF Panel!finishCreate, Panel!wgLimits, W4
  <1>2. Panel!create[d] = CASE d = "wgdashboard" -> <<"peer">> [] d = "ibsng" -> <<"user", "name">>
                            [] d = "mikrotik" -> <<"named">> [] OTHER -> <<"add">>
    BY <1>0 DEF Panel!create
  <1>3. Panel!Requests(d, "create") = CASE d = "wgdashboard" -> Peer [] d = "ibsng" -> <<"user", "name">>
                                        [] d = "mikrotik" -> <<"named", "profile">> [] OTHER -> <<"add">>
    BY <1>1, <1>2, Joined DEF Panel!Requests
  <1>4. Panel!Requests(d, "update") \in UpdateLefts(d) \cup {<<>>}
    <2>1. Panel!wgLimits = W4
      BY DEF Panel!wgLimits, W4
    <2> QED BY <1>0, <2>1, Joined DEF Panel!Requests, Panel!update, Panel!WrittenBack, UpdateLefts
  <1>5. Panel!Requests(d, "toggle") \in SimpleLefts("toggle") \cup {<<>>}
    BY <1>0 DEF Panel!Requests, Panel!toggle, Panel!WrittenBack, SimpleLefts
  <1>6. Panel!Requests(d, "reset") \in SimpleLefts("reset") \cup {<<>>}
    BY <1>0 DEF Panel!Requests, Panel!reset, Panel!WrittenBack, SimpleLefts
  <1>7. Panel!Requests(d, "revoke") \in SimpleLefts("revoke") \cup {<<>>}
    BY <1>0 DEF Panel!Requests, Panel!revoke, Panel!WrittenBack, SimpleLefts
  <1>8. Panel!Requests(d, "remove") \in RemoveLefts
    BY <1>0 DEF Panel!Requests, Panel!remove, RemoveLefts
  <1> QED BY <1>1, <1>3, <1>4, <1>5, <1>6, <1>7, <1>8

-----------------------------------------------------------------------------
(* What others do to an account is to use it.                              *)
Kept(d, a, b) ==
  a.exists = b.exists /\ a.on = b.on /\ a.link = b.link /\ (d # "xui_token" => a.options = b.options)
Alike(d, a, b) == Kept(d, a, b) /\ a.limit = b.limit /\ a.ends = b.ends
(* An end fits another that is at most a day off, or is within its days.   *)
Fits(d, latest, a, b) ==
  /\ a - b >= -3 /\ (a - b <= 3 \/ a <= latest)
  /\ d # "hiddify" => a = b
Latest == clock + op.days * 4
EndFits(ends) == Fits(dialect, Latest, ends, op.ends)

OperationTypes ==
  /\ dialect \in Ways /\ remote \in AccountType /\ before \in AccountType /\ op.seen \in AccountType
  /\ DOMAIN op = {"name", "left", "seen", "limit", "ends", "days", "result"}
  /\ op.name \in Panel!OpNames \cup {"none"} /\ op.result \in {"none", "done", "failed", "unsure"}
  /\ op.limit \in Int /\ op.ends \in Int /\ op.days \in Nat
  /\ users \in Nat /\ progress \in BOOLEAN /\ astray \in Nat /\ ops \in Nat
  /\ clock \in Nat
  /\ (op.left # <<>> => op.result = "none") /\ (op.left # <<>> \/ op.result \in {"done", "unsure"} => op.name # "none")
  /\ op.name = "create" => op.ends <= clock + op.days * 4

(* A user is created once for every answer of IBSng that was lost, and     *)
(* once more.                                                              *)
UsersInv ==
  /\ IF dialect = "ibsng" THEN users <= astray + (IF progress THEN 1 ELSE 0) ELSE users <= 1
  /\ progress => users >= 1
  /\ op.left = <<"user", "name">> => ~progress
  /\ op.left \in {Peer, <<"named", "profile">>, <<"add">>} => users = 0

(* How far an operation has come, by what is left of it.                   *)
CreateInv ==
  op.name = "create" /\ op.result \in {"none", "unsure"} =>
    /\ op.left \in CreateLefts(dialect) \cup {<<>>} /\ (op.result = "none" => op.left # <<>>)
    /\ remote.link = before.link
    /\ dialect = "wgdashboard" =>
         /\ remote.exists => remote.on /\ remote.options = 1
         /\ op.left \in {W4, W3, W2, W1} => remote.exists
         /\ op.left \in {W2, W1} => remote.limit = op.limit
    /\ dialect \notin {"wgdashboard", "ibsng", "mikrotik"} =>
         /\ op.left # <<>> => ~remote.exists
         /\ remote.exists => remote.on /\ remote.options = 1 /\ remote.limit = op.limit /\ EndFits(remote.ends)
UpdateInv ==
  op.name = "update" /\ op.result \in {"none", "unsure"} =>
    /\ op.left \in UpdateLefts(dialect) \cup {<<>>} /\ (op.result = "none" => op.left # <<>>)
    /\ Kept(dialect, remote, before)
    /\ op.left = <<"write">> => Kept(dialect, op.seen, before)
    /\ op.left \in {W2, W1} => remote.limit = op.limit
SimpleInv ==
  op.name \in {"toggle", "reset", "revoke"} /\ op.left # <<>> =>
    /\ op.left \in SimpleLefts(op.name)
    /\ Alike(dialect, remote, before)
    /\ op.left \in {<<"flip">>, <<"write">>} => Alike(dialect, op.seen, before)
RemoveInv == op.name = "remove" /\ op.left # <<>> => op.left \in RemoveLefts

(* A confirmed operation.                                                  *)
DoneInv ==
  op.result = "done" =>
    LET wanted == Panel!Meant(before) IN
    /\ op.left = <<>> /\ Kept(dialect, remote, wanted) /\ remote.limit = wanted.limit
    /\ Fits(dialect, Latest, remote.ends, wanted.ends)

ConnectorIInv ==
  /\ OperationTypes /\ UsersInv /\ CreateInv /\ UpdateInv /\ SimpleInv /\ RemoveInv /\ DoneInv

LEMMA MeantTyped ==
  ASSUME OperationTypes, NEW a \in AccountType
  PROVE  /\ Panel!Meant(a) \in AccountType
         /\ \A b \in AccountType : Alike(dialect, a, b) => 
               /\ Kept(dialect, Panel!Meant(a), Panel!Meant(b)) /\ Panel!Meant(a).limit = Panel!Meant(b).limit
               /\ Panel!Meant(a).ends = Panel!Meant(b).ends
  <1>1. op.limit \in Int /\ op.ends \in Int
    BY DEF OperationTypes
  <1>2. PICK off \in BOOLEAN : off = ~a.on
    OBVIOUS
  <1>3. Panel!Meant(a) \in AccountType
    <2>1. CASE op.name = "toggle"
      <3>1. Panel!Meant(a) = [a EXCEPT !.on = off]
        BY <1>2, <2>1 DEF Panel!Meant
      <3> QED BY <3>1 DEF AccountType
    <2>2. CASE op.name = "remove"
      BY <2>2 DEF Panel!Meant, AccountType, Panel!NoAccount, Panel!None
    <2>3. CASE op.name \in {"update", "reset", "revoke"}
      BY <1>1, <2>3 DEF Panel!Meant, AccountType
    <2>4. CASE op.name \notin {"update", "reset", "revoke", "remove", "toggle"}
      <3>1. PICK m \in Int, e \in Int, one \in Nat : m = op.limit /\ e = op.ends /\ one = 1
        BY <1>1
      <3>2. Panel!Meant(a) = [a EXCEPT !.exists = TRUE, !.on = TRUE, !.limit = m, !.ends = e, !.options = one]
        BY <2>4, <3>1 DEF Panel!Meant
      <3> QED BY <3>2 DEF AccountType
    <2> QED BY <2>1, <2>2, <2>3, <2>4
  <1>4. ASSUME NEW b \in AccountType, Alike(dialect, a, b)
        PROVE  /\ Kept(dialect, Panel!Meant(a), Panel!Meant(b)) /\ Panel!Meant(a).limit = Panel!Meant(b).limit
               /\ Panel!Meant(a).ends = Panel!Meant(b).ends
    BY <1>4 DEF Panel!Meant, AccountType, Alike, Kept, Panel!NoAccount
  <1> QED BY <1>3, <1>4

LEMMA ConnectorPromise == ASSUME ConnectorIInv PROVE Panel!OperationsMeanWhatTheySay
  <1>0. OperationTypes /\ UsersInv /\ DoneInv
    BY DEF ConnectorIInv
  <1>1. users <= 1 + astray
    BY <1>0 DEF UsersInv, OperationTypes
  <1>2. ASSUME op.result = "done"
        PROVE  LET wanted == Panel!Meant(before) IN
                 /\ [remote EXCEPT !.ends = 0, !.used = 0, !.options = 0]
                      = [wanted EXCEPT !.ends = 0, !.used = 0, !.options = 0]
                 /\ dialect # "xui_token" => remote.options = wanted.options
                 /\ remote.ends - wanted.ends >= 1 - 4
                 /\ remote.ends - wanted.ends <= 4 - 1 \/ remote.ends <= clock + op.days * 4
                 /\ dialect # "hiddify" => remote.ends = wanted.ends
    <2>1. PICK wanted \in AccountType : wanted = Panel!Meant(before)
      BY <1>0, MeantTyped DEF OperationTypes
    <2>2. remote \in AccountType /\ Kept(dialect, remote, wanted) /\ remote.limit = wanted.limit
      BY <1>0, <1>2, <2>1 DEF DoneInv, OperationTypes
    <2>3. [remote EXCEPT !.ends = 0, !.used = 0, !.options = 0] = [wanted EXCEPT !.ends = 0, !.used = 0, !.options = 0]
      BY <2>2 DEF AccountType, Kept
    <2>4. Fits(dialect, Latest, remote.ends, wanted.ends)
      BY <1>0, <1>2, <2>1 DEF DoneInv
    <2> QED BY <2>1, <2>2, <2>3, <2>4 DEF Fits, Kept, Latest
  <1> QED BY <1>0, <1>1, <1>2 DEF Panel!OperationsMeanWhatTheySay, Panel!Day

LEMMA ConnectorInitially == ASSUME Panel!ConnectorInit PROVE ConnectorIInv
  <1>1. Panel!NoAccount \in AccountType
    BY DEF AccountType, Panel!NoAccount, Panel!None
  <1>a. /\ op.seen \in AccountType /\ op.name = "none" /\ op.result = "none" /\ op.limit = -1 /\ op.ends = -1 /\ op.days = 0 /\ op.left = <<>>
        /\ DOMAIN op = {"name", "left", "seen", "limit", "ends", "days", "result"}
    BY <1>1 DEF Panel!Idle, Panel!None, Panel!ConnectorInit
  <1>b. dialect \in Ways /\ clock \in Nat
    BY DEF Panel!PROVIDERS, Ways, Panel!Day, Panel!ConnectorInit
  <1>2. OperationTypes
    <2>1. remote \in AccountType /\ before \in AccountType /\ users = 0 /\ progress = FALSE /\ astray = 0 /\ ops = 0
      BY <1>1 DEF Panel!ConnectorInit
    <2>2. op.limit \in Int /\ op.ends \in Int /\ op.days \in Nat /\ op.name \in Panel!OpNames \cup {"none"}
      BY <1>a
    <2> QED BY <1>a, <1>b, <2>1, <2>2 DEF OperationTypes
  <1>3. UsersInv
    BY <1>a DEF UsersInv, Panel!ConnectorInit, Peer
  <1> QED BY <1>a, <1>2, <1>3 DEF ConnectorIInv, CreateInv, UpdateInv, SimpleInv, RemoveInv, DoneInv, Panel!ConnectorInit

(* The head of what is left, and what is left after it.                    *)
First(left, r, rest) == left # <<>> /\ Head(left) = r /\ Tail(left) = rest

LEMMA Heads ==
  /\ First(Peer, "peer", W4) /\ First(Read, "get", W4) /\ First(W4, "dropLimit", W3) /\ First(W3, "setLimit", W2)
  /\ First(W2, "dropEnds", W1) /\ First(W1, "setEnds", <<>>)
  /\ First(<<"user", "name">>, "user", <<"name">>) /\ First(<<"named", "profile">>, "named", <<"profile">>)
  /\ First(<<"get", "get", "flip", "del">>, "get", <<"get", "flip", "del">>)
  /\ First(<<"get", "flip", "del">>, "get", <<"flip", "del">>)
  /\ First(<<"flip", "del">>, "flip", <<"del">>)
  /\ \A r : First(<<r>>, r, <<>>) /\ First(<<"get", r>>, "get", <<r>>)
  <1>0. <<>> = <<>> /\ Len(<<>>) = 0
    OBVIOUS
  <1>1. First(Peer, "peer", W4) /\ First(Read, "get", W4)
    BY DEF First, Peer, Read, W4
  <1>2. First(W4, "dropLimit", W3)
    BY DEF First, W4, W3
  <1>3. First(W3, "setLimit", W2)
    BY DEF First, W3, W2
  <1>4. First(W2, "dropEnds", W1) /\ First(W1, "setEnds", <<>>)
    BY DEF First, W1, W2
  <1>5. First(<<"user", "name">>, "user", <<"name">>) /\ First(<<"named", "profile">>, "named", <<"profile">>)
    BY DEF First
  <1>6. First(<<"get", "get", "flip", "del">>, "get", <<"get", "flip", "del">>)
    BY DEF First
  <1>7. First(<<"get", "flip", "del">>, "get", <<"flip", "del">>) /\ First(<<"flip", "del">>, "flip", <<"del">>)
    BY DEF First
  <1>8. \A r : First(<<r>>, r, <<>>) /\ First(<<"get", r>>, "get", <<r>>)
    BY DEF First
  <1> QED BY <1>1, <1>2, <1>3, <1>4, <1>5, <1>6, <1>7, <1>8

(* Days counted from the start of today end at most a day off.             *)
LEMMA CountedFits ==
  ASSUME OperationTypes
  PROVE  /\ Panel!Counted(Panel!DaysLeft) \in Int /\ EndFits(Panel!Counted(Panel!DaysLeft))
         /\ Panel!Counted(op.days) \in Int
         /\ op.name = "create" => EndFits(Panel!Counted(op.days))
  <1>0. op.ends \in Int /\ op.days \in Nat /\ clock \in Nat /\ (op.name = "create" => op.ends <= clock + op.days * 4)
    BY DEF OperationTypes
  <1>1. CASE dialect # "hiddify"
    <2>1. \A n : Panel!Counted(n) = op.ends
      BY <1>1 DEF Panel!Counted
    <2>2. EndFits(op.ends)
      BY <1>0 DEF EndFits, Fits
    <2> QED BY <1>0, <2>1, <2>2
  <1>2. CASE dialect = "hiddify"
    <2>1. PICK q \in Int : q = clock \div 4 /\ 4 * q <= clock /\ clock <= 4 * q + 3
      BY <1>0
    <2>2. \A n : Panel!Counted(n) = q * 4 + n * 4
      BY <1>2, <2>1 DEF Panel!Counted, Panel!Day
    <2>3. Panel!Counted(op.days) \in Int /\ (op.name = "create" => EndFits(Panel!Counted(op.days)))
      BY <1>0, <1>2, <2>1, <2>2 DEF EndFits, Fits, Latest
    <2>4. CASE op.ends > clock
      <3>1. PICK d \in Int : d = (op.ends - clock + 4 - 1) \div 4 /\ 4 * d <= op.ends - clock + 3
                             /\ op.ends - clock + 3 <= 4 * d + 3
        BY <1>0
      <3>2. Panel!Counted(Panel!DaysLeft) = q * 4 + d * 4
        BY <2>2, <2>4, <3>1 DEF Panel!DaysLeft, Panel!Day
      <3>3. EndFits(q * 4 + d * 4)
        BY <1>0, <1>2, <2>1, <2>4, <3>1 DEF EndFits, Fits, Latest
      <3> QED BY <2>3, <3>2, <3>3
    <2>5. CASE ~(op.ends > clock)
      <3>1. Panel!Counted(Panel!DaysLeft) = q * 4 + 0 * 4
        BY <2>2, <2>5 DEF Panel!DaysLeft
      <3>2. EndFits(q * 4 + 0 * 4)
        BY <1>0, <1>2, <2>1, <2>5 DEF EndFits, Fits, Latest
      <3> QED BY <2>3, <3>1, <3>2
    <2> QED BY <2>4, <2>5
  <1> QED BY <1>1, <1>2

(* What each request does to the account.                                  *)
LEMMA EffectIs ==
  ASSUME OperationTypes, NEW r
  PROVE  LET after == Panel!Effect(r) IN
         /\ r = "flip" \/ r \in {"add", "terms"} \/ after \in AccountType
         /\ r \in {"get", "user"} => after = remote
         /\ r \in {"peer", "named"} => after.exists /\ after.on /\ after.link = remote.link /\ after.options = 1
         /\ r \in {"dropLimit", "setLimit", "dropEnds", "setEnds"} => Kept(dialect, after, remote)
         /\ r = "setLimit" => after.limit = op.limit
         /\ r \in {"dropEnds", "setEnds"} => after.limit = remote.limit
         /\ r = "setEnds" => after.ends = op.ends
         /\ r \in {"zero", "link", "del", "name", "profile"} => after = Panel!Meant(remote)
         /\ r = "write" => after = Panel!Meant(op.seen)
  <1>0. /\ Panel!Meant(remote) \in AccountType /\ Panel!Meant(op.seen) \in AccountType /\ remote \in AccountType
        /\ op.limit \in Int /\ op.ends \in Int
    BY MeantTyped DEF OperationTypes
  <1>1. CASE r \in {"peer", "named"}
    <2>0. PICK one \in Nat : one = 1
      OBVIOUS
    <2>1. Panel!Effect(r) = [remote EXCEPT !.exists = TRUE, !.on = TRUE, !.options = one]
      BY <1>1, <2>0 DEF Panel!Effect
    <2> QED BY <1>0, <1>1, <2>0, <2>1 DEF AccountType
  <1>2. CASE r \in {"dropLimit", "setLimit"}
    <2>1. PICK n \in Int : Panel!Effect(r) = [remote EXCEPT !.limit = n] /\ (r = "setLimit" => n = op.limit)
      <3>1. -1 \in Int
        OBVIOUS
      <3>2. CASE r = "dropLimit"
        BY <3>1, <3>2 DEF Panel!Effect, Panel!None
      <3>3. CASE r = "setLimit"
        BY <1>0, <3>3 DEF Panel!Effect
      <3> QED BY <1>2, <3>2, <3>3
    <2> QED BY <1>0, <1>2, <2>1 DEF AccountType, Kept
  <1>3. CASE r \in {"dropEnds", "setEnds"}
    <2>1. PICK n \in Int : Panel!Effect(r) = [remote EXCEPT !.ends = n] /\ (r = "setEnds" => n = op.ends)
      BY <1>0, <1>3 DEF Panel!Effect, Panel!None
    <2> QED BY <1>0, <1>3, <2>1 DEF AccountType, Kept
  <1>4. CASE r \in {"zero", "link", "del", "name", "profile"}
    BY <1>0, <1>4 DEF Panel!Effect
  <1>5. CASE r = "write"
    BY <1>0, <1>5 DEF Panel!Effect
  <1>6. CASE r \in {"get", "user"}
    BY <1>0, <1>6 DEF Panel!Effect
  <1>7. CASE r \notin {"peer", "named", "dropLimit", "setLimit", "dropEnds", "setEnds", "zero", "link", "del", "name",
                       "profile", "write", "get", "user", "flip", "add", "terms"}
    BY <1>0, <1>7 DEF Panel!Effect
  <1>8. CASE r \in {"flip", "add", "terms"}
    BY <1>8
  <1> QED BY <1>1, <1>2, <1>3, <1>4, <1>5, <1>6, <1>7, <1>8

LEMMA FlipIs ==
  ASSUME OperationTypes
  PROVE  LET after == Panel!Effect("flip") IN
         /\ after \in AccountType
         /\ after.exists = remote.exists /\ after.link = remote.link /\ after.limit = remote.limit /\ after.ends = remote.ends
         /\ after.options = remote.options
         /\ op.name = "toggle" => after.on = ~op.seen.on
  <1>1. remote \in AccountType /\ op.seen.on \in BOOLEAN
    BY DEF OperationTypes, AccountType
  <1>2. PICK on \in BOOLEAN : on = IF op.name = "remove" THEN TRUE ELSE ~op.seen.on
    BY <1>1
  <1>3. Panel!Effect("flip") = [remote EXCEPT !.on = on]
    BY <1>2 DEF Panel!Effect
  <1> QED BY <1>1, <1>2, <1>3 DEF AccountType

LEMMA TermsAre ==
  ASSUME OperationTypes, NEW r \in {"add", "terms"}, op.name = "create" \/ (op.name = "update" /\ r = "terms")
  PROVE  LET after == Panel!Effect(r)
             meant == Panel!Meant(remote) IN
         /\ after \in AccountType /\ Kept(dialect, after, meant) /\ after.options = meant.options
         /\ after.limit = op.limit /\ EndFits(after.ends)
  <1>1. Panel!Meant(remote) \in AccountType /\ op.limit \in Int
    BY MeantTyped DEF OperationTypes
  <1>2. PICK e \in Int : e = Panel!Counted(IF r = "add" THEN op.days ELSE Panel!DaysLeft) /\ EndFits(e)
    BY CountedFits
  <1>3. Panel!Effect(r) = [Panel!Meant(remote) EXCEPT !.ends = e]
    BY <1>2 DEF Panel!Effect
  <1>4. Panel!Meant(remote).limit = op.limit
    BY DEF Panel!Meant, OperationTypes, AccountType
  <1> QED BY <1>1, <1>2, <1>3, <1>4 DEF AccountType, Kept

(* The same names, whether or not a step was taken.                        *)
LEMMA MeantOf ==
  ASSUME NEW a \in AccountType
  PROVE  /\ op.name = "create" => Panel!Meant(a).exists /\ Panel!Meant(a).on /\ Panel!Meant(a).link = a.link
                                  /\ Panel!Meant(a).options = 1
         /\ op.name = "update" => Kept(dialect, Panel!Meant(a), a)
         /\ op.name \in {"create", "update"} => Panel!Meant(a).limit = op.limit /\ Panel!Meant(a).ends = op.ends
         /\ op.name = "toggle" => /\ Panel!Meant(a).exists = a.exists /\ Panel!Meant(a).link = a.link
                                  /\ Panel!Meant(a).limit = a.limit /\ Panel!Meant(a).ends = a.ends /\ Panel!Meant(a).on = ~a.on
                                  /\ Panel!Meant(a).options = a.options
         /\ op.name = "remove" => Panel!Meant(a) = Panel!NoAccount
  BY DEF Panel!Meant, AccountType, Kept

(* An operation begins where the last one ended.                           *)
LEMMA ConnectorBegins ==
  ASSUME ConnectorIInv, NEW name \in Panel!OpNames, Panel!Begin(name)
  PROVE  ConnectorIInv'
  <1>0. OperationTypes /\ UsersInv
    BY DEF ConnectorIInv
  <1>1. PICK days \in 1..2 :
          op' = [name |-> name, left |-> Panel!Requests(dialect, name), seen |-> remote, result |-> "none",
                 limit |-> ops + 1, days |-> days,
                 ends |-> (IF name = "update" /\ remote.ends > clock THEN remote.ends ELSE clock) + days * 4]
    BY DEF Panel!Begin, Panel!Day
  <1>2. /\ Panel!Requests(dialect, name) # <<>> /\ (name = "create" => users = 0 /\ ~remote.exists)
        /\ before' = remote /\ ops' = ops + 1
        /\ UNCHANGED <<dialect, remote, users, progress, clock, losses, astray>>
    BY DEF Panel!Begin, Panel!Supported
  <1>3. /\ op'.name = name /\ op'.left = Panel!Requests(dialect, name) /\ op'.seen = remote /\ op'.result = "none"
        /\ DOMAIN op' = {"name", "left", "seen", "limit", "ends", "days", "result"}
    BY <1>1
  <1>4. op'.limit \in Int /\ op'.ends \in Int /\ op'.days \in Nat /\ (name = "create" => op'.ends <= clock + op'.days * 4)
    <2>1. ops \in Nat /\ clock \in Nat /\ remote.ends \in Int
      BY <1>0 DEF OperationTypes, AccountType
    <2>2. CASE name = "update" /\ remote.ends > clock
      BY <1>1, <2>1, <2>2
    <2>3. CASE ~(name = "update" /\ remote.ends > clock)
      BY <1>1, <2>1, <2>3
    <2> QED BY <2>2, <2>3
  <1>5. OperationTypes'
    BY <1>0, <1>2, <1>3, <1>4 DEF OperationTypes, Panel!OpNames
  <1>6. dialect \in Ways /\ dialect' = dialect
    BY <1>0, <1>2 DEF OperationTypes
  <1>7. name \in {"create", "update", "toggle", "remove", "reset", "revoke"}
    BY DEF Panel!OpNames
  <1>8. UsersInv'
    <2>1. CASE name = "create"
      BY <1>0, <1>2, <1>3, <2>1 DEF UsersInv, OperationTypes
    <2>2. CASE name # "create"
      <3>1. op'.left \notin {Peer, <<"user", "name">>, <<"named", "profile">>, <<"add">>}
        <4>1. \A left \in UpdateLefts(dialect) \cup RemoveLefts : Head(left) \notin {"peer", "user", "named", "add"}
          BY Heads DEF UpdateLefts, RemoveLefts, First
        <4>2. \A kind : \A left \in SimpleLefts(kind) : Head(left) \notin {"peer", "user", "named", "add"}
          BY Heads DEF SimpleLefts, First
        <4>3. \A left \in {Peer, <<"user", "name">>, <<"named", "profile">>, <<"add">>} :
                Head(left) \in {"peer", "user", "named", "add"}
          BY Heads DEF First
        <4>4. CASE name \in {"update", "remove"}
          BY <1>2, <1>3, <1>6, <4>1, <4>3, <4>4, Asked
        <4>5. CASE name \in {"toggle", "reset", "revoke"}
          BY <1>2, <1>3, <1>6, <4>2, <4>3, <4>5, Asked
        <4> QED BY <1>7, <2>2, <4>4, <4>5
      <3> QED BY <1>0, <1>2, <3>1 DEF UsersInv
    <2> QED BY <2>1, <2>2
  <1>9. CreateInv'
    <2>1. CASE name = "create"
      <3>1. op'.left \in CreateLefts(dialect) /\ (dialect = "wgdashboard" => op'.left = Peer)
        BY <1>3, <1>6, <2>1, Asked DEF CreateLefts
      <3>2. Peer \notin {W4, W3, W2, W1}
        BY Heads DEF First
      <3> QED BY <1>2, <1>3, <1>6, <2>1, <3>1, <3>2 DEF CreateInv
    <2> QED BY <1>3, <2>1 DEF CreateInv
  <1>10. UpdateInv'
    <2>1. CASE name = "update"
      <3>1. op'.left \in UpdateLefts(dialect)
        BY <1>2, <1>3, <1>6, <2>1, Asked
      <3>2. op'.left \notin {W2, W1}
        <4>1. CASE dialect = "wgdashboard"
          <5>1. op'.left = Read
            BY <1>3, <2>1, <4>1, Joined DEF Panel!Requests, Panel!update, Panel!PROVIDERS, Panel!wgLimits, W4
          <5> QED BY <5>1, Heads DEF First
        <4>2. CASE dialect # "wgdashboard"
          BY <3>1, <4>2, Heads DEF First, UpdateLefts
        <4> QED BY <4>1, <4>2
      <3> QED BY <1>2, <1>3, <1>6, <3>1, <3>2 DEF UpdateInv, Kept
    <2> QED BY <1>3, <2>1 DEF UpdateInv
  <1>11. SimpleInv'
    BY <1>2, <1>3, <1>6, Asked DEF SimpleInv, Alike, Kept
  <1>12. RemoveInv' /\ DoneInv'
    BY <1>0, <1>2, <1>3, <1>6, Asked DEF RemoveInv, DoneInv
  <1> QED BY <1>5, <1>8, <1>9, <1>10, <1>11, <1>12 DEF ConnectorIInv

LEMMA ConnectorMeanwhile ==
  ASSUME ConnectorIInv, Panel!Meanwhile
  PROVE  ConnectorIInv'
  <1>0. /\ OperationTypes /\ UsersInv /\ CreateInv /\ UpdateInv /\ SimpleInv /\ RemoveInv /\ DoneInv
        /\ remote \in AccountType /\ before \in AccountType
    BY DEF ConnectorIInv, OperationTypes
  <1>1. /\ UNCHANGED <<dialect, users, progress, op, losses, ops, astray>>
        /\ \/ remote' = [remote EXCEPT !.used = 1] /\ before' = [before EXCEPT !.used = 1] /\ clock' = clock
           \/ clock < MaxClock /\ clock' = clock + 1 /\ UNCHANGED <<remote, before>>
    BY DEF Panel!Meanwhile
  <1>2. /\ remote' \in AccountType /\ before' \in AccountType
        /\ Alike(dialect, remote', remote) /\ Alike(dialect, before, before')
    BY <1>0, <1>1 DEF AccountType, Alike, Kept
  <1>3. clock' \in Nat /\ clock <= clock'
    BY <1>0, <1>1 DEF OperationTypes
  <1>l. \A a \in Int : \A b : Fits(dialect, Latest, a, b) => Fits(dialect', Latest', a, b)
    <2>1. clock \in Nat /\ op.days \in Nat /\ op' = op /\ dialect' = dialect
      BY <1>0, <1>1 DEF OperationTypes
    <2> QED BY <1>3, <2>1 DEF Fits, Latest
  <1>4. OperationTypes' /\ UsersInv' /\ RemoveInv'
    BY <1>0, <1>1, <1>2, <1>3 DEF OperationTypes, UsersInv, RemoveInv
  <1>5. CreateInv'
    BY <1>0, <1>1, <1>2, <1>l DEF CreateInv, Alike, Kept, EndFits, AccountType
  <1>6. UpdateInv'
    BY <1>0, <1>1, <1>2 DEF UpdateInv, Alike, Kept
  <1>7. SimpleInv'
    BY <1>0, <1>1, <1>2 DEF SimpleInv, Alike, Kept
  <1>8. DoneInv'
    <2>1. Panel!Meant(before)' = Panel!Meant(before')
      BY <1>1 DEF Panel!Meant
    <2>2. /\ Kept(dialect, Panel!Meant(before), Panel!Meant(before')) /\ Panel!Meant(before).limit = Panel!Meant(before').limit
          /\ Panel!Meant(before).ends = Panel!Meant(before').ends
      BY <1>0, <1>2, MeantTyped
    <2> QED BY <1>0, <1>1, <1>2, <1>l, <2>1, <2>2 DEF DoneInv, Alike, Kept, AccountType
  <1> QED BY <1>4, <1>5, <1>6, <1>7, <1>8 DEF ConnectorIInv

LEMMA ConnectorReconciles ==
  ASSUME ConnectorIInv, Panel!Reconcile
  PROVE  ConnectorIInv'
  <1>0. /\ OperationTypes /\ UsersInv /\ CreateInv /\ UpdateInv /\ SimpleInv /\ RemoveInv /\ DoneInv
        /\ remote \in AccountType /\ before \in AccountType /\ dialect \in Ways
    BY DEF ConnectorIInv, OperationTypes
  <1>1. PICK rest : /\ rest = IF op.name # "create" THEN <<>>
                              ELSE IF dialect = "ibsng" THEN Panel!ibsCreate[progress] ELSE Panel!finishCreate[dialect]
                    /\ op' = [op EXCEPT !.left = rest, !.result = IF rest = <<>> THEN "done" ELSE "none"]
                    /\ op.result = "unsure"
                    /\ \/ op.name = "create" /\ dialect = "ibsng"
                       \/ op.name = "create" /\ remote.exists /\ (dialect = "mikrotik" \/ remote.limit = op.limit)
                       \/ op.name = "update" /\ remote.limit = op.limit /\ remote.ends = op.ends
    BY DEF Panel!Reconcile
  <1>2. UNCHANGED <<dialect, remote, users, progress, before, clock, losses, ops, astray>>
    BY DEF Panel!Reconcile
  <1>3. /\ DOMAIN op' = DOMAIN op /\ op'.left = rest /\ op'.name = op.name /\ op'.limit = op.limit
        /\ op'.ends = op.ends /\ op'.days = op.days /\ op'.seen = op.seen /\ op'.result = IF rest = <<>> THEN "done" ELSE "none"
    BY <1>0, <1>1 DEF OperationTypes
  <1>4. OperationTypes'
    BY <1>0, <1>1, <1>2, <1>3 DEF OperationTypes
  <1>5. Panel!Meant(before)' = Panel!Meant(before) /\ Latest' = Latest /\ dialect' = dialect
    BY <1>2, <1>3 DEF Panel!Meant, Latest
  <1>6. CASE op.name = "update"
    <2>1. rest = <<>> /\ op'.result = "done"
      BY <1>1, <1>3, <1>6
    <2>2. UsersInv'
      BY <1>0, <1>2, <1>3, <2>1, Heads DEF UsersInv, First
    <2>3. DoneInv'
      <3>1. Kept(dialect, Panel!Meant(before), before) /\ Panel!Meant(before).limit = op.limit /\ Panel!Meant(before).ends = op.ends
        BY <1>0, <1>6, MeantOf
      <3>2. Kept(dialect, remote, before) /\ remote.limit = op.limit /\ remote.ends = op.ends /\ op.ends \in Int
        BY <1>0, <1>1, <1>6 DEF UpdateInv, OperationTypes
      <3>3. Kept(dialect, remote, Panel!Meant(before)) /\ Fits(dialect, Latest, remote.ends, Panel!Meant(before).ends)
        BY <3>1, <3>2 DEF Kept, Fits
      <3> QED BY <1>2, <1>3, <1>5, <2>1, <3>1, <3>2, <3>3 DEF DoneInv
    <2> QED BY <1>0, <1>2, <1>3, <1>4, <1>6, <2>1, <2>2, <2>3
            DEF ConnectorIInv, CreateInv, UpdateInv, SimpleInv, RemoveInv
  <1>7. CASE op.name = "create"
    <2>1. /\ dialect = "ibsng" => rest = IF progress THEN <<"name">> ELSE <<"user", "name">>
          /\ dialect = "wgdashboard" => rest = W4 /\ remote.exists
          /\ dialect = "mikrotik" => rest = <<"profile">>
          /\ dialect \notin {"ibsng", "wgdashboard", "mikrotik"} => rest = <<>> /\ remote.exists
      <3>1. progress \in BOOLEAN
        BY <1>0 DEF OperationTypes
      <3> QED BY <1>0, <1>1, <1>7, <3>1, Asked DEF Panel!ibsCreate
    <2>2. rest \notin {Peer, <<"named", "profile">>, <<"add">>, W2, W1} /\ (rest = <<"user", "name">> => ~progress)
      BY <1>0, <2>1, Heads DEF First, OperationTypes
    <2>3. UsersInv'
      BY <1>0, <1>2, <1>3, <2>2 DEF UsersInv
    <2>4. CreateInv'
      <3>1. EndFits(remote.ends)' = EndFits(remote.ends)
        BY <1>2, <1>3, <1>5 DEF EndFits
      <3> QED BY <1>0, <1>1, <1>2, <1>3, <1>7, <2>1, <2>2, <3>1 DEF CreateInv, CreateLefts
    <2>5. DoneInv'
      <3>1. CASE rest = <<>>
        <4>1. dialect \notin {"ibsng", "wgdashboard", "mikrotik"} /\ remote.exists
          BY <2>1, <3>1, Heads DEF First
        <4>2. remote.on /\ remote.options = 1 /\ remote.limit = op.limit /\ EndFits(remote.ends) /\ remote.link = before.link
          BY <1>0, <1>1, <1>7, <4>1 DEF CreateInv
        <4>3. Kept(dialect, remote, Panel!Meant(before)) /\ Panel!Meant(before).limit = op.limit /\ Panel!Meant(before).ends = op.ends
          <5>1. Panel!Meant(before).exists = TRUE /\ Panel!Meant(before).on = TRUE /\ remote.exists = TRUE /\ remote.on = TRUE
            BY <1>0, <1>7, <4>1, <4>2, MeantOf, MeantTyped DEF AccountType
          <5> QED BY <1>0, <1>7, <4>2, <5>1, MeantOf DEF Kept
        <4> QED BY <1>2, <1>3, <1>5, <3>1, <4>2, <4>3 DEF DoneInv, EndFits
      <3>2. CASE rest # <<>>
        BY <1>3, <3>2 DEF DoneInv
      <3> QED BY <3>1, <3>2
    <2> QED BY <1>0, <1>2, <1>3, <1>4, <1>7, <2>3, <2>4, <2>5
            DEF ConnectorIInv, UpdateInv, SimpleInv, RemoveInv
  <1> QED BY <1>1, <1>6, <1>7

(* A request takes effect, whether or not its answer comes: how the users  *)
(* it may create stay counted, and what is left stays what it was.         *)
LEMMA EffectTyped ==
  ASSUME ConnectorIInv, op.left # <<>>
  PROVE  Panel!Effect(Head(op.left)) \in AccountType
  <1>1. /\ OperationTypes /\ CreateInv /\ UpdateInv /\ SimpleInv /\ RemoveInv /\ op.result = "none"
    BY DEF ConnectorIInv, OperationTypes
  <1>2. CASE Head(op.left) \notin {"flip", "add", "terms"}
    BY <1>1, <1>2, EffectIs
  <1>3. CASE Head(op.left) = "flip"
    BY <1>1, <1>3, FlipIs
  <1>4. CASE Head(op.left) \in {"add", "terms"}
    <2>1. op.name \in {"create", "update"}
      <3>1. \A left \in RemoveLefts : Head(left) \notin {"add", "terms"}
        BY Heads DEF RemoveLefts, First
      <3>2. \A kind : \A left \in SimpleLefts(kind) : Head(left) \notin {"add", "terms"}
        BY Heads DEF SimpleLefts, First
      <3>3. op.name \in {"create", "update", "toggle", "remove", "reset", "revoke", "none"}
        BY <1>1 DEF OperationTypes, Panel!OpNames
      <3> QED BY <1>1, <1>4, <3>1, <3>2, <3>3 DEF SimpleInv, RemoveInv, OperationTypes
    <2>2. CASE op.name = "update"
      <3>1. \A left \in UpdateLefts(dialect) : Head(left) # "add"
        BY Heads DEF UpdateLefts, First
      <3>2. Head(op.left) = "terms"
        BY <1>1, <1>4, <2>2, <3>1 DEF UpdateInv
      <3> QED BY <1>1, <2>2, <3>2, TermsAre
    <2>3. CASE op.name = "create"
      BY <1>1, <1>4, <2>3, TermsAre
    <2> QED BY <2>1, <2>2, <2>3
  <1> QED BY <1>2, <1>3, <1>4

LEMMA EffectOnCreate ==
  ASSUME ConnectorIInv, op.left # <<>>, op.name = "create"
  PROVE  LET r == Head(op.left)
             after == Panel!Effect(r) IN
         /\ op.left \in CreateLefts(dialect)
         /\ after.link = before.link
         /\ dialect = "wgdashboard" => after.exists /\ after.on /\ after.options = 1
         /\ dialect \notin {"wgdashboard", "ibsng", "mikrotik"} =>
              /\ after.exists /\ after.on /\ after.options = 1 /\ after.limit = op.limit /\ EndFits(after.ends)
         /\ r # "user" /\ r \in Panel!Creates => users = 0 /\ dialect # "ibsng"
         /\ r = "user" => dialect = "ibsng" /\ ~progress
  <1>0. /\ OperationTypes /\ UsersInv /\ CreateInv /\ op.result = "none"
        /\ remote \in AccountType /\ before \in AccountType /\ dialect \in Ways
    BY DEF ConnectorIInv, OperationTypes
  <1>1. op.left \in CreateLefts(dialect) /\ remote.link = before.link
    BY <1>0 DEF CreateInv
  <1>2. Panel!Meant(remote).link = remote.link /\ Panel!Meant(remote).exists /\ Panel!Meant(remote).on
        /\ Panel!Meant(remote).options = 1
    BY <1>0, MeantOf
  <1>3. CASE dialect = "wgdashboard"
    <2>1. op.left \in {Peer, W4, W3, W2, W1} /\ (op.left # Peer => remote.exists /\ remote.on /\ remote.options = 1)
      BY <1>0, <1>1, <1>3 DEF CreateLefts, CreateInv
    <2>2. CASE op.left = Peer
      <3>1. Head(op.left) = "peer"
        BY <2>2, Heads DEF First
      <3>2. users = 0
        BY <1>0, <2>2 DEF UsersInv
      <3> QED BY <1>0, <1>1, <1>3, <3>1, <3>2, EffectIs
    <2>3. CASE op.left # Peer
      <3>1. Head(op.left) \in {"dropLimit", "setLimit", "dropEnds", "setEnds"}
        BY <2>1, <2>3, Heads DEF First
      <3>2. Kept(dialect, Panel!Effect(Head(op.left)), remote)
        BY <1>0, <3>1, EffectIs
      <3> QED BY <1>0, <1>1, <1>3, <2>1, <2>3, <3>1, <3>2 DEF Kept, Panel!Creates
    <2> QED BY <2>2, <2>3
  <1>4. CASE dialect = "ibsng"
    <2>1. op.left \in {<<"user", "name">>, <<"name">>}
      BY <1>1, <1>4 DEF CreateLefts
    <2>2. CASE op.left = <<"user", "name">>
      <3>1. Head(op.left) = "user" /\ ~progress
        BY <1>0, <2>2, Heads DEF First, UsersInv
      <3> QED BY <1>0, <1>1, <1>4, <3>1, EffectIs
    <2>3. CASE op.left = <<"name">>
      <3>1. Head(op.left) = "name"
        BY <2>3, Heads DEF First
      <3> QED BY <1>0, <1>1, <1>2, <1>4, <3>1, EffectIs DEF Panel!Creates
    <2> QED BY <2>1, <2>2, <2>3
  <1>5. CASE dialect = "mikrotik"
    <2>1. op.left \in {<<"named", "profile">>, <<"profile">>}
      BY <1>1, <1>5 DEF CreateLefts
    <2>2. CASE op.left = <<"named", "profile">>
      <3>1. Head(op.left) = "named" /\ users = 0
        BY <1>0, <2>2, Heads DEF First, UsersInv
      <3> QED BY <1>0, <1>1, <1>5, <3>1, EffectIs
    <2>3. CASE op.left = <<"profile">>
      <3>1. Head(op.left) = "profile"
        BY <2>3, Heads DEF First
      <3> QED BY <1>0, <1>1, <1>2, <1>5, <3>1, EffectIs DEF Panel!Creates
    <2> QED BY <2>1, <2>2, <2>3
  <1>6. CASE dialect \notin {"wgdashboard", "ibsng", "mikrotik"}
    <2>1. op.left = <<"add">>
      BY <1>1, <1>6 DEF CreateLefts
    <2>2. Head(op.left) = "add" /\ users = 0
      BY <1>0, <2>1, Heads DEF First, UsersInv
    <2>3. /\ Kept(dialect, Panel!Effect("add"), Panel!Meant(remote)) /\ Panel!Effect("add").limit = op.limit
          /\ Panel!Effect("add").options = Panel!Meant(remote).options /\ EndFits(Panel!Effect("add").ends)
      BY <1>0, TermsAre
    <2> QED BY <1>1, <1>2, <1>6, <2>2, <2>3 DEF Kept
  <1> QED BY <1>3, <1>4, <1>5, <1>6

LEMMA EffectOnUpdate ==
  ASSUME ConnectorIInv, op.left # <<>>, op.name = "update"
  PROVE  LET r == Head(op.left)
             after == Panel!Effect(r) IN
         /\ op.left \in UpdateLefts(dialect) /\ Kept(dialect, after, before)
         /\ op.left \in {<<"terms">>, <<"write">>, W1} =>
              after.limit = op.limit /\ EndFits(after.ends)
         /\ r \notin Panel!Creates
  <1>0. /\ OperationTypes /\ UpdateInv /\ op.result = "none" /\ op.seen \in AccountType
        /\ remote \in AccountType /\ before \in AccountType /\ dialect \in Ways /\ op.ends \in Int
    BY DEF ConnectorIInv, OperationTypes
  <1>1. op.left \in UpdateLefts(dialect) /\ Kept(dialect, remote, before)
    BY <1>0 DEF UpdateInv
  <1>2. Kept(dialect, Panel!Meant(remote), remote) /\ Kept(dialect, Panel!Meant(op.seen), op.seen)
    BY <1>0, MeantOf
  <1>3. op.left \in {Read, W4, W3, W2, W1, <<"get", "write">>, <<"write">>, <<"get", "terms">>, <<"terms">>}
    BY <1>1 DEF UpdateLefts
  <1>e. EndFits(op.ends)
    BY <1>0 DEF EndFits, Fits
  <1>4. CASE op.left \in {Read, <<"get", "write">>, <<"get", "terms">>}
    <2>1. Head(op.left) = "get"
      BY <1>4, Heads DEF First
    <2>2. op.left \notin {<<"terms">>, <<"write">>, W1}
      BY <2>1, Heads DEF First
    <2> QED BY <1>0, <1>1, <2>1, <2>2, EffectIs DEF Panel!Creates
  <1>5. CASE op.left \in {W4, W3, W2, W1}
    <2>1. Head(op.left) \in {"dropLimit", "setLimit", "dropEnds", "setEnds"} /\ (op.left = W1 => Head(op.left) = "setEnds")
      BY <1>5, Heads DEF First
    <2>2. op.left \notin {<<"terms">>, <<"write">>}
      BY <2>1, Heads DEF First
    <2>3. Kept(dialect, Panel!Effect(Head(op.left)), remote)
      BY <1>0, <2>1, EffectIs
    <2>4. op.left = W1 => Panel!Effect(Head(op.left)).limit = op.limit /\ Panel!Effect(Head(op.left)).ends = op.ends
      BY <1>0, <2>1, EffectIs DEF UpdateInv
    <2> QED BY <1>1, <1>e, <2>1, <2>2, <2>3, <2>4 DEF Kept, Panel!Creates
  <1>6. CASE op.left = <<"write">>
    <2>1. Head(op.left) = "write" /\ Kept(dialect, op.seen, before)
      BY <1>0, <1>6, Heads DEF First, UpdateInv
    <2>2. Panel!Meant(op.seen).limit = op.limit /\ Panel!Meant(op.seen).ends = op.ends
      BY <1>0, MeantOf
    <2> QED BY <1>0, <1>1, <1>2, <1>e, <2>1, <2>2, EffectIs DEF Kept, Panel!Creates
  <1>7. CASE op.left = <<"terms">>
    <2>1. Head(op.left) = "terms"
      BY <1>7, Heads DEF First
    <2>2. /\ Kept(dialect, Panel!Effect("terms"), Panel!Meant(remote)) /\ Panel!Effect("terms").limit = op.limit
          /\ EndFits(Panel!Effect("terms").ends)
      BY <1>0, TermsAre
    <2> QED BY <1>1, <1>2, <2>1, <2>2 DEF Kept, Panel!Creates
  <1> QED BY <1>3, <1>4, <1>5, <1>6, <1>7

(* Only a creation creates.                                                *)
LEMMA OthersCreateNone ==
  ASSUME ConnectorIInv, op.left # <<>>, op.name # "create" PROVE Head(op.left) \notin Panel!Creates
  <1>0. OperationTypes /\ SimpleInv /\ RemoveInv
    BY DEF ConnectorIInv
  <1>1. \A left \in RemoveLefts : Head(left) \notin Panel!Creates
    BY Heads DEF RemoveLefts, First, Panel!Creates
  <1>2. \A kind : \A left \in SimpleLefts(kind) : Head(left) \notin Panel!Creates
    BY Heads DEF SimpleLefts, First, Panel!Creates
  <1>3. op.name \in {"create", "update", "toggle", "remove", "reset", "revoke"}
    BY <1>0 DEF OperationTypes, Panel!OpNames
  <1> QED BY <1>0, <1>1, <1>2, <1>3, EffectOnUpdate DEF SimpleInv, RemoveInv

LEMMA ConnectorUnanswered ==
  ASSUME ConnectorIInv, Panel!Unanswered
  PROVE  ConnectorIInv'
  <1>0. /\ OperationTypes /\ UsersInv /\ CreateInv /\ UpdateInv
        /\ remote \in AccountType /\ before \in AccountType /\ dialect \in Ways /\ op.left # <<>> /\ op.result = "none"
        /\ users \in Nat /\ astray \in Nat
    BY DEF ConnectorIInv, OperationTypes, Panel!Unanswered
  <1>1. PICK took \in BOOLEAN :
          /\ remote' = IF took THEN Panel!Effect(Head(op.left)) ELSE remote
          /\ users' = users + (IF took /\ Head(op.left) \in Panel!Creates THEN 1 ELSE 0)
          /\ astray' = astray + (IF took /\ Head(op.left) = "user" THEN 1 ELSE 0)
          /\ op' = [op EXCEPT !.left = <<>>, !.result = IF Head(op.left) = "get" THEN "failed" ELSE "unsure"]
    BY DEF Panel!Unanswered
  <1>2. UNCHANGED <<dialect, progress, before, clock, ops>>
    BY DEF Panel!Unanswered
  <1>3. /\ DOMAIN op' = DOMAIN op /\ op'.left = <<>> /\ op'.name = op.name /\ op'.limit = op.limit /\ op'.ends = op.ends /\ op'.days = op.days
        /\ op'.seen = op.seen /\ op'.result = IF Head(op.left) = "get" THEN "failed" ELSE "unsure"
    BY <1>0, <1>1 DEF OperationTypes
  <1>4. remote' \in AccountType /\ users' \in Nat /\ astray' \in Nat
    BY <1>0, <1>1, EffectTyped
  <1>5. OperationTypes'
    BY <1>0, <1>2, <1>3, <1>4 DEF OperationTypes
  <1>6. UsersInv'
    <2>1. op'.left \notin {Peer, <<"named", "profile">>, <<"add">>, <<"user", "name">>}
      BY <1>3, Heads DEF First
    <2>2. CASE op.name = "create"
      <3>1. /\ Head(op.left) # "user" /\ Head(op.left) \in Panel!Creates => users = 0 /\ dialect # "ibsng"
            /\ Head(op.left) = "user" => dialect = "ibsng" /\ ~progress
        BY <1>0, <2>2, EffectOnCreate
      <3>2. "user" \in Panel!Creates
        BY DEF Panel!Creates
      <3>3. CASE took /\ Head(op.left) = "user"
        BY <1>0, <1>1, <1>2, <2>1, <3>1, <3>2, <3>3 DEF UsersInv
      <3>4. CASE took /\ Head(op.left) \in Panel!Creates /\ Head(op.left) # "user"
        BY <1>0, <1>1, <1>2, <2>1, <3>1, <3>4 DEF UsersInv
      <3>5. CASE ~took \/ Head(op.left) \notin Panel!Creates
        BY <1>0, <1>1, <1>2, <2>1, <3>2, <3>5 DEF UsersInv
      <3> QED BY <3>3, <3>4, <3>5
    <2>3. CASE op.name # "create"
      <3>1. Head(op.left) \notin Panel!Creates /\ "user" \in Panel!Creates
        BY <1>0, <2>3, OthersCreateNone DEF Panel!Creates
      <3> QED BY <1>0, <1>1, <1>2, <2>1, <3>1 DEF UsersInv
    <2> QED BY <2>2, <2>3
  <1>7. <<>> \notin {W4, W3, W2, W1, <<"write">>}
    BY Heads DEF First
  <1>8. EndFits(remote.ends)' = EndFits(remote'.ends)
    BY <1>2, <1>3 DEF EndFits, Latest
  <1>9. CreateInv'
    <2>1. CASE op.name = "create" /\ took
      BY <1>0, <1>1, <1>2, <1>3, <1>7, <1>8, <2>1, EffectOnCreate DEF CreateInv
    <2>2. CASE op.name = "create" /\ ~took
      BY <1>0, <1>1, <1>2, <1>3, <1>7, <1>8, <2>2 DEF CreateInv
    <2> QED BY <1>3, <2>1, <2>2 DEF CreateInv
  <1>10. UpdateInv'
    <2>1. CASE op.name = "update"
      <3>1. Kept(dialect, remote', before)
        BY <1>0, <1>1, <2>1, EffectOnUpdate DEF UpdateInv
      <3> QED BY <1>2, <1>3, <1>7, <3>1 DEF UpdateInv
    <2> QED BY <1>3, <2>1 DEF UpdateInv
  <1> QED BY <1>0, <1>2, <1>3, <1>5, <1>6, <1>9, <1>10 DEF ConnectorIInv, SimpleInv, RemoveInv, DoneInv

(* No two of them are the same.                                            *)
LEMMA Apart ==
  /\ <<>> \notin {Peer, Read, W4, W3, W2, W1} \cup RemoveLefts
  /\ Peer \notin {Read, W4, W3, W2, W1} /\ Read \notin {W4, W3, W2, W1} /\ W4 \notin {W3, W2, W1} /\ W3 \notin {W2, W1}
  /\ W2 # W1
  /\ \A r, q, t : <<r>> # <<>> /\ <<q, r>> # <<>> /\ <<q, r>> # <<t>> /\ (<<r>> = <<t>> => r = t)
  /\ \A r, q, t, u : <<q, r>> = <<u, t>> => q = u /\ r = t
  /\ \A r, q : <<r>> \notin {Peer, Read, W4, W3, W2} /\ (r # "setEnds" => <<r>> # W1)
  /\ \A r, q : q # "dropEnds" => <<q, r>> \notin {Peer, Read, W4, W3, W2, W1}
  <1>1. <<>> \notin {Peer, Read, W4, W3, W2, W1} \cup RemoveLefts
    BY Heads DEF First, RemoveLefts
  <1>2. /\ Peer \notin {Read, W4, W3, W2, W1} /\ Read \notin {W4, W3, W2, W1} /\ W4 \notin {W3, W2, W1} /\ W3 \notin {W2, W1}
        /\ W2 # W1
    BY Heads DEF First
  <1>3. \A r, q, t : <<r>> # <<>> /\ <<q, r>> # <<>> /\ <<q, r>> # <<t>> /\ (<<r>> = <<t>> => r = t)
    OBVIOUS
  <1>4. \A r, q, t, u : <<q, r>> = <<u, t>> => q = u /\ r = t
    OBVIOUS
  <1>5. \A r, q : Len(<<r>>) = 1 /\ Head(<<r>>) = r /\ Len(<<q, r>>) = 2 /\ Head(<<q, r>>) = q
    OBVIOUS
  <1>6. /\ Len(Peer) = 5 /\ Len(Read) = 5 /\ Len(W4) = 4 /\ Len(W3) = 3 /\ Len(W2) = 2 /\ Len(W1) = 1
        /\ Head(W2) = "dropEnds" /\ Head(W1) = "setEnds"
    BY DEF Peer, Read, W4, W3, W2, W1
  <1>7. \A r, q : <<r>> \notin {Peer, Read, W4, W3, W2} /\ (r # "setEnds" => <<r>> # W1)
    BY <1>5, <1>6
  <1>8. \A r, q : q # "dropEnds" => <<q, r>> \notin {Peer, Read, W4, W3, W2, W1}
    BY <1>5, <1>6
  <1> QED BY <1>1, <1>2, <1>3, <1>4, <1>7, <1>8

(* The last request is the only one left.                                  *)
LEMMA Lengths ==
  /\ Len(Peer) = 5 /\ Len(Read) = 5 /\ Len(W4) = 4 /\ Len(W3) = 3 /\ Len(W2) = 2 /\ Len(W1) = 1
  /\ Len(<<"get", "get", "flip", "del">>) = 4 /\ Len(<<"get", "flip", "del">>) = 3
  /\ \A r, q : Len(<<r>>) = 1 /\ Len(<<q, r>>) = 2
  BY DEF Peer, Read, W4, W3, W2, W1

Single(left) == Len(left) = 1 <=> Tail(left) = <<>>
LEMMA Singles ==
  /\ \A left \in {Peer, Read, W4, W3, W2, W1} : Single(left)
  /\ \A left \in RemoveLefts : Single(left)
  /\ \A r, q : Single(<<r>>) /\ Single(<<q, r>>)
  <1>1. \A r, q : Single(<<r>>) /\ Single(<<q, r>>)
    BY DEF Single
  <1>2. \A left \in {Peer, Read, W4, W3, W2, W1} : Single(left)
    <2>1. /\ Tail(Peer) = W4 /\ Tail(Read) = W4 /\ Tail(W4) = W3 /\ Tail(W3) = W2 /\ Tail(W2) = W1 /\ Tail(W1) = <<>>
      BY Heads DEF First
    <2>2. <<>> \notin {W4, W3, W2, W1}
      BY Apart
    <2> QED BY <2>1, <2>2, Lengths DEF Single
  <1>3. \A left \in RemoveLefts : Single(left)
    <2>1. Single(<<"get", "get", "flip", "del">>) /\ Single(<<"get", "flip", "del">>)
      BY Heads, Lengths DEF Single, First
    <2> QED BY <1>1, <2>1 DEF RemoveLefts
  <1> QED BY <1>1, <1>2, <1>3

LEMMA LeftHas ==
  ASSUME ConnectorIInv, op.left # <<>>
  PROVE  /\ Single(op.left)
         /\ Tail(op.left) \notin {Peer, <<"user", "name">>, <<"named", "profile">>, <<"add">>}
  <1>0. /\ OperationTypes /\ CreateInv /\ UpdateInv /\ SimpleInv /\ RemoveInv /\ op.result = "none"
        /\ op.name \in {"create", "update", "toggle", "remove", "reset", "revoke"}
    BY DEF ConnectorIInv, OperationTypes, Panel!OpNames
  <1> DEFINE Names == {"name", "profile", "add", "terms", "write", "flip", "zero", "link", "del"}
             Good(left) == Single(left) /\ (Tail(left) = <<>> \/ Head(Tail(left)) \notin {"peer", "user", "named", "add"})
  <1>1. \A left \in {Peer, W4, W3, W2, W1, Read} : Good(left)
    <2>1. \A left \in {Peer, W4, W3, W2, W1, Read} : Tail(left) \in {<<>>, W4, W3, W2, W1}
      BY Heads DEF First
    <2>2. \A left \in {W4, W3, W2, W1} : Head(left) \notin {"peer", "user", "named", "add"}
      BY Heads DEF First
    <2> QED BY <2>1, <2>2, Singles
  <1>2. Good(<<"user", "name">>) /\ Good(<<"named", "profile">>)
    <2>1. Tail(<<"user", "name">>) = <<"name">> /\ Tail(<<"named", "profile">>) = <<"profile">>
      BY Heads DEF First
    <2>2. Head(<<"name">>) = "name" /\ Head(<<"profile">>) = "profile"
      BY Heads DEF First
    <2> QED BY <2>1, <2>2, Singles
  <1>3. \A r \in Names : Good(<<r>>) /\ (r # "add" => Good(<<"get", r>>))
    <2>1. SUFFICES ASSUME NEW r \in Names PROVE Good(<<r>>) /\ (r # "add" => Good(<<"get", r>>))
      OBVIOUS
    <2>2. Tail(<<r>>) = <<>> /\ Tail(<<"get", r>>) = <<r>> /\ Head(<<r>>) = r
      BY Heads DEF First
    <2> QED BY <2>1, <2>2, Singles
  <1>4. \A left \in RemoveLefts : Good(left)
    <2>1. \A left \in RemoveLefts : Tail(left) = <<>> \/ Tail(left) \in RemoveLefts
      <3>1. \A left, r, rest : First(left, r, rest) => Tail(left) = rest
        BY DEF First
      <3> QED BY <3>1, Heads DEF RemoveLefts
    <2>2. \A left \in RemoveLefts : Head(left) \notin {"peer", "user", "named", "add"}
      BY Heads DEF First, RemoveLefts
    <2> QED BY <2>1, <2>2, Singles
  <1>5. Good(op.left)
    <2>1. CASE op.name = "create"
      BY <1>0, <1>1, <1>2, <1>3, <2>1 DEF CreateInv, CreateLefts
    <2>2. CASE op.name = "update"
      BY <1>0, <1>1, <1>3, <2>2 DEF UpdateInv, UpdateLefts
    <2>3. CASE op.name \in {"toggle", "reset", "revoke"}
      BY <1>0, <1>3, <2>3 DEF SimpleInv, SimpleLefts
    <2>4. CASE op.name = "remove"
      BY <1>0, <1>4, <2>4 DEF RemoveInv
    <2> QED BY <1>0, <2>1, <2>2, <2>3, <2>4
  <1>6. \A left \in {Peer, <<"user", "name">>, <<"named", "profile">>, <<"add">>} :
          left # <<>> /\ Head(left) \in {"peer", "user", "named", "add"}
    BY Heads DEF First
  <1> QED BY <1>5, <1>6

LEMMA ConnectorAnswered ==
  ASSUME ConnectorIInv, Panel!Answered
  PROVE  ConnectorIInv'
  <1>0. /\ OperationTypes /\ UsersInv /\ CreateInv /\ UpdateInv /\ SimpleInv /\ RemoveInv /\ DoneInv
        /\ remote \in AccountType /\ before \in AccountType /\ op.seen \in AccountType /\ dialect \in Ways
        /\ op.left # <<>> /\ op.result = "none" /\ users \in Nat /\ astray \in Nat
        /\ op.name \in {"create", "update", "toggle", "remove", "reset", "revoke"}
    BY DEF ConnectorIInv, OperationTypes, Panel!Answered, Panel!OpNames
  <1>1. /\ remote' = Panel!Effect(Head(op.left))
        /\ users' = users + (IF Head(op.left) \in Panel!Creates THEN 1 ELSE 0)
        /\ progress' = (progress \/ Head(op.left) = "user")
        /\ op' = IF Head(op.left) = "get" /\ Panel!get = Panel!NoAccount THEN [op EXCEPT !.left = <<>>, !.result = "failed"]
                 ELSE [op EXCEPT !.left = Tail(@), !.seen = IF Head(op.left) = "get" THEN Panel!get ELSE @,
                                 !.result = IF Len(op.left) = 1 THEN "done" ELSE "none"]
    BY DEF Panel!Answered
  <1>2. UNCHANGED <<dialect, before, clock, losses, ops, astray>>
    BY DEF Panel!Answered
  <1>3. /\ DOMAIN op' = DOMAIN op /\ op'.name = op.name /\ op'.limit = op.limit /\ op'.ends = op.ends /\ op'.days = op.days
        /\ \/ op'.left = <<>> /\ op'.result = "failed" /\ op'.seen = op.seen
           \/ /\ op'.left = Tail(op.left) /\ op'.result = IF Len(op.left) = 1 THEN "done" ELSE "none"
              /\ IF Head(op.left) = "get" THEN op'.seen \in AccountType /\ Alike(dialect, op'.seen, remote) ELSE op'.seen = op.seen
    <2>1. Panel!get # Panel!NoAccount => Panel!get \in AccountType /\ Alike(dialect, Panel!get, remote)
      BY <1>0 DEF Panel!get, AccountType, Alike, Kept
    <2>2. CASE Head(op.left) = "get" /\ Panel!get = Panel!NoAccount
      BY <1>0, <1>1, <2>2 DEF OperationTypes
    <2>3. CASE ~(Head(op.left) = "get" /\ Panel!get = Panel!NoAccount)
      BY <1>0, <1>1, <2>1, <2>3 DEF OperationTypes
    <2> QED BY <2>2, <2>3
  <1>4. remote' \in AccountType /\ users' \in Nat /\ op'.seen \in AccountType /\ progress' \in BOOLEAN
    BY <1>0, <1>1, <1>3, EffectTyped DEF OperationTypes
  <1>5. /\ Panel!Meant(before)' = Panel!Meant(before) /\ Latest' = Latest /\ dialect' = dialect
        /\ EndFits(remote.ends)' = EndFits(remote'.ends)
    BY <1>2, <1>3 DEF Panel!Meant, EndFits, Latest
  <1>6. CASE op'.result = "failed"
    <2>1. op'.left = <<>>
      BY <1>3, <1>6
    <2>2. Head(op.left) = "get"
      BY <1>1, <1>0, <1>6 DEF OperationTypes
    <2>3. users' = users /\ progress' = progress
      BY <1>0, <1>1, <2>2 DEF Panel!Creates, OperationTypes
    <2>4. OperationTypes'
      BY <1>0, <1>2, <1>3, <1>4, <1>6, <2>1 DEF OperationTypes
    <2>5. UsersInv'
      BY <1>0, <1>2, <2>1, <2>3, Heads DEF UsersInv, First
    <2> QED BY <1>0, <1>2, <1>6, <2>1, <2>4, <2>5
            DEF ConnectorIInv, CreateInv, UpdateInv, SimpleInv, RemoveInv, DoneInv
  <1>7. CASE op'.result # "failed"
    <2>1. /\ op'.left = Tail(op.left) /\ op'.result = IF Len(op.left) = 1 THEN "done" ELSE "none"
          /\ IF Head(op.left) = "get" THEN op'.seen \in AccountType /\ Alike(dialect, op'.seen, remote) ELSE op'.seen = op.seen
      BY <1>3, <1>7
    <2>2. \A r, rest : First(op.left, r, rest) =>
            /\ Head(op.left) = r /\ op'.left = rest
            /\ op'.result = IF rest = <<>> THEN "done" ELSE "none"
      BY <1>0, <2>1, LeftHas DEF First, Single
    <2>4. OperationTypes'
      <3>1. op'.left # <<>> => op'.result = "none"
        BY <1>0, <2>1, LeftHas DEF Single
      <3> QED BY <1>0, <1>2, <1>3, <1>4, <2>1, <3>1 DEF OperationTypes
    <2>5. op'.left \notin {Peer, <<"user", "name">>, <<"named", "profile">>, <<"add">>}
      BY <1>0, <2>1, LeftHas
    <2>6. UsersInv'
      <3>0. "user" \in Panel!Creates
        BY DEF Panel!Creates
      <3>1. CASE op.name = "create"
        <4>1. /\ Head(op.left) # "user" /\ Head(op.left) \in Panel!Creates => users = 0 /\ dialect # "ibsng"
              /\ Head(op.left) = "user" => dialect = "ibsng" /\ ~progress
          BY <1>0, <3>1, EffectOnCreate
        <4>2. CASE Head(op.left) = "user"
          <5>1. dialect = "ibsng" /\ progress = FALSE
            BY <1>0, <4>1, <4>2 DEF OperationTypes
          <5>2. progress' = TRUE
            BY <1>1, <4>2
          <5>3. users' = users + 1
            BY <1>1, <3>0, <4>2
          <5>4. users <= astray
            BY <1>0, <5>1 DEF UsersInv
          <5>5. users' <= astray' + 1 /\ users' >= 1 /\ dialect' = "ibsng"
            BY <1>0, <1>2, <5>1, <5>3, <5>4
          <5>6. IF dialect' = "ibsng" THEN users' <= astray' + (IF progress' THEN 1 ELSE 0) ELSE users' <= 1
            BY <5>2, <5>5
          <5> QED BY <2>5, <5>5, <5>6 DEF UsersInv
        <4>3. CASE Head(op.left) \in Panel!Creates /\ Head(op.left) # "user"
          <5>1. progress' = progress /\ users' = 1 /\ users = 0
            BY <1>0, <1>1, <4>1, <4>3 DEF UsersInv, OperationTypes
          <5> QED BY <1>0, <1>2, <2>5, <4>1, <4>3, <5>1 DEF UsersInv
        <4>4. CASE Head(op.left) \notin Panel!Creates
          <5>1. progress' = progress /\ users' = users
            BY <1>0, <1>1, <3>0, <4>4 DEF OperationTypes
          <5> QED BY <1>0, <1>2, <2>5, <5>1 DEF UsersInv
        <4> QED BY <4>2, <4>3, <4>4
      <3>2. CASE op.name # "create"
        <4>1. progress' = progress /\ users' = users
          BY <1>0, <1>1, <3>0, <3>2, OthersCreateNone DEF OperationTypes
        <4> QED BY <1>0, <1>2, <2>5, <4>1 DEF UsersInv
      <3> QED BY <3>1, <3>2
    <2>7. CASE op.name = "create"
      <3>0. /\ op.left \in CreateLefts(dialect) /\ remote'.link = before.link
            /\ dialect = "wgdashboard" => remote'.exists /\ remote'.on /\ remote'.options = 1
            /\ dialect \notin {"wgdashboard", "ibsng", "mikrotik"} =>
                 /\ remote'.exists /\ remote'.on /\ remote'.options = 1 /\ remote'.limit = op.limit /\ EndFits(remote'.ends)
        BY <1>0, <1>1, <2>7, EffectOnCreate
      <3>a. /\ Panel!Meant(before).exists /\ Panel!Meant(before).on /\ Panel!Meant(before).link = before.link
            /\ Panel!Meant(before).options = 1
            /\ Panel!Meant(before).limit = op.limit /\ Panel!Meant(before).ends = op.ends /\ op.ends - op.ends = 0
        BY <1>0, <2>7, MeantOf DEF OperationTypes
      <3>b. ASSUME remote'.exists, remote'.on, remote'.options = 1, remote'.link = before.link, remote'.limit = op.limit,
                   remote'.ends = op.ends, op'.left = <<>>
            PROVE  DoneInv'
        <4>1. PICK wanted : /\ wanted = Panel!Meant(before)' /\ wanted.exists /\ wanted.on /\ wanted.link = before.link
                            /\ wanted.options = 1
                            /\ wanted.limit = op.limit /\ wanted.ends = op.ends
          BY <1>5, <3>a
        <4>2. Kept(dialect, remote', wanted)
          <5>1. remote'.exists \in BOOLEAN /\ remote'.on \in BOOLEAN /\ wanted \in AccountType
            BY <1>0, <1>4, <1>5, <4>1, MeantTyped DEF AccountType
          <5> QED BY <3>b, <4>1, <5>1 DEF Kept, AccountType
        <4>3. remote'.ends - wanted.ends = 0
          BY <3>a, <3>b, <4>1
        <4>4. Fits(dialect', Latest', remote'.ends, wanted.ends)
          BY <3>b, <4>1, <4>3 DEF Fits
        <4> QED BY <1>5, <3>b, <4>1, <4>2, <4>4 DEF DoneInv
      <3>1. CASE dialect = "wgdashboard"
        <4>1. op.left \in {Peer, W4, W3, W2, W1}
          BY <3>0, <3>1 DEF CreateLefts
        <4>2. /\ op.left = Peer => op'.left = W4
              /\ op.left = W4 => op'.left = W3
              /\ op.left = W3 => op'.left = W2 /\ remote'.limit = op.limit
              /\ op.left = W2 => op'.left = W1 /\ remote'.limit = op.limit
              /\ op.left = W1 => op'.left = <<>> /\ op'.result = "done" /\ remote'.limit = op.limit /\ remote'.ends = op.ends
          BY <1>0, <1>1, <2>2, <2>7, <3>1, Heads, EffectIs DEF CreateInv
        <4>3. /\ op'.left = W4 \/ op'.left = W3 => op'.left \notin {W2, W1}
              /\ {Peer, W4, W3, W2, W1} \cap {<<>>} = {}
          BY Heads DEF First
        <4>4. CreateInv'
          BY <1>0, <1>2, <1>3, <2>1, <3>0, <3>1, <4>1, <4>2, <4>3 DEF CreateInv, CreateLefts
        <4>5. DoneInv'
          <5>1. CASE op.left = W1
            BY <3>b, <3>0, <3>1, <4>2, <5>1
          <5>2. CASE op.left # W1
            <6>1. op'.left \in {W4, W3, W2, W1}
              BY <4>1, <4>2, <5>2
            <6>2. op'.result # "done"
              BY <2>4, <6>1, Apart DEF OperationTypes
            <6> QED BY <6>2 DEF DoneInv
          <5> QED BY <5>1, <5>2
        <4> QED BY <1>3, <2>4, <2>6, <2>7, <4>4, <4>5 DEF ConnectorIInv, UpdateInv, SimpleInv, RemoveInv
      <3>2. CASE dialect \in {"ibsng", "mikrotik"}
        <4>1. op.left \in {<<"user", "name">>, <<"name">>, <<"named", "profile">>, <<"profile">>}
          BY <3>0, <3>2 DEF CreateLefts
        <4>2. CASE op.left \in {<<"user", "name">>, <<"named", "profile">>}
          <5>1. op'.left = (IF dialect = "ibsng" THEN <<"name">> ELSE <<"profile">>) /\ op'.result = "none" /\ op'.left # <<>>
            <6>1. \A r : First(<<r>>, r, <<>>)
              BY Heads
            <6>2. CASE op.left = <<"user", "name">>
              <7>1. dialect = "ibsng"
                BY <1>0, <2>7, <3>0, <6>2, EffectOnCreate, Heads DEF First
              <7> QED BY <2>2, <6>2, <7>1, Heads, Apart
            <6>3. CASE op.left = <<"named", "profile">>
              <7>1. Head(op.left) = "named" /\ "named" \in Panel!Creates
                BY <6>3, Heads DEF First, Panel!Creates
              <7>2. dialect # "ibsng"
                BY <1>0, <2>7, <7>1, EffectOnCreate
              <7> QED BY <2>2, <3>2, <6>3, <7>2, Heads, Apart
            <6> QED BY <4>2, <6>2, <6>3
          <5>2. CreateInv'
            BY <1>2, <1>3, <3>0, <3>2, <5>1 DEF CreateInv, CreateLefts
          <5>3. DoneInv'
            BY <5>1 DEF DoneInv
          <5> QED BY <1>3, <2>4, <2>6, <2>7, <5>2, <5>3 DEF ConnectorIInv, UpdateInv, SimpleInv, RemoveInv
        <4>3. CASE op.left \in {<<"name">>, <<"profile">>}
          <5>1. Head(op.left) \in {"name", "profile"} /\ op'.left = <<>> /\ op'.result = "done"
            BY <2>2, <4>3, Heads
          <5>2. remote' = Panel!Meant(remote)
            BY <1>0, <1>1, <5>1, EffectIs
          <5>3. DoneInv'
            <6>1. /\ remote'.exists /\ remote'.on /\ remote'.options = 1 /\ remote'.limit = op.limit /\ remote'.ends = op.ends
              BY <1>0, <2>7, <5>2, MeantOf
            <6>2. op.ends \in Int
              BY <1>0 DEF OperationTypes
            <6> QED BY <3>b, <3>0, <5>1, <6>1
          <5> QED BY <1>3, <2>4, <2>6, <2>7, <5>1, <5>3 DEF ConnectorIInv, CreateInv, UpdateInv, SimpleInv, RemoveInv
        <4> QED BY <4>1, <4>2, <4>3
      <3>3. CASE dialect \notin {"wgdashboard", "ibsng", "mikrotik"}
        <4>1. op'.left = <<>> /\ op'.result = "done"
          BY <2>2, <3>0, <3>3, Heads DEF CreateLefts
        <4>2. DoneInv'
          <5>1. Kept(dialect, remote', Panel!Meant(before))
            <6>1. /\ Panel!Meant(before).exists = TRUE /\ Panel!Meant(before).on = TRUE
                  /\ remote'.exists = TRUE /\ remote'.on = TRUE
              BY <1>0, <1>4, <3>0, <3>3, <3>a, MeantTyped DEF AccountType
            <6> QED BY <3>0, <3>3, <3>a, <6>1 DEF Kept
          <5> QED BY <1>2, <1>5, <3>0, <3>3, <3>a, <4>1, <5>1 DEF DoneInv, EndFits
        <4> QED BY <1>3, <2>4, <2>6, <2>7, <4>1, <4>2 DEF ConnectorIInv, CreateInv, UpdateInv, SimpleInv, RemoveInv
      <3> QED BY <3>1, <3>2, <3>3
    <2>8. CASE op.name = "update"
      <3>0. /\ op.left \in UpdateLefts(dialect) /\ Kept(dialect, remote', before)
            /\ op.left \in {<<"terms">>, <<"write">>, W1} => remote'.limit = op.limit /\ EndFits(remote'.ends)
        BY <1>0, <1>1, <2>8, EffectOnUpdate
      <3>1. CASE op.left \in {<<"terms">>, <<"write">>, W1}
        <4>1. op'.left = <<>> /\ op'.result = "done"
          <5>1. First(op.left, "terms", <<>>) \/ First(op.left, "write", <<>>) \/ First(op.left, "setEnds", <<>>)
            BY <3>1, Heads
          <5> QED BY <2>2, <5>1
        <4>2. DoneInv'
          <5>1. Kept(dialect, Panel!Meant(before), before) /\ Panel!Meant(before).limit = op.limit /\ Panel!Meant(before).ends = op.ends
            BY <1>0, <2>8, MeantOf
          <5>2. Kept(dialect, remote', Panel!Meant(before))
            BY <3>0, <5>1 DEF Kept
          <5> QED BY <1>2, <1>5, <3>0, <3>1, <4>1, <5>1, <5>2 DEF DoneInv, EndFits
        <4> QED BY <1>3, <2>4, <2>6, <2>8, <4>1, <4>2 DEF ConnectorIInv, CreateInv, UpdateInv, SimpleInv, RemoveInv
      <3>2. CASE op.left \in {Read, W4, W3, W2}
        <4>0. /\ dialect = "wgdashboard" => op'.left \in {W4, W3, W2, W1}
              /\ op'.left # <<>> /\ op'.left # <<"write">> /\ op'.result = "none"
              /\ op'.left \in {W2, W1} => op.left \in {W3, W2}
          <5>1. /\ op.left = Read => First(op.left, "get", W4)
                /\ op.left = W4 => First(op.left, "dropLimit", W3)
                /\ op.left = W3 => First(op.left, "setLimit", W2)
                /\ op.left = W2 => First(op.left, "dropEnds", W1)
            BY Heads
          <5>2. /\ op.left = Read => op'.left = W4
                /\ op.left = W4 => op'.left = W3
                /\ op.left = W3 => op'.left = W2
                /\ op.left = W2 => op'.left = W1
            BY <2>2, <5>1
          <5>3. op'.left \in {W4, W3, W2, W1}
            BY <3>2, <5>2
          <5>4. op'.result = "none"
            BY <2>4, <5>3, Apart DEF OperationTypes
          <5> QED BY <3>2, <5>2, <5>3, <5>4, Apart
        <4>1. dialect = "wgdashboard"
          <5>0. /\ <<"get", "write">> \notin {Read, W4, W3, W2} /\ <<"get", "terms">> \notin {Read, W4, W3, W2}
                /\ <<"write">> \notin {Read, W4, W3, W2} /\ <<"terms">> \notin {Read, W4, W3, W2}
            BY Apart
          <5>1. op.left \notin {<<"get", "write">>, <<"write">>, <<"get", "terms">>, <<"terms">>}
            BY <3>2, <5>0
          <5> QED BY <3>0, <5>1 DEF UpdateLefts
        <4>2. op.left = W3 => Head(op.left) = "setLimit"
          BY Heads DEF First
        <4>3. op.left = W2 => Head(op.left) = "dropEnds"
          BY Heads DEF First
        <4>4. op.left \in {W3, W2} => remote'.limit = op.limit
          BY <1>0, <1>1, <2>8, <4>2, <4>3, EffectIs DEF UpdateInv
        <4>5. UpdateInv'
          BY <1>2, <1>3, <3>0, <4>0, <4>1, <4>4 DEF UpdateInv, UpdateLefts, Panel!WrittenBack
        <4> QED BY <1>3, <2>4, <2>6, <2>8, <4>0, <4>5 DEF ConnectorIInv, CreateInv, SimpleInv, RemoveInv, DoneInv
      <3>3. CASE op.left \in {<<"get", "write">>, <<"get", "terms">>}
        <4>0. /\ Head(op.left) = "get" /\ op'.result = "none" /\ op'.left # <<>> /\ op'.left \notin {W2, W1}
              /\ op.left = <<"get", "write">> => op'.left = <<"write">>
              /\ op.left = <<"get", "terms">> => op'.left = <<"terms">>
          <5>1. PICK r \in {"write", "terms"} : op.left = <<"get", r>>
            BY <3>3
          <5>2. First(op.left, "get", <<r>>)
            BY <5>1, Heads
          <5>3. op'.left = <<r>> /\ Head(op.left) = "get"
            BY <2>2, <5>2
          <5>4. op'.left # <<>> /\ op'.left \notin {W2, W1}
            BY <5>3, Apart
          <5>5. op'.result = "none"
            BY <2>4, <5>4 DEF OperationTypes
          <5> QED BY <5>1, <5>3, <5>4, <5>5, Apart
        <4>1. op'.left \in UpdateLefts(dialect)
          <5>1. op.left \notin {Read, W4, W3, W2, W1, <<"write">>, <<"terms">>} /\ <<"get", "write">> # <<"get", "terms">>
            <6>1. /\ <<"get", "write">> \notin {Read, W4, W3, W2, W1} /\ <<"get", "terms">> \notin {Read, W4, W3, W2, W1}
              BY Apart
            <6>2. /\ <<"get", "write">> \notin {<<"write">>, <<"terms">>, <<"get", "terms">>}
                  /\ <<"get", "terms">> \notin {<<"write">>, <<"terms">>}
              BY Apart
            <6> QED BY <3>3, <6>1, <6>2
          <5> QED BY <3>0, <3>3, <4>0, <5>1 DEF UpdateLefts, Panel!WrittenBack
        <4>2. Kept(dialect, op'.seen, before)
          BY <1>0, <2>1, <2>8, <4>0 DEF UpdateInv, Alike, Kept
        <4>3. UpdateInv'
          BY <1>2, <1>3, <3>0, <4>0, <4>1, <4>2 DEF UpdateInv, Kept
        <4> QED BY <1>3, <2>4, <2>6, <2>8, <4>0, <4>3 DEF ConnectorIInv, CreateInv, SimpleInv, RemoveInv, DoneInv
      <3> QED BY <3>0, <3>1, <3>2, <3>3 DEF UpdateLefts
    <2>9. CASE op.name \in {"toggle", "reset", "revoke"}
      <3>0. op.left \in SimpleLefts(op.name) /\ Alike(dialect, remote, before)
        BY <1>0, <2>9 DEF SimpleInv
      <3>1. CASE op.left \in {<<"get", "flip">>, <<"get", "write">>, <<"get", "zero">>, <<"get", "link">>}
        <4>1. /\ Head(op.left) = "get" /\ op'.result = "none" /\ op'.left # <<>>
              /\ \A r : op.left = <<"get", r>> => op'.left = <<r>>
          <5>1. PICK r \in {"flip", "write", "zero", "link"} : op.left = <<"get", r>>
            BY <3>1
          <5>2. First(op.left, "get", <<r>>)
            BY <5>1, Heads
          <5>3. op'.left = <<r>> /\ Head(op.left) = "get"
            BY <2>2, <5>2
          <5>4. op'.left # <<>>
            BY <5>3, Apart
          <5>5. op'.result = "none"
            BY <2>4, <5>4 DEF OperationTypes
          <5> QED BY <5>1, <5>3, <5>4, <5>5, Apart
        <4>2. op'.left \in SimpleLefts(op.name)
          <5>1. PICK r \in {"flip", "write", "zero", "link"} : op.left = <<"get", r>> /\ op'.left = <<r>>
            BY <3>1, <4>1
          <5>2. \A q : op.left = <<"get", q>> => q = r
            BY <5>1, Apart
          <5>3. \A q : op.left # <<q>>
            BY <5>1, Apart
          <5> QED BY <2>9, <3>0, <5>1, <5>2, <5>3 DEF SimpleLefts
        <4>3. remote' = remote /\ Alike(dialect, op'.seen, before)
          BY <1>0, <1>1, <2>1, <3>0, <4>1, EffectIs DEF Alike, Kept
        <4>4. SimpleInv'
          BY <1>2, <1>3, <3>0, <4>2, <4>3 DEF SimpleInv, Alike, Kept
        <4> QED BY <1>3, <2>4, <2>6, <2>9, <4>1, <4>4 DEF ConnectorIInv, CreateInv, UpdateInv, RemoveInv, DoneInv
      <3>2. CASE op.left \in {<<"flip">>, <<"write">>, <<"zero">>, <<"link">>}
        <4>1. /\ op'.left = <<>> /\ op'.result = "done" /\ Head(op.left) \in {"flip", "write", "zero", "link"}
              /\ Head(op.left) = "flip" => op.left = <<"flip">>
              /\ Head(op.left) = "write" => op.left = <<"write">>
          <5>1. PICK r \in {"flip", "write", "zero", "link"} : op.left = <<r>>
            BY <3>2
          <5>2. First(op.left, r, <<>>)
            BY <5>1, Heads
          <5> QED BY <2>2, <5>1, <5>2
        <4>2. DoneInv'
          <5>1. CASE Head(op.left) = "flip"
            <6>1. op.name = "toggle"
              <7>1. op.left \notin {<<"get", "zero">>, <<"zero">>, <<"get", "write">>, <<"write">>, <<"get", "link">>, <<"link">>}
                BY <4>1, <5>1, Apart
              <7> QED BY <2>9, <3>0, <7>1 DEF SimpleLefts
            <6>2. Alike(dialect, op.seen, before)
              BY <1>0, <2>9, <4>1, <5>1 DEF SimpleInv
            <6>3. /\ remote'.exists = remote.exists /\ remote'.options = remote.options /\ remote'.link = remote.link /\ remote'.limit = remote.limit
                  /\ remote'.ends = remote.ends /\ remote'.on = ~op.seen.on
              BY <1>0, <1>1, <5>1, <6>1, FlipIs
            <6>4. Fits(dialect, Latest, remote.ends, before.ends)
              BY <1>0, <3>0 DEF Alike, AccountType, Fits
            <6>5. /\ Panel!Meant(before).exists = before.exists /\ Panel!Meant(before).link = before.link
                  /\ Panel!Meant(before).limit = before.limit /\ Panel!Meant(before).ends = before.ends
                  /\ Panel!Meant(before).on = ~before.on /\ Panel!Meant(before).options = before.options
              BY <1>0, <6>1, MeantOf
            <6>6. Kept(dialect, remote', Panel!Meant(before))
              BY <3>0, <6>2, <6>3, <6>5 DEF Kept, Alike
            <6> QED BY <1>2, <1>5, <3>0, <4>1, <6>3, <6>4, <6>5, <6>6 DEF DoneInv, Alike
          <5>2. CASE Head(op.left) # "flip"
            <6>1. PICK a \in AccountType : remote' = Panel!Meant(a) /\ Alike(dialect, a, before)
              BY <1>0, <1>1, <2>9, <3>0, <4>1, <5>2, EffectIs DEF SimpleInv
            <6>2. /\ Kept(dialect, remote', Panel!Meant(before)) /\ remote'.limit = Panel!Meant(before).limit
                  /\ remote'.ends = Panel!Meant(before).ends
              BY <1>0, <6>1, MeantTyped
            <6>3. remote'.ends \in Int
              BY <1>4 DEF AccountType
            <6>4. Fits(dialect, Latest, remote'.ends, remote'.ends)
              BY <6>3 DEF Fits
            <6> QED BY <1>2, <1>5, <4>1, <6>2, <6>4 DEF DoneInv
          <5> QED BY <5>1, <5>2
        <4> QED BY <1>3, <2>4, <2>6, <2>9, <4>1, <4>2 DEF ConnectorIInv, CreateInv, UpdateInv, SimpleInv, RemoveInv
      <3> QED BY <2>9, <3>0, <3>1, <3>2 DEF SimpleLefts
    <2>10. CASE op.name = "remove"
      <3>0. op.left \in RemoveLefts
        BY <1>0, <2>10 DEF RemoveInv
      <3>1. CASE op.left = <<"del">>
        <4>1. Head(op.left) = "del" /\ op'.left = <<>> /\ op'.result = "done"
          BY <2>2, <3>1, Heads DEF First
        <4>2. remote' = Panel!NoAccount /\ Panel!Meant(before) = Panel!NoAccount
          BY <1>0, <1>1, <2>10, <4>1, EffectIs, MeantOf
        <4>3. DoneInv'
          BY <1>2, <1>5, <4>1, <4>2 DEF DoneInv, Kept, Fits, Panel!NoAccount, Panel!None
        <4> QED BY <1>3, <2>4, <2>6, <2>10, <4>1, <4>3 DEF ConnectorIInv, CreateInv, UpdateInv, SimpleInv, RemoveInv
      <3>2. CASE op.left # <<"del">>
        <4>1. op'.left \in RemoveLefts /\ op'.result = "none"
          <5>1. /\ op.left = <<"get", "del">> => op'.left = <<"del">>
                /\ op.left = <<"flip", "del">> => op'.left = <<"del">>
                /\ op.left = <<"get", "flip", "del">> => op'.left = <<"flip", "del">>
                /\ op.left = <<"get", "get", "flip", "del">> => op'.left = <<"get", "flip", "del">>
            <6>1. /\ op.left = <<"get", "del">> => First(op.left, "get", <<"del">>)
                  /\ op.left = <<"flip", "del">> => First(op.left, "flip", <<"del">>)
                  /\ op.left = <<"get", "flip", "del">> => First(op.left, "get", <<"flip", "del">>)
                  /\ op.left = <<"get", "get", "flip", "del">> => First(op.left, "get", <<"get", "flip", "del">>)
              BY Heads
            <6> QED BY <2>2, <6>1
          <5>2. op'.left \in RemoveLefts
            BY <3>0, <3>2, <5>1 DEF RemoveLefts
          <5>3. op'.left # <<>>
            BY <5>2, Apart
          <5> QED BY <2>4, <5>2, <5>3 DEF OperationTypes
        <4> QED BY <1>3, <2>4, <2>6, <2>10, <4>1 DEF ConnectorIInv, CreateInv, UpdateInv, SimpleInv, RemoveInv, DoneInv
      <3> QED BY <3>1, <3>2
    <2> QED BY <1>0, <2>7, <2>8, <2>9, <2>10
  <1> QED BY <1>6, <1>7

LEMMA ConnectorStep == ASSUME ConnectorIInv, Panel!OperationNext \/ UNCHANGED operationState PROVE ConnectorIInv'
  <1>1. CASE Panel!OperationNext
    BY <1>1, ConnectorBegins, ConnectorAnswered, ConnectorUnanswered, ConnectorReconciles, ConnectorMeanwhile
       DEF Panel!OperationNext
  <1>2. CASE UNCHANGED operationState
    <2>1. UNCHANGED <<dialect, remote, users, progress, op, before, clock, ops, astray>>
      BY <1>2 DEF operationState
    <2>2. /\ OperationTypes' /\ UsersInv' /\ CreateInv' /\ UpdateInv' /\ SimpleInv' /\ RemoveInv'
      BY <2>1 DEF ConnectorIInv, OperationTypes, UsersInv, CreateInv, UpdateInv, SimpleInv, RemoveInv, EndFits, Latest
    <2>3. DoneInv'
      BY <2>1 DEF ConnectorIInv, DoneInv, Panel!Meant, Latest
    <2> QED BY <2>2, <2>3 DEF ConnectorIInv
  <1> QED BY <1>1, <1>2

LEMMA ConnectorsAlone == [Next]_allVars => Panel!OperationNext \/ UNCHANGED operationState
  BY DEF Next, Rest, allVars

\* A confirmed operation left the account as it was but for what it was meant to
\* change and what its panel does not show, with an end at most a day off or within
\* its days from now, however long the operation took; and a second user exists only
\* if an answer was lost (src/src/services/providers.js).
THEOREM PanelsObey == Spec => []EveryPanelObeys
  <1>1. Init => ConnectorIInv
    BY ConnectorInitially DEF Init
  <1>2. ConnectorIInv /\ [Next]_allVars => ConnectorIInv'
    BY ConnectorStep, ConnectorsAlone
  <1>3. ConnectorIInv => EveryPanelObeys
    BY ConnectorPromise DEF EveryPanelObeys
  <1> QED BY <1>1, <1>2, <1>3, PTL DEF Spec

-----------------------------------------------------------------------------
(* Feeds                                                                   *)

PostStatus == {"pending", "sending", "sent", "review", "failed"}
Open == {"pending", "sending"}
Turns == Feeding!Entries \X Nat
Item == [turn : Turns, targets : [Dests -> PostStatus]]

FeedTypes ==
  /\ source \in [Addresses -> SUBSET Feeding!Entries]
  /\ \A u \in Addresses : source[u] \subseteq {u} \X (1..PerSource)
  /\ DOMAIN feed = {"url", "initialized", "seen", "pending"} /\ feed.url \in Addresses
  /\ feed.pending \in Seq(Item) /\ feed.seen \in Seq(Feeding!Entries)
  /\ forgotten \in [Feeding!Entries -> Nat]
  /\ feedSent \subseteq Turns \X Dests /\ baseline \subseteq Turns
  /\ copies \in Nat /\ feedStops \in Nat

(* The turns that are over, and the one of an entry that is remembered.    *)
Noted(turn) ==
  /\ turn[2] <= forgotten[turn[1]]
  /\ turn[2] = forgotten[turn[1]] => turn[1] \in Feeding!Seen

(* An entry is queued once in a turn, when it is noted; what is queued and *)
(* not yet answered was not sent, and what a first scan noted is not       *)
(* queued.                                                                 *)
Awaited(item) ==
  /\ Noted(item.turn) /\ item.turn \notin baseline
  /\ \A d \in Dests : item.targets[d] \in Open => <<item.turn, d>> \notin feedSent

QueueInv ==
  /\ ~feed.initialized => feed.pending = <<>> /\ feed.seen = <<>>
  /\ \A k \in 1..Len(feed.pending) : Awaited(feed.pending[k])
  /\ \A k, l \in 1..Len(feed.pending) : feed.pending[k].turn = feed.pending[l].turn => k = l

(* So is what was sent, or found by a first scan.                          *)
SeenInv ==
  /\ \A turn \in baseline : Noted(turn)
  /\ \A message \in feedSent : Noted(message[1])
  /\ feedTwice = {}
  /\ \A turn \in baseline, d \in Dests : <<turn, d>> \notin feedSent

(* At most one post is still to be copied, and each one that was copied    *)
(* without a mark cost an eviction.                                        *)
Unmarked(p) == {<<"generated", p.id>>, <<"copied", p.id>>} \cap copied = {}
CopyInv ==
  /\ copies <= 1 + feedStops
  /\ \A p, q \in posts : Unmarked(p) /\ Unmarked(q) => p = q
  /\ (\E p \in posts : Unmarked(p)) => copies <= feedStops

FeedIInv == FeedTypes /\ QueueInv /\ SeenInv /\ CopyInv

LEMMA FeedPromise == FeedIInv => Feeding!FeedPostsOnce
  BY DEF FeedIInv, SeenInv, CopyInv, Feeding!FeedPostsOnce

LEMMA FeedInitially == ASSUME PerSource \in Nat, Feeding!FeedsInit PROVE FeedIInv
  <1>1. \A u \in Addresses : source[u] \subseteq {u} \X (1..PerSource)
    BY DEF Feeding!FeedsInit, Feeding!Documents
  <1>2. source \in [Addresses -> SUBSET Feeding!Entries]
    <2>1. source = [u \in Addresses |-> source[u]]
      BY DEF Feeding!FeedsInit
    <2> QED BY <1>1, <2>1 DEF Feeding!Entries
  <1>3. /\ DOMAIN feed = {"url", "initialized", "seen", "pending"} /\ feed.url \in Addresses /\ ~feed.initialized
        /\ feed.pending = <<>> /\ feed.seen = <<>> /\ baseline = {} /\ copies = 0 /\ feedStops = 0
        /\ feedSent = {} /\ feedTwice = {} /\ forgotten \in [Feeding!Entries -> Nat]
    BY DEF Feeding!FeedsInit
  <1>4. FeedTypes
    BY <1>1, <1>2, <1>3 DEF FeedTypes
  <1>5. QueueInv /\ SeenInv
    BY <1>3 DEF QueueInv, SeenInv
  <1>6. CopyInv
    BY <1>3 DEF CopyInv, Feeding!FeedsInit
  <1> QED BY <1>4, <1>5, <1>6 DEF FeedIInv

LEMMA FeedCount == \A S : Feeding!Cardinality(S) = Cardinality(S)
  BY DEF Feeding!Cardinality, Cardinality

(* What a source shows, in an order.                                       *)
LEMMA FeedListed ==
  ASSUME PerSource \in Nat, FeedTypes, NEW S \in SUBSET source[feed.url], NEW order \in Feeding!SetToSeqs(S)
  PROVE  /\ order \in Seq(S) /\ \A i, j \in 1..Len(order) : order[i] = order[j] => i = j
         /\ \A e \in S : \E i \in 1..Len(order) : order[i] = e
  <1>0. 1 \in Int /\ PerSource \in Int /\ feed.url \in Addresses
    BY DEF FeedTypes
  <1>1. IsFiniteSet(1..PerSource) /\ IsFiniteSet({feed.url})
    BY <1>0, FS_Interval, FS_Singleton
  <1>2. IsFiniteSet({feed.url} \X (1..PerSource))
    BY <1>1, FS_Product
  <1>3. IsFiniteSet(S)
    BY <1>0, <1>2, FS_Subset DEF FeedTypes
  <1>4. PICK n \in Nat : n = Cardinality(S)
    BY <1>3, FS_CardinalityType
  <1>5. order \in [1..n -> S] /\ \A i, j \in 1..n : i # j => order[i] # order[j]
    BY <1>4, FeedCount DEF Feeding!SetToSeqs
  <1>6. order \in Injection(1..n, S)
    BY <1>5 DEF Injection, IsInjective
  <1>7. Cardinality(1..n) = n
    <2>1. 1 \in Int /\ n \in Int /\ (IF 1 > n THEN 0 ELSE n - 1 + 1) = n
      BY <1>4
    <2> QED BY <2>1, FS_Interval
  <1>8. order \in Surjection(1..n, S)
    BY <1>3, <1>4, <1>6, <1>7, FS_Injection
  <1>9. \A e \in S : \E i \in 1..n : order[i] = e
    BY <1>8 DEF Surjection
  <1>10. order \in Seq(S) /\ Len(order) = n
    BY <1>4, <1>5
  <1> QED BY <1>5, <1>9, <1>10

(* Entries that are no longer remembered are counted as forgotten.         *)
LEMMA NotedStays ==
  ASSUME FeedTypes, NEW D, Feeding!Forget(D), Feeding!Seen \ D \subseteq (Feeding!Seen)', NEW turn \in Turns, Noted(turn)
  PROVE  Noted(turn)'
  <1>1. PICK e \in Feeding!Entries, n \in Nat : turn = <<e, n>>
    BY DEF Turns
  <1>2. forgotten[e] \in Nat /\ forgotten'[e] = forgotten[e] + (IF e \in D THEN 1 ELSE 0)
    BY DEF FeedTypes, Feeding!Forget
  <1>3. n <= forgotten[e] /\ (n = forgotten[e] => e \in Feeding!Seen)
    BY <1>1 DEF Noted
  <1>4. n <= forgotten'[e] /\ (n = forgotten'[e] => n = forgotten[e] /\ e \notin D)
    BY <1>2, <1>3
  <1> QED BY <1>1, <1>3, <1>4 DEF Noted

LEMMA ForgetTyped ==
  ASSUME FeedTypes, NEW D, Feeding!Forget(D)
  PROVE  forgotten' \in [Feeding!Entries -> Nat]
  BY DEF FeedTypes, Feeding!Forget

(* What is remembered, and how often an entry was forgotten, tell its turn.*)
LEMMA NotedSame ==
  ASSUME feed'.seen = feed.seen, forgotten' = forgotten, NEW turn, Noted(turn)
  PROVE  Noted(turn)'
  BY DEF Noted, Feeding!Seen, Feeding!ToSet

LEMMA SeenStays ==
  ASSUME FeedTypes, SeenInv, \A turn \in Turns : Noted(turn) => Noted(turn)', UNCHANGED <<feedSent, feedTwice, baseline>>
  PROVE  SeenInv'
  BY DEF SeenInv, FeedTypes

(* The channel part, and the feed part, leave each other alone.            *)
LEMMA CopyKeeps ==
  ASSUME CopyInv, UNCHANGED <<posts, copied, copies>>, copies \in Nat, feedStops \in Nat, feedStops' \in Nat,
         feedStops <= feedStops'
  PROVE  CopyInv'
  <1>1. PICK c \in Nat : c = copies
    OBVIOUS
  <1>2. PICK n \in Nat : n = feedStops
    OBVIOUS
  <1>3. PICK m \in Nat : m = feedStops'
    OBVIOUS
  <1>4. c <= 1 + n /\ n <= m /\ copies' = c
    BY <1>1, <1>2, <1>3 DEF CopyInv
  <1>5. c <= 1 + m
    BY <1>4
  <1>6. (\E p \in posts' : Unmarked(p)') => c <= m
    BY <1>1, <1>2, <1>4 DEF CopyInv, Unmarked
  <1>7. \A p, q \in posts' : Unmarked(p)' /\ Unmarked(q)' => p = q
    BY DEF CopyInv, Unmarked
  <1> QED BY <1>3, <1>4, <1>5, <1>6, <1>7 DEF CopyInv

(* A step that leaves the feed as it is stored.                            *)
LEMMA FeedUntouched ==
  ASSUME FeedTypes, QueueInv, SeenInv, UNCHANGED <<feed, forgotten, feedSent, feedTwice, baseline>>
  PROVE  QueueInv' /\ SeenInv'
  <1>1. \A turn : Noted(turn) => Noted(turn)'
    BY NotedSame
  <1>2. SeenInv'
    BY <1>1, SeenStays
  <1>3. \A item : Awaited(item) => Awaited(item)'
    BY <1>1 DEF Awaited
  <1> QED BY <1>2, <1>3 DEF QueueInv

LEMMA FeedCopies ==
  ASSUME FeedIInv, NEW p \in posts, NEW b \in BOOLEAN, Feeding!Repost(p, b) \/ Feeding!CopyPost(p, b)
  PROVE  FeedIInv'
  <1>0. FeedTypes /\ QueueInv /\ SeenInv /\ CopyInv /\ copies \in Nat /\ feedStops \in Nat
    BY DEF FeedIInv, FeedTypes
  <1>1. UNCHANGED <<source, feed, forgotten, feedSent, feedTwice, baseline>> /\ copies' \in Nat /\ feedStops' \in Nat
    BY <1>0 DEF Feeding!Repost, Feeding!CopyPost, Feeding!sentVars
  <1>2. FeedTypes' /\ QueueInv' /\ SeenInv'
    <2>1. FeedTypes'
      BY <1>0, <1>1 DEF FeedTypes
    <2> QED BY <1>0, <1>1, <2>1, FeedUntouched
  <1>3. CASE Feeding!Repost(p, b)
    <2>1. UNCHANGED <<copied, copies, feedStops>> /\ posts' \subseteq posts
      BY <1>3 DEF Feeding!Repost
    <2>2. CopyInv'
      BY <1>0, <2>1 DEF CopyInv, Unmarked
    <2> QED BY <1>2, <2>2 DEF FeedIInv
  <1>4. CASE Feeding!CopyPost(p, b)
    <2>1. PICK new : new = [channel |-> Feeding!NextChannel(p.channel), id |-> copies + 1]
      OBVIOUS
    <2>2. /\ feedStops' = feedStops + (IF b THEN 1 ELSE 0) /\ copies' = copies + 1
          /\ posts' \subseteq posts \cup {new}
          /\ copied' = copied \cup {<<"copied", p.id>>} \cup (IF b THEN {} ELSE {<<"generated", new.id>>})
          /\ Unmarked(p)
      BY <1>4, <2>1 DEF Feeding!CopyPost, Unmarked
    <2>3. copies <= feedStops
      BY <1>0, <2>2 DEF CopyInv
    <2>4. \A q \in posts : ~Unmarked(q)'
      BY <1>0, <2>2 DEF CopyInv, Unmarked
    <2>5. CASE b
      BY <1>0, <2>2, <2>3, <2>4, <2>5, <1>2 DEF CopyInv, FeedIInv
    <2>6. CASE ~b
      <3>1. ~Unmarked(new)'
        BY <2>2, <2>6 DEF Unmarked
      <3> QED BY <1>0, <2>2, <2>3, <2>4, <2>6, <1>2, <3>1 DEF CopyInv, FeedIInv
    <2> QED BY <2>5, <2>6
  <1> QED BY <1>3, <1>4

LEMMA FeedPublishes ==
  ASSUME FeedIInv, NEW url \in Addresses, Feeding!Publish(url)
  PROVE  FeedIInv'
  <1>0. FeedTypes /\ QueueInv /\ SeenInv /\ CopyInv
    BY DEF FeedIInv
  <1>1. UNCHANGED <<feed, forgotten, feedSent, feedTwice, baseline, posts, copied, copies, feedStops>>
    BY DEF Feeding!Publish, Feeding!channelVars, Feeding!sentVars
  <1>2. PICK document \in SUBSET ({url} \X (1..PerSource)) : source' = [source EXCEPT ![url] = document]
    BY DEF Feeding!Publish, Feeding!Documents
  <1>3. document \subseteq Feeding!Entries
    BY <1>2 DEF Feeding!Entries
  <1>4. /\ source' \in [Addresses -> SUBSET Feeding!Entries]
        /\ \A u \in Addresses : source'[u] \subseteq {u} \X (1..PerSource)
    BY <1>0, <1>2, <1>3 DEF FeedTypes
  <1>5. FeedTypes'
    BY <1>0, <1>1, <1>4 DEF FeedTypes
  <1>6. CopyInv'
    BY <1>0, <1>1 DEF CopyInv, Unmarked
  <1> QED BY <1>0, <1>1, <1>5, <1>6, FeedUntouched DEF FeedIInv

(* An entry that is not remembered begins a turn when it is noted.         *)
LEMMA NewTurn ==
  ASSUME FeedTypes, SeenInv, NEW e \in Feeding!Entries, e \notin Feeding!Seen
  PROVE  /\ Feeding!Turn(e) = <<e, forgotten[e]>> /\ Feeding!Turn(e) \in Turns /\ ~Noted(Feeding!Turn(e))
         /\ Feeding!Turn(e) \notin baseline /\ \A d \in Dests : <<Feeding!Turn(e), d>> \notin feedSent
  <1>1. Feeding!Turn(e) = <<e, forgotten[e]>> /\ Feeding!Turn(e) \in Turns
    BY DEF Feeding!Turn, FeedTypes, Turns
  <1>2. ~Noted(Feeding!Turn(e))
    BY <1>1 DEF Noted
  <1> QED BY <1>1, <1>2 DEF SeenInv

LEMMA FeedFirst ==
  ASSUME PerSource \in Nat, FeedIInv, Feeding!FirstScan
  PROVE  FeedIInv'
  <1>0. FeedTypes /\ QueueInv /\ SeenInv /\ CopyInv
    BY DEF FeedIInv
  <1>1. UNCHANGED <<source, forgotten, feedSent, feedTwice, posts, copied, copies, feedStops>>
        /\ baseline' = baseline \cup {Feeding!Turn(e) : e \in source[feed.url]} /\ ~feed.initialized
    BY DEF Feeding!FirstScan, Feeding!channelVars, Feeding!sentVars
  <1>2. PICK order \in Feeding!SetToSeqs(source[feed.url]) : feed' = [feed EXCEPT !.seen = order, !.initialized = TRUE]
    BY DEF Feeding!FirstScan
  <1>3. /\ DOMAIN feed' = DOMAIN feed /\ feed'.url = feed.url /\ feed'.initialized
        /\ feed'.seen = order /\ feed'.pending = feed.pending
    BY <1>0, <1>2 DEF FeedTypes
  <1>4. /\ order \in Seq(source[feed.url]) /\ source[feed.url] \subseteq Feeding!Entries
        /\ \A e \in source[feed.url] : \E i \in 1..Len(order) : order[i] = e
    BY <1>0, FeedListed DEF FeedTypes
  <1>5. order \in Seq(Feeding!Entries) /\ \A e \in source[feed.url] : e \in (Feeding!Seen)'
    <2>1. order \in Seq(Feeding!Entries) /\ DOMAIN order = 1..Len(order)
      BY <1>4
    <2> QED BY <1>3, <1>4, <2>1 DEF Feeding!Seen, Feeding!ToSet
  <1>6. Feeding!Seen = {} /\ feed.pending = <<>>
    BY <1>0, <1>1 DEF QueueInv, Feeding!Seen, Feeding!ToSet
  <1>7. \A e \in source[feed.url] :
          /\ Feeding!Turn(e) \in Turns /\ Noted(Feeding!Turn(e))'
          /\ \A d \in Dests : <<Feeding!Turn(e), d>> \notin feedSent
    <2> SUFFICES ASSUME NEW e \in source[feed.url]
                 PROVE  /\ Feeding!Turn(e) \in Turns /\ Noted(Feeding!Turn(e))'
                        /\ \A d \in Dests : <<Feeding!Turn(e), d>> \notin feedSent
      OBVIOUS
    <2>1. e \in Feeding!Entries /\ e \notin Feeding!Seen
      BY <1>4, <1>6
    <2>2. PICK turn : turn = Feeding!Turn(e)
      OBVIOUS
    <2>3. turn = <<e, forgotten[e]>> /\ turn \in Turns /\ \A d \in Dests : <<turn, d>> \notin feedSent
      BY <1>0, <2>1, <2>2, NewTurn
    <2>4. forgotten'[e] = forgotten[e] /\ forgotten[e] \in Nat /\ e \in (Feeding!Seen)'
      BY <1>0, <1>1, <1>5, <2>1 DEF FeedTypes
    <2>5. Noted(turn)'
      <3>1. turn[1] = e /\ turn[2] = forgotten[e] /\ turn' = turn
        BY <1>1, <2>2, <2>3 DEF Feeding!Turn
      <3> QED BY <2>4, <3>1 DEF Noted
    <2> QED BY <1>1, <2>2, <2>3, <2>5 DEF Feeding!Turn
  <1>8. FeedTypes'
    BY <1>0, <1>1, <1>3, <1>5, <1>7 DEF FeedTypes
  <1>9. \A turn \in Turns : Noted(turn) => Noted(turn)'
    BY <1>0, <1>1, <1>6 DEF Noted
  <1>10. SeenInv'
    BY <1>0, <1>1, <1>7, <1>9 DEF SeenInv, FeedTypes, Feeding!Turn
  <1>11. QueueInv'
    BY <1>3, <1>6 DEF QueueInv
  <1>12. CopyInv'
    BY <1>0, <1>1 DEF CopyInv, Unmarked
  <1> QED BY <1>8, <1>10, <1>11, <1>12 DEF FeedIInv

LEMMA FeedScans ==
  ASSUME PerSource \in Nat, QueueBound \in Nat, Remembered \in Nat, FeedIInv, Feeding!ScanFeed
  PROVE  FeedIInv'
  <1>0. FeedTypes /\ QueueInv /\ SeenInv /\ CopyInv
    BY DEF FeedIInv
  <1>1. UNCHANGED <<source, feedSent, feedTwice, baseline, posts, copied, copies, feedStops>> /\ feed.initialized
    BY DEF Feeding!ScanFeed, Feeding!channelVars, Feeding!sentVars
  <1>2. CopyInv'
    BY <1>0, <1>1 DEF CopyInv, Unmarked
  <1> DEFINE take(fresh) == SubSeq(fresh, 1, IF Len(fresh) < Feeding!Room THEN Len(fresh) ELSE Feeding!Room)
             keep(fresh) == Feeding!Latest(feed.seen \o take(fresh), Remembered)
  <1>a. PICK fresh \in Feeding!SetToSeqs(source[feed.url] \ Feeding!Seen) :
          /\ feed' = [feed EXCEPT !.pending = @ \o [k \in DOMAIN take(fresh) |-> Feeding!Queued(take(fresh)[k])],
                                  !.seen = keep(fresh)]
          /\ Feeding!Forget(Feeding!ToSet(feed.seen \o take(fresh)) \ Feeding!ToSet(keep(fresh)))
    BY DEF Feeding!ScanFeed
  <1>b. PICK taken : taken = take(fresh)
    OBVIOUS
  <1>c. PICK noted, kept : noted = feed.seen \o taken /\ kept = Feeding!Latest(noted, Remembered)
    OBVIOUS
  <1>3. /\ taken = SubSeq(fresh, 1, IF Len(fresh) < Feeding!Room THEN Len(fresh) ELSE Feeding!Room)
        /\ noted = feed.seen \o taken /\ kept = Feeding!Latest(noted, Remembered)
        /\ feed' = [feed EXCEPT !.pending = feed.pending \o [k \in DOMAIN taken |-> Feeding!Queued(taken[k])],
                                !.seen = kept]
        /\ Feeding!Forget(Feeding!ToSet(noted) \ Feeding!ToSet(kept))
    BY <1>a, <1>b, <1>c
  <1> HIDE DEF take, keep
  <1>4. /\ fresh \in Seq(source[feed.url] \ Feeding!Seen) /\ source[feed.url] \subseteq Feeding!Entries
        /\ \A i, j \in 1..Len(fresh) : fresh[i] = fresh[j] => i = j
    BY <1>0, FeedListed DEF FeedTypes
  <1>5. Len(fresh) \in Nat /\ \A i \in 1..Len(fresh) : fresh[i] \in Feeding!Entries /\ fresh[i] \notin Feeding!Seen
    BY <1>4
  <1>6. PICK m \in Nat : m <= Len(fresh) /\ taken = SubSeq(fresh, 1, m)
    <2>1. PICK r \in Nat : r = Feeding!Room
      <3>1. PICK waiting \in Nat : waiting = Len(feed.pending)
        BY <1>0 DEF FeedTypes
      <3>2. PICK r \in Nat : r = (IF waiting < QueueBound THEN QueueBound - waiting ELSE 0)
        OBVIOUS
      <3> QED BY <3>1, <3>2 DEF Feeding!Room
    <2>2. PICK n \in Nat : n = Len(fresh)
      BY <1>5
    <2>3. PICK cut \in Nat : cut = (IF n < r THEN n ELSE r)
      BY <2>1, <2>2
    <2>4. cut <= Len(fresh)
      BY <2>2, <2>3
    <2>5. taken = SubSeq(fresh, 1, cut)
      BY <1>3, <2>1, <2>2, <2>3
    <2> QED BY <2>4, <2>5
  <1>7. /\ taken \in Seq(Feeding!Entries) /\ Len(taken) = m
        /\ \A i \in 1..m : taken[i] = fresh[i] /\ taken[i] \in Feeding!Entries /\ taken[i] \notin Feeding!Seen
    <2>1. 1 \in Int /\ m \in Int /\ \A i \in 1..m : fresh[i] \in Feeding!Entries
      BY <1>5, <1>6
    <2>2. /\ taken \in Seq(Feeding!Entries) /\ Len(taken) = IF 1 <= m THEN m - 1 + 1 ELSE 0
          /\ \A i \in 1..(m - 1 + 1) : taken[i] = fresh[1 + i - 1]
      BY <1>6, <2>1, SubSeqProperties
    <2>3. Len(taken) = m /\ \A i \in 1..m : taken[i] = fresh[i]
      BY <1>6, <2>2
    <2> QED BY <1>5, <1>6, <2>2, <2>3
  <1>8. /\ noted \in Seq(Feeding!Entries)
        /\ Feeding!Seen \subseteq Feeding!ToSet(noted) /\ \A i \in 1..m : taken[i] \in Feeding!ToSet(noted)
    <2>1. feed.seen \in Seq(Feeding!Entries)
      BY <1>0 DEF FeedTypes
    <2>2. /\ noted \in Seq(Feeding!Entries) /\ Len(noted) = Len(feed.seen) + Len(taken)
          /\ \A i \in 1..(Len(feed.seen) + Len(taken)) :
               noted[i] = IF i <= Len(feed.seen) THEN feed.seen[i] ELSE taken[i - Len(feed.seen)]
      BY <1>3, <1>7, <2>1
    <2>3. PICK s \in Nat : s = Len(feed.seen) /\ DOMAIN feed.seen = 1..s
      BY <2>1
    <2>4. /\ DOMAIN noted = 1..(s + m) /\ \A i \in 1..s : noted[i] = feed.seen[i] /\ i \in 1..(s + m)
          /\ \A i \in 1..m : s + i \in 1..(s + m) /\ noted[s + i] = taken[i]
      <3>1. \A i \in 1..(s + m) : noted[i] = IF i <= s THEN feed.seen[i] ELSE taken[i - s]
        BY <1>7, <2>2, <2>3
      <3>2. \A i \in 1..m : s + i \in 1..(s + m) /\ ~(s + i <= s) /\ (s + i) - s = i
        OBVIOUS
      <3>3. DOMAIN noted = 1..(s + m)
        BY <1>7, <2>2, <2>3
      <3>4. \A i \in 1..s : noted[i] = feed.seen[i] /\ i \in 1..(s + m)
        BY <3>1
      <3> QED BY <3>1, <3>2, <3>3, <3>4
    <2>5. ASSUME NEW e \in Feeding!Seen PROVE e \in Feeding!ToSet(noted)
      <3>1. PICK i \in 1..s : e = feed.seen[i]
        BY <2>3, <2>5 DEF Feeding!Seen, Feeding!ToSet
      <3>2. i \in DOMAIN noted /\ e = noted[i]
        BY <2>4, <3>1
      <3> QED BY <3>2 DEF Feeding!ToSet
    <2>6. ASSUME NEW i \in 1..m PROVE taken[i] \in Feeding!ToSet(noted)
      <3>1. s + i \in DOMAIN noted /\ taken[i] = noted[s + i]
        BY <2>4, <2>6
      <3> QED BY <3>1 DEF Feeding!ToSet
    <2> QED BY <2>2, <2>5, <2>6
  <1>9. kept \in Seq(Feeding!Entries)
    <2>1. CASE Len(noted) <= Remembered
      BY <1>3, <1>8, <2>1 DEF Feeding!Latest
    <2>2. CASE ~(Len(noted) <= Remembered)
      <3>1. PICK n \in Nat : n = Len(noted) /\ \A i \in 1..n : noted[i] \in Feeding!Entries
        BY <1>8
      <3>2. PICK from \in 1..n+1 : from = n - Remembered + 1
        BY <2>2, <3>1
      <3>3. kept = SubSeq(noted, from, n)
        BY <1>3, <2>2, <3>1, <3>2 DEF Feeding!Latest
      <3>4. from \in Int /\ n \in Int /\ \A i \in from..n : noted[i] \in Feeding!Entries
        BY <3>1, <3>2
      <3> QED BY <3>3, <3>4, SubSeqProperties
    <2> QED BY <2>1, <2>2
  <1>10. PICK dropped : dropped = Feeding!ToSet(noted) \ Feeding!ToSet(kept)
    OBVIOUS
  <1>11. PICK items : items = [k \in 1..m |-> Feeding!Queued(taken[k])]
    OBVIOUS
  <1>12. PICK p \in Nat : p = Len(feed.pending)
    BY <1>0 DEF FeedTypes
  <1>13. \A k \in 1..m : /\ items[k].turn = Feeding!Turn(taken[k])
                         /\ Feeding!Turn(taken[k]) = <<taken[k], forgotten[taken[k]]>> /\ items[k] \in Item
                         /\ ~Noted(Feeding!Turn(taken[k])) /\ Feeding!Turn(taken[k]) \notin baseline
                         /\ \A d \in Dests : <<Feeding!Turn(taken[k]), d>> \notin feedSent
    <2> SUFFICES ASSUME NEW k \in 1..m
                 PROVE  /\ items[k].turn = Feeding!Turn(taken[k])
                        /\ Feeding!Turn(taken[k]) = <<taken[k], forgotten[taken[k]]>> /\ items[k] \in Item
                        /\ ~Noted(Feeding!Turn(taken[k])) /\ Feeding!Turn(taken[k]) \notin baseline
                        /\ \A d \in Dests : <<Feeding!Turn(taken[k]), d>> \notin feedSent
      OBVIOUS
    <2>1. items[k] = [turn |-> Feeding!Turn(taken[k]), targets |-> [d \in Dests |-> "pending"]]
      BY <1>11 DEF Feeding!Queued
    <2>2. taken[k] \in Feeding!Entries /\ taken[k] \notin Feeding!Seen
      BY <1>7
    <2>3. /\ Feeding!Turn(taken[k]) = <<taken[k], forgotten[taken[k]]>> /\ Feeding!Turn(taken[k]) \in Turns
          /\ ~Noted(Feeding!Turn(taken[k])) /\ Feeding!Turn(taken[k]) \notin baseline
          /\ \A d \in Dests : <<Feeding!Turn(taken[k]), d>> \notin feedSent
      BY <1>0, <2>2, NewTurn
    <2>4. [d \in Dests |-> "pending"] \in [Dests -> PostStatus]
      BY DEF PostStatus
    <2>5. items[k] \in Item
      BY <2>1, <2>3, <2>4 DEF Item
    <2>6. items[k].turn = Feeding!Turn(taken[k])
      BY <2>1
    <2> QED BY <2>3, <2>5, <2>6
  <1>14. /\ DOMAIN feed' = DOMAIN feed /\ feed'.url = feed.url /\ feed'.initialized
         /\ feed'.seen = kept /\ feed'.pending = feed.pending \o items
    <2>1. DOMAIN taken = 1..m
      BY <1>7
    <2>2. feed' = [feed EXCEPT !.pending = feed.pending \o items, !.seen = kept]
      BY <1>3, <1>11, <2>1
    <2> QED BY <1>0, <1>1, <2>2 DEF FeedTypes
  <1>15. /\ feed'.pending \in Seq(Item) /\ Len(feed'.pending) = p + m
         /\ \A k \in 1..p : feed'.pending[k] = feed.pending[k]
         /\ \A k \in (p + 1)..(p + m) : k - p \in 1..m /\ feed'.pending[k] = items[k - p]
    <2>1. PICK old \in Seq(Item) : old = feed.pending
      BY <1>0 DEF FeedTypes
    <2>2. items \in [1..m -> Item]
      BY <1>11, <1>13
    <2>3. items \in Seq(Item) /\ Len(items) = m /\ Len(old) = p
      BY <1>12, <2>1, <2>2
    <2>4. /\ old \o items \in Seq(Item) /\ Len(old \o items) = Len(old) + Len(items)
          /\ \A k \in 1..Len(old) + Len(items) : (old \o items)[k] = IF k <= Len(old) THEN old[k] ELSE items[k - Len(old)]
      BY <2>1, <2>3, ConcatProperties
    <2>5. PICK both : both = old \o items /\ feed'.pending = both
      BY <1>14, <2>1
    <2>6. /\ both \in Seq(Item) /\ Len(both) = p + m
          /\ \A k \in 1..(p + m) : both[k] = IF k <= p THEN old[k] ELSE items[k - p]
      BY <2>3, <2>4, <2>5
    <2>7. /\ \A k \in 1..p : both[k] = old[k]
          /\ \A k \in (p + 1)..(p + m) : k - p \in 1..m /\ both[k] = items[k - p]
      BY <2>6
    <2> QED BY <2>1, <2>5, <2>6, <2>7
  <1>16. (Feeding!Seen)' = Feeding!ToSet(kept) /\ Feeding!Forget(dropped)
    BY <1>3, <1>10, <1>14 DEF Feeding!Seen, Feeding!ToSet
  <1>17. \A turn \in Turns : Noted(turn) => Noted(turn)'
    <2>1. Feeding!Seen \ dropped \subseteq (Feeding!Seen)'
      BY <1>8, <1>10, <1>16
    <2> QED BY <1>0, <1>16, <2>1, NotedStays
  <1>18. \A k \in 1..m : Noted(items[k].turn)'
    <2> SUFFICES ASSUME NEW k \in 1..m PROVE Noted(items[k].turn)'
      OBVIOUS
    <2>1. PICK e, turn : e = taken[k] /\ turn = <<e, forgotten[e]>>
      OBVIOUS
    <2>2. items[k].turn = turn /\ e \in Feeding!Entries /\ e \in Feeding!ToSet(noted)
      <3>1. e \in Feeding!Entries /\ e \in Feeding!ToSet(noted)
        BY <1>7, <1>8, <2>1
      <3>2. items[k].turn = Feeding!Turn(taken[k]) /\ Feeding!Turn(taken[k]) = <<taken[k], forgotten[taken[k]]>>
        BY <1>13
      <3> QED BY <2>1, <3>1, <3>2
    <2>3. forgotten[e] \in Nat /\ forgotten'[e] = forgotten[e] + (IF e \in dropped THEN 1 ELSE 0)
      BY <1>0, <1>16, <2>2 DEF FeedTypes, Feeding!Forget
    <2>4. e \in dropped \/ e \in (Feeding!Seen)'
      BY <1>10, <1>16, <2>2
    <2>5. forgotten[e] <= forgotten'[e] /\ (forgotten[e] = forgotten'[e] => e \in (Feeding!Seen)')
      BY <2>3, <2>4
    <2>6. turn[1] = e /\ turn[2] = forgotten[e]
      BY <2>1
    <2> QED BY <2>2, <2>5, <2>6 DEF Noted
  <1>19. FeedTypes'
    BY <1>0, <1>1, <1>9, <1>14, <1>15, <1>16, ForgetTyped DEF FeedTypes
  <1>20. SeenInv'
    BY <1>0, <1>1, <1>17, SeenStays
  <1>d. PICK queue : queue = feed'.pending
    OBVIOUS
  <1>21. \A k \in 1..(p + m) : Awaited(queue[k])'
    <2> SUFFICES ASSUME NEW k \in 1..(p + m) PROVE Awaited(queue[k])'
      OBVIOUS
    <2>1. CASE k \in 1..p
      <3>1. PICK item \in Item : item = feed.pending[k] /\ Awaited(item)
        BY <1>0, <1>12, <2>1 DEF QueueInv, FeedTypes
      <3>2. item.turn \in Turns /\ queue[k] = item
        BY <1>15, <1>d, <2>1, <3>1 DEF Item
      <3>3. Noted(item.turn)' /\ item.turn \notin baseline
        BY <1>17, <3>1, <3>2 DEF Awaited
      <3>4. Awaited(item)'
        BY <1>1, <3>1, <3>3 DEF Awaited
      <3> QED BY <3>2, <3>4
    <2>2. CASE k \in (p + 1)..(p + m)
      <3>1. k - p \in 1..m /\ queue[k] = items[k - p]
        BY <1>15, <1>d, <2>2
      <3>2. PICK item : item = items[k - p]
        OBVIOUS
      <3>a. PICK i \in 1..m : i = k - p
        BY <3>1
      <3>b. item = items[i] /\ item.turn = Feeding!Turn(taken[i])
        BY <1>13, <3>2, <3>a
      <3>c. item.turn \notin baseline /\ \A d \in Dests : <<item.turn, d>> \notin feedSent
        BY <1>13, <3>b
      <3>3. Noted(item.turn)' /\ item.turn \notin baseline /\ \A d \in Dests : <<item.turn, d>> \notin feedSent
        BY <1>18, <3>b, <3>c
      <3>4. Awaited(item)'
        BY <1>1, <3>3 DEF Awaited
      <3> QED BY <3>1, <3>2, <3>4
    <2> QED BY <2>1, <2>2
  <1>22. \A k, l \in 1..(p + m) : feed'.pending[k].turn = feed'.pending[l].turn => k = l
    <2> SUFFICES ASSUME NEW k \in 1..(p + m), NEW l \in 1..(p + m), feed'.pending[k].turn = feed'.pending[l].turn, k < l
                 PROVE  FALSE
      OBVIOUS
    <2>1. CASE l \in 1..p
      <3>1. k \in 1..p
        BY <1>12, <2>1
      <3>2. feed.pending[k].turn = feed.pending[l].turn
        BY <1>15, <2>1, <3>1
      <3>3. k = l
        BY <1>0, <1>12, <2>1, <3>1, <3>2 DEF QueueInv
      <3> QED BY <3>1, <3>3
    <2>2. CASE l \in (p + 1)..(p + m) /\ k \in 1..p
      <3>1. Noted(feed'.pending[k].turn)
        BY <1>0, <1>12, <1>15, <2>2 DEF QueueInv, Awaited
      <3>2. ~Noted(feed'.pending[l].turn)
        <4>1. PICK j \in 1..m : j = l - p /\ feed'.pending[l] = items[j]
          BY <1>15, <2>2
        <4>2. items[j].turn = Feeding!Turn(taken[j]) /\ ~Noted(Feeding!Turn(taken[j]))
          BY <1>13
        <4> QED BY <4>1, <4>2
      <3> QED BY <3>1, <3>2
    <2>3. CASE l \in (p + 1)..(p + m) /\ k \in (p + 1)..(p + m)
      <3>1. PICK i \in 1..m, j \in 1..m : i = k - p /\ j = l - p
        <4>1. k - p \in 1..m /\ l - p \in 1..m
          BY <1>15, <2>3
        <4> QED BY <4>1
      <3>2. feed'.pending[k] = items[i] /\ feed'.pending[l] = items[j]
        BY <1>15, <2>3, <3>1
      <3>3. items[i].turn = <<taken[i], forgotten[taken[i]]>> /\ items[j].turn = <<taken[j], forgotten[taken[j]]>>
        BY <1>13
      <3>4. fresh[i] = fresh[j]
        BY <1>7, <3>2, <3>3
      <3>5. i \in 1..Len(fresh) /\ j \in 1..Len(fresh)
        BY <1>5, <1>6
      <3>6. i = j
        BY <1>4, <3>4, <3>5
      <3> QED BY <3>1, <3>6
    <2> QED BY <2>1, <2>2, <2>3
  <1>23. QueueInv'
    BY <1>14, <1>15, <1>21, <1>22, <1>d DEF QueueInv
  <1> QED BY <1>2, <1>19, <1>20, <1>23 DEF FeedIInv

(* The queue before and after a step that changes what is noted of         *)
(* destinations: nothing is opened again, and what arrives was being sent. *)
SameQueue(queue) ==
  /\ queue \in Seq(Item) /\ Len(queue) = Len(feed.pending)
  /\ \A l \in 1..Len(feed.pending) :
       /\ queue[l].turn = feed.pending[l].turn
       /\ \A c \in Dests : queue[l].targets[c] \in Open => feed.pending[l].targets[c] \in Open
Delivered(queue, messages) ==
  \A x \in messages : \E l \in 1..Len(feed.pending), c \in Dests :
    /\ x = <<feed.pending[l].turn, c>> /\ feed.pending[l].targets[c] = "sending" /\ queue[l].targets[c] \notin Open

LEMMA QueueMoves ==
  ASSUME FeedTypes, QueueInv, SeenInv, NEW queue, SameQueue(queue), NEW messages, Delivered(queue, messages),
         feed' = [feed EXCEPT !.pending = queue], UNCHANGED <<source, forgotten, baseline, copies>>, feedStops' \in Nat,
         feedSent' = feedSent \cup messages, feedTwice' = feedTwice \cup (messages \cap feedSent)
  PROVE  FeedTypes' /\ QueueInv' /\ SeenInv'
  <1>1. /\ DOMAIN feed' = DOMAIN feed /\ feed'.url = feed.url /\ feed'.initialized = feed.initialized
        /\ feed'.seen = feed.seen /\ feed'.pending = queue
    BY DEF FeedTypes
  <1>2. PICK p \in Nat : p = Len(feed.pending) /\ p = Len(queue)
    BY DEF FeedTypes, SameQueue
  <1>3. \A l \in 1..p : feed.pending[l] \in Item /\ feed.pending[l].turn \in Turns /\ queue[l].turn = feed.pending[l].turn
    <2>0. feed.pending \in Seq(Item)
      BY DEF FeedTypes
    <2>b. \A l \in 1..Len(feed.pending) : feed.pending[l] \in Item
      BY <2>0
    <2>1. \A l \in 1..p : feed.pending[l] \in Item
      BY <1>2, <2>b
    <2>2. \A l \in 1..p : queue[l].turn = feed.pending[l].turn
      BY <1>2 DEF SameQueue
    <2>3. \A l \in 1..p : feed.pending[l].turn \in Turns
      BY <2>1 DEF Item
    <2> QED BY <2>1, <2>2, <2>3
  <1>4. \A turn : Noted(turn) => Noted(turn)'
    <2>1. feed'.seen = feed.seen /\ forgotten' = forgotten
      BY <1>1
    <2> QED BY <2>1, NotedSame
  <1>5. \A x \in messages : /\ x \in Turns \X Dests /\ Noted(x[1]) /\ x[1] \notin baseline /\ x \notin feedSent
                            /\ \A l \in 1..p, c \in Dests : x = <<queue[l].turn, c>> => queue[l].targets[c] \notin Open
    <2> SUFFICES ASSUME NEW x \in messages
                 PROVE  /\ x \in Turns \X Dests /\ Noted(x[1]) /\ x[1] \notin baseline /\ x \notin feedSent
                        /\ \A l \in 1..p, c \in Dests : x = <<queue[l].turn, c>> => queue[l].targets[c] \notin Open
      OBVIOUS
    <2>1. PICK k \in 1..p, d \in Dests :
            x = <<feed.pending[k].turn, d>> /\ feed.pending[k].targets[d] = "sending" /\ queue[k].targets[d] \notin Open
      BY <1>2 DEF Delivered
    <2>2. Awaited(feed.pending[k]) /\ x \in Turns \X Dests /\ x[1] = feed.pending[k].turn
      BY <1>2, <1>3, <2>1 DEF QueueInv
    <2>3. Noted(x[1]) /\ x[1] \notin baseline /\ x \notin feedSent
      BY <2>1, <2>2 DEF Awaited, Open
    <2>4. \A l \in 1..p, c \in Dests : x = <<queue[l].turn, c>> => l = k /\ c = d
      BY <1>2, <1>3, <2>1 DEF QueueInv
    <2> QED BY <2>1, <2>2, <2>3, <2>4
  <1>6. FeedTypes'
    BY <1>1, <1>5 DEF FeedTypes, SameQueue
  <1>7. SeenInv'
    <2>1. feedTwice' = {}
      BY <1>5 DEF SeenInv
    <2>2. \A turn \in baseline' : Noted(turn)'
      BY <1>4 DEF SeenInv
    <2>3. \A x \in feedSent' : Noted(x[1])'
      BY <1>4, <1>5 DEF SeenInv
    <2>4. \A turn \in baseline', d \in Dests : <<turn, d>> \notin feedSent'
      BY <1>5 DEF SeenInv
    <2> QED BY <2>1, <2>2, <2>3, <2>4 DEF SeenInv
  <1>8. \A l \in 1..p : Awaited(queue[l])'
    <2> SUFFICES ASSUME NEW l \in 1..p PROVE Awaited(queue[l])'
      OBVIOUS
    <2>1. Awaited(feed.pending[l]) /\ queue[l].turn = feed.pending[l].turn
      BY <1>2, <1>3 DEF QueueInv
    <2>2. \A c \in Dests : queue[l].targets[c] \in Open => <<queue[l].turn, c>> \notin feedSent'
      BY <1>2, <1>5, <2>1 DEF Awaited, SameQueue
    <2>3. Noted(queue[l].turn)' /\ queue[l].turn \notin baseline'
      BY <1>1, <1>4, <2>1 DEF Awaited
    <2>4. PICK item : item = queue[l]
      OBVIOUS
    <2>5. Noted(item.turn)'
      BY <1>1, <1>4, <2>1, <2>4 DEF Awaited
    <2>6. Awaited(item)'
      BY <2>2, <2>3, <2>4, <2>5 DEF Awaited
    <2> QED BY <2>4, <2>6
  <1>9. QueueInv'
    <2>1. \A k, l \in 1..p : queue[k].turn = queue[l].turn => k = l
      BY <1>2, <1>3 DEF QueueInv
    <2>2. ~feed.initialized => queue = <<>> /\ feed.seen = <<>>
      <3>1. ~feed.initialized => p = 0 /\ feed.seen = <<>>
        BY <1>2 DEF QueueInv
      <3> QED BY <1>2, <3>1 DEF SameQueue
    <2> QED BY <1>1, <1>2, <1>8, <2>1, <2>2 DEF QueueInv
  <1> QED BY <1>6, <1>7, <1>9

(* A mark changes one destination of one entry.                            *)
LEMMA MarkIs ==
  ASSUME FeedTypes, NEW k \in 1..Len(feed.pending), NEW d \in Dests, NEW status \in PostStatus,
         feed' = Feeding!Mark(k, d, status), feed.pending[k].targets[d] \in Open
  PROVE  \E queue : /\ feed' = [feed EXCEPT !.pending = queue] /\ SameQueue(queue)
                    /\ queue[k].targets[d] = status
  <1>1. PICK item : item = feed.pending[k]
    OBVIOUS
  <1>2. feed.pending \in Seq(Item) /\ item \in Item
    BY <1>1 DEF FeedTypes
  <1>3. PICK marks : marks = [item.targets EXCEPT ![d] = status]
    OBVIOUS
  <1>4. marks \in [Dests -> PostStatus] /\ \A c \in Dests : marks[c] = IF c = d THEN status ELSE item.targets[c]
    BY <1>2, <1>3 DEF Item
  <1>5. PICK marked : marked = [item EXCEPT !.targets = marks]
    OBVIOUS
  <1>6. marked \in Item /\ marked.turn = item.turn /\ marked.targets = marks
    BY <1>2, <1>4, <1>5 DEF Item
  <1>7. PICK queue : queue = [feed.pending EXCEPT ![k] = marked]
    OBVIOUS
  <1>8. queue \in Seq(Item) /\ Len(queue) = Len(feed.pending)
        /\ \A l \in 1..Len(feed.pending) : queue[l] = IF l = k THEN marked ELSE feed.pending[l]
    BY <1>2, <1>6, <1>7
  <1>9. feed' = [feed EXCEPT !.pending = queue]
    BY <1>1, <1>3, <1>5, <1>7 DEF Feeding!Mark
  <1>10. \A l \in 1..Len(feed.pending) :
           /\ queue[l].turn = feed.pending[l].turn
           /\ \A c \in Dests : queue[l].targets[c] \in Open => feed.pending[l].targets[c] \in Open
    BY <1>1, <1>4, <1>6, <1>8
  <1> QED BY <1>4, <1>6, <1>8, <1>9, <1>10 DEF SameQueue

LEMMA FeedSends ==
  ASSUME FeedIInv, Window \in Nat, NEW k \in 1..Window, NEW d \in Dests, Feeding!SendEntry(k, d)
  PROVE  FeedIInv'
  <1>0. FeedTypes /\ QueueInv /\ SeenInv /\ CopyInv /\ feedStops \in Nat
    BY DEF FeedIInv, FeedTypes
  <1>1. /\ feed' = Feeding!Mark(k, d, "sending") /\ feed.pending[k].targets[d] = "pending"
        /\ UNCHANGED <<source, forgotten, feedSent, feedTwice, baseline, posts, copied, copies, feedStops>>
    BY DEF Feeding!SendEntry, Feeding!channelVars, Feeding!sentVars
  <1>2. k \in 1..Len(feed.pending)
    BY <1>0 DEF Feeding!SendEntry, Feeding!AtHand, FeedTypes
  <1>3. PICK queue : feed' = [feed EXCEPT !.pending = queue] /\ SameQueue(queue)
    BY <1>0, <1>1, <1>2, MarkIs DEF PostStatus, Open
  <1>4. Delivered(queue, {})
    BY DEF Delivered
  <1>5. FeedTypes' /\ QueueInv' /\ SeenInv'
    BY <1>0, <1>1, <1>3, <1>4, QueueMoves
  <1>6. CopyInv'
    BY <1>0, <1>1 DEF CopyInv, Unmarked
  <1> QED BY <1>5, <1>6 DEF FeedIInv

LEMMA FeedAnswers ==
  ASSUME FeedIInv, Window \in Nat, NEW k \in 1..Window, NEW d \in Dests, Feeding!EntryAnswered(k, d)
  PROVE  FeedIInv'
  <1>0. FeedTypes /\ QueueInv /\ SeenInv /\ CopyInv /\ feedStops \in Nat
    BY DEF FeedIInv, FeedTypes
  <1>1. /\ k \in Feeding!AtHand /\ feed.pending[k].targets[d] = "sending"
        /\ UNCHANGED <<source, forgotten, baseline, posts, copied, copies, feedStops>>
    BY DEF Feeding!EntryAnswered, Feeding!channelVars, Feeding!InFlight
  <1>2. k \in 1..Len(feed.pending)
    BY <1>0, <1>1 DEF Feeding!AtHand, FeedTypes
  <1>3. PICK status \in {"sent", "review", "failed"} :
          /\ feed' = Feeding!Mark(k, d, status)
          /\ Feeding!Arrive({Feeding!MessageOf(<<k, d>>)}) \/ UNCHANGED <<feedSent, feedTwice>>
    BY DEF Feeding!EntryAnswered, Feeding!sentVars
  <1>4. PICK queue : /\ feed' = [feed EXCEPT !.pending = queue] /\ SameQueue(queue)
                     /\ queue[k].targets[d] = status
    BY <1>0, <1>1, <1>2, <1>3, MarkIs DEF PostStatus, Open
  <1>5. PICK messages \in {{}, {<<feed.pending[k].turn, d>>}} :
          feedSent' = feedSent \cup messages /\ feedTwice' = feedTwice \cup (messages \cap feedSent)
    BY <1>3 DEF Feeding!Arrive, Feeding!MessageOf
  <1>6. Delivered(queue, messages)
    BY <1>1, <1>2, <1>3, <1>4, <1>5 DEF Delivered, Open
  <1>7. FeedTypes' /\ QueueInv' /\ SeenInv'
    BY <1>0, <1>1, <1>4, <1>5, <1>6, QueueMoves
  <1>8. CopyInv'
    BY <1>0, <1>1 DEF CopyInv, Unmarked
  <1> QED BY <1>7, <1>8 DEF FeedIInv

LEMMA FeedEvicts ==
  ASSUME FeedIInv, Window \in Nat, Feeding!FeedEvicted
  PROVE  FeedIInv'
  <1>0. FeedTypes /\ QueueInv /\ SeenInv /\ CopyInv /\ feed.pending \in Seq(Item)
    BY DEF FeedIInv, FeedTypes
  <1>1. UNCHANGED <<source, forgotten, baseline, posts, copied, copies>> /\ feedStops' = feedStops + 1
    BY DEF Feeding!FeedEvicted, Feeding!channelVars
  <1>2. PICK messages \in {{}, {Feeding!MessageOf(x) : x \in Feeding!InFlight}} :
          feedSent' = feedSent \cup messages /\ feedTwice' = feedTwice \cup (messages \cap feedSent)
    BY DEF Feeding!FeedEvicted, Feeding!Arrive, Feeding!sentVars
  <1>3. PICK queue : queue = [k \in DOMAIN feed.pending |-> [feed.pending[k] EXCEPT !.targets =
               [d \in Dests |-> IF feed.pending[k].targets[d] = "sending" THEN Feeding!Interrupted
                                ELSE feed.pending[k].targets[d]]]]
    OBVIOUS
  <1>4. feed' = [feed EXCEPT !.pending = queue]
    BY <1>3 DEF Feeding!FeedEvicted
  <1>5. Len(feed.pending) \in Nat /\ DOMAIN feed.pending = 1..Len(feed.pending)
        /\ \A k \in 1..Len(feed.pending) : feed.pending[k] \in Item
    BY <1>0
  <1>6. \A k \in 1..Len(feed.pending) :
          /\ queue[k] \in Item /\ queue[k].turn = feed.pending[k].turn
          /\ \A d \in Dests : queue[k].targets[d] =
                IF feed.pending[k].targets[d] = "sending" THEN "review" ELSE feed.pending[k].targets[d]
    <2> SUFFICES ASSUME NEW k \in 1..Len(feed.pending)
                 PROVE  /\ queue[k] \in Item /\ queue[k].turn = feed.pending[k].turn
                        /\ \A d \in Dests : queue[k].targets[d] =
                              IF feed.pending[k].targets[d] = "sending" THEN "review" ELSE feed.pending[k].targets[d]
      OBVIOUS
    <2>1. PICK marks : marks = [d \in Dests |-> IF feed.pending[k].targets[d] = "sending" THEN "review"
                                                ELSE feed.pending[k].targets[d]]
      OBVIOUS
    <2>2. marks \in [Dests -> PostStatus]
      BY <1>5, <2>1 DEF Item, PostStatus
    <2>3. queue[k] = [feed.pending[k] EXCEPT !.targets = marks]
      BY <1>3, <1>5, <2>1 DEF Feeding!Interrupted
    <2> QED BY <1>5, <2>1, <2>2, <2>3 DEF Item
  <1>7. queue \in Seq(Item) /\ Len(queue) = Len(feed.pending)
    <2>1. queue \in [1..Len(feed.pending) -> Item]
      <3>1. DOMAIN queue = 1..Len(feed.pending) /\ queue = [k \in 1..Len(feed.pending) |-> queue[k]]
        BY <1>3, <1>5
      <3> QED BY <1>6, <3>1
    <2> QED BY <1>5, <2>1
  <1>8. SameQueue(queue)
    BY <1>6, <1>7 DEF SameQueue, Open
  <1>9. Delivered(queue, messages)
    <2> SUFFICES ASSUME NEW x \in Feeding!InFlight
                 PROVE  \E l \in 1..Len(feed.pending), c \in Dests :
                          /\ Feeding!MessageOf(x) = <<feed.pending[l].turn, c>> /\ feed.pending[l].targets[c] = "sending"
                          /\ queue[l].targets[c] \notin Open
      BY <1>2 DEF Delivered
    <2>1. PICK l \in Feeding!AtHand, c \in Dests : x = <<l, c>> /\ feed.pending[l].targets[c] = "sending"
      BY DEF Feeding!InFlight
    <2>2. l \in 1..Len(feed.pending)
      BY <1>5 DEF Feeding!AtHand
    <2>3. queue[l].targets[c] = "review" /\ Feeding!MessageOf(x) = <<feed.pending[l].turn, c>>
      BY <1>6, <2>1, <2>2 DEF Feeding!MessageOf
    <2> QED BY <2>1, <2>2, <2>3 DEF Open
  <1>10. feedStops \in Nat /\ feedStops' \in Nat /\ feedStops <= feedStops' /\ copies \in Nat
    BY <1>0, <1>1 DEF FeedTypes
  <1>11. FeedTypes' /\ QueueInv' /\ SeenInv'
    BY <1>0, <1>1, <1>2, <1>4, <1>8, <1>9, <1>10, QueueMoves
  <1>12. CopyInv'
    BY <1>0, <1>1, <1>10, CopyKeeps
  <1> QED BY <1>11, <1>12 DEF FeedIInv

LEMMA FeedEnds ==
  ASSUME FeedIInv, Feeding!EndScan
  PROVE  FeedIInv'
  <1>0. FeedTypes /\ QueueInv /\ SeenInv /\ CopyInv /\ feed.pending \in Seq(Item)
    BY DEF FeedIInv, FeedTypes
  <1> DEFINE kept == {k \in DOMAIN feed.pending : Feeding!Unfinished(feed.pending[k])}
  <1>1. UNCHANGED <<source, forgotten, feedSent, feedTwice, baseline, posts, copied, copies, feedStops>>
    BY DEF Feeding!EndScan, Feeding!channelVars, Feeding!sentVars
  <1>2. kept \subseteq 1..Len(feed.pending) /\ Len(feed.pending) \in Nat
    BY <1>0
  <1>3. PICK order \in [1..Cardinality(kept) -> kept] :
          /\ \A i, j \in DOMAIN order : i < j => order[i] < order[j]
          /\ feed' = [feed EXCEPT !.pending = [i \in DOMAIN order |-> feed.pending[order[i]]]]
    BY FeedCount DEF Feeding!EndScan
  <1>4. PICK n \in Nat : n = Cardinality(kept)
    <2>1. IsFiniteSet(1..Len(feed.pending))
      <3>1. 1 \in Int /\ Len(feed.pending) \in Int
        BY <1>2
      <3> QED BY <3>1, FS_Interval
    <2>2. IsFiniteSet(kept)
      BY <1>2, <2>1, FS_Subset
    <2> QED BY <2>2, FS_CardinalityType
  <1> HIDE DEF kept
  <1>5. DOMAIN order = 1..n /\ \A i \in 1..n : order[i] \in 1..Len(feed.pending)
    BY <1>2, <1>3, <1>4
  <1>6. \A i, j \in 1..n : order[i] = order[j] => i = j
    <2> SUFFICES ASSUME NEW i \in 1..n, NEW j \in 1..n, order[i] = order[j]
                 PROVE  i = j
      OBVIOUS
    <2>1. order[i] \in Nat /\ order[j] \in Nat /\ i \in Nat /\ j \in Nat
      BY <1>2, <1>5
    <2>2. ~(i < j) /\ ~(j < i)
      BY <1>3, <1>5, <2>1
    <2> QED BY <2>1, <2>2
  <1>7. PICK queue : queue = [i \in 1..n |-> feed.pending[order[i]]]
    OBVIOUS
  <1>8. queue \in Seq(Item) /\ Len(queue) = n
    <2>1. \A i \in 1..n : feed.pending[order[i]] \in Item
      BY <1>0, <1>5
    <2>2. queue \in [1..n -> Item]
      BY <1>7, <2>1
    <2> QED BY <1>7, <2>2
  <1>9. feed' = [feed EXCEPT !.pending = queue]
    BY <1>3, <1>5, <1>7
  <1>10. /\ DOMAIN feed' = DOMAIN feed /\ feed'.url = feed.url /\ feed'.initialized = feed.initialized
         /\ feed'.seen = feed.seen /\ feed'.pending = queue
    BY <1>0, <1>9 DEF FeedTypes
  <1>11. FeedTypes'
    BY <1>0, <1>1, <1>8, <1>10 DEF FeedTypes
  <1>12. \A turn : Noted(turn) => Noted(turn)'
    BY <1>1, <1>10, NotedSame
  <1>13. SeenInv'
    BY <1>0, <1>1, <1>12, SeenStays
  <1>14. CopyInv'
    BY <1>0, <1>1 DEF CopyInv, Unmarked
  <1>15. ~feed.initialized => queue = <<>> /\ feed.seen = <<>>
    <2>1. ~feed.initialized => n = 0 /\ feed.seen = <<>>
      BY <1>0, <1>2, <1>5 DEF QueueInv
    <2> QED BY <1>7, <1>8, <2>1
  <1>16. \A i \in 1..n : Awaited(queue[i])'
    <2> SUFFICES ASSUME NEW i \in 1..n PROVE Awaited(queue[i])'
      OBVIOUS
    <2>1. PICK item : item = feed.pending[order[i]] /\ item = queue[i] /\ Awaited(item)
      BY <1>0, <1>5, <1>7 DEF QueueInv
    <2>2. Awaited(item)'
      BY <1>1, <1>12, <2>1 DEF Awaited
    <2> QED BY <1>7, <1>10, <2>1, <2>2
  <1>17. \A i, j \in 1..n : queue[i].turn = queue[j].turn => i = j
    <2> SUFFICES ASSUME NEW i \in 1..n, NEW j \in 1..n, queue[i].turn = queue[j].turn
                 PROVE  i = j
      OBVIOUS
    <2>1. /\ queue[i] = feed.pending[order[i]] /\ order[i] \in 1..Len(feed.pending)
          /\ queue[j] = feed.pending[order[j]] /\ order[j] \in 1..Len(feed.pending)
      BY <1>5, <1>7
    <2>2. order[i] = order[j]
      BY <1>0, <2>1 DEF QueueInv
    <2> QED BY <1>6, <2>2
  <1>18. QueueInv'
    BY <1>8, <1>10, <1>15, <1>16, <1>17 DEF QueueInv
  <1> QED BY <1>11, <1>13, <1>14, <1>18 DEF FeedIInv

LEMMA FeedEdits ==
  ASSUME FeedIInv, NEW url \in Addresses, Feeding!EditFeed(url)
  PROVE  FeedIInv'
  <1>0. FeedTypes /\ QueueInv /\ SeenInv /\ CopyInv
    BY DEF FeedIInv
  <1>1. UNCHANGED <<source, feedSent, feedTwice, baseline, posts, copied, copies, feedStops>>
    BY DEF Feeding!EditFeed, Feeding!channelVars, Feeding!sentVars
  <1>2. CopyInv'
    BY <1>0, <1>1 DEF CopyInv, Unmarked
  <1>3. CASE feed' = feed /\ forgotten' = forgotten
    <2>1. FeedTypes'
      BY <1>0, <1>1, <1>3 DEF FeedTypes
    <2> QED BY <1>0, <1>1, <1>2, <1>3, <2>1, FeedUntouched DEF FeedIInv
  <1>4. CASE feed' = [url |-> url, initialized |-> FALSE, seen |-> <<>>, pending |-> <<>>] /\ Feeding!Forget(Feeding!Seen)
    <2>1. /\ DOMAIN feed' = {"url", "initialized", "seen", "pending"} /\ feed'.url \in Addresses /\ ~feed'.initialized
          /\ feed'.seen = <<>> /\ feed'.pending = <<>>
      BY <1>4
    <2>2. FeedTypes'
      BY <1>0, <1>1, <1>4, <2>1, ForgetTyped DEF FeedTypes
    <2>3. PICK old : old = Feeding!Seen /\ Feeding!Forget(old)
      BY <1>4
    <2>4. Feeding!Seen \ old \subseteq (Feeding!Seen)'
      BY <2>3
    <2>5. \A turn \in Turns : Noted(turn) => Noted(turn)'
      BY <1>0, <2>3, <2>4, NotedStays
    <2>6. SeenInv'
      BY <1>0, <1>1, <2>5, SeenStays
    <2>7. QueueInv'
      BY <2>1 DEF QueueInv
    <2> QED BY <1>2, <2>2, <2>6, <2>7 DEF FeedIInv
  <1> QED BY <1>3, <1>4 DEF Feeding!EditFeed

FeedSizes == PerSource \in Nat /\ Window \in Nat /\ QueueBound \in Nat /\ Remembered \in Nat

LEMMA FeedStep ==
  ASSUME FeedSizes, FeedIInv, Feeding!FeedsNext
  PROVE  FeedIInv'
  <1>0. PerSource \in Nat /\ Window \in Nat /\ QueueBound \in Nat /\ Remembered \in Nat
    BY DEF FeedSizes
  <1>1. CASE Feeding!FeedNext
    BY <1>0, <1>1, FeedFirst, FeedScans, FeedEnds, FeedEvicts, FeedEdits, FeedPublishes, FeedSends, FeedAnswers
    DEF Feeding!FeedNext
  <1>2. CASE Feeding!ChannelNext
    BY <1>2, FeedCopies DEF Feeding!ChannelNext
  <1> QED BY <1>1, <1>2 DEF Feeding!FeedsNext

LEMMA FeedKeeps == FeedIInv /\ UNCHANGED feedsState => FeedIInv'
  <1> SUFFICES ASSUME FeedIInv, UNCHANGED feedsState PROVE FeedIInv'
    OBVIOUS
  <1>1. FeedTypes' /\ CopyInv'
    BY DEF FeedIInv, FeedTypes, CopyInv, Unmarked, feedsState
  <1> QED BY <1>1, FeedUntouched DEF FeedIInv, feedsState

LEMMA FeedsAlone == [Next]_allVars => Feeding!FeedsNext \/ UNCHANGED feedsState
  BY DEF Next, Rest, allVars, Feeding!FeedsNext

\* A destination gets a feed's entry once, whatever is interrupted and however
\* often the feed's address is changed, and never one the source showed when
\* the feed first read it, unless the feed has forgotten the entry since, for
\* any sizes of its queue, of its memory and of what it reads; a channel post is
\* copied once, and once more for every eviction that lost a mark (feedTick,
\* channelPost in src/src/automation.js).
THEOREM PostsOnce == Spec => []EveryPostOnce
  <1>0. FeedSizes
    BY PartsAssumption DEF PartsAssumption, FeedSizes
  <1>1. Init => FeedIInv
    BY <1>0, FeedInitially DEF Init, FeedSizes
  <1>2. FeedIInv /\ [Next]_allVars => FeedIInv'
    BY <1>0, FeedStep, FeedKeeps, FeedsAlone
  <1>3. FeedIInv => EveryPostOnce
    BY FeedPromise DEF EveryPostOnce
  <1> QED BY <1>1, <1>2, <1>3, PTL DEF Spec

-----------------------------------------------------------------------------
(* Market rates                                                            *)

RateRow(by) == [live : BOOLEAN, usdLive : BOOLEAN, from : SUBSET (DOMAIN by \cup {"fx", "static"})]

(* What the sources of a refresh may have answered.                        *)
AnswersFine(by) ==
  /\ DOMAIN by \subseteq Feeds \cup Sites
  /\ \A s \in DOMAIN by : by[s] \subseteq Quotable(s) /\ by[s] # {}

QuotedEarlier(by, n, r) == \E k \in 1..n : Quotes(by, FeedOrder[k], r)

(* After n feeds a row is that of the first that quoted it, and it is live *)
(* only if one did, but for the dollar, which may mirror the tether, and   *)
(* the coin, which may have been calculated from its price in dollars.     *)
RowAfter(row, by, n, r) ==
  /\ row \in RateRow(by)
  /\ \A i \in 1..n :
       FirstQuoter(by, i, r) /\ (r = "usd" => i <= 2) => row.live /\ row.from = {FeedOrder[i]}
  /\ row.live /\ ~QuotedEarlier(by, n, r) => (r = "usd" /\ n >= 3) \/ (r = "btc" /\ n >= 6)

TableAfter(t, by, n) ==
  /\ t = [r \in Rows |-> t[r]]
  /\ \A r \in Rows : RowAfter(t[r], by, n, r)
  /\ ~t["btc"].live /\ t["btc"].usdLive => "kraken" \in DOMAIN by

(* One source, as the refresh applies it.                                  *)
Applied(by, s, t) == IF s \in DOMAIN by THEN Parse(s, t, by[s]) ELSE t

LEMMA FeedNames ==
  /\ FeedOrder[1] = "tgju" /\ FeedOrder[2] = "bonbast" /\ FeedOrder[3] = "nobitex"
  /\ FeedOrder[4] = "tetherland" /\ FeedOrder[5] = "swapwallet" /\ FeedOrder[6] = "coingecko"
  /\ FeedOrder[7] = "kraken" /\ FeedOrder[8] = "goldapi" /\ FeedOrder[9] = "ratejson"
  /\ DOMAIN FeedOrder = 1..9
  /\ SiteOrder[1] = "alanchand" /\ SiteOrder[2] = "moj3" /\ SiteOrder[3] = "isignal"
  /\ DOMAIN SiteOrder = 1..3
  BY DEF FeedOrder, SiteOrder

GapsFilled(t, rows, s) == Quoted(t, rows, s, TRUE)

LEMMA GapRow ==
  ASSUME NEW t, NEW rows, NEW s, NEW by, NEW r \in Rows, t[r] \in RateRow(by), s \in DOMAIN by
  PROVE  /\ GapsFilled(t, rows, s)[r] \in RateRow(by)
         /\ GapsFilled(t, rows, s)[r].usdLive = t[r].usdLive
         /\ r \in rows /\ ~t[r].live => GapsFilled(t, rows, s)[r].live /\ GapsFilled(t, rows, s)[r].from = {s}
         /\ r \notin rows \/ t[r].live => GapsFilled(t, rows, s)[r] = t[r]
  BY DEF GapsFilled, Quoted, RateRow

LEMMA NothingToOverwrite ==
  ASSUME NEW t, NEW rows, NEW s, \A r \in Rows : r \in rows => ~t[r].live
  PROVE  Quoted(t, rows, s, FALSE) = GapsFilled(t, rows, s)
  BY DEF GapsFilled, Quoted

(* A row nobody had is the feed's that quotes it, a row that is live stays *)
(* as it is.                                                               *)
LEMMA NextFeed ==
  ASSUME NEW by, NEW n \in 0..8, NEW r \in Rows, NEW old, NEW row, RowAfter(old, by, n, r), row \in RateRow(by),
         NEW quotes \in BOOLEAN, quotes = Quotes(by, FeedOrder[n + 1], r),
         old.live => row = old,
         quotes /\ ~old.live => row.live /\ row.from = {FeedOrder[n + 1]},
         ~quotes /\ ~old.live /\ row.live => (r = "usd" /\ n >= 2) \/ (r = "btc" /\ n >= 5),
         quotes /\ r = "btc" => n < 6
  PROVE  RowAfter(row, by, n + 1, r)
  <1> DEFINE first(i) == FirstQuoter(by, i, r) /\ (r = "usd" => i <= 2)
  <1>1. \A i \in 1..n : first(i) => row.live /\ row.from = {FeedOrder[i]}
    BY DEF RowAfter
  <1>2. first(n + 1) => row.live /\ row.from = {FeedOrder[n + 1]}
    <2> SUFFICES ASSUME first(n + 1) PROVE row.live /\ row.from = {FeedOrder[n + 1]}
      OBVIOUS
    <2>1. quotes /\ ~QuotedEarlier(by, n, r)
      BY DEF FirstQuoter, QuotedEarlier
    <2>2. ~old.live
      BY <2>1 DEF RowAfter
    <2> QED BY <2>1, <2>2
  <1>3. row.live /\ ~QuotedEarlier(by, n + 1, r) => (r = "usd" /\ n + 1 >= 3) \/ (r = "btc" /\ n + 1 >= 6)
    <2> SUFFICES ASSUME row.live, ~QuotedEarlier(by, n + 1, r)
                 PROVE  (r = "usd" /\ n + 1 >= 3) \/ (r = "btc" /\ n + 1 >= 6)
      OBVIOUS
    <2>1. ~quotes /\ ~QuotedEarlier(by, n, r)
      BY DEF GapsFilled, QuotedEarlier
    <2> QED BY <2>1 DEF RowAfter
  <1>4. \A i \in 1..(n + 1) : i \in 1..n \/ i = n + 1
    OBVIOUS
  <1> QED BY <1>1, <1>2, <1>3, <1>4 DEF RowAfter

(* A feed that does not quote a row in Toman.                              *)
LEMMA NoQuote ==
  ASSUME NEW by, NEW n \in 0..8, NEW m, m = n + 1, NEW r \in Rows, NEW old, NEW row, RowAfter(old, by, n, r),
         row \in RateRow(by), ~Quotes(by, FeedOrder[m], r),
         old.live => row = old,
         ~old.live /\ row.live => (r = "usd" /\ n >= 2) \/ (r = "btc" /\ n >= 5)
  PROVE  RowAfter(row, by, m, r)
  <1>1. Quotes(by, FeedOrder[n + 1], r) = FALSE
    BY DEF Quotes
  <1> QED BY <1>1, NextFeed

(* A feed that fills gaps.                                                 *)
LEMMA GapFeed ==
  ASSUME NEW by, NEW n \in 0..8, NEW t, TableAfter(t, by, n), NEW rows, NEW s, s = FeedOrder[n + 1], s \in DOMAIN by,
         \A r \in Rows : Quotes(by, s, r) <=> r \in rows,
         "btc" \in rows => n < 6
  PROVE  TableAfter(GapsFilled(t, rows, s), by, n + 1)
  <1> DEFINE u == GapsFilled(t, rows, s)
  <1>1. ASSUME NEW r \in Rows PROVE RowAfter(u[r], by, n + 1, r)
    <2>1. RowAfter(t[r], by, n, r) /\ t[r] \in RateRow(by)
      BY DEF TableAfter, RowAfter
    <2>2. /\ u[r] \in RateRow(by)
          /\ r \in rows /\ ~t[r].live => u[r].live /\ u[r].from = {s}
          /\ r \notin rows \/ t[r].live => u[r] = t[r]
      BY <2>1, GapRow
    <2>3. t[r].live \in BOOLEAN
      BY <2>1 DEF RateRow
    <2>q. PICK quotes \in BOOLEAN : quotes = Quotes(by, FeedOrder[n + 1], r)
      BY DEF Quotes
    <2>q2. quotes = (r \in rows)
      BY <2>q
    <2> HIDE DEF u
    <2> QED BY <2>1, <2>2, <2>3, <2>q, <2>q2, NextFeed
  <1>2. ~u["btc"].live /\ u["btc"].usdLive => "kraken" \in DOMAIN by
    <2>1. "btc" \in Rows /\ t["btc"] \in RateRow(by)
      BY DEF TableAfter, RowAfter, Rows, Crypto
    <2>2. u["btc"].usdLive = t["btc"].usdLive /\ ("btc" \in rows /\ ~t["btc"].live => u["btc"].live)
          /\ ("btc" \notin rows \/ t["btc"].live => u["btc"] = t["btc"])
      BY <2>1, GapRow
    <2> QED BY <2>2 DEF TableAfter
  <1>3. u = [r \in Rows |-> u[r]]
    BY DEF GapsFilled, Quoted
  <1> QED BY <1>1, <1>2, <1>3 DEF TableAfter

(* A feed that did not answer.                                             *)
LEMMA SilentFeed ==
  ASSUME NEW by, NEW n \in 0..8, NEW t, TableAfter(t, by, n), FeedOrder[n + 1] \notin DOMAIN by
  PROVE  TableAfter(t, by, n + 1)
  <1>1. \A r : Quotes(by, FeedOrder[n + 1], r) = FALSE
    BY DEF Quotes
  <1>2. ASSUME NEW r \in Rows PROVE RowAfter(t[r], by, n + 1, r)
    <2>1. RowAfter(t[r], by, n, r) /\ t[r] \in RateRow(by) /\ t[r].live \in BOOLEAN
      BY DEF TableAfter, RowAfter, RateRow
    <2> QED BY <2>1, <1>1, NextFeed
  <1> QED BY <1>2 DEF TableAfter

LEMMA BonbastApplied ==
  ASSUME NEW by, AnswersFine(by), NEW t, TableAfter(t, by, 1)
  PROVE  TableAfter(Applied(by, "bonbast", t), by, 2)
  <1>1. CASE "bonbast" \notin DOMAIN by
    <2>1. Applied(by, "bonbast", t) = t
      BY <1>1 DEF Applied
    <2> QED BY <1>1, <2>1, SilentFeed, FeedNames
  <1>2. CASE "bonbast" \in DOMAIN by
    <2>1. by["bonbast"] \subseteq Quotable("bonbast") /\ by["bonbast"] # {}
      BY <1>2 DEF AnswersFine
    <2>2. \A r \in Rows : Quotes(by, "bonbast", r) <=> r \in by["bonbast"]
      BY <1>2, <2>1 DEF Quotes, Quotable, Rows, Gold, Crypto
    <2>3. "btc" \in by["bonbast"] => 1 < 6
      BY <2>1 DEF Quotable, Gold, Crypto
    <2>4. TableAfter(GapsFilled(t, by["bonbast"], "bonbast"), by, 1 + 1)
      BY <1>2, <2>2, <2>3, FeedNames, GapFeed
    <2>5. Applied(by, "bonbast", t) = GapsFilled(t, by["bonbast"], "bonbast")
      BY <1>2, <2>1 DEF Applied, Parse, ParseBonbast, GapsFilled
    <2> QED BY <2>4, <2>5
  <1> QED BY <1>1, <1>2

LEMMA TetherlandApplied ==
  ASSUME NEW by, AnswersFine(by), NEW t, TableAfter(t, by, 3)
  PROVE  TableAfter(Applied(by, "tetherland", t), by, 4)
  <1>1. CASE "tetherland" \notin DOMAIN by
    <2>1. Applied(by, "tetherland", t) = t
      BY <1>1 DEF Applied
    <2> QED BY <1>1, <2>1, SilentFeed, FeedNames
  <1>2. CASE "tetherland" \in DOMAIN by
    <2>1. by["tetherland"] \subseteq Quotable("tetherland") /\ by["tetherland"] # {}
      BY <1>2 DEF AnswersFine
    <2>2. \A r \in Rows : Quotes(by, "tetherland", r) <=> r \in {"usdt", "usd"}
      BY <1>2, <2>1 DEF Quotes, Quotable, Rows, Gold, Crypto
    <2>3. "btc" \in {"usdt", "usd"} => 3 < 6
      BY <2>1 DEF Quotable, Gold, Crypto
    <2>4. TableAfter(GapsFilled(t, {"usdt", "usd"}, "tetherland"), by, 3 + 1)
      BY <1>2, <2>2, <2>3, FeedNames, GapFeed
    <2>5. Applied(by, "tetherland", t) = GapsFilled(t, {"usdt", "usd"}, "tetherland")
      BY <1>2, <2>1 DEF Applied, Parse, ParseTetherland, GapsFilled
    <2> QED BY <2>4, <2>5
  <1> QED BY <1>1, <1>2

LEMMA SwapwalletApplied ==
  ASSUME NEW by, AnswersFine(by), NEW t, TableAfter(t, by, 4)
  PROVE  TableAfter(Applied(by, "swapwallet", t), by, 5)
  <1>1. CASE "swapwallet" \notin DOMAIN by
    <2>1. Applied(by, "swapwallet", t) = t
      BY <1>1 DEF Applied
    <2> QED BY <1>1, <2>1, SilentFeed, FeedNames
  <1>2. CASE "swapwallet" \in DOMAIN by
    <2>1. by["swapwallet"] \subseteq Quotable("swapwallet") /\ by["swapwallet"] # {}
      BY <1>2 DEF AnswersFine
    <2>2. \A r \in Rows : Quotes(by, "swapwallet", r) <=> r \in by["swapwallet"]
      BY <1>2, <2>1 DEF Quotes, Quotable, Rows, Gold, Crypto
    <2>3. "btc" \in by["swapwallet"] => 4 < 6
      BY <2>1 DEF Quotable, Gold, Crypto
    <2>4. TableAfter(GapsFilled(t, by["swapwallet"], "swapwallet"), by, 4 + 1)
      BY <1>2, <2>2, <2>3, FeedNames, GapFeed
    <2>5. Applied(by, "swapwallet", t) = GapsFilled(t, by["swapwallet"], "swapwallet")
      BY <1>2, <2>1 DEF Applied, Parse, ParseSwapwallet, GapsFilled
    <2> QED BY <2>4, <2>5
  <1> QED BY <1>1, <1>2

LEMMA GoldApiApplied ==
  ASSUME NEW by, AnswersFine(by), NEW t, TableAfter(t, by, 7)
  PROVE  TableAfter(Applied(by, "goldapi", t), by, 8)
  <1>1. CASE "goldapi" \notin DOMAIN by
    <2>1. Applied(by, "goldapi", t) = t
      BY <1>1 DEF Applied
    <2> QED BY <1>1, <2>1, SilentFeed, FeedNames
  <1>2. CASE "goldapi" \in DOMAIN by
    <2>1. by["goldapi"] \subseteq Quotable("goldapi") /\ by["goldapi"] # {}
      BY <1>2 DEF AnswersFine
    <2>2. \A r \in Rows : Quotes(by, "goldapi", r) <=> r \in by["goldapi"]
      BY <1>2, <2>1 DEF Quotes, Quotable, Rows, Gold, Crypto
    <2>3. "btc" \in by["goldapi"] => 7 < 6
      BY <2>1 DEF Quotable, Gold, Crypto
    <2>4. TableAfter(GapsFilled(t, by["goldapi"], "goldapi"), by, 7 + 1)
      BY <1>2, <2>2, <2>3, FeedNames, GapFeed
    <2>5. Applied(by, "goldapi", t) = GapsFilled(t, by["goldapi"], "goldapi")
      BY <1>2, <2>1 DEF Applied, Parse, ParseGoldApi, GapsFilled
    <2> QED BY <2>4, <2>5
  <1> QED BY <1>1, <1>2

LEMMA RateJsonApplied ==
  ASSUME NEW by, AnswersFine(by), NEW t, TableAfter(t, by, 8)
  PROVE  TableAfter(Applied(by, "ratejson", t), by, 9)
  <1>1. CASE "ratejson" \notin DOMAIN by
    <2>1. Applied(by, "ratejson", t) = t
      BY <1>1 DEF Applied
    <2> QED BY <1>1, <2>1, SilentFeed, FeedNames
  <1>2. CASE "ratejson" \in DOMAIN by
    <2>1. by["ratejson"] \subseteq Quotable("ratejson") /\ by["ratejson"] # {}
      BY <1>2 DEF AnswersFine
    <2>2. \A r \in Rows : Quotes(by, "ratejson", r) <=> r \in by["ratejson"]
      BY <1>2, <2>1 DEF Quotes, Quotable, Rows, Gold, Crypto
    <2>3. "btc" \in by["ratejson"] => 8 < 6
      BY <2>1 DEF Quotable, Gold, Crypto
    <2>4. TableAfter(GapsFilled(t, by["ratejson"], "ratejson"), by, 8 + 1)
      BY <1>2, <2>2, <2>3, FeedNames, GapFeed
    <2>5. Applied(by, "ratejson", t) = GapsFilled(t, by["ratejson"], "ratejson")
      BY <1>2, <2>1 DEF Applied, Parse, ParseRateJson, GapsFilled
    <2> QED BY <2>4, <2>5
  <1> QED BY <1>1, <1>2

(* The first feeds overwrite what is there, which is nothing of theirs.    *)
LEMMA TgjuApplied ==
  ASSUME NEW by, AnswersFine(by)
  PROVE  TableAfter(Applied(by, "tgju", StaticTable), by, 1)
  <1> DEFINE t == StaticTable
  <1>0. TableAfter(t, by, 0) /\ \A r \in Rows : ~t[r].live
    BY DEF TableAfter, RowAfter, RateRow, StaticTable, Rows, Crypto
  <1> HIDE DEF t
  <1>1. CASE "tgju" \notin DOMAIN by
    <2>1. Applied(by, "tgju", t) = t
      BY <1>1 DEF Applied
    <2> QED BY <1>0, <1>1, <2>1, SilentFeed, FeedNames DEF t
  <1>2. CASE "tgju" \in DOMAIN by
    <2>2. \A r \in Rows : Quotes(by, "tgju", r) <=> r \in by["tgju"]
      BY <1>2 DEF Quotes
    <2>4. TableAfter(GapsFilled(t, by["tgju"], "tgju"), by, 0 + 1)
      BY <1>0, <1>2, <2>2, FeedNames, GapFeed
    <2>5. Applied(by, "tgju", t) = GapsFilled(t, by["tgju"], "tgju")
      BY <1>0, <1>2, NothingToOverwrite DEF Applied, Parse, ParseTgju
    <2> QED BY <2>4, <2>5 DEF t
  <1> QED BY <1>1, <1>2

LEMMA NobitexApplied ==
  ASSUME NEW by, AnswersFine(by), NEW t, TableAfter(t, by, 2)
  PROVE  TableAfter(Applied(by, "nobitex", t), by, 3)
  <1>1. CASE "nobitex" \notin DOMAIN by
    <2>1. Applied(by, "nobitex", t) = t
      BY <1>1 DEF Applied
    <2> QED BY <1>1, <2>1, SilentFeed, FeedNames
  <1>2. CASE "nobitex" \in DOMAIN by
    <2> DEFINE rows == by["nobitex"]
               u == GapsFilled(t, rows, "nobitex")
               v == Calculated(u, "usd", u["usdt"].from)
    <2>1. rows \subseteq Crypto /\ rows # {}
      BY <1>2 DEF AnswersFine, Quotable
    <2>2. \A r \in Rows : Quotes(by, "nobitex", r) <=> r \in rows
      BY <1>2 DEF Quotes
    <2>3. ASSUME NEW r \in Crypto PROVE ~t[r].live
      <3>1. \A k \in 1..2 : ~Quotes(by, FeedOrder[k], r)
        <4>1. \A k \in 1..2 : k = 1 \/ k = 2
          OBVIOUS
        <4>2. ~Quotes(by, "tgju", r) /\ ~Quotes(by, "bonbast", r)
          BY DEF Quotes, AnswersFine, Quotable, Crypto, Gold
        <4> QED BY <4>1, <4>2, FeedNames
      <3>2. r \in Rows /\ r # "usd"
        BY DEF Rows, Crypto
      <3> QED BY <3>1, <3>2 DEF TableAfter, RowAfter, QuotedEarlier
    <2>4. Quoted(t, rows, "nobitex", FALSE) = u
      BY <2>1, <2>3, NothingToOverwrite
    <2>5. TableAfter(u, by, 2 + 1)
      BY <1>2, <2>1, <2>2, FeedNames, GapFeed
    <2>6. Applied(by, "nobitex", t) = v
      BY <1>2, <2>1, <2>4 DEF Applied, Parse, ParseNobitex
    <2> HIDE DEF rows, u
    <2>7. "usd" \in Rows /\ "usdt" \in Rows /\ "btc" # "usd"
      BY DEF Rows, Crypto
    <2>8. RowAfter(v["usd"], by, 3, "usd")
      <3>1. RowAfter(u["usd"], by, 3, "usd") /\ u["usd"] \in RateRow(by) /\ u["usdt"] \in RateRow(by)
        BY <2>5, <2>7 DEF TableAfter, RowAfter
      <3>2. CASE u["usd"].live
        BY <3>1, <3>2 DEF Calculated
      <3>3. CASE ~u["usd"].live
        <4>1. v["usd"] = [u["usd"] EXCEPT !.live = TRUE, !.from = u["usdt"].from]
          BY <2>5, <2>7, <3>3 DEF Calculated, TableAfter
        <4>2. v["usd"] \in RateRow(by)
          BY <3>1, <4>1 DEF RateRow
        <4>3. \A i \in 1..3 : ~(FirstQuoter(by, i, "usd") /\ i <= 2)
          BY <3>1, <3>3 DEF RowAfter
        <4> QED BY <4>2, <4>3 DEF RowAfter
      <3> QED BY <3>2, <3>3
    <2>9. \A r \in Rows : r # "usd" => v[r] = u[r]
      BY <2>5 DEF Calculated, TableAfter
    <2>10. v = [r \in Rows |-> v[r]]
      <3>1. DOMAIN u = Rows /\ u = [r \in Rows |-> u[r]]
        BY <2>5 DEF TableAfter
      <3> QED BY <3>1 DEF Calculated
    <2> HIDE DEF v
    <2>11. TableAfter(v, by, 3)
      <3>1. TableAfter(u, by, 3)
        BY <2>5
      <3>2. v["btc"] = u["btc"]
        BY <2>7, <2>9 DEF Rows, Crypto
      <3> QED BY <2>8, <2>9, <2>10, <3>1, <3>2 DEF TableAfter
    <2> QED BY <2>6, <2>11
  <1> QED BY <1>1, <1>2

(* Prices in dollars.                                                      *)
LEMMA CoingeckoApplied ==
  ASSUME NEW by, AnswersFine(by), NEW t, TableAfter(t, by, 5)
  PROVE  TableAfter(Applied(by, "coingecko", t), by, 6)
  <1>1. CASE "coingecko" \notin DOMAIN by
    <2>1. Applied(by, "coingecko", t) = t
      BY <1>1 DEF Applied
    <2> QED BY <1>1, <2>1, SilentFeed, FeedNames
  <1>2. CASE "coingecko" \in DOMAIN by
    <2> DEFINE rows == by["coingecko"]
               u == ParseCoingecko(t, rows)
    <2>1. rows \subseteq Crypto
      BY <1>2 DEF AnswersFine, Quotable
    <2>2. Applied(by, "coingecko", t) = u
      BY <1>2 DEF Applied, Parse
    <2>3. \A r : ~Quotes(by, FeedOrder[6], r)
      BY FeedNames DEF Quotes
    <2>4. ASSUME NEW r \in Rows PROVE RowAfter(u[r], by, 6, r)
      <3>1. RowAfter(t[r], by, 5, r) /\ t[r] \in RateRow(by) /\ t["usdt"] \in RateRow(by) /\ t[r].live \in BOOLEAN
        BY DEF TableAfter, RowAfter, RateRow, Rows, Crypto
      <3>2. CASE r \notin rows
        <4>1. u[r] = t[r]
          BY <3>2 DEF ParseCoingecko
        <4>2. RowAfter(u[r], by, 6, r)
          BY <2>3, <3>1, <4>1, NoQuote
        <4> QED BY <4>2
      <3>3. CASE r \in rows /\ (r = "usdt" \/ t[r].live)
        <4>1. u[r] = [t[r] EXCEPT !.usdLive = TRUE]
          BY <3>3 DEF ParseCoingecko
        <4>2. u[r] \in RateRow(by) /\ u[r].live = t[r].live /\ u[r].from = t[r].from
          BY <3>1, <4>1 DEF RateRow
        <4>3. RowAfter(u[r], by, 5, r)
          BY <3>1, <4>2 DEF RowAfter
        <4>4. RowAfter(u[r], by, 6, r)
          BY <2>3, <4>2, <4>3, <3>1, NoQuote
        <4> QED BY <4>4
      <3>4. CASE r \in rows /\ r # "usdt" /\ ~t[r].live
        <4>1. u[r] = [live |-> TRUE, usdLive |-> TRUE, from |-> {"coingecko"} \cup t["usdt"].from]
          BY <3>4 DEF ParseCoingecko
        <4>2. u[r] \in RateRow(by) /\ u[r].live
          BY <1>2, <3>1, <4>1 DEF RateRow
        <4>3. r = "btc"
          BY <2>1, <3>4 DEF Crypto
        <4>4. RowAfter(u[r], by, 6, r)
          BY <2>3, <3>1, <3>4, <4>2, <4>3, NoQuote
        <4> QED BY <4>4
      <3> QED BY <3>2, <3>3, <3>4
    <2>5. ~u["btc"].live /\ u["btc"].usdLive => "kraken" \in DOMAIN by
      <3>1. "btc" \in Rows /\ "btc" # "usdt" /\ t["btc"] \in RateRow(by)
        BY DEF TableAfter, RowAfter, Rows, Crypto
      <3>2. ~u["btc"].live => u["btc"] = t["btc"]
        BY <3>1 DEF ParseCoingecko, RateRow
      <3> QED BY <3>2 DEF TableAfter
    <2>6. u = [r \in Rows |-> u[r]]
      BY DEF ParseCoingecko
    <2> HIDE DEF u
    <2>7. TableAfter(u, by, 6)
      BY <2>4, <2>5, <2>6 DEF TableAfter
    <2> QED BY <2>2, <2>7
  <1> QED BY <1>1, <1>2

LEMMA KrakenApplied ==
  ASSUME NEW by, AnswersFine(by), NEW t, TableAfter(t, by, 6)
  PROVE  TableAfter(Applied(by, "kraken", t), by, 7)
  <1>1. CASE "kraken" \notin DOMAIN by
    <2>1. Applied(by, "kraken", t) = t
      BY <1>1 DEF Applied
    <2> QED BY <1>1, <2>1, SilentFeed, FeedNames
  <1>2. CASE "kraken" \in DOMAIN by
    <2> DEFINE u == ParseKraken(t, by["kraken"])
    <2>2. Applied(by, "kraken", t) = u
      BY <1>2 DEF Applied, Parse
    <2>3. \A r : ~Quotes(by, FeedOrder[7], r)
      BY FeedNames DEF Quotes
    <2>4. ASSUME NEW r \in Rows PROVE RowAfter(u[r], by, 7, r)
      <3>1. RowAfter(t[r], by, 6, r) /\ t[r] \in RateRow(by) /\ t[r].live \in BOOLEAN
        BY DEF TableAfter, RowAfter, RateRow
      <3>2. u[r] \in RateRow(by) /\ u[r].live = t[r].live /\ u[r].from = t[r].from
        BY <3>1 DEF ParseKraken, RateRow
      <3>3. RowAfter(u[r], by, 6, r)
        BY <3>1, <3>2 DEF RowAfter
      <3>4. RowAfter(u[r], by, 7, r)
        BY <2>3, <3>1, <3>2, <3>3, NoQuote
      <3> QED BY <3>4
    <2>6. u = [r \in Rows |-> u[r]]
      BY DEF ParseKraken
    <2> HIDE DEF u
    <2>7. TableAfter(u, by, 7)
      BY <1>2, <2>4, <2>6 DEF TableAfter
    <2> QED BY <2>2, <2>7
  <1> QED BY <1>1, <1>2

(* The feeds' answers of a refresh, and all of them.                       *)
FeedsAnswered == [s \in {s \in Feeds : answer[s] \notin {Waiting, Failed}} |-> answer[s]]
Answers == [s \in Hits |-> answer[s]]

AnswerFine(s) == answer[s] \in {Waiting, Failed} \/ (answer[s] \subseteq Quotable(s) /\ answer[s] # {})

LEMMA SourceNames ==
  /\ \A i \in 1..9 : FeedOrder[i] \notin Sites
  /\ \A i \in 1..3 : SiteOrder[i] \notin Feeds
  <1>1. \A i \in 1..9, k \in 1..3 : FeedOrder[i] # SiteOrder[k]
    BY DEF FeedOrder, SiteOrder
  <1> QED BY <1>1, SourcesAssumption, FeedNames

LEMMA FeedsAppliedFine ==
  ASSUME \A s \in AllSources : AnswerFine(s)
  PROVE  TableAfter(FeedsApplied(StaticTable), FeedsAnswered, 9)
  <1> DEFINE by == FeedsAnswered
             t1 == Applied(by, "tgju", StaticTable)
             t2 == Applied(by, "bonbast", t1)
             t3 == Applied(by, "nobitex", t2)
             t4 == Applied(by, "tetherland", t3)
             t5 == Applied(by, "swapwallet", t4)
             t6 == Applied(by, "coingecko", t5)
             t7 == Applied(by, "kraken", t6)
             t8 == Applied(by, "goldapi", t7)
             t9 == Applied(by, "ratejson", t8)
  <1>1. AnswersFine(by)
    BY DEF AnswersFine, FeedsAnswered, AnswerFine, AllSources
  <1>2. ASSUME NEW t, NEW i \in 1..9 PROVE ApplySource(FeedOrder[i], t) = Applied(by, FeedOrder[i], t)
    BY SourceNames DEF ApplySource, Applied, FeedsAnswered, Hits
  <1>3. FeedsApplied(StaticTable) = t9
    BY <1>2, FeedNames DEF FeedsApplied
  <1> HIDE DEF by
  <1>4. TableAfter(t1, by, 1)
    BY <1>1, TgjuApplied
  <1> HIDE DEF t1
  <1>5. TableAfter(t2, by, 2)
    BY <1>1, <1>4, BonbastApplied
  <1> HIDE DEF t2
  <1>6. TableAfter(t3, by, 3)
    BY <1>1, <1>5, NobitexApplied
  <1> HIDE DEF t3
  <1>7. TableAfter(t4, by, 4)
    BY <1>1, <1>6, TetherlandApplied
  <1> HIDE DEF t4
  <1>8. TableAfter(t5, by, 5)
    BY <1>1, <1>7, SwapwalletApplied
  <1> HIDE DEF t5
  <1>9. TableAfter(t6, by, 6)
    BY <1>1, <1>8, CoingeckoApplied
  <1> HIDE DEF t6
  <1>10. TableAfter(t7, by, 7)
    BY <1>1, <1>9, KrakenApplied
  <1> HIDE DEF t7
  <1>11. TableAfter(t8, by, 8)
    BY <1>1, <1>10, GoldApiApplied
  <1> HIDE DEF t8
  <1>12. TableAfter(t9, by, 9)
    BY <1>1, <1>11, RateJsonApplied
  <1> HIDE DEF t9
  <1> QED BY <1>3, <1>12 DEF by

(* What no later pass takes back: the first quoter has its row.            *)
Settled(t, by) ==
  /\ t = [r \in Rows |-> t[r]]
  /\ \A r \in Rows :
       /\ t[r] \in RateRow(by)
       /\ \A i \in 1..9 :
            FirstQuoter(by, i, r) /\ (r = "usd" => i <= 2) => t[r].live /\ t[r].from = {FeedOrder[i]}
  /\ ~t["btc"].live /\ t["btc"].usdLive => "kraken" \in DOMAIN by

LEMMA FeedsSettle ==
  ASSUME NEW t, TableAfter(t, FeedsAnswered, 9)
  PROVE  Settled(t, Answers)
  <1>1. DOMAIN FeedsAnswered \subseteq DOMAIN Answers
    BY DEF FeedsAnswered, Answers, Hits
  <1>2. \A i \in 1..9, r \in Rows : Quotes(FeedsAnswered, FeedOrder[i], r) <=> Quotes(Answers, FeedOrder[i], r)
    BY SourceNames DEF Quotes, FeedsAnswered, Answers, Hits
  <1>3. \A i \in 1..9, r \in Rows : FirstQuoter(FeedsAnswered, i, r) <=> FirstQuoter(Answers, i, r)
    BY <1>2 DEF FirstQuoter
  <1>4. ASSUME NEW r \in Rows
        PROVE /\ t[r] \in RateRow(Answers)
              /\ \A i \in 1..9 :
                   FirstQuoter(Answers, i, r) /\ (r = "usd" => i <= 2) => t[r].live /\ t[r].from = {FeedOrder[i]}
    <2>1. RowAfter(t[r], FeedsAnswered, 9, r)
      BY DEF TableAfter
    <2>2. t[r] \in RateRow(Answers)
      BY <1>1, <2>1 DEF RowAfter, RateRow
    <2> QED BY <1>3, <2>1, <2>2 DEF RowAfter
  <1> QED BY <1>1, <1>4 DEF TableAfter, Settled

LEMMA GapsKeep ==
  ASSUME NEW by, NEW t, Settled(t, by), NEW rows, NEW s, s \in DOMAIN by
  PROVE  Settled(GapsFilled(t, rows, s), by)
  <1> DEFINE u == GapsFilled(t, rows, s)
  <1>1. ASSUME NEW r \in Rows PROVE u[r] \in RateRow(by) /\ (t[r].live => u[r] = t[r]) /\ u[r].usdLive = t[r].usdLive
    <2>1. t[r] \in RateRow(by)
      BY DEF Settled
    <2> QED BY <2>1, GapRow
  <1>2. u = [r \in Rows |-> u[r]]
    BY DEF GapsFilled, Quoted
  <1>3. "btc" \in Rows
    BY DEF Rows, Crypto
  <1> HIDE DEF u
  <1>4. ASSUME NEW r \in Rows, NEW i \in 1..9, FirstQuoter(by, i, r) /\ (r = "usd" => i <= 2)
        PROVE  u[r].live /\ u[r].from = {FeedOrder[i]}
    <2>1. t[r].live /\ t[r].from = {FeedOrder[i]}
      BY <1>4 DEF Settled
    <2> QED BY <1>1, <2>1
  <1>5. ~u["btc"].live /\ u["btc"].usdLive => "kraken" \in DOMAIN by
    <2>1. ~u["btc"].live => ~t["btc"].live
      BY <1>1, <1>3
    <2> QED BY <1>1, <1>3, <2>1 DEF Settled
  <1>6. Settled(u, by)
    BY <1>1, <1>2, <1>4, <1>5 DEF Settled
  <1> QED BY <1>6 DEF u

LEMMA SiteApplied ==
  ASSUME \A s \in AllSources : AnswerFine(s), NEW t, Settled(t, Answers), NEW s \in {"alanchand", "moj3", "isignal"}
  PROVE  Settled(ApplySite(s, t), Answers)
  <1>1. CASE s \notin Hits
    BY <1>1 DEF ApplySite
  <1>2. CASE s \in Hits
    <2>1. ApplySite(s, t) = GapsFilled(t, answer[s], s)
      BY <1>2 DEF ApplySite, ApplySiteQuotes, GapsFilled
    <2> QED BY <1>2, <2>1, GapsKeep DEF Answers
  <1> QED BY <1>1, <1>2

LEMMA SitesAppliedFine ==
  ASSUME \A s \in AllSources : AnswerFine(s), NEW t, Settled(t, Answers)
  PROVE  Settled(SitesApplied(t), Answers)
  <1> DEFINE t1 == ApplySite("alanchand", t)
             t2 == ApplySite("moj3", t1)
             t3 == ApplySite("isignal", t2)
  <1>1. SitesApplied(t) = t3
    BY FeedNames DEF SitesApplied
  <1>2. Settled(t1, Answers)
    BY SiteApplied
  <1> HIDE DEF t1
  <1>3. Settled(t2, Answers)
    BY <1>2, SiteApplied
  <1> HIDE DEF t2
  <1>4. Settled(t3, Answers)
    BY <1>3, SiteApplied
  <1> HIDE DEF t3
  <1> QED BY <1>1, <1>4

(* A calculated row was not live.                                          *)
LEMMA DerivedKeeps ==
  ASSUME NEW by, NEW t, Settled(t, by), NEW u, Settled(u, by), NEW r \in Rows,
         NEW basis, ~u[r].live => basis \subseteq DOMAIN by \cup {"fx", "static"}
  PROVE  /\ Settled(Derived(t, u, r, basis), by)
         /\ \A x \in Rows : Derived(t, u, r, basis)[x].usdLive = u[x].usdLive
  <1> DEFINE dollar == IF t["usd"].live THEN t["usd"].from ELSE t["usdt"].from
             origin == dollar \cup basis
             v == [u EXCEPT ![r].live = TRUE, ![r].from = origin]
  <1>1. "usd" \in Rows /\ "usdt" \in Rows /\ "btc" \in Rows
    BY DEF Rows, Crypto
  <1>2. dollar \subseteq DOMAIN by \cup {"fx", "static"}
    BY <1>1 DEF Settled, RateRow
  <1>3. Derived(t, u, r, basis) \in {u, v} /\ (Derived(t, u, r, basis) = u \/ ~u[r].live)
    <2>1. Derived(t, u, r, basis) \in {u, Calculated(u, r, origin)}
      <3> HIDE DEF v
      <3> QED BY DEF Derived
    <2> HIDE DEF dollar, origin
    <2>2. Calculated(u, r, origin) = IF u[r].live THEN u ELSE v
      BY DEF Calculated
    <2> HIDE DEF v
    <2> QED BY <2>1, <2>2
  <1>4. ASSUME ~u[r].live PROVE Settled(v, by) /\ \A x \in Rows : v[x].usdLive = u[x].usdLive
    <2>0. origin \subseteq DOMAIN by \cup {"fx", "static"}
      BY <1>2, <1>4
    <2> HIDE DEF origin
    <2>1. u = [x \in Rows |-> u[x]] /\ u[r] \in RateRow(by)
      BY DEF Settled
    <2>2. v[r] \in RateRow(by) /\ v[r].live /\ v[r].usdLive = u[r].usdLive
      BY <2>0, <2>1 DEF RateRow
    <2>3. \A x \in Rows : x # r => v[x] = u[x]
      BY <2>1
    <2>4. v = [x \in Rows |-> v[x]]
      BY <2>1
    <2> HIDE DEF v
    <2>5. \A i \in 1..9 : ~(FirstQuoter(by, i, r) /\ (r = "usd" => i <= 2))
      BY <1>4 DEF Settled
    <2>6. ~v["btc"].live /\ v["btc"].usdLive => "kraken" \in DOMAIN by
      BY <1>1, <2>2, <2>3 DEF Settled
    <2> QED BY <2>2, <2>3, <2>4, <2>5, <2>6 DEF Settled
  <1> QED BY <1>3, <1>4

LEMMA DeriveSettles ==
  ASSUME NEW by, NEW t, Settled(t, by), NEW fx
  PROVE  Settled(DeriveQuotes(t, fx), by)
  <1> DEFINE ounce == t["ounce"]
             t1 == Derived(t, t, "usd", {})
             t2 == Derived(t, t1, "usdt", {})
             t3 == IF ounce.live THEN Derived(t, t2, "gold18", ounce.from) ELSE t2
             t4 == IF ounce.live THEN Derived(t, t3, "emami", ounce.from) ELSE t3
             t5 == IF t["btc"].usdLive THEN Derived(t, t4, "btc", {"kraken"}) ELSE t4
             t6 == IF fx THEN Derived(t, t5, "eur", {"fx"}) ELSE t5
  <1>1. Rows = {"gold18", "emami", "usdt", "btc", "ounce", "usd", "eur"}
    BY DEF Rows, Gold, Crypto
  <1>2. t["ounce"].from \subseteq DOMAIN by \cup {"fx", "static"}
    BY <1>1 DEF Settled, RateRow
  <1>3. DeriveQuotes(t, fx) = t6
    BY DEF DeriveQuotes
  <1>4. Settled(t1, by) /\ \A x \in Rows : t1[x].usdLive = t[x].usdLive
    BY <1>1, DerivedKeeps
  <1> HIDE DEF t1
  <1>5. Settled(t2, by) /\ \A x \in Rows : t2[x].usdLive = t[x].usdLive
    BY <1>1, <1>4, DerivedKeeps
  <1> HIDE DEF t2
  <1>6. Settled(t3, by) /\ \A x \in Rows : t3[x].usdLive = t[x].usdLive
    BY <1>1, <1>2, <1>5, DerivedKeeps
  <1> HIDE DEF t3
  <1>7. Settled(t4, by) /\ \A x \in Rows : t4[x].usdLive = t[x].usdLive
    BY <1>1, <1>2, <1>6, DerivedKeeps
  <1> HIDE DEF t4
  <1>8. t["btc"].usdLive /\ ~t4["btc"].live => {"kraken"} \subseteq DOMAIN by \cup {"fx", "static"}
    BY <1>1, <1>7 DEF Settled
  <1>9. Settled(t5, by)
    BY <1>1, <1>7, <1>8, DerivedKeeps
  <1> HIDE DEF t5
  <1>10. Settled(t6, by)
    BY <1>1, <1>9, DerivedKeeps
  <1> HIDE DEF t6
  <1> QED BY <1>3, <1>10

LEMMA SettledIsSound ==
  ASSUME NEW t, NEW by, Settled(t, by)
  PROVE  \A r \in Rows : RowSound(t[r], by, r)
  <1>1. ASSUME NEW i \in 1..9, FeedOrder[i] \in {"tgju", "bonbast"} PROVE i <= 2
    BY <1>1 DEF FeedOrder
  <1>2. ASSUME NEW r \in Rows PROVE t[r].from \subseteq DOMAIN by \cup {"fx", "static"}
    BY DEF Settled, RateRow
  <1> QED BY <1>1, <1>2, FeedNames DEF Settled, RowSound

-----------------------------------------------------------------------------

CacheFine(c) ==
  /\ DOMAIN c = {"rows", "stale", "by"}
  /\ \A r \in Rows : RowSound(c.rows[r], c.by, r)

(* While the day is not noted who waits for its post has had no more posts *)
(* of it than there were evictions.                                        *)
PostsFit(d) ==
  /\ posted[d] <= 1 + stops
  /\ ratesDay # today /\ (unsent = {} \/ d \in unsent) => posted[d] <= stops

PostFine ==
  /\ stops \in Nat /\ today \in Nat /\ ratesDay \in Nat /\ ratesDay <= today
  /\ posted \in [Targets -> Nat]
  /\ unsent # {} => ratesDay # today /\ "day" \in unsent
  /\ \A d \in Targets : PostsFit(d)

RateTypes ==
  /\ answer = [s \in AllSources |-> answer[s]] /\ \A s \in AllSources : AnswerFine(s)
  /\ pass \in {"idle", "feeds", "sites"}

(* The table under construction holds the feeds' rows before the pages are *)
(* applied, and nothing before that.                                       *)
TableFine ==
  /\ pass # "sites" => table = StaticTable
  /\ pass = "sites" => TableAfter(table, FeedsAnswered, 9) /\ \A s \in Feeds : answer[s] # Waiting

RateIInv == RateTypes /\ TableFine /\ CacheFine(rateCache) /\ CacheFine(lastGood) /\ PostFine

LEMMA RatePromise == RateIInv => RatesAreSound
  BY DEF RateIInv, CacheFine, PostFine, PostsFit, RatesAreSound

LEMMA RateInitially == RatesInit => RateIInv
  <1> SUFFICES ASSUME RatesInit PROVE RateIInv
    OBVIOUS
  <1>1. CacheFine(NoTable)
    <2>1. ASSUME NEW r \in Rows PROVE RowSound(StaticTable[r], [s \in {} |-> {}], r)
      BY FeedNames DEF RowSound, FirstQuoter, Quotes, StaticTable
    <2> QED BY <2>1 DEF CacheFine, NoTable
  <1>2. PostFine
    BY DEF RatesInit, PostFine, PostsFit
  <1> QED BY <1>1, <1>2 DEF RatesInit, RateIInv, RateTypes, TableFine, AnswerFine

LEMMA PostStays == PostFine /\ UNCHANGED post => PostFine'
  BY DEF PostFine, PostsFit, post

LEMMA CachesStay == CacheFine(rateCache) /\ CacheFine(lastGood) /\ UNCHANGED <<rateCache, lastGood>>
                    => CacheFine(rateCache)' /\ CacheFine(lastGood)'
  OBVIOUS

LEMMA StartRefreshKeeps == RateIInv /\ StartRefresh => RateIInv'
  <1> SUFFICES ASSUME RateIInv, StartRefresh PROVE RateIInv'
    OBVIOUS
  <1>1. RateTypes'
    BY DEF StartRefresh, RateTypes, AnswerFine
  <1>2. TableFine'
    BY DEF StartRefresh, TableFine
  <1>3. PostFine' /\ CacheFine(rateCache)' /\ CacheFine(lastGood)'
    BY PostStays, CachesStay DEF StartRefresh, RateIInv
  <1> QED BY <1>1, <1>2, <1>3 DEF RateIInv

LEMMA DownloadKeeps == ASSUME NEW s \in AllSources, RateIInv, Download(s) PROVE RateIInv'
  <1>0. \/ answer' = [answer EXCEPT ![s] = Failed]
        \/ \E rows : rows \subseteq Quotable(s) /\ rows # {} /\ answer' = [answer EXCEPT ![s] = rows]
    BY DEF Download
  <1>1. RateTypes' /\ \A x \in AllSources : x # s => answer'[x] = answer[x]
    BY <1>0 DEF Download, RateIInv, RateTypes, AnswerFine
  <1>2. TableFine'
    <2>1. CASE pass # "sites"
      BY <2>1 DEF Download, RateIInv, TableFine
    <2>2. CASE pass = "sites"
      <3>1. s \notin Feeds
        BY <2>2 DEF Download, RateIInv, TableFine
      <3>2. \A x \in Feeds : answer'[x] = answer[x]
        BY <1>1, <3>1 DEF AllSources
      <3>3. FeedsAnswered' = FeedsAnswered
        BY <3>2 DEF FeedsAnswered
      <3> QED BY <2>2, <3>2, <3>3 DEF Download, RateIInv, TableFine
    <2> QED BY <2>1, <2>2
  <1>3. PostFine' /\ CacheFine(rateCache)' /\ CacheFine(lastGood)'
    BY PostStays, CachesStay DEF Download, RateIInv
  <1> QED BY <1>1, <1>2, <1>3 DEF RateIInv

LEMMA ParseFeedsKeeps == RateIInv /\ ParseFeeds => RateIInv'
  <1> SUFFICES ASSUME RateIInv, ParseFeeds PROVE RateIInv'
    OBVIOUS
  <1>1. \/ answer' = answer
        \/ answer' = [s \in AllSources |-> IF s \in Sites THEN Waiting ELSE answer[s]]
    BY DEF ParseFeeds
  <1>2. RateTypes' /\ \A s \in Feeds : answer'[s] = answer[s]
    <2>1. \A s \in Feeds : s \notin Sites
      BY SourceNames, SourcesAssumption, FeedNames
    <2> QED BY <1>1, <2>1 DEF ParseFeeds, RateIInv, RateTypes, AnswerFine, AllSources
  <1>3. FeedsAnswered' = FeedsAnswered
    BY <1>2 DEF FeedsAnswered
  <1>4. TableFine'
    <2>1. table' = FeedsApplied(StaticTable) /\ pass' = "sites" /\ \A s \in Feeds : answer[s] # Waiting
      BY DEF ParseFeeds, RateIInv, TableFine, AllSources
    <2>2. TableAfter(table', FeedsAnswered, 9)
      BY <2>1, FeedsAppliedFine DEF RateIInv, RateTypes
    <2> QED BY <1>2, <1>3, <2>1, <2>2 DEF TableFine
  <1>5. PostFine' /\ CacheFine(rateCache)' /\ CacheFine(lastGood)'
    BY PostStays, CachesStay DEF ParseFeeds, RateIInv
  <1> QED BY <1>2, <1>4, <1>5 DEF RateIInv

LEMMA Staled ==
  ASSUME NEW c, CacheFine(c)
  PROVE  CacheFine([c EXCEPT !.stale = TRUE])
  <1>1. /\ DOMAIN [c EXCEPT !.stale = TRUE] = {"rows", "stale", "by"}
        /\ [c EXCEPT !.stale = TRUE].rows = c.rows /\ [c EXCEPT !.stale = TRUE].by = c.by
    BY DEF CacheFine
  <1> QED BY <1>1 DEF CacheFine

LEMMA FinishRefreshKeeps == RateIInv /\ FinishRefresh => RateIInv'
  <1> SUFFICES ASSUME RateIInv, FinishRefresh PROVE RateIInv'
    OBVIOUS
  <1> DEFINE rows == DeriveQuotes(SitesApplied(table), world)
             done == [rows |-> rows, stale |-> Hits = {}, by |-> Answers]
  <1>1. CacheFine(done)
    <2>1. Settled(table, Answers)
      BY FeedsSettle DEF FinishRefresh, RateIInv, TableFine
    <2>2. Settled(rows, Answers)
      BY <2>1, SitesAppliedFine, DeriveSettles DEF RateIInv, RateTypes
    <2> HIDE DEF rows
    <2>3. \A r \in Rows : RowSound(rows[r], Answers, r)
      BY <2>2, SettledIsSound
    <2> QED BY <2>3 DEF CacheFine
  <1> HIDE DEF rows
  <1>2. CacheFine([lastGood EXCEPT !.stale = TRUE])
    BY Staled DEF RateIInv
  <1>3. /\ rateCache' \in {done, [lastGood EXCEPT !.stale = TRUE]}
        /\ lastGood' \in {done, lastGood}
    BY DEF FinishRefresh, rows, Answers
  <1>4. CacheFine(rateCache)' /\ CacheFine(lastGood)'
    <2> HIDE DEF done
    <2>1. CacheFine(rateCache') /\ CacheFine(lastGood')
      BY <1>1, <1>2, <1>3 DEF RateIInv
    <2> QED BY <2>1
  <1>5. RateTypes' /\ TableFine'
    BY DEF FinishRefresh, RateTypes, AnswerFine, TableFine
  <1>6. PostFine'
    BY PostStays DEF FinishRefresh, RateIInv
  <1> QED BY <1>4, <1>5, <1>6 DEF RateIInv

LEMMA QuietRefreshKeeps == RateIInv /\ (LateWorld \/ LastGoodExpires) => RateIInv'
  <1> SUFFICES ASSUME RateIInv, LateWorld \/ LastGoodExpires PROVE RateIInv'
    OBVIOUS
  <1>1. CacheFine(NoTable)
    <2>1. ASSUME NEW r \in Rows PROVE RowSound(StaticTable[r], [s \in {} |-> {}], r)
      BY FeedNames DEF RowSound, FirstQuoter, Quotes, StaticTable
    <2> QED BY <2>1 DEF CacheFine, NoTable
  <1>2. CacheFine(rateCache)' /\ CacheFine(lastGood)'
    <2>1. rateCache' = rateCache /\ lastGood' \in {lastGood, NoTable}
      BY DEF LateWorld, LastGoodExpires
    <2> QED BY <1>1, <2>1 DEF RateIInv
  <1>3. RateTypes' /\ TableFine'
    BY DEF LateWorld, LastGoodExpires, RateIInv, RateTypes, AnswerFine, TableFine, FeedsAnswered
  <1>4. PostFine'
    BY PostStays DEF LateWorld, LastGoodExpires, RateIInv
  <1> QED BY <1>2, <1>3, <1>4 DEF RateIInv

(* The post of the day.                                                    *)
LEMMA PostKeeps ==
  ASSUME RateIInv, StartPost \/ EndPost \/ NextDay \/ \E d \in Targets : PostTo(d)
  PROVE  RateIInv'
  <1>1. UNCHANGED refresh
    BY DEF StartPost, EndPost, NextDay, PostTo
  <1>2. RateTypes' /\ TableFine' /\ CacheFine(rateCache)' /\ CacheFine(lastGood)'
    BY <1>1 DEF refresh, RateIInv, RateTypes, AnswerFine, TableFine, FeedsAnswered
  <1>3. PostFine
    BY DEF RateIInv
  <1>4. ASSUME StartPost PROVE PostFine'
    <2>1. \A d \in Targets : PostsFit(d)'
      BY <1>3, <1>4 DEF StartPost, PostFine, PostsFit
    <2> QED BY <1>3, <1>4, <2>1 DEF StartPost, PostFine, PostsFit
  <1>5. ASSUME EndPost PROVE PostFine'
    <2>1. \A d \in Targets : PostsFit(d)'
      BY <1>3, <1>5 DEF EndPost, PostFine, PostsFit
    <2> QED BY <1>3, <1>5, <2>1 DEF EndPost, PostFine, PostsFit
  <1>6. ASSUME NextDay PROVE PostFine'
    <2>1. \A d \in Targets : PostsFit(d)'
      BY <1>3, <1>6 DEF NextDay, PostFine, PostsFit
    <2>2. posted' \in [Targets -> Nat] /\ unsent' = {} /\ today' = today + 1 /\ stops' = 0 /\ ratesDay' = ratesDay
      BY <1>6 DEF NextDay
    <2> QED BY <1>3, <2>1, <2>2 DEF PostFine, PostsFit
  <1>7. ASSUME NEW d \in Targets, PostTo(d) PROVE PostFine'
    <2>1. PICK sent \in {0, 1} : posted' = [posted EXCEPT ![d] = @ + sent]
      BY <1>7 DEF PostTo
    <2>2. d \in unsent /\ unsent' = unsent \ {d} /\ UNCHANGED <<ratesDay, today, stops>>
      BY <1>7 DEF PostTo
    <2>3. "day" \in unsent' /\ d # "day"
      BY <1>3, <2>2, SourcesAssumption DEF PostFine
    <2>4. posted' \in [Targets -> Nat]
      <3>1. posted \in [Targets -> Nat] /\ posted[d] + sent \in Nat
        BY <1>3, <2>1 DEF PostFine
      <3> QED BY <2>1, <3>1
    <2>5. ASSUME NEW x \in Targets PROVE PostsFit(x)'
      <3>1. PostsFit(x) /\ posted[x] \in Nat /\ stops \in Nat
        BY <1>3 DEF PostFine
      <3>2. CASE x # d
        <4>1. posted'[x] = posted[x]
          BY <1>3, <2>1, <3>2 DEF PostFine
        <4>2. unsent # {} /\ unsent' # {} /\ (x \in unsent' => x \in unsent)
          BY <2>2, <2>3
        <4> QED BY <2>2, <3>1, <4>1, <4>2 DEF PostsFit
      <3>3. CASE x = d
        <4>1. posted'[x] = posted[x] + sent /\ posted[x] <= stops
          BY <1>3, <2>1, <2>2, <3>1, <3>3 DEF PostFine, PostsFit
        <4>2. unsent' # {} /\ x \notin unsent'
          BY <2>2, <2>3, <3>3
        <4> QED BY <2>1, <2>2, <3>1, <4>1, <4>2 DEF PostsFit
      <3> QED BY <3>2, <3>3
    <2> QED BY <1>3, <2>2, <2>3, <2>4, <2>5 DEF PostFine, PostsFit
  <1> QED BY <1>2, <1>4, <1>5, <1>6, <1>7 DEF RateIInv

LEMMA StopRatesKeeps == RateIInv /\ StopRates => RateIInv'
  <1> SUFFICES ASSUME RateIInv, StopRates PROVE RateIInv'
    OBVIOUS
  <1>1. RateTypes' /\ TableFine'
    BY DEF StopRates, RateIInv, RateTypes, AnswerFine, TableFine
  <1>2. PostFine'
    <2>1. PostFine /\ stops' = stops + 1 /\ unsent' = {} /\ UNCHANGED <<ratesDay, today, posted>>
      BY DEF StopRates, RateIInv
    <2>2. \A d \in Targets : PostsFit(d)'
      BY <2>1 DEF PostFine, PostsFit
    <2> QED BY <2>1, <2>2 DEF PostFine, PostsFit
  <1> QED BY <1>1, <1>2, CachesStay DEF StopRates, RateIInv

LEMMA RateStays == RateIInv /\ UNCHANGED rateVars => RateIInv'
  BY PostStays DEF rateVars, refresh, RateIInv, RateTypes, AnswerFine, TableFine, FeedsAnswered

LEMMA RateStep == RateIInv /\ [RatesNext]_rateVars => RateIInv'
  BY StartRefreshKeeps, DownloadKeeps, ParseFeedsKeeps, FinishRefreshKeeps, QuietRefreshKeeps, PostKeeps,
     StopRatesKeeps, RateStays DEF RatesNext

LEMMA RatesAlone == [Next]_allVars => RatesNext \/ UNCHANGED rateVars
  BY DEF Next, Rest, allVars

\* A row of the table of rates is that of the first feed that quoted it, and
\* rests on sources that answered in its own refresh or on the table in the
\* code; a target gets the post of a day once, and once more for every eviction
\* of the process (getLiveRates and ratesTick in src/src/rates.js).
THEOREM RatesSound == Spec => []EveryRateSound
  <1>1. Init => RateIInv
    BY RateInitially DEF Init
  <1>2. RateIInv /\ [Next]_allVars => RateIInv'
    BY RateStep, RatesAlone
  <1>3. RateIInv => EveryRateSound
    BY RatePromise DEF EveryRateSound
  <1> QED BY <1>1, <1>2, <1>3, PTL DEF Spec
=============================================================================
