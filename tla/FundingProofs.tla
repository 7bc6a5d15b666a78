---------------------------- MODULE FundingProofs ----------------------------
(***************************************************************************)
(* Theorems about Funding for every value of its constants that satisfies  *)
(* the assumption.  IInv is the inductive invariant all of them rest on.   *)
(***************************************************************************)
EXTENDS Funding, SumProofs, TLAPS

(* A creation between its two commits works on a payment that is creating. *)
TaskInv == running # None => Has(running, {"creating"})

(* Stars are charged for payments that exist.                              *)
ChargeInv == \A c \in Charges : charge[c] # None => charge[c].payment \in Created

IInv == TypeOK /\ TaskInv /\ ChargeInv /\ LedgerMatchesPaid /\ PaidWasProved /\ OneKeyOnePayment

(* What no step does to rows and to what happened outside.                 *)
KeepsRows ==
  \A p \in Payments :
    payment[p] # None => payment'[p] # None /\ payment'[p].terms = payment[p].terms

KeepsEvidence ==
  /\ \A p \in Payments \ {running} : invoice[p] = "paid" => invoice'[p] = "paid"
  /\ \A c \in Charges :
       charge[c] # None /\ charge[c].stage \in {"charged", "received"} =>
         /\ charge'[c] # None /\ charge'[c].payment = charge[c].payment
         /\ charge'[c].stage \in {"charged", "received"}
  /\ \A t \in Transfers :
       transfer[t] # None =>
         /\ transfer'[t] # None
         /\ transfer'[t].memo = transfer[t].memo
         /\ transfer'[t].inTime = transfer[t].inTime
         /\ transfer[t].confirmed => transfer'[t].confirmed

SamePaid ==
  \A p \in Payments :
    /\ payment'[p] # None <=> payment[p] # None
    /\ payment[p] # None => (payment'[p].status = "paid" <=> payment[p].status = "paid")

PaidStays == \A p \in Payments : Has(p, {"paid"}) => payment'[p].status = "paid"

-----------------------------------------------------------------------------
(* Facts about the operators *)

(* A row is not the absence of a row.                                      *)
LEMMA RowIsSome ==
  ASSUME NEW row \in PaymentRow
  PROVE  row # None
BY FundingAssumption DEF PaymentRow

(* The terms of a payment that exists.                                     *)
LEMMA RowType ==
  ASSUME TypeOK, NEW p \in Created
  PROVE  /\ p \in Payments
         /\ payment[p] \in PaymentRow
         /\ Method(p) \in Methods
         /\ User(p) \in Users
         /\ payment[p].status \in Status
BY FundingAssumption DEF TypeOK, Created, Method, User, PaymentRow

(* What a payment is credited with is an amount.                           *)
LEMMA CreditType ==
  ASSUME TypeOK, NEW p \in Created
  PROVE  Credit(p) \in Nat
<1>1. payment[p].terms.amount \in Nat /\ Cashback[Method(p)] \in 0 .. 100
  BY RowType, FundingAssumption DEF PaymentRow
<1>2. payment[p].terms.amount * Cashback[Method(p)] \in Nat
  BY <1>1
<1>3. (payment[p].terms.amount * Cashback[Method(p)]) \div 100 \in Nat
  BY <1>2
<1>4. QED
  BY <1>1, <1>3 DEF Credit

(* What backs a payment keeps backing it.                                  *)
LEMMA BacksStays ==
  ASSUME TypeOK, KeepsRows, KeepsEvidence,
         NEW p \in Created \ {running}, NEW r \in References, Backs(r, p)
  PROVE  Backs(r, p)'
BY DEF Backs, KeepsRows, KeepsEvidence, Created, Method, References, TypeOK

(* Every inquiry that succeeds gives a reference that backs the payment.   *)
LEMMA ProvableBacks ==
  ASSUME TypeOK, NEW p \in Created, Provable(p)
  PROVE  ProofOf(p) \in References /\ Backs(ProofOf(p), p)
<1>1. CASE Method(p) = "crypto"
  <2>1. Proves(payment[p].hash, p)
    BY <1>1 DEF Provable
  <2>2. payment[p].hash \in Transfers
    BY <2>1, RowType DEF Proves, PaymentRow
  <2>3. QED
    BY <1>1, <2>1, <2>2 DEF ProofOf, References, Backs, Proves
<1>2. CASE Method(p) # "crypto"
  BY <1>2, RowType DEF ProofOf, References, Backs, Provable
<1>3. QED
  BY <1>1, <1>2

-----------------------------------------------------------------------------
(* Steps that credit nothing *)

(* A step that leaves keys, references, wallets and the set of paid        *)
(* payments alone keeps the invariants about them.                         *)
LEMMA NothingPaid ==
  ASSUME IInv, KeepsRows, KeepsEvidence, SamePaid, UNCHANGED <<owner, ledger, request>>
  PROVE  LedgerMatchesPaid' /\ PaidWasProved' /\ OneKeyOnePayment' /\ PaidStays
<1>. USE DEF IInv
<1>1. \A p \in Payments : Has(p, {"paid"})' <=> Has(p, {"paid"})
  BY DEF SamePaid, Has, Created
<1>2. LedgerMatchesPaid'
  BY <1>1 DEF LedgerMatchesPaid
<1>3. PaidWasProved'
  <2>. SUFFICES ASSUME NEW p \in Payments, Has(p, {"paid"})'
                PROVE  \E r \in References : owner'[r] = p /\ Backs(r, p)'
    BY DEF PaidWasProved
  <2>1. PICK r \in References : owner[r] = p /\ Backs(r, p)
    BY <1>1 DEF PaidWasProved
  <2>2. p \in Created \ {running}
    BY <1>1, FundingAssumption DEF Has, TaskInv, Created
  <2>3. QED
    BY <2>1, <2>2, BacksStays
<1>4. Created' = Created /\ \A p \in Created : User(p)' = User(p)
  BY DEF SamePaid, KeepsRows, Created, User
<1>5. OneKeyOnePayment'
  <2>1. request' = request /\ OneKeyOnePayment
    OBVIOUS
  <2>2. QED
    BY <1>4, <2>1 DEF OneKeyOnePayment
<1>6. PaidStays
  BY <1>1 DEF PaidStays, Has
<1>7. QED
  BY <1>2, <1>3, <1>5, <1>6

(* The same for the whole invariant.                                       *)
LEMMA QuietStep ==
  ASSUME IInv, TypeOK', TaskInv', ChargeInv', KeepsRows, KeepsEvidence, SamePaid,
         UNCHANGED <<owner, ledger, request>>
  PROVE  IInv' /\ PaidStays /\ KeepsRows
BY NothingPaid DEF IInv

-----------------------------------------------------------------------------
(* Settlement *)

(* A settlement backed by its reference keeps the invariants.  "from" are  *)
(* the rows it starts from: those of the store, or with a new hash.        *)
LEMMA SettlesKeeps ==
  ASSUME IInv, NEW p \in Created, NEW r \in References, NEW from,
         from \in [Payments -> PaymentRow \union {None}],
         \A q \in Payments :
           /\ from[q] # None <=> payment[q] # None
           /\ payment[q] # None =>
                from[q].terms = payment[q].terms /\ from[q].status = payment[q].status,
         Unused(p, r), Backs(r, p), Settles(from, p, r),
         running = None, KeepsEvidence, UNCHANGED request
  PROVE  /\ KeepsRows /\ PaidStays
         /\ payment' \in [Payments -> PaymentRow \union {None}]
         /\ owner' \in [References -> Payments \union {None}]
         /\ balance' \in [Users -> Nat]
         /\ ledger' \subseteq Payments
         /\ LedgerMatchesPaid' /\ PaidWasProved' /\ OneKeyOnePayment'
<1>. USE DEF IInv
<1>p. /\ p \in Payments /\ p # running
      /\ payment[p] # None /\ from[p] # None /\ from[p] \in PaymentRow
  BY FundingAssumption DEF Created
<1>1. CASE from[p].status = "paid"
  <2>1. payment' = from /\ UNCHANGED <<owner, balance, ledger>>
    BY <1>1 DEF Settles
  <2>2. KeepsRows /\ SamePaid
    BY <2>1 DEF KeepsRows, SamePaid
  <2>3. LedgerMatchesPaid' /\ PaidWasProved' /\ OneKeyOnePayment' /\ PaidStays
    BY <2>1, <2>2, NothingPaid
  <2>4. QED
    BY <2>1, <2>2, <2>3 DEF TypeOK
<1>2. CASE from[p].status # "paid"
  <2>1. /\ payment' = [from EXCEPT ![p].status = "paid"]
        /\ owner' = [owner EXCEPT ![r] = p]
        /\ balance' = IF p \in ledger THEN balance ELSE [balance EXCEPT ![User(p)] = @ + Credit(p)]
        /\ ledger' = ledger \union {p}
    BY <1>2 DEF Settles
  <2>2. [from[p] EXCEPT !.status = "paid"] \in PaymentRow
    BY <1>p DEF PaymentRow, Status
  <2>3. /\ payment' \in [Payments -> PaymentRow \union {None}]
        /\ payment'[p] \in PaymentRow
        /\ payment'[p].status = "paid" /\ payment'[p].terms = payment[p].terms
        /\ \A q \in Payments \ {p} : payment'[q] = from[q]
    <3>1. payment' = [q \in Payments |-> IF q = p THEN [from[p] EXCEPT !.status = "paid"] ELSE from[q]]
      BY <2>1, <1>p
    <3>2. [from[p] EXCEPT !.status = "paid"].status = "paid"
          /\ [from[p] EXCEPT !.status = "paid"].terms = payment[p].terms
      BY <1>p DEF PaymentRow
    <3>3. QED
      BY <3>1, <3>2, <2>2, <1>p
  <2>4. payment'[p] # None
    BY <2>3, RowIsSome
  <2>5. KeepsRows
    BY <2>3, <2>4 DEF KeepsRows
  <2>6. Created' = Created /\ \A q \in Created : User(q)' = User(q)
    BY <2>3, <2>4, <1>p DEF Created, User
  <2>7. \A q \in Payments : Has(q, {"paid"})' <=> (Has(q, {"paid"}) \/ q = p)
    <3>1. Has(p, {"paid"})'
      BY <2>3, <2>4, <1>p DEF Has, Created
    <3>2. ASSUME NEW q \in Payments \ {p} PROVE Has(q, {"paid"})' <=> Has(q, {"paid"})
      BY <2>3 DEF Has, Created
    <3>3. QED
      BY <3>1, <3>2
  <2>8. LedgerMatchesPaid'
    BY <2>1, <2>7 DEF LedgerMatchesPaid
  <2>9. PaidWasProved'
    <3>. SUFFICES ASSUME NEW q \in Payments, Has(q, {"paid"})'
                  PROVE  \E s \in References : owner'[s] = q /\ Backs(s, q)'
      BY DEF PaidWasProved
    <3>1. CASE q = p
      <4>1. owner'[r] = p
        BY <2>1 DEF TypeOK
      <4>2. QED
        BY <4>1, <3>1, <2>5, <1>p, BacksStays
    <3>2. CASE q # p
      <4>1. Has(q, {"paid"})
        BY <3>2, <2>7
      <4>2. PICK s \in References : owner[s] = q /\ Backs(s, q)
        BY <4>1 DEF PaidWasProved
      <4>3. s # r
        BY <4>2, <3>2, <4>1, FundingAssumption DEF Unused, Has, Created
      <4>4. owner'[s] = q
        BY <2>1, <4>2, <4>3 DEF TypeOK
      <4>5. QED
        BY <4>1, <4>2, <4>4, <2>5, FundingAssumption, BacksStays DEF Has
    <3>3. QED
      BY <3>1, <3>2
  <2>10. OneKeyOnePayment'
    BY <2>6 DEF OneKeyOnePayment
  <2>11. PaidStays
    BY <2>3, <2>7 DEF PaidStays, Has
  <2>12. balance' \in [Users -> Nat]
    <3>1. User(p) \in Users /\ Credit(p) \in Nat
      BY RowType, CreditType
    <3>2. QED
      BY <3>1, <2>1 DEF TypeOK
  <2>13. QED
    BY <2>1, <2>3, <2>5, <2>8, <2>9, <2>10, <2>11, <2>12, <1>p DEF TypeOK
<1>3. QED
  BY <1>1, <1>2
-----------------------------------------------------------------------------
(* The initial state *)

(* The invariant holds before anything has happened.                       *)
LEMMA InitIInv == Init => IInv
<1>. SUFFICES ASSUME Init PROVE IInv
  OBVIOUS
<1>1. Created = {}
  BY DEF Init, Created
<1>2. TypeOK
  BY FundingAssumption DEF Init, TypeOK
<1>3. TaskInv /\ ChargeInv
  BY DEF Init, TaskInv, ChargeInv
<1>4. LedgerMatchesPaid /\ PaidWasProved /\ OneKeyOnePayment
  BY <1>1 DEF Init, LedgerMatchesPaid, PaidWasProved, OneKeyOnePayment, Has
<1>5. QED
  BY <1>2, <1>3, <1>4 DEF IInv

-----------------------------------------------------------------------------
(* Creation *)

(* A new payment gets a free id and the key of the request, both at once.  *)
LEMMA CreatePaymentStep ==
  ASSUME IInv, NEW u \in Users, NEW n \in Nonces, NEW terms \in Terms, CreatePayment(u, n, terms)
  PROVE  IInv' /\ PaidStays /\ KeepsRows
<1>. USE DEF IInv
<1>. DEFINE row == [terms |-> terms, status |-> "creating", hash |-> None]
<1>1. PICK p \in Payments : payment[p] = None /\ p = CHOOSE q \in Payments : payment[q] = None
  BY DEF CreatePayment, Created
<1>2. /\ running = None /\ running' = p
      /\ terms.user = u /\ request[u][n] = None
      /\ payment' = [payment EXCEPT ![p] = row]
      /\ request' = [request EXCEPT ![u][n] = p]
      /\ turn' = <<p>> \o turn
      /\ UNCHANGED <<owner, balance, ledger, age, crashes, invoice, charge, transfer>>
  BY <1>1 DEF CreatePayment, external
<1>3. row \in PaymentRow /\ row # None
  <2>1. row \in PaymentRow
    BY DEF PaymentRow, Status
  <2>2. QED
    BY <2>1, RowIsSome
<1>4. payment'[p] = row /\ \A q \in Payments \ {p} : payment'[q] = payment[q]
  BY <1>1, <1>2 DEF TypeOK
<1>5. Created' = Created \union {p} /\ p \notin Created
  BY <1>1, <1>3, <1>4 DEF Created
<1>6. TypeOK'
  <2>1. payment' \in [Payments -> PaymentRow \union {None}]
    BY <1>1, <1>2, <1>3 DEF TypeOK
  <2>2. request' \in [Users -> [Nonces -> Payments \union {None}]]
    BY <1>1, <1>2 DEF TypeOK
  <2>3. turn' \in Seq(Payments)
    BY <1>1, <1>2 DEF TypeOK
  <2>4. QED
    BY <1>1, <1>2, <2>1, <2>2, <2>3 DEF TypeOK
<1>7. TaskInv'
  BY <1>2, <1>4, <1>5 DEF TaskInv, Has
<1>8. ChargeInv'
  BY <1>2, <1>5 DEF ChargeInv
<1>9. KeepsRows /\ KeepsEvidence
  BY <1>1, <1>2, <1>4 DEF KeepsRows, KeepsEvidence
<1>10. \A q \in Payments : Has(q, {"paid"})' <=> Has(q, {"paid"})
  BY <1>4, <1>5 DEF Has
<1>11. LedgerMatchesPaid'
  BY <1>2, <1>10 DEF LedgerMatchesPaid
<1>12. PaidWasProved'
  <2>. SUFFICES ASSUME NEW q \in Payments, Has(q, {"paid"})'
                PROVE  \E r \in References : owner'[r] = q /\ Backs(r, q)'
    BY DEF PaidWasProved
  <2>1. PICK r \in References : owner[r] = q /\ Backs(r, q)
    BY <1>10 DEF PaidWasProved
  <2>2. q \in Created \ {running} /\ owner' = owner
    BY <1>2, <1>10, FundingAssumption DEF Has
  <2>3. QED
    BY <2>1, <2>2, <1>9, BacksStays
<1>13. OneKeyOnePayment'
  <2>1. \A q \in Created : User(q)' = User(q)
    BY <1>4, <1>5 DEF User, Created
  <2>2. User(p)' = u
    BY <1>2, <1>4 DEF User
  <2>3. request'[u][n] = p
    BY <1>2 DEF TypeOK
  <2>4. \A v \in Users, m \in Nonces :
          <<v, m>> # <<u, n>> => request'[v][m] = request[v][m]
    BY <1>2 DEF TypeOK
  <2>5. \A v \in Users, m \in Nonces : request[v][m] # p
    <3>1. p # None
      BY FundingAssumption
    <3>2. \A v \in Users, m \in Nonces : request[v][m] # None => request[v][m] \in Created
      BY DEF OneKeyOnePayment
    <3>3. QED
      BY <3>1, <3>2, <1>5
  <2>6. \A q \in Created' : \E m \in Nonces : request'[User(q)'][m] = q
    <3>1. ASSUME NEW q \in Created PROVE \E m \in Nonces : request'[User(q)'][m] = q
      <4>1. PICK m \in Nonces : request[User(q)][m] = q
        BY DEF OneKeyOnePayment
      <4>2. User(q) \in Users /\ q # None
        BY RowType, FundingAssumption DEF Created
      <4>3. request'[User(q)][m] = q
        BY <4>1, <4>2, <1>2, <2>4
      <4>4. QED
        BY <4>3, <2>1
    <3>2. QED
      BY <3>1, <2>2, <2>3, <1>5
  <2>7. \A v, w \in Users, m, k \in Nonces :
          request'[v][m] # None =>
            /\ request'[v][m] \in Created' /\ payment'[request'[v][m]].terms.user = v
            /\ request'[v][m] = request'[w][k] => <<v, m>> = <<w, k>>
    <3>. SUFFICES ASSUME NEW v \in Users, NEW w \in Users, NEW m \in Nonces, NEW k \in Nonces,
                         request'[v][m] # None
                  PROVE  /\ request'[v][m] \in Created' /\ payment'[request'[v][m]].terms.user = v
                         /\ request'[v][m] = request'[w][k] => <<v, m>> = <<w, k>>
      OBVIOUS
    <3>1. CASE <<v, m>> = <<u, n>>
      <4>1. request'[v][m] = p
        BY <3>1, <2>3
      <4>2. p \in Created' /\ User(p)' = v
        BY <3>1, <2>2, <1>5
      <4>3. request'[w][k] = p => <<w, k>> = <<u, n>>
        BY <2>4, <2>5
      <4>4. QED
        BY <4>1, <4>2, <4>3, <3>1 DEF User
    <3>2. CASE <<v, m>> # <<u, n>>
      <4>1. request'[v][m] = request[v][m]
        BY <3>2, <2>4
      <4>2. request[v][m] \in Created /\ User(request[v][m]) = v /\ request[v][m] # p
        BY <4>1, <2>5 DEF OneKeyOnePayment
      <4>3. <<w, k>> # <<u, n>> => request'[w][k] = request[w][k]
        BY <2>4
      <4>4. request'[v][m] = request'[w][k] => <<v, m>> = <<w, k>>
        <5>1. request[v][m] # None /\ request'[u][n] # request[v][m]
          BY <4>1, <4>2, <2>3
        <5>2. request[v][m] = request[w][k] => <<v, m>> = <<w, k>>
          BY <5>1 DEF OneKeyOnePayment
        <5>3. QED
          BY <5>1, <5>2, <4>1, <4>3
      <4>5. QED
        BY <4>1, <4>2, <4>4, <2>1, <1>5 DEF User
    <3>3. QED
      BY <3>1, <3>2
  <2>8. QED
    BY <2>6, <2>7 DEF OneKeyOnePayment, User
<1>14. PaidStays
  BY <1>10 DEF PaidStays, Has
<1>15. QED
  BY <1>6, <1>7, <1>8, <1>9, <1>11, <1>12, <1>13, <1>14
(* The end of a creation changes only the payment that is creating.        *)
LEMMA FinishCreateStep ==
  ASSUME IInv, NEW p \in Payments, NEW outcome \in Outcomes, FinishCreate(p, outcome)
  PROVE  IInv' /\ PaidStays /\ KeepsRows
<1>. USE DEF IInv
<1>. DEFINE status == CASE outcome = "ok" -> "pending" [] outcome = "failed" -> "failed"
                        [] outcome = "lost" -> "review"
            row == [payment[p] EXCEPT !.status = status]
<1>1. /\ running = p /\ running' = None
      /\ payment' = [payment EXCEPT ![p].status = status]
      /\ UNCHANGED <<request, owner, balance, ledger, turn, age, crashes, charge, transfer>>
  BY DEF FinishCreate
<1>2. payment[p] \in PaymentRow /\ payment[p] # None /\ payment[p].status = "creating"
  BY <1>1, RowType, FundingAssumption DEF TaskInv, Has, Created
<1>3. status \in {"pending", "failed", "review"}
  BY FundingAssumption
<1>. HIDE DEF status
<1>4. row \in PaymentRow /\ row.status = status /\ row.terms = payment[p].terms
  BY <1>2, <1>3 DEF PaymentRow, Status
<1>5. payment' = [q \in Payments |-> IF q = p THEN row ELSE payment[q]]
  BY <1>1, <1>2 DEF TypeOK
<1>6. row # None
  BY <1>4, RowIsSome
<1>7. invoice' \in [Payments -> {"none", "open", "paid"}]
      /\ \A q \in Payments \ {p} : invoice'[q] = invoice[q]
  BY DEF FinishCreate, TypeOK
<1>. HIDE DEF row
<1>8. TypeOK'
  <2>1. payment' \in [Payments -> PaymentRow \union {None}]
    BY <1>4, <1>5 DEF TypeOK
  <2>2. QED
    BY <1>1, <1>7, <2>1 DEF TypeOK
<1>9. TaskInv' /\ ChargeInv'
  BY <1>1, <1>5, <1>6 DEF TaskInv, ChargeInv, Created
<1>10. KeepsRows /\ SamePaid
  BY <1>2, <1>3, <1>4, <1>5, <1>6 DEF KeepsRows, SamePaid
<1>11. KeepsEvidence
  BY <1>1, <1>7 DEF KeepsEvidence
<1>12. QED
  BY <1>1, <1>8, <1>9, <1>10, <1>11, QuietStep

(* A creation cut short leaves its row and its key.                        *)
LEMMA CrashStep ==
  ASSUME IInv, Crash
  PROVE  IInv' /\ PaidStays /\ KeepsRows
<1>. USE DEF IInv, Crash, rows, external
<1>1. TypeOK'
  BY FundingAssumption DEF TypeOK
<1>2. TaskInv' /\ ChargeInv'
  BY DEF TaskInv, ChargeInv, Created
<1>3. KeepsRows /\ KeepsEvidence /\ SamePaid
  BY DEF KeepsRows, KeepsEvidence, SamePaid
<1>4. QED
  BY <1>1, <1>2, <1>3, QuietStep

-----------------------------------------------------------------------------
(* Settling actions *)

(* A step that settles from rows like those of the store, and touches      *)
(* nothing else but the turn and the stage of a charge.                    *)
LEMMA SettlingStep ==
  ASSUME IInv, NEW p \in Created, NEW r \in References, NEW from,
         from \in [Payments -> PaymentRow \union {None}],
         \A q \in Payments :
           /\ from[q] # None <=> payment[q] # None
           /\ payment[q] # None =>
                from[q].terms = payment[q].terms /\ from[q].status = payment[q].status,
         Unused(p, r), Backs(r, p), Settles(from, p, r), KeepsEvidence,
         turn' \in Seq(Payments), charge' \in [Charges -> ChargeRow \union {None}],
         \A c \in Charges : charge'[c] # None =>
                               charge[c] # None /\ charge'[c].payment = charge[c].payment,
         running = None, UNCHANGED <<request, running, age, crashes, invoice, transfer>>
  PROVE  IInv' /\ PaidStays /\ KeepsRows
<1>1. /\ KeepsRows /\ PaidStays
      /\ payment' \in [Payments -> PaymentRow \union {None}]
      /\ owner' \in [References -> Payments \union {None}]
      /\ balance' \in [Users -> Nat]
      /\ ledger' \subseteq Payments
      /\ LedgerMatchesPaid' /\ PaidWasProved' /\ OneKeyOnePayment'
  BY SettlesKeeps
<1>2. TypeOK'
  BY <1>1 DEF IInv, TypeOK
<1>3. TaskInv'
  BY DEF TaskInv
<1>4. ChargeInv'
  BY <1>1 DEF IInv, ChargeInv, KeepsRows, Created
<1>5. QED
  BY <1>1, <1>2, <1>3, <1>4 DEF IInv

(* Settling from the rows of the store without touching a charge.          *)
LEMMA PlainSettlement ==
  ASSUME IInv, NEW p \in Created, NEW r \in References, Unused(p, r), Backs(r, p),
         Settles(payment, p, r), turn' \in Seq(Payments),
         running = None, UNCHANGED <<request, running, age, crashes, external>>
  PROVE  IInv' /\ PaidStays /\ KeepsRows
<1>1. KeepsEvidence /\ charge' = charge /\ UNCHANGED <<invoice, transfer>>
  BY DEF KeepsEvidence, external
<1>2. QED
  BY <1>1, SettlingStep DEF IInv, TypeOK

(* Callbacks and checks.                                                   *)
LEMMA VerifyPaymentStep ==
  ASSUME IInv, NEW p \in Payments, VerifyPayment(p)
  PROVE  IInv' /\ PaidStays /\ KeepsRows
BY ProvableBacks, PlainSettlement DEF VerifyPayment, IInv, TypeOK

(* The webhook of Tronado.                                                 *)
LEMMA SignedWebhookStep ==
  ASSUME IInv, NEW p \in Payments, SignedWebhook(p)
  PROVE  IInv' /\ PaidStays /\ KeepsRows
<1>1. <<"invoice", p>> \in References /\ Backs(<<"invoice", p>>, p)
  BY DEF SignedWebhook, References, Backs
<1>2. QED
  BY <1>1, PlainSettlement DEF SignedWebhook, IInv, TypeOK

(* A Stars charge settles its payment, whether or not it is acknowledged.  *)
LEMMA StarsSuccessfulStep ==
  ASSUME IInv, NEW c \in Charges, NEW acknowledged \in BOOLEAN, StarsSuccessful(c, acknowledged)
  PROVE  IInv' /\ PaidStays /\ KeepsRows
<1>. DEFINE p == charge[c].payment
<1>1. charge[c] \in ChargeRow /\ charge[c] # None /\ charge[c].stage = "charged" /\ p \in Created
  BY DEF IInv, TypeOK, ChargeInv, StarsSuccessful
<1>2. <<"stars", c>> \in References /\ Backs(<<"stars", c>>, p)
  BY <1>1 DEF References, Backs
<1>3. /\ charge' \in [Charges -> ChargeRow \union {None}]
      /\ \A d \in Charges : charge'[d] # None =>
                              charge[d] # None /\ charge'[d].payment = charge[d].payment
      /\ \A d \in Charges : charge[d] # None =>
              /\ charge'[d] # None /\ charge'[d].payment = charge[d].payment
              /\ charge[d].stage \in {"charged", "received"} =>
                   charge'[d].stage \in {"charged", "received"}
  <2>1. CASE acknowledged
    <3>. DEFINE row == [charge[c] EXCEPT !.stage = "received"]
    <3>1. row \in ChargeRow /\ row.payment = p /\ row.stage = "received" /\ row # None
      BY <1>1, FundingAssumption DEF ChargeRow
    <3>2. charge' = [d \in Charges |-> IF d = c THEN row ELSE charge[d]]
      BY <2>1 DEF StarsSuccessful, IInv, TypeOK
    <3>. HIDE DEF row
    <3>3. QED
      BY <3>1, <3>2, <1>1 DEF IInv, TypeOK
  <2>2. CASE ~acknowledged
    BY <2>2 DEF StarsSuccessful, IInv, TypeOK
  <2>3. QED
    BY <2>1, <2>2
<1>4. KeepsEvidence
  <2>1. invoice' = invoice /\ transfer' = transfer
    BY DEF StarsSuccessful
  <2>2. \A d \in Charges :
          charge[d] # None /\ charge[d].stage \in {"charged", "received"} =>
            /\ charge'[d] # None /\ charge'[d].payment = charge[d].payment
            /\ charge'[d].stage \in {"charged", "received"}
    BY <1>3
  <2>3. QED
    BY ONLY <2>1, <2>2 DEF KeepsEvidence
<1>5. QED
  BY <1>1, <1>2, <1>3, <1>4, SettlingStep DEF StarsSuccessful, IInv, TypeOK
-----------------------------------------------------------------------------
(* Steps that edit a row *)

(* A new hash or status of a payment that exists, none of them "paid".     *)
LEMMA RowEdit ==
  ASSUME IInv, NEW p \in Created, NEW row \in PaymentRow, row.terms = payment[p].terms,
         row.status = "paid" <=> payment[p].status = "paid",
         payment' = [q \in Payments |-> IF q = p THEN row ELSE payment[q]],
         turn' \in Seq(Payments), running = None,
         UNCHANGED <<request, owner, balance, ledger, running, age, crashes, external>>
  PROVE  IInv' /\ PaidStays /\ KeepsRows
<1>. USE DEF IInv
<1>1. p \in Payments /\ payment[p] # None /\ row # None
  BY RowIsSome DEF Created
<1>2. TypeOK'
  BY <1>1 DEF TypeOK, external
<1>3. TaskInv'
  BY DEF TaskInv
<1>4. KeepsRows /\ SamePaid
  BY <1>1 DEF KeepsRows, SamePaid
<1>5. ChargeInv'
  BY <1>4 DEF ChargeInv, SamePaid, Created, external
<1>6. KeepsEvidence
  BY DEF KeepsEvidence, external
<1>7. QED
  BY <1>2, <1>3, <1>4, <1>5, <1>6, QuietStep

(* The same for a change of status.                                        *)
LEMMA StatusEdit ==
  ASSUME IInv, NEW p \in Created, NEW status \in Status \ {"paid"}, payment[p].status # "paid",
         payment' = [payment EXCEPT ![p].status = status],
         turn' \in Seq(Payments), running = None,
         UNCHANGED <<request, owner, balance, ledger, running, age, crashes, external>>
  PROVE  IInv' /\ PaidStays /\ KeepsRows
<1>. DEFINE row == [payment[p] EXCEPT !.status = status]
<1>1. p \in Payments /\ payment[p] \in PaymentRow
  BY RowType DEF IInv
<1>2. row \in PaymentRow /\ row.terms = payment[p].terms /\ row.status = status
  BY <1>1 DEF PaymentRow
<1>3. payment' = [q \in Payments |-> IF q = p THEN row ELSE payment[q]]
  BY <1>1 DEF IInv, TypeOK
<1>. HIDE DEF row
<1>4. QED
  BY <1>2, <1>3, RowEdit

(* A hash is stored, and settles the payment when it proves it.            *)
LEMMA AttachHashStep ==
  ASSUME IInv, NEW p \in Payments, NEW t \in Transfers, NEW answered \in BOOLEAN,
         AttachHash(p, t, answered)
  PROVE  IInv' /\ PaidStays /\ KeepsRows
<1>. DEFINE row == [payment[p] EXCEPT !.hash = t]
            hashed == [payment EXCEPT ![p].hash = t]
<1>1. p \in Created /\ payment[p] # None /\ payment[p] \in PaymentRow /\ Method(p) = "crypto"
  BY RowType DEF AttachHash, Has, Created, IInv
<1>2. /\ row \in PaymentRow /\ row # None
      /\ row.terms = payment[p].terms /\ row.status = payment[p].status
  <2>1. row \in PaymentRow /\ row.terms = payment[p].terms /\ row.status = payment[p].status
    BY <1>1 DEF PaymentRow
  <2>2. QED
    BY <2>1, RowIsSome
<1>3. hashed = [q \in Payments |-> IF q = p THEN row ELSE payment[q]]
  BY DEF IInv, TypeOK
<1>4. /\ running = None /\ turn' \in Seq(Payments)
      /\ UNCHANGED <<request, running, age, crashes, external>>
  BY DEF AttachHash, IInv, TypeOK
<1>. HIDE DEF row
<1>5. CASE answered /\ Proves(t, p) /\ Unused(p, <<"crypto", t>>)
  <2>1. Settles(hashed, p, <<"crypto", t>>)
    BY <1>5 DEF AttachHash
  <2>2. <<"crypto", t>> \in References /\ Backs(<<"crypto", t>>, p)
    BY <1>5 DEF References, Backs, Proves
  <2>3. hashed \in [Payments -> PaymentRow \union {None}]
    BY <1>2, <1>3 DEF IInv, TypeOK
  <2>4. \A q \in Payments :
          /\ hashed[q] # None <=> payment[q] # None
          /\ payment[q] # None =>
               hashed[q].terms = payment[q].terms /\ hashed[q].status = payment[q].status
    BY <1>1, <1>2, <1>3
  <2>5. KeepsEvidence
    BY <1>4 DEF KeepsEvidence, external
  <2>6. charge' = charge /\ UNCHANGED <<invoice, transfer>>
    BY <1>4 DEF external
  <2>. HIDE DEF hashed
  <2>7. QED
    BY <1>1, <1>4, <1>5, <2>1, <2>2, <2>3, <2>4, <2>5, <2>6, SettlingStep DEF IInv, TypeOK
<1>6. CASE ~(answered /\ Proves(t, p) /\ Unused(p, <<"crypto", t>>))
  <2>1. payment' = hashed /\ UNCHANGED <<owner, balance, ledger>>
    BY <1>6 DEF AttachHash
  <2>2. payment' = [q \in Payments |-> IF q = p THEN row ELSE payment[q]]
    BY <2>1, <1>3
  <2>. HIDE DEF hashed
  <2>3. QED
    BY <1>1, <1>2, <1>4, <2>1, <2>2, RowEdit
<1>7. QED
  BY <1>5, <1>6

(* A receipt is attached to a pending payment.                             *)
LEMMA AttachReceiptStep ==
  ASSUME IInv, NEW p \in Payments, AttachReceipt(p)
  PROVE  IInv' /\ PaidStays /\ KeepsRows
BY StatusEdit DEF AttachReceipt, Has, Status, IInv, TypeOK

(* A receipt settles its payment or is rejected.                           *)
LEMMA DecideReceiptStep ==
  ASSUME IInv, NEW p \in Payments, NEW approve \in BOOLEAN, DecideReceipt(p, approve)
  PROVE  IInv' /\ PaidStays /\ KeepsRows
<1>1. CASE approve
  <2>1. <<"manual", p>> \in References /\ Backs(<<"manual", p>>, p)
    BY DEF DecideReceipt, References, Backs
  <2>2. QED
    BY <1>1, <2>1, PlainSettlement DEF DecideReceipt, Has, IInv, TypeOK
<1>2. CASE ~approve
  BY <1>2, StatusEdit DEF DecideReceipt, Has, Status, IInv, TypeOK
<1>3. QED
  BY <1>1, <1>2

(* Only a pending payment is cancelled.                                    *)
LEMMA CancelPaymentStep ==
  ASSUME IInv, NEW p \in Payments, CancelPayment(p)
  PROVE  IInv' /\ PaidStays /\ KeepsRows
BY StatusEdit DEF CancelPayment, Has, Status, IInv, TypeOK

(* A check settles, expires or leaves a payment and moves it to the end.   *)
LEMMA CheckPaymentStep ==
  ASSUME IInv, NEW i \in DOMAIN turn, NEW answered \in BOOLEAN, CheckPayment(i, answered)
  PROVE  IInv' /\ PaidStays /\ KeepsRows
<1>. DEFINE p == turn[i]
<1>1. p \in Payments /\ p \in Created
  BY DEF IInv, TypeOK, CheckPayment, NextToCheck, Checkable, Has
<1>2. turn' \in Seq(Payments)
  <2>1. turn \in Seq(Payments) /\ i \in 1 .. Len(turn)
    BY DEF IInv, TypeOK
  <2>2. RemoveAt(turn, i) \in Seq(Payments)
    BY <2>1 DEF RemoveAt
  <2>3. QED
    BY <2>2, <1>1 DEF CheckPayment, ToTheEnd
<1>3. running = None /\ UNCHANGED <<request, running, age, crashes, external>>
  BY DEF CheckPayment
<1>4. CASE answered /\ Polled(p) /\ Provable(p) /\ Unused(p, ProofOf(p))
  <2>1. Settles(payment, p, ProofOf(p))
    BY <1>4 DEF CheckPayment
  <2>2. ProofOf(p) \in References /\ Backs(ProofOf(p), p)
    BY <1>1, <1>4, ProvableBacks DEF IInv
  <2>. HIDE DEF p
  <2>3. QED
    BY <1>1, <1>2, <1>3, <1>4, <2>1, <2>2, PlainSettlement
<1>5. CASE ~(answered /\ Polled(p) /\ Provable(p) /\ Unused(p, ProofOf(p)))
  <2>1. /\ payment' = IF payment[p].status = "pending" /\ age[p] # "open"
                      THEN [payment EXCEPT ![p].status = "expired"] ELSE payment
        /\ UNCHANGED <<owner, balance, ledger>>
    BY <1>5 DEF CheckPayment
  <2>. HIDE DEF p
  <2>2. CASE payment[p].status = "pending" /\ age[p] # "open"
    BY <1>1, <1>2, <1>3, <2>1, <2>2, StatusEdit DEF Status
  <2>3. CASE ~(payment[p].status = "pending" /\ age[p] # "open")
    <3>1. payment' = [q \in Payments |-> IF q = p THEN payment[p] ELSE payment[q]]
      BY <2>1, <2>3 DEF IInv, TypeOK
    <3>2. payment[p] \in PaymentRow
      BY <1>1, RowType DEF IInv
    <3>3. QED
      BY <1>1, <1>2, <1>3, <2>1, <3>1, <3>2, RowEdit
  <2>4. QED
    BY <2>2, <2>3
<1>6. QED
  BY <1>4, <1>5
-----------------------------------------------------------------------------
(* What happens outside *)

(* Steps of customers, gateways and time leave the store alone.            *)
LEMMA OutsideStep ==
  ASSUME IInv, UNCHANGED <<rows, running, crashes>>, KeepsEvidence, ChargeInv',
         age' \in [Payments -> {"open", "due", "stale"}],
         invoice' \in [Payments -> {"none", "open", "paid"}],
         charge' \in [Charges -> ChargeRow \union {None}],
         transfer' \in [Transfers -> TransferRow \union {None}]
  PROVE  IInv' /\ PaidStays /\ KeepsRows
<1>1. TypeOK'
  BY DEF IInv, TypeOK, rows
<1>2. TaskInv'
  BY DEF IInv, TaskInv, Has, Created, rows
<1>3. KeepsRows /\ SamePaid
  BY DEF KeepsRows, SamePaid, rows
<1>4. QED
  BY <1>1, <1>2, <1>3, QuietStep DEF rows

(* The same for a step that changes one charge, not one already charged.   *)
LEMMA ChargeEdit ==
  ASSUME IInv, UNCHANGED <<rows, running, age, crashes, invoice, transfer>>,
         NEW c \in Charges, NEW row \in ChargeRow \union {None},
         row # None => row.payment \in Created,
         charge[c] # None => charge[c].stage \notin {"charged", "received"},
         charge' = [d \in Charges |-> IF d = c THEN row ELSE charge[d]]
  PROVE  IInv' /\ PaidStays /\ KeepsRows
<1>1. charge' \in [Charges -> ChargeRow \union {None}]
  BY DEF IInv, TypeOK
<1>2. ChargeInv'
  BY DEF IInv, ChargeInv, Created, rows
<1>3. KeepsEvidence
  <2>1. \A d \in Charges :
          charge[d] # None /\ charge[d].stage \in {"charged", "received"} => charge'[d] = charge[d]
    OBVIOUS
  <2>2. invoice' = invoice /\ transfer' = transfer
    OBVIOUS
  <2>3. QED
    BY ONLY <2>1, <2>2 DEF KeepsEvidence
<1>4. QED
  BY <1>1, <1>2, <1>3, OutsideStep DEF IInv, TypeOK

(* A pre-checkout is approved or refused.                                  *)
LEMMA PreCheckoutStep ==
  ASSUME IInv, NEW c \in Charges, PreCheckout(c)
  PROVE  IInv' /\ PaidStays /\ KeepsRows
<1>. DEFINE approved == [charge[c] EXCEPT !.stage = "approved"]
            row == IF Has(charge[c].payment, {"pending"}) /\ age[charge[c].payment] = "open"
                   THEN approved ELSE None
<1>1. charge[c] \in ChargeRow /\ charge[c].payment \in Created /\ charge[c].stage = "asked"
  BY DEF IInv, TypeOK, ChargeInv, PreCheckout
<1>2. approved \in ChargeRow /\ approved.payment = charge[c].payment
  BY <1>1 DEF ChargeRow
<1>3. charge' = [d \in Charges |-> IF d = c THEN row ELSE charge[d]]
  BY DEF PreCheckout, IInv, TypeOK
<1>. HIDE DEF approved
<1>4. row \in ChargeRow \union {None} /\ (row # None => row.payment \in Created)
  BY <1>1, <1>2
<1>. HIDE DEF row
<1>5. QED
  BY <1>1, <1>3, <1>4, ChargeEdit DEF PreCheckout

(* A customer opens a Stars invoice.                                       *)
LEMMA AskForStarsStep ==
  ASSUME IInv, NEW c \in Charges, NEW p \in Payments, AskForStars(c, p)
  PROVE  IInv' /\ PaidStays /\ KeepsRows
<1>. DEFINE row == [payment |-> p, stage |-> "asked"]
<1>1. row \in ChargeRow /\ row.payment \in Created
  BY DEF ChargeRow, AskForStars, Has
<1>2. charge' = [d \in Charges |-> IF d = c THEN row ELSE charge[d]]
  BY DEF AskForStars, IInv, TypeOK
<1>. HIDE DEF row
<1>3. QED
  BY <1>1, <1>2, ChargeEdit DEF AskForStars

(* Telegram charges what was approved.                                     *)
LEMMA ChargeStarsStep ==
  ASSUME IInv, NEW c \in Charges, ChargeStars(c)
  PROVE  IInv' /\ PaidStays /\ KeepsRows
<1>. DEFINE row == [charge[c] EXCEPT !.stage = "charged"]
<1>1. charge[c] \in ChargeRow /\ charge[c].payment \in Created /\ charge[c].stage = "approved"
  BY DEF IInv, TypeOK, ChargeInv, ChargeStars
<1>2. row \in ChargeRow /\ row.payment \in Created
  BY <1>1 DEF ChargeRow
<1>3. charge' = [d \in Charges |-> IF d = c THEN row ELSE charge[d]]
  BY DEF ChargeStars, IInv, TypeOK
<1>. HIDE DEF row
<1>4. QED
  BY <1>1, <1>2, <1>3, ChargeEdit DEF ChargeStars

(* Invoices are paid, transfers sent and confirmed, and deadlines pass.    *)
LEMMA WorldStep ==
  ASSUME IInv,
         \/ \E p \in Payments : PayInvoice(p) \/ TimePasses(p)
         \/ \E t \in Transfers, p \in Payments : SendTransfer(t, p)
         \/ \E t \in Transfers : ConfirmTransfer(t)
  PROVE  IInv' /\ PaidStays /\ KeepsRows
<1>. USE DEF IInv
<1>0. ASSUME UNCHANGED <<rows, charge>> PROVE ChargeInv'
  BY <1>0 DEF ChargeInv, Created, rows
<1>1. ASSUME NEW p \in Payments, PayInvoice(p) PROVE IInv' /\ PaidStays /\ KeepsRows
  <2>1. invoice' \in [Payments -> {"none", "open", "paid"}]
        /\ UNCHANGED <<rows, running, age, crashes, charge, transfer>>
    BY <1>1 DEF PayInvoice, TypeOK
  <2>2. KeepsEvidence
    BY <1>1 DEF PayInvoice, KeepsEvidence, TypeOK
  <2>3. QED
    BY <1>0, <2>1, <2>2, OutsideStep DEF TypeOK
<1>2. ASSUME NEW p \in Payments, TimePasses(p) PROVE IInv' /\ PaidStays /\ KeepsRows
  <2>1. age' \in [Payments -> {"open", "due", "stale"}]
        /\ UNCHANGED <<rows, running, crashes, invoice, charge, transfer>>
    BY <1>2 DEF TimePasses, TypeOK, external
  <2>2. KeepsEvidence
    BY <2>1 DEF KeepsEvidence
  <2>3. QED
    BY <1>0, <2>1, <2>2, OutsideStep DEF TypeOK
<1>3. ASSUME NEW t \in Transfers, NEW p \in Payments, SendTransfer(t, p) PROVE IInv' /\ PaidStays /\ KeepsRows
  <2>. DEFINE row == [memo |-> p, inTime |-> age[p] = "open", confirmed |-> FALSE]
  <2>1. row \in TransferRow
    BY DEF TransferRow
  <2>2. transfer' = [u \in Transfers |-> IF u = t THEN row ELSE transfer[u]]
        /\ UNCHANGED <<rows, running, age, crashes, invoice, charge>>
    BY <1>3 DEF SendTransfer, TypeOK
  <2>. HIDE DEF row
  <2>3. transfer' \in [Transfers -> TransferRow \union {None}]
        /\ (\A u \in Transfers : transfer[u] # None => transfer'[u] = transfer[u])
    BY <1>3, <2>1, <2>2 DEF SendTransfer, TypeOK
  <2>4. invoice' = invoice /\ charge' = charge
    BY <2>2
  <2>5. KeepsEvidence
    BY ONLY <2>3, <2>4 DEF KeepsEvidence
  <2>6. QED
    BY <1>0, <2>2, <2>3, <2>5, OutsideStep DEF TypeOK
<1>4. ASSUME NEW t \in Transfers, ConfirmTransfer(t) PROVE IInv' /\ PaidStays /\ KeepsRows
  <2>. DEFINE row == [transfer[t] EXCEPT !.confirmed = TRUE]
  <2>1. transfer[t] \in TransferRow
    BY <1>4 DEF ConfirmTransfer, TypeOK
  <2>2. /\ row \in TransferRow /\ row # None
        /\ row.memo = transfer[t].memo /\ row.inTime = transfer[t].inTime /\ row.confirmed
    BY <2>1, FundingAssumption DEF TransferRow
  <2>3. transfer' = [u \in Transfers |-> IF u = t THEN row ELSE transfer[u]]
        /\ UNCHANGED <<rows, running, age, crashes, invoice, charge>>
    BY <1>4 DEF ConfirmTransfer, TypeOK
  <2>. HIDE DEF row
  <2>4. transfer' \in [Transfers -> TransferRow \union {None}]
    BY <2>2, <2>3 DEF TypeOK
  <2>5. \A u \in Transfers :
          transfer[u] # None =>
            /\ transfer'[u] # None
            /\ transfer'[u].memo = transfer[u].memo
            /\ transfer'[u].inTime = transfer[u].inTime
            /\ transfer[u].confirmed => transfer'[u].confirmed
    BY <2>2, <2>3
  <2>6. invoice' = invoice /\ charge' = charge
    BY <2>3
  <2>7. KeepsEvidence
    BY ONLY <2>5, <2>6 DEF KeepsEvidence
  <2>8. QED
    BY <1>0, <2>3, <2>4, <2>7, OutsideStep DEF TypeOK
<1>5. QED
  BY <1>1, <1>2, <1>3, <1>4

-----------------------------------------------------------------------------
(* Every step *)

(* Every step keeps the invariant, what is paid and the terms of payments. *)
LEMMA NextKeeps ==
  ASSUME IInv, [Next]_vars
  PROVE  IInv' /\ PaidStays /\ KeepsRows
<1>1. CASE UNCHANGED vars
  <2>1. UNCHANGED <<rows, running, crashes, age, invoice, charge, transfer>>
    BY <1>1 DEF vars, external
  <2>2. KeepsEvidence
    BY <2>1 DEF KeepsEvidence
  <2>3. ChargeInv'
    BY <2>1 DEF IInv, ChargeInv, Created, rows
  <2>4. QED
    BY <2>1, <2>2, <2>3, OutsideStep DEF IInv, TypeOK
<1>2. CASE Tick
  BY <1>2, CheckPaymentStep DEF Tick, Answers
<1>3. CASE Creation
  BY <1>3, FinishCreateStep DEF Creation
<1>4. CASE Customer
  BY <1>4, CreatePaymentStep, VerifyPaymentStep, SignedWebhookStep, AttachReceiptStep,
     CancelPaymentStep, AttachHashStep, PreCheckoutStep DEF Customer, Answers
<1>5. CASE \E c \in Charges : Delivery(c)
  BY <1>5, StarsSuccessfulStep DEF Delivery
<1>6. CASE Administrator
  BY <1>6, DecideReceiptStep DEF Administrator
<1>7. CASE Environment
  BY <1>7, WorldStep, AskForStarsStep, ChargeStarsStep, CrashStep DEF Environment
<1>8. QED
  BY <1>1, <1>2, <1>3, <1>4, <1>5, <1>6, <1>7 DEF Next

-----------------------------------------------------------------------------
(* The wallets *)

(* How a step changes wallets: not at all, or by the deposit of a payment  *)
(* that had none.                                                          *)
Credited ==
  \/ UNCHANGED <<balance, ledger>>
  \/ \E p \in Created \ ledger :
       /\ ledger' = ledger \union {p}
       /\ balance' = [balance EXCEPT ![User(p)] = @ + Credit(p)]

(* Settling a payment credits it once.                                     *)
LEMMA SettlesCredits ==
  ASSUME NEW p \in Created, NEW r, NEW from, Settles(from, p, r)
  PROVE  Credited
<1>1. CASE UNCHANGED <<balance, ledger>>
  BY <1>1 DEF Credited
<1>2. CASE ~UNCHANGED <<balance, ledger>>
  <2>1. /\ ledger' = ledger \union {p}
        /\ balance' = IF p \in ledger THEN balance ELSE [balance EXCEPT ![User(p)] = @ + Credit(p)]
    BY <1>2 DEF Settles
  <2>2. p \notin ledger
    BY <1>2, <2>1
  <2>3. QED
    BY <2>1, <2>2 DEF Credited
<1>3. QED
  BY <1>1, <1>2

(* So does every step.                                                     *)
LEMMA NextCredits ==
  ASSUME IInv, [Next]_vars
  PROVE  Credited
<1>1. CASE UNCHANGED vars
  BY <1>1 DEF vars, rows, Credited
<1>2. CASE Tick
  <2>1. PICK i \in DOMAIN turn, answered \in Answers : CheckPayment(i, answered)
    BY <1>2 DEF Tick
  <2>2. turn[i] \in Created
    BY <2>1 DEF CheckPayment, NextToCheck, Checkable, Has
  <2>3. \/ Settles(payment, turn[i], ProofOf(turn[i]))
        \/ UNCHANGED <<balance, ledger>>
    BY <2>1 DEF CheckPayment
  <2>4. QED
    BY <2>2, <2>3, SettlesCredits DEF Credited
<1>3. CASE Creation
  BY <1>3 DEF Creation, FinishCreate, Credited
<1>4. CASE Customer
  <2>1. ASSUME NEW p \in Payments, NEW t \in Transfers, NEW answered \in Answers,
               AttachHash(p, t, answered)
        PROVE  Credited
    <3>1. \/ Settles([payment EXCEPT ![p].hash = t], p, <<"crypto", t>>)
          \/ UNCHANGED <<balance, ledger>>
      BY <2>1 DEF AttachHash
    <3>2. p \in Created
      BY <2>1 DEF AttachHash, Has
    <3>3. QED
      BY <3>1, <3>2, SettlesCredits DEF Credited
  <2>2. ASSUME NEW p \in Payments, VerifyPayment(p) \/ SignedWebhook(p) PROVE Credited
    BY <2>2, SettlesCredits DEF VerifyPayment, SignedWebhook
  <2>3. ASSUME NEW p \in Payments, AttachReceipt(p) \/ CancelPayment(p) PROVE Credited
    BY <2>3 DEF AttachReceipt, CancelPayment, Credited
  <2>4. ASSUME NEW u \in Users, NEW n \in Nonces, NEW terms \in Terms, CreatePayment(u, n, terms)
        PROVE  Credited
    BY <2>4 DEF CreatePayment, Credited
  <2>5. ASSUME NEW c \in Charges, PreCheckout(c) PROVE Credited
    BY <2>5 DEF PreCheckout, rows, Credited
  <2>6. QED
    BY <1>4, <2>1, <2>2, <2>3, <2>4, <2>5 DEF Customer
<1>5. CASE \E c \in Charges : Delivery(c)
  BY <1>5, SettlesCredits DEF Delivery, StarsSuccessful, IInv, ChargeInv
<1>6. CASE Administrator
  BY <1>6, SettlesCredits DEF Administrator, DecideReceipt, Has, Credited
<1>7. CASE Environment
  BY <1>7 DEF Environment, PayInvoice, TimePasses, AskForStars, SendTransfer, ChargeStars,
              ConfirmTransfer, Crash, rows, Credited
<1>8. QED
  BY <1>1, <1>2, <1>3, <1>4, <1>5, <1>6, <1>7 DEF Next

(* The wallets need one fact more: only finitely many deposits are posted. *)
BInv == IInv /\ IsFiniteSet(ledger) /\ CreditMatchesPaid

PaidOf(u)  == {p \in Created : User(p) = u /\ Has(p, {"paid"})}
CreditFn   == [p \in Created |-> Credit(p)]

(* What a payment that exists is worth does not change.                    *)
LEMMA CreditStays ==
  ASSUME KeepsRows, NEW p \in Created
  PROVE  p \in Created' /\ User(p)' = User(p) /\ CreditFn'[p] = CreditFn[p]
<1>1. p \in Created' /\ payment'[p].terms = payment[p].terms
  BY DEF KeepsRows, Created
<1>2. User(p)' = User(p) /\ Credit(p)' = Credit(p)
  BY <1>1 DEF User, Credit, Method
<1>3. QED
  BY <1>1, <1>2 DEF CreditFn

(* The wallets follow every step.                                          *)
LEMMA NextBalances ==
  ASSUME BInv, [Next]_vars
  PROVE  BInv'
<1>. USE DEF BInv
<1>1. IInv' /\ KeepsRows /\ Credited
  BY NextKeeps, NextCredits
<1>2. IsFiniteSet(ledger')
  BY <1>1, FS_AddElement DEF Credited
<1>3. ASSUME NEW u \in Users
      PROVE  balance'[u] = SumFunctionOnSet(CreditFn', PaidOf(u)')
  <2>1. /\ PaidOf(u) = {p \in ledger : User(p) = u}
        /\ PaidOf(u)' = {p \in ledger' : User(p)' = u}
    BY <1>1 DEF IInv, PaidOf, LedgerMatchesPaid, Has, TypeOK, Created
  <2>2. ledger \subseteq Created
    BY DEF IInv, LedgerMatchesPaid, TypeOK, Has
  <2>3. \A p \in ledger : p \in Created /\ User(p)' = User(p) /\ CreditFn'[p] = CreditFn[p]
    BY <1>1, <2>2, CreditStays
  <2>4. IsFiniteSet(PaidOf(u)) /\ PaidOf(u) \subseteq ledger
    BY <2>1, FS_Subset
  <2>5. balance[u] = SumFunctionOnSet(CreditFn, PaidOf(u))
    BY DEF CreditMatchesPaid, CreditFn, PaidOf
  <2>6. SumFunctionOnSet(CreditFn, PaidOf(u)) = SumFunctionOnSet(CreditFn', PaidOf(u))
    BY <2>3, <2>4, SumAgree
  <2>7. CASE UNCHANGED <<balance, ledger>>
    <3>1. PaidOf(u)' = PaidOf(u)
      BY <2>1, <2>3, <2>7
    <3>2. QED
      BY <2>5, <2>6, <2>7, <3>1
  <2>8. CASE ~UNCHANGED <<balance, ledger>>
    <3>1. PICK p \in Created \ ledger :
            /\ ledger' = ledger \union {p}
            /\ balance' = [balance EXCEPT ![User(p)] = @ + Credit(p)]
      BY <1>1, <2>8 DEF Credited
    <3>2. /\ User(p)' = User(p) /\ CreditFn'[p] = Credit(p)
          /\ Credit(p) \in Nat /\ User(p) \in Users
      BY <1>1, CreditStays, CreditType, RowType DEF CreditFn, IInv
    <3>3. CASE User(p) = u
      <4>1. PaidOf(u)' = PaidOf(u) \union {p} /\ p \notin PaidOf(u)
        BY <2>1, <2>3, <3>1, <3>2, <3>3
      <4>2. \A q \in PaidOf(u) \union {p} : CreditFn'[q] \in Int
        <5>1. ASSUME NEW q \in PaidOf(u) PROVE CreditFn'[q] \in Int
          <6>1. q \in Created /\ CreditFn'[q] = CreditFn[q]
            BY <2>3, <2>4
          <6>2. CreditFn[q] \in Nat
            BY <6>1, CreditType DEF CreditFn, IInv
          <6>3. QED
            BY <6>1, <6>2
        <5>2. QED
          BY <5>1, <3>2
      <4>3. SumFunctionOnSet(CreditFn', PaidOf(u)')
              = CreditFn'[p] + SumFunctionOnSet(CreditFn', PaidOf(u))
        BY <2>4, <4>1, <4>2, SumWith
      <4>4. balance'[u] = balance[u] + Credit(p) /\ balance[u] \in Nat
        BY <3>1, <3>2, <3>3 DEF IInv, TypeOK
      <4>5. QED
        BY <2>5, <2>6, <3>2, <4>3, <4>4
    <3>4. CASE User(p) # u
      <4>1. PaidOf(u)' = PaidOf(u)
        BY <2>1, <2>3, <3>1, <3>2, <3>4
      <4>2. balance'[u] = balance[u]
        BY <3>1, <3>4 DEF IInv, TypeOK
      <4>3. QED
        BY <2>5, <2>6, <4>1, <4>2
    <3>5. QED
      BY <3>3, <3>4
  <2>9. QED
    BY <2>7, <2>8
<1>4. CreditMatchesPaid'
  BY <1>3 DEF CreditMatchesPaid, CreditFn, PaidOf
<1>5. QED
  BY <1>1, <1>2, <1>4

-----------------------------------------------------------------------------
(* Theorems *)

(* The inductive invariant holds in every reachable state: whatever order  *)
(* callbacks, polls, reviews, deadlines and evictions come in.             *)
THEOREM Invariance == Spec => []IInv
<1>1. Init => IInv
  BY InitIInv
<1>2. IInv /\ [Next]_vars => IInv'
  BY NextKeeps
<1>3. QED
  BY <1>1, <1>2, PTL DEF Spec

(* Every variable keeps its type.                                          *)
THEOREM TypeCorrect == Spec => []TypeOK
<1>1. IInv => TypeOK
  BY DEF IInv
<1>2. QED
  BY <1>1, Invariance, PTL

(* settlePayment credits only against a proof of the payment's own.        *)
THEOREM ProvedBeforePaid == Spec => []PaidWasProved
<1>1. IInv => PaidWasProved
  BY DEF IInv
<1>2. QED
  BY <1>1, Invariance, PTL

(* createPayment writes the row and the key of the request together.       *)
THEOREM KeysAreUnique == Spec => []OneKeyOnePayment
<1>1. IInv => OneKeyOnePayment
  BY DEF IInv
<1>2. QED
  BY <1>1, Invariance, PTL

(* The ledger has the deposit of a payment exactly when it is paid, so no  *)
(* repeated proof credits it again.                                        *)
THEOREM DepositedOnce == Spec => []LedgerMatchesPaid
<1>1. IInv => LedgerMatchesPaid
  BY DEF IInv
<1>2. QED
  BY <1>1, Invariance, PTL

(* Nothing that happens later takes a paid payment back.                   *)
THEOREM PaidIsFinal == Spec => PaidForever
<1>1. IInv /\ [Next]_vars => [\A p \in Payments : Has(p, {"paid"}) => payment'[p].status = "paid"]_vars
  BY NextKeeps DEF PaidStays
<1>2. QED
  BY <1>1, Invariance, PTL DEF Spec, PaidForever

(* A wallet holds what its owner's paid payments are worth: settlePayment  *)
(* credits each of them once, however often and in whatever order its      *)
(* proofs arrive, and nothing else touches the wallet.                     *)
THEOREM WalletsExplained == Spec => []CreditMatchesPaid
<1>1. Init => BInv
  <2>. SUFFICES ASSUME Init PROVE BInv
    OBVIOUS
  <2>1. IInv
    BY InitIInv
  <2>2. IsFiniteSet(ledger) /\ \A u \in Users : balance[u] = 0
    BY FS_EmptySet DEF Init
  <2>3. \A u : {p \in Created : User(p) = u /\ Has(p, {"paid"})} = {}
    BY DEF Init, Created
  <2>4. CreditMatchesPaid
    BY <2>2, <2>3, SumEmpty DEF CreditMatchesPaid
  <2>5. QED
    BY <2>1, <2>2, <2>4 DEF BInv
<1>2. BInv /\ [Next]_vars => BInv'
  BY NextBalances
<1>3. BInv => CreditMatchesPaid
  BY DEF BInv
<1>4. QED
  BY <1>1, <1>2, <1>3, PTL DEF Spec

=============================================================================
