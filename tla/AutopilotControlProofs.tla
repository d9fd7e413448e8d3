----------------------- MODULE AutopilotControlProofs -----------------------
(***************************************************************************)
(* Proofs about the reservation ledger, for every value of its constants;  *)
(* at the end, that it implements CapacityLease.                           *)
(***************************************************************************)
EXTENDS LedgerRefinement, FiniteSetTheorems, WellFoundedInduction, TLAPS

-----------------------------------------------------------------------------
(***************************************************************************)
(* The operators of the model.                                             *)
(***************************************************************************)

\* A nonempty set of naturals has a least element, which Min returns.
LEMMA MinOfNaturals ==
  ASSUME NEW S, S \subseteq Nat, S # {}
  PROVE  Min(S) \in S /\ \A x \in S : Min(S) <= x
<1>1. PICK x \in S : \A y \in S : <<y, x>> \notin OpToRel(<, Nat)
  BY WFMin, NatLessThanWellFounded, Zenon
<1>2. \A y \in S : ~(y < x)
  BY <1>1, Zenon DEF OpToRel
<1>3. \A y \in S : x <= y
  BY <1>2
<1> QED
  BY <1>3 DEF Min

\* A consumed row is stamped with the clock of its consume() call.
Stamped(table) ==
  \A r \in Ids : table[r].state = "consumed" => table[r].consumedAt \in Nat

LEMMA ReclaimAtType ==
  ASSUME NEW row \in Row, row.state = "consumed" => row.consumedAt \in Nat
  PROVE  ReclaimAt(row) \in Nat
BY ConstantsAssumption DEF ReclaimAt, Row

LEMMA EndedType ==
  ASSUME NEW row \in Row, NEW t \in Nat
  PROVE  Ended(row, t) \in Row /\ Ended(row, t).state = "compensated"
BY DEF Ended, Row

\* What the sweep leaves of each row.
LEMMA SweptRows ==
  ASSUME NEW table \in [Ids -> Row], Stamped(table), NEW t \in Nat
  PROVE  /\ Swept(table, t) \in [Ids -> Row]
         /\ Stamped(Swept(table, t))
         /\ \A r \in Ids :
              \/ /\ Swept(table, t)[r] = table[r]
                 /\ Live(table[r]) => ~Reclaimable(table[r], t)
              \/ /\ Swept(table, t)[r] = Ended(table[r], t)
                 /\ Live(table[r])
<1>1. \A r \in Ids :
        \/ /\ Swept(table, t)[r] = table[r]
           /\ Live(table[r]) => ~Reclaimable(table[r], t)
        \/ /\ Swept(table, t)[r] = Ended(table[r], t)
           /\ Live(table[r])
  BY DEF Swept
<1>2. \A r \in Ids : Swept(table, t)[r] \in Row
  BY <1>1, EndedType
<1>3. Swept(table, t) \in [Ids -> Row]
  BY <1>2 DEF Swept
<1>4. Stamped(Swept(table, t))
  BY <1>1, EndedType DEF Stamped
<1> QED
  BY <1>1, <1>3, <1>4

\* The alarm armed for a table: a time, and one that covers every live row.
LEMMA NextAlarmCovers ==
  ASSUME NEW table \in [Ids -> Row], Stamped(table), NEW t \in Nat
  PROVE  /\ NextAlarm(table, t) \in Nat \cup {Never}
         /\ \A r \in Ids : Live(table[r]) =>
              /\ NextAlarm(table, t) \in Nat
              /\ \/ NextAlarm(table, t) <= ReclaimAt(table[r])
                 \/ NextAlarm(table, t) = t
<1> DEFINE alive == {r \in Ids : Live(table[r])}
           times == {ReclaimAt(table[r]) : r \in alive}
<1>1. CASE alive = {}
  BY <1>1 DEF NextAlarm
<1>2. CASE alive # {} /\ \E r \in alive : Reclaimable(table[r], t)
  BY <1>2 DEF NextAlarm
<1>3. CASE alive # {} /\ ~\E r \in alive : Reclaimable(table[r], t)
  <2>1. times \subseteq Nat
    BY ReclaimAtType DEF Stamped
  <2>2. times # {}
    BY <1>3
  <2>3. Min(times) \in times /\ \A x \in times : Min(times) <= x
    BY <2>1, <2>2, MinOfNaturals
  <2>4. NextAlarm(table, t) = Min(times)
    BY <1>3 DEF NextAlarm
  <2> QED
    BY <2>1, <2>3, <2>4
<1> QED
  BY <1>1, <1>2, <1>3

\* What the sweep leaves of the record of spent permits.
LEMMA UnspentType ==
  ASSUME NEW t \in Nat, spent \in [Permits -> Ids \cup {None}]
  PROVE  Unspent(t) \in [Permits -> Ids \cup {None}]
BY DEF Unspent

LEMMA PrunedRows ==
  ASSUME NEW table \in [Ids -> Row], Stamped(table), NEW t \in Nat
  PROVE  /\ Pruned(table, t) \in [Ids -> Row]
         /\ Stamped(Pruned(table, t))
         /\ \A r \in Ids :
              \/ Pruned(table, t)[r] = table[r]
              \/ /\ table[r].state = "compensated"
                 /\ Pruned(table, t)[r] = Forgotten(table[r])
<1>1. \A r \in Ids : Forgotten(table[r]) \in Row
  BY ConstantsAssumption DEF Forgotten, Row, Unborn, Never
<1>2. \A r \in Ids : Forgotten(table[r]).state = "pruned"
  BY DEF Forgotten, Unborn
<1> QED
  BY <1>1, <1>2 DEF Pruned, Stamped

\* The fields of a suspended invocation.
LEMMA FrameFields ==
  ASSUME NEW f \in Frame
  PROVE  /\ f.op = "reserve" =>
              /\ f.request \in Requests /\ f.wave \in Waves
              /\ f.permit \in Permits /\ f.at \in Nat
         /\ f.op = "consume" => f.id \in Ids /\ f.at \in Nat
         /\ f # Idle => f.op \in {"reserve", "consume"}
BY DEF Frame, Idle

-----------------------------------------------------------------------------
(***************************************************************************)
(* Type correctness.                                                       *)
(***************************************************************************)
TypeInv == TypeOK /\ Stamped(rows)

\* A row that reserve() inserts.
LEMMA NewRowType ==
  ASSUME TypeOK, NEW c \in Calls, call[c].op = "reserve",
         PermitVerified(call[c].permit, call[c].at)
  PROVE  /\ NewRow(call[c]) \in Row
         /\ NewRow(call[c]).state = "reserved"
         /\ NewRow(call[c]).expires \in
              call[c].at .. call[c].at + ReservationTTL
         /\ NewRow(call[c]).expires <= issued[call[c].permit].expires
<1> DEFINE f == call[c]
           ends == {issued[f.permit].expires, f.at + ReservationTTL}
<1>1. /\ f.request \in Requests /\ f.permit \in Permits /\ f.at \in Nat
      /\ issued[f.permit].expires \in Nat /\ ReservationTTL \in Nat
      /\ generation \in Nat
  BY FrameFields, ConstantsAssumption DEF TypeOK
<1>2. Min(ends) \in ends /\ \A x \in ends : Min(ends) <= x
  <2>1. ends \subseteq Nat /\ ends # {}
    BY <1>1
  <2> HIDE DEF ends
  <2> QED
    BY <2>1, MinOfNaturals
<1>3. issued[f.permit].expires > f.at
  BY DEF PermitVerified
<1>4. /\ Min(ends) \in f.at .. f.at + ReservationTTL
      /\ Min(ends) <= issued[f.permit].expires
  BY <1>1, <1>2, <1>3
<1>5. NewRow(f).expires = Min(ends)
  BY DEF NewRow
<1>6. NewRow(f) \in Row /\ NewRow(f).state = "reserved"
  BY <1>1, <1>4 DEF NewRow, Row, LiveStates, Never
<1> QED
  BY <1>4, <1>5, <1>6

\* The rows and the spent permits after the transaction of reserve().
LEMMA ReserveCommitTables ==
  ASSUME TypeInv, NEW c \in Calls, ReserveCommit(c)
  PROVE  /\ rows' \in [Ids -> Row] /\ Stamped(rows')
         /\ spent' \in [Permits -> Ids \cup {None}]
         /\ call[c].at \in Nat /\ call[c].permit \in Permits
<1> DEFINE f == call[c]
           table == Swept(rows, f.at)
           book == Unspent(f.at)
<1>1. f.op = "reserve" /\ f.at \in Nat /\ f.permit \in Permits
  BY FrameFields DEF ReserveCommit, TypeInv, TypeOK
<1>2. table \in [Ids -> Row] /\ Stamped(table)
  BY <1>1, SweptRows DEF TypeInv, TypeOK
<1>3. book \in [Permits -> Ids \cup {None}]
  BY <1>1, UnspentType DEF TypeInv, TypeOK
<1>4. CASE rows' = table /\ spent' = book
  BY <1>1, <1>2, <1>3, <1>4
<1>5. CASE Admits(table, book, f) /\ \E r \in Ids :
             /\ rows[r] = Unborn
             /\ rows'  = [table EXCEPT ![r] = NewRow(f)]
             /\ spent' = [book EXCEPT ![f.permit] = r]
  <2>1. PICK r \in Ids : /\ rows'  = [table EXCEPT ![r] = NewRow(f)]
                         /\ spent' = [book EXCEPT ![f.permit] = r]
    BY <1>5
  <2>2. NewRow(f) \in Row /\ NewRow(f).state = "reserved"
    BY <1>1, <1>5, NewRowType DEF Admits, TypeInv
  <2>3. rows' \in [Ids -> Row] /\ Stamped(rows')
    BY <1>2, <2>1, <2>2 DEF Stamped
  <2> QED
    BY <1>1, <1>3, <2>1, <2>3
<1> QED
  BY <1>4, <1>5 DEF ReserveCommit

\* The rows after the transaction of consume().
LEMMA ConsumeCommitTables ==
  ASSUME TypeInv, NEW c \in Calls, ConsumeCommit(c)
  PROVE  /\ rows' \in [Ids -> Row] /\ Stamped(rows')
         /\ call[c].at \in Nat /\ call[c].id \in Ids
<1> DEFINE f == call[c]
           row == rows[f.id]
<1>1. f.at \in Nat /\ f.id \in Ids
  BY FrameFields DEF ConsumeCommit, TypeInv, TypeOK
<1>2. row \in Row
  BY <1>1 DEF TypeInv, TypeOK
<1>3. PICK new : /\ rows' = [rows EXCEPT ![f.id] = new]
                 /\ \/ new = Ended(row, f.at)
                    \/ new = [row EXCEPT !.state = "consumed",
                                         !.consumedAt = f.at]
                    \/ new = row
  BY DEF ConsumeCommit
<1>4. new \in Row /\ (new.state = "consumed" => new.consumedAt \in Nat)
  <2>1. CASE new = Ended(row, f.at)
    BY <1>1, <1>2, <2>1, EndedType
  <2>2. CASE new = [row EXCEPT !.state = "consumed", !.consumedAt = f.at]
    BY <1>1, <1>2, <2>2 DEF Row, LiveStates
  <2>3. CASE new = row
    BY <1>1, <1>2, <2>3 DEF TypeInv, Stamped
  <2> QED
    BY <1>3, <2>1, <2>2, <2>3
<1> QED
  BY <1>1, <1>3, <1>4 DEF TypeInv, TypeOK, Stamped

LEMMA TypeInit == Init => TypeInv
BY ConstantsAssumption
   DEF Init, TypeInv, TypeOK, Stamped, Row, Unborn, Unsigned, Frame, Never

LEMMA TypeStep == TypeInv /\ [Next]_vars => TypeInv'
<1> SUFFICES ASSUME TypeInv, [Next]_vars
             PROVE  TypeInv'
  OBVIOUS
<1> USE DEF TypeInv, TypeOK
<1>1. ASSUME NEW p \in Permits, NEW q \in Requests, SignPermit(p, q)
      PROVE  TypeInv'
  <2>1. PICK e \in 1 .. now + PermitTTL :
          issued' = [issued EXCEPT ![p] = [request |-> q, expires |-> e]]
    BY <1>1 DEF SignPermit
  <2>2. e \in Nat
    BY ConstantsAssumption
  <2>3. issued' \in [Permits -> [request : Requests \cup {None}, expires : Nat]]
    BY <2>1, <2>2
  <2> QED
    BY <1>1, <2>3 DEF SignPermit, control
<1>2. ASSUME NEW c \in Calls, NEW q \in Requests, NEW w \in Waves,
             NEW p \in Permits, ReserveCall(c, q, w, p)
      PROVE  TypeInv'
  <2>1. [op |-> "reserve", request |-> q, wave |-> w, permit |-> p,
         at |-> now] \in Frame
    BY DEF Frame
  <2> QED
    BY <1>2, <2>1 DEF ReserveCall, control
<1>3. ASSUME NEW c \in Calls, ReserveCommit(c)
      PROVE  TypeInv'
  <2>1. /\ rows' \in [Ids -> Row] /\ Stamped(rows')
        /\ spent' \in [Permits -> Ids \cup {None}] /\ call[c].at \in Nat
    BY <1>3, ReserveCommitTables
  <2>2. alarm' = NextAlarm(rows', call[c].at)
    BY <1>3 DEF ReserveCommit
  <2>3. alarm' \in Nat \cup {Never}
    BY <2>1, <2>2, NextAlarmCovers
  <2> QED
    BY <1>3, <2>1, <2>3 DEF ReserveCommit, control, Frame
<1>4. ASSUME NEW r \in Ids, MarkStartCreated(r)
      PROVE  TypeInv'
  <2>1. [rows[r] EXCEPT !.state = "start-created"] \in Row
    BY DEF Row, LiveStates
  <2> QED
    BY <1>4, <2>1 DEF MarkStartCreated, control, Stamped
<1>5. ASSUME NEW c \in Calls, NEW r \in Ids, ConsumeCall(c, r)
      PROVE  TypeInv'
  <2>1. [op |-> "consume", id |-> r, at |-> now] \in Frame
    BY DEF Frame
  <2> QED
    BY <1>5, <2>1 DEF ConsumeCall, control
<1>6. ASSUME NEW c \in Calls, ConsumeCommit(c)
      PROVE  TypeInv'
  <2>1. rows' \in [Ids -> Row] /\ Stamped(rows') /\ call[c].at \in Nat
    BY <1>6, ConsumeCommitTables
  <2>2. alarm' = NextAlarm(rows', call[c].at)
    BY <1>6 DEF ConsumeCommit
  <2>3. alarm' \in Nat \cup {Never}
    BY <2>1, <2>2, NextAlarmCovers
  <2> QED
    BY <1>6, <2>1, <2>3 DEF ConsumeCommit, control, Frame
<1>7. ASSUME NEW r \in Ids, Compensate(r)
      PROVE  TypeInv'
  <2>1. rows' = [rows EXCEPT ![r] = Ended(rows[r], now)]
    BY <1>7 DEF Compensate
  <2>2. rows' \in [Ids -> Row] /\ Stamped(rows')
    BY <2>1, EndedType DEF Stamped
  <2>3. alarm' \in Nat \cup {Never}
    BY <1>7, <2>2, NextAlarmCovers DEF Compensate
  <2> QED
    BY <1>7, <2>2, <2>3 DEF Compensate, control
<1>8. CASE RunAlarm
  <2>1. rows' \in [Ids -> Row] /\ Stamped(rows')
    BY <1>8, SweptRows, PrunedRows DEF RunAlarm
  <2>2. spent' \in [Permits -> Ids \cup {None}]
    BY <1>8, UnspentType DEF RunAlarm
  <2>3. alarm' \in Nat \cup {Never}
    BY <1>8, <2>1, NextAlarmCovers DEF RunAlarm
  <2> QED
    BY <1>8, <2>1, <2>2, <2>3 DEF RunAlarm, control
<1>9. CASE CloseGate \/ OpenGate
  BY <1>9 DEF CloseGate, OpenGate, Stamped
<1>10. ASSUME NEW n \in 0 .. MaxActiveRunners, RecordCapacityApproval(n)
       PROVE  TypeInv'
  BY <1>10, ConstantsAssumption DEF RecordCapacityApproval, Stamped
<1>11. ASSUME NEW w \in Waves, SetActiveWave(w)
       PROVE  TypeInv'
  BY <1>11 DEF SetActiveWave, Stamped
<1>12. CASE Evict
  BY <1>12 DEF Evict, control, Frame, Stamped
<1>13. CASE Tick
  BY <1>13 DEF Tick, control, Stamped
<1>14. CASE UNCHANGED vars
  BY <1>14 DEF vars, control, Stamped
<1> QED
  BY <1>1, <1>2, <1>3, <1>4, <1>5, <1>6, <1>7, <1>8, <1>9, <1>10, <1>11,
     <1>12, <1>13, <1>14 DEF Next, Step, ReleaseBySandbox

\* Every variable keeps its type, and the invariant below is inductive.
THEOREM TypeCorrect == Spec => []TypeInv
BY TypeInit, TypeStep, PTL DEF Spec

THEOREM LedgerTypeOK == Spec => []TypeOK
<1>1. TypeInv => TypeOK
  BY DEF TypeInv
<1> QED
  BY <1>1, TypeCorrect, PTL

-----------------------------------------------------------------------------
(***************************************************************************)
(* What one step does to one row.                                          *)
(***************************************************************************)
Admitted(r, c) ==
  /\ ReserveCommit(c)
  /\ Admits(Swept(rows, call[c].at), Unspent(call[c].at), call[c])
  /\ rows[r] = Unborn
  /\ rows'  = [Swept(rows, call[c].at) EXCEPT ![r] = NewRow(call[c])]
  /\ spent' = [Unspent(call[c].at) EXCEPT ![call[c].permit] = r]

Marked(r) ==
  /\ rows[r].state = "reserved"
  /\ rows'[r] = [rows[r] EXCEPT !.state = "start-created"]

Started(r, c) ==
  /\ ConsumeCommit(c)
  /\ call[c].id = r
  /\ rows[r].state = "start-created"
  /\ rows[r].gen = generation
  /\ rows[r].expires > call[c].at
  /\ rows' = [rows EXCEPT ![r] = [rows[r] EXCEPT !.state = "consumed",
                                                 !.consumedAt = call[c].at]]

Finished(r) == Live(rows[r]) /\ \E t \in Nat : rows'[r] = Ended(rows[r], t)

Dropped(r) == rows[r].state # "unborn" /\ rows'[r] = Forgotten(rows[r])

RowStep(r) ==
  \/ rows'[r] = rows[r]
  \/ \E c \in Calls : Admitted(r, c)
  \/ Marked(r)
  \/ \E c \in Calls : Started(r, c)
  \/ Finished(r)
  \/ Dropped(r)

\* The row of an admission.
LEMMA AdmittedRow ==
  ASSUME TypeInv, NEW r \in Ids, NEW c \in Calls, Admitted(r, c)
  PROVE  /\ rows'[r] = NewRow(call[c])
         /\ rows'[r].state = "reserved"
         /\ gate = "open"
         /\ call[c].op = "reserve" /\ call[c].at \in Nat
BY SweptRows, ReserveCommitTables
   DEF Admitted, Admits, ReserveCommit, NewRow, TypeInv, TypeOK

\* reserve() inserts one row, and its sweep ends others.
LEMMA ReserveRowStep ==
  ASSUME TypeInv, NEW c \in Calls, ReserveCommit(c), NEW r \in Ids
  PROVE  RowStep(r)
<1> DEFINE f == call[c]
           table == Swept(rows, f.at)
<1>1. f.at \in Nat
  BY ReserveCommitTables
<1>2. \A x \in Ids : \/ table[x] = rows[x]
                     \/ Live(rows[x]) /\ table[x] = Ended(rows[x], f.at)
  BY <1>1, SweptRows DEF TypeInv, TypeOK
<1>3. CASE rows' = table
  BY <1>1, <1>2, <1>3 DEF RowStep, Finished
<1>4. CASE \E x \in Ids : Admitted(x, c)
  <2>1. PICK x \in Ids : Admitted(x, c)
    BY <1>4
  <2>2. CASE x = r
    BY <2>1, <2>2 DEF RowStep
  <2>3. CASE x # r
    <3>1. rows'[r] = table[r]
      BY <1>1, <2>1, <2>3, SweptRows DEF Admitted, TypeInv, TypeOK
    <3> QED
      BY <1>1, <1>2, <3>1 DEF RowStep, Finished
  <2> QED
    BY <2>2, <2>3
<1>5. rows' = table \/ \E x \in Ids : Admitted(x, c)
  BY DEF ReserveCommit, Admitted
<1> QED
  BY <1>3, <1>4, <1>5

LEMMA ConsumeRowStep ==
  ASSUME TypeInv, NEW c \in Calls, ConsumeCommit(c), NEW r \in Ids
  PROVE  RowStep(r)
<1> DEFINE f == call[c]
           row == rows[f.id]
<1>1. f.at \in Nat /\ f.id \in Ids /\ row \in Row
  BY ConsumeCommitTables DEF TypeInv, TypeOK
<1>2. \/ /\ rows' = [rows EXCEPT ![f.id] = Ended(row, f.at)]
         /\ row.state \in {"reserved", "start-created"}
      \/ Started(f.id, c)
      \/ rows' = [rows EXCEPT ![f.id] = row]
  <2> DEFINE current == /\ row.state \in {"reserved", "start-created"}
                        /\ row.gen = generation
             expired == current /\ Expired(row, f.at)
             starts  == /\ current /\ ~expired
                        /\ approved # None
                        /\ row.state = "start-created"
  <2>1. rows' = [rows EXCEPT ![f.id] =
                   CASE expired -> Ended(row, f.at)
                     [] starts  -> [row EXCEPT !.state = "consumed",
                                               !.consumedAt = f.at]
                     [] OTHER   -> row]
    BY DEF ConsumeCommit
  <2>2. starts => row.expires > f.at
    BY <1>1 DEF Expired, Row
  <2>3. CASE expired
    BY <2>1, <2>3
  <2>4. CASE starts
    <3>1. rows' = [rows EXCEPT ![f.id] = [row EXCEPT !.state = "consumed",
                                                     !.consumedAt = f.at]]
      BY <2>1, <2>4
    <3> QED
      BY <2>2, <2>4, <3>1 DEF Started
  <2>5. CASE ~expired /\ ~starts
    BY <2>1, <2>5
  <2> QED
    BY <2>3, <2>4, <2>5
<1>3. CASE /\ rows' = [rows EXCEPT ![f.id] = Ended(row, f.at)]
           /\ row.state \in {"reserved", "start-created"}
  BY <1>1, <1>3 DEF RowStep, Finished, Live, LiveStates, TypeInv, TypeOK
<1>4. CASE Started(f.id, c)
  <2>1. CASE r = f.id
    BY <1>4, <2>1 DEF RowStep
  <2>2. CASE r # f.id
    BY <1>1, <1>4, <2>2 DEF RowStep, Started, TypeInv, TypeOK
  <2> QED
    BY <2>1, <2>2
<1>5. CASE rows' = [rows EXCEPT ![f.id] = row]
  BY <1>1, <1>5 DEF RowStep, TypeInv, TypeOK
<1> QED
  BY <1>2, <1>3, <1>4, <1>5

LEMMA AlarmRowStep ==
  ASSUME TypeInv, RunAlarm, NEW r \in Ids
  PROVE  RowStep(r)
<1> DEFINE table == Swept(rows, now)
<1>1. /\ now \in Nat /\ table \in [Ids -> Row] /\ Stamped(table)
      /\ \/ table[r] = rows[r]
         \/ Live(rows[r]) /\ table[r] = Ended(rows[r], now)
  BY SweptRows DEF TypeInv, TypeOK
<1>2. \/ rows'[r] = table[r]
      \/ /\ table[r].state = "compensated"
         /\ rows'[r] = Forgotten(table[r])
  <2>1. rows' = Pruned(table, now)
    BY DEF RunAlarm
  <2> HIDE DEF table
  <2> QED
    BY <1>1, <2>1, PrunedRows
<1>3. /\ table[r].permit = rows[r].permit
      /\ table[r].consumedAt = rows[r].consumedAt
      /\ table[r].state = "compensated" => rows[r].state # "unborn"
  BY <1>1 DEF Ended, Live, LiveStates, TypeInv, TypeOK, Row
<1>4. CASE rows'[r] = table[r]
  BY <1>1, <1>4 DEF RowStep, Finished
<1>5. CASE /\ table[r].state = "compensated"
           /\ rows'[r] = Forgotten(table[r])
  BY <1>3, <1>5 DEF RowStep, Dropped, Forgotten
<1> QED
  BY <1>2, <1>4, <1>5

LEMMA RowSteps ==
  ASSUME TypeInv, [Next]_vars, NEW r \in Ids
  PROVE  RowStep(r)
<1>1. CASE \E c \in Calls : ReserveCommit(c)
  BY <1>1, ReserveRowStep
<1>2. CASE \E c \in Calls : ConsumeCommit(c)
  BY <1>2, ConsumeRowStep
<1>3. CASE RunAlarm
  BY <1>3, AlarmRowStep
<1>4. CASE \E x \in Ids : MarkStartCreated(x)
  BY <1>4 DEF MarkStartCreated, RowStep, Marked, TypeInv, TypeOK
<1>5. CASE \E x \in Ids : Compensate(x)
  BY <1>5 DEF Compensate, RowStep, Finished, TypeInv, TypeOK
<1>6. CASE UNCHANGED rows
  BY <1>6 DEF RowStep
<1> QED
  BY <1>1, <1>2, <1>3, <1>4, <1>5, <1>6
     DEF Next, Step, vars, SignPermit, ReserveCall, ConsumeCall, CloseGate,
         OpenGate, RecordCapacityApproval, SetActiveWave, Evict, Tick,
         ReleaseBySandbox

-----------------------------------------------------------------------------
(***************************************************************************)
(* The gate.  Closing and opening both raise the generation, so it is even *)
(* exactly while the gate is open, and rows are admitted only then.        *)
(***************************************************************************)
GateInv ==
  /\ gate = "open" <=> generation % 2 = 0
  /\ \A r \in Ids : rows[r].gen % 2 = 0

LEMMA LocalGateStep == TypeInv /\ GateInv /\ [Next]_vars => GateInv'
<1> SUFFICES ASSUME TypeInv, GateInv, [Next]_vars
             PROVE  GateInv'
  OBVIOUS
<1>1. (gate = "open" <=> generation % 2 = 0)'
  <2>1. CASE CloseGate \/ OpenGate
    BY <2>1 DEF CloseGate, OpenGate, GateInv, TypeInv, TypeOK
  <2>2. CASE UNCHANGED <<gate, generation>>
    BY <2>2 DEF GateInv
  <2> QED
    BY <2>1, <2>2
       DEF Next, Step, vars, control, SignPermit, ReserveCall, ReserveCommit,
           MarkStartCreated, ConsumeCall, ConsumeCommit, Compensate,
           ReleaseBySandbox, RunAlarm, RecordCapacityApproval, SetActiveWave,
           Evict, Tick
<1>2. ASSUME NEW r \in Ids
      PROVE  rows'[r].gen % 2 = 0
  <2>1. RowStep(r)
    BY RowSteps
  <2>2. rows[r] \in Row /\ rows[r].gen % 2 = 0
    BY DEF GateInv, TypeInv, TypeOK
  <2>3. CASE \E c \in Calls : Admitted(r, c)
    <3>1. PICK c \in Calls : Admitted(r, c)
      BY <2>3
    <3>2. rows'[r] = NewRow(call[c]) /\ gate = "open"
      BY <3>1, AdmittedRow
    <3> QED
      BY <3>2 DEF NewRow, GateInv
  <2>4. CASE Marked(r)
    BY <2>2, <2>4 DEF Marked, Row
  <2>5. CASE \E c \in Calls : Started(r, c)
    BY <2>2, <2>5 DEF Started, Row, TypeInv, TypeOK
  <2>6. CASE Finished(r)
    BY <2>2, <2>6 DEF Finished, Ended, Row
  <2>7. CASE Dropped(r)
    BY <2>7 DEF Dropped, Forgotten, Unborn
  <2> QED
    BY <2>1, <2>2, <2>3, <2>4, <2>5, <2>6, <2>7 DEF RowStep
<1> QED
  BY <1>1, <1>2 DEF GateInv

\* consume() starts a runner only while the gate is open, in the generation
\* its reservation was admitted in.
THEOREM GateStopsStarts == Spec => ConsumedOnlyInItsGeneration
<1>1. Init => GateInv
  BY DEF Init, GateInv, Unborn
<1>2. Spec => []GateInv
  BY <1>1, LocalGateStep, TypeCorrect, PTL DEF Spec
<1>3. TypeInv /\ GateInv /\ [Next]_vars =>
        [ \A r \in Ids :
            rows[r].state # "consumed" /\ rows'[r].state = "consumed"
              => gate = "open" /\ rows[r].gen = generation ]_vars
  <2> SUFFICES ASSUME TypeInv, GateInv, [Next]_vars, NEW r \in Ids,
                      rows[r].state # "consumed", rows'[r].state = "consumed"
               PROVE  gate = "open" /\ rows[r].gen = generation
    OBVIOUS
  <2>1. RowStep(r)
    BY RowSteps
  <2>2. \E c \in Calls : Started(r, c)
    <3>1. ~\E c \in Calls : Admitted(r, c)
      BY AdmittedRow
    <3>2. ~Marked(r)
      BY DEF Marked, TypeInv, TypeOK, Row
    <3>3. ~Finished(r)
      BY DEF Finished, Ended, TypeInv, TypeOK, Row
    <3>4. ~Dropped(r)
      BY DEF Dropped, Forgotten, Unborn
    <3> QED
      BY <2>1, <3>1, <3>2, <3>3, <3>4 DEF RowStep
  <2>3. rows[r].gen = generation
    BY <2>2 DEF Started
  <2> QED
    BY <2>3 DEF GateInv
<1> QED
  BY <1>2, <1>3, TypeCorrect, PTL DEF Spec, ConsumedOnlyInItsGeneration

-----------------------------------------------------------------------------
(***************************************************************************)
(* Time.  Every clock reading in the system is behind the platform clock,  *)
(* and a consume() call is never older than the row it was made for.       *)
(***************************************************************************)
ClockInv ==
  /\ \A r \in Ids : rows[r].requested <= now
  /\ \A c \in Calls : call[c] # Idle => call[c].at <= now
  /\ \A c \in Calls : call[c].op = "consume" =>
       /\ rows[call[c].id].state # "unborn"
       /\ rows[call[c].id].requested <= call[c].at

LEMMA NowSteps ==
  ASSUME TypeInv, [Next]_vars
  PROVE  now \in Nat /\ now' \in Nat /\ now <= now'
<1>1. now \in Nat
  BY DEF TypeInv, TypeOK
<1>2. CASE Tick
  BY <1>1, <1>2 DEF Tick
<1>3. CASE UNCHANGED now
  BY <1>1, <1>3
<1> QED
  BY <1>2, <1>3
     DEF Next, Step, vars, SignPermit, ReserveCall, ReserveCommit,
         MarkStartCreated, ConsumeCall, ConsumeCommit, Compensate,
         ReleaseBySandbox, RunAlarm, CloseGate, OpenGate,
         RecordCapacityApproval, SetActiveWave, Evict

\* A born row stays born, and its request time is never raised.
LEMMA RowAge ==
  ASSUME TypeInv, [Next]_vars, NEW r \in Ids
  PROVE  \/ \E c \in Calls : Admitted(r, c) /\ rows[r].state = "unborn"
         \/ /\ rows'[r].state = "unborn" <=> rows[r].state = "unborn"
            /\ rows'[r].requested <= rows[r].requested
<1>1. RowStep(r) /\ rows[r] \in Row
  BY RowSteps DEF TypeInv, TypeOK
<1>2. CASE \E c \in Calls : Admitted(r, c)
  <2>1. rows[r] = Unborn
    BY <1>2 DEF Admitted
  <2> QED
    BY <1>2, <2>1 DEF Unborn
<1>3. CASE rows'[r] = rows[r]
  BY <1>1, <1>3 DEF Row
<1>4. CASE Marked(r)
  BY <1>1, <1>4 DEF Marked, Row
<1>5. CASE \E c \in Calls : Started(r, c)
  <2>1. PICK c \in Calls : Started(r, c)
    BY <1>5
  <2>2. rows'[r] = [rows[r] EXCEPT !.state = "consumed",
                                   !.consumedAt = call[c].at]
    BY <2>1 DEF Started, TypeInv, TypeOK
  <2> QED
    BY <1>1, <2>1, <2>2 DEF Started, Row
<1>6. CASE Finished(r)
  BY <1>1, <1>6 DEF Finished, Ended, Row, Live, LiveStates
<1>7. CASE Dropped(r)
  BY <1>1, <1>7 DEF Dropped, Forgotten, Row, Unborn
<1> QED
  BY <1>1, <1>2, <1>3, <1>4, <1>5, <1>6, <1>7 DEF RowStep

\* What one step does to a suspended invocation.
LEMMA CallSteps ==
  ASSUME TypeInv, [Next]_vars, NEW c \in Calls
  PROVE  /\ now \in Nat /\ now' \in Nat /\ now <= now'
         /\ \/ call'[c] = call[c]
            \/ call'[c] = Idle
            \/ /\ call'[c].op = "reserve" /\ call'[c].at = now /\ now' = now
               /\ rows' = rows
            \/ /\ call'[c].op = "consume" /\ call'[c].at = now /\ now' = now
               /\ rows' = rows
               /\ rows[call'[c].id].state \in {"reserved", "start-created"}
<1> USE DEF TypeInv, TypeOK
<1>1. CASE \E x \in Calls, q \in Requests, w \in Waves, p \in Permits :
             ReserveCall(x, q, w, p)
  BY <1>1 DEF ReserveCall
<1>2. CASE \E x \in Calls, r \in Ids : ConsumeCall(x, r)
  BY <1>2 DEF ConsumeCall
<1>3. CASE \E x \in Calls : ReserveCommit(x) \/ ConsumeCommit(x)
  BY <1>3 DEF ReserveCommit, ConsumeCommit
<1>4. CASE Evict
  BY <1>4 DEF Evict
<1>5. CASE Tick
  BY <1>5 DEF Tick
<1>6. CASE UNCHANGED <<now, call>>
  BY <1>6
<1> QED
  BY <1>1, <1>2, <1>3, <1>4, <1>5, <1>6
     DEF Next, Step, vars, SignPermit, MarkStartCreated, Compensate,
         ReleaseBySandbox, RunAlarm, CloseGate, OpenGate,
         RecordCapacityApproval, SetActiveWave

LEMMA ClockStep == TypeInv /\ ClockInv /\ [Next]_vars => ClockInv'
<1> SUFFICES ASSUME TypeInv, ClockInv, [Next]_vars
             PROVE  ClockInv'
  OBVIOUS
<1>1. TypeInv' /\ now \in Nat
  BY TypeStep DEF TypeInv, TypeOK
<1>2. ASSUME NEW r \in Ids
      PROVE  rows'[r].requested <= now'
  <2>1. CASE \E c \in Calls : Admitted(r, c)
    <3>1. PICK c \in Calls : Admitted(r, c)
      BY <2>1
    <3>2. rows'[r] = NewRow(call[c])
      BY <3>1, AdmittedRow
    <3>3. call[c].at <= now /\ now' = now
      BY <3>1 DEF Admitted, ReserveCommit, ClockInv, Idle
    <3> QED
      BY <3>2, <3>3 DEF NewRow
  <2>2. CASE rows'[r].requested <= rows[r].requested
    <3>1. /\ rows[r].requested \in Nat /\ rows'[r].requested \in Nat
          /\ rows[r].requested <= now
      BY <1>1 DEF ClockInv, TypeInv, TypeOK, Row
    <3> QED
      BY <2>2, <3>1, NowSteps
  <2> QED
    BY <2>1, <2>2, RowAge
<1>3. ASSUME NEW c \in Calls, call'[c] # Idle
      PROVE  call'[c].at <= now'
  <2>1. CASE call'[c] = call[c]
    BY <1>3, <2>1, CallSteps, FrameFields DEF ClockInv, TypeInv, TypeOK
  <2> QED
    BY <1>1, <1>3, <2>1, CallSteps
<1>4. ASSUME NEW c \in Calls, call'[c].op = "consume"
      PROVE  /\ rows'[call'[c].id].state # "unborn"
             /\ rows'[call'[c].id].requested <= call'[c].at
  <2> DEFINE r == call'[c].id
  <2>1. r \in Ids /\ call'[c].at \in Nat
    BY <1>1, <1>4, FrameFields DEF TypeInv, TypeOK
  <2>2. CASE call'[c] = call[c]
    <3>1. rows[r].state # "unborn" /\ rows[r].requested <= call'[c].at
      BY <1>4, <2>2 DEF ClockInv
    <3>2. rows[r].requested \in Nat /\ rows'[r].requested \in Nat
      BY <1>1, <2>1 DEF TypeInv, TypeOK, Row
    <3>3. rows'[r].state # "unborn" /\ rows'[r].requested <= rows[r].requested
      BY <2>1, <3>1, RowAge
    <3> QED
      BY <2>1, <3>1, <3>2, <3>3
  <2>3. CASE /\ call'[c].at = now /\ rows' = rows
             /\ rows[r].state \in {"reserved", "start-created"}
    BY <2>1, <2>3 DEF ClockInv, Unborn
  <2> QED
    BY <1>4, <2>2, <2>3, CallSteps DEF Idle
<1> QED
  BY <1>2, <1>3, <1>4 DEF ClockInv

LEMMA ClockCorrect == Spec => []ClockInv
<1>1. Init => ClockInv
  BY DEF Init, ClockInv, Unborn, Idle
<1> QED
  BY <1>1, ClockStep, TypeCorrect, PTL DEF Spec

-----------------------------------------------------------------------------
(***************************************************************************)
(* Timestamps.  A consumed row was stamped before its own expiry and after *)
(* its request, which is what the sweep tests.                             *)
(***************************************************************************)
LEMMA TimestampsStep ==
  TypeInv /\ ClockInv /\ LiveTimestampsConsistent /\ [Next]_vars
    => LiveTimestampsConsistent'
<1> SUFFICES ASSUME TypeInv, ClockInv, LiveTimestampsConsistent, [Next]_vars,
                    NEW r \in Ids, Live(rows'[r])
             PROVE  TimestampsConsistent(rows'[r])
  BY DEF LiveTimestampsConsistent, LiveIds
<1>1. RowStep(r) /\ rows[r] \in Row /\ ReservationTTL \in Nat
  BY RowSteps, ConstantsAssumption DEF TypeInv, TypeOK
<1>2. Live(rows[r]) => TimestampsConsistent(rows[r])
  BY DEF LiveTimestampsConsistent, LiveIds
<1>3. CASE \E c \in Calls : Admitted(r, c)
  <2>1. PICK c \in Calls : Admitted(r, c)
    BY <1>3
  <2>2. rows'[r] = NewRow(call[c]) /\ rows'[r].state = "reserved"
    BY <2>1, AdmittedRow
  <2>3. PermitVerified(call[c].permit, call[c].at) /\ call[c].op = "reserve"
    BY <2>1 DEF Admitted, Admits, ReserveCommit
  <2>4. rows'[r].expires \in call[c].at .. call[c].at + ReservationTTL
    BY <2>2, <2>3, NewRowType DEF TypeInv
  <2>5. rows'[r].requested = call[c].at
    BY <2>2 DEF NewRow
  <2> QED
    BY <2>2, <2>4, <2>5 DEF TimestampsConsistent
<1>4. CASE Marked(r)
  BY <1>1, <1>2, <1>4
     DEF Marked, Live, LiveStates, TimestampsConsistent, Row
<1>5. CASE \E c \in Calls : Started(r, c)
  <2>1. PICK c \in Calls : Started(r, c)
    BY <1>5
  <2>2. /\ rows[r].expires > call[c].at
        /\ rows[r].state = "start-created"
        /\ call[c].op = "consume" /\ call[c].id = r
        /\ rows'[r] = [rows[r] EXCEPT !.state = "consumed",
                                      !.consumedAt = call[c].at]
    BY <2>1 DEF Started, ConsumeCommit, TypeInv, TypeOK
  <2>3. call[c].at \in Nat /\ rows[r].requested <= call[c].at
    BY <2>2, FrameFields DEF ClockInv, TypeInv, TypeOK
  <2>4. rows[r].expires \in
          rows[r].requested .. rows[r].requested + ReservationTTL
    BY <1>2, <2>2 DEF TimestampsConsistent, Live, LiveStates
  <2>5. /\ rows'[r].state = "consumed" /\ rows'[r].consumedAt = call[c].at
        /\ rows'[r].requested = rows[r].requested
    BY <1>1, <2>2 DEF Row
  <2> QED
    BY <1>1, <2>2, <2>3, <2>4, <2>5 DEF TimestampsConsistent, Row
<1>6. CASE Finished(r) \/ Dropped(r)
  BY <1>1, <1>6 DEF Finished, Ended, Dropped, Forgotten, Unborn, Live,
                    LiveStates, Row
<1> QED
  BY <1>1, <1>2, <1>3, <1>4, <1>5, <1>6 DEF RowStep

\* No live row ever fails the sweep's consistency test, for any interleaving
\* of stale reserve() and consume() calls.
THEOREM TimestampsStayConsistent == Spec => []LiveTimestampsConsistent
<1>1. Init => LiveTimestampsConsistent
  BY DEF Init, LiveTimestampsConsistent, LiveIds, Live, LiveStates, Unborn
<1> QED
  BY <1>1, TimestampsStep, TypeCorrect, ClockCorrect, PTL DEF Spec

-----------------------------------------------------------------------------
(***************************************************************************)
(* The alarm.  Every step that changes a row's reclaim time arms it again, *)
(* at a time computed with a clock reading that is not in the future.      *)
(***************************************************************************)

\* Arming the alarm with any past clock reading covers the new table.
LEMMA Rearmed ==
  ASSUME TypeInv, NEW t \in Nat, t <= now,
         rows' \in [Ids -> Row], Stamped(rows'),
         alarm' = NextAlarm(rows', t), now' = now
  PROVE  AlarmCoversLiveReservations'
<1>1. now \in Nat /\ Never \notin Nat
  BY DEF TypeInv, TypeOK, Never
<1> SUFFICES ASSUME NEW r \in Ids, Live(rows'[r])
             PROVE  /\ alarm' # Never
                    /\ alarm' <= ReclaimAt(rows'[r]) \/ alarm' <= now'
  BY DEF AlarmCoversLiveReservations, LiveIds
<1>2. /\ alarm' \in Nat
      /\ alarm' <= ReclaimAt(rows'[r]) \/ alarm' = t
  BY NextAlarmCovers
<1> QED
  BY <1>1, <1>2

LEMMA AlarmStep ==
  TypeInv /\ ClockInv /\ AlarmCoversLiveReservations /\ [Next]_vars
    => AlarmCoversLiveReservations'
<1> SUFFICES ASSUME TypeInv, ClockInv, AlarmCoversLiveReservations,
                    [Next]_vars
             PROVE  AlarmCoversLiveReservations'
  OBVIOUS
<1>1. /\ TypeInv' /\ rows' \in [Ids -> Row] /\ Stamped(rows')
      /\ now \in Nat
  BY TypeStep DEF TypeInv, TypeOK
<1>2. ASSUME NEW c \in Calls, ReserveCommit(c) \/ ConsumeCommit(c)
      PROVE  AlarmCoversLiveReservations'
  <2>1. call[c].at \in Nat /\ call[c].at <= now
    BY <1>2, FrameFields
       DEF ReserveCommit, ConsumeCommit, ClockInv, Idle, TypeInv, TypeOK
  <2>2. alarm' = NextAlarm(rows', call[c].at) /\ now' = now
    BY <1>2 DEF ReserveCommit, ConsumeCommit
  <2> QED
    BY <1>1, <2>1, <2>2, Rearmed
<1>3. CASE RunAlarm \/ \E r \in Ids : Compensate(r)
  <2>1. alarm' = NextAlarm(rows', now) /\ now' = now
    BY <1>3 DEF RunAlarm, Compensate
  <2> QED
    BY <1>1, <2>1, Rearmed
<1>4. ASSUME NEW r \in Ids, MarkStartCreated(r)
      PROVE  AlarmCoversLiveReservations'
  <2>1. ASSUME NEW x \in Ids, Live(rows'[x])
        PROVE  Live(rows[x]) /\ ReclaimAt(rows'[x]) = ReclaimAt(rows[x])
    BY <1>4, <2>1 DEF MarkStartCreated, Live, LiveStates, ReclaimAt, Row,
                      TypeInv, TypeOK
  <2> QED
    BY <1>4, <2>1
       DEF MarkStartCreated, AlarmCoversLiveReservations, LiveIds
<1>5. CASE Tick
  <2>1. /\ rows' = rows /\ alarm' = alarm /\ now' = now + 1
        /\ alarm \in Nat \cup {Never}
    BY <1>5 DEF Tick, TypeInv, TypeOK
  <2>2. alarm <= now => alarm <= now + 1
    BY <1>1, <2>1 DEF Never
  <2> QED
    BY <2>1, <2>2
       DEF AlarmCoversLiveReservations, LiveIds
<1>6. CASE UNCHANGED <<rows, alarm, now>>
  BY <1>6 DEF AlarmCoversLiveReservations, LiveIds
<1> QED
  BY <1>2, <1>3, <1>4, <1>5, <1>6
     DEF Next, Step, vars, SignPermit, ReserveCall, ConsumeCall,
         ReleaseBySandbox, CloseGate, OpenGate, RecordCapacityApproval,
         SetActiveWave, Evict

\* Every live reservation has an alarm that will reclaim it.
THEOREM AlarmAlwaysCovers == Spec => []AlarmCoversLiveReservations
<1>1. Init => AlarmCoversLiveReservations
  BY DEF Init, AlarmCoversLiveReservations, LiveIds, Live, LiveStates, Unborn
<1> QED
  BY <1>1, AlarmStep, TypeCorrect, ClockCorrect, PTL DEF Spec

-----------------------------------------------------------------------------
(***************************************************************************)
(* Admission.  Only an admission makes a row live; the row it adds is the  *)
(* only one of its request, and its sweep has counted all the others.      *)
(***************************************************************************)

\* Live rows stay live with their request, or the step is an admission.
LEMMA LiveSteps ==
  ASSUME TypeInv, [Next]_vars, NEW r \in Ids, Live(rows'[r])
  PROVE  \/ Live(rows[r]) /\ rows'[r].request = rows[r].request
         \/ \E c \in Calls : Admitted(r, c)
<1>1. RowStep(r) /\ rows[r] \in Row
  BY RowSteps DEF TypeInv, TypeOK
<1>2. CASE Marked(r)
  BY <1>1, <1>2 DEF Marked, Row, Live, LiveStates
<1>3. CASE \E c \in Calls : Started(r, c)
  <2>1. PICK c \in Calls : Started(r, c)
    BY <1>3
  <2>2. /\ rows[r].state = "start-created"
        /\ rows'[r] = [rows[r] EXCEPT !.state = "consumed",
                                      !.consumedAt = call[c].at]
    BY <2>1 DEF Started, TypeInv, TypeOK
  <2> QED
    BY <1>1, <2>2 DEF Row, Live, LiveStates
<1>4. CASE Finished(r) \/ Dropped(r)
  BY <1>1, <1>4 DEF Finished, Ended, Dropped, Forgotten, Unborn, Live,
                    LiveStates, Row
<1> QED
  BY <1>1, <1>2, <1>3, <1>4 DEF RowStep

\* What an admission finds: with its row left out, the live rows it leaves
\* were live before, are counted by its capacity test, and none is of the
\* same request.
LEMMA AdmissionFinds ==
  ASSUME TypeInv, NEW r \in Ids, NEW c \in Calls, Admitted(r, c),
         NEW x \in Ids, x # r, Live(rows'[x])
  PROVE  /\ rows'[x] = rows[x]
         /\ CountsAt(Swept(rows, call[c].at)[x], call[c].at)
         /\ rows'[x].request # call[c].request
<1> DEFINE t == call[c].at
           table == Swept(rows, t)
<1>1. /\ t \in Nat /\ table \in [Ids -> Row] /\ Stamped(table)
      /\ \/ table[x] = rows[x] /\ (Live(rows[x]) => ~Reclaimable(rows[x], t))
         \/ table[x] = Ended(rows[x], t)
      /\ RunnerHorizon \in Nat
  <2>1. t \in Nat
    BY AdmittedRow
  <2>2. rows \in [Ids -> Row] /\ Stamped(rows)
    BY DEF TypeInv, TypeOK
  <2> QED
    BY <2>1, <2>2, SweptRows, ConstantsAssumption
<1>2. rows'[x] = table[x]
  <2>1. rows' = [table EXCEPT ![r] = NewRow(call[c])]
    BY DEF Admitted
  <2> HIDE DEF table
  <2> QED
    BY <1>1, <2>1
<1>3. ~Live(Ended(rows[x], t))
  BY EndedType, <1>1 DEF Live, LiveStates, TypeInv, TypeOK
<1>4. table[x] = rows[x] /\ Live(table[x]) /\ ~Reclaimable(table[x], t)
  BY <1>1, <1>2, <1>3
<1>5. CountsAt(table[x], t)
  <2>1. ~(ReclaimAt(table[x]) <= t)
    BY <1>4 DEF Reclaimable
  <2>2. CASE table[x].state = "consumed"
    <3>1. table[x].consumedAt \in Nat
      BY <1>1, <2>2 DEF Stamped
    <3> QED
      BY <1>1, <2>1, <2>2, <3>1 DEF ReclaimAt, CountsAt
  <2>3. CASE table[x].state # "consumed"
    <3>1. table[x].expires \in Nat
      BY <1>1 DEF Row
    <3> QED
      BY <1>1, <1>4, <2>1, <2>3, <3>1
         DEF ReclaimAt, CountsAt, Live, LiveStates
  <2> QED
    BY <2>2, <2>3
<1>6. table[x].request # call[c].request
  BY <1>4 DEF Admitted, Admits, Existing
<1> QED
  BY <1>2, <1>4, <1>5, <1>6

LEMMA OneLiveStep ==
  TypeInv /\ OneLiveReservationPerRequest /\ [Next]_vars
    => OneLiveReservationPerRequest'
<1> SUFFICES ASSUME TypeInv, OneLiveReservationPerRequest, [Next]_vars,
                    NEW r1 \in Ids, NEW r2 \in Ids, r1 # r2,
                    Live(rows'[r1]), Live(rows'[r2])
             PROVE  rows'[r1].request # rows'[r2].request
  BY DEF OneLiveReservationPerRequest, LiveIds
<1>1. ASSUME NEW r \in Ids, NEW x \in Ids, x # r, Live(rows'[x]),
             NEW c \in Calls, Admitted(r, c)
      PROVE  rows'[x].request # rows'[r].request
  <2>1. rows'[r] = NewRow(call[c])
    BY <1>1, AdmittedRow
  <2>2. rows'[r].request = call[c].request
    BY <2>1 DEF NewRow
  <2> QED
    BY <1>1, <2>2, AdmissionFinds
<1>2. CASE \E c \in Calls : Admitted(r1, c) \/ Admitted(r2, c)
  BY <1>1, <1>2
<1>3. CASE ~\E c \in Calls : Admitted(r1, c) \/ Admitted(r2, c)
  <2>1. /\ Live(rows[r1]) /\ rows'[r1].request = rows[r1].request
        /\ Live(rows[r2]) /\ rows'[r2].request = rows[r2].request
    BY <1>3, LiveSteps
  <2> QED
    BY <2>1 DEF OneLiveReservationPerRequest, LiveIds
<1> QED
  BY <1>2, <1>3

\* A runner request never holds two live reservations, however many reserve()
\* calls are made for it at once.
THEOREM OneReservation == Spec => []OneLiveReservationPerRequest
<1>1. Init => OneLiveReservationPerRequest
  BY DEF Init, OneLiveReservationPerRequest, LiveIds, Live, LiveStates, Unborn
<1> QED
  BY <1>1, OneLiveStep, TypeCorrect, PTL DEF Spec

\* After an admission, the live rows are at most one more than it counted.
LEMMA AdmissionCount ==
  ASSUME TypeInv, NEW r \in Ids, NEW c \in Calls, Admitted(r, c)
  PROVE  /\ approved \in Nat
         /\ Cardinality(LiveIds') \in Nat
         /\ Cardinality(LiveIds') <= approved
         /\ Cardinality(LiveIds') <= MaxActiveRunners
<1> DEFINE t == call[c].at
           table == Swept(rows, t)
           counted == {x \in Ids : CountsAt(table[x], t)}
<1>1. LiveIds' \subseteq counted \cup {r}
  BY AdmissionFinds DEF LiveIds
<1>2. IsFiniteSet(counted)
  BY FS_Subset, ConstantsAssumption
<1>3. /\ Cardinality(counted) \in Nat
      /\ IsFiniteSet(counted \cup {r})
      /\ Cardinality(counted \cup {r}) \in Nat
      /\ Cardinality(counted \cup {r}) <= Cardinality(counted) + 1
  <2> HIDE DEF counted
  <2>1. /\ IsFiniteSet(counted \cup {r})
        /\ Cardinality(counted \cup {r}) =
             IF r \in counted THEN Cardinality(counted)
                              ELSE Cardinality(counted) + 1
    BY <1>2, FS_AddElement
  <2>2. Cardinality(counted) \in Nat
    BY <1>2, FS_CardinalityType
  <2> QED
    BY <2>1, <2>2
<1>4. /\ IsFiniteSet(LiveIds')
      /\ Cardinality(LiveIds') <= Cardinality(counted \cup {r})
  <2> HIDE DEF counted
  <2> QED
    BY <1>1, <1>3, FS_Subset
<1>5. Cardinality(LiveIds') \in Nat
  BY <1>4, FS_CardinalityType
<1>6. /\ approved \in Nat
      /\ Cardinality(counted) < MaxActiveRunners
      /\ Cardinality(counted) < approved
  BY DEF Admitted, Admits, CapacityLeft, LiveCount, TypeInv, TypeOK
<1> HIDE DEF counted
<1> QED
  BY <1>3, <1>4, <1>5, <1>6, ConstantsAssumption

LEMMA CapacityStep ==
  TypeInv /\ WithinMaxActiveRunners /\ [Next]_vars => WithinMaxActiveRunners'
<1> SUFFICES ASSUME TypeInv, WithinMaxActiveRunners, [Next]_vars
             PROVE  Cardinality(LiveIds') <= MaxActiveRunners
  BY DEF WithinMaxActiveRunners
<1>1. CASE \E r \in Ids, c \in Calls : Admitted(r, c)
  BY <1>1, AdmissionCount
<1>2. CASE ~\E r \in Ids, c \in Calls : Admitted(r, c)
  <2>1. LiveIds' \subseteq LiveIds
    BY <1>2, LiveSteps DEF LiveIds
  <2>2. IsFiniteSet(LiveIds)
    BY FS_Subset, ConstantsAssumption DEF LiveIds
  <2>3. /\ Cardinality(LiveIds') <= Cardinality(LiveIds)
        /\ Cardinality(LiveIds') \in Nat /\ Cardinality(LiveIds) \in Nat
    BY <2>1, <2>2, FS_Subset, FS_CardinalityType
  <2> QED
    BY <2>3, ConstantsAssumption DEF WithinMaxActiveRunners
<1> QED
  BY <1>1, <1>2

\* The live reservations never exceed MAX_ACTIVE_RUNNERS.
THEOREM CapacityHolds == Spec => []WithinMaxActiveRunners
<1>1. Init => WithinMaxActiveRunners
  <2> SUFFICES ASSUME Init
               PROVE  Cardinality(LiveIds) <= MaxActiveRunners
    BY DEF WithinMaxActiveRunners
  <2>1. LiveIds = {}
    BY DEF Init, LiveIds, Live, LiveStates, Unborn
  <2> QED
    BY <2>1, FS_EmptySet, ConstantsAssumption
<1> QED
  BY <1>1, CapacityStep, TypeCorrect, PTL DEF Spec

\* A reservation is admitted only inside the approval in force at that step.
THEOREM ApprovalHolds == Spec => AdmittedWithinApproval
<1>1. TypeInv /\ [Next]_vars =>
        [ \A r \in Ids :
            rows[r].state = "unborn" /\ rows'[r].state = "reserved"
              => Cardinality(LiveIds') <= approved ]_vars
  <2> SUFFICES ASSUME TypeInv, [Next]_vars, NEW r \in Ids,
                      rows[r].state = "unborn", rows'[r].state = "reserved"
               PROVE  Cardinality(LiveIds') <= approved
    OBVIOUS
  <2>1. \E c \in Calls : Admitted(r, c)
    BY LiveSteps DEF Live, LiveStates
  <2> QED
    BY <2>1, AdmissionCount
<1> QED
  BY <1>1, TypeCorrect, PTL DEF Spec, AdmittedWithinApproval

-----------------------------------------------------------------------------
(***************************************************************************)
(* Permits.  The record that a permit was spent lasts until the permit     *)
(* expires.  A late reserve() may then spend it again, but by that time    *)
(* the first reservation is consumed or ended, and any consume() made for  *)
(* the second one reads a clock that is past its expiry.                   *)
(***************************************************************************)
Waiting == {"reserved", "start-created"}

PermitInv ==
  /\ \A r \in Ids : rows[r].permit = None =>
       rows[r].state \notin Waiting /\ rows[r].consumedAt = Never
  /\ \A r \in Ids : rows[r].permit # None =>
       LET p == rows[r].permit IN
       /\ issued[p] # Unsigned
       /\ rows[r].expires <= issued[p].expires
       /\ spent[p] # r =>
            issued[p].expires <= now /\ rows[r].state \notin Waiting

\* A consume() of a row that shares its permit is too late for that permit.
LateCalls ==
  \A c \in Calls : call[c].op = "consume" =>
    LET r == call[c].id IN
    (rows[r].state \in Waiting
       /\ \E x \in Ids \ {r} : rows[x].permit = rows[r].permit)
      => issued[rows[r].permit].expires <= call[c].at

\* What a step leaves of a row's permit, expiry, consumption and state.
LEMMA PermitSteps ==
  ASSUME TypeInv, [Next]_vars, NEW r \in Ids
  PROVE  \/ \E c \in Calls : Admitted(r, c)
         \/ /\ rows'[r].permit = rows[r].permit
            /\ rows'[r].expires <= rows[r].expires
            /\ rows'[r].state \in Waiting => rows[r].state \in Waiting
            /\ \/ rows'[r].consumedAt = rows[r].consumedAt
               \/ \E c \in Calls : Started(r, c)
<1>1. RowStep(r) /\ rows[r] \in Row
  BY RowSteps DEF TypeInv, TypeOK
<1>2. CASE rows'[r] = rows[r]
  BY <1>1, <1>2 DEF Row
<1>3. CASE Marked(r)
  BY <1>1, <1>3 DEF Marked, Row, Waiting
<1>4. CASE \E c \in Calls : Started(r, c)
  <2>1. PICK c \in Calls : Started(r, c)
    BY <1>4
  <2>2. rows'[r] = [rows[r] EXCEPT !.state = "consumed",
                                   !.consumedAt = call[c].at]
    BY <2>1 DEF Started, TypeInv, TypeOK
  <2> QED
    BY <1>1, <1>4, <2>2 DEF Row, Waiting
<1>5. CASE Finished(r)
  BY <1>1, <1>5 DEF Finished, Ended, Row, Waiting
<1>6. CASE Dropped(r)
  BY <1>1, <1>6 DEF Dropped, Forgotten, Unborn, Row, Waiting
<1> QED
  BY <1>1, <1>2, <1>3, <1>4, <1>5, <1>6 DEF RowStep

\* A signed permit is never signed again.
LEMMA IssuedSteps ==
  ASSUME TypeInv, [Next]_vars, NEW p \in Permits, issued[p] # Unsigned
  PROVE  issued'[p] = issued[p]
<1>1. CASE \E x \in Permits, q \in Requests : SignPermit(x, q)
  BY <1>1 DEF SignPermit, TypeInv, TypeOK
<1>2. CASE issued' = issued
  BY <1>2
<1> QED
  BY <1>1, <1>2
     DEF Next, Step, vars, ReserveCall, ReserveCommit, MarkStartCreated,
         ConsumeCall, ConsumeCommit, Compensate, ReleaseBySandbox, RunAlarm,
         CloseGate, OpenGate, RecordCapacityApproval, SetActiveWave, Evict,
         Tick

\* A sweep that forgets a spent permit has ended the row waiting on it.
LEMMA SweepEndsWaiting ==
  ASSUME TypeInv, PermitInv, NEW t \in Nat, NEW r \in Ids,
         rows[r].permit # None,
         \/ spent[rows[r].permit] # r
         \/ Unspent(t)[rows[r].permit] # r
  PROVE  /\ issued[rows[r].permit].expires <= t
              \/ issued[rows[r].permit].expires <= now
         /\ Swept(rows, t)[r].state \notin Waiting
<1> DEFINE p == rows[r].permit
<1>1. /\ p \in Permits /\ rows[r] \in Row /\ rows[r].expires \in Nat
      /\ issued[p].expires \in Nat
      /\ rows[r].expires <= issued[p].expires
  BY DEF PermitInv, TypeInv, TypeOK, Row
<1>2. \/ /\ Swept(rows, t)[r] = rows[r]
         /\ Live(rows[r]) => ~Reclaimable(rows[r], t)
      \/ Swept(rows, t)[r] = Ended(rows[r], t)
  BY SweptRows DEF TypeInv, TypeOK
<1>3. Ended(rows[r], t).state \notin Waiting
  BY <1>1, EndedType DEF Waiting
<1>4. CASE spent[p] # r
  <2>1. issued[p].expires <= now /\ rows[r].state \notin Waiting
    BY <1>4 DEF PermitInv
  <2> QED
    BY <1>2, <1>3, <2>1
<1>5. CASE spent[p] = r
  <2>1. issued[p].expires <= t
    BY <1>1, <1>5 DEF Unspent
  <2>2. rows[r].expires <= t
    BY <1>1, <2>1
  <2>3. rows[r].state \in Waiting =>
          Live(rows[r]) /\ Reclaimable(rows[r], t)
    BY <2>2 DEF Waiting, Live, LiveStates, Reclaimable, ReclaimAt
  <2> QED
    BY <1>2, <1>3, <2>1, <2>3
<1> QED
  BY <1>4, <1>5

\* The record of spent permits names the row still waiting, after each step.
LEMMA SpentSteps ==
  ASSUME TypeInv, ClockInv, PermitInv, [Next]_vars, NEW r \in Ids,
         rows[r].permit # None, spent'[rows[r].permit] # r
  PROVE  issued[rows[r].permit].expires <= now /\ rows'[r].state \notin Waiting
<1> DEFINE p == rows[r].permit
<1>1. /\ p \in Permits /\ rows \in [Ids -> Row] /\ Stamped(rows)
      /\ issued[p].expires \in Nat /\ now \in Nat
  BY DEF TypeInv, TypeOK, Row
<1>2. ASSUME NEW c \in Calls, ReserveCommit(c)
      PROVE  issued[p].expires <= now /\ rows'[r].state \notin Waiting
  <2> DEFINE t == call[c].at
             table == Swept(rows, t)
             book == Unspent(t)
  <2>1. t \in Nat /\ t <= now
    <3>1. call[c] # Idle
      BY <1>2 DEF ReserveCommit, Idle
    <3> QED
      BY <1>2, <3>1, ReserveCommitTables DEF ClockInv
  <2>2. rows'[r] = table[r] /\ (spent[p] # r \/ book[p] # r)
    <3>1. CASE rows' = table /\ spent' = book
      BY <3>1
    <3>2. CASE \E x \in Ids : Admitted(x, c)
      <4>1. PICK x \in Ids : Admitted(x, c)
        BY <3>2
      <4>2. x # r
        BY <4>1 DEF Admitted, Unborn
      <4>3. rows' = [table EXCEPT ![x] = NewRow(call[c])]
        BY <4>1 DEF Admitted
      <4>4. /\ spent' = [book EXCEPT ![call[c].permit] = x]
            /\ book[call[c].permit] = None
        BY <4>1 DEF Admitted, Admits
      <4>5. table \in [Ids -> Row] /\ book \in [Permits -> Ids \cup {None}]
        BY <1>1, <2>1, SweptRows, UnspentType DEF TypeInv, TypeOK
      <4> HIDE DEF table, book
      <4>6. rows'[r] = table[r]
        BY <4>2, <4>3, <4>5
      <4>7. book[p] # r
        BY <1>1, <4>4, <4>5, ConstantsAssumption
      <4> QED
        BY <4>6, <4>7
    <3> QED
      BY <1>2, <3>1, <3>2 DEF ReserveCommit, Admitted
  <2>3. /\ issued[p].expires <= t \/ issued[p].expires <= now
        /\ table[r].state \notin Waiting
    BY <2>1, <2>2, SweepEndsWaiting
  <2> QED
    BY <1>1, <2>1, <2>2, <2>3
<1>3. CASE RunAlarm
  <2> DEFINE table == Swept(rows, now)
  <2>1. table \in [Ids -> Row] /\ Stamped(table)
    BY <1>1, SweptRows
  <2>2. rows' = Pruned(table, now) /\ Unspent(now)[p] # r
    BY <1>3 DEF RunAlarm
  <2>3. issued[p].expires <= now /\ table[r].state \notin Waiting
    BY <1>1, <2>2, SweepEndsWaiting
  <2> HIDE DEF table
  <2>4. rows'[r] = table[r] \/ rows'[r] = Forgotten(table[r])
    BY <1>1, <2>1, <2>2, PrunedRows
  <2>5. Forgotten(table[r]).state \notin Waiting
    BY DEF Forgotten, Unborn, Waiting
  <2> QED
    BY <2>3, <2>4, <2>5
<1>4. CASE spent' = spent
  <2>1. issued[p].expires <= now /\ rows[r].state \notin Waiting
    BY <1>4 DEF PermitInv
  <2>2. ~\E c \in Calls : Admitted(r, c)
    BY DEF Admitted, Unborn
  <2> QED
    BY <2>1, <2>2, PermitSteps
<1> QED
  BY <1>2, <1>3, <1>4
     DEF Next, Step, vars, SignPermit, ReserveCall, MarkStartCreated,
         ConsumeCall, ConsumeCommit, Compensate, ReleaseBySandbox,
         CloseGate, OpenGate, RecordCapacityApproval, SetActiveWave, Evict,
         Tick

LEMMA PermitStep ==
  TypeInv /\ ClockInv /\ PermitInv /\ [Next]_vars => PermitInv'
<1> SUFFICES ASSUME TypeInv, ClockInv, PermitInv, [Next]_vars, NEW r \in Ids
             PROVE  \/ /\ rows'[r].permit = None
                       /\ rows'[r].state \notin Waiting
                       /\ rows'[r].consumedAt = Never
                    \/ LET p == rows'[r].permit IN
                       /\ p # None
                       /\ issued'[p] # Unsigned
                       /\ rows'[r].expires <= issued'[p].expires
                       /\ spent'[p] # r => /\ issued'[p].expires <= now'
                                           /\ rows'[r].state \notin Waiting
  BY DEF PermitInv
<1>1. /\ rows[r] \in Row /\ rows'[r] \in Row /\ issued \in
           [Permits -> [request : Requests \cup {None}, expires : Nat]]
      /\ now \in Nat
  BY TypeStep DEF TypeInv, TypeOK
<1>2. CASE \E c \in Calls : Admitted(r, c)
  <2>1. PICK c \in Calls : Admitted(r, c)
    BY <1>2
  <2> DEFINE p == call[c].permit
  <2>2. /\ rows'[r] = NewRow(call[c]) /\ call[c].op = "reserve"
        /\ call[c].at \in Nat
    BY <2>1, AdmittedRow
  <2>3. p \in Permits /\ p # None
    BY <2>2, FrameFields, ConstantsAssumption DEF TypeInv, TypeOK
  <2>4. PermitVerified(p, call[c].at)
    BY <2>1 DEF Admitted, Admits
  <2>5. issued[p] # Unsigned
    BY <2>2, <2>4 DEF PermitVerified, Unsigned
  <2>6. rows'[r].expires <= issued[p].expires
    BY <2>2, <2>4, NewRowType DEF TypeInv
  <2>7. spent'[p] = r
    <3>1. Unspent(call[c].at) \in [Permits -> Ids \cup {None}]
      BY <2>2, UnspentType DEF TypeInv, TypeOK
    <3> QED
      BY <2>1, <2>3, <3>1 DEF Admitted
  <2>8. rows'[r].permit = p
    BY <2>2 DEF NewRow
  <2> QED
    BY <2>3, <2>5, <2>6, <2>7, <2>8, IssuedSteps
<1>3. CASE ~\E c \in Calls : Admitted(r, c)
  <2>1. /\ rows'[r].permit = rows[r].permit
        /\ rows'[r].expires <= rows[r].expires
        /\ rows'[r].state \in Waiting => rows[r].state \in Waiting
        /\ \/ rows'[r].consumedAt = rows[r].consumedAt
           \/ \E c \in Calls : Started(r, c)
    BY <1>3, PermitSteps
  <2>2. CASE rows[r].permit = None
    <3>1. ~\E c \in Calls : Started(r, c)
      BY <2>2 DEF Started, PermitInv, Waiting
    <3> QED
      BY <2>1, <2>2, <3>1 DEF PermitInv
  <2>3. CASE rows[r].permit # None
    <3> DEFINE p == rows[r].permit
    <3>1. /\ p \in Permits /\ issued[p] # Unsigned
          /\ rows[r].expires <= issued[p].expires
      BY <1>1, <2>3 DEF PermitInv, Row
    <3>2. issued'[p] = issued[p]
      BY <3>1, IssuedSteps
    <3>3. rows'[r].expires <= issued[p].expires
      BY <1>1, <2>1, <3>1 DEF Row
    <3>4. spent'[p] # r =>
            issued[p].expires <= now' /\ rows'[r].state \notin Waiting
      BY <1>1, <2>3, <3>1, SpentSteps, NowSteps
    <3> QED
      BY <2>1, <2>3, <3>1, <3>2, <3>3, <3>4
  <2> QED
    BY <2>2, <2>3
<1> QED
  BY <1>2, <1>3

LEMMA LateStep ==
  TypeInv /\ ClockInv /\ PermitInv /\ LateCalls /\ [Next]_vars => LateCalls'
<1> SUFFICES ASSUME TypeInv, ClockInv, PermitInv, LateCalls, [Next]_vars,
                    NEW c \in Calls, call'[c].op = "consume",
                    rows'[call'[c].id].state \in Waiting,
                    NEW x \in Ids \ {call'[c].id},
                    rows'[x].permit = rows'[call'[c].id].permit
             PROVE  issued'[rows'[call'[c].id].permit].expires <= call'[c].at
  BY DEF LateCalls
<1> DEFINE r == call'[c].id
           p == rows'[r].permit
<1>1. /\ TypeInv' /\ PermitInv' /\ r \in Ids /\ x \in Ids /\ x # r
      /\ rows[r] \in Row /\ rows[x] \in Row /\ now \in Nat
  <2>1. TypeInv' /\ PermitInv'
    BY TypeStep, PermitStep
  <2>2. r \in Ids
    BY <2>1, FrameFields DEF TypeInv, TypeOK
  <2> QED
    BY <2>1, <2>2 DEF TypeInv, TypeOK
<1>2. \/ call'[c] = call[c]
      \/ call'[c].at = now /\ now' = now /\ rows' = rows
  BY CallSteps DEF Idle
<1>3. p # None /\ spent'[p] = r
  BY <1>1 DEF PermitInv
<1>4. ~\E d \in Calls : Admitted(r, d)
  <2>1. CASE call'[c] = call[c]
    BY <1>1, <2>1 DEF ClockInv, Admitted, Unborn
  <2>2. CASE rows' = rows
    BY <2>2 DEF Admitted, Unborn, Waiting
  <2> QED
    BY <1>2, <2>1, <2>2
<1>5. rows[r].permit = p /\ rows[r].state \in Waiting
  BY <1>1, <1>4, PermitSteps
<1>6. p \in Permits /\ issued'[p] = issued[p]
  BY <1>1, <1>3, <1>5, IssuedSteps DEF PermitInv, Row
<1>7. ~\E d \in Calls : Admitted(x, d)
  <2> SUFFICES ASSUME NEW d \in Calls, Admitted(x, d)
               PROVE  FALSE
    OBVIOUS
  <2>1. rows'[x] = NewRow(call[d]) /\ call[d].op = "reserve"
    BY <1>1, AdmittedRow
  <2>2. call[d].permit = p
    BY <2>1 DEF NewRow
  <2>3. Unspent(call[d].at) \in [Permits -> Ids \cup {None}]
    BY <1>1, <2>1, AdmittedRow, UnspentType DEF TypeInv, TypeOK
  <2>4. spent'[p] = x
    BY <1>6, <2>2, <2>3 DEF Admitted
  <2> QED
    BY <1>1, <1>3, <2>4
<1>8. rows[x].permit = p
  BY <1>1, <1>7, PermitSteps
<1>9. CASE call'[c] = call[c]
  BY <1>1, <1>5, <1>6, <1>8, <1>9 DEF LateCalls
<1>10. CASE call'[c].at = now /\ rows' = rows
  <2>1. issued[p].expires <= now
    <3>1. spent[p] # r \/ spent[p] # x
      BY <1>1
    <3> QED
      BY <1>1, <1>3, <1>5, <1>8, <3>1 DEF PermitInv
  <2> QED
    BY <1>6, <1>10, <2>1
<1> QED
  BY <1>2, <1>9, <1>10

LEMMA FundsStep ==
  TypeInv /\ PermitInv /\ LateCalls /\ PermitFundsOneStart /\ [Next]_vars
    => PermitFundsOneStart'
<1> SUFFICES ASSUME TypeInv, PermitInv, LateCalls, PermitFundsOneStart,
                    [Next]_vars, NEW r1 \in Ids, NEW r2 \in Ids, r1 # r2,
                    rows'[r1].consumedAt # Never, rows'[r2].consumedAt # Never,
                    rows'[r1].permit = rows'[r2].permit
             PROVE  FALSE
  BY DEF PermitFundsOneStart
<1>1. ASSUME NEW r \in Ids, rows'[r].consumedAt # Never
      PROVE  ~\E c \in Calls : Admitted(r, c)
  <2> SUFFICES ASSUME NEW c \in Calls, Admitted(r, c)
               PROVE  FALSE
    OBVIOUS
  <2>1. rows'[r] = NewRow(call[c])
    BY AdmittedRow
  <2> QED
    BY <1>1, <2>1 DEF NewRow
<1>2. rows[r1].permit = rows[r2].permit
  BY <1>1, PermitSteps
<1>3. ASSUME NEW r \in Ids, NEW x \in Ids, x # r, NEW c \in Calls,
             Started(r, c), rows[x].permit = rows[r].permit
      PROVE  FALSE
  <2>1. /\ call[c].op = "consume" /\ call[c].id = r
        /\ rows[r].state \in Waiting /\ rows[r].expires > call[c].at
    BY <1>3 DEF Started, ConsumeCommit, Waiting
  <2>2. issued[rows[r].permit].expires <= call[c].at
    BY <1>3, <2>1 DEF LateCalls
  <2>3. rows[r].permit # None
    BY <2>1 DEF PermitInv
  <2>4. rows[r].expires <= issued[rows[r].permit].expires
    BY <2>3 DEF PermitInv
  <2>5. /\ rows[r].expires \in Nat /\ call[c].at \in Nat
        /\ issued[rows[r].permit].expires \in Nat
    BY <2>1, <2>3, FrameFields DEF TypeInv, TypeOK, Row
  <2> QED
    BY <2>1, <2>2, <2>4, <2>5
<1>4. /\ rows[r1].consumedAt = rows'[r1].consumedAt
      /\ rows[r2].consumedAt = rows'[r2].consumedAt
  BY <1>1, <1>2, <1>3, PermitSteps
<1> QED
  BY <1>2, <1>4 DEF PermitFundsOneStart

\* Every row is backed by its permit, for ever.
LEMMA PermitsBacked == Spec => []PermitInv
<1>1. Init => PermitInv
  BY DEF Init, PermitInv, Unborn, Waiting
<1> QED
  BY <1>1, PermitStep, TypeCorrect, ClockCorrect, PTL DEF Spec

\* A permit funds at most one started runner, for ever.
THEOREM PermitsFundOnce == Spec => []PermitFundsOneStart
<1>1. Init => PermitInv /\ LateCalls /\ PermitFundsOneStart
  BY DEF Init, PermitInv, LateCalls, PermitFundsOneStart, Unborn, Idle,
         Waiting
<1> QED
  BY <1>1, PermitStep, LateStep, FundsStep, TypeCorrect, ClockCorrect,
     PTL DEF Spec

-----------------------------------------------------------------------------
(***************************************************************************)
(* The ledger implements CapacityLease.                                    *)
(***************************************************************************)

\* What a step may do to the lease of a row.
Same(r) ==
  Stage(rows'[r]) = Stage(rows[r]) /\ Holder(rows'[r]) = Holder(rows[r])

CalledIn(r) ==
  Live(rows[r]) /\ Stage(rows'[r]) = "over" /\ Holder(rows'[r]) = None

LEMMA StageOfLive ==
  ASSUME NEW row \in Row
  PROVE  /\ Stage(row) \in {"granted", "started"} <=> Live(row)
         /\ Stage(row) = "free" <=> row.state = "unborn"
BY DEF Stage, Live, LiveStates, Row

LEMMA OverRow ==
  ASSUME NEW row, row.state \in {"compensated", "pruned"}
  PROVE  ~Live(row) /\ Stage(row) = "over" /\ Holder(row) = None
BY DEF Stage, Holder, Live, LiveStates

\* A row that is neither admitted nor started keeps its lease or loses it.
LEMMA QuietRow ==
  ASSUME TypeInv, [Next]_vars, NEW r \in Ids,
         ~\E c \in Calls : Admitted(r, c) \/ Started(r, c)
  PROVE  Same(r) \/ CalledIn(r)
<1>1. rows[r] \in Row /\ RowStep(r)
  BY RowSteps DEF TypeInv, TypeOK
<1>2. CASE rows'[r] = rows[r]
  BY <1>2 DEF Same
<1>3. CASE Marked(r)
  BY <1>1, <1>3 DEF Marked, Same, Stage, Holder, Live, LiveStates, Row
<1>4. CASE Finished(r)
  <2>1. Live(rows[r]) /\ rows'[r].state = "compensated"
    BY <1>1, <1>4, EndedType DEF Finished
  <2> QED
    BY <2>1, OverRow DEF CalledIn
<1>5. CASE Dropped(r)
  <2>1. rows'[r].state = "pruned"
    BY <1>5 DEF Dropped, Forgotten, Unborn
  <2>2. Stage(rows'[r]) = "over" /\ Holder(rows'[r]) = None
    BY <2>1, OverRow
  <2>3. CASE Live(rows[r])
    BY <2>2, <2>3 DEF CalledIn
  <2>4. CASE ~Live(rows[r])
    <3>1. rows[r].state \in {"compensated", "pruned"}
      BY <1>1, <1>5, <2>4 DEF Dropped, Live, LiveStates, Row
    <3> QED
      BY <2>2, <3>1, OverRow DEF Same
  <2> QED
    BY <2>3, <2>4
<1> QED
  BY <1>1, <1>2, <1>3, <1>4, <1>5 DEF RowStep

\* Beside the row it inserts, an admission only calls leases in.
LEMMA OtherRow ==
  ASSUME TypeInv, [Next]_vars, NEW r \in Ids, NEW c \in Calls, Admitted(r, c),
         NEW x \in Ids, x # r
  PROVE  Same(x) \/ CalledIn(x)
<1>1. rows[x] \in Row /\ (rows[x] = rows'[x] \/ ~Live(rows'[x]))
  BY AdmissionFinds DEF TypeInv, TypeOK
<1>2. CASE rows'[x] = rows[x]
  BY <1>2 DEF Same
<1>3. CASE ~Live(rows'[x])
  <2>1. ASSUME NEW d \in Calls, Started(x, d)
        PROVE  FALSE
    <3>1. rows'[x] = [rows[x] EXCEPT !.state = "consumed",
                                     !.consumedAt = call[d].at]
      BY <2>1 DEF Started, TypeInv, TypeOK
    <3>2. rows'[x].state = "consumed"
      BY <1>1, <3>1 DEF Row
    <3> QED
      BY <1>3, <3>2 DEF Live, LiveStates
  <2>2. ~\E d \in Calls : Admitted(x, d)
    BY <1>3, AdmittedRow DEF Live, LiveStates
  <2> QED
    BY <2>1, <2>2, QuietRow
<1> QED
  BY <1>1, <1>2, <1>3

\* The leases a step calls in.
Late == {x \in Ids : CalledIn(x)}

\* The rows an admission leaves live are the one it inserts and those that
\* were live and are not called in.
LEMMA AdmissionMakesRoom ==
  ASSUME TypeInv, [Next]_vars, WithinMaxActiveRunners',
         NEW r \in Ids, NEW c \in Calls, Admitted(r, c)
  PROVE  Cardinality(LiveIds \ Late) < MaxActiveRunners
<1> DEFINE left == LiveIds \ Late
<1>1. left \subseteq LiveIds' /\ r \in LiveIds' /\ r \notin left
  <2>1. r \in LiveIds' /\ r \notin LiveIds
    BY AdmittedRow DEF LiveIds, Live, LiveStates, Admitted, Unborn
  <2>2. ASSUME NEW x \in left
        PROVE  x \in LiveIds'
    <3>1. x \in Ids /\ x # r /\ Same(x) /\ Live(rows[x])
      BY <2>1, OtherRow DEF LiveIds, Late
    <3>2. rows[x] \in Row /\ rows'[x] \in Row
      BY TypeStep, <3>1 DEF TypeInv, TypeOK
    <3> QED
      BY <3>1, <3>2, StageOfLive DEF Same, LiveIds
  <2> QED
    BY <2>1, <2>2
<1>2. IsFiniteSet(LiveIds') /\ IsFiniteSet(left)
  BY FS_Subset, ConstantsAssumption DEF LiveIds
<1>3. /\ Cardinality(left \cup {r}) = Cardinality(left) + 1
      /\ Cardinality(left \cup {r}) <= Cardinality(LiveIds')
      /\ Cardinality(left) \in Nat /\ Cardinality(LiveIds') \in Nat
  <2>1. Cardinality(left \cup {r}) = Cardinality(left) + 1
    BY <1>1, <1>2, FS_AddElement
  <2>2. Cardinality(left \cup {r}) <= Cardinality(LiveIds')
    BY <1>1, <1>2, FS_Subset
  <2> QED
    BY <1>2, <2>1, <2>2, FS_CardinalityType
<1> QED
  BY <1>3, ConstantsAssumption DEF WithinMaxActiveRunners

\* What the abstract steps make of the leases, row by row.
LEMMA LateLeases ==
  /\ Late \subseteq LiveIds
  /\ Abstract!Held \subseteq Ids
  /\ TypeInv => Abstract!Held = LiveIds
BY StageOfLive DEF Late, CalledIn, LiveIds, Abstract!Held, TypeInv, TypeOK

\* The instance counts as its host does.
LEMMA SameCount ==
  ASSUME NEW S
  PROVE  Abstract!Cardinality(S) = Cardinality(S)
BY DEF Cardinality, Abstract!Cardinality

LEMMA GrantRefined ==
  ASSUME TypeInv, OneLiveReservationPerRequest, [Next]_vars,
         WithinMaxActiveRunners', NEW r \in Ids, NEW c \in Calls, Admitted(r, c)
  PROVE  Abstract!LeaseNext
<1> DEFINE q == call[c].request
<1>1. q \in Requests /\ rows'[r] = NewRow(call[c]) /\ rows[r] = Unborn
  <2>1. call[c] \in Frame /\ call[c].op = "reserve"
    BY AdmittedRow DEF TypeInv, TypeOK
  <2> QED
    BY <2>1, AdmittedRow, FrameFields DEF Admitted
<1>2. Stage(rows[r]) = "free" /\ Stage(rows'[r]) = "granted"
      /\ Holder(rows'[r]) = q
  BY <1>1 DEF Stage, Holder, Unborn, NewRow, Live, LiveStates
<1>3. \A x \in Ids : x # r => Same(x) \/ CalledIn(x)
  BY OtherRow
<1>4. r \notin Late
  BY <1>2 DEF Late, CalledIn
<1>5. Abstract!Cardinality(Abstract!Held \ Late) < MaxActiveRunners
  <2>1. Cardinality(LiveIds \ Late) < MaxActiveRunners
    BY AdmissionMakesRoom
  <2> QED
    BY <2>1, LateLeases, SameCount
<1>6. ASSUME NEW k \in LiveIds \ Late
      PROVE  Holder(rows[k]) # q
  <2>1. k \in Ids /\ k # r /\ Same(k) /\ Live(rows[k])
    BY <1>1, <1>3, <1>6 DEF LiveIds, Late, Unborn, Live, LiveStates
  <2>2. rows'[k] \in Row /\ rows[k] \in Row
    BY <2>1, TypeStep DEF TypeInv, TypeOK
  <2>3. Live(rows'[k])
    BY <2>1, <2>2, StageOfLive DEF Same
  <2>4. rows'[k].request # q
    BY <2>1, <2>3, AdmissionFinds
  <2> QED
    BY <2>1, <2>3, <2>4 DEF Same, Holder
<1>7. [x \in Ids |-> Stage(rows'[x])] =
        [Abstract!CallsIn(Late) EXCEPT ![r] = "granted"]
  BY <1>2, <1>3 DEF Abstract!CallsIn, Late, Same, CalledIn
<1>8. [x \in Ids |-> Holder(rows'[x])] =
        [Abstract!Vacates(Late) EXCEPT ![r] = q]
  BY <1>2, <1>3 DEF Abstract!Vacates, Late, Same, CalledIn
<1>9. Abstract!Grant(r, q, Late)
  BY <1>2, <1>5, <1>6, <1>7, <1>8, LateLeases DEF Abstract!Grant
<1> QED
  BY <1>1, <1>9, LateLeases DEF Abstract!LeaseNext

LEMMA StartRefined ==
  ASSUME TypeInv, NEW r \in Ids, NEW c \in Calls, Started(r, c)
  PROVE  Abstract!LeaseNext
<1>1. rows[r] \in Row /\ rows[r].state = "start-created"
  BY DEF Started, TypeInv, TypeOK
<1>2. rows' = [rows EXCEPT ![r] = [rows[r] EXCEPT !.state = "consumed",
                                                  !.consumedAt = call[c].at]]
  BY DEF Started
<1>3. \A x \in Ids : x # r => rows'[x] = rows[x]
  BY <1>2 DEF TypeInv, TypeOK
<1>4. /\ rows'[r].state = "consumed" /\ rows'[r].request = rows[r].request
  BY <1>1, <1>2 DEF TypeInv, TypeOK, Row
<1>5. /\ Stage(rows[r]) = "granted" /\ Stage(rows'[r]) = "started"
      /\ Holder(rows'[r]) = Holder(rows[r])
  BY <1>1, <1>4 DEF Stage, Holder, Live, LiveStates
<1>6. Abstract!Start(r)
  BY <1>3, <1>5 DEF Abstract!Start
<1> QED
  BY <1>6 DEF Abstract!LeaseNext

LEMMA QuietRefined ==
  ASSUME TypeInv, [Next]_vars,
         ~\E r \in Ids, c \in Calls : Admitted(r, c) \/ Started(r, c)
  PROVE  Abstract!LeaseNext
<1>1. \A x \in Ids : Same(x) \/ CalledIn(x)
  BY QuietRow
<1>2. [x \in Ids |-> Stage(rows'[x])] = Abstract!CallsIn(Late)
  BY <1>1 DEF Abstract!CallsIn, Late, Same, CalledIn
<1>3. [x \in Ids |-> Holder(rows'[x])] = Abstract!Vacates(Late)
  BY <1>1 DEF Abstract!Vacates, Late, Same, CalledIn
<1>4. Abstract!GiveBack(Late)
  BY <1>2, <1>3 DEF Abstract!GiveBack
<1> QED
  BY <1>4, LateLeases DEF Abstract!LeaseNext

\* The ledger implements CapacityLease: it never grants more than the maximum
\* or twice to a request, and starts a lease at most once.
THEOREM LedgerGrantsLeases == Spec => GrantsLeases
<1>1. Init => Abstract!LeaseInit
  BY DEF Init, Abstract!LeaseInit, Stage, Holder, Live, LiveStates, Unborn
<1>2. TypeInv /\ OneLiveReservationPerRequest /\ WithinMaxActiveRunners'
        /\ [Next]_vars => [Abstract!LeaseNext]_(Abstract!leaseVars)
  <2> SUFFICES ASSUME TypeInv, OneLiveReservationPerRequest,
                      WithinMaxActiveRunners', [Next]_vars
               PROVE  Abstract!LeaseNext
    OBVIOUS
  <2>1. CASE \E r \in Ids, c \in Calls : Admitted(r, c)
    BY <2>1, GrantRefined
  <2>2. CASE \E r \in Ids, c \in Calls : Started(r, c)
    BY <2>2, StartRefined
  <2>3. CASE ~\E r \in Ids, c \in Calls : Admitted(r, c) \/ Started(r, c)
    BY <2>3, QuietRefined
  <2> QED
    BY <2>1, <2>2, <2>3
<1> QED
  BY <1>1, <1>2, TypeCorrect, OneReservation, CapacityHolds, PTL
     DEF Spec, GrantsLeases, Abstract!LeaseSpec
=============================================================================
