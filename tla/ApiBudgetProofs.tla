--------------------------- MODULE ApiBudgetProofs ---------------------------
(***************************************************************************)
(* The inductive invariant of ApiBudget, and what follows from it, for any *)
(* number of requests, any costs and any budgets.                          *)
(***************************************************************************)
EXTENDS ApiBudget, TLAPS

\* What is spent only grows, so a threshold that is reached stays reached.
LEMMA ReachedGrows ==
    ASSUME NEW sum \in Nat, NEW more \in Nat, NEW budget \in Nat,
           Reached(sum, budget, SuspendPercent)
    PROVE  Reached(sum + more, budget, SuspendPercent)
  BY DEF Reached, SuspendPercent

\* What stamping a row does: the budget stays, a warning stays, and a suspension means that
\* the budget is spent.
LEMMA StampedRow ==
    ASSUME NEW row \in PeriodRow, NEW sum \in Nat
    PROVE  /\ Stamped(row, sum) \in PeriodRow
           /\ Stamped(row, sum).configured = row.configured
           /\ row.warned => Stamped(row, sum).warned
           /\ Stamped(row, sum).suspended
                => Reached(sum, Stamped(row, sum).budget, SuspendPercent)
  <1> DEFINE w == row.warned \/ Reached(sum, row.budget, WarnPercent)
             s == Reached(sum, row.budget, SuspendPercent)
  <1>1. w \in BOOLEAN /\ s \in BOOLEAN
    BY DEF PeriodRow, Reached
  <1>2. Stamped(row, sum) = [row EXCEPT !.warned = w, !.suspended = s]
    BY DEF Stamped
  <1> HIDE DEF w, s
  <1>3. /\ Stamped(row, sum) \in PeriodRow
        /\ Stamped(row, sum).configured = row.configured
        /\ Stamped(row, sum).budget = row.budget
        /\ Stamped(row, sum).warned = w
        /\ Stamped(row, sum).suspended = s
    BY <1>1, <1>2 DEF PeriodRow
  <1>4. QED
    BY <1>3 DEF w, s

\* The month starts without a row and without an alert.
LEMMA InitInv == Init => IInv
  <1> SUFFICES ASSUME Init PROVE IInv
    OBVIOUS
  <1>1. /\ NoRow \in PeriodRow /\ ~NoRow.warned /\ ~NoRow.suspended
        /\ Idle \in RequestState /\ Idle.pc = "idle" /\ ~Idle.due
    BY DEF NoRow, PeriodRow, Idle, RequestState, Steps
  <1>2. TypeOK
    BY <1>1 DEF Init, TypeOK
  <1>3. \A r \in Requests : req[r] = Idle
    BY DEF Init
  <1>4. HeldInv /\ AlertInv /\ SuspendedRefuses
    BY <1>1, <1>3 DEF Init, HeldInv, HoldsRow, AlertInv, AlertedOnce, SuspendedRefuses
  <1>5. QED
    BY <1>1, <1>2, <1>4 DEF Init, IInv

\* A step that only moves a request which holds no row, to one that holds none and owes no
\* alert, keeps the invariant.
LEMMA UnheldStep ==
    ASSUME IInv, NEW r \in Requests, NEW state \in RequestState, Move(r, state),
           ~(state.pc \in {"sum", "commit"} /\ state.row.configured),
           state.pc # "alert", ~state.due,
           UNCHANGED <<spent, period, alerts>>
    PROVE  IInv'
  <1>1. req \in [Requests -> RequestState] /\ req' = [req EXCEPT ![r] = state]
    BY DEF IInv, TypeOK, Move
  <1>2. /\ req'[r] = state
        /\ \A q \in Requests \ {r} : req'[q] = req[q]
    BY <1>1
  <1>3. TypeOK'
    BY <1>1 DEF IInv, TypeOK
  <1>4. HeldInv'
    BY <1>2 DEF IInv, HeldInv, HoldsRow
  <1>5. AlertInv' /\ SuspendedRefuses'
    BY <1>2 DEF IInv, AlertInv, AlertedOnce, SuspendedRefuses, IntakeOpen
  <1>6. QED
    BY <1>3, <1>4, <1>5 DEF IInv

\* Every step keeps the invariant.
LEMMA NextInv == IInv /\ [Next]_vars => IInv'
  <1> SUFFICES ASSUME IInv, [Next]_vars PROVE IInv'
    OBVIOUS
  <1> USE BudgetAssumption
  <1>0. /\ spent \in Nat /\ period \in PeriodRow /\ alerts \in Nat
        /\ req \in [Requests -> RequestState]
        /\ Idle \in RequestState
    BY DEF IInv, TypeOK, Idle, RequestState, Steps, NoRow, PeriodRow
  <1>1. ASSUME NEW r \in Requests, NEW cost \in Costs, RecordCall(r, cost) PROVE IInv'
    <2>1. [Idle EXCEPT !.pc = "lock", !.cost = cost] \in RequestState
      BY DEF Idle, RequestState, Steps, NoRow, PeriodRow
    <2>2. QED
      BY <1>1, <2>1, UnheldStep DEF RecordCall, Start, Idle, NoRow
  <1>2. ASSUME NEW r \in Requests, NEW budget \in Budgets, SetBudget(r, budget) PROVE IInv'
    <2> DEFINE row == [period EXCEPT !.configured = TRUE, !.budget = budget]
               state == [Idle EXCEPT !.pc = "sum", !.row = row]
    <2>1. /\ row \in PeriodRow /\ row.configured
          /\ row.warned = period.warned
      BY <1>0 DEF PeriodRow
    <2>2. /\ state \in RequestState /\ state.pc = "sum" /\ state.row = row /\ ~state.due
      BY <2>1 DEF Idle, RequestState, Steps, NoRow
    <2> HIDE DEF row
    <2>3. req' = [req EXCEPT ![r] = state] /\ UNCHANGED <<spent, period, alerts>>
      BY <1>2 DEF SetBudget, Start, Move, row
    <2> HIDE DEF state
    <2>4. /\ req'[r] = state
          /\ \A q \in Requests \ {r} : req'[q] = req[q]
      BY <1>0, <2>3
    <2>5. TypeOK'
      BY <1>0, <2>2, <2>3 DEF TypeOK
    <2>6. \A q \in Requests : ~HoldsRow(q)
      BY <1>2 DEF SetBudget, RowFree
    <2>7. HeldInv'
      BY <2>1, <2>2, <2>3, <2>4, <2>6 DEF IInv, HeldInv, HoldsRow
    <2>8. AlertInv' /\ SuspendedRefuses'
      BY <2>2, <2>3, <2>4 DEF IInv, AlertInv, AlertedOnce, SuspendedRefuses, IntakeOpen
    <2>9. QED
      BY <2>3, <2>5, <2>7, <2>8 DEF IInv
  <1>3. ASSUME NEW r \in Requests, Check(r) PROVE IInv'
    <2>1. [Idle EXCEPT !.pc = "lock"] \in RequestState
      BY DEF Idle, RequestState, Steps, NoRow, PeriodRow
    <2>2. QED
      BY <1>3, <2>1, UnheldStep DEF Check, Start, Idle, NoRow
  <1>4. ASSUME NEW r \in Requests, LockPeriod(r) PROVE IInv'
    <2> DEFINE state == [req[r] EXCEPT !.pc = "sum", !.row = period]
    <2>0. req[r] \in RequestState /\ req[r].pc = "lock" /\ ~req[r].due
      BY <1>0, <1>4 DEF LockPeriod, IInv, HeldInv
    <2>1. /\ state \in RequestState /\ state.pc = "sum" /\ state.row = period /\ ~state.due
      BY <1>0, <2>0 DEF RequestState, Steps
    <2>2. Move(r, state) /\ UNCHANGED <<spent, period, alerts>>
      BY <1>4 DEF LockPeriod
    <2> HIDE DEF state
    <2>3. CASE ~period.configured
      BY <2>1, <2>2, <2>3, UnheldStep
    <2>4. CASE period.configured
      <3>1. \A q \in Requests : ~HoldsRow(q)
        BY <1>4, <2>4 DEF LockPeriod, RowFree
      <3>2. /\ req'[r] = state
            /\ \A q \in Requests \ {r} : req'[q] = req[q]
        BY <1>0, <2>2 DEF Move
      <3>3. TypeOK'
        BY <1>0, <2>1, <2>2 DEF TypeOK, Move
      <3>4. HeldInv'
        BY <2>1, <2>2, <3>1, <3>2 DEF IInv, HeldInv, HoldsRow
      <3>5. AlertInv' /\ SuspendedRefuses'
        BY <2>1, <2>2, <3>2 DEF IInv, AlertInv, AlertedOnce, SuspendedRefuses, IntakeOpen
      <3>6. QED
        BY <2>2, <3>3, <3>4, <3>5 DEF IInv
    <2>5. QED
      BY <2>3, <2>4
  <1>5. ASSUME NEW r \in Requests, ApplyThresholds(r) PROVE IInv'
    <2> DEFINE row == req[r].row
               sum == spent + req[r].cost
               new == IF row.configured THEN Stamped(row, sum) ELSE row
               state == [req[r] EXCEPT !.pc = "commit", !.row = new,
                                       !.due = new.warned /\ ~row.warned]
    <2>0. req[r] \in RequestState /\ req[r].pc = "sum" /\ ~req[r].due /\ row \in PeriodRow
          /\ sum \in Nat
      BY <1>0, <1>5 DEF ApplyThresholds, IInv, HeldInv, RequestState
    <2>1. /\ new \in PeriodRow /\ new.configured = row.configured
          /\ row.warned => new.warned
          /\ row.configured /\ new.suspended => Reached(sum, new.budget, SuspendPercent)
      <3>1. CASE row.configured
        BY <2>0, <3>1, StampedRow
      <3>2. CASE ~row.configured
        BY <2>0, <3>2
      <3>3. QED
        BY <2>0, <3>1, <3>2 DEF PeriodRow
    <2>2. /\ state \in RequestState /\ state.pc = "commit" /\ state.row = new
          /\ state.cost = req[r].cost
          /\ state.due = (new.warned /\ ~row.warned)
      BY <2>0, <2>1 DEF RequestState, Steps
    <2>3. Move(r, state) /\ UNCHANGED <<spent, period, alerts>>
      BY <1>5 DEF ApplyThresholds
    <2> HIDE DEF state, new
    <2>4. CASE ~row.configured
      <3>1. ~state.due
        BY <2>2, <2>4 DEF new
      <3>2. QED
        BY <2>1, <2>2, <2>3, <2>4, <3>1, UnheldStep
    <2>5. CASE row.configured
      <3>1. HoldsRow(r)
        BY <2>0, <2>5 DEF HoldsRow
      <3>2. /\ req'[r] = state
            /\ \A q \in Requests \ {r} : req'[q] = req[q]
        BY <1>0, <2>3 DEF Move
      <3>3. TypeOK'
        BY <1>0, <2>2, <2>3 DEF TypeOK, Move
      <3>4. /\ row.warned = period.warned
            /\ \A q \in Requests : HoldsRow(q) => q = r
        BY <2>0, <3>1 DEF IInv, HeldInv
      <3>5. HeldInv'
        BY <2>1, <2>2, <2>3, <2>5, <3>1, <3>2, <3>4 DEF IInv, HeldInv, HoldsRow
      <3>6. AlertInv' /\ SuspendedRefuses'
        BY <2>2, <2>3, <3>2 DEF IInv, AlertInv, AlertedOnce, SuspendedRefuses, IntakeOpen
      <3>7. QED
        BY <2>3, <3>3, <3>5, <3>6 DEF IInv
    <2>6. QED
      BY <2>4, <2>5
  <1>6. ASSUME NEW r \in Requests, Commit(r) PROVE IInv'
    <2> DEFINE state == IF req[r].due THEN [Idle EXCEPT !.pc = "alert"] ELSE Idle
    <2>0. req[r] \in RequestState /\ req[r].pc = "commit" /\ req[r].cost \in Nat
          /\ req[r].row \in PeriodRow
      BY <1>0, <1>6 DEF Commit, RequestState
    <2>1. /\ state \in RequestState /\ ~state.due /\ state.pc \notin {"sum", "commit"}
          /\ state.pc = "alert" <=> req[r].due
      BY DEF Idle, RequestState, Steps, NoRow, PeriodRow
    <2>2. /\ req' = [req EXCEPT ![r] = state]
          /\ spent' = spent + req[r].cost
          /\ period' = IF req[r].row.configured THEN req[r].row ELSE period
          /\ alerts' = alerts
      BY <1>6 DEF Commit, Move
    <2> HIDE DEF state
    <2>3. /\ req'[r] = state
          /\ \A q \in Requests \ {r} : req'[q] = req[q]
      BY <1>0, <2>2
    <2>4. TypeOK'
      BY <1>0, <2>0, <2>1, <2>2 DEF TypeOK
    <2>5. /\ HoldsRow(r) <=> req[r].row.configured
          /\ req[r].due => HoldsRow(r) /\ ~period.warned /\ req[r].row.warned
          /\ HoldsRow(r) /\ period.warned => req[r].row.warned
      BY <2>0 DEF IInv, HeldInv, HoldsRow
    <2>6. period.warned => period'.warned
      BY <2>2, <2>5
    <2>7. SuspendedRefuses'
      <3>1. CASE req[r].row.configured
        BY <2>0, <2>2, <2>5, <3>1 DEF IInv, HeldInv, SuspendedRefuses, IntakeOpen
      <3>2. CASE ~req[r].row.configured
        <4>1. period' = period /\ period.budget \in Nat /\ spent \in Nat
          BY <1>0, <2>2, <3>2 DEF PeriodRow
        <4>2. QED
          BY <2>0, <2>2, <4>1, ReachedGrows DEF IInv, SuspendedRefuses, IntakeOpen
      <3>3. QED
        BY <3>1, <3>2
    <2>8. AlertInv'
      BY <2>1, <2>2, <2>3, <2>5, <2>6 DEF IInv, AlertInv, AlertedOnce
    <2>9. HeldInv'
      <3>1. CASE req[r].row.configured
        <4>1. \A q \in Requests \ {r} : ~HoldsRow(q) /\ ~req[q].due
          BY <2>5, <3>1 DEF IInv, HeldInv
        <4>2. QED
          BY <2>1, <2>3, <4>1 DEF HeldInv, HoldsRow
      <3>2. CASE ~req[r].row.configured
        <4>1. period' = period
          BY <2>2, <3>2
        <4>2. ASSUME NEW q \in Requests, HoldsRow(q)', req'[q].pc = "commit",
                     req'[q].row.suspended
              PROVE  Reached(spent' + req'[q].cost, req'[q].row.budget, SuspendPercent)
          <5>1. q # r /\ req'[q] = req[q] /\ HoldsRow(q)
            BY <2>1, <2>3, <4>2 DEF HoldsRow
          <5>2. req[q].cost \in Nat /\ req[q].row.budget \in Nat
            BY <1>0 DEF RequestState, PeriodRow
          <5>3. Reached(spent + req[q].cost, req[q].row.budget, SuspendPercent)
            BY <4>2, <5>1 DEF IInv, HeldInv
          <5>4. spent' + req[q].cost = (spent + req[q].cost) + req[r].cost
            BY <1>0, <2>0, <2>2, <5>2
          <5>5. QED
            BY <1>0, <2>0, <5>1, <5>2, <5>3, <5>4, ReachedGrows
        <4>3. QED
          BY <2>1, <2>3, <4>1, <4>2 DEF IInv, HeldInv, HoldsRow
      <3>3. QED
        BY <3>1, <3>2
    <2>10. (period.warned \/ period.suspended => period.configured)'
      BY <2>2 DEF IInv
    <2>11. QED
      BY <2>4, <2>7, <2>8, <2>9, <2>10 DEF IInv
  <1>7. ASSUME NEW r \in Requests, EnqueueAlert(r) PROVE IInv'
    <2>1. /\ req' = [req EXCEPT ![r] = Idle] /\ req[r].pc = "alert"
          /\ alerts' = alerts + 1 /\ UNCHANGED <<spent, period>>
      BY <1>7 DEF EnqueueAlert, Move
    <2>2. /\ req'[r] = Idle /\ Idle.pc = "idle" /\ ~Idle.due
          /\ \A q \in Requests \ {r} : req'[q] = req[q]
      BY <1>0, <2>1 DEF Idle
    <2>3. TypeOK'
      BY <1>0, <2>1 DEF TypeOK
    <2>4. alerts = 0 /\ period.warned
      BY <1>0, <2>1 DEF IInv, AlertInv, AlertedOnce
    <2>5. AlertInv'
      BY <2>1, <2>2, <2>4 DEF IInv, AlertInv, AlertedOnce
    <2>6. HeldInv'
      BY <2>1, <2>2 DEF IInv, HeldInv, HoldsRow
    <2>7. SuspendedRefuses'
      BY <2>1 DEF IInv, SuspendedRefuses, IntakeOpen
    <2>8. QED
      BY <2>1, <2>3, <2>5, <2>6, <2>7 DEF IInv
  <1>8. ASSUME NEW r \in Requests, Abort(r) PROVE IInv'
    BY <1>0, <1>8, UnheldStep DEF Abort, Idle
  <1>9. CASE UNCHANGED vars
    BY <1>9 DEF vars, IInv, TypeOK, HeldInv, HoldsRow, AlertInv, AlertedOnce, SuspendedRefuses,
                IntakeOpen
  <1>10. QED
    BY <1>1, <1>2, <1>3, <1>4, <1>5, <1>6, <1>7, <1>8, <1>9 DEF Next, DailyCheck, Continue

\* The row is locked by one transaction, whose view of it stays true, and an alert stands on
\* the stamp (_apply_thresholds).
THEOREM BudgetInvariant == Spec => []IInv
  BY InitInv, NextInv, PTL DEF Spec

\* Every variable stays in its domain.
THEOREM BudgetTypes == Spec => []TypeOK
  <1>1. IInv => TypeOK
    BY DEF IInv
  <1>2. QED
    BY <1>1, BudgetInvariant, PTL

\* However many calls cross the threshold together, the admin is alerted at most once.
THEOREM AlertOnce == Spec => []AlertedOnce
  <1>1. IInv => AlertedOnce
    BY DEF IInv, AlertInv
  <1>2. QED
    BY <1>1, BudgetInvariant, PTL

\* A month stamped as suspended refuses new scans.
THEOREM SuspensionSound == Spec => []SuspendedRefuses
  <1>1. IInv => SuspendedRefuses
    BY DEF IInv
  <1>2. QED
    BY <1>1, BudgetInvariant, PTL
=============================================================================
