--------------------------- MODULE SharingProofs ---------------------------
(***************************************************************************)
(* What Sharing promises, for any number of requests, reports and links.   *)
(***************************************************************************)
EXTENDS Sharing, TLAPS

\* What a request knows at each of its steps.
LEMMA RequestFields ==
    ASSUME TypeOK, NEW r \in Requests
    PROVE  /\ req[r].op \in {"uphold", "dismiss", "count"} =>
                 req[r] = [op |-> req[r].op, report |-> req[r].report] /\ req[r].report \in Reports
           /\ req[r].op = "apply" => req[r].report \in Reports /\ req[r].level \in 1..Len(Ladder)
           /\ req[r].op = "status" => req[r].to \in BOOLEAN /\ req[r].changed \in BOOLEAN
           /\ req[r].op \in {"create", "revoke", "renew", "download"} => req[r].link \in Links
<1>1. req[r] \in RequestState
  BY DEF TypeOK
<1> QED
  BY <1>1 DEF RequestState, Idle

\* The levels are those of the ladder.
LEMMA Levels ==
    /\ Len(Ladder) = 3
    /\ \A n \in Nat : LevelAfter(n) \in 1..Len(Ladder)
  BY DEF Ladder, LevelAfter

LEMMA IdleState == Idle \in RequestState /\ Idle.op = "idle"
  BY DEF Idle, RequestState

\* What End does: it frees the rows of the request and of no other.
LEMMA EndLocks ==
    ASSUME TypeOK, NEW r \in Requests, End(r)
    PROVE  /\ req' \in [Requests -> RequestState] /\ req'[r] = Idle
           /\ \A s \in Requests \ {r} : req'[s] = req[s]
           /\ holder' \in [Reports -> Requests \cup {None}]
           /\ \A p \in Reports, s \in Requests \ {r} : holder[p] = s => holder'[p] = s
           /\ userHolder' \in Requests \cup {None}
           /\ \A s \in Requests \ {r} : userHolder = s => userHolder' = s
<1>1. /\ req' = [req EXCEPT ![r] = Idle]
      /\ holder' = [p \in Reports |-> IF holder[p] = r THEN None ELSE holder[p]]
      /\ userHolder' = IF userHolder = r THEN None ELSE userHolder
  BY DEF End
<1> QED
  BY <1>1, IdleState DEF TypeOK

\* A request that ends without deciding on a report leaves the others' locks in order.
LEMMA EndKeepsLocks ==
    ASSUME TypeOK, LockInv, NEW r \in Requests, End(r), UNCHANGED <<report, actions>>
    PROVE  LockInv'
<1> SUFFICES ASSUME NEW s \in Requests
             PROVE /\ req'[s].op \in {"uphold", "dismiss", "count", "apply"} =>
                        holder'[req'[s].report] = s /\ report[req'[s].report] = "new"
                   /\ req'[s].op \in {"count", "apply"} => userHolder' = s
                   /\ req'[s].op = "apply" => req'[s].level = LevelAfter(Len(actions))
  BY DEF LockInv
<1>1. CASE s = r
  BY <1>1, EndLocks, IdleState
<1>2. CASE s # r
  <2>1. req'[s] = req[s]
    BY <1>2, EndLocks
  <2>2. req[s].op \in {"uphold", "dismiss", "count", "apply"} => req[s].report \in Reports
    BY RequestFields
  <2> QED
    BY <1>2, <2>1, <2>2, EndLocks DEF LockInv
<1> QED
  BY <1>1, <1>2

\* A request that starts, and takes no lock, keeps the invariant.
LEMMA StartOK ==
    ASSUME IInv, NEW r \in Requests, NEW state \in RequestState, Begin(r, state),
           state.op \notin {"uphold", "dismiss", "count", "apply"},
           UNCHANGED <<moderation, sharing, suspended, paying>>
    PROVE  IInv'
<1>1. /\ req' \in [Requests -> RequestState]
      /\ \A s \in Requests : req'[s] = IF s = r THEN state ELSE req[s]
  BY DEF Begin, IInv, TypeOK
<1>2. UNCHANGED <<report, holder, userHolder, actions, restricted, suspended, paying, link,
                  downloads>>
  BY DEF moderation, sharing
<1>3. TypeOK' /\ LadderStepwise' /\ CountInv'
  BY <1>1, <1>2 DEF IInv, TypeOK, LadderStepwise, CountInv
<1>4. LockInv'
  BY <1>1, <1>2 DEF IInv, LockInv
<1> QED
  BY <1>3, <1>4 DEF IInv

\* A request that ends, having written at most the link of its step, keeps the invariant
\* when every download stays counted.
LEMMA EndOK ==
    ASSUME IInv, NEW r \in Requests, End(r), UNCHANGED <<report, actions>>,
           restricted' \in BOOLEAN, suspended' \in BOOLEAN, paying' \in BOOLEAN,
           link' \in [Links -> LinkRow], downloads' \in [Links -> Nat], CountInv'
    PROVE  IInv'
<1>1. TypeOK'
  BY EndLocks DEF IInv, TypeOK
<1>2. LadderStepwise'
  BY DEF IInv, LadderStepwise
<1>3. LockInv'
  BY EndKeepsLocks DEF IInv
<1> QED
  BY <1>1, <1>2, <1>3 DEF IInv

LEMMA InitOK == Init => IInv
<1> SUFFICES ASSUME Init PROVE IInv
  OBVIOUS
<1>1. NoLink \in LinkRow /\ NoLink.count = 0
  BY SharingAssumption DEF NoLink, LinkRow
<1>2. TypeOK
  <2>1. actions \in Seq([level : 1..Len(Ladder), report : Reports])
    BY DEF Init
  <2>2. restricted \in BOOLEAN /\ suspended \in BOOLEAN /\ paying \in BOOLEAN
    BY DEF Init
  <2>3. link \in [Links -> LinkRow] /\ downloads \in [Links -> Nat]
    BY <1>1 DEF Init
  <2> QED
    BY <2>1, <2>2, <2>3, IdleState DEF Init, TypeOK
<1>3. LadderStepwise
  BY DEF Init, LadderStepwise
<1>4. LockInv
  BY IdleState DEF Init, LockInv
<1>5. CountInv
  BY <1>1 DEF Init, CountInv
<1> QED
  BY <1>2, <1>3, <1>4, <1>5 DEF IInv

\* Locking the report and the owner, and counting the actions so far.
LEMMA DecisionOK ==
    ASSUME IInv, NEW r \in Requests,
           \/ \E p \in Reports, decision \in {"uphold", "dismiss"} : LockReport(r, p, decision)
           \/ LockUser(r) \/ CountActions(r)
    PROVE  IInv'
<1>0. TypeOK /\ LockInv
  BY DEF IInv
<1>1. ASSUME NEW p \in Reports, NEW decision \in {"uphold", "dismiss"},
             LockReport(r, p, decision)
      PROVE  IInv'
  <2> DEFINE state == [op |-> decision, report |-> p]
  <2>1. state \in RequestState /\ state.op = decision /\ state.report = p
    BY DEF RequestState
  <2>2. /\ req' \in [Requests -> RequestState]
        /\ \A s \in Requests : req'[s] = IF s = r THEN state ELSE req[s]
    BY <1>0, <1>1, <2>1 DEF LockReport, Begin, TypeOK
  <2>3. /\ holder' \in [Reports -> Requests \cup {None}]
        /\ holder[p] = None /\ holder'[p] = r /\ report[p] = "new"
        /\ \A q \in Reports \ {p} : holder'[q] = holder[q]
    BY <1>0, <1>1 DEF LockReport, TypeOK
  <2>4. UNCHANGED <<report, userHolder, actions, restricted, suspended, paying, link, downloads>>
    BY <1>1 DEF LockReport, sharing
  <2>5. TypeOK' /\ LadderStepwise' /\ CountInv'
    BY <2>2, <2>3, <2>4 DEF IInv, TypeOK, LadderStepwise, CountInv
  <2>6. LockInv'
    <3> SUFFICES ASSUME NEW s \in Requests, s # r
                 PROVE /\ req[s].op \in {"uphold", "dismiss", "count", "apply"} =>
                            holder'[req[s].report] = s /\ report[req[s].report] = "new"
                       /\ req[s].op \in {"count", "apply"} => userHolder = s
                       /\ req[s].op = "apply" => req[s].level = LevelAfter(Len(actions))
      BY <2>1, <2>2, <2>3, <2>4 DEF LockInv
    <3>1. req[s].op \in {"uphold", "dismiss", "count", "apply"} => req[s].report \in Reports
      BY <1>0, RequestFields
    <3> QED
      BY <1>0, <2>3, <3>1, SharingAssumption DEF LockInv
  <2> QED
    BY <2>5, <2>6 DEF IInv
<1>2. CASE LockUser(r)
  <2> DEFINE state == [req[r] EXCEPT !.op = "count"]
  <2>1. req[r] = [op |-> "uphold", report |-> req[r].report] /\ req[r].report \in Reports
    BY <1>0, <1>2, RequestFields DEF LockUser
  <2>2. state \in RequestState /\ state.op = "count" /\ state.report = req[r].report
    BY <2>1 DEF RequestState
  <2> HIDE DEF state
  <2>3. /\ req' \in [Requests -> RequestState]
        /\ \A s \in Requests : req'[s] = IF s = r THEN state ELSE req[s]
    BY <1>0, <1>2, <2>2 DEF LockUser, Now, TypeOK, state
  <2>4. /\ userHolder = None /\ userHolder' = r
        /\ UNCHANGED <<report, holder, actions, restricted, suspended, paying, link, downloads>>
    BY <1>2 DEF LockUser, sharing
  <2>5. TypeOK' /\ LadderStepwise' /\ CountInv'
    BY <2>3, <2>4 DEF IInv, TypeOK, LadderStepwise, CountInv
  <2>6. LockInv'
    BY <1>0, <1>2, <2>2, <2>3, <2>4, SharingAssumption DEF LockInv, LockUser
  <2> QED
    BY <2>5, <2>6 DEF IInv
<1>3. CASE CountActions(r)
  <2> DEFINE state == [op |-> "apply", report |-> req[r].report,
                       level |-> LevelAfter(Len(actions))]
  <2>1. req[r].report \in Reports /\ Len(actions) \in Nat
    BY <1>0, <1>3, RequestFields DEF CountActions, TypeOK
  <2>2. /\ state \in RequestState /\ state.op = "apply" /\ state.report = req[r].report
        /\ state.level = LevelAfter(Len(actions))
    BY <2>1, Levels DEF RequestState
  <2> HIDE DEF state
  <2>3. /\ req' \in [Requests -> RequestState]
        /\ \A s \in Requests : req'[s] = IF s = r THEN state ELSE req[s]
    BY <1>0, <1>3, <2>2 DEF CountActions, Now, TypeOK, state
  <2>4. UNCHANGED <<report, holder, userHolder, actions, restricted, suspended, paying, link,
                    downloads>>
    BY <1>3 DEF CountActions, moderation, sharing
  <2>5. TypeOK' /\ LadderStepwise' /\ CountInv'
    BY <2>3, <2>4 DEF IInv, TypeOK, LadderStepwise, CountInv
  <2>6. LockInv'
    BY <1>0, <1>3, <2>2, <2>3, <2>4 DEF LockInv, CountActions
  <2> QED
    BY <2>5, <2>6 DEF IInv
<1> QED
  BY <1>1, <1>2, <1>3

\* The report that is closed is held by its decider alone.
LEMMA SoleDecider ==
    ASSUME TypeOK, LockInv, NEW r \in Requests, NEW s \in Requests \ {r},
           req[r].op \in {"uphold", "dismiss", "count", "apply"},
           req[s].op \in {"uphold", "dismiss", "count", "apply"}
    PROVE  req[r].report \in Reports /\ req[s].report \in Reports /\ req[r].report # req[s].report
<1>1. req[r].report \in Reports /\ req[s].report \in Reports
  BY RequestFields
<1>2. holder[req[r].report] = r /\ holder[req[s].report] = s
  BY DEF LockInv
<1> QED
  BY <1>1, <1>2

\* The actions taken so far, one by one.
LEMMA ActionFields ==
    ASSUME TypeOK
    PROVE  /\ Len(actions) \in Nat /\ DOMAIN actions = 1..Len(actions)
           /\ \A i \in DOMAIN actions : actions[i].report \in Reports
<1> DEFINE Action == [level : 1..Len(Ladder), report : Reports]
<1>1. actions \in Seq(Action)
  BY DEF TypeOK
<1> HIDE DEF Action
<1>2. /\ Len(actions) \in Nat /\ DOMAIN actions = 1..Len(actions)
      /\ \A i \in DOMAIN actions : actions[i] \in Action
  BY <1>1
<1> QED
  BY <1>2 DEF Action

LEMMA SubmitOK == ASSUME IInv, NEW p \in Reports, Submit(p) PROVE IInv'
<1>1. /\ report[p] = "none" /\ report' = [report EXCEPT ![p] = "new"]
      /\ UNCHANGED <<holder, userHolder, actions, restricted, suspended, paying, link,
                     downloads, req>>
  BY DEF Submit, sharing
<1>2. TypeOK' /\ CountInv'
  BY <1>1 DEF IInv, TypeOK, CountInv
<1>3. \A i \in DOMAIN actions : actions[i].report \in Reports
  BY ActionFields DEF IInv
<1>4. LadderStepwise'
  BY <1>1, <1>3 DEF IInv, TypeOK, LadderStepwise
<1>5. LockInv'
  <2>1. \A s \in Requests :
            req[s].op \in {"uphold", "dismiss", "count", "apply"} => req[s].report \in Reports
    BY RequestFields DEF IInv
  <2> QED
    BY <1>1, <2>1 DEF IInv, TypeOK, LockInv
<1> QED
  BY <1>2, <1>4, <1>5 DEF IInv

LEMMA DismissOK == ASSUME IInv, NEW r \in Requests, Dismiss(r) PROVE IInv'
<1> DEFINE p == req[r].report
<1>0. TypeOK /\ LockInv /\ req[r].op = "dismiss" /\ End(r)
  BY DEF IInv, Dismiss
<1>1. p \in Reports /\ report[p] = "new"
  BY <1>0, RequestFields DEF LockInv
<1>2. /\ report' = [report EXCEPT ![p] = "dismissed"]
      /\ UNCHANGED <<actions, restricted, suspended, paying, link, downloads>>
  BY DEF Dismiss, sharing
<1>3. TypeOK' /\ CountInv'
  BY <1>0, <1>1, <1>2, EndLocks DEF IInv, TypeOK, CountInv
<1>4. LadderStepwise'
  BY <1>1, <1>2 DEF IInv, TypeOK, LadderStepwise
<1>5. LockInv'
  <2> SUFFICES ASSUME NEW s \in Requests, s # r
               PROVE /\ req[s].op \in {"uphold", "dismiss", "count", "apply"} =>
                          holder'[req[s].report] = s /\ report'[req[s].report] = "new"
                     /\ req[s].op \in {"count", "apply"} => userHolder' = s
                     /\ req[s].op = "apply" => req[s].level = LevelAfter(Len(actions))
    BY <1>0, <1>2, EndLocks, IdleState DEF LockInv
  <2>1. req[s].op \in {"uphold", "dismiss", "count", "apply"} =>
            req[s].report \in Reports /\ req[s].report # p
    BY <1>0, SoleDecider
  <2> QED
    BY <1>0, <1>1, <1>2, <2>1, EndLocks DEF LockInv, TypeOK
<1> QED
  BY <1>3, <1>4, <1>5 DEF IInv

\* A level is applied by whoever holds the owner's row: it is the next one, its report was
\* open until now, and no other request is about to apply one.
LEMMA UpholdOK == ASSUME IInv, NEW r \in Requests, Uphold(r) PROVE IInv'
<1> DEFINE p == req[r].report
           action == [level |-> req[r].level, report |-> p]
<1>0. TypeOK /\ LockInv /\ LadderStepwise /\ req[r].op = "apply" /\ End(r)
  BY DEF IInv, Uphold
<1>1. /\ p \in Reports /\ report[p] = "new" /\ userHolder = r
      /\ req[r].level \in 1..Len(Ladder) /\ req[r].level = LevelAfter(Len(actions))
  BY <1>0, RequestFields DEF LockInv
<1>2. /\ report' = [report EXCEPT ![p] = "upheld"]
      /\ actions' = Append(actions, action)
      /\ UNCHANGED <<paying, link, downloads>>
  BY DEF Uphold, sharing
<1>3. restricted' \in BOOLEAN /\ suspended' \in BOOLEAN
  BY <1>0, <1>1 DEF Uphold, TypeOK
<1>4. actions \in Seq([level : 1..Len(Ladder), report : Reports]) /\ Len(actions) \in Nat
  BY <1>0 DEF TypeOK
<1>5. /\ actions' \in Seq([level : 1..Len(Ladder), report : Reports])
      /\ DOMAIN actions' = 1..(Len(actions) + 1)
      /\ DOMAIN actions = 1..Len(actions)
      /\ \A i \in DOMAIN actions : actions'[i] = actions[i]
      /\ actions'[Len(actions) + 1] = action
  <2>1. action \in [level : 1..Len(Ladder), report : Reports]
    BY <1>1
  <2> HIDE DEF action
  <2> QED
    BY <1>2, <1>4, <2>1
<1>6. TypeOK' /\ CountInv'
  BY <1>0, <1>1, <1>2, <1>3, <1>5, EndLocks DEF IInv, TypeOK, CountInv
<1>7. LadderStepwise'
  <2>1. \A i \in DOMAIN actions :
            /\ actions[i].report \in Reports /\ actions[i].report # p
            /\ actions[i].level = LevelAfter(i - 1)
            /\ report[actions[i].report] = "upheld"
            /\ \A j \in DOMAIN actions : actions[i].report = actions[j].report => i = j
    BY <1>0, <1>1, ActionFields DEF LadderStepwise
  <2>2. report'[p] = "upheld" /\ \A q \in Reports \ {p} : report'[q] = report[q]
    BY <1>0, <1>1, <1>2 DEF TypeOK
  <2>3. action.level = LevelAfter(Len(actions)) /\ action.report = p
    BY <1>1
  <2>4. (Len(actions) + 1) - 1 = Len(actions)
    BY <1>4
  <2> HIDE DEF action, p
  <2>5. \A i \in DOMAIN actions' : i \in DOMAIN actions \/ i = Len(actions) + 1
    BY <1>4, <1>5
  <2>6. ASSUME NEW i \in DOMAIN actions'
        PROVE  /\ actions'[i].level = LevelAfter(i - 1)
               /\ report'[actions'[i].report] = "upheld"
    <3>1. CASE i \in DOMAIN actions
      <4>1. actions'[i] = actions[i]
        BY <1>5, <3>1
      <4>2. report'[actions[i].report] = report[actions[i].report]
        BY <2>1, <2>2, <3>1
      <4> QED
        BY <2>1, <3>1, <4>1, <4>2
    <3>2. CASE i = Len(actions) + 1
      <4>1. actions'[i] = action
        BY <1>5, <3>2
      <4> QED
        BY <2>2, <2>3, <2>4, <3>2, <4>1
    <3> QED
      BY <2>5, <2>6, <3>1, <3>2
  <2>7. ASSUME NEW i \in DOMAIN actions', NEW j \in DOMAIN actions',
               actions'[i].report = actions'[j].report
        PROVE  i = j
    BY <1>5, <2>1, <2>3, <2>5, <2>7
  <2> QED
    BY <2>6, <2>7 DEF LadderStepwise
<1>8. LockInv'
  <2> SUFFICES ASSUME NEW s \in Requests, s # r
               PROVE /\ req[s].op \in {"uphold", "dismiss", "count", "apply"} =>
                          holder'[req[s].report] = s /\ report'[req[s].report] = "new"
                     /\ req[s].op \notin {"count", "apply"}
    BY <1>0, EndLocks, IdleState DEF LockInv
  <2>1. req[s].op \in {"uphold", "dismiss", "count", "apply"} =>
            req[s].report \in Reports /\ req[s].report # p
    BY <1>0, SoleDecider
  <2> QED
    BY <1>0, <1>1, <1>2, <2>1, EndLocks DEF LockInv, TypeOK
<1> QED
  BY <1>6, <1>7, <1>8 DEF IInv

\* What an administrator writes, and what time does, concerns neither ladder nor links.
LEMMA StatusOK ==
    ASSUME IInv,
           \/ \E r \in Requests, banned \in BOOLEAN : AdminLoad(r, banned)
           \/ \E r \in Requests : AdminWrite(r) \/ Abort(r)
           \/ RestrictionEnds \/ PlanChanges
    PROVE  IInv'
<1>1. ASSUME NEW r \in Requests, NEW banned \in BOOLEAN, AdminLoad(r, banned) PROVE IInv'
  <2> DEFINE state == [op |-> "status", to |-> banned, changed |-> suspended # banned]
  <2>1. state \in RequestState /\ state.op = "status"
    <3>1. (suspended # banned) \in BOOLEAN
      OBVIOUS
    <3>2. state \in [op : {"status"}, to : BOOLEAN, changed : BOOLEAN]
      BY <3>1, Zenon
    <3> QED
      BY <3>2 DEF RequestState
  <2> HIDE DEF state
  <2>2. Begin(r, state) /\ UNCHANGED <<moderation, suspended, paying, sharing>>
    BY <1>1 DEF AdminLoad, state
  <2> QED
    BY <2>1, <2>2, StartOK
<1>2. ASSUME NEW r \in Requests, AdminWrite(r) PROVE IInv'
  <2>1. /\ End(r) /\ suspended' \in BOOLEAN
        /\ UNCHANGED <<report, actions, restricted, paying, link, downloads>>
    BY <1>2, RequestFields DEF AdminWrite, sharing, IInv, TypeOK
  <2> QED
    BY <2>1, EndOK DEF IInv, TypeOK, CountInv
<1>3. ASSUME NEW r \in Requests, Abort(r) PROVE IInv'
  BY <1>3, EndOK DEF Abort, sharing, IInv, TypeOK, CountInv
<1>4. CASE RestrictionEnds
  BY <1>4 DEF RestrictionEnds, sharing, IInv, TypeOK, LadderStepwise, LockInv, CountInv
<1>5. CASE PlanChanges
  BY <1>5 DEF PlanChanges, moderation, sharing, IInv, TypeOK, LadderStepwise, LockInv, CountInv
<1> QED
  BY <1>1, <1>2, <1>3, <1>4, <1>5

\* Loading a link, to create, revoke, renew or download it.
LEMMA LinkLoadOK ==
    ASSUME IInv, NEW r \in Requests, NEW l \in Links,
           CreateLoad(r, l) \/ RevokeLoad(r, l) \/ RenewLoad(r, l) \/ Resolve(r, l)
    PROVE  IInv'
<1>1. ASSUME NEW op \in {"create", "revoke", "download"}
      PROVE  /\ [op |-> op, link |-> l] \in RequestState
             /\ [op |-> op, link |-> l].op \notin {"uphold", "dismiss", "count", "apply"}
  BY DEF RequestState
<1>2. CASE CreateLoad(r, l)
  BY <1>1, <1>2, StartOK DEF CreateLoad
<1>3. CASE RevokeLoad(r, l)
  BY <1>1, <1>3, StartOK DEF RevokeLoad
<1>4. CASE Resolve(r, l)
  BY <1>1, <1>4, StartOK DEF Resolve
<1>5. CASE RenewLoad(r, l)
  <2> DEFINE state == [op |-> "renew", link |-> l, counted |-> link[l].count # 0]
  <2>1. state \in [op : {"renew"}, link : Links, counted : BOOLEAN]
    <3>1. (link[l].count # 0) \in BOOLEAN
      OBVIOUS
    <3> QED
      BY <3>1, Zenon
  <2>2. state \in RequestState /\ state.op = "renew"
    BY <2>1 DEF RequestState
  <2> HIDE DEF state
  <2>3. Begin(r, state) /\ UNCHANGED <<moderation, suspended, paying, sharing>>
    BY <1>5 DEF RenewLoad, state
  <2> QED
    BY <2>2, <2>3, StartOK
<1> QED
  BY <1>2, <1>3, <1>4, <1>5

\* A request that ends with one link written keeps the invariant when the link still counts
\* its downloads.
LEMMA WriteOK ==
    ASSUME IInv, NEW r \in Requests, End(r),
           UNCHANGED <<report, actions, restricted, suspended, paying>>,
           NEW l \in Links, NEW row \in LinkRow, NEW n \in Nat,
           link' = [link EXCEPT ![l] = row], downloads' = [downloads EXCEPT ![l] = n],
           n <= row.count, ~row.exists => row.count = 0
    PROVE  IInv'
<1>1. link' \in [Links -> LinkRow] /\ downloads' \in [Links -> Nat]
  BY DEF IInv, TypeOK
<1>2. /\ link'[l] = row /\ downloads'[l] = n
      /\ \A k \in Links \ {l} : link'[k] = link[k] /\ downloads'[k] = downloads[k]
  BY DEF IInv, TypeOK
<1>3. CountInv'
  BY <1>2 DEF IInv, CountInv
<1> QED
  BY <1>1, <1>3, EndOK DEF IInv, TypeOK

\* Writing a link: a new one has no downloads, a renewed one counts again, and a download is
\* counted by the statement that checks the limit.
LEMMA LinkWriteOK ==
    ASSUME IInv, NEW r \in Requests,
           CreateLink(r) \/ RevokeLink(r) \/ RenewLink(r) \/ Download(r)
    PROVE  IInv'
<1> DEFINE l == req[r].link
<1>0. /\ TypeOK /\ CountInv /\ End(r) /\ l \in Links
      /\ UNCHANGED <<report, actions, restricted, suspended, paying>>
  BY RequestFields DEF IInv, CreateLink, RevokeLink, RenewLink, Download
<1>1. /\ link[l] \in LinkRow
      /\ downloads[l] \in Nat /\ downloads[l] <= link[l].count
      /\ ~link[l].exists => link[l].count = 0
  BY <1>0 DEF TypeOK, CountInv
<1>2. /\ link[l].count \in 0..MaxDownloads /\ link[l].count \in Nat /\ 0 \in 0..MaxDownloads
      /\ downloads = [downloads EXCEPT ![l] = downloads[l]]
  BY <1>0, <1>1, SharingAssumption DEF LinkRow, TypeOK
<1>3. CASE CreateLink(r)
  <2> DEFINE row == [NoLink EXCEPT !.exists = TRUE]
  <2>1. NoLink \in LinkRow /\ NoLink.count = 0
    BY <1>2 DEF NoLink, LinkRow
  <2>2. row \in LinkRow /\ row.exists /\ row.count = 0
    BY <1>2, <2>1 DEF LinkRow
  <2>3. link' = [link EXCEPT ![l] = row] /\ downloads' = [downloads EXCEPT ![l] = downloads[l]]
    BY <1>2, <1>3 DEF CreateLink
  <2>4. downloads[l] <= 0
    BY <1>1, <1>3 DEF CreateLink
  <2> HIDE DEF row, l
  <2> QED
    BY <1>0, <1>1, <2>2, <2>3, <2>4, WriteOK
<1>4. CASE RevokeLink(r)
  <2> DEFINE row == [link[l] EXCEPT !.revoked = TRUE]
  <2>1. row \in LinkRow /\ row.exists = link[l].exists /\ row.count = link[l].count
    BY <1>1 DEF LinkRow
  <2>2. link' = [link EXCEPT ![l] = row] /\ downloads' = [downloads EXCEPT ![l] = downloads[l]]
    BY <1>2, <1>4, <1>0 DEF RevokeLink, TypeOK
  <2> HIDE DEF row, l
  <2> QED
    BY <1>0, <1>1, <2>1, <2>2, WriteOK
<1>5. CASE RenewLink(r)
  <2> DEFINE count == IF req[r].counted THEN 0 ELSE link[l].count
             row == [link[l] EXCEPT !.expired = FALSE, !.count = count]
  <2>1. count \in 0..MaxDownloads /\ count \in Nat /\ (link[l].count = 0 => count = 0)
    BY <1>2, SharingAssumption
  <2>2. link' = [link EXCEPT ![l] = row] /\ downloads' = [downloads EXCEPT ![l] = 0]
    BY <1>0, <1>5 DEF RenewLink, TypeOK
  <2> HIDE DEF count
  <2>3. row \in LinkRow /\ row.exists = link[l].exists /\ row.count = count
    BY <1>1, <2>1 DEF LinkRow
  <2>4. 0 <= count
    BY <2>1
  <2> HIDE DEF row, l
  <2> QED
    BY <1>0, <1>1, <2>1, <2>2, <2>3, <2>4, WriteOK
<1>6. CASE Download(r)
  <2> DEFINE row == [link[l] EXCEPT !.count = @ + 1]
  <2>1. link[l].exists /\ link[l].count < MaxDownloads
    BY <1>6 DEF Download, ConsumeDownload, Usable
  <2>2. link[l].count + 1 \in 0..MaxDownloads
    BY <1>2, <2>1, SharingAssumption
  <2>3. row \in LinkRow /\ row.exists /\ row.count = link[l].count + 1
    BY <1>1, <2>1, <2>2 DEF LinkRow
  <2>4. /\ link' = [link EXCEPT ![l] = row]
        /\ downloads' = [downloads EXCEPT ![l] = downloads[l] + 1]
    BY <1>0, <1>6 DEF Download, ConsumeDownload, Counted, TypeOK
  <2>5. downloads[l] + 1 \in Nat /\ downloads[l] + 1 <= link[l].count + 1
    BY <1>1, <1>2
  <2> HIDE DEF row, l
  <2> QED
    BY <1>0, <2>3, <2>4, <2>5, WriteOK
<1> QED
  BY <1>3, <1>4, <1>5, <1>6

LEMMA LinkExpiresOK == ASSUME IInv, NEW l \in Links, LinkExpires(l) PROVE IInv'
<1>1. /\ link' = [link EXCEPT ![l].expired = TRUE]
      /\ UNCHANGED <<report, holder, userHolder, actions, restricted, suspended, paying,
                     downloads, req>>
  BY DEF LinkExpires, moderation
<1>2. TypeOK' /\ CountInv'
  BY <1>1 DEF IInv, TypeOK, CountInv, LinkRow
<1> QED
  BY <1>1, <1>2 DEF IInv, LadderStepwise, LockInv

LEMMA NextOK == IInv /\ [Next]_vars => IInv'
<1> SUFFICES ASSUME IInv, [Next]_vars PROVE IInv'
  OBVIOUS
<1>1. CASE UNCHANGED vars
  BY <1>1 DEF vars, IInv, TypeOK, LadderStepwise, LockInv, CountInv
<1>2. CASE Next
  BY <1>2, SubmitOK, LinkExpiresOK, DecisionOK, DismissOK, UpholdOK, StatusOK, LinkLoadOK,
     LinkWriteOK DEF Next
<1> QED
  BY <1>1, <1>2

\* Whoever decides on a report holds it while it is open, whoever applies a level holds the
\* owner since it was computed, and no download is missing from its link's count.
THEOREM SharingInvariant == Spec => []IInv
<1>1. Init => IInv
  BY InitOK
<1>2. IInv /\ [Next]_vars => IInv'
  BY NextOK
<1> QED
  BY <1>1, <1>2, PTL DEF Spec

\* However many admins uphold reports at once, the owner climbs the ladder one level per
\* upheld report.
THEOREM LadderClimbed == Spec => []LadderStepwise
<1>1. IInv => LadderStepwise
  BY DEF IInv
<1> QED
  BY <1>1, SharingInvariant, PTL

\* However many downloads come at once, a link gives out no more than its limit.
THEOREM DownloadsLimited == Spec => []DownloadsBounded
<1>1. IInv => DownloadsBounded
  <2> SUFFICES ASSUME IInv, NEW l \in Links PROVE downloads[l] <= MaxDownloads
    BY DEF DownloadsBounded
  <2>1. /\ link[l].count \in 0..MaxDownloads /\ downloads[l] \in Nat
        /\ downloads[l] <= link[l].count
    BY DEF IInv, TypeOK, LinkRow, CountInv
  <2> QED
    BY <2>1, SharingAssumption
<1> QED
  BY <1>1, SharingInvariant, PTL

-----------------------------------------------------------------------------
(* Sharing implements SharingPromise.                                       *)

\* A link that was made is never deleted.
LEMMA LinkStays ==
    ASSUME IInv, [Next]_vars, NEW l \in Links, link[l].exists
    PROVE  link'[l].exists
<1>1. CASE link' = link
  BY <1>1
<1>2. CASE \E k \in Links : LinkExpires(k)
  BY <1>2 DEF LinkExpires, IInv, TypeOK, LinkRow
<1>3. ASSUME NEW r \in Requests, CreateLink(r) PROVE link'[l].exists
  BY <1>3 DEF CreateLink, IInv, TypeOK
<1>4. ASSUME NEW r \in Requests, RevokeLink(r) PROVE link'[l].exists
  BY <1>4 DEF RevokeLink, IInv, TypeOK, LinkRow
<1>5. ASSUME NEW r \in Requests, RenewLink(r) PROVE link'[l].exists
  BY <1>5 DEF RenewLink, IInv, TypeOK, LinkRow
<1>6. ASSUME NEW r \in Requests, Download(r) PROVE link'[l].exists
  BY <1>6 DEF Download, ConsumeDownload, Counted, IInv, TypeOK, LinkRow
<1> QED
  BY <1>1, <1>2, <1>3, <1>4, <1>5, <1>6
     DEF Next, vars, Submit, LockReport, Dismiss, LockUser, CountActions, Uphold, AdminLoad,
         AdminWrite, CreateLoad, RevokeLoad, RenewLoad, Resolve, Abort, RestrictionEnds,
         PlanChanges, sharing

\* A request that comes to revoke or renew a link has just found it.
LEMMA LoadStep ==
    ASSUME IInv, [Next]_vars, NEW r \in Requests, req'[r].op \in {"revoke", "renew"}
    PROVE  /\ req'[r].link \in Links
           /\ req'[r] = req[r] \/ link[req'[r].link].exists
<1>1. DOMAIN req = Requests /\ Idle.op = "idle"
  BY DEF IInv, TypeOK, Idle
<1>2. CASE req'[r] = req[r]
  BY <1>2, RequestFields DEF IInv
<1>3. ASSUME NEW s \in Requests, NEW l \in Links,
             CreateLoad(s, l) \/ RevokeLoad(s, l) \/ RenewLoad(s, l) \/ Resolve(s, l)
      PROVE  req'[r] = req[r] \/ (req'[r].link = l /\ link[l].exists)
  BY <1>1, <1>3 DEF CreateLoad, RevokeLoad, RenewLoad, Resolve, Begin
<1>4. ASSUME NEW s \in Requests,
             \/ \E p \in Reports, decision \in {"uphold", "dismiss"} : LockReport(s, p, decision)
             \/ LockUser(s) \/ CountActions(s) \/ \E banned \in BOOLEAN : AdminLoad(s, banned)
      PROVE  req'[r] = req[r]
  BY <1>1, <1>4 DEF LockReport, LockUser, CountActions, AdminLoad, Begin, Now, IInv, TypeOK,
                    RequestState, Idle
<1>5. ASSUME NEW s \in Requests, End(s) PROVE req'[r] = req[r]
  BY <1>1, <1>5 DEF End
<1>6. \/ \E s \in Requests : End(s)
      \/ req' = req
      \/ \E s \in Requests, l \in Links :
            CreateLoad(s, l) \/ RevokeLoad(s, l) \/ RenewLoad(s, l) \/ Resolve(s, l)
      \/ \E s \in Requests :
            \/ \E p \in Reports, decision \in {"uphold", "dismiss"} : LockReport(s, p, decision)
            \/ LockUser(s) \/ CountActions(s) \/ \E banned \in BOOLEAN : AdminLoad(s, banned)
  BY DEF Next, vars, Submit, Dismiss, Uphold, AdminWrite, CreateLink, RevokeLink, RenewLink,
         Download, Abort, LinkExpires, RestrictionEnds, PlanChanges
<1> QED
  BY <1>2, <1>3, <1>4, <1>5, <1>6

LEMMA LoadedOK == IInv /\ LoadedInv /\ [Next]_vars => LoadedInv'
<1> SUFFICES ASSUME IInv, LoadedInv, [Next]_vars, NEW r \in Requests,
                    req'[r].op \in {"revoke", "renew"}
             PROVE  link'[req'[r].link].exists
  BY DEF LoadedInv
<1>1. link[req'[r].link].exists /\ req'[r].link \in Links
  BY LoadStep DEF LoadedInv
<1> QED
  BY <1>1, LinkStays

\* What a write to a link's row is to somebody who sees only its state.
LEMMA LinkStep ==
    ASSUME TypeOK, NEW l \in Links, NEW row \in LinkRow, link' = [link EXCEPT ![l] = row]
    PROVE  LinkState' = [LinkState EXCEPT ![l] =
                            IF ~row.exists THEN "absent" ELSE IF row.revoked THEN "revoked"
                            ELSE IF row.expired THEN "expired" ELSE "open"]
<1>1. \A k \in Links : link'[k] = IF k = l THEN row ELSE link[k]
  BY DEF TypeOK
<1> QED
  BY <1>1 DEF LinkState

LEMMA PromiseInitial == Init => Promise!Init
  BY DEF Init, Promise!Init, LinkState, NoLink

\* A step that leaves reports, actions, sanctions and links alone is not seen.
LEMMA NotSeen ==
    ASSUME UNCHANGED <<report, actions, restricted, suspended, link, downloads>>
    PROVE  [Promise!Next]_(Promise!vars)
  BY DEF Promise!vars, LinkState

\* A report is decided, and the level given, when the decision commits.
LEMMA DecisionSeen ==
    ASSUME IInv, NEW r \in Requests, Dismiss(r) \/ Uphold(r)
    PROVE  [Promise!Next]_(Promise!vars)
<1> DEFINE p == req[r].report
<1>1. /\ p \in Reports /\ report[p] = "new" /\ LinkState' = LinkState
      /\ downloads' = downloads
  BY RequestFields DEF IInv, LockInv, Dismiss, Uphold, sharing, LinkState
<1>2. CASE Dismiss(r)
  <2>1. Promise!Dismiss(p)
    BY <1>1, <1>2 DEF Dismiss, Promise!Dismiss, Promise!sharing
  <2> QED
    BY <1>1, <2>1 DEF Promise!Next
<1>3. CASE Uphold(r)
  <2>1. /\ req[r].level \in 1..Len(Ladder)
        /\ req[r].level = IF Len(actions) < Len(Ladder) THEN Len(actions) + 1 ELSE Len(Ladder)
    BY <1>3, RequestFields DEF IInv, LockInv, Uphold, LevelAfter
  <2>2. Promise!Uphold(p, req[r].level)
    BY <1>1, <1>3, <2>1 DEF Uphold, Promise!Uphold, Promise!sharing
  <2> QED
    BY <1>1, <2>1, <2>2 DEF Promise!Next
<1> QED
  BY <1>2, <1>3

LEMMA AroundSeen ==
    ASSUME IInv,
           \/ \E p \in Reports : Submit(p)
           \/ \E r \in Requests : AdminWrite(r)
           \/ RestrictionEnds
    PROVE  [Promise!Next]_(Promise!vars)
<1>1. LinkState' = LinkState /\ downloads' = downloads
  BY DEF Submit, AdminWrite, RestrictionEnds, sharing, LinkState
<1>2. ASSUME NEW p \in Reports, Submit(p) PROVE [Promise!Next]_(Promise!vars)
  <2>1. Promise!Submit(p)
    BY <1>1, <1>2 DEF Submit, Promise!Submit, Promise!sharing
  <2> QED
    BY <2>1 DEF Promise!Next
<1>3. ASSUME NEW r \in Requests, AdminWrite(r) PROVE [Promise!Next]_(Promise!vars)
  <2>1. suspended' \in BOOLEAN
    BY <1>3, RequestFields DEF AdminWrite, IInv, TypeOK
  <2>2. Promise!SetStatus(suspended')
    BY <1>1, <1>3 DEF AdminWrite, Promise!SetStatus, Promise!sharing
  <2> QED
    BY <2>1, <2>2 DEF Promise!Next
<1>4. CASE RestrictionEnds
  <2>1. Promise!RestrictionEnds
    BY <1>1, <1>4 DEF RestrictionEnds, Promise!RestrictionEnds, Promise!sharing
  <2> QED
    BY <2>1 DEF Promise!Next
<1> QED
  BY <1>2, <1>3, <1>4

\* A link expires; one that was revoked already is not seen to.
LEMMA ExpirySeen ==
    ASSUME IInv, NEW l \in Links, LinkExpires(l)
    PROVE  [Promise!Next]_(Promise!vars)
<1> DEFINE row == [link[l] EXCEPT !.expired = TRUE]
<1>1. /\ row \in LinkRow /\ row.exists /\ row.expired /\ row.revoked = link[l].revoked
      /\ link' = [link EXCEPT ![l] = row] /\ TypeOK
      /\ link[l].exists /\ ~link[l].expired
      /\ UNCHANGED <<report, actions, restricted, suspended, downloads>>
  BY DEF LinkExpires, moderation, IInv, TypeOK, LinkRow
<1> HIDE DEF row
<1>2. LinkState' = [LinkState EXCEPT ![l] = IF link[l].revoked THEN "revoked" ELSE "expired"]
  BY <1>1, LinkStep
<1>3. LinkState[l] = IF link[l].revoked THEN "revoked" ELSE "open"
  BY <1>1 DEF LinkState
<1>4. CASE link[l].revoked
  <2>1. LinkState' = LinkState
    BY <1>2, <1>3, <1>4 DEF LinkState
  <2> QED
    BY <1>1, <2>1 DEF Promise!vars
<1>5. CASE ~link[l].revoked
  <2>1. Promise!Expire(l)
    BY <1>1, <1>2, <1>3, <1>5 DEF Promise!Expire, Promise!moderation
  <2> QED
    BY <2>1 DEF Promise!Next
<1> QED
  BY <1>4, <1>5

\* A link is made, revoked, renewed and downloaded when the request commits.
LEMMA LinkSeen ==
    ASSUME IInv, LoadedInv, NEW r \in Requests,
           CreateLink(r) \/ RevokeLink(r) \/ RenewLink(r) \/ Download(r)
    PROVE  [Promise!Next]_(Promise!vars)
<1> DEFINE l == req[r].link
<1>1. /\ TypeOK /\ l \in Links /\ link[l] \in LinkRow
      /\ UNCHANGED <<report, actions, restricted, suspended>>
  BY RequestFields DEF IInv, TypeOK, CreateLink, RevokeLink, RenewLink, Download
<1>2. CASE CreateLink(r)
  <2> DEFINE row == [NoLink EXCEPT !.exists = TRUE]
  <2>0. row \in LinkRow /\ row.exists /\ ~row.revoked /\ ~row.expired
    <3>1. NoLink \in LinkRow
      BY SharingAssumption DEF NoLink, LinkRow
    <3>2. ~NoLink.revoked /\ ~NoLink.expired
      BY DEF NoLink
    <3> QED
      BY <3>1, <3>2 DEF LinkRow
  <2>1. link' = [link EXCEPT ![l] = row] /\ ~link[l].exists /\ downloads' = downloads
    BY <1>2 DEF CreateLink
  <2> HIDE DEF row, l
  <2>2. LinkState' = [LinkState EXCEPT ![l] = "open"] /\ LinkState[l] = "absent"
    <3>1. LinkState[l] = "absent"
      BY <1>1, <2>1 DEF LinkState
    <3> QED
      BY <1>1, <2>0, <2>1, <3>1, LinkStep
  <2>3. Promise!Publish(l)
    BY <1>1, <2>1, <2>2 DEF Promise!Publish, Promise!moderation
  <2> QED
    BY <1>1, <2>3 DEF Promise!Next
<1>3. CASE RevokeLink(r)
  <2> DEFINE row == [link[l] EXCEPT !.revoked = TRUE]
  <2>1. /\ row \in LinkRow /\ row.exists /\ row.revoked
        /\ link' = [link EXCEPT ![l] = row] /\ link[l].exists /\ downloads' = downloads
    BY <1>1, <1>3 DEF RevokeLink, LoadedInv, LinkRow
  <2> HIDE DEF row, l
  <2>2. LinkState' = [LinkState EXCEPT ![l] = "revoked"]
    BY <1>1, <2>1, LinkStep
  <2>3. LinkState[l] # "absent"
    BY <1>1, <2>1 DEF LinkState
  <2>4. Promise!Revoke(l)
    BY <1>1, <2>1, <2>2, <2>3 DEF Promise!Revoke, Promise!moderation
  <2> QED
    BY <1>1, <2>4 DEF Promise!Next
<1>4. CASE RenewLink(r)
  <2> DEFINE row == [link[l] EXCEPT !.expired = FALSE,
                                    !.count = IF req[r].counted THEN 0 ELSE @]
             n == IF req[r].counted THEN 0 ELSE link[l].count
  <2>1. link[l].exists /\ link' = [link EXCEPT ![l] = row]
    BY <1>1, <1>4 DEF RenewLink, LoadedInv
  <2>2. row \in LinkRow /\ row.exists /\ ~row.expired /\ row.revoked = link[l].revoked
    <3>1. n \in 0..MaxDownloads
      BY <1>1, SharingAssumption DEF LinkRow
    <3>2. row = [link[l] EXCEPT !.expired = FALSE, !.count = n]
      BY <1>1 DEF LinkRow
    <3> HIDE DEF n, row, l
    <3> QED
      BY <1>1, <2>1, <3>1, <3>2 DEF LinkRow
  <2>3. downloads' = [downloads EXCEPT ![l] = 0]
    BY <1>4 DEF RenewLink
  <2> HIDE DEF row, l, n
  <2>4. LinkState' = [LinkState EXCEPT ![l] = IF link[l].revoked THEN "revoked" ELSE "open"]
    BY <1>1, <2>1, <2>2, LinkStep
  <2>5. LinkState[l] # "absent" /\ (LinkState[l] = "revoked" <=> link[l].revoked)
    BY <1>1, <2>1 DEF LinkState
  <2>6. LinkState' = [LinkState EXCEPT ![l] = IF @ = "revoked" THEN @ ELSE "open"]
    BY <2>4, <2>5
  <2>7. Promise!Renew(l)
    BY <1>1, <2>3, <2>5, <2>6 DEF Promise!Renew, Promise!moderation
  <2> QED
    BY <1>1, <2>7 DEF Promise!Next
<1>5. CASE Download(r)
  <2> DEFINE row == [link[l] EXCEPT !.count = @ + 1]
  <2>1. /\ Usable(l) /\ link' = [link EXCEPT ![l] = row]
        /\ downloads' = [downloads EXCEPT ![l] = @ + 1]
    BY <1>5 DEF Download, ConsumeDownload, Counted
  <2>2. /\ link[l].exists /\ ~link[l].revoked /\ ~link[l].expired
        /\ link[l].count \in 0..MaxDownloads /\ link[l].count < MaxDownloads
        /\ downloads[l] \in Nat /\ downloads[l] <= link[l].count
    BY <1>1, <2>1 DEF Usable, LinkRow, IInv, TypeOK, CountInv
  <2>3. row \in LinkRow /\ row.exists /\ ~row.revoked /\ ~row.expired
    BY <1>1, <2>2, SharingAssumption DEF LinkRow
  <2> HIDE DEF row, l
  <2>4. LinkState[l] = "open" /\ downloads[l] < MaxDownloads
    BY <1>1, <2>2, SharingAssumption DEF LinkState
  <2>5. LinkState' = LinkState
    <3>1. LinkState' = [LinkState EXCEPT ![l] = "open"]
      BY <1>1, <2>1, <2>3, LinkStep
    <3> QED
      BY <2>4, <3>1 DEF LinkState
  <2>6. Promise!Download(l)
    BY <1>1, <2>1, <2>4, <2>5 DEF Promise!Download, Promise!moderation
  <2> QED
    BY <1>1, <2>6 DEF Promise!Next
<1> QED
  BY <1>2, <1>3, <1>4, <1>5

LEMMA PromiseSteps == IInv /\ LoadedInv /\ [Next]_vars => [Promise!Next]_(Promise!vars)
<1> SUFFICES ASSUME IInv, LoadedInv, [Next]_vars PROVE [Promise!Next]_(Promise!vars)
  OBVIOUS
<1> DEFINE Seen == [Promise!Next]_(Promise!vars)
<1>1. UNCHANGED <<report, actions, restricted, suspended, link, downloads>> => Seen
  BY NotSeen
<1> HIDE DEF Seen
<1>2. \/ \E r \in Requests : Dismiss(r) \/ Uphold(r)
      \/ \E p \in Reports : Submit(p)
      \/ \E r \in Requests : AdminWrite(r)
      \/ RestrictionEnds
      \/ \E l \in Links : LinkExpires(l)
      \/ \E r \in Requests : CreateLink(r) \/ RevokeLink(r) \/ RenewLink(r) \/ Download(r)
      \/ UNCHANGED <<report, actions, restricted, suspended, link, downloads>>
  BY DEF Next, vars, LockReport, LockUser, CountActions, AdminLoad, CreateLoad, RevokeLoad,
         RenewLoad, Resolve, Abort, PlanChanges, moderation, sharing
<1> QED
  BY <1>1, <1>2, DecisionSeen, AroundSeen, ExpirySeen, LinkSeen DEF Seen

\* Whatever the requests have loaded and however their locks and writes interleave, somebody
\* who looks at reports, sanctions and links sees each decision, each change of a link and
\* each download happen at once, on what was true at that moment.
THEOREM ImplementsPromise == Spec => SharingPromiseSpec
<1>1. Init => LoadedInv
  BY DEF Init, LoadedInv, Idle
<1> QED
  BY <1>1, LoadedOK, SharingInvariant, PromiseInitial, PromiseSteps, PTL
     DEF Spec, SharingPromiseSpec, Promise!Spec
=============================================================================
