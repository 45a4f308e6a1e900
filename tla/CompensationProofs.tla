------------------------- MODULE CompensationProofs --------------------------
(***************************************************************************)
(* Theorems about Compensation, for every set of versions and amounts and  *)
(* any length of time: types and dated rows for any number of requests in  *)
(* flight, what a month pays for requests served in turn.                  *)
(***************************************************************************)
EXTENDS PeriodPay, SumTheorems

USE TimelineAssumption DEF Days, Live

-----------------------------------------------------------------------------
(***************************************************************************)
(* What a request in flight may rely on, whatever commits meanwhile: rows  *)
(* that were there keep their first day.                                   *)
(***************************************************************************)
Dated(r) ==
    r.op = "create" =>
        /\ r.prev # Nobody => state[r.prev] # "unused" /\ from[r.prev] < r.from
        /\ r.to # Open => r.from <= r.to

Sound ==
    /\ \A t \in Requests : Dated(req[t])
    /\ \A v \in Live : to[v] # Open => from[v] <= to[v]

CreateRequests ==
    [op : {"create"}, from : Days, to : Days \cup {Open},
     amount : Amounts, prev : Versions \cup {Nobody}, prevTo : Days \cup {Open}]
ReplaceRequests ==
    [op : {"replace"}, version : Versions, edits : 0..MaxEdits, amount : Amounts]
DeleteRequests ==
    [op : {"delete"}, version : Versions, prev : Versions \cup {Nobody},
     prevTo : Days \cup {Open}]

LEMMA RequestForms ==
    ASSUME NEW r \in Request
    PROVE  /\ r.op = "create" => r \in CreateRequests
           /\ r.op = "replace" => r \in ReplaceRequests
           /\ r.op = "delete" => r \in DeleteRequests
BY DEF Request, Idle, CreateRequests, ReplaceRequests, DeleteRequests

LEMMA EndForType ==
    ASSUME TypeOK, NEW d \in Days, NEW end \in EndFor(d)
    PROVE  end \in Days \cup {Open} /\ (end # Open => d <= end)
BY DEF TypeOK, EndFor, After

\* A create request, as it is when it starts.
LEMMA CreateStarts ==
    ASSUME TypeOK, NEW t \in Requests, NEW d \in Days, NEW a \in Amounts,
           StartCreate(t, d, a)
    PROVE  /\ StartsOn(d) = {}
           /\ \E r \in CreateRequests :
                 /\ r.from = d /\ r.to \in EndFor(d)
                 /\ Latest(r.prev, Before(d)) /\ r.prevTo = EndOf(r.prev)
                 /\ Dated(r) /\ req' = [req EXCEPT ![t] = r]
<1>1. PICK prev \in Versions \cup {Nobody}, end \in EndFor(d) :
         /\ Latest(prev, Before(d))
         /\ req' = [req EXCEPT ![t] =
                [op |-> "create", from |-> d, to |-> end,
                 amount |-> a, prev |-> prev, prevTo |-> EndOf(prev)]]
  BY DEF StartCreate, Start
<1>2. end \in Days \cup {Open} /\ (end # Open => d <= end)
  BY EndForType
<1>3. EndOf(prev) \in Days \cup {Open}
  BY DEF EndOf, TypeOK
<1>4. prev # Nobody => state[prev] # "unused" /\ from[prev] < d
  BY <1>1 DEF Latest, Before
<1>5. StartsOn(d) = {} BY DEF StartCreate
<1> DEFINE r == [op |-> "create", from |-> d, to |-> end,
                 amount |-> a, prev |-> prev, prevTo |-> EndOf(prev)]
<1>6. r \in CreateRequests BY <1>2, <1>3 DEF CreateRequests
<1>7. Dated(r) BY <1>2, <1>4 DEF Dated
<1>8. /\ r.from = d /\ r.to = end /\ r.prev = prev /\ r.prevTo = EndOf(prev)
      /\ req' = [req EXCEPT ![t] = r]
  BY <1>1
<1> HIDE DEF r
<1> QED BY <1>1, <1>5, <1>6, <1>7, <1>8

\* set_salary starts as a create on some day or as a replacement.
LEMMA SetSalaryStarts ==
    ASSUME TypeOK, NEW t \in Requests, NEW a \in Amounts, BeginSetSalary(t, a)
    PROVE  \/ \E d \in Days : StartCreate(t, d, a)
           \/ \E r \in ReplaceRequests : r.version \in Live /\ req' = [req EXCEPT ![t] = r]
<1>1. PICK d \in Days :
         \/ StartCreate(t, d, a)
         \/ \E v \in StartsOn(d) :
               Start(t, [op |-> "replace", version |-> v, edits |-> edits[v], amount |-> a])
  BY DEF BeginSetSalary
<1>2. CASE StartCreate(t, d, a) BY <1>2
<1>3. CASE \E v \in StartsOn(d) :
               Start(t, [op |-> "replace", version |-> v, edits |-> edits[v], amount |-> a])
  <2>1. PICK v \in Live :
           Start(t, [op |-> "replace", version |-> v, edits |-> edits[v], amount |-> a])
    BY <1>3 DEF StartsOn
  <2>2. edits[v] \in 0..MaxEdits BY DEF TypeOK
  <2> QED BY <2>1, <2>2 DEF Start, ReplaceRequests
<1> QED BY <1>1, <1>2, <1>3

-----------------------------------------------------------------------------
(***************************************************************************)
(* Types, and the soundness of requests, for any number of them.           *)
(***************************************************************************)
LEMMA SoundInit == Init => TypeOK /\ Sound
BY DEF Init, TypeOK, Sound, Request, Idle, Dated

\* A step that only starts or drops requests, on the same timeline.
LEMMA SoundRequest ==
    ASSUME TypeOK, Sound, UNCHANGED timeline, NEW t \in Requests, NEW r \in Request,
           Dated(r), req' = [req EXCEPT ![t] = r]
    PROVE  req' \in [Requests -> Request] /\ Sound'
BY DEF TypeOK, Sound, Dated, timeline

LEMMA SoundNext == TypeOK /\ Sound /\ [Next]_vars => TypeOK' /\ Sound'
<1> SUFFICES ASSUME TypeOK, Sound, [Next]_vars PROVE TypeOK' /\ Sound'
  OBVIOUS
<1> USE DEF TypeOK
<1>0. Idle \in Request /\ Dated(Idle)
  BY DEF Request, Idle, Dated
<1>1. ASSUME NEW t \in Requests, NEW d \in Days, NEW a \in Amounts, BeginCreate(t, d, a)
      PROVE  TypeOK' /\ Sound'
  <2>1. \E r \in CreateRequests : req' = [req EXCEPT ![t] = r] /\ Dated(r)
    BY <1>1, CreateStarts DEF BeginCreate
  <2>2. CreateRequests \subseteq Request BY DEF Request, CreateRequests
  <2> QED BY <1>1, <2>1, <2>2, SoundRequest DEF BeginCreate, timeline
<1>2. ASSUME NEW t \in Requests, CommitCreate(t) PROVE TypeOK' /\ Sound'
  <2> DEFINE r == req[t]
  <2>1. r \in CreateRequests BY <1>2, RequestForms DEF CommitCreate
  <2>2. Dated(r) /\ r.op = "create" BY <1>2 DEF Sound, CommitCreate
  <2>3. PICK v \in Versions :
           /\ state[v] = "unused"
           /\ state' = [state EXCEPT ![v] = "live"]
           /\ from' = [from EXCEPT ![v] = r.from]
           /\ to' = [Closed(r) EXCEPT ![v] = r.to]
           /\ amount' = [amount EXCEPT ![v] = r.amount]
    BY <1>2 DEF CommitCreate
  <2>4. r.from \in Days /\ r.to \in Days \cup {Open} /\ r.amount \in Amounts
        /\ r.prev \in Versions \cup {Nobody}
    BY <2>1 DEF CreateRequests
  <2> HIDE DEF r
  <2>5. r.prev # Nobody => from[r.prev] \in Days /\ r.from - 1 \in Days /\ from[r.prev] <= r.from - 1
    BY <2>2, <2>4 DEF Dated
  <2>6. /\ Closed(r) \in [Versions -> Days \cup {Open}]
        /\ \A w \in Versions : \/ Closed(r)[w] = to[w]
                               \/ w = r.prev /\ Closed(r)[w] = r.from - 1
    BY <2>4, <2>5 DEF Closed
  <2>7. req' = [req EXCEPT ![t] = Idle] /\ UNCHANGED <<edits, joined, today>>
    BY <1>2 DEF CommitCreate, Finish
  <2>8. TypeOK' BY <1>0, <2>3, <2>4, <2>6, <2>7
  <2>9. ASSUME NEW u \in Requests PROVE Dated(req[u])'
    <3>1. CASE u = t BY <1>0, <2>7, <3>1 DEF Dated, Idle
    <3>2. CASE u # t
      <4>1. req'[u] = req[u] /\ Dated(req[u]) BY <2>7, <3>2 DEF Sound
      <4>2. req[u].op = "create" => req[u].prev \in Versions \cup {Nobody}
        BY RequestForms DEF CreateRequests
      <4> QED BY <2>3, <4>1, <4>2 DEF Dated
    <3> QED BY <3>1, <3>2
  <2>10. ASSUME NEW w \in Versions, state'[w] = "live", to'[w] # Open
         PROVE  from'[w] <= to'[w]
    <3>1. CASE w = v BY <2>2, <2>3, <2>4, <2>6, <2>10, <3>1 DEF Dated
    <3>2. CASE w # v BY <2>3, <2>4, <2>5, <2>6, <2>10, <3>2 DEF Sound
    <3> QED BY <3>1, <3>2
  <2> QED BY <2>8, <2>9, <2>10 DEF Sound
<1>3. ASSUME NEW t \in Requests, NEW a \in Amounts, BeginSetSalary(t, a)
      PROVE  TypeOK' /\ Sound'
  <2>1. CASE \E d \in Days : StartCreate(t, d, a)
    <3>1. \E r \in CreateRequests : req' = [req EXCEPT ![t] = r] /\ Dated(r)
      BY <2>1, CreateStarts
    <3>2. CreateRequests \subseteq Request BY DEF Request, CreateRequests
    <3> QED BY <1>3, <3>1, <3>2, SoundRequest DEF BeginSetSalary, timeline
  <2>2. CASE \E r \in ReplaceRequests : req' = [req EXCEPT ![t] = r]
    <3>1. ReplaceRequests \subseteq Request /\ \A r \in ReplaceRequests : Dated(r)
      BY DEF Request, ReplaceRequests, Dated
    <3> QED BY <1>3, <2>2, <3>1, SoundRequest DEF BeginSetSalary, timeline
  <2> QED BY <1>3, <2>1, <2>2, SetSalaryStarts
<1>4. ASSUME NEW t \in Requests, CommitReplace(t) PROVE TypeOK' /\ Sound'
  <2>1. req[t] \in ReplaceRequests BY <1>4, RequestForms DEF CommitReplace
  <2>2. /\ amount' = [amount EXCEPT ![req[t].version] = req[t].amount]
        /\ edits' = [edits EXCEPT ![req[t].version] = @ + 1]
        /\ edits[req[t].version] < MaxEdits
        /\ req' = [req EXCEPT ![t] = Idle]
        /\ UNCHANGED <<state, from, to, joined, today>>
    BY <1>4 DEF CommitReplace, Finish
  <2>3. TypeOK' BY <1>0, <2>1, <2>2 DEF ReplaceRequests
  <2> QED BY <1>0, <2>2, <2>3 DEF Sound, Dated
<1>5. ASSUME NEW t \in Requests, NEW v \in Versions, BeginDelete(t, v)
      PROVE  TypeOK' /\ Sound'
  <2>1. PICK prev \in Versions \cup {Nobody} :
           req' = [req EXCEPT ![t] = [op |-> "delete", version |-> v, prev |-> prev,
                                      prevTo |-> EndOf(prev)]]
    BY <1>5 DEF BeginDelete, Start
  <2>2. EndOf(prev) \in Days \cup {Open} BY DEF EndOf
  <2>3. LET r == [op |-> "delete", version |-> v, prev |-> prev, prevTo |-> EndOf(prev)]
        IN  r \in Request /\ Dated(r)
    BY <2>2 DEF Request, Dated
  <2> QED BY <1>5, <2>1, <2>3, SoundRequest DEF BeginDelete, timeline
<1>6. ASSUME NEW t \in Requests, CommitDelete(t) PROVE TypeOK' /\ Sound'
  <2>1. req[t] \in DeleteRequests BY <1>6, RequestForms DEF CommitDelete
  <2>2. /\ state' = [state EXCEPT ![req[t].version] = "deleted"]
        /\ to' = Reopened(req[t])
        /\ req' = [req EXCEPT ![t] = Idle]
        /\ UNCHANGED <<from, amount, edits, joined, today>>
    BY <1>6 DEF CommitDelete, Finish
  <2>3. /\ to' \in [Versions -> Days \cup {Open}]
        /\ \A w \in Versions : to'[w] = to[w] \/ to'[w] = Open
    BY <2>1, <2>2 DEF Reopened, DeleteRequests
  <2>4. TypeOK' BY <1>0, <2>1, <2>2, <2>3 DEF DeleteRequests
  <2>5. \A u \in Requests : Dated(req[u])'
    <3> SUFFICES ASSUME NEW u \in Requests PROVE Dated(req[u])' OBVIOUS
    <3>1. CASE u = t BY <1>0, <2>2, <3>1 DEF Dated, Idle
    <3>2. CASE u # t
      <4>1. req'[u] = req[u] /\ Dated(req[u]) BY <2>2, <3>2 DEF Sound
      <4> QED BY <2>1, <2>2, <4>1 DEF Dated, DeleteRequests
    <3> QED BY <3>1, <3>2
  <2> QED BY <2>1, <2>2, <2>3, <2>4, <2>5 DEF Sound
<1>7. ASSUME NEW t \in Requests, Rollback(t) PROVE TypeOK' /\ Sound'
  BY <1>0, <1>7, SoundRequest DEF Rollback, Finish, timeline
<1>8. CASE Tomorrow
  BY <1>8 DEF Tomorrow, timeline, Sound, Dated
<1>9. CASE UNCHANGED vars
  BY <1>9 DEF vars, timeline, Sound, Dated
<1> QED BY <1>1, <1>2, <1>3, <1>4, <1>5, <1>6, <1>7, <1>8, <1>9 DEF Next, Handler

\* Every reachable state is well typed: create_version never dates a version
\* or the end of one outside the calendar, whatever is in flight.
THEOREM TypeCorrect == Spec => []TypeOK
<1>1. Spec => [](TypeOK /\ Sound) BY SoundInit, SoundNext, PTL DEF Spec
<1> QED BY <1>1, PTL

-----------------------------------------------------------------------------
(***************************************************************************)
(* Without a deletion, an end is always followed by a start.               *)
(***************************************************************************)
NoneDeleted == \A v \in Versions : state[v] # "deleted"
Followed(d) == \E w \in Live : from[w] = d + 1

Chained ==
    NoneDeleted =>
        /\ \A v \in Live : to[v] # Open => Followed(to[v])
        /\ \A t \in Requests :
              req[t].op = "create" /\ req[t].to # Open => Followed(req[t].to)

\* Live versions stay live, and stay where they start.
LEMMA FollowedStays ==
    ASSUME TypeOK, NEW d \in Days, Followed(d),
           \A w \in Live : state'[w] = "live" /\ from'[w] = from[w]
    PROVE  Followed(d)'
BY DEF Followed

LEMMA EndForFollowed ==
    ASSUME TypeOK, NEW d \in Days, NEW end \in EndFor(d), end # Open
    PROVE  Followed(end)
<1>1. PICK w \in After(d) : end = from[w] - 1 BY DEF EndFor
<1>2. w \in Live /\ from[w] \in Days BY DEF After, TypeOK
<1> QED BY <1>1, <1>2 DEF Followed

\* A step that leaves the timeline alone and starts a sound request, or none.
LEMMA ChainedRequest ==
    ASSUME TypeOK, Chained, UNCHANGED timeline, NEW t \in Requests, NEW r \in Request,
           r.op = "create" /\ r.to # Open => Followed(r.to),
           req' = [req EXCEPT ![t] = r]
    PROVE  Chained'
BY DEF TypeOK, Chained, NoneDeleted, Followed, timeline

LEMMA ChainedNext ==
    TypeOK /\ Sound /\ Chained /\ [Next]_vars => Chained'
<1> SUFFICES ASSUME TypeOK, Sound, Chained, [Next]_vars PROVE Chained'
  OBVIOUS
<1>0. Idle \in Request /\ Idle.op # "create"
  BY DEF Request, Idle
<1>a. ASSUME NEW t \in Requests, NEW d \in Days, NEW a \in Amounts,
             StartCreate(t, d, a), UNCHANGED timeline
      PROVE  Chained'
  <2>1. PICK r \in CreateRequests : r.to \in EndFor(d) /\ req' = [req EXCEPT ![t] = r]
    BY <1>a, CreateStarts
  <2>2. CreateRequests \subseteq Request BY DEF Request, CreateRequests
  <2>3. r.to # Open => Followed(r.to) BY <2>1, EndForFollowed
  <2> QED BY <1>a, <2>1, <2>2, <2>3, ChainedRequest
<1>1. ASSUME NEW t \in Requests, NEW d \in Days, NEW a \in Amounts, BeginCreate(t, d, a)
      PROVE  Chained'
  BY <1>a, <1>1 DEF BeginCreate, timeline
<1>2. ASSUME NEW t \in Requests, CommitCreate(t), NoneDeleted' PROVE Chained'
  <2> DEFINE r == req[t]
  <2>1. r \in CreateRequests BY <1>2, RequestForms DEF CommitCreate, TypeOK
  <2>2. Dated(r) /\ r.op = "create" BY <1>2 DEF Sound, CommitCreate
  <2>3. PICK v \in Versions :
           /\ state[v] = "unused"
           /\ state' = [state EXCEPT ![v] = "live"]
           /\ from' = [from EXCEPT ![v] = r.from]
           /\ to' = [Closed(r) EXCEPT ![v] = r.to]
    BY <1>2 DEF CommitCreate
  <2>4. r.from \in Days /\ r.to \in Days \cup {Open} /\ r.prev \in Versions \cup {Nobody}
    BY <2>1 DEF CreateRequests
  <2>5. NoneDeleted BY <1>2, <2>3 DEF NoneDeleted, TypeOK
  <2>6. r.to # Open => Followed(r.to) BY <2>2, <2>5 DEF Chained
  <2> HIDE DEF r
  <2>7. \A w \in Live : state'[w] = "live" /\ from'[w] = from[w]
    BY <2>3 DEF TypeOK
  <2>8. \A w \in Versions : Closed(r)[w] = to[w] \/ Closed(r)[w] = r.from - 1
    BY <2>4 DEF Closed, TypeOK
  <2>9. ASSUME NEW w \in Versions, state'[w] = "live", to'[w] # Open
        PROVE  Followed(to[w])'
    <3>0. Closed(r) \in [Versions -> Days \cup {Open}]
      BY <2>2, <2>4 DEF Closed, TypeOK, Dated
    <3>1. CASE w = v
      <4>1. to'[w] = r.to BY <2>3, <3>0, <3>1
      <4>2. Followed(r.to) /\ r.to \in Days BY <2>4, <2>6, <2>9, <4>1
      <4>3. PICK x \in Live : from[x] = r.to + 1 BY <4>2 DEF Followed
      <4>4. state'[x] = "live" /\ from'[x] = to'[w] + 1 BY <2>7, <4>1, <4>3
      <4> QED BY <4>4 DEF Followed
    <3>2. CASE w # v /\ to'[w] = to[w]
      <4>1. Followed(to[w]) BY <2>3, <2>5, <2>9, <3>2 DEF Chained, TypeOK
      <4> QED BY <2>7, <2>9, <3>2, <4>1 DEF Followed, TypeOK
    <3>3. CASE w # v /\ to'[w] = r.from - 1
      <4>1. state'[v] = "live" /\ from'[v] = r.from BY <2>3 DEF TypeOK
      <4>2. from'[v] = to'[w] + 1 BY <2>4, <3>3, <4>1
      <4> QED BY <4>1, <4>2 DEF Followed
    <3> QED BY <2>3, <2>8, <3>0, <3>1, <3>2, <3>3
  <2>10. ASSUME NEW u \in Requests, req'[u].op = "create", req'[u].to # Open
         PROVE  Followed(req[u].to)'
    <3>1. req'[u] = req[u]
      BY <1>0, <1>2, <2>10 DEF CommitCreate, Finish, TypeOK
    <3>2. Followed(req[u].to) BY <2>5, <2>10, <3>1 DEF Chained
    <3> QED BY <2>7, <3>1, <3>2 DEF Followed, TypeOK
  <2> QED BY <2>9, <2>10 DEF Chained
<1>3. ASSUME NEW t \in Requests, NEW a \in Amounts, BeginSetSalary(t, a)
      PROVE  Chained'
  <2>1. CASE \E d \in Days : StartCreate(t, d, a)
    BY <1>a, <1>3, <2>1 DEF BeginSetSalary, timeline
  <2>2. CASE \E r \in ReplaceRequests : req' = [req EXCEPT ![t] = r]
    <3>1. ReplaceRequests \subseteq Request /\ \A r \in ReplaceRequests : r.op # "create"
      BY DEF Request, ReplaceRequests
    <3> QED BY <1>3, <2>2, <3>1, ChainedRequest DEF BeginSetSalary, timeline
  <2> QED BY <1>3, <2>1, <2>2, SetSalaryStarts
<1>4. ASSUME NEW t \in Requests, CommitReplace(t) PROVE Chained'
  BY <1>0, <1>4 DEF CommitReplace, Finish, Chained, NoneDeleted, Followed, TypeOK
<1>5. ASSUME NEW t \in Requests, NEW v \in Versions, BeginDelete(t, v) PROVE Chained'
  <2>1. PICK prev \in Versions \cup {Nobody} :
           req' = [req EXCEPT ![t] = [op |-> "delete", version |-> v, prev |-> prev,
                                      prevTo |-> EndOf(prev)]]
    BY <1>5 DEF BeginDelete, Start
  <2>2. EndOf(prev) \in Days \cup {Open} BY DEF EndOf, TypeOK
  <2>3. LET r == [op |-> "delete", version |-> v, prev |-> prev, prevTo |-> EndOf(prev)]
        IN  r \in Request /\ r.op # "create"
    BY <2>2 DEF Request
  <2> QED BY <1>5, <2>1, <2>3, ChainedRequest DEF BeginDelete, timeline
<1>6. ASSUME NEW t \in Requests, CommitDelete(t) PROVE ~NoneDeleted'
  <2>1. req[t].version \in Versions
    BY <1>6, RequestForms DEF CommitDelete, TypeOK, DeleteRequests
  <2> QED BY <1>6, <2>1 DEF CommitDelete, NoneDeleted, TypeOK
<1>7. ASSUME NEW t \in Requests, Rollback(t) PROVE Chained'
  BY <1>0, <1>7, ChainedRequest DEF Rollback, Finish, timeline
<1>8. CASE Tomorrow
  BY <1>8 DEF Tomorrow, timeline, Chained, NoneDeleted, Followed
<1>9. CASE UNCHANGED vars
  BY <1>9 DEF vars, timeline, Chained, NoneDeleted, Followed
<1>10. ~NoneDeleted' => Chained' BY DEF Chained
<1> QED BY <1>1, <1>2, <1>3, <1>4, <1>5, <1>6, <1>7, <1>8, <1>9, <1>10 DEF Next, Handler

\* A nonempty set of days has a last one.
LEMMA LastOfDays ==
    ASSUME NEW S \in SUBSET Days, S # {}
    PROVE  \E d \in S : \A e \in S : e <= d
<1> DEFINE less == {ss \in Nat \X Nat : ss[1] < ss[2]}
           back == {LastDay - d : d \in S}
<1>1. IsWellFoundedOn(less, Nat) BY NatLessThanWellFounded DEF OpToRel
<1>2. back \subseteq Nat /\ back # {}
  <2>1. PICK d \in S : TRUE OBVIOUS
  <2>2. LastDay - d \in back BY <2>1
  <2>3. \A y \in back : y \in Nat OBVIOUS
  <2> QED BY <2>2, <2>3
<1> HIDE DEF less
<1>3. PICK x \in back : \A y \in back : <<y, x>> \notin less
  <2> HIDE DEF back
  <2> QED BY <1>1, <1>2, WFMin
<1>4. \A y \in back : x <= y
  <2> HIDE DEF back
  <2>1. SUFFICES ASSUME NEW y \in back PROVE x <= y OBVIOUS
  <2>2. x \in Nat /\ y \in Nat BY <1>2, <1>3
  <2>3. <<y, x>> \notin less BY <1>3
  <2> QED BY <2>2, <2>3 DEF less
<1>5. PICK d \in S : x = LastDay - d BY <1>3
<1>6. ASSUME NEW e \in S PROVE e <= d
  <2>1. LastDay - e \in back BY <1>6
  <2>2. LastDay - d <= LastDay - e BY <1>4, <1>5, <2>1
  <2>3. d \in Int /\ e \in Int /\ LastDay \in Int OBVIOUS
  <2> HIDE DEF back
  <2> QED BY <2>2, <2>3
<1> QED BY <1>6

\* The last version to start by a day covers it.
LEMMA ChainedNoGap == TypeOK /\ Sound /\ Chained => OnlyDeletionOpensGap
<1> SUFFICES ASSUME TypeOK, Sound, Chained, NoneDeleted,
                    NEW v \in Live, NEW d \in Days, from[v] <= d
             PROVE  \E w \in Live : Covers(w, d)
  BY DEF OnlyDeletionOpensGap, NoGap, NoneDeleted
<1> DEFINE starts == {e \in Days : e <= d /\ \E w \in Live : from[w] = e}
<1>1. starts \in SUBSET Days /\ from[v] \in starts BY DEF TypeOK
<1> HIDE DEF starts
<1>2. PICK e \in starts : \A f \in starts : f <= e BY <1>1, LastOfDays
<1>3. PICK w \in Live : from[w] = e /\ e <= d /\ e \in Days BY <1>2 DEF starts
<1>4. ASSUME to[w] # Open, to[w] < d PROVE FALSE
  <2>1. to[w] \in Days /\ from[w] <= to[w] BY <1>4 DEF TypeOK, Sound
  <2>2. PICK u \in Live : from[u] = to[w] + 1 BY <1>4 DEF Chained, Followed
  <2>3. from[u] \in starts BY <1>4, <2>1, <2>2 DEF starts, TypeOK
  <2> QED BY <1>2, <1>3, <2>1, <2>2, <2>3
<1>5. to[w] \in Days \cup {Open} BY DEF TypeOK
<1> QED BY <1>3, <1>4, <1>5 DEF Covers

\* Requests that only add and re-date versions never leave a day without pay
\* behind one that has it, however many are in flight.
THEOREM OnlyDeletionOpensGapHolds == Spec => []OnlyDeletionOpensGap
<1>1. Init => Chained BY DEF Init, Chained, Idle
<1>2. Spec => [](TypeOK /\ Sound /\ Chained)
  BY <1>1, SoundInit, SoundNext, ChainedNext, PTL DEF Spec
<1> QED BY <1>2, ChainedNoGap, PTL

-----------------------------------------------------------------------------
(***************************************************************************)
(* One request at a time: what a handler read is what it writes to.        *)
(***************************************************************************)
StartsDistinct == \A v, w \in Live : from[v] = from[w] => v = w

Fresh(r) ==
    /\ r.op = "create" =>
          /\ StartsOn(r.from) = {} /\ r.to \in EndFor(r.from)
          /\ Latest(r.prev, Before(r.from)) /\ r.prevTo = EndOf(r.prev)
    /\ r.op = "delete" =>
          /\ r.version \in Live /\ Latest(r.version, Live)
          /\ Latest(r.prev, Live \ {r.version}) /\ r.prevTo = EndOf(r.prev)
    /\ r.op = "replace" => r.version \in Live

Serial == Tiles /\ StartsDistinct /\ \A t \in Requests : Fresh(req[t])

\* A version written next to the one it follows and before the one it is
\* bounded by takes its place in the row.
LEMMA CreateTiles ==
    ASSUME TypeOK, Tiles, StartsDistinct, NEW r \in CreateRequests, Fresh(r), Dated(r),
           NEW v \in Versions, state[v] = "unused",
           state' = [state EXCEPT ![v] = "live"],
           from' = [from EXCEPT ![v] = r.from],
           to' = [Closed(r) EXCEPT ![v] = r.to]
    PROVE  Tiles' /\ StartsDistinct'
<1>1. /\ r.op = "create" /\ r.from \in Days /\ r.to \in Days \cup {Open}
      /\ r.prev \in Versions \cup {Nobody}
  BY DEF CreateRequests
<1>2. /\ \A w \in Live : from[w] # r.from /\ from[w] \in Days
      /\ state \in [Versions -> {"unused", "live", "deleted"}]
  BY <1>1 DEF Fresh, StartsOn, TypeOK
<1>3. \A w \in Versions : /\ state'[w] = "live" <=> w = v \/ w \in Live
                          /\ w \in Live => w # v /\ from'[w] = from[w]
  BY <1>2 DEF TypeOK
<1>4. from'[v] = r.from BY DEF TypeOK
<1>5. StartsDistinct' BY <1>2, <1>3, <1>4 DEF StartsDistinct
<1>6. /\ to'[v] = r.to
      /\ \A w \in Versions : w # v => to'[w] = IF w = r.prev THEN r.from - 1 ELSE to[w]
  <2>1. r.prev # Nobody => r.prevTo = to[r.prev] BY <1>1 DEF Fresh, EndOf
  <2>2. /\ Closed(r) \in [Versions -> Int \cup {Open}]
        /\ \A w \in Versions : Closed(r)[w] = IF w = r.prev THEN r.from - 1 ELSE to[w]
    BY <1>1, <2>1 DEF Closed, TypeOK
  <2> QED BY <2>2
<1>7. IF r.prev = Nobody THEN \A w \in Live : r.from < from[w]
      ELSE /\ r.prev \in Live /\ from[r.prev] < r.from
           /\ \A w \in Live : from[w] < r.from => from[w] <= from[r.prev]
  BY <1>1, <1>2 DEF Fresh, Latest, Before
<1>8. \/ r.to = Open /\ \A w \in Live : from[w] < r.from
      \/ \E x \in Live : /\ r.to = from[x] - 1 /\ r.from < from[x]
                         /\ \A u \in Live : from[u] < r.from \/ from[x] <= from[u]
  BY <1>1, <1>2 DEF Fresh, EndFor, After
<1> DEFINE Tile(w) ==
        \/ to[w] = Open /\ \A u \in Live : from[u] <= from[w]
        \/ \E x \in Live : /\ to[w] # Open /\ from[x] = to[w] + 1 /\ from[w] < from[x]
                           /\ \A u \in Live : from[u] <= from[w] \/ from[x] <= from[u]
<1>9. Tile(v)'
  <2>1. CASE r.to = Open /\ \A w \in Live : from[w] < r.from
    BY <1>1, <1>2, <1>3, <1>4, <1>6, <2>1
  <2>2. CASE \E x \in Live : /\ r.to = from[x] - 1 /\ r.from < from[x]
                             /\ \A u \in Live : from[u] < r.from \/ from[x] <= from[u]
    <3>1. PICK x \in Live : /\ r.to = from[x] - 1 /\ r.from < from[x]
                            /\ \A u \in Live : from[u] < r.from \/ from[x] <= from[u]
      BY <2>2
    <3>2. /\ to'[v] # Open /\ from'[x] = to'[v] + 1 /\ from'[v] < from'[x]
          /\ \A u \in Live' : from'[u] <= from'[v] \/ from'[x] <= from'[u]
      BY <1>1, <1>2, <1>3, <1>4, <1>6, <3>1
    <3> QED BY <1>3, <3>2
  <2> QED BY <1>8, <2>1, <2>2
<1>10. ASSUME NEW w \in Live, w = r.prev PROVE Tile(w)'
  <2>1. to'[w] = r.from - 1 BY <1>3, <1>6, <1>10
  <2>2. from'[w] < r.from /\ \A u \in Live : from[u] <= from[w] \/ r.from <= from[u]
    BY <1>1, <1>2, <1>3, <1>7, <1>10
  <2>3. /\ to'[w] # Open /\ from'[v] = to'[w] + 1 /\ from'[w] < from'[v]
        /\ \A u \in Live' : from'[u] <= from'[w] \/ from'[v] <= from'[u]
    BY <1>1, <1>2, <1>3, <1>4, <2>1, <2>2
  <2> QED BY <1>3, <2>3
<1>11. ASSUME NEW w \in Live, w # r.prev PROVE Tile(w)'
  <2>1. to'[w] = to[w] /\ from'[w] = from[w] BY <1>3, <1>6, <1>11
  <2>2. r.prev # Nobody => from[w] # from[r.prev]
    BY <1>7, <1>11 DEF StartsDistinct
  <2>3. from[w] < r.from => /\ r.prev \in Live /\ from[w] < from[r.prev]
                            /\ from[r.prev] < r.from
    BY <1>1, <1>2, <1>7, <2>2
  <2>4. CASE to[w] = Open /\ \A u \in Live : from[u] <= from[w]
    <3>1. r.from <= from[w] BY <1>1, <1>2, <2>3, <2>4
    <3> QED BY <1>3, <1>4, <2>1, <2>4, <3>1
  <2>5. CASE \E x \in Live : /\ to[w] # Open /\ from[x] = to[w] + 1 /\ from[w] < from[x]
                             /\ \A u \in Live : from[u] <= from[w] \/ from[x] <= from[u]
    <3>1. PICK x \in Live : /\ to[w] # Open /\ from[x] = to[w] + 1 /\ from[w] < from[x]
                            /\ \A u \in Live : from[u] <= from[w] \/ from[x] <= from[u]
      BY <2>5
    <3>2. r.from <= from[w] \/ from[x] <= r.from BY <1>1, <1>2, <2>3, <3>1
    <3>3. /\ to'[w] # Open /\ from'[x] = to'[w] + 1 /\ from'[w] < from'[x]
          /\ \A u \in Live' : from'[u] <= from'[w] \/ from'[x] <= from'[u]
      BY <1>3, <1>4, <2>1, <3>1, <3>2
    <3> QED BY <1>3, <3>3
  <2>6. Tile(w) BY DEF Tiles
  <2> QED BY <2>4, <2>5, <2>6
<1>12. Tiles' BY <1>3, <1>9, <1>10, <1>11 DEF Tiles
<1> QED BY <1>5, <1>12

\* Taking away the last one reopens the one before it.
LEMMA DeleteTiles ==
    ASSUME TypeOK, Tiles, StartsDistinct, NEW r \in DeleteRequests, Fresh(r),
           state' = [state EXCEPT ![r.version] = "deleted"],
           to' = Reopened(r), from' = from
    PROVE  Tiles' /\ StartsDistinct'
<1> DEFINE v == r.version
           prev == r.prev
<1>1. r.op = "delete" /\ v \in Versions /\ prev \in Versions \cup {Nobody}
  BY DEF DeleteRequests
<1>2. /\ v \in Live /\ \A w \in Live : from[w] <= from[v]
      /\ \A w \in Live : from[w] \in Days
  BY <1>1 DEF Fresh, Latest, TypeOK
<1>3. \A w \in Versions : state'[w] = "live" <=> w \in Live /\ w # v
  BY <1>1 DEF TypeOK
<1>4. \A w \in Versions : to'[w] = IF w = prev THEN Open ELSE to[w]
  BY <1>1 DEF Reopened, Fresh, EndOf, TypeOK
<1>5. IF prev = Nobody THEN Live = {v}
      ELSE prev \in Live /\ prev # v /\ \A w \in Live \ {v} : from[w] <= from[prev]
  BY <1>1, <1>2 DEF Fresh, Latest
<1> HIDE DEF v, prev
<1>6. StartsDistinct' BY <1>3 DEF StartsDistinct
<1>7. ASSUME NEW w \in Live, w # v, w # prev
      PROVE  \E x \in Live : /\ x # v /\ to'[w] # Open /\ from[x] = to'[w] + 1
                             /\ from[w] < from[x]
                             /\ \A u \in Live : from[u] <= from[w] \/ from[x] <= from[u]
  <2>1. to'[w] = to[w] BY <1>4, <1>7
  <2>2. from[w] # from[v] BY <1>2, <1>7 DEF StartsDistinct
  <2>3. prev \in Live /\ prev # v /\ from[w] < from[prev] /\ from[prev] < from[v]
    BY <1>2, <1>5, <1>7 DEF StartsDistinct
  <2>4. \/ to[w] = Open /\ \A u \in Live : from[u] <= from[w]
        \/ \E x \in Live : /\ to[w] # Open /\ from[x] = to[w] + 1 /\ from[w] < from[x]
                           /\ \A u \in Live : from[u] <= from[w] \/ from[x] <= from[u]
    BY DEF Tiles
  <2>5. ~ \A u \in Live : from[u] <= from[w] BY <1>2, <2>3
  <2>6. PICK x \in Live : /\ to[w] # Open /\ from[x] = to[w] + 1 /\ from[w] < from[x]
                          /\ \A u \in Live : from[u] <= from[w] \/ from[x] <= from[u]
    BY <2>4, <2>5
  <2>7. x # v BY <1>2, <2>3, <2>6
  <2> QED BY <2>1, <2>6, <2>7
<1>8. prev # Nobody => /\ to'[prev] = Open
                       /\ \A w \in Live : w # v => from[w] <= from[prev]
  BY <1>1, <1>4, <1>5
<1>9. Tiles'
  <2> SUFFICES ASSUME NEW w \in Live'
               PROVE  \/ to'[w] = Open /\ \A u \in Live' : from'[u] <= from'[w]
                      \/ \E x \in Live' :
                            /\ to'[w] # Open /\ from'[x] = to'[w] + 1 /\ from'[w] < from'[x]
                            /\ \A u \in Live' : from'[u] <= from'[w] \/ from'[x] <= from'[u]
    BY DEF Tiles
  <2>1. w \in Live /\ w # v /\ from' = from BY <1>3
  <2>2. CASE w = prev BY <1>1, <1>3, <1>8, <2>1, <2>2
  <2>3. CASE w # prev BY <1>3, <1>7, <2>1, <2>3
  <2> QED BY <2>2, <2>3
<1> QED BY <1>6, <1>9

\* One request in flight: nothing commits between its reading and its writing.
LEMMA SerialNext ==
    ASSUME NEW t0, Requests = {t0}, TypeOK, Sound, Serial, [Next]_vars
    PROVE  Serial'
<1>0. /\ t0 \in Requests /\ req[t0] \in Request /\ Fresh(req[t0]) /\ Dated(req[t0])
      /\ Idle.op \notin {"create", "delete", "replace"}
  BY DEF TypeOK, Serial, Sound, Idle
<1>a. ASSUME UNCHANGED timeline PROVE Tiles' /\ StartsDistinct'
  BY <1>a DEF timeline, Serial, Tiles, StartsDistinct
<1>b. ASSUME UNCHANGED timeline, NEW r, Fresh(r), req'[t0] = r PROVE Serial'
  <2>1. Fresh(req[t0])'
    BY <1>b DEF timeline, Fresh, StartsOn, EndFor, After, Before, Latest, EndOf
  <2> QED BY <1>a, <1>b, <2>1 DEF Serial
<1>c. ASSUME Tiles', StartsDistinct', req'[t0] = Idle PROVE Serial'
  BY <1>0, <1>c DEF Serial, Fresh
<1>d. ASSUME NEW d \in Days, NEW a \in Amounts,
             StartCreate(t0, d, a), UNCHANGED timeline
      PROVE  Serial'
  <2>1. PICK r \in CreateRequests : /\ r.from = d /\ r.to \in EndFor(d)
                                    /\ Latest(r.prev, Before(d)) /\ r.prevTo = EndOf(r.prev)
                                    /\ req' = [req EXCEPT ![t0] = r]
    BY <1>0, <1>d, CreateStarts
  <2>2. Fresh(r) BY <1>0, <1>d, <2>1, CreateStarts DEF Fresh, CreateRequests
  <2>3. req'[t0] = r BY <1>0, <2>1 DEF TypeOK
  <2> QED BY <1>b, <1>d, <2>2, <2>3
<1>1. ASSUME NEW d \in Days, NEW a \in Amounts, BeginCreate(t0, d, a) PROVE Serial'
  BY <1>d, <1>1 DEF BeginCreate, timeline
<1>2. ASSUME CommitCreate(t0) PROVE Serial'
  <2>1. req[t0] \in CreateRequests BY <1>0, <1>2, RequestForms DEF CommitCreate
  <2>2. Tiles' /\ StartsDistinct'
    BY <1>0, <1>2, <2>1, CreateTiles DEF CommitCreate, Serial
  <2>3. req'[t0] = Idle BY <1>0, <1>2 DEF CommitCreate, Finish, TypeOK
  <2> QED BY <1>c, <2>2, <2>3
<1>3. ASSUME NEW a \in Amounts, BeginSetSalary(t0, a) PROVE Serial'
  <2>1. CASE \E d \in Days : StartCreate(t0, d, a)
    BY <1>d, <1>3, <2>1 DEF BeginSetSalary, timeline
  <2>2. CASE \E r \in ReplaceRequests : r.version \in Live /\ req' = [req EXCEPT ![t0] = r]
    <3>1. PICK r \in ReplaceRequests : r.version \in Live /\ req'[t0] = r
      BY <1>0, <2>2 DEF TypeOK
    <3>2. Fresh(r) BY <3>1 DEF Fresh, ReplaceRequests
    <3> QED BY <1>b, <1>3, <3>1, <3>2 DEF BeginSetSalary
  <2> QED BY <1>0, <1>3, <2>1, <2>2, SetSalaryStarts
<1>4. ASSUME CommitReplace(t0) PROVE Serial'
  <2>1. UNCHANGED <<state, from, to>> /\ req'[t0] = Idle
    BY <1>0, <1>4 DEF CommitReplace, Finish, TypeOK
  <2>2. Tiles' /\ StartsDistinct' BY <2>1 DEF Serial, Tiles, StartsDistinct
  <2> QED BY <1>c, <2>1, <2>2
<1>5. ASSUME NEW v \in Versions, BeginDelete(t0, v) PROVE Serial'
  <2>1. PICK prev \in Versions \cup {Nobody} :
           /\ Latest(prev, Live \ {v})
           /\ req'[t0] = [op |-> "delete", version |-> v, prev |-> prev,
                          prevTo |-> EndOf(prev)]
    BY <1>0, <1>5 DEF BeginDelete, Start, TypeOK
  <2>2. v \in Live /\ Latest(v, Live) /\ UNCHANGED timeline BY <1>5 DEF BeginDelete
  <2>3. Fresh([op |-> "delete", version |-> v, prev |-> prev, prevTo |-> EndOf(prev)])
    BY <2>1, <2>2 DEF Fresh
  <2> QED BY <1>b, <2>1, <2>2, <2>3
<1>6. ASSUME CommitDelete(t0) PROVE Serial'
  <2>1. req[t0] \in DeleteRequests BY <1>0, <1>6, RequestForms DEF CommitDelete
  <2>2. Tiles' /\ StartsDistinct'
    BY <1>0, <1>6, <2>1, DeleteTiles DEF CommitDelete, Serial
  <2>3. req'[t0] = Idle BY <1>0, <1>6 DEF CommitDelete, Finish, TypeOK
  <2> QED BY <1>c, <2>2, <2>3
<1>7. ASSUME Rollback(t0) PROVE Serial'
  <2>1. UNCHANGED timeline /\ req'[t0] = Idle
    BY <1>0, <1>7 DEF Rollback, Finish, TypeOK
  <2> QED BY <1>a, <1>c, <2>1
<1>8. CASE Tomorrow BY <1>0, <1>b, <1>8 DEF Tomorrow
<1>9. CASE UNCHANGED vars BY <1>0, <1>b, <1>9 DEF vars
<1> QED BY <1>0, <1>1, <1>2, <1>3, <1>4, <1>5, <1>6, <1>7, <1>8, <1>9 DEF Next, Handler

LEMMA SerialInvariant ==
    ASSUME NEW t0, Requests = {t0}
    PROVE  Spec => [](TypeOK /\ Sound /\ Serial)
<1>1. Init => Serial
  BY DEF Init, Serial, Tiles, StartsDistinct, Fresh, Idle
<1>2. TypeOK /\ Sound /\ Serial /\ [Next]_vars => Serial' BY SerialNext
<1> QED BY <1>1, <1>2, SoundInit, SoundNext, PTL DEF Spec

\* "Gapless and non-overlapping by construction": true of requests served in
\* turn, for any versions, amounts and length of time.
THEOREM SerialTiles ==
    ASSUME NEW t0, Requests = {t0}
    PROVE  Spec => []Tiles
<1>1. Serial => Tiles BY DEF Serial
<1> QED BY <1>1, SerialInvariant, PTL

-----------------------------------------------------------------------------
(***************************************************************************)
(* The refinement: served in turn, every handler changes the amount of one *)
(* span of days and leaves no hole, as PaySchedule says.                   *)
(***************************************************************************)
Agreed == \A v \in Live : amount[v] \in Amounts

\* At most one version covers a day, and it is the one that pays.
LEMMA CoveredOnce ==
    ASSUME TypeOK, Tiles, StartsDistinct, NEW d \in Days,
           NEW v \in Live, Covers(v, d)
    PROVE  /\ \A w \in Live : Covers(w, d) => w = v
           /\ PayOn(d) = amount[v]
<1>1. \A w \in Live : from[w] \in Days /\ to[w] \in Days \cup {Open} BY DEF TypeOK
<1>2. ASSUME NEW x \in Live, NEW y \in Live, Covers(x, d), Covers(y, d), from[x] < from[y]
      PROVE  FALSE
  BY <1>1, <1>2 DEF Tiles, Covers
<1>3. \A w \in Live : Covers(w, d) => w = v
  <2> SUFFICES ASSUME NEW w \in Live, Covers(w, d) PROVE w = v OBVIOUS
  <2>1. from[w] = from[v] BY <1>1, <1>2
  <2> QED BY <2>1 DEF StartsDistinct
<1>4. \A u \in Live : Current(u, d) <=> u = v
  BY <1>1, <1>3 DEF Current, Latest
<1>5. (CHOOSE u \in Live : Current(u, d)) = v BY <1>4
<1> QED BY <1>3, <1>5 DEF PayOn

Tidy == TypeOK /\ Sound /\ Tiles /\ StartsDistinct /\ Agreed

CoverPays == \A d \in Days : \A v \in Live : Covers(v, d) => PayOn(d) = amount[v]

LEMMA CoveredNow == Tidy => CoverPays
BY CoveredOnce DEF Tidy, CoverPays

LEMMA CoveredNext == Tidy' => CoverPays'
BY CoveredNow, PTL

\* Where the same versions cover a day before and after, with the same amount,
\* its pay is the same.
LEMMA PayStays ==
    ASSUME Tidy, Tidy', NEW d \in Days,
           \A w \in Versions :
               (w \in Live /\ Covers(w, d)) <=> (w \in Live' /\ Covers(w, d)'),
           \A w \in Live : Covers(w, d) => amount'[w] = amount[w]
    PROVE  PayOn(d)' = PayOn(d)
<1>1. CASE \E v \in Live : Covers(v, d)
  <2>1. PICK v \in Live : Covers(v, d) BY <1>1
  <2>2. PayOn(d) = amount[v] BY <2>1, CoveredNow DEF CoverPays
  <2>3. v \in Live' /\ Covers(v, d)' BY <2>1
  <2>4. PayOn(d)' = amount'[v] BY <2>3, CoveredNext DEF CoverPays
  <2> QED BY <2>1, <2>2, <2>4
<1>2. CASE ~ \E v \in Live : Covers(v, d)
  BY <1>2 DEF PayOn
<1> QED BY <1>1, <1>2

LEMMA TilesUnbroken ==
    ASSUME TypeOK, Sound, Tiles, StartsDistinct, Agreed, NEW d \in Days, d # LastDay,
           PayOn(d) # Nothing
    PROVE  PayOn(d + 1) # Nothing
<1>0. d + 1 \in Days OBVIOUS
<1>1. PICK v \in Live : Covers(v, d) BY DEF PayOn
<1>2. /\ \A w \in Live : from[w] \in Days /\ to[w] \in Days \cup {Open}
      /\ \A w \in Live : to[w] # Open => from[w] <= to[w]
  BY DEF TypeOK, Sound
<1>3. \E w \in Live : Covers(w, d + 1)
  <2>1. CASE Covers(v, d + 1) BY <2>1
  <2>2. CASE ~Covers(v, d + 1)
    <3>1. to[v] # Open /\ to[v] = d BY <1>1, <1>2, <2>2 DEF Covers
    <3>2. PICK x \in Live : from[x] = d + 1 BY <3>1 DEF Tiles
    <3>3. Covers(x, d + 1) BY <1>2, <3>2 DEF Covers
    <3> QED BY <3>3
  <2> QED BY <2>1, <2>2
<1>4. PICK w \in Live : Covers(w, d + 1) BY <1>3
<1>5. PayOn(d + 1) = amount[w] BY <1>0, <1>4, CoveredOnce
<1> QED BY <1>5, TimelineAssumption DEF Agreed

Whole == \A d \in Days : d # LastDay /\ PayOn(d) # Nothing => PayOn(d + 1) # Nothing

LEMMA WholeNow == Tidy => Whole
BY TilesUnbroken DEF Tidy, Whole

LEMMA WholeNext == Tidy' => Whole'
BY WholeNow, PTL

\* One span of days changes, to an agreed amount.
LEMMA SpanAgrees ==
    ASSUME Tidy', NEW a \in Amounts, NEW first \in Days, NEW last \in Days,
           \A d \in Days : PayOn(d)' = IF first <= d /\ d <= last THEN a ELSE PayOn(d)
    PROVE  Schedule!Next
<1>1. [d \in Days |-> PayOn(d)]' =
         [d \in Days |-> IF first <= d /\ d <= last THEN a
                         ELSE [x \in Days |-> PayOn(x)][d]]
  OBVIOUS
<1>2. Schedule!Unbroken([d \in Days |-> PayOn(d)])'
  <2>1. Whole' BY WholeNext
  <2> QED BY <2>1 DEF Whole, Schedule!Unbroken, Schedule!Days
<1> QED BY <1>1, <1>2 DEF Schedule!Next, Schedule!Agree, Schedule!Days

LEMMA CreateSchedule ==
    ASSUME Tidy, Tidy', NEW t \in Requests, Fresh(req[t]), Dated(req[t]), CommitCreate(t)
    PROVE  Schedule!Next
<1> DEFINE r == req[t]
           last == IF r.to = Open THEN LastDay ELSE r.to
<1>1. r \in CreateRequests BY RequestForms DEF Tidy, TypeOK, CommitCreate
<1>2. /\ r.op = "create" /\ r.from \in Days /\ r.to \in Days \cup {Open} /\ r.amount \in Amounts
      /\ r.prev \in Versions \cup {Nobody} /\ Fresh(r) /\ Dated(r)
  BY <1>1 DEF CreateRequests
<1>3. PICK v \in Versions :
         /\ state[v] = "unused" /\ state' = [state EXCEPT ![v] = "live"]
         /\ from' = [from EXCEPT ![v] = r.from]
         /\ to' = [Closed(r) EXCEPT ![v] = r.to]
         /\ amount' = [amount EXCEPT ![v] = r.amount]
  BY DEF CommitCreate
<1> HIDE DEF r
<1> USE DEF Tidy
<1>4. \A w \in Live : from[w] \in Days /\ to[w] \in Days \cup {Open} /\ from[w] # r.from
  BY <1>2 DEF TypeOK, Fresh, StartsOn
<1>5. /\ v \in Live' /\ from'[v] = r.from /\ to'[v] = r.to /\ amount'[v] = r.amount
      /\ \A w \in Versions : w \in Live' <=> w = v \/ w \in Live
      /\ \A w \in Live : w # v /\ from'[w] = from[w] /\ amount'[w] = amount[w]
  <2>1. Closed(r) \in [Versions -> Int \cup {Open}] BY <1>2 DEF Closed, TypeOK
  <2> QED BY <1>3, <2>1 DEF TypeOK
<1>6. \A w \in Live : to'[w] = IF w = r.prev THEN r.from - 1 ELSE to[w]
  BY <1>2, <1>3, <1>5 DEF Closed, Fresh, EndOf, TypeOK
<1>7. ASSUME NEW d \in Days, r.from <= d, d <= last PROVE PayOn(d)' = r.amount
  <2>1. Covers(v, d)' BY <1>2, <1>5, <1>7 DEF Covers
  <2> QED BY <1>5, <2>1, CoveredNext DEF CoverPays
<1>8. ASSUME NEW d \in Days, d < r.from \/ last < d,
             NEW w \in Live
      PROVE  Covers(w, d) <=> Covers(w, d)'
  <2>1. CASE w # r.prev BY <1>5, <1>6, <2>1 DEF Covers
  <2>2. CASE w = r.prev
    <3>1. from[w] < r.from /\ \A u \in Live : from[u] < r.from => from[u] <= from[w]
      BY <1>2, <1>4, <2>2 DEF Fresh, Latest, Before
    <3>2. \/ to[w] = Open /\ \A u \in Live : from[u] <= from[w]
          \/ \E x \in Live : /\ to[w] # Open /\ from[x] = to[w] + 1 /\ from[w] < from[x]
                             /\ \A u \in Live : from[u] <= from[w] \/ from[x] <= from[u]
      BY DEF Tiles
    <3>3. to[w] # Open => r.from <= to[w]
      BY <1>2, <1>4, <3>1, <3>2
    <3>4. r.to # Open => to[w] # Open /\ to[w] <= r.to
      <4>1. SUFFICES ASSUME r.to # Open PROVE to[w] # Open /\ to[w] <= r.to OBVIOUS
      <4>2. PICK y \in Live : r.to = from[y] - 1 /\ r.from < from[y]
        BY <1>2, <4>1 DEF Fresh, EndFor, After
      <4>3. ~ \A u \in Live : from[u] <= from[w] BY <1>2, <1>4, <3>1, <4>2
      <4> QED BY <1>2, <1>4, <3>1, <3>2, <4>2, <4>3
    <3>5. from'[w] = from[w] /\ to'[w] = r.from - 1 BY <1>5, <1>6, <2>2
    <3> QED BY <1>2, <1>4, <1>8, <3>1, <3>3, <3>4, <3>5, TimelineAssumption DEF Covers
  <2> QED BY <2>1, <2>2
<1>9. ASSUME NEW d \in Days, d < r.from \/ last < d PROVE PayOn(d)' = PayOn(d)
  <2>1. ~Covers(v, d)' BY <1>2, <1>5, <1>9 DEF Covers
  <2>2. v \notin Live BY <1>3
  <2>3. \A w \in Versions : (w \in Live /\ Covers(w, d)) <=> (w \in Live' /\ Covers(w, d)')
    BY <1>5, <1>8, <1>9, <2>1, <2>2
  <2>4. \A w \in Live : Covers(w, d) => amount'[w] = amount[w] BY <1>5
  <2> QED BY <2>3, <2>4, PayStays
<1>10. last \in Days BY <1>2, TimelineAssumption
<1> HIDE DEF last
<1>11. \A d \in Days : PayOn(d)' = IF r.from <= d /\ d <= last THEN r.amount ELSE PayOn(d)
  BY <1>2, <1>7, <1>9, <1>10
<1> QED BY <1>2, <1>10, <1>11, SpanAgrees

LEMMA ReplaceSchedule ==
    ASSUME Tidy, Tidy', NEW t \in Requests, Fresh(req[t]), CommitReplace(t)
    PROVE  Schedule!Next
<1>0. PICK r, v : r = req[t] /\ v = r.version OBVIOUS
<1> DEFINE last == IF to[v] = Open THEN LastDay ELSE to[v]
<1>1. r \in ReplaceRequests BY <1>0, RequestForms DEF Tidy, TypeOK, CommitReplace
<1>2. v \in Live /\ r.amount \in Amounts
  BY <1>0, <1>1 DEF ReplaceRequests, Fresh, CommitReplace
<1>3. amount' = [amount EXCEPT ![v] = r.amount] /\ UNCHANGED <<state, from, to>>
  BY <1>0 DEF CommitReplace
<1> USE DEF Tidy
<1>4. from[v] \in Days /\ to[v] \in Days \cup {Open} /\ last \in Days
  BY <1>2, TimelineAssumption DEF TypeOK
<1>5. \A d \in Days, w \in Versions : Covers(w, d)' <=> Covers(w, d) BY <1>3 DEF Covers
<1>6. Live' = Live BY <1>3
<1>7. \A d \in Days : Covers(v, d) <=> from[v] <= d /\ d <= last
  BY <1>4, TimelineAssumption DEF Covers
<1>8. ASSUME NEW d \in Days, Covers(v, d) PROVE PayOn(d)' = r.amount
  <2>1. v \in Live' /\ Covers(v, d)' BY <1>2, <1>5, <1>6, <1>8
  <2>2. amount'[v] = r.amount BY <1>2, <1>3 DEF TypeOK
  <2> QED BY <2>1, <2>2, CoveredNext DEF CoverPays
<1>9. ASSUME NEW d \in Days, ~Covers(v, d) PROVE PayOn(d)' = PayOn(d)
  <2>1. \A w \in Versions : (w \in Live /\ Covers(w, d)) <=> (w \in Live' /\ Covers(w, d)')
    BY <1>5, <1>6
  <2>2. \A w \in Live : Covers(w, d) => amount'[w] = amount[w]
    BY <1>3, <1>9 DEF TypeOK
  <2> QED BY <2>1, <2>2, PayStays
<1> HIDE DEF last
<1>10. \A d \in Days : PayOn(d)' = IF from[v] <= d /\ d <= last THEN r.amount ELSE PayOn(d)
  BY <1>7, <1>8, <1>9
<1> QED BY <1>2, <1>4, <1>10, SpanAgrees

LEMMA DeleteSchedule ==
    ASSUME Tidy, Tidy', NEW t \in Requests, Fresh(req[t]), CommitDelete(t)
    PROVE  Schedule!Next
<1>0. PICK r, v, prev : r = req[t] /\ v = r.version /\ prev = r.prev OBVIOUS
<1>1. r \in DeleteRequests /\ r.op = "delete"
  BY <1>0, RequestForms DEF Tidy, TypeOK, CommitDelete
<1>2. /\ v \in Live /\ Latest(v, Live) /\ Latest(prev, Live \ {v})
      /\ prev \in Versions \cup {Nobody} /\ r.prevTo = EndOf(prev)
  BY <1>0, <1>1 DEF DeleteRequests, Fresh
<1>3. /\ state' = [state EXCEPT ![v] = "deleted"] /\ to' = Reopened(r)
      /\ UNCHANGED <<from, amount>>
  BY <1>0 DEF CommitDelete
<1>4. \A w \in Live : to'[w] = IF w = prev THEN Open ELSE to[w]
  BY <1>0, <1>2, <1>3 DEF Reopened, EndOf, Tidy, TypeOK
<1> USE DEF Tidy
<1>5. \A w \in Live : from[w] \in Days /\ to[w] \in Days \cup {Open} /\ from[w] <= from[v]
  BY <1>2 DEF TypeOK, Latest
<1>6. \A w \in Versions : w \in Live' <=> w \in Live /\ w # v
  BY <1>3 DEF TypeOK
<1>7. prev # Nobody => /\ prev \in Live /\ prev # v /\ from[prev] < from[v]
                       /\ to[prev] = from[v] - 1
  <2>1. SUFFICES ASSUME prev # Nobody
                 PROVE  /\ prev \in Live /\ prev # v /\ from[prev] < from[v]
                        /\ to[prev] = from[v] - 1
    OBVIOUS
  <2>2. prev \in Live /\ prev # v /\ \A w \in Live \ {v} : from[w] <= from[prev]
    BY <1>2, <2>1 DEF Latest
  <2>3. from[prev] < from[v] BY <1>2, <1>5, <2>2 DEF StartsDistinct
  <2>4. PICK x \in Live : /\ to[prev] # Open /\ from[x] = to[prev] + 1 /\ from[prev] < from[x]
                          /\ \A u \in Live : from[u] <= from[prev] \/ from[x] <= from[u]
    BY <1>2, <1>5, <2>2, <2>3 DEF Tiles
  <2>5. x = v BY <1>5, <2>2, <2>4
  <2> QED BY <1>2, <1>5, <2>2, <2>3, <2>4, <2>5
<1>8. prev = Nobody => Live = {v} BY <1>2, TimelineAssumption DEF Latest
<1>9. ASSUME NEW d \in Days, d < from[v] PROVE PayOn(d)' = PayOn(d)
  <2>1. ASSUME NEW w \in Versions
        PROVE  (w \in Live /\ Covers(w, d)) <=> (w \in Live' /\ Covers(w, d)')
    <3>1. CASE w = v BY <1>2, <1>5, <1>6, <1>9, <3>1 DEF Covers
    <3>2. CASE w = prev /\ w # v
      BY <1>2, <1>3, <1>4, <1>5, <1>6, <1>7, <1>9, <3>2, TimelineAssumption DEF Covers
    <3>3. CASE w # prev /\ w # v BY <1>3, <1>4, <1>6, <3>3 DEF Covers
    <3> QED BY <3>1, <3>2, <3>3
  <2>2. \A w \in Live : Covers(w, d) => amount'[w] = amount[w] BY <1>3
  <2> QED BY <2>1, <2>2, PayStays
<1>10. ASSUME NEW d \in Days, from[v] <= d
       PROVE  PayOn(d)' = IF from[v] = 0 THEN Nothing ELSE PayOn(from[v] - 1)
  <2>1. CASE prev = Nobody
    <3>1. Live = {v} BY <1>8, <2>1
    <3>2. \A w \in Versions : w \notin Live' BY <1>6, <3>1
    <3>3. PayOn(d)' = Nothing BY <3>2 DEF PayOn
    <3>4. from[v] # 0 => PayOn(from[v] - 1) = Nothing
      BY <1>2, <1>5, <3>1 DEF PayOn, Covers
    <3> QED BY <3>3, <3>4
  <2>2. CASE prev # Nobody
    <3>1. from[v] - 1 \in Days /\ from[v] # 0 /\ Covers(prev, from[v] - 1)
      BY <1>2, <1>5, <1>7, <2>2 DEF Covers
    <3>2. PayOn(from[v] - 1) = amount[prev]
      BY <1>7, <2>2, <3>1, CoveredNow DEF CoverPays
    <3>3. prev \in Live' /\ Covers(prev, d)'
      BY <1>2, <1>3, <1>4, <1>5, <1>6, <1>7, <1>10, <2>2 DEF Covers
    <3>4. PayOn(d)' = amount[prev] BY <1>3, <3>3, CoveredNext DEF CoverPays
    <3> QED BY <3>1, <3>2, <3>4
  <2> QED BY <2>1, <2>2
<1>11. [d \in Days |-> PayOn(d)]' =
          [d \in Days |-> IF d < from[v] THEN [x \in Days |-> PayOn(x)][d]
                          ELSE IF from[v] = 0 THEN Nothing
                          ELSE [x \in Days |-> PayOn(x)][from[v] - 1]]
  <2>1. from[v] \in Days /\ (from[v] # 0 => from[v] - 1 \in Days) BY <1>2, <1>5
  <2>2. \A d \in Days : PayOn(d)' = IF d < from[v] THEN PayOn(d)
                                    ELSE IF from[v] = 0 THEN Nothing
                                    ELSE PayOn(from[v] - 1)
    BY <1>9, <1>10, <2>1
  <2> QED BY <2>1, <2>2
<1> QED BY <1>2, <1>5, <1>11 DEF Schedule!Next, Schedule!Withdraw, Schedule!Days

LEMMA AgreedNext ==
    ASSUME TypeOK, Agreed, [Next]_vars PROVE Agreed'
<1>1. ASSUME NEW t \in Requests, CommitCreate(t) PROVE Agreed'
  <2>1. req[t].amount \in Amounts
    BY <1>1, RequestForms DEF CommitCreate, TypeOK, CreateRequests
  <2> QED BY <1>1, <2>1 DEF CommitCreate, Agreed, TypeOK
<1>2. ASSUME NEW t \in Requests, CommitReplace(t) PROVE Agreed'
  <2>1. req[t].amount \in Amounts
    BY <1>2, RequestForms DEF CommitReplace, TypeOK, ReplaceRequests
  <2> QED BY <1>2, <2>1 DEF CommitReplace, Agreed, TypeOK
<1>3. ASSUME NEW t \in Requests, CommitDelete(t) PROVE Agreed'
  <2>1. req[t].version \in Versions
    BY <1>3, RequestForms DEF CommitDelete, TypeOK, DeleteRequests
  <2> QED BY <1>3, <2>1 DEF CommitDelete, Agreed, TypeOK
<1>4. UNCHANGED <<state, amount>> => Agreed' BY DEF Agreed
<1> QED BY <1>1, <1>2, <1>3, <1>4
    DEF Next, Handler, BeginCreate, BeginSetSalary, BeginDelete, Rollback, Tomorrow,
        vars, timeline

\* Requests served in turn implement PaySchedule.
THEOREM SerialSchedule ==
    ASSUME NEW t0, Requests = {t0}
    PROVE  Spec => ImplementsPaySchedule
<1>1. Init => Agreed /\ Schedule!Init
  BY DEF Init, Agreed, Schedule!Init, Schedule!Days, PayOn
<1>2. TypeOK /\ Agreed /\ [Next]_vars => Agreed' BY AgreedNext
<1>3. TypeOK /\ Sound /\ Serial /\ Agreed => Tidy BY DEF Tidy, Serial
<1>4. ASSUME Tidy, Tidy', Sound, Serial, [Next]_vars
      PROVE  Schedule!Next \/ UNCHANGED [d \in Days |-> PayOn(d)]
  <2>1. t0 \in Requests /\ Fresh(req[t0]) /\ Dated(req[t0]) BY <1>4 DEF Serial, Sound
  <2>2. CASE CommitCreate(t0) BY <1>4, <2>1, <2>2, CreateSchedule
  <2>3. CASE CommitReplace(t0) BY <1>4, <2>1, <2>3, ReplaceSchedule
  <2>4. CASE CommitDelete(t0) BY <1>4, <2>1, <2>4, DeleteSchedule
  <2>5. UNCHANGED timeline => UNCHANGED [d \in Days |-> PayOn(d)]
    BY DEF timeline, PayOn, Current, Latest, Covers
  <2> QED BY <1>4, <2>2, <2>3, <2>4, <2>5
      DEF Next, Handler, BeginCreate, BeginSetSalary, BeginDelete, Rollback, Tomorrow, vars
<1> QED BY <1>1, <1>2, <1>3, <1>4, SerialInvariant, PTL
    DEF Spec, ImplementsPaySchedule, Schedule!Spec
-----------------------------------------------------------------------------
(***************************************************************************)
(* What a month pays.                                                      *)
(***************************************************************************)
LEMMA Quotient ==
    ASSUME NEW n \in Int, NEW d \in Nat \ {0}, NEW q \in Int, d * q <= n, n < d * q + d
    PROVE  n \div d = q
BY Divided, SMT

\* Rounding moves an amount by half a unit at most, and a whole one not at all.
LEMMA HalfUpNear ==
    ASSUME NEW n \in Int, NEW d \in Nat \ {0}
    PROVE  /\ HalfUp(n, d) \in Int
           /\ 2 * d * HalfUp(n, d) <= 2 * n + d
           /\ 2 * n <= 2 * d * HalfUp(n, d) + d
<1>1. 2 * n + d \in Int /\ 2 * d \in Nat \ {0} OBVIOUS
<1>2. /\ HalfUp(n, d) \in Int
      /\ 2 * d * HalfUp(n, d) <= 2 * n + d
      /\ 2 * n + d < 2 * d * HalfUp(n, d) + 2 * d
  BY <1>1, Divided DEF HalfUp
<1>3. 2 * d * HalfUp(n, d) \in Int BY <1>2
<1> QED BY <1>2, <1>3

LEMMA HalfUpExact ==
    ASSUME NEW a \in Int, NEW d \in Nat \ {0}
    PROVE  HalfUp(a * d, d) = a
<1>1. 2 * d \in Nat \ {0} /\ 2 * (a * d) + d \in Int OBVIOUS
<1>2. (2 * d) * a = 2 * (a * d) OBVIOUS
<1>3. a * d \in Int OBVIOUS
<1>4. (2 * d) * a <= 2 * (a * d) + d /\ 2 * (a * d) + d < (2 * d) * a + 2 * d
  BY <1>2, <1>3
<1> QED BY <1>1, <1>4, Quotient DEF HalfUp

LEMMA MonthDays ==
    ASSUME NEW m \in Months
    PROVE  /\ First(m) \in Days /\ Final(m) \in Days /\ First(m) <= Final(m)
           /\ First(m)..Final(m) \subseteq Days
<1> DEFINE n == (LastDay + 1) \div MonthLength
<1>1. LastDay + 1 \in Int /\ MonthLength \in Nat \ {0} /\ LastDay \in Nat
  BY TimelineAssumption
<1>2. n \in Int /\ MonthLength * n <= LastDay + 1 BY <1>1, Divided
<1>3. m \in Int /\ 0 <= m /\ m <= n - 1 BY <1>2 DEF Months
<1> HIDE DEF n
<1>4. MonthLength * (m + 1) <= MonthLength * n BY <1>1, <1>2, <1>3
<1>5. MonthLength * (m + 1) = m * MonthLength + MonthLength BY <1>1, <1>3
<1>6. m * MonthLength \in Nat BY <1>1, <1>3
<1>7. MonthLength * n \in Int BY <1>1, <1>2
<1>8. m * MonthLength + MonthLength <= LastDay + 1 BY <1>2, <1>4, <1>5, <1>6, <1>7
<1> QED BY <1>1, <1>6, <1>8 DEF First, Final, Days

LEMMA LeastAndGreatest ==
    ASSUME NEW a \in Int, NEW b \in Int
    PROVE  /\ Max({a, b}) = IF a <= b THEN b ELSE a
           /\ Min({a, b}) = IF a <= b THEN a ELSE b
<1>1. Max({a, b}) \in {a, b} /\ \A x \in {a, b} : x <= Max({a, b})
  <2>1. \E x \in {a, b} : \A y \in {a, b} : x >= y OBVIOUS
  <2> QED BY <2>1 DEF Max
<1>2. Min({a, b}) \in {a, b} /\ \A x \in {a, b} : Min({a, b}) <= x
  <2>1. \E x \in {a, b} : \A y \in {a, b} : x <= y OBVIOUS
  <2> QED BY <2>1 DEF Min
<1> QED BY <1>1, <1>2

\* The working days of a month on which a version is in force.
WorkingDays(m) == (First(m)..Final(m)) \ Off
Segment(v, m)  == {d \in WorkingDays(m) : Covers(v, d)}

LEMMA WorkingDaysFinite ==
    ASSUME NEW m \in Months
    PROVE  /\ IsFiniteSet(WorkingDays(m)) /\ PeriodDays(m) = Cardinality(WorkingDays(m))
           /\ PeriodDays(m) \in Nat
<1>1. IsFiniteSet(First(m)..Final(m)) BY MonthDays, FS_Interval DEF Days
<1>2. IsFiniteSet(WorkingDays(m)) BY <1>1, FS_Difference DEF WorkingDays
<1>3. PeriodDays(m) = Cardinality(WorkingDays(m)) BY DEF PeriodDays, Working, WorkingDays
<1> QED BY <1>2, <1>3, FS_CardinalityType

LEMMA SegmentIs ==
    ASSUME TypeOK, NEW m \in Months, NEW v \in Overlapping(m)
    PROVE  /\ IsFiniteSet(Segment(v, m)) /\ SegmentDays(v, m) = Cardinality(Segment(v, m))
           /\ SegmentDays(v, m) \in Nat /\ SegmentDays(v, m) <= PeriodDays(m)
<1>1. /\ First(m) \in Int /\ Final(m) \in Int /\ from[v] \in Int
      /\ to[v] # Open => to[v] \in Int
  BY MonthDays DEF TypeOK, Overlapping, Live, Days
<1> DEFINE lo == Max({from[v], First(m)})
           hi == IF to[v] = Open THEN Final(m) ELSE Min({to[v], Final(m)})
<1>2. lo = IF from[v] <= First(m) THEN First(m) ELSE from[v] BY <1>1, LeastAndGreatest
<1>3. hi = IF to[v] = Open THEN Final(m) ELSE IF to[v] <= Final(m) THEN to[v] ELSE Final(m)
  BY <1>1, LeastAndGreatest
<1>4. SegmentDays(v, m) = Cardinality((lo..hi) \ Off) BY DEF SegmentDays, Working
<1> HIDE DEF lo, hi
<1>5. ASSUME NEW d
      PROVE  d \in lo..hi <=> (d \in First(m)..Final(m) /\ Covers(v, d))
  BY <1>1, <1>2, <1>3 DEF Covers
<1>6. (lo..hi) \ Off = Segment(v, m) BY <1>5 DEF Segment, WorkingDays
<1>7. Segment(v, m) \subseteq WorkingDays(m) BY DEF Segment
<1>8. /\ IsFiniteSet(Segment(v, m)) /\ Cardinality(Segment(v, m)) \in Nat
      /\ Cardinality(Segment(v, m)) <= Cardinality(WorkingDays(m))
  BY <1>7, WorkingDaysFinite, FS_Subset, FS_CardinalityType
<1> QED BY <1>4, <1>6, <1>8, WorkingDaysFinite

LEMMA FirstOverlap ==
    ASSUME Tidy, NEW m \in Months, NEW v \in Overlapping(m)
    PROVE  /\ \E d \in First(m)..Final(m) : Covers(v, d)
           /\ amount[v] \in AmountsIn(m) /\ amount[v] \in Int
<1>1. /\ First(m) \in Int /\ Final(m) \in Int /\ First(m) <= Final(m)
      /\ First(m)..Final(m) \subseteq Days
  BY MonthDays DEF Days
<1>2. /\ v \in Live /\ from[v] \in Int /\ from[v] <= Final(m)
      /\ to[v] # Open => to[v] \in Int /\ from[v] <= to[v] /\ to[v] >= First(m)
  BY DEF Tidy, TypeOK, Sound, Overlapping, Live, Days
<1> DEFINE d == IF from[v] <= First(m) THEN First(m) ELSE from[v]
<1>3. d \in First(m)..Final(m) /\ Covers(v, d) BY <1>1, <1>2 DEF Covers
<1>4. PayOn(d) = amount[v]
  <2>1. d \in Days BY <1>1, <1>3
  <2> QED BY <1>2, <1>3, <2>1, CoveredNow DEF CoverPays
<1> HIDE DEF d
<1>5. amount[v] \in AmountsIn(m) BY <1>3, <1>4 DEF AmountsIn
<1>6. amount[v] \in Int
  <2>1. amount[v] \in Amounts BY <1>2 DEF Tidy, Agreed
  <2>2. \A a \in Amounts : a \in Int BY PeriodAssumption
  <2> QED BY <2>1, <2>2
<1> QED BY <1>3, <1>5, <1>6

\* In a full month each day has one version, among those that overlap it.
LEMMA FullMonth ==
    ASSUME Tidy, NEW m \in Months, Full(m)
    PROVE  /\ \A d \in First(m)..Final(m) : \E v \in Overlapping(m) : Covers(v, d)
           /\ \A d \in First(m)..Final(m) : \A v, w \in Overlapping(m) :
                 Covers(v, d) /\ Covers(w, d) => v = w
           /\ PreJoining(m) = 0
<1>1. /\ First(m) \in Int /\ Final(m) \in Int /\ First(m)..Final(m) \subseteq Days
  BY MonthDays DEF Days
<1>2. ASSUME NEW d \in First(m)..Final(m) PROVE \E v \in Overlapping(m) : Covers(v, d)
  <2>1. PayOn(d) # Nothing BY DEF Full
  <2>2. PICK v \in Live : Covers(v, d) BY <2>1 DEF PayOn
  <2>3. from[v] \in Int /\ (to[v] # Open => to[v] \in Int)
    BY DEF Tidy, TypeOK, Live, Days
  <2>4. v \in Overlapping(m) BY <1>1, <2>2, <2>3 DEF Covers, Overlapping
  <2> QED BY <2>2, <2>4
<1>3. ASSUME NEW d \in First(m)..Final(m), NEW v \in Overlapping(m), NEW w \in Overlapping(m),
             Covers(v, d), Covers(w, d)
      PROVE  v = w
  <2>1. d \in Days /\ v \in Live /\ w \in Live BY <1>1 DEF Overlapping
  <2>2. TypeOK /\ Tiles /\ StartsDistinct BY DEF Tidy
  <2> QED BY <1>3, <2>1, <2>2, CoveredOnce
<1>4. PreJoining(m) = 0 BY DEF Full, PreJoining
<1> QED BY <1>2, <1>3, <1>4

\* What the segments of a month come to, and how many days they have.
ShareOf(m) ==
    [v \in Overlapping(m) |-> Share(amount[v], SegmentDays(v, m), PeriodDays(m))]
DaysOf(m) == [v \in Overlapping(m) |-> SegmentDays(v, m)]

LEMMA ShareNear ==
    ASSUME Tidy, NEW m \in Months, NEW v \in Overlapping(m), PeriodDays(m) > 0
    PROVE  LET whole == PeriodDays(m)
               share == ShareOf(m)[v]
               days  == DaysOf(m)[v]
           IN  /\ share \in Int /\ days \in Int
               /\ 2 * whole * share <= 2 * amount[v] * days + whole
               /\ 2 * amount[v] * days <= 2 * whole * share + whole
<1> DEFINE whole == PeriodDays(m)
           days == SegmentDays(v, m)
           share == ShareOf(m)[v]
           a == amount[v]
<1>1. whole \in Nat \ {0} BY WorkingDaysFinite
<1>2. days \in Nat /\ days <= whole BY SegmentIs DEF Tidy
<1>3. a \in Int BY FirstOverlap
<1>4. share = Share(a, days, whole) /\ DaysOf(m)[v] = days BY DEF ShareOf, DaysOf
<1> HIDE DEF whole, days, share, a
<1>5. CASE days >= whole
  <2>1. share = a /\ days = whole BY <1>1, <1>2, <1>4, <1>5 DEF Share
  <2>2. 2 * whole * a = 2 * a * whole BY <1>1, <1>3
  <2>3. 2 * whole * a \in Int BY <1>1, <1>3
  <2> QED BY <1>1, <1>3, <1>4, <2>1, <2>2, <2>3 DEF whole, days, share, a
<1>6. CASE days < whole
  <2>1. share = HalfUp(a * days, whole) BY <1>1, <1>2, <1>4, <1>6 DEF Share
  <2>2. a * days \in Int /\ 2 * (a * days) = 2 * a * days BY <1>2, <1>3
  <2>3. /\ share \in Int
        /\ 2 * whole * share <= 2 * (a * days) + whole
        /\ 2 * (a * days) <= 2 * whole * share + whole
    BY <1>1, <2>1, <2>2, HalfUpNear
  <2> QED BY <1>2, <1>4, <2>2, <2>3 DEF whole, days, share, a
<1> QED BY <1>1, <1>2, <1>5, <1>6

LEMMA MonthSums ==
    ASSUME Tidy, NEW m \in Months, Full(m)
    PROVE  /\ IsFiniteSet(Overlapping(m)) /\ Overlapping(m) # {}
           /\ SumFunctionOnSet(DaysOf(m), Overlapping(m)) = PeriodDays(m)
<1> DEFINE S == Overlapping(m)
           segment == [v \in S |-> Segment(v, m)]
<1>1. IsFiniteSet(S) /\ S # {}
  <2>1. S \subseteq Versions BY DEF Overlapping, Live
  <2>2. First(m) \in First(m)..Final(m) BY MonthDays DEF Days
  <2> QED BY <2>1, <2>2, FullMonth, PeriodAssumption, FS_Subset
<1>2. \A v \in S : /\ segment[v] = Segment(v, m) /\ IsFiniteSet(segment[v])
                   /\ DaysOf(m)[v] = Cardinality(segment[v])
  BY SegmentIs DEF Tidy, DaysOf
<1>3. ASSUME NEW v \in S, NEW w \in S, v # w PROVE segment[v] \cap segment[w] = {}
  <2>1. \A d \in Segment(v, m) : d \notin Segment(w, m)
    BY <1>3, FullMonth DEF Segment, WorkingDays
  <2> QED BY <1>2, <2>1
<1>4. UNION {segment[v] : v \in S} = WorkingDays(m)
  <2>1. \A d \in WorkingDays(m) : \E v \in S : d \in Segment(v, m)
    BY FullMonth DEF Segment, WorkingDays
  <2>2. \A v \in S : Segment(v, m) \subseteq WorkingDays(m) BY DEF Segment
  <2> HIDE DEF segment, S
  <2> QED BY <1>2, <2>1, <2>2
<1> HIDE DEF segment, S
<1>5. SumFunctionOnSet(DaysOf(m), S) = Cardinality(UNION {segment[v] : v \in S})
  <2> DEFINE size == DaysOf(m)
  <2>1. \A v \in S : IsFiniteSet(segment[v]) /\ size[v] = Cardinality(segment[v]) BY <1>2
  <2>2. \A v, w \in S : v # w => segment[v] \cap segment[w] = {} BY <1>3
  <2> HIDE DEF size
  <2>3. SumFunctionOnSet(size, S) = Cardinality(UNION {segment[v] : v \in S})
    BY <1>1, <2>1, <2>2, SumOfSizes
  <2> QED BY <2>3 DEF size
<1>6. PeriodDays(m) = Cardinality(WorkingDays(m)) BY WorkingDaysFinite
<1> QED BY <1>1, <1>4, <1>5, <1>6 DEF S

\* The structure row, and the gross that is made of it in a full month.
LEMMA FullGross ==
    ASSUME Tidy, NEW m \in Months, Full(m)
    PROVE  /\ Gross(m) = SumFunctionOnSet(ShareOf(m), Overlapping(m))
           /\ Gross(m) \in Int
<1>1. Structure(m) = SumFunctionOnSet(ShareOf(m), Overlapping(m)) BY DEF Structure, ShareOf
<1>2. Structure(m) \in Int
  <2>1. ASSUME NEW v \in Overlapping(m) PROVE ShareOf(m)[v] \in Int
    <3>1. CASE PeriodDays(m) > 0 BY <3>1, ShareNear
    <3>2. CASE ~(PeriodDays(m) > 0)
      <4>1. ShareOf(m)[v] = amount[v]
        BY <3>2, WorkingDaysFinite DEF ShareOf, Share
      <4> QED BY <4>1, FirstOverlap
    <3> QED BY <3>1, <3>2
  <2> QED BY <1>1, <2>1, MonthSums, SumType
<1>3. Gross(m) = Structure(m)
  <2>1. PeriodDays(m) \in Nat /\ PreJoining(m) = 0 BY WorkingDaysFinite, FullMonth
  <2>2. CASE PeriodDays(m) = 0 BY <2>2 DEF Gross
  <2>3. CASE PeriodDays(m) # 0
    <3>1. Gross(m) = HalfUp(Structure(m) * PeriodDays(m), PeriodDays(m))
      BY <2>1, <2>3 DEF Gross
    <3> QED BY <1>2, <2>1, <2>3, <3>1, HalfUpExact
  <2> QED BY <2>2, <2>3
<1> QED BY <1>1, <1>2, <1>3

LEMMA AmountsInRange ==
    ASSUME Tidy, NEW m \in Months, Full(m)
    PROVE  /\ Max(AmountsIn(m)) \in Int /\ Min(AmountsIn(m)) \in Int
           /\ \A a \in AmountsIn(m) : a \in Int /\ Min(AmountsIn(m)) <= a /\ a <= Max(AmountsIn(m))
<1> DEFINE A == AmountsIn(m)
           D == First(m)..Final(m)
           pay == [d \in D |-> PayOn(d)]
<1>1. IsFiniteSet(D) /\ D # {}
  <2>1. First(m) \in Int /\ Final(m) \in Int /\ First(m) <= Final(m)
    BY MonthDays DEF Days
  <2>2. First(m) \in D BY <2>1
  <2> QED BY <2>1, <2>2, FS_Interval
<1>2. A = {pay[d] : d \in D} BY DEF AmountsIn
<1>3. \A d \in D : pay[d] \in Int
  <2>1. ASSUME NEW d \in D PROVE PayOn(d) \in Int
    <3>1. PICK v \in Overlapping(m) : Covers(v, d) BY FullMonth
    <3>2. d \in Days /\ v \in Live BY MonthDays DEF Overlapping
    <3>3. PayOn(d) = amount[v] BY <3>1, <3>2, CoveredNow DEF CoverPays
    <3> QED BY <3>3, FirstOverlap
  <2> QED BY <2>1
<1> HIDE DEF A, D, pay
<1>4. \E d \in D : \A e \in D : pay[e] <= pay[d] BY <1>1, <1>3, GreatestOfFinite
<1>5. \E d \in D : \A e \in D : pay[d] <= pay[e] BY <1>1, <1>3, LeastOfFinite
<1>6. Max(A) \in A /\ \A b \in A : b <= Max(A)
  <2>1. \E a \in A : \A b \in A : a >= b BY <1>2, <1>3, <1>4
  <2>2. Max(A) \in A /\ \A b \in A : Max(A) >= b BY <2>1 DEF Max
  <2> QED BY <1>2, <1>3, <2>2
<1>7. Min(A) \in A /\ \A b \in A : Min(A) <= b
  <2>1. \E a \in A : \A b \in A : a <= b BY <1>2, <1>5
  <2> QED BY <2>1 DEF Min
<1> QED BY <1>2, <1>3, <1>6, <1>7 DEF A

LEMMA MonthsArePaidOnce == Tidy => MonthPaidOnce
<1> SUFFICES ASSUME Tidy, NEW m \in Months, Full(m), PeriodDays(m) > 0
             PROVE  /\ 2 * Gross(m) + Cardinality(Overlapping(m)) >= 2 * Min(AmountsIn(m))
                    /\ 2 * Gross(m) <= 2 * Max(AmountsIn(m)) + Cardinality(Overlapping(m))
  BY DEF MonthPaidOnce
<1> DEFINE S == Overlapping(m)
           share == ShareOf(m)
           days == DaysOf(m)
           whole == PeriodDays(m)
           top == Max(AmountsIn(m))
           low == Min(AmountsIn(m))
           gross == SumFunctionOnSet(share, S)
           k == Cardinality(S)
<1>1. whole \in Nat \ {0} BY WorkingDaysFinite
<1>2. top \in Int /\ low \in Int BY AmountsInRange
<1>3. IsFiniteSet(S) /\ k \in Nat BY MonthSums, FS_CardinalityType
<1>4. ASSUME NEW v \in S
      PROVE  /\ share[v] \in Int /\ days[v] \in Int
             /\ (2 * whole) * share[v] <= (2 * top) * days[v] + whole
             /\ (-(2 * whole)) * share[v] <= (-(2 * low)) * days[v] + whole
  <2> DEFINE a == amount[v]
  <2>1. /\ share[v] \in Int /\ days[v] \in Int
        /\ 2 * whole * share[v] <= 2 * a * days[v] + whole
        /\ 2 * a * days[v] <= 2 * whole * share[v] + whole
    BY ShareNear
  <2>2. a \in Int /\ low <= a /\ a <= top BY FirstOverlap, AmountsInRange
  <2>3. days[v] \in Nat BY SegmentIs DEF DaysOf, Tidy
  <2> HIDE DEF a, share, days, whole, top, low, S
  <2>4. a * days[v] <= top * days[v] /\ low * days[v] <= a * days[v]
    BY <1>2, <2>2, <2>3, TimesKeepsOrder
  <2>5. /\ a * days[v] \in Int /\ top * days[v] \in Int /\ low * days[v] \in Int
        /\ whole * share[v] \in Int
    BY <1>1, <1>2, <2>1, <2>2
  <2>6. /\ 2 * whole * share[v] = 2 * (whole * share[v])
        /\ 2 * a * days[v] = 2 * (a * days[v])
        /\ (2 * top) * days[v] = 2 * (top * days[v])
        /\ (-(2 * low)) * days[v] = -(2 * (low * days[v]))
        /\ (-(2 * whole)) * share[v] = -(2 * (whole * share[v]))
    BY <1>1, <1>2, <2>1, <2>2
  <2>7. /\ 2 * (whole * share[v]) <= 2 * (a * days[v]) + whole
        /\ 2 * (a * days[v]) <= 2 * (whole * share[v]) + whole
    BY <2>1, <2>6
  <2>8. 2 * (whole * share[v]) <= 2 * (top * days[v]) + whole
    BY <1>1, <2>4, <2>5, <2>7
  <2>9. -(2 * (whole * share[v])) <= -(2 * (low * days[v])) + whole
    BY <1>1, <2>4, <2>5, <2>7
  <2>10. 2 * whole * share[v] = (2 * whole) * share[v] OBVIOUS
  <2> QED BY <2>1, <2>6, <2>8, <2>9, <2>10
<1>5. SumFunctionOnSet(days, S) = whole BY MonthSums
<1>6. gross = Gross(m) /\ gross \in Int BY FullGross
<1> HIDE DEF S, share, days, whole, top, low, k
<1>7. (2 * whole) * gross <= (2 * top) * whole + whole * k
  <2>1. 2 * whole \in Int /\ 2 * top \in Int /\ whole \in Int BY <1>1, <1>2
  <2>2. (2 * whole) * SumFunctionOnSet(share, S)
            <= (2 * top) * SumFunctionOnSet(days, S) + whole * Cardinality(S)
    BY <1>3, <1>4, <2>1, SumBounded
  <2> QED BY <1>5, <2>2 DEF k
<1>8. (-(2 * whole)) * gross <= (-(2 * low)) * whole + whole * k
  <2>1. -(2 * whole) \in Int /\ -(2 * low) \in Int /\ whole \in Int BY <1>1, <1>2
  <2>2. (-(2 * whole)) * SumFunctionOnSet(share, S)
            <= (-(2 * low)) * SumFunctionOnSet(days, S) + whole * Cardinality(S)
    BY <1>3, <1>4, <2>1, SumBounded
  <2> QED BY <1>5, <2>2 DEF k
<1> HIDE DEF gross
<1>9. 2 * gross <= 2 * top + k
  <2>1. whole * (2 * gross) <= whole * (2 * top + k)
    <3>1. /\ (2 * whole) * gross = whole * (2 * gross)
          /\ (2 * top) * whole + whole * k = whole * (2 * top + k)
      BY <1>1, <1>2, <1>3, <1>6
    <3> QED BY <1>7, <3>1
  <2> QED BY <1>1, <1>2, <1>3, <1>6, <2>1, TimesReflectsOrder
<1>10. 2 * low - k <= 2 * gross
  <2>1. whole * (-(2 * gross)) <= whole * (-(2 * low) + k)
    <3>1. /\ (-(2 * whole)) * gross = whole * (-(2 * gross))
          /\ (-(2 * low)) * whole + whole * k = whole * (-(2 * low) + k)
      BY <1>1, <1>2, <1>3, <1>6
    <3> QED BY <1>8, <3>1
  <2>2. -(2 * gross) <= -(2 * low) + k
    BY <1>1, <1>2, <1>3, <1>6, <2>1, TimesReflectsOrder
  <2> QED BY <1>2, <1>3, <1>6, <2>2
<1> QED BY <1>2, <1>3, <1>6, <1>9, <1>10 DEF S, top, low, k

LEMMA OneSegmentIsExact == Tidy => UnchangedPayIsExact
<1> SUFFICES ASSUME Tidy, NEW m \in Months, Full(m), Cardinality(Overlapping(m)) = 1
             PROVE  Gross(m) \in AmountsIn(m)
  BY DEF UnchangedPayIsExact
<1>1. PICK v : Overlapping(m) = {v} BY MonthSums, FS_Singleton
<1>2. v \in Overlapping(m) BY <1>1
<1>3. amount[v] \in AmountsIn(m) /\ amount[v] \in Int BY <1>2, FirstOverlap
<1>4. SegmentDays(v, m) = PeriodDays(m)
  <2>1. Segment(v, m) = WorkingDays(m) BY <1>1, FullMonth DEF Segment, WorkingDays
  <2> QED BY <1>2, <2>1, SegmentIs, WorkingDaysFinite DEF Tidy
<1>5. ShareOf(m)[v] = amount[v]
  BY <1>2, <1>4, WorkingDaysFinite DEF ShareOf, Share
<1>6. Gross(m) = amount[v]
  <2> DEFINE f == ShareOf(m)
  <2>1. f[v] \in Int BY <1>3, <1>5
  <2>2. IsFiniteSet({v}) /\ v \in {v} /\ {v} \ {v} = {} BY FS_Singleton
  <2> HIDE DEF f
  <2>3. SumFunctionOnSet(f, {v}) = f[v] + SumFunctionOnSet(f, {v} \ {v})
    BY <2>1, <2>2, SumWithout
  <2>4. SumFunctionOnSet(f, {v}) = f[v] BY <2>1, <2>2, <2>3, SumEmpty
  <2> QED BY <1>1, <1>5, <2>4, FullGross DEF f
<1> QED BY <1>3, <1>6

LEMMA SerialTidy ==
    ASSUME NEW t0, Requests = {t0}
    PROVE  Spec => []Tidy
<1>1. Init => Agreed BY DEF Init, Agreed, Live
<1>2. TypeOK /\ Agreed /\ [Next]_vars => Agreed' BY AgreedNext
<1> QED BY <1>1, <1>2, SerialInvariant, PTL DEF Spec, Tidy, Serial

\* "Neither one alone": however often pay changed within a month, the month is
\* paid once: between the lowest and the highest amount in force in it, up to
\* half a unit of rounding for each segment.  True of requests served in turn,
\* for any versions, amounts, months and calendar.
THEOREM MonthPaidOnceHolds ==
    ASSUME NEW t0, Requests = {t0}
    PROVE  Spec => []MonthPaidOnce
<1> QED BY SerialTidy, MonthsArePaidOnce, PTL

\* "A segment covering the whole period returns the amount EXACTLY": a month
\* that one version covers is paid its amount to the unit, however many days it
\* has.  One cut in two is not, be the amounts the same (61 is paid 31 and 31).
THEOREM UnchangedPayIsExactHolds ==
    ASSUME NEW t0, Requests = {t0}
    PROVE  Spec => []UnchangedPayIsExact
<1> QED BY SerialTidy, OneSegmentIsExact, PTL
==============================================================================
