---------------------------- MODULE Service_proofs ----------------------------
(***************************************************************************)
(* Proofs about what an agent serves and where it keeps it: Submit, for    *)
(* any number of tasks, processes and days, every cap and every budget of  *)
(* faults; ArtifactStore, for any number of writers, readers and peers,    *)
(* artifacts of all sizes, every capacity and every budget of faults.      *)
(***************************************************************************)
EXTENDS Submit, ArtifactStore, FiniteFacts, SequenceTheorems, TLAPS

-----------------------------------------------------------------------------
(* Submits and the caps on paid calls.                                      *)

USE SubmitAssumption

(* A fault is spent, never gained.                                          *)
TroublesSpent == \A k \in TroubleKinds : troubles[k] <= setup.faults[k]

(* An item is on the board once it is posted, and the agent works on what   *)
(* it has claimed.                                                          *)
WorkFollows == \A t \in Tasks :
    /\ cli[t] \in {"new", "listening"} => work[t] = "none" /\ got[t] = {}
    /\ Working(t) => work[t] = "claimed"

(* Without a fault the agent is up and knows whose the work is, and what a  *)
(* process waits for is on its way to it unless there was no route.         *)
Served(t) ==
    /\ work[t] = "claimed" => Working(t)
    /\ work[t] # "none" => t \in creators
    /\ cli[t] = "waiting" => stream[t] /\ (t \in unrouted \/ Coming(t))
    /\ cli[t] = "timeout" => t \in unrouted

ResultsAreComing == Calm => agent.at # "down" /\ \A t \in Tasks : Served(t)

(* The calls of today are recorded, but for the one at hand and those that  *)
(* a crash kept from it; a call that may be made was checked against the    *)
(* totals of today, or today has had none.                                  *)
AtHand(k) == IF Busy("record") /\ By(agent.task) = k THEN 1 ELSE 0
OneAtHand == IF Busy("record") THEN 1 ELSE 0

CallsAreRecorded ==
    /\ \A k \in Submitting : spent[day][k] <= quota[day][k] + unrecorded[day] + AtHand(k)
    /\ SumFunction(spent[day]) <= SumFunction(quota[day]) + unrecorded[day] + OneAtHand

CallsAreAllowed == Busy("call") => Allows(By(agent.task))

FutureIsEmpty == \A d \in 1 .. MaxDay :
    d > day => /\ quota[d] = [k \in Submitting |-> 0]
               /\ spent[d] = [k \in Submitting |-> 0]
               /\ unrecorded[d] = 0

(* The same of what the calls cost.                                         *)
CostAtHand == IF Busy("record") THEN CostOf[agent.task] ELSE 0

CostsAreRecorded == paid[day] <= bill[day] + unbilled[day] + CostAtHand

FutureIsFree == \A d \in 1 .. MaxDay :
    d > day => bill[d] = 0 /\ paid[d] = 0 /\ unbilled[d] = 0

Billed == CostsAreRecorded /\ FutureIsFree /\ CostBounded

SInv ==
    /\ SubmitTypeOK /\ TroublesSpent
    /\ OwnResultOnly /\ WorkFollows /\ ResultsAreComing
    /\ CallsAreRecorded /\ CallsAreAllowed /\ FutureIsEmpty
    /\ QueriesBounded /\ Billed

LEMMA SetupTyped ==
    ASSUME SubmitTypeOK
    PROVE  /\ setup.by \in [Tasks -> Submitting]
           /\ setup.per_submitter \in Nat /\ setup.global \in Nat
           /\ setup.spend \in Nat
           /\ setup.faults \in [TroubleKinds -> Nat]
           /\ \A t \in Tasks : By(t) \in Submitting
<1>1. setup \in [by : [Tasks -> Submitting], per_submitter : Nat, global : Nat,
                 spend : Nat, faults : [TroubleKinds -> Nat]]
    BY DEF SubmitTypeOK
<1> QED
    BY <1>1 DEF By

(* The agent: at rest, down, or at a stage of a task.                       *)
LEMMA AgentCases ==
    ASSUME SubmitTypeOK
    PROVE  /\ agent.at \in {"idle", "down"} \cup Stages
           /\ agent.at \in Stages => agent.task \in Tasks /\ agent = Doing(agent.at, agent.task)
           /\ agent.at = "idle" => agent = Resting
           /\ agent.at = "down" => agent = Down
<1>1. agent \in AgentStates
    BY DEF SubmitTypeOK
<1> QED
    BY <1>1 DEF AgentStates, Resting, Down, Doing, Stages

(* The totals of a day are numbers.                                         *)
LEMMA DayTotals ==
    ASSUME SubmitTypeOK, NEW d \in 1 .. MaxDay
    PROVE  SumFunction(spent[d]) \in Nat /\ SumFunction(quota[d]) \in Nat
<1>1. /\ spent[d] \in [Submitting -> Nat] /\ quota[d] \in [Submitting -> Nat]
      /\ DOMAIN spent[d] = Submitting /\ DOMAIN quota[d] = Submitting
    BY DEF SubmitTypeOK
<1>2. \A f \in [Submitting -> Nat] : SumFunctionOnSet(f, Submitting) \in Nat
    BY SumIsNat
<1> QED
    BY <1>1, <1>2 DEF SumFunction

-----------------------------------------------------------------------------
(* Faults.                                                                  *)

LEMMA TroubleStep ==
    ASSUME SubmitTypeOK, TroublesSpent, NEW k \in TroubleKinds, Trouble(k), setup' = setup
    PROVE  troubles' \in [TroubleKinds -> Nat] /\ TroublesSpent' /\ ~Calm'
<1>1. setup.faults \in [TroubleKinds -> Nat] /\ troubles \in [TroubleKinds -> Nat]
    <2>1. setup.faults \in [TroubleKinds -> Nat]
        BY SetupTyped
    <2>2. troubles \in [TroubleKinds -> Nat]
        BY DEF SubmitTypeOK
    <2> QED BY <2>1, <2>2
<1>2. troubles[k] > 0 /\ troubles' = [troubles EXCEPT ![k] = @ - 1]
    BY DEF Trouble
<1>3. troubles'[k] < setup.faults[k]
    BY <1>1, <1>2 DEF TroublesSpent
<1>4. troubles' # setup.faults
    BY <1>3, <1>1
<1> QED
    BY <1>1, <1>2, <1>4 DEF TroublesSpent, Calm

LEMMA KindsOfTrouble ==
    /\ "crash" \in TroubleKinds /\ "lost" \in TroubleKinds
    /\ "slow" \in TroubleKinds /\ "late" \in TroubleKinds
BY DEF TroubleKinds

LEMMA NoTrouble ==
    ASSUME TroublesSpent, troubles' = troubles, setup' = setup
    PROVE  TroublesSpent' /\ (Calm' <=> Calm)
BY DEF TroublesSpent, Calm

-----------------------------------------------------------------------------
(* Metering.                                                                *)

Metered == CallsAreRecorded /\ CallsAreAllowed /\ FutureIsEmpty /\ QueriesBounded /\ Billed

(* What a day costs, step by step: nothing new, a call, its record, a crash *)
(* between the two, midnight.                                               *)
LEMMA BillTyped ==
    ASSUME SubmitTypeOK
    PROVE  /\ bill \in [1 .. MaxDay -> Nat] /\ paid \in [1 .. MaxDay -> Nat]
           /\ unbilled \in [1 .. MaxDay -> Nat] /\ day \in 1 .. MaxDay
           /\ setup.spend \in Nat /\ Dearest \in Nat \ {0}
           /\ CostAtHand \in Nat
           /\ agent.at \in Stages => CostOf[agent.task] \in Nat /\ CostOf[agent.task] <= Dearest
<1>1. agent.at \in Stages => CostOf[agent.task] \in Nat /\ CostOf[agent.task] <= Dearest
    BY AgentCases
<1>2. CostAtHand \in Nat
    BY <1>1 DEF CostAtHand, Busy, Stages
<1> QED
    BY <1>1, <1>2, SetupTyped DEF SubmitTypeOK

LEMMA BillKept ==
    ASSUME Billed, setup' = setup, day' = day, bill' = bill, paid' = paid, unbilled' = unbilled,
           Busy("record")' <=> Busy("record"),
           Busy("record") => agent'.task = agent.task
    PROVE  Billed'
<1>1. CostAtHand' = CostAtHand
    BY DEF CostAtHand
<1> QED
    BY <1>1 DEF Billed, CostsAreRecorded, FutureIsFree, CostBounded

LEMMA CallBilled ==
    ASSUME SubmitTypeOK, Billed, CallsAreAllowed, call_model
    PROVE  Billed' /\ paid' \in [1 .. MaxDay -> Nat]
<1> DEFINE c == CostOf[agent.task]
<1>1. /\ agent.at = "call" /\ agent' = Doing("record", agent.task)
      /\ paid' = [paid EXCEPT ![day] = @ + c]
      /\ setup' = setup /\ day' = day /\ bill' = bill /\ unbilled' = unbilled
    BY DEF call_model, Busy
<1>2. /\ c \in Nat /\ c <= Dearest /\ Dearest \in Nat /\ setup.spend \in Nat
      /\ day \in 1 .. MaxDay /\ bill[day] \in Nat /\ unbilled[day] \in Nat /\ paid[day] \in Nat
    BY <1>1, BillTyped DEF Stages
<1>3. CostAtHand = 0 /\ CostAtHand' = c
    BY <1>1 DEF CostAtHand, Busy, Doing
<1>4. bill[day] < setup.spend
    BY <1>1 DEF CallsAreAllowed, Busy, Allows
<1> HIDE DEF c
<1>5. /\ paid' \in [1 .. MaxDay -> Nat] /\ paid'[day] = paid[day] + c
      /\ \A d \in 1 .. MaxDay : d # day => paid'[d] = paid[d]
    BY <1>1, <1>2, BillTyped
<1>6. paid[day] <= bill[day] + unbilled[day]
    BY <1>2, <1>3 DEF Billed, CostsAreRecorded
<1>7. paid'[day] <= bill[day] + unbilled[day] + c
    BY <1>2, <1>5, <1>6
<1>8. paid'[day] < setup.spend + Dearest + unbilled[day]
    BY <1>2, <1>4, <1>5, <1>6
<1>9. CostsAreRecorded'
    BY <1>1, <1>3, <1>7 DEF CostsAreRecorded
<1>10. FutureIsFree'
    BY <1>1, <1>2, <1>5 DEF Billed, FutureIsFree
<1>11. CostBounded'
    BY <1>1, <1>5, <1>8 DEF Billed, CostBounded
<1> QED
    BY <1>5, <1>9, <1>10, <1>11 DEF Billed

LEMMA RecordBilled ==
    ASSUME SubmitTypeOK, Billed, record
    PROVE  Billed' /\ bill' \in [1 .. MaxDay -> Nat]
<1> DEFINE c == CostOf[agent.task]
<1>1. /\ agent.at = "record" /\ agent' = Doing("sign", agent.task)
      /\ bill' = [bill EXCEPT ![day] = @ + c]
      /\ setup' = setup /\ day' = day /\ paid' = paid /\ unbilled' = unbilled
    BY DEF record, Busy
<1>2. /\ c \in Nat /\ day \in 1 .. MaxDay
      /\ bill[day] \in Nat /\ unbilled[day] \in Nat /\ paid[day] \in Nat
    BY <1>1, BillTyped DEF Stages
<1>3. CostAtHand = c /\ CostAtHand' = 0
    BY <1>1 DEF CostAtHand, Busy, Doing
<1> HIDE DEF c
<1>4. /\ bill' \in [1 .. MaxDay -> Nat] /\ bill'[day] = bill[day] + c
      /\ \A d \in 1 .. MaxDay : d # day => bill'[d] = bill[d]
    BY <1>1, <1>2, BillTyped
<1>5. paid[day] <= bill[day] + unbilled[day] + c
    BY <1>3 DEF Billed, CostsAreRecorded
<1>6. paid[day] <= bill'[day] + unbilled[day] + 0
    BY <1>2, <1>4, <1>5
<1>7. CostsAreRecorded'
    BY <1>1, <1>3, <1>6 DEF CostsAreRecorded
<1>8. FutureIsFree'
    BY <1>1, <1>2, <1>4 DEF Billed, FutureIsFree
<1>9. CostBounded'
    BY <1>1 DEF Billed, CostBounded
<1> QED
    BY <1>4, <1>7, <1>8, <1>9 DEF Billed

LEMMA CrashBilled ==
    ASSUME SubmitTypeOK, Billed, agent_dies
    PROVE  Billed' /\ unbilled' \in [1 .. MaxDay -> Nat]
<1> DEFINE c == CostAtHand
<1>1. /\ agent' = Down /\ unbilled' = [unbilled EXCEPT ![day] = @ + c]
      /\ setup' = setup /\ day' = day /\ paid' = paid /\ bill' = bill
    BY DEF agent_dies, CostAtHand
<1>2. /\ c \in Nat /\ day \in 1 .. MaxDay /\ Dearest \in Nat /\ setup.spend \in Nat
      /\ \A d \in 1 .. MaxDay : bill[d] \in Nat /\ unbilled[d] \in Nat /\ paid[d] \in Nat
    BY BillTyped
<1>3. CostAtHand' = 0
    BY <1>1 DEF CostAtHand, Busy, Down
<1>4. paid[day] <= bill[day] + unbilled[day] + c
    BY DEF Billed, CostsAreRecorded
<1> HIDE DEF c
<1>5. /\ unbilled' \in [1 .. MaxDay -> Nat] /\ unbilled'[day] = unbilled[day] + c
      /\ \A d \in 1 .. MaxDay : d # day => unbilled'[d] = unbilled[d]
    <2>1. unbilled \in [1 .. MaxDay -> Nat]
        BY BillTyped
    <2>2. unbilled[day] + c \in Nat
        BY <1>2
    <2> QED BY <1>1, <1>2, <2>1, <2>2
<1>6. paid[day] <= bill[day] + unbilled'[day] + 0
    BY <1>2, <1>4, <1>5
<1>7. CostsAreRecorded'
    BY <1>1, <1>3, <1>6 DEF CostsAreRecorded
<1>8. FutureIsFree'
    BY <1>1, <1>2, <1>5 DEF Billed, FutureIsFree
<1>9. CostBounded'
    <2> SUFFICES ASSUME NEW d \in 1 .. MaxDay
                 PROVE  paid[d] < setup.spend + Dearest + unbilled'[d]
        BY <1>1 DEF CostBounded
    <2>1. paid[d] < setup.spend + Dearest + unbilled[d]
        BY DEF Billed, CostBounded
    <2>2. unbilled'[d] >= unbilled[d] /\ unbilled'[d] \in Nat
        BY <1>2, <1>5
    <2> QED BY <1>2, <2>1, <2>2
<1> QED
    BY <1>5, <1>7, <1>8, <1>9 DEF Billed

LEMMA MidnightBilled ==
    ASSUME SubmitTypeOK, Billed, midnight
    PROVE  Billed' /\ bill[day'] = 0
<1>1. /\ day \in 1 .. MaxDay /\ day' = day + 1 /\ day' \in 1 .. MaxDay
      /\ setup' = setup /\ agent' = agent /\ bill' = bill /\ paid' = paid /\ unbilled' = unbilled
    BY DEF midnight, SubmitTypeOK
<1>2. bill[day'] = 0 /\ paid[day'] = 0 /\ unbilled[day'] = 0
    BY <1>1 DEF Billed, FutureIsFree
<1>3. CostAtHand' = CostAtHand /\ CostAtHand \in Nat
    BY <1>1, BillTyped DEF CostAtHand, Busy
<1>4. paid[day'] <= bill[day'] + unbilled[day'] + CostAtHand
    BY <1>2, <1>3
<1>5. CostsAreRecorded'
    BY <1>1, <1>3, <1>4 DEF CostsAreRecorded
<1>6. FutureIsFree'
    BY <1>1 DEF Billed, FutureIsFree
<1>7. CostBounded'
    BY <1>1 DEF Billed, CostBounded
<1> QED
    BY <1>2, <1>5, <1>6, <1>7 DEF Billed

(* A step that neither makes a call nor records one.                        *)
LEMMA MeterKept ==
    ASSUME Metered, setup' = setup, day' = day, quota' = quota, spent' = spent,
           unrecorded' = unrecorded, bill' = bill, paid' = paid, unbilled' = unbilled,
           Busy("record")' <=> Busy("record"),
           Busy("record") => agent'.task = agent.task,
           Busy("call")' => \/ agent' = agent
                            \/ Allows(By(agent'.task))
    PROVE  Metered'
<1>1. OneAtHand' = OneAtHand /\ \A k \in Submitting : AtHand(k)' = AtHand(k)
    BY DEF OneAtHand, AtHand, By
<1>2. CallsAreRecorded'
    BY <1>1 DEF Metered, CallsAreRecorded
<1>3. CallsAreAllowed'
    BY DEF Metered, CallsAreAllowed, Allows, Used, UsedByAll, By, Busy
<1>4. Billed'
    <2>1. Billed
        BY DEF Metered
    <2> QED BY <2>1, BillKept
<1> QED
    BY <1>2, <1>3, <1>4 DEF Metered, FutureIsEmpty, QueriesBounded

(* The call is counted against caps that it was checked with.               *)
LEMMA CallMetered ==
    ASSUME SubmitTypeOK, Metered, call_model
    PROVE  /\ Metered' /\ spent' \in [1 .. MaxDay -> [Submitting -> Nat]]
           /\ paid' \in [1 .. MaxDay -> Nat]
<1> DEFINE k == By(agent.task)
<1>0. /\ k \in Submitting /\ day \in 1 .. MaxDay
      /\ setup.per_submitter \in Nat /\ setup.global \in Nat
    <2>1. agent.at = "call" /\ day \in 1 .. MaxDay
        BY DEF call_model, Busy, SubmitTypeOK
    <2>2. agent.task \in Tasks
        BY <2>1, AgentCases DEF Stages
    <2> QED BY <2>1, <2>2, SetupTyped
<1>1. /\ spent \in [1 .. MaxDay -> [Submitting -> Nat]]
      /\ quota \in [1 .. MaxDay -> [Submitting -> Nat]]
      /\ unrecorded \in [1 .. MaxDay -> Nat]
    BY DEF SubmitTypeOK
<1>2. /\ agent.at = "call" /\ agent' = Doing("record", agent.task)
      /\ spent' = [spent EXCEPT ![day][k] = @ + 1]
      /\ setup' = setup /\ day' = day /\ quota' = quota /\ unrecorded' = unrecorded
    BY DEF call_model, Busy, meterVars
<1>3. agent'.at = "record" /\ agent'.task = agent.task
    BY <1>2 DEF Doing
<1>4. /\ OneAtHand = 0 /\ OneAtHand' = 1
      /\ \A j \in Submitting : AtHand(j) = 0 /\ AtHand(j)' = IF j = k THEN 1 ELSE 0
    BY <1>2, <1>3 DEF OneAtHand, AtHand, Busy, By
<1>5. quota[day][k] < setup.per_submitter /\ SumFunction(quota[day]) < setup.global
    BY <1>2 DEF Metered, CallsAreAllowed, Busy, Allows, Used, UsedByAll
<1> HIDE DEF k
<1>6. spent'[day] = [spent[day] EXCEPT ![k] = @ + 1]
    BY <1>0, <1>1, <1>2
<1>7. \A d \in 1 .. MaxDay : d # day => spent'[d] = spent[d]
    BY <1>0, <1>1, <1>2
<1>8. spent'[day][k] = spent[day][k] + 1 /\ \A j \in Submitting : j # k => spent'[day][j] = spent[day][j]
    BY <1>0, <1>1, <1>6
<1>9. SumFunction(spent'[day]) = SumFunction(spent[day]) + 1 /\ SumFunction(spent[day]) \in Nat
    <2>1. spent[day] \in [Submitting -> Nat]
        BY <1>0, <1>1
    <2> QED BY <1>0, <1>6, <2>1, SumOfOneMore
<1>10. SumFunction(quota[day]) \in Nat
    BY <1>0, DayTotals
<1>11. /\ \A j \in Submitting : spent[day][j] <= quota[day][j] + unrecorded[day]
       /\ SumFunction(spent[day]) <= SumFunction(quota[day]) + unrecorded[day]
    <2>1. CallsAreRecorded
        BY DEF Metered
    <2>2. unrecorded[day] \in Nat /\ \A j \in Submitting : quota[day][j] \in Nat
        BY <1>0, <1>1
    <2> QED BY <1>4, <1>10, <2>1, <2>2 DEF CallsAreRecorded
<1>12. unrecorded[day] \in Nat /\ \A j \in Submitting : quota[day][j] \in Nat /\ spent[day][j] \in Nat
    BY <1>0, <1>1
<1>13. CallsAreRecorded'
    <2>1. ASSUME NEW j \in Submitting
          PROVE  spent'[day][j] <= quota[day][j] + unrecorded[day] + AtHand(j)'
        <3>1. CASE j = k
            BY <3>1, <1>4, <1>8, <1>11, <1>12
        <3>2. CASE j # k
            BY <3>2, <1>4, <1>8, <1>11, <1>12
        <3> QED BY <3>1, <3>2
    <2>2. SumFunction(spent'[day]) <= SumFunction(quota[day]) + unrecorded[day] + OneAtHand'
        BY <1>4, <1>9, <1>10, <1>11, <1>12
    <2> QED BY <1>2, <2>1, <2>2 DEF CallsAreRecorded
<1>14. CallsAreAllowed'
    BY <1>3 DEF CallsAreAllowed, Busy
<1>15. FutureIsEmpty'
    BY <1>0, <1>2, <1>7 DEF Metered, FutureIsEmpty
<1>16. QueriesBounded'
    <2> SUFFICES ASSUME NEW d \in 1 .. MaxDay
                 PROVE  /\ \A j \in Submitting :
                             spent'[d][j] <= setup.per_submitter + unrecorded[d]
                        /\ SumFunction(spent'[d]) <= setup.global + unrecorded[d]
        BY <1>2 DEF QueriesBounded
    <2>0. /\ \A j \in Submitting : spent[d][j] <= setup.per_submitter + unrecorded[d]
          /\ SumFunction(spent[d]) <= setup.global + unrecorded[d]
        BY DEF Metered, QueriesBounded
    <2>1. CASE d # day
        BY <2>0, <2>1, <1>7
    <2>2. CASE d = day
        <3>1. spent'[day][k] <= setup.per_submitter + unrecorded[day]
            BY <1>0, <1>5, <1>8, <1>11, <1>12
        <3>2. SumFunction(spent'[day]) <= setup.global + unrecorded[day]
            BY <1>0, <1>5, <1>9, <1>10, <1>11, <1>12
        <3>3. \A j \in Submitting : j # k => spent'[day][j] = spent[day][j]
            BY <1>8
        <3> QED BY <2>0, <2>2, <3>1, <3>2, <3>3
    <2> QED BY <2>1, <2>2
<1>17. spent' \in [1 .. MaxDay -> [Submitting -> Nat]]
    <2>1. spent'[day] \in [Submitting -> Nat]
        BY <1>0, <1>1, <1>6
    <2>2. \A d \in 1 .. MaxDay : spent'[d] \in [Submitting -> Nat]
        BY <2>1, <1>1, <1>7
    <2>3. spent' = [d \in 1 .. MaxDay |-> spent'[d]]
        BY <1>1, <1>2
    <2> QED BY <2>2, <2>3
<1>18. Billed' /\ paid' \in [1 .. MaxDay -> Nat]
    BY CallBilled DEF Metered
<1> QED
    BY <1>13, <1>14, <1>15, <1>16, <1>17, <1>18 DEF Metered

(* The record closes the gap that the call at hand left.                    *)
LEMMA RecordMetered ==
    ASSUME SubmitTypeOK, Metered, record
    PROVE  /\ Metered' /\ quota' \in [1 .. MaxDay -> [Submitting -> Nat]]
           /\ bill' \in [1 .. MaxDay -> Nat]
<1> DEFINE k == By(agent.task)
<1>0. k \in Submitting /\ day \in 1 .. MaxDay
    <2>1. agent.at = "record" /\ day \in 1 .. MaxDay
        BY DEF record, Busy, SubmitTypeOK
    <2>2. agent.task \in Tasks
        BY <2>1, AgentCases DEF Stages
    <2> QED BY <2>1, <2>2, SetupTyped
<1>1. /\ spent \in [1 .. MaxDay -> [Submitting -> Nat]]
      /\ quota \in [1 .. MaxDay -> [Submitting -> Nat]]
      /\ unrecorded \in [1 .. MaxDay -> Nat]
    BY DEF SubmitTypeOK
<1>2. /\ agent.at = "record" /\ agent' = Doing("sign", agent.task)
      /\ quota' = [quota EXCEPT ![day][k] = @ + 1]
      /\ setup' = setup /\ day' = day /\ spent' = spent /\ unrecorded' = unrecorded
    BY DEF record, Busy
<1>3. agent'.at = "sign"
    BY <1>2 DEF Doing
<1>4. /\ OneAtHand = 1 /\ OneAtHand' = 0
      /\ \A j \in Submitting : AtHand(j)' = 0 /\ AtHand(j) = IF j = k THEN 1 ELSE 0
    BY <1>2, <1>3 DEF OneAtHand, AtHand, Busy
<1> HIDE DEF k
<1>5. quota'[day] = [quota[day] EXCEPT ![k] = @ + 1]
    BY <1>0, <1>1, <1>2
<1>6. \A d \in 1 .. MaxDay : d # day => quota'[d] = quota[d]
    BY <1>0, <1>1, <1>2
<1>7. quota'[day][k] = quota[day][k] + 1 /\ \A j \in Submitting : j # k => quota'[day][j] = quota[day][j]
    BY <1>0, <1>1, <1>5
<1>8. SumFunction(quota'[day]) = SumFunction(quota[day]) + 1 /\ SumFunction(quota[day]) \in Nat
    <2>1. quota[day] \in [Submitting -> Nat]
        BY <1>0, <1>1
    <2> QED BY <1>0, <1>5, <2>1, SumOfOneMore
<1>9. SumFunction(spent[day]) \in Nat
    BY <1>0, DayTotals
<1>10. unrecorded[day] \in Nat /\ \A j \in Submitting : quota[day][j] \in Nat /\ spent[day][j] \in Nat
    BY <1>0, <1>1
<1>11. CallsAreRecorded'
    <2>0. CallsAreRecorded
        BY DEF Metered
    <2>1. ASSUME NEW j \in Submitting
          PROVE  spent[day][j] <= quota'[day][j] + unrecorded[day] + AtHand(j)'
        <3>0. spent[day][j] <= quota[day][j] + unrecorded[day] + AtHand(j)
            BY <2>0 DEF CallsAreRecorded
        <3>1. CASE j = k
            BY <3>0, <3>1, <1>4, <1>7, <1>10
        <3>2. CASE j # k
            BY <3>0, <3>2, <1>4, <1>7, <1>10
        <3> QED BY <3>1, <3>2
    <2>2. SumFunction(spent[day]) <= SumFunction(quota'[day]) + unrecorded[day] + OneAtHand'
        <3>0. SumFunction(spent[day]) <= SumFunction(quota[day]) + unrecorded[day] + OneAtHand
            BY <2>0 DEF CallsAreRecorded
        <3> QED BY <3>0, <1>4, <1>8, <1>9, <1>10
    <2> QED BY <1>2, <2>1, <2>2 DEF CallsAreRecorded
<1>12. CallsAreAllowed'
    BY <1>3 DEF CallsAreAllowed, Busy
<1>13. FutureIsEmpty'
    BY <1>0, <1>2, <1>6 DEF Metered, FutureIsEmpty
<1>14. QueriesBounded'
    BY <1>2 DEF Metered, QueriesBounded
<1>15. quota' \in [1 .. MaxDay -> [Submitting -> Nat]]
    <2>1. quota[day] \in [Submitting -> Nat]
        BY <1>0, <1>1
    <2>2. quota'[day] \in [Submitting -> Nat]
        BY <2>1, <1>0, <1>5
    <2>3. \A d \in 1 .. MaxDay : quota'[d] \in [Submitting -> Nat]
        BY <2>2, <1>1, <1>6
    <2>4. quota' = [d \in 1 .. MaxDay |-> quota'[d]]
        BY <1>1, <1>2
    <2> QED BY <2>3, <2>4
<1>16. Billed' /\ bill' \in [1 .. MaxDay -> Nat]
    BY RecordBilled DEF Metered
<1> QED
    BY <1>11, <1>12, <1>13, <1>14, <1>15, <1>16 DEF Metered

(* A crash between the call and its record is owed to the day.              *)
LEMMA CrashMetered ==
    ASSUME SubmitTypeOK, Metered, agent_dies
    PROVE  /\ Metered' /\ unrecorded' \in [1 .. MaxDay -> Nat]
           /\ unbilled' \in [1 .. MaxDay -> Nat]
<1>0. day \in 1 .. MaxDay /\ setup.per_submitter \in Nat /\ setup.global \in Nat
    <2>1. day \in 1 .. MaxDay
        BY DEF SubmitTypeOK
    <2> QED BY <2>1, SetupTyped
<1>1. /\ spent \in [1 .. MaxDay -> [Submitting -> Nat]]
      /\ quota \in [1 .. MaxDay -> [Submitting -> Nat]]
      /\ unrecorded \in [1 .. MaxDay -> Nat]
    BY DEF SubmitTypeOK
<1>2. /\ agent' = Down /\ unrecorded' = [unrecorded EXCEPT ![day] = @ + OneAtHand]
      /\ setup' = setup /\ day' = day /\ spent' = spent /\ quota' = quota
    BY DEF agent_dies, OneAtHand
<1>3. agent'.at = "down"
    BY <1>2 DEF Down
<1>4. /\ OneAtHand \in {0, 1} /\ OneAtHand' = 0
      /\ \A j \in Submitting : AtHand(j)' = 0 /\ AtHand(j) \in {0, OneAtHand}
    BY <1>3 DEF OneAtHand, AtHand, Busy
<1>5. /\ unrecorded' \in [1 .. MaxDay -> Nat]
      /\ unrecorded'[day] = unrecorded[day] + OneAtHand
      /\ \A d \in 1 .. MaxDay : d # day => unrecorded'[d] = unrecorded[d]
      /\ \A d \in 1 .. MaxDay : unrecorded'[d] >= unrecorded[d] /\ unrecorded[d] \in Nat
    BY <1>0, <1>1, <1>2, <1>4
<1>6. \A j \in Submitting : quota[day][j] \in Nat /\ spent[day][j] \in Nat
    BY <1>0, <1>1
<1>7. \A d \in 1 .. MaxDay : SumFunction(spent[d]) \in Nat /\ SumFunction(quota[d]) \in Nat
    BY DayTotals
<1>8. CallsAreRecorded'
    <2>0. CallsAreRecorded
        BY DEF Metered
    <2>1. ASSUME NEW j \in Submitting
          PROVE  spent[day][j] <= quota[day][j] + unrecorded'[day] + AtHand(j)'
        <3>0. spent[day][j] <= quota[day][j] + unrecorded[day] + AtHand(j)
            BY <2>0 DEF CallsAreRecorded
        <3>1. AtHand(j) <= OneAtHand /\ AtHand(j) \in Nat /\ OneAtHand \in Nat
            BY <1>4
        <3>2. /\ spent[day][j] \in Nat /\ quota[day][j] \in Nat /\ unrecorded[day] \in Nat
              /\ unrecorded'[day] = unrecorded[day] + OneAtHand /\ AtHand(j)' = 0
            BY <1>0, <1>4, <1>5, <1>6
        <3>3. spent[day][j] <= quota[day][j] + (unrecorded[day] + OneAtHand) + 0
            BY <3>0, <3>1, <3>2
        <3> QED BY <3>2, <3>3
    <2>2. SumFunction(spent[day]) <= SumFunction(quota[day]) + unrecorded'[day] + OneAtHand'
        <3>0. SumFunction(spent[day]) <= SumFunction(quota[day]) + unrecorded[day] + OneAtHand
            BY <2>0 DEF CallsAreRecorded
        <3>1. /\ SumFunction(spent[day]) \in Nat /\ SumFunction(quota[day]) \in Nat
              /\ unrecorded[day] \in Nat /\ OneAtHand \in Nat
              /\ unrecorded'[day] = unrecorded[day] + OneAtHand /\ OneAtHand' = 0
            BY <1>0, <1>4, <1>5, <1>7
        <3>2. SumFunction(spent[day]) <= SumFunction(quota[day]) + (unrecorded[day] + OneAtHand) + 0
            BY <3>0, <3>1
        <3> QED BY <3>1, <3>2
    <2> QED BY <1>2, <2>1, <2>2 DEF CallsAreRecorded
<1>9. CallsAreAllowed'
    BY <1>3 DEF CallsAreAllowed, Busy
<1>10. FutureIsEmpty'
    BY <1>0, <1>2, <1>5 DEF Metered, FutureIsEmpty
<1>11. QueriesBounded'
    <2> SUFFICES ASSUME NEW d \in 1 .. MaxDay
                 PROVE  /\ \A j \in Submitting :
                             spent[d][j] <= setup.per_submitter + unrecorded'[d]
                        /\ SumFunction(spent[d]) <= setup.global + unrecorded'[d]
        BY <1>2 DEF QueriesBounded
    <2>0. /\ \A j \in Submitting : spent[d][j] <= setup.per_submitter + unrecorded[d]
          /\ SumFunction(spent[d]) <= setup.global + unrecorded[d]
        BY DEF Metered, QueriesBounded
    <2>1. /\ unrecorded'[d] >= unrecorded[d] /\ unrecorded[d] \in Nat /\ unrecorded'[d] \in Nat
          /\ \A j \in Submitting : spent[d][j] \in Nat
        BY <1>1, <1>5
    <2> QED BY <2>0, <2>1, <1>0, <1>7
<1>12. Billed' /\ unbilled' \in [1 .. MaxDay -> Nat]
    BY CrashBilled DEF Metered
<1> QED
    BY <1>5, <1>8, <1>9, <1>10, <1>11, <1>12 DEF Metered

(* A new day begins with nothing made and nothing recorded.                 *)
LEMMA MidnightMetered ==
    ASSUME SubmitTypeOK, Metered, midnight
    PROVE  Metered' /\ day' \in 1 .. MaxDay
<1>1. /\ day \in 1 .. MaxDay /\ day' = day + 1 /\ day' \in 1 .. MaxDay
      /\ setup' = setup /\ agent' = agent /\ quota' = quota /\ spent' = spent
      /\ unrecorded' = unrecorded
    BY DEF midnight, SubmitTypeOK
<1>0. Billed' /\ bill[day'] = 0 /\ bill' = bill
    BY MidnightBilled DEF Metered, midnight
<1>2. /\ quota[day'] = [k \in Submitting |-> 0] /\ spent[day'] = [k \in Submitting |-> 0]
      /\ unrecorded[day'] = 0
    BY <1>1 DEF Metered, FutureIsEmpty
<1>3. SumFunction([k \in Submitting |-> 0]) = 0
    BY SumOfZeros DEF SumFunction
<1>4. CallsAreRecorded'
    <2>1. OneAtHand' \in {0, 1} /\ \A k \in Submitting : AtHand(k)' \in {0, 1}
        BY DEF OneAtHand, AtHand
    <2>2. \A k \in Submitting : spent[day'][k] = 0 /\ quota[day'][k] = 0
        BY <1>2
    <2>3. SumFunction(spent[day']) = 0 /\ SumFunction(quota[day']) = 0
        BY <1>2, <1>3
    <2>4. /\ \A k \in Submitting :
               spent[day'][k] <= quota[day'][k] + unrecorded[day'] + AtHand(k)'
          /\ SumFunction(spent[day']) <= SumFunction(quota[day']) + unrecorded[day'] + OneAtHand'
        <3>1. ASSUME NEW k \in Submitting
              PROVE  spent[day'][k] <= quota[day'][k] + unrecorded[day'] + AtHand(k)'
            <4>1. AtHand(k)' \in {0, 1}
                BY <2>1
            <4>2. spent[day'][k] = 0 /\ quota[day'][k] = 0 /\ unrecorded[day'] = 0
                BY <1>2, <2>2
            <4> QED BY <4>1, <4>2
        <3>2. SumFunction(spent[day'])
                <= SumFunction(quota[day']) + unrecorded[day'] + OneAtHand'
            <4>1. PICK a : a = OneAtHand'
                OBVIOUS
            <4>2. 0 <= 0 + 0 + a
                <5>1. a = 0 \/ a = 1
                    BY <2>1, <4>1
                <5> QED BY <5>1
            <4> QED BY <1>2, <2>3, <4>1, <4>2
        <3> QED BY <3>1, <3>2
    <2> QED BY <1>1, <2>4 DEF CallsAreRecorded
<1>5. CallsAreAllowed'
    <2> SUFFICES ASSUME Busy("call")' PROVE Allows(By(agent.task))'
        BY <1>1 DEF CallsAreAllowed
    <2> DEFINE k == By(agent.task)
    <2>1. agent.at = "call"
        BY <1>1 DEF Busy
    <2>2. k \in Submitting
        <3>1. agent.task \in Tasks
            BY <2>1, AgentCases DEF Stages
        <3> QED BY <3>1, SetupTyped
    <2>3. /\ quota[day][k] < setup.per_submitter /\ SumFunction(quota[day]) < setup.global
          /\ bill[day] < setup.spend
        BY <2>1 DEF Metered, CallsAreAllowed, Busy, Allows, Used, UsedByAll
    <2>4. /\ quota[day][k] \in Nat /\ SumFunction(quota[day]) \in Nat
          /\ setup.per_submitter \in Nat /\ setup.global \in Nat
        <3>1. quota[day] \in [Submitting -> Nat]
            BY <1>1 DEF SubmitTypeOK
        <3>2. quota[day][k] \in Nat
            BY <2>2, <3>1
        <3> QED BY <3>2, <1>1, DayTotals, SetupTyped
    <2>5. By(agent.task)' = k
        BY <1>1 DEF By
    <2> HIDE DEF k
    <2>6. quota[day'][k] = 0 /\ SumFunction(quota[day']) = 0
        BY <2>2, <1>2, <1>3
    <2>7. quota[day'][k] < setup.per_submitter /\ SumFunction(quota[day']) < setup.global
        BY <2>3, <2>4, <2>6
    <2>8. bill[day'] < setup.spend
        <3>1. bill[day] \in Nat /\ setup.spend \in Nat
            BY BillTyped
        <3> QED BY <2>3, <3>1, <1>0
    <2> QED BY <1>0, <1>1, <2>5, <2>7, <2>8 DEF Allows, Used, UsedByAll
<1>6. FutureIsEmpty'
    BY <1>1 DEF Metered, FutureIsEmpty
<1>7. QueriesBounded'
    BY <1>1 DEF Metered, QueriesBounded
<1> QED
    BY <1>0, <1>1, <1>4, <1>5, <1>6, <1>7 DEF Metered

-----------------------------------------------------------------------------
(* Delivery.                                                                *)

Delivered == OwnResultOnly /\ WorkFollows /\ ResultsAreComing

(* What is coming to a process depends on its own stream and on the agent.  *)
LEMMA ComingKept ==
    ASSUME NEW t \in Tasks, Coming(t),
           got[t] # {} => got'[t] # {},
           stream[t] => stream'[t],
           t \in inbox[t] => t \in inbox'[t],
           work[t] = "open" => work'[t] = "open" \/ (Working(t)' /\ ~Busy("pushed")'),
           Working(t) /\ ~Busy("pushed") => Working(t)' /\ ~Busy("pushed")'
    PROVE  Coming(t)'
BY DEF Coming

(* A step that leaves the submits and the board alone.                      *)
LEMMA DeliveryKept ==
    ASSUME Delivered, (Calm' => Calm),
           UNCHANGED <<cli, stream, inbox, got, work, creators>>, unrouted \subseteq unrouted',
           agent'.at = "down" => agent.at = "down",
           \A t \in Tasks : /\ Working(t)' <=> Working(t)
                            /\ Working(t) /\ ~Busy("pushed") => ~Busy("pushed")'
    PROVE  Delivered'
<1>1. OwnResultOnly' /\ WorkFollows'
    BY DEF Delivered, OwnResultOnly, WorkFollows
<1>2. ASSUME Calm', NEW t \in Tasks PROVE Served(t)'
    <2>1. Served(t)
        BY <1>2 DEF Delivered, ResultsAreComing
    <2>2. Coming(t) => Coming(t)'
        <3> SUFFICES ASSUME Coming(t) PROVE Coming(t)'
            OBVIOUS
        <3> QED BY ComingKept
    <2> QED BY <2>1, <2>2 DEF Served
<1>3. ResultsAreComing'
    BY <1>2 DEF Delivered, ResultsAreComing
<1> QED
    BY <1>1, <1>3 DEF Delivered

(* One process moves; the board, the agent and the others stay.             *)
LEMMA OneSubmitMoves ==
    ASSUME Delivered, NEW t \in Tasks, (Calm' => Calm),
           UNCHANGED <<work, agent, creators, unrouted>>,
           \A u \in Tasks : u # t => /\ cli'[u] = cli[u] /\ stream'[u] = stream[u]
                                     /\ inbox'[u] = inbox[u] /\ got'[u] = got[u],
           got'[t] \subseteq {t},
           cli'[t] \in {"new", "listening"} => work[t] = "none" /\ got'[t] = {},
           Calm' /\ cli'[t] = "waiting" => stream'[t] /\ (t \in unrouted \/ Coming(t)'),
           Calm' /\ cli'[t] = "timeout" => t \in unrouted
    PROVE  Delivered'
<1>0. \A u \in Tasks : Working(u)' <=> Working(u)
    BY DEF Working
<1>1. OwnResultOnly' /\ WorkFollows'
    BY <1>0 DEF Delivered, OwnResultOnly, WorkFollows
<1>2. ASSUME Calm', NEW u \in Tasks PROVE Served(u)'
    <2>0. Served(u)
        BY <1>2 DEF Delivered, ResultsAreComing
    <2>1. CASE u = t
        BY <1>0, <1>2, <2>0, <2>1 DEF Served
    <2>2. CASE u # t
        <3>1. Coming(u) => Coming(u)'
            BY <2>2, <1>0 DEF Coming, Busy
        <3> QED BY <1>0, <2>0, <2>2, <3>1 DEF Served
    <2> QED BY <2>1, <2>2
<1>3. ResultsAreComing'
    BY <1>2 DEF Delivered, ResultsAreComing
<1> QED
    BY <1>1, <1>3 DEF Delivered

(* After a fault nothing is promised but that results are not mixed up.     *)
LEMMA FaultDelivery ==
    ASSUME Delivered, ~Calm', UNCHANGED <<got, work>>,
           \A t \in Tasks : /\ Working(t)' => Working(t)
                            /\ cli'[t] \in {"new", "listening"} => cli'[t] = cli[t]
    PROVE  Delivered'
BY DEF Delivered, OwnResultOnly, WorkFollows, ResultsAreComing

-----------------------------------------------------------------------------
(* One lemma for each kind of step.                                         *)

LEMMA InvParts == SInv <=> SubmitTypeOK /\ TroublesSpent /\ Delivered /\ Metered
BY DEF SInv, Delivered, Metered

(* The agent is where it was, so the meter is.                              *)
LEMMA AgentKept ==
    ASSUME Metered, UNCHANGED <<setup, agent, meterVars>>
    PROVE  Metered'
<1>1. /\ day' = day /\ quota' = quota /\ spent' = spent /\ unrecorded' = unrecorded
      /\ bill' = bill /\ paid' = paid /\ unbilled' = unbilled
    BY DEF meterVars
<1>2. Busy("record")' <=> Busy("record")
    BY DEF Busy
<1> QED
    BY <1>1, <1>2, MeterKept

(* The types, in two halves.                                                *)
ClientTypes ==
    /\ cli \in [Tasks -> CliStates] /\ stream \in [Tasks -> BOOLEAN]
    /\ inbox \in [Tasks -> SUBSET Tasks] /\ got \in [Tasks -> SUBSET Tasks]
    /\ work \in [Tasks -> {"none", "open", "claimed", "done"}]
    /\ creators \subseteq Tasks /\ troubles \in [TroubleKinds -> Nat]

LEMMA ClientTyped ==
    ASSUME SubmitTypeOK
    PROVE  ClientTypes
BY DEF SubmitTypeOK, ClientTypes

LEMMA ClientMoves ==
    ASSUME SubmitTypeOK, ClientTypes',
           UNCHANGED <<setup, agent, connected, routes, polled, unrouted, day, quota, bill,
                       spent, unrecorded, paid, unbilled>>
    PROVE  SubmitTypeOK'
BY DEF SubmitTypeOK, ClientTypes

LEMMA StartHolds ==
    ASSUME SInv, NEW t \in Tasks, cmd_submit(t)
    PROVE  SInv'
<1>0. SubmitTypeOK /\ TroublesSpent /\ Delivered /\ Metered
    BY InvParts
<1>1. /\ cli[t] = "new" /\ cli' = [cli EXCEPT ![t] = "listening"]
      /\ UNCHANGED <<setup, stream, inbox, got, work, agent, creators, connected, routes, polled,
                     unrouted, meterVars, day, quota, bill, spent, unrecorded, paid, unbilled, troubles>>
    BY DEF cmd_submit, routeVars, meterVars
<1>2. SubmitTypeOK'
    <2>1. ClientTypes'
        BY <1>0, <1>1, ClientTyped DEF ClientTypes, CliStates
    <2> QED BY <1>0, <1>1, <2>1, ClientMoves
<1>3. TroublesSpent' /\ (Calm' <=> Calm)
    BY <1>0, <1>1, NoTrouble
<1>4. cli'[t] = "listening" /\ \A u \in Tasks : u # t => cli'[u] = cli[u]
    BY <1>0, <1>1 DEF SubmitTypeOK
<1>5. work[t] = "none" /\ got[t] = {}
    BY <1>0, <1>1 DEF Delivered, WorkFollows
<1>6. Delivered'
    BY <1>0, <1>1, <1>3, <1>4, <1>5, OneSubmitMoves
<1>7. Metered'
    BY <1>0, <1>1, AgentKept
<1> QED
    BY <1>2, <1>3, <1>6, <1>7 DEF SInv, Delivered, Metered

LEMMA RegisterHolds ==
    ASSUME SInv, NEW t \in Tasks, register(t)
    PROVE  SInv'
<1>0. SubmitTypeOK /\ TroublesSpent /\ Delivered /\ Metered
    BY InvParts
<1>1. /\ stream' = [stream EXCEPT ![t] = TRUE] /\ cli[t] \in {"listening", "waiting"}
      /\ UNCHANGED <<setup, cli, inbox, got, work, agent, creators, connected, routes, polled,
                     unrouted, meterVars, day, quota, bill, spent, unrecorded, paid, unbilled, troubles>>
    BY DEF register, routeVars, meterVars
<1>2. SubmitTypeOK'
    <2>1. ClientTypes'
        BY <1>0, <1>1, ClientTyped DEF ClientTypes
    <2> QED BY <1>0, <1>1, <2>1, ClientMoves
<1>3. TroublesSpent' /\ (Calm' <=> Calm)
    BY <1>0, <1>1, NoTrouble
<1>4. stream'[t] /\ \A u \in Tasks : u # t => stream'[u] = stream[u]
    BY <1>0, <1>1 DEF SubmitTypeOK
<1>5. ASSUME Calm', cli'[t] = "waiting" PROVE t \in unrouted \/ Coming(t)'
    <2>1. t \in unrouted \/ Coming(t)
        BY <1>0, <1>1, <1>3, <1>5 DEF Delivered, ResultsAreComing, Served
    <2>2. Coming(t) => Coming(t)'
        BY <1>1, <1>4 DEF Coming, Working, Busy
    <2> QED BY <2>1, <2>2
<1>6. got[t] \subseteq {t} /\ (cli'[t] \in {"new", "listening"} => work[t] = "none" /\ got[t] = {})
    BY <1>0, <1>1 DEF Delivered, WorkFollows, OwnResultOnly
<1>7. cli'[t] # "timeout"
    BY <1>1
<1>8. Delivered'
    BY <1>0, <1>1, <1>3, <1>4, <1>5, <1>6, <1>7, OneSubmitMoves
<1>9. Metered'
    BY <1>0, <1>1, AgentKept
<1> QED
    BY <1>2, <1>3, <1>8, <1>9 DEF SInv, Delivered, Metered

(* The item is posted once the stream stands, or the daemon was slow.       *)
LEMMA PostHolds ==
    ASSUME SInv, NEW t \in Tasks, post(t)
    PROVE  SInv'
<1>0. SubmitTypeOK /\ TroublesSpent /\ Delivered /\ Metered
    BY InvParts
<1>1. /\ cli[t] = "listening" /\ cli' = [cli EXCEPT ![t] = "waiting"]
      /\ work' = [work EXCEPT ![t] = "open"]
      /\ creators' = (IF agent.at = "down" THEN creators ELSE creators \cup {t})
      /\ UNCHANGED <<setup, stream, inbox, got, agent, connected, routes, polled, unrouted,
                     meterVars, day, quota, bill, spent, unrecorded, paid, unbilled>>
    BY DEF post, Posted, meterVars
<1>2. /\ TroublesSpent' /\ troubles' \in [TroubleKinds -> Nat]
      /\ Calm' => Calm /\ stream[t]
    <2>1. CASE stream[t]
        <3>1. troubles' = troubles
            BY <2>1 DEF post
        <3> QED BY <1>0, <1>1, <2>1, <3>1, NoTrouble DEF SubmitTypeOK
    <2>2. CASE ~stream[t]
        <3>1. Trouble("slow")
            BY <2>2 DEF post
        <3> QED BY <1>0, <1>1, <3>1, TroubleStep, KindsOfTrouble
    <2> QED BY <2>1, <2>2
<1>3. SubmitTypeOK'
    <2>1. ClientTypes'
        BY <1>0, <1>1, <1>2, ClientTyped DEF ClientTypes, CliStates
    <2> QED BY <1>0, <1>1, <2>1, ClientMoves
<1>4. /\ cli'[t] = "waiting" /\ work'[t] = "open"
      /\ \A u \in Tasks : u # t => cli'[u] = cli[u] /\ work'[u] = work[u]
    BY <1>0, <1>1 DEF SubmitTypeOK
<1>5. work[t] = "none" /\ got[t] = {} /\ ~Working(t)
    BY <1>0, <1>1 DEF Delivered, WorkFollows
<1>6. \A u \in Tasks : Working(u)' <=> Working(u)
    BY <1>1 DEF Working
<1>7. OwnResultOnly' /\ WorkFollows'
    BY <1>0, <1>1, <1>4, <1>5, <1>6 DEF Delivered, OwnResultOnly, WorkFollows
<1>8. ResultsAreComing'
    <2> SUFFICES ASSUME Calm' PROVE agent'.at # "down" /\ \A u \in Tasks : Served(u)'
        BY DEF ResultsAreComing
    <2>1. agent.at # "down" /\ \A u \in Tasks : Served(u)
        BY <1>0, <1>2 DEF Delivered, ResultsAreComing
    <2>2. ASSUME NEW u \in Tasks PROVE Served(u)'
        <3>1. CASE u = t
            <4>1. Coming(t)'
                BY <1>1, <1>2, <1>4 DEF Coming
            <4> QED BY <3>1, <4>1, <2>1, <1>1, <1>2, <1>4 DEF Served
        <3>2. CASE u # t
            <4>1. Coming(u) => Coming(u)'
                BY <1>1, <1>4, <1>6, <3>2 DEF Coming, Busy
            <4> QED BY <3>2, <4>1, <2>1, <1>1, <1>4, <1>6 DEF Served
        <3> QED BY <3>1, <3>2
    <2> QED BY <2>1, <2>2, <1>1
<1>9. Metered'
    BY <1>0, <1>1, AgentKept
<1> QED
    BY <1>2, <1>3, <1>7, <1>8, <1>9 DEF SInv, Metered

(* A frame is taken or passed over; the wanted one is kept.                 *)
LEMMA FrameHolds ==
    ASSUME SInv, NEW t \in Tasks, _sub_loop(t)
    PROVE  SInv'
<1>0. SubmitTypeOK /\ TroublesSpent /\ Delivered /\ Metered
    BY InvParts
<1>1. PICK f \in inbox[t] : /\ inbox' = [inbox EXCEPT ![t] = @ \ {f}]
                            /\ got' = [got EXCEPT ![t] = IF Wanted(t, f) THEN {f} ELSE {}]
    BY DEF _sub_loop
<1>2. /\ got[t] = {}
      /\ UNCHANGED <<setup, cli, stream, work, agent, creators, connected, routes, polled,
                     unrouted, meterVars, day, quota, bill, spent, unrecorded, paid, unbilled, troubles>>
    BY DEF _sub_loop, routeVars, meterVars
<1>3. f \in Tasks
    BY <1>0 DEF SubmitTypeOK
<1>4. /\ inbox'[t] = inbox[t] \ {f} /\ got'[t] = IF Wanted(t, f) THEN {f} ELSE {}
      /\ \A u \in Tasks : u # t => inbox'[u] = inbox[u] /\ got'[u] = got[u]
    BY <1>0, <1>1 DEF SubmitTypeOK
<1>5. SubmitTypeOK'
    <2>1. ClientTypes'
        BY <1>0, <1>1, <1>2, <1>3, ClientTyped DEF ClientTypes
    <2> QED BY <1>0, <1>2, <2>1, ClientMoves
<1>6. TroublesSpent' /\ (Calm' <=> Calm)
    BY <1>0, <1>2, NoTrouble
<1>7. /\ got'[t] \subseteq {t}
      /\ cli'[t] \in {"new", "listening"} => work[t] = "none" /\ got'[t] = {}
    BY <1>0, <1>2, <1>4 DEF Wanted, Delivered, WorkFollows
<1>8. ASSUME Calm', cli'[t] = "waiting" PROVE stream'[t] /\ (t \in unrouted \/ Coming(t)')
    <2>1. stream[t] /\ (t \in unrouted \/ Coming(t))
        BY <1>0, <1>2, <1>6, <1>8 DEF Delivered, ResultsAreComing, Served
    <2>2. ASSUME Coming(t) PROVE Coming(t)'
        <3>1. CASE f = t
            <4>1. got'[t] # {}
                BY <1>2, <1>4, <1>8, <3>1 DEF Wanted
            <4> QED BY <4>1 DEF Coming
        <3>2. CASE f # t
            BY <2>2, <1>2, <1>4, <3>2 DEF Coming, Working, Busy
        <3> QED BY <3>1, <3>2
    <2> QED BY <2>1, <2>2, <1>2
<1>9. Calm' /\ cli'[t] = "timeout" => t \in unrouted
    BY <1>0, <1>2, <1>6 DEF Delivered, ResultsAreComing, Served
<1>10. Delivered'
    BY <1>0, <1>2, <1>4, <1>6, <1>7, <1>8, <1>9, OneSubmitMoves
<1>11. Metered'
    BY <1>0, <1>2, AgentKept
<1> QED
    BY <1>5, <1>6, <1>10, <1>11 DEF SInv, Delivered, Metered

(* A process leaves: with its result, or with nothing under way.            *)
LEMMA LeaveHolds ==
    ASSUME SInv, NEW t \in Tasks, show(t) \/ times_out(t)
    PROVE  SInv'
<1>0. SubmitTypeOK /\ TroublesSpent /\ Delivered /\ Metered
    BY InvParts
<1>1. PICK exit \in {"shown", "timeout"} :
        /\ Leaves(t, exit) /\ cli[t] = "waiting"
        /\ \/ exit = "shown" /\ troubles' = troubles
           \/ exit = "timeout" /\ Coming(t) /\ Trouble("late")
           \/ exit = "timeout" /\ ~Coming(t) /\ troubles' = troubles
    BY DEF show, times_out
<1>2. /\ cli' = [cli EXCEPT ![t] = exit] /\ stream' = [stream EXCEPT ![t] = FALSE]
      /\ inbox' = [inbox EXCEPT ![t] = {}]
      /\ UNCHANGED <<setup, got, work, agent, creators, connected, routes, polled,
                     unrouted, meterVars, day, quota, bill, spent, unrecorded, paid, unbilled>>
    BY <1>1 DEF Leaves, routeVars, meterVars
<1>3. /\ TroublesSpent' /\ troubles' \in [TroubleKinds -> Nat]
      /\ Calm' => Calm /\ (exit = "timeout" => ~Coming(t))
    <2>1. CASE troubles' = troubles /\ (exit = "timeout" => ~Coming(t))
        <3>1. troubles \in [TroubleKinds -> Nat]
            BY <1>0, ClientTyped DEF ClientTypes
        <3> QED BY <1>0, <1>2, <2>1, <3>1, NoTrouble
    <2>2. CASE Trouble("late")
        BY <1>0, <1>2, <2>2, TroubleStep, KindsOfTrouble
    <2> QED BY <1>1, <2>1, <2>2
<1>4. SubmitTypeOK'
    <2>1. ClientTypes'
        BY <1>0, <1>1, <1>2, <1>3, ClientTyped DEF ClientTypes, CliStates
    <2> QED BY <1>0, <1>2, <2>1, ClientMoves
<1>5. /\ cli'[t] = exit
      /\ \A u \in Tasks : u # t => cli'[u] = cli[u] /\ stream'[u] = stream[u] /\ inbox'[u] = inbox[u]
    BY <1>0, <1>2 DEF SubmitTypeOK
<1>6. Calm' /\ exit = "timeout" => t \in unrouted
    BY <1>0, <1>1, <1>3 DEF Delivered, ResultsAreComing, Served
<1>7. got'[t] \subseteq {t}
    BY <1>0, <1>2 DEF Delivered, OwnResultOnly
<1>8. cli'[t] \notin {"new", "listening", "waiting"}
    BY <1>5
<1>9. Delivered'
    BY <1>0, <1>2, <1>3, <1>5, <1>6, <1>7, <1>8, OneSubmitMoves
<1>10. Metered'
    BY <1>0, <1>2, AgentKept
<1> QED
    BY <1>3, <1>4, <1>9, <1>10 DEF SInv, Delivered, Metered

LEMMA AgentMoves ==
    ASSUME SubmitTypeOK, ClientTypes', agent' \in AgentStates,
           UNCHANGED <<setup, connected, polled, day, quota, bill, spent, unrecorded, paid, unbilled>>,
           routes' \subseteq Submitting, unrouted' \subseteq Tasks
    PROVE  SubmitTypeOK'
BY DEF SubmitTypeOK, ClientTypes

LEMMA DoingTyped ==
    ASSUME NEW st \in Stages, NEW t \in Tasks
    PROVE  /\ Doing(st, t) \in AgentStates
           /\ Doing(st, t).at = st /\ Doing(st, t).task = t
BY DEF AgentStates, Doing

(* The agent takes the next step of the task at hand.                       *)
LEMMA StageMoves ==
    ASSUME SubmitTypeOK, TroublesSpent, Delivered,
           NEW st \in Stages \ {"pushed"}, NEW from \in Stages \ {"pushed"},
           Busy(from), agent' = Doing(st, agent.task),
           UNCHANGED <<setup, cliVars, work, routeVars, troubles>>
    PROVE  /\ Delivered' /\ TroublesSpent' /\ ClientTypes'
           /\ agent' \in AgentStates /\ agent'.at = st /\ agent'.task = agent.task
           /\ agent.task \in Tasks
<1>1. agent.at = from /\ agent.task \in Tasks
    BY AgentCases DEF Busy
<1>2. agent' \in AgentStates /\ agent'.at = st /\ agent'.task = agent.task
    BY <1>1, DoingTyped
<1>3. UNCHANGED <<cli, stream, inbox, got, work, creators, unrouted>>
    BY DEF cliVars, routeVars
<1>4. TroublesSpent' /\ (Calm' <=> Calm)
    BY NoTrouble
<1>5. \A t \in Tasks : (Working(t)' <=> Working(t)) /\ ~Busy("pushed")'
    BY <1>1, <1>2 DEF Working, Busy, Stages
<1>6. Delivered'
    BY <1>2, <1>3, <1>4, <1>5, DeliveryKept DEF Stages
<1>7. ClientTypes'
    BY <1>3, ClientTyped DEF ClientTypes
<1> QED
    BY <1>1, <1>2, <1>4, <1>6, <1>7

LEMMA CheckHolds ==
    ASSUME SInv, check_quota
    PROVE  SInv'
<1>0. SubmitTypeOK /\ TroublesSpent /\ Delivered /\ Metered
    BY InvParts
<1>1. PICK st \in {"call", "sign"} : /\ agent' = Doing(st, agent.task)
                                     /\ st = "call" => Allows(By(agent.task))
    BY DEF check_quota
<1>2. /\ Busy("check")
      /\ UNCHANGED <<setup, cliVars, work, routeVars, troubles, meterVars>>
      /\ UNCHANGED <<connected, polled, routes, unrouted, day, quota, bill, spent, unrecorded, paid, unbilled>>
    BY DEF check_quota, routeVars, meterVars
<1>3. /\ Delivered' /\ TroublesSpent' /\ ClientTypes'
      /\ agent' \in AgentStates /\ agent'.at = st /\ agent'.task = agent.task
    BY <1>0, <1>1, <1>2, StageMoves DEF Stages
<1>4. SubmitTypeOK'
    BY <1>0, <1>2, <1>3, AgentMoves DEF SubmitTypeOK
<1>5. Metered'
    <2>1. ~Busy("record") /\ ~Busy("record")'
        BY <1>1, <1>2, <1>3 DEF Busy
    <2>2. Busy("call")' => Allows(By(agent'.task))
        BY <1>1, <1>3 DEF Busy
    <2> QED BY <1>0, <1>2, <2>1, <2>2, MeterKept
<1> QED
    BY <1>3, <1>4, <1>5 DEF SInv, Delivered, Metered

LEMMA CallHolds ==
    ASSUME SInv, call_model
    PROVE  SInv'
<1>0. SubmitTypeOK /\ TroublesSpent /\ Delivered /\ Metered
    BY InvParts
<1>1. /\ Busy("call") /\ agent' = Doing("record", agent.task)
      /\ UNCHANGED <<setup, cliVars, work, routeVars, troubles>>
      /\ UNCHANGED <<connected, polled, routes, unrouted, day, quota, bill, unrecorded,
                     unbilled>>
    BY DEF call_model, routeVars
<1>2. /\ Delivered' /\ TroublesSpent' /\ ClientTypes' /\ agent' \in AgentStates
    BY <1>0, <1>1, StageMoves DEF Stages
<1>3. /\ Metered' /\ spent' \in [1 .. MaxDay -> [Submitting -> Nat]]
      /\ paid' \in [1 .. MaxDay -> Nat]
    BY <1>0, CallMetered
<1>4. SubmitTypeOK'
    BY <1>0, <1>1, <1>2, <1>3 DEF SubmitTypeOK, ClientTypes
<1> QED
    BY <1>2, <1>3, <1>4 DEF SInv, Delivered, Metered

LEMMA RaiseHolds ==
    ASSUME SInv, call_raises
    PROVE  SInv'
<1>0. SubmitTypeOK /\ TroublesSpent /\ Delivered /\ Metered
    BY InvParts
<1>1. /\ Busy("call") /\ agent' = Doing("sign", agent.task)
      /\ UNCHANGED <<setup, cliVars, work, routeVars, troubles, meterVars>>
      /\ UNCHANGED <<connected, polled, routes, unrouted, day, quota, bill, spent, unrecorded, paid, unbilled>>
    BY DEF call_raises, routeVars, meterVars
<1>2. /\ Delivered' /\ TroublesSpent' /\ ClientTypes' /\ agent' \in AgentStates
      /\ agent'.at = "sign"
    BY <1>0, <1>1, StageMoves DEF Stages
<1>3. SubmitTypeOK'
    BY <1>0, <1>1, <1>2, AgentMoves DEF SubmitTypeOK
<1>4. Metered'
    <2>1. ~Busy("record") /\ ~Busy("record")' /\ ~Busy("call")'
        BY <1>1, <1>2 DEF Busy
    <2> QED BY <1>0, <1>1, <2>1, MeterKept
<1> QED
    BY <1>2, <1>3, <1>4 DEF SInv, Delivered, Metered

LEMMA RecordHolds ==
    ASSUME SInv, record
    PROVE  SInv'
<1>0. SubmitTypeOK /\ TroublesSpent /\ Delivered /\ Metered
    BY InvParts
<1>1. /\ Busy("record") /\ agent' = Doing("sign", agent.task)
      /\ UNCHANGED <<setup, cliVars, work, routeVars, troubles>>
      /\ UNCHANGED <<connected, polled, routes, unrouted, day, spent, unrecorded, paid,
                     unbilled>>
    BY DEF record, routeVars
<1>2. /\ Delivered' /\ TroublesSpent' /\ ClientTypes' /\ agent' \in AgentStates
    BY <1>0, <1>1, StageMoves DEF Stages
<1>3. /\ Metered' /\ quota' \in [1 .. MaxDay -> [Submitting -> Nat]]
      /\ bill' \in [1 .. MaxDay -> Nat]
    BY <1>0, RecordMetered
<1>4. SubmitTypeOK'
    BY <1>0, <1>1, <1>2, <1>3 DEF SubmitTypeOK, ClientTypes
<1> QED
    BY <1>2, <1>3, <1>4 DEF SInv, Delivered, Metered

LEMMA ClaimHolds ==
    ASSUME SInv, NEW t \in Tasks, agent_claims(t)
    PROVE  SInv'
<1>0. SubmitTypeOK /\ TroublesSpent /\ Delivered /\ Metered /\ ClientTypes
    BY InvParts, ClientTyped
<1>1. /\ agent.at = "idle" /\ work[t] = "open" /\ work' = [work EXCEPT ![t] = "claimed"]
      /\ agent' = Doing("check", t)
      /\ UNCHANGED <<setup, cliVars, routeVars, meterVars, troubles>>
      /\ UNCHANGED <<connected, polled, routes, unrouted, day, quota, bill, spent, unrecorded, paid, unbilled>>
      /\ UNCHANGED <<cli, stream, inbox, got, creators>>
    BY DEF agent_claims, Busy, cliVars, routeVars, meterVars
<1>2. agent' \in AgentStates /\ agent'.at = "check" /\ agent'.task = t
    BY <1>1, DoingTyped DEF Stages
<1>3. work'[t] = "claimed" /\ \A u \in Tasks : u # t => work'[u] = work[u]
    BY <1>0, <1>1 DEF ClientTypes
<1>4. TroublesSpent' /\ (Calm' <=> Calm)
    BY <1>0, <1>1, NoTrouble
<1>5. \A u \in Tasks : ~Working(u) /\ (Working(u)' <=> u = t) /\ ~Busy("pushed")'
    BY <1>1, <1>2 DEF Working, Busy
<1>6. OwnResultOnly' /\ WorkFollows'
    BY <1>0, <1>1, <1>3, <1>5 DEF Delivered, OwnResultOnly, WorkFollows
<1>7. ASSUME Calm', NEW u \in Tasks PROVE Served(u)'
    <2>1. Served(u)
        BY <1>0, <1>4, <1>7 DEF Delivered, ResultsAreComing
    <2>2. ASSUME Coming(u) PROVE Coming(u)'
        <3>1. CASE u = t
            BY <2>2, <3>1, <1>1, <1>5 DEF Coming
        <3>2. CASE u # t
            BY <2>2, <3>2, <1>1, <1>3, <1>5 DEF Coming
        <3> QED BY <3>1, <3>2
    <2>3. work'[u] = "claimed" => Working(u)'
        BY <2>1, <1>3, <1>5 DEF Served
    <2>4. work'[u] # "none" => u \in creators
        BY <2>1, <1>1, <1>3 DEF Served
    <2> QED BY <2>1, <2>2, <2>3, <2>4, <1>1 DEF Served
<1>8. ResultsAreComing'
    BY <1>2, <1>7 DEF ResultsAreComing
<1>9. ClientTypes'
    BY <1>0, <1>1 DEF ClientTypes
<1>10. SubmitTypeOK'
    BY <1>0, <1>1, <1>2, <1>9, AgentMoves DEF SubmitTypeOK
<1>11. Metered'
    <2>1. ~Busy("record") /\ ~Busy("record")' /\ ~Busy("call")'
        BY <1>1, <1>2 DEF Busy
    <2> QED BY <1>0, <1>1, <2>1, MeterKept
<1> QED
    BY <1>4, <1>6, <1>8, <1>10, <1>11 DEF SInv, Metered

(* The push reaches every stream of the node, or it has no route.           *)
LEMMA HookHolds ==
    ASSUME SInv, _hook
    PROVE  SInv'
<1> DEFINE t == agent.task
           k == By(t)
<1>0. SubmitTypeOK /\ TroublesSpent /\ Delivered /\ Metered /\ ClientTypes
    BY InvParts, ClientTyped
<1>1. /\ agent.at = "sign" /\ agent' = Doing("pushed", t)
      /\ UNCHANGED <<setup, cli, stream, got, work, creators, connected, meterVars, troubles>>
      /\ UNCHANGED <<day, quota, bill, spent, unrecorded, paid, unbilled>>
    BY DEF _hook, Busy, meterVars
<1>2. t \in Tasks /\ agent'.at = "pushed" /\ agent'.task = t /\ agent' \in AgentStates
    BY <1>0, <1>1, AgentCases, DoingTyped DEF Stages
<1>3. k \in Submitting
    BY <1>0, <1>2, SetupTyped
<1>4. /\ \/ inbox' = inbox /\ unrouted' = unrouted /\ t \notin creators
         \/ Pushes(t) /\ unrouted' = unrouted
         \/ inbox' = inbox /\ unrouted' = unrouted \cup {t}
      /\ routes' = routes \/ routes' = Refreshed
      /\ polled' = polled \/ polled' = TRUE
    BY DEF _hook
<1> HIDE DEF t, k
<1>5. /\ inbox' \in [Tasks -> SUBSET Tasks]
      /\ \A u \in Tasks : inbox[u] \subseteq inbox'[u]
      /\ unrouted \subseteq unrouted' /\ unrouted' \subseteq Tasks
    <2>1. inbox \in [Tasks -> SUBSET Tasks] /\ unrouted \subseteq Tasks
        BY <1>0 DEF SubmitTypeOK, ClientTypes
    <2>2. CASE inbox' = inbox
        BY <1>2, <1>4, <2>1, <2>2
    <2>3. CASE Pushes(t) /\ unrouted' = unrouted
        BY <1>2, <2>1, <2>3 DEF Pushes
    <2> QED BY <1>4, <2>2, <2>3
<1>6. routes' \subseteq Submitting /\ polled' \in BOOLEAN
    BY <1>0, <1>4 DEF SubmitTypeOK, Refreshed
<1>7. ClientTypes'
    BY <1>0, <1>1, <1>5 DEF ClientTypes
<1>8. SubmitTypeOK'
    BY <1>0, <1>1, <1>2, <1>5, <1>6, <1>7 DEF SubmitTypeOK, ClientTypes
<1>9. TroublesSpent' /\ (Calm' <=> Calm)
    BY <1>0, <1>1, NoTrouble
<1>10. \A u \in Tasks : (Working(u)' <=> Working(u)) /\ (Working(u) <=> u = t)
    BY <1>1, <1>2 DEF Working, t
<1>11. OwnResultOnly' /\ WorkFollows'
    BY <1>0, <1>1, <1>10 DEF Delivered, OwnResultOnly, WorkFollows
<1>12. ASSUME Calm', NEW u \in Tasks PROVE Served(u)'
    <2>1. Served(u)
        BY <1>0, <1>9, <1>12 DEF Delivered, ResultsAreComing
    <2>2. ASSUME cli[u] = "waiting", stream[u], Coming(u) PROVE u \in unrouted' \/ Coming(u)'
        <3>1. CASE u # t
            BY <2>2, <3>1, <1>1, <1>5, <1>10 DEF Coming
        <3>2. CASE u = t
            <4>1. work[t] = "claimed"
                BY <1>0, <1>2, <1>10 DEF Delivered, WorkFollows
            <4>2. t \in creators
                BY <2>1, <3>2, <4>1 DEF Served
            <4>3. CASE Pushes(t)
                <5>1. t \in inbox'[t]
                    BY <2>2, <3>2, <4>3, <1>2 DEF Pushes
                <5> QED BY <5>1, <3>2, <2>2, <1>1 DEF Coming
            <4>4. CASE unrouted' = unrouted \cup {t}
                BY <4>4, <3>2
            <4> QED BY <4>2, <4>3, <4>4, <1>4
        <3> QED BY <3>1, <3>2
    <2>3. cli[u] = "waiting" => stream[u] /\ (u \in unrouted' \/ Coming(u)')
        BY <2>1, <2>2, <1>5 DEF Served
    <2> QED BY <2>1, <2>3, <1>1, <1>5, <1>10 DEF Served
<1>13. ResultsAreComing'
    BY <1>2, <1>12 DEF ResultsAreComing
<1>14. Metered'
    <2>1. ~Busy("record") /\ ~Busy("record")' /\ ~Busy("call")'
        BY <1>1, <1>2 DEF Busy
    <2> QED BY <1>0, <1>1, <2>1, MeterKept
<1> QED
    BY <1>8, <1>9, <1>11, <1>13, <1>14 DEF SInv, Metered

LEMMA PushFailsHolds ==
    ASSUME SInv, push_fails
    PROVE  SInv'
<1>0. SubmitTypeOK /\ TroublesSpent /\ Delivered /\ Metered /\ ClientTypes
    BY InvParts, ClientTyped
<1>1. /\ agent.at = "sign" /\ agent' = Doing("pushed", agent.task) /\ Trouble("lost")
      /\ UNCHANGED <<setup, cliVars, work, routeVars, meterVars>>
      /\ UNCHANGED <<connected, polled, routes, unrouted, day, quota, bill, spent, unrecorded, paid, unbilled>>
      /\ UNCHANGED <<cli, stream, inbox, got, creators>>
    BY DEF push_fails, Busy, cliVars, routeVars, meterVars
<1>2. agent.task \in Tasks /\ agent' \in AgentStates /\ agent'.at = "pushed"
      /\ agent'.task = agent.task
    BY <1>0, <1>1, AgentCases, DoingTyped DEF Stages
<1>3. troubles' \in [TroubleKinds -> Nat] /\ TroublesSpent' /\ ~Calm'
    BY <1>0, <1>1, TroubleStep, KindsOfTrouble
<1>4. ClientTypes'
    BY <1>0, <1>1, <1>3 DEF ClientTypes
<1>5. SubmitTypeOK'
    BY <1>0, <1>1, <1>2, <1>4, AgentMoves DEF SubmitTypeOK
<1>6. \A t \in Tasks : Working(t)' => Working(t)
    BY <1>1, <1>2 DEF Working
<1>7. Delivered'
    BY <1>0, <1>1, <1>3, <1>6, FaultDelivery
<1>8. Metered'
    <2>1. ~Busy("record") /\ ~Busy("record")' /\ ~Busy("call")'
        BY <1>1, <1>2 DEF Busy
    <2> QED BY <1>0, <1>1, <2>1, MeterKept
<1> QED
    BY <1>3, <1>5, <1>7, <1>8 DEF SInv, Delivered, Metered

(* The item is done once its result has been pushed.                        *)
LEMMA CompleteHolds ==
    ASSUME SInv, agent_completes
    PROVE  SInv'
<1> DEFINE t == agent.task
<1>0. SubmitTypeOK /\ TroublesSpent /\ Delivered /\ Metered /\ ClientTypes
    BY InvParts, ClientTyped
<1>1. /\ agent.at = "pushed" /\ agent' = Resting /\ work' = [work EXCEPT ![t] = "done"]
      /\ UNCHANGED <<setup, cliVars, routeVars, meterVars, troubles>>
      /\ UNCHANGED <<connected, polled, routes, unrouted, day, quota, bill, spent, unrecorded, paid, unbilled>>
      /\ UNCHANGED <<cli, stream, inbox, got, creators>>
    BY DEF agent_completes, Busy, cliVars, routeVars, meterVars
<1>2. t \in Tasks /\ agent'.at = "idle" /\ agent' \in AgentStates
    BY <1>0, <1>1, AgentCases DEF Stages, AgentStates, Resting
<1>3. \A u \in Tasks : ~Working(u)' /\ (Working(u) <=> u = t)
    BY <1>1, <1>2 DEF Working
<1> HIDE DEF t
<1>4. work'[t] = "done" /\ \A u \in Tasks : u # t => work'[u] = work[u]
    BY <1>0, <1>1, <1>2 DEF ClientTypes
<1>5. work[t] = "claimed"
    BY <1>0, <1>2, <1>3 DEF Delivered, WorkFollows
<1>6. TroublesSpent' /\ (Calm' <=> Calm)
    BY <1>0, <1>1, NoTrouble
<1>7. OwnResultOnly' /\ WorkFollows'
    <2>1. cli[t] \notin {"new", "listening"}
        BY <1>0, <1>2, <1>5 DEF Delivered, WorkFollows
    <2> QED BY <2>1, <1>0, <1>1, <1>3, <1>4 DEF Delivered, OwnResultOnly, WorkFollows
<1>8. ASSUME Calm', NEW u \in Tasks PROVE Served(u)'
    <2>1. Served(u)
        BY <1>0, <1>6, <1>8 DEF Delivered, ResultsAreComing
    <2>2. ASSUME Coming(u) PROVE Coming(u)'
        <3>1. got[u] # {} \/ (stream[u] /\ (u \in inbox[u] \/ work[u] = "open"))
            BY <2>2, <1>1 DEF Coming, Busy
        <3>2. work[u] = "open" => work'[u] = "open"
            BY <1>4, <1>5
        <3> QED BY <3>1, <3>2, <1>1 DEF Coming
    <2>3. work'[u] # "claimed"
        BY <2>1, <1>3, <1>4 DEF Served
    <2>4. work'[u] # "none" => u \in creators
        BY <2>1, <1>4, <1>5 DEF Served
    <2> QED BY <2>1, <2>2, <2>3, <2>4, <1>1 DEF Served
<1>9. ResultsAreComing'
    BY <1>2, <1>8 DEF ResultsAreComing
<1>10. ClientTypes'
    BY <1>0, <1>1 DEF ClientTypes
<1>11. SubmitTypeOK'
    BY <1>0, <1>1, <1>2, <1>10, AgentMoves DEF SubmitTypeOK
<1>12. Metered'
    <2>1. ~Busy("record") /\ ~Busy("record")' /\ ~Busy("call")'
        BY <1>1, <1>2 DEF Busy
    <2> QED BY <1>0, <1>1, <2>1, MeterKept
<1> QED
    BY <1>6, <1>7, <1>9, <1>11, <1>12 DEF SInv, Metered

LEMMA DeathHolds ==
    ASSUME SInv, agent_dies
    PROVE  SInv'
<1>0. SubmitTypeOK /\ TroublesSpent /\ Delivered /\ Metered /\ ClientTypes
    BY InvParts, ClientTyped
<1>1. /\ Trouble("crash") /\ agent' = Down /\ creators' = {} /\ routes' = {} /\ polled' = FALSE
      /\ UNCHANGED <<setup, cli, stream, inbox, got, work, connected, unrouted, day, quota, bill,
                     spent, paid>>
    BY DEF agent_dies, cliVars
<1>2. agent'.at = "down" /\ agent' \in AgentStates
    BY <1>1 DEF Down, AgentStates
<1>3. troubles' \in [TroubleKinds -> Nat] /\ TroublesSpent' /\ ~Calm'
    BY <1>0, <1>1, TroubleStep, KindsOfTrouble
<1>4. /\ Metered' /\ unrecorded' \in [1 .. MaxDay -> Nat]
      /\ unbilled' \in [1 .. MaxDay -> Nat]
    BY <1>0, CrashMetered
<1>5. ClientTypes'
    BY <1>0, <1>1, <1>3 DEF ClientTypes
<1>6. SubmitTypeOK'
    BY <1>0, <1>1, <1>2, <1>4, <1>5 DEF SubmitTypeOK, ClientTypes
<1>7. \A t \in Tasks : ~Working(t)'
    BY <1>2 DEF Working
<1>8. Delivered'
    BY <1>0, <1>1, <1>3, <1>7, FaultDelivery
<1> QED
    BY <1>3, <1>4, <1>6, <1>8 DEF SInv, Delivered, Metered

LEMMA RestartHolds ==
    ASSUME SInv, agent_restarts
    PROVE  SInv'
<1>0. SubmitTypeOK /\ TroublesSpent /\ Delivered /\ Metered /\ ClientTypes
    BY InvParts, ClientTyped
<1>1. /\ agent.at = "down" /\ agent' = Resting
      /\ UNCHANGED <<setup, cliVars, work, routeVars, meterVars, troubles>>
      /\ UNCHANGED <<connected, polled, routes, unrouted, day, quota, bill, spent, unrecorded, paid, unbilled>>
      /\ UNCHANGED <<cli, stream, inbox, got, creators>>
    BY DEF agent_restarts, Busy, cliVars, routeVars, meterVars
<1>2. agent'.at = "idle" /\ agent' \in AgentStates
    BY <1>1 DEF Resting, AgentStates
<1>3. TroublesSpent' /\ (Calm' <=> Calm)
    BY <1>0, <1>1, NoTrouble
<1>4. \A t \in Tasks : ~Working(t) /\ ~Working(t)'
    BY <1>1, <1>2 DEF Working
<1>5. Delivered'
    BY <1>0, <1>1, <1>2, <1>3, <1>4, DeliveryKept
<1>6. ClientTypes'
    BY <1>0, <1>1 DEF ClientTypes
<1>7. SubmitTypeOK'
    BY <1>0, <1>1, <1>2, <1>6, AgentMoves DEF SubmitTypeOK
<1>8. Metered'
    <2>1. ~Busy("record") /\ ~Busy("record")' /\ ~Busy("call")'
        BY <1>1, <1>2 DEF Busy
    <2> QED BY <1>0, <1>1, <2>1, MeterKept
<1> QED
    BY <1>3, <1>5, <1>7, <1>8 DEF SInv, Delivered, Metered

(* A lease runs out only for work that a crash left behind.                 *)
LEMMA ReopenHolds ==
    ASSUME SInv, NEW t \in Tasks, item_reopens(t)
    PROVE  SInv'
<1>0. SubmitTypeOK /\ TroublesSpent /\ Delivered /\ Metered /\ ClientTypes
    BY InvParts, ClientTyped
<1>1. /\ work[t] = "claimed" /\ ~Working(t) /\ work' = [work EXCEPT ![t] = "open"]
      /\ UNCHANGED <<setup, agent, cliVars, routeVars, meterVars, troubles>>
      /\ UNCHANGED <<connected, polled, routes, unrouted, day, quota, bill, spent, unrecorded, paid, unbilled>>
      /\ UNCHANGED <<cli, stream, inbox, got, creators>>
    BY DEF item_reopens, cliVars, routeVars, meterVars
<1>2. work'[t] = "open" /\ \A u \in Tasks : u # t => work'[u] = work[u]
    BY <1>0, <1>1 DEF ClientTypes
<1>3. TroublesSpent' /\ (Calm' <=> Calm)
    BY <1>0, <1>1, NoTrouble
<1>4. ~Calm'
    BY <1>0, <1>1, <1>3 DEF Delivered, ResultsAreComing, Served
<1>5. \A u \in Tasks : Working(u)' <=> Working(u)
    BY <1>1 DEF Working
<1>6. Delivered'
    BY <1>0, <1>1, <1>2, <1>4, <1>5 DEF Delivered, OwnResultOnly, WorkFollows, ResultsAreComing
<1>7. ClientTypes'
    BY <1>0, <1>1 DEF ClientTypes
<1>8. SubmitTypeOK'
    BY <1>0, <1>1, <1>7, ClientMoves
<1>9. Metered'
    BY <1>0, <1>1, AgentKept
<1> QED
    BY <1>3, <1>6, <1>8, <1>9 DEF SInv, Delivered, Metered

(* Connections, seconds and days.                                           *)
LEMMA OutsideHolds ==
    ASSUME SInv, second_passes \/ midnight \/ \E t \in Tasks : connects(By(t))
    PROVE  SInv'
<1>0. SubmitTypeOK /\ TroublesSpent /\ Delivered /\ Metered /\ ClientTypes
    BY InvParts, ClientTyped
<1>1. /\ UNCHANGED <<setup, agent, troubles, quota, bill, spent, unrecorded, paid, unbilled,
                     unrouted, routes>>
      /\ UNCHANGED <<cli, stream, inbox, got, creators, work>>
    BY DEF second_passes, midnight, connects, cliVars, routeVars, meterVars
<1>2. connected' \subseteq Submitting /\ polled' \in BOOLEAN
    BY <1>0, SetupTyped DEF SubmitTypeOK, second_passes, midnight, connects, routeVars
<1>3. Metered' /\ day' \in 1 .. MaxDay
    <2>1. CASE midnight
        BY <1>0, <2>1, MidnightMetered
    <2>2. CASE second_passes \/ \E t \in Tasks : connects(By(t))
        <3>1. UNCHANGED meterVars
            BY <2>2 DEF second_passes, connects
        <3>2. day' = day
            BY <3>1 DEF meterVars
        <3> QED BY <1>0, <1>1, <3>1, <3>2, AgentKept DEF SubmitTypeOK
    <2> QED BY <2>1, <2>2
<1>4. ClientTypes'
    BY <1>0, <1>1 DEF ClientTypes
<1>5. SubmitTypeOK'
    BY <1>0, <1>1, <1>2, <1>3, <1>4 DEF SubmitTypeOK, ClientTypes
<1>6. TroublesSpent' /\ (Calm' <=> Calm)
    BY <1>0, <1>1, NoTrouble
<1>7. \A t \in Tasks : (Working(t)' <=> Working(t)) /\ (Busy("pushed")' <=> Busy("pushed"))
    BY <1>1 DEF Working, Busy
<1>8. Delivered'
    BY <1>0, <1>1, <1>6, <1>7, DeliveryKept
<1> QED
    BY <1>3, <1>5, <1>6, <1>8 DEF SInv, Delivered, Metered

LEMMA SubmitStart == SubmitInit => SInv
<1> SUFFICES ASSUME SubmitInit PROVE SInv
    OBVIOUS
<1>1. /\ setup \in Setups /\ troubles = setup.faults
      /\ cli = [t \in Tasks |-> "new"] /\ stream = [t \in Tasks |-> FALSE]
      /\ inbox = [t \in Tasks |-> {}] /\ got = [t \in Tasks |-> {}]
      /\ work = [t \in Tasks |-> "none"] /\ agent = Resting
      /\ creators = {} /\ connected = {} /\ routes = {} /\ polled = FALSE
      /\ day = 1 /\ unrouted = {}
    BY DEF SubmitInit
<1>2. /\ quota = [d \in 1 .. MaxDay |-> [k \in Submitting |-> 0]] /\ spent = quota
      /\ unrecorded = [d \in 1 .. MaxDay |-> 0] /\ 1 \in 1 .. MaxDay
      /\ bill = unrecorded /\ paid = unrecorded /\ unbilled = unrecorded
    BY DEF SubmitInit, NoCalls, Nothing
<1>3. setup \in [by : [Tasks -> Submitting], per_submitter : Nat, global : Nat,
                 spend : Nat, faults : [TroubleKinds -> Nat]]
    BY <1>1
<1>4. SubmitTypeOK
    <2>1. agent \in AgentStates
        BY <1>1 DEF AgentStates
    <2>2. /\ quota \in [1 .. MaxDay -> [Submitting -> Nat]]
          /\ spent \in [1 .. MaxDay -> [Submitting -> Nat]]
          /\ unrecorded \in [1 .. MaxDay -> Nat] /\ bill \in [1 .. MaxDay -> Nat]
          /\ paid \in [1 .. MaxDay -> Nat] /\ unbilled \in [1 .. MaxDay -> Nat]
        BY <1>2
    <2>3. troubles \in [TroubleKinds -> Nat]
        BY <1>1, <1>3
    <2> QED BY <1>1, <1>2, <2>1, <2>2, <2>3 DEF SubmitTypeOK, CliStates
<1>5. TroublesSpent
    BY <1>1, <1>3 DEF TroublesSpent
<1>6. agent.at = "idle" /\ \A t \in Tasks : ~Working(t)
    BY <1>1 DEF Resting, Working
<1>7. Delivered
    BY <1>1, <1>6 DEF Delivered, OwnResultOnly, WorkFollows, ResultsAreComing, Served
<1>8. /\ \A d \in 1 .. MaxDay, k \in Submitting : spent[d][k] = 0 /\ quota[d][k] = 0
      /\ \A d \in 1 .. MaxDay : /\ SumFunction(spent[d]) = 0 /\ SumFunction(quota[d]) = 0
                                /\ unrecorded[d] = 0
    <2>1. SumFunction([k \in Submitting |-> 0]) = 0
        BY SumOfZeros DEF SumFunction
    <2> QED BY <1>2, <2>1
<1>9. OneAtHand = 0 /\ \A k \in Submitting : AtHand(k) = 0
    BY <1>6 DEF OneAtHand, AtHand, Busy
<1>10. CallsAreRecorded
    <2>1. /\ unrecorded[day] = 0 /\ SumFunction(spent[day]) = 0 /\ SumFunction(quota[day]) = 0
          /\ \A k \in Submitting : spent[day][k] = 0 /\ quota[day][k] = 0
        BY <1>1, <1>2, <1>8
    <2>2. 0 <= 0 + 0 + 0
        OBVIOUS
    <2> QED BY <1>9, <2>1, <2>2 DEF CallsAreRecorded
<1>11. CallsAreAllowed
    BY <1>6 DEF CallsAreAllowed, Busy
<1>12. FutureIsEmpty
    BY <1>2 DEF FutureIsEmpty
<1>13. QueriesBounded
    BY <1>3, <1>8 DEF QueriesBounded
<1>14. Billed
    <2>1. CostAtHand = 0
        BY <1>6 DEF CostAtHand, Busy
    <2>2. /\ \A d \in 1 .. MaxDay : bill[d] = 0 /\ paid[d] = 0 /\ unbilled[d] = 0
          /\ setup.spend \in Nat /\ Dearest \in Nat \ {0} /\ day \in 1 .. MaxDay
        BY <1>1, <1>2, <1>3
    <2>3. CostBounded
        BY <2>2 DEF CostBounded
    <2>4. CostsAreRecorded
        BY <2>1, <2>2 DEF CostsAreRecorded
    <2> QED BY <2>2, <2>3, <2>4 DEF Billed, FutureIsFree
<1> QED
    BY <1>4, <1>5, <1>7, <1>10, <1>11, <1>12, <1>13, <1>14 DEF SInv, Delivered

LEMMA SubmitSteps == SInv /\ [SubmitNext]_submitVars => SInv'
<1> SUFFICES ASSUME SInv, [SubmitNext]_submitVars PROVE SInv'
    OBVIOUS
<1>1. CASE AgentStep
    BY <1>1, CheckHolds, CallHolds, RaiseHolds, RecordHolds, HookHolds, PushFailsHolds,
       CompleteHolds, RestartHolds DEF AgentStep
<1>2. CASE agent_dies
    BY <1>2, DeathHolds
<1>3. CASE second_passes \/ midnight \/ \E t \in Tasks : connects(By(t))
    BY <1>3, OutsideHolds
<1>4. ASSUME NEW t \in Tasks, cmd_submit(t) PROVE SInv'
    BY <1>4, StartHolds
<1>5. ASSUME NEW t \in Tasks, SubmitStep(t) PROVE SInv'
    BY <1>5, RegisterHolds, PostHolds, FrameHolds, LeaveHolds DEF SubmitStep
<1>6. ASSUME NEW t \in Tasks, agent_claims(t) PROVE SInv'
    BY <1>6, ClaimHolds
<1>7. ASSUME NEW t \in Tasks, item_reopens(t) PROVE SInv'
    BY <1>7, ReopenHolds
<1>8. CASE UNCHANGED submitVars
    <2>1. UNCHANGED <<setup, cli, stream, inbox, got, work, agent, creators, connected, routes,
                      polled, day, quota, bill, troubles, spent, unrecorded, paid, unbilled,
                      unrouted>>
        BY <1>8 DEF submitVars
    <2>2. SubmitTypeOK /\ TroublesSpent /\ Delivered /\ Metered /\ ClientTypes
        BY InvParts, ClientTyped
    <2>3. ClientTypes'
        BY <2>1, <2>2 DEF ClientTypes
    <2>4. SubmitTypeOK'
        BY <2>1, <2>2, <2>3, ClientMoves
    <2>5. TroublesSpent' /\ (Calm' <=> Calm)
        BY <2>1, <2>2, NoTrouble
    <2>6. Metered'
        BY <2>1, <2>2, AgentKept DEF meterVars
    <2>7. \A t \in Tasks : (Working(t)' <=> Working(t)) /\ (Busy("pushed")' <=> Busy("pushed"))
        BY <2>1 DEF Working, Busy
    <2>8. Delivered'
        BY <2>1, <2>2, <2>5, <2>7, DeliveryKept
    <2> QED BY <2>4, <2>5, <2>6, <2>8 DEF SInv, Delivered, Metered
<1> QED
    BY <1>1, <1>2, <1>3, <1>4, <1>5, <1>6, <1>7, <1>8 DEF SubmitNext

(* For any number of tasks, nodes and days: a submit shows its own result   *)
(* only; unless a daemon was slow, a push was lost, a deadline came early   *)
(* or the agent died, it times out only when the agent had no route to its  *)
(* node, for it was not connected or not looked up; the paid calls of a day *)
(* stay within the numbers of each submitter and of all, and cost less than *)
(* the spend cap and one call more, but for those whose record a crash      *)
(* prevented (cmd_submit, QuotaTracker.check and record, resolve_peer_id).  *)
THEOREM SubmitsAreServed == SubmitSpec => []SubmitServed
<1>1. SInv => SubmitServed
    BY DEF SInv, SubmitServed, SpendBounded, Billed, ResultsAreComing, Served, ResultComesBack
<1> QED
    BY <1>1, SubmitStart, SubmitSteps, PTL DEF SubmitSpec

-----------------------------------------------------------------------------
(* The artifact store.                                                      *)

HIDE SubmitAssumption
USE ArtifactAssumption

CallSteps == {"cached", "mismatch", "ask", "measure", "scan", "evict", "record", "remeasure",
              "write", "full"}

(* What a call knows, where hs is on disk and ev says whether to evict.     *)
(* One that evicts has every file on its list, and reckons with no less     *)
(* than there is, unless another file landed since its scan.                *)
CallFine(c, hs, ev) ==
    /\ c.at = "none" => Honest = {}
    /\ c.at \in {"cached", "mismatch", "ask"} => Honest \subseteq c.ask
    /\ c.at \in CallSteps \ {"record", "full"} => c.due = {}
    /\ c.at \in {"evict", "record"} =>
         /\ SizeOf[c.h] <= Capacity
         /\ ~c.raced => hs \subseteq Range(c.plan) /\ Bytes(hs) <= c.total
    /\ c.at = "remeasure" /\ SizeOf[c.h] <= Capacity /\ ~c.raced =>
         Bytes(hs) + SizeOf[c.h] <= Capacity
    /\ c.at = "write" => SizeOf[c.h] <= Capacity
    /\ c.at = "full" /\ ev /\ SizeOf[c.h] <= Capacity => c.raced

CallsFine == \A w \in Writers : CallFine(writing[w], Range(files), evicting)

(* What a call is about to add.                                             *)
Owed(c) == IF c.at = "write" THEN SizeOf[c.h] ELSE 0
Owing == [w \in Writers |-> Owed(writing[w])]

(* What is on disk and what is about to come exceed the cap by at most what *)
(* all writers but one may add.                                             *)
Overrun == Cardinality(Writers) * Largest - Largest
StoreBounded == total_size_bytes + SumFunction(Owing) <= Capacity + Overrun

AInv == ArtTypeOK /\ CallsFine /\ AbsencesAttributed /\ StoreBounded

LEMMA NamesOnDisk ==
    ASSUME NEW s \in Seq(Hashes)
    PROVE  /\ Range(s) \in SUBSET Hashes /\ IsFiniteSet(Range(s))
           /\ \A h : h \in Range(s) <=> \E i \in 1 .. Len(s) : s[i] = h
<1>1. DOMAIN s = 1 .. Len(s) /\ IsFiniteSet(1 .. Len(s))
    BY FS_Interval
<1>2. Range(s) = {s[i] : i \in 1 .. Len(s)}
    BY <1>1 DEF Range
<1>3. s \in Surjection(1 .. Len(s), Range(s))
    BY <1>1, <1>2 DEF Surjection
<1>4. IsFiniteSet(Range(s))
    BY <1>1, <1>3, FS_Surjection
<1> QED
    BY <1>2, <1>4

(* The bytes of a set of artifacts, by one of them, and of a part of it.    *)
LEMMA BytesAdd ==
    ASSUME NEW hs \in SUBSET Hashes, IsFiniteSet(hs)
    PROVE  /\ Bytes(hs) \in Nat
           /\ \A h \in hs : Bytes(hs) = SizeOf[h] + Bytes(hs \ {h})
           /\ \A rest \in SUBSET hs : Bytes(rest) \in Nat /\ Bytes(rest) <= Bytes(hs)
<1> DEFINE Sizes(s) == [h \in s |-> SizeOf[h]]
<1>0. \A s \in SUBSET hs : /\ IsFiniteSet(s) /\ Sizes(s) \in [s -> Nat]
                           /\ Bytes(s) = SumFunctionOnSet(Sizes(s), s)
    <2> TAKE s \in SUBSET hs
    <2>1. IsFiniteSet(s) /\ Sizes(s) \in [s -> Nat] /\ DOMAIN Sizes(s) = s
        BY FS_Subset DEF ArtifactAssumption
    <2> QED
        BY <2>1 DEF Bytes, SumFunction
<1>1. \A s \in SUBSET hs : Bytes(s) \in Nat /\ Restrict(Sizes(hs), s) = Sizes(s)
    <2> TAKE s \in SUBSET hs
    <2>1. Restrict(Sizes(hs), s) = Sizes(s)
        BY DEF Restrict
    <2> HIDE DEF Sizes
    <2>2. IsFiniteSet(s) /\ Sizes(s) \in [s -> Nat]
        BY <1>0
    <2>3. SumFunctionOnSet(Sizes(s), s) \in Nat
        BY <2>2, SumIsNat
    <2>4. Bytes(s) \in Nat
        BY <2>3, <1>0
    <2> QED BY <2>1, <2>4
<1>2. ASSUME NEW h \in hs PROVE Bytes(hs) = SizeOf[h] + Bytes(hs \ {h})
    <2>1. Sizes(hs)[h] = SizeOf[h] /\ Sizes(hs) \in [hs -> Int]
        BY <1>0
    <2>2. SumFunctionOnSet(Sizes(hs), hs)
            = Sizes(hs)[h] + SumFunctionOnSet(Restrict(Sizes(hs), hs \ {h}), hs \ {h})
        BY <2>1, SumRemove
    <2> HIDE DEF Sizes
    <2> QED
        BY <2>1, <2>2, <1>0, <1>1
<1>3. ASSUME NEW rest \in SUBSET hs PROVE Bytes(rest) <= Bytes(hs)
    <2> HIDE DEF Sizes
    <2>1. SumFunctionOnSet(Restrict(Sizes(hs), rest), rest) <= SumFunctionOnSet(Sizes(hs), hs)
        BY <1>0, SumOfPart
    <2> QED
        BY <2>1, <1>0, <1>1
<1> QED
    BY <1>1, <1>2, <1>3

LEMMA NoBytes == Bytes({}) = 0
<1> DEFINE f == [h \in {} |-> SizeOf[h]]
<1>1. f \in [{} -> Int] /\ DOMAIN f = {}
    OBVIOUS
<1> HIDE DEF f
<1>2. SumFunctionOnSet(f, {}) = 0
    BY <1>1, SumOfNothing
<1> QED
    BY <1>1, <1>2 DEF Bytes, SumFunction, f

(* A file goes and the others keep their order.                             *)
LEMMA FileGoes ==
    ASSUME files \in Seq(Hashes), IsInjective(files), NEW h
    PROVE  /\ Without(h) \in Seq(Hashes) /\ IsInjective(Without(h))
           /\ Range(Without(h)) = Range(files) \ {h}
           /\ ~exists(h) => Without(h) = files
<1>1. CASE ~exists(h)
    BY <1>1 DEF Without, exists
<1>2. CASE exists(h)
    <2> DEFINE i == CHOOSE i \in DOMAIN files : files[i] = h
               n == Len(files)
               s == [j \in 1 .. n - 1 |-> files[IF j < i THEN j ELSE j + 1]]
    <2>1. DOMAIN files = 1 .. n /\ n \in Nat
        OBVIOUS
    <2>2. i \in 1 .. n /\ files[i] = h
        BY <1>2, <2>1 DEF exists, Range
    <2>3. Without(h) = s
        BY <1>2 DEF Without
    <2> HIDE DEF i
    <2>4. \A a, b \in 1 .. n : files[a] = files[b] => a = b
        BY <2>1 DEF IsInjective
    <2>5. \A j \in 1 .. n - 1 : /\ (IF j < i THEN j ELSE j + 1) \in 1 .. n
                                /\ (IF j < i THEN j ELSE j + 1) # i
        BY <2>1, <2>2
    <2>6. s \in Seq(Hashes) /\ Len(s) = n - 1
        <3>1. \A j \in 1 .. n - 1 : s[j] \in Hashes
            BY <2>5
        <3>2. n - 1 \in Nat
            BY <2>1, <2>2
        <3> QED
            BY <3>1, <3>2, SeqDef
    <2>7. IsInjective(s)
        <3> SUFFICES ASSUME NEW a \in 1 .. n - 1, NEW b \in 1 .. n - 1, s[a] = s[b]
                     PROVE  a = b
            BY <2>6 DEF IsInjective
        <3>1. (IF a < i THEN a ELSE a + 1) = (IF b < i THEN b ELSE b + 1)
            BY <2>4, <2>5
        <3> QED
            BY <3>1, <2>2
    <2>8. Range(s) = Range(files) \ {h}
        <3>1. ASSUME NEW g \in Range(s) PROVE g \in Range(files) /\ g # h
            <4>1. PICK j \in 1 .. n - 1 : s[j] = g
                BY <2>6, NamesOnDisk
            <4>2. PICK k \in 1 .. n : k # i /\ files[k] = g
                BY <4>1, <2>5
            <4> QED
                BY <4>2, <2>2, <2>4, NamesOnDisk
        <3>2. ASSUME NEW g \in Range(files), g # h PROVE g \in Range(s)
            <4>1. PICK k \in 1 .. n : files[k] = g
                BY NamesOnDisk
            <4>2. k # i
                BY <4>1, <3>2, <2>2
            <4> DEFINE j == IF k < i THEN k ELSE k - 1
            <4>3. j \in 1 .. n - 1 /\ (IF j < i THEN j ELSE j + 1) = k
                BY <4>2, <2>1, <2>2
            <4>4. s[j] = g
                BY <4>1, <4>3
            <4> QED
                BY <4>3, <4>4, <2>6, NamesOnDisk
        <3> QED
            BY <3>1, <3>2
    <2> QED
        BY <1>2, <2>3, <2>6, <2>7, <2>8
<1> QED
    BY <1>1, <1>2

(* A file lands as the newest.                                              *)
LEMMA FileLands ==
    ASSUME NEW s \in Seq(Hashes), IsInjective(s), NEW h \in Hashes, h \notin Range(s)
    PROVE  /\ Append(s, h) \in Seq(Hashes) /\ IsInjective(Append(s, h))
           /\ Range(Append(s, h)) = Range(s) \cup {h}
<1> DEFINE t == Append(s, h)
<1>1. /\ t \in Seq(Hashes) /\ Len(t) = Len(s) + 1 /\ Len(s) \in Nat
      /\ \A i \in 1 .. Len(s) : t[i] = s[i]
      /\ t[Len(s) + 1] = h
      /\ DOMAIN t = 1 .. Len(s) + 1 /\ DOMAIN s = 1 .. Len(s)
    OBVIOUS
<1> HIDE DEF t
<1>2. \A i \in 1 .. Len(s) : s[i] # h
    BY NamesOnDisk
<1>3. IsInjective(t)
    <2>1. \A a, b \in 1 .. Len(s) : s[a] = s[b] => a = b
        BY <1>1 DEF IsInjective
    <2> SUFFICES ASSUME NEW a \in 1 .. Len(s) + 1, NEW b \in 1 .. Len(s) + 1, t[a] = t[b]
                 PROVE  a = b
        BY <1>1 DEF IsInjective
    <2>2. /\ a \in 1 .. Len(s) \/ a = Len(s) + 1
          /\ b \in 1 .. Len(s) \/ b = Len(s) + 1
        BY <1>1
    <2> QED
        BY <2>1, <2>2, <1>1, <1>2
<1>4. ASSUME NEW g PROVE g \in Range(t) <=> g \in Range(s) \/ g = h
    <2>1. g \in Range(t) <=> \E i \in 1 .. Len(s) + 1 : t[i] = g
        BY <1>1, NamesOnDisk
    <2>2. g \in Range(s) <=> \E i \in 1 .. Len(s) : s[i] = g
        BY NamesOnDisk
    <2>3. \A i \in 1 .. Len(s) + 1 : i \in 1 .. Len(s) \/ i = Len(s) + 1
        BY <1>1
    <2>4. Len(s) + 1 \in 1 .. Len(s) + 1 /\ 1 .. Len(s) \subseteq 1 .. Len(s) + 1
        BY <1>1
    <2> QED
        BY <2>1, <2>2, <2>3, <2>4, <1>1
<1> QED
    BY <1>1, <1>3, <1>4 DEF t

(* The list of a scan is the file tried next and the rest.                  *)
LEMMA PlanSplits ==
    ASSUME NEW s \in Seq(Hashes), s # <<>>
    PROVE  /\ Head(s) \in Hashes /\ Tail(s) \in Seq(Hashes)
           /\ Range(s) \subseteq Range(Tail(s)) \cup {Head(s)}
<1>1. /\ Head(s) = s[1] /\ Head(s) \in Hashes /\ Tail(s) \in Seq(Hashes)
      /\ Len(Tail(s)) = Len(s) - 1 /\ Len(s) \in Nat
      /\ \A i \in 1 .. Len(s) - 1 : Tail(s)[i] = s[i + 1]
    OBVIOUS
<1>2. ASSUME NEW g \in Range(s), g # Head(s) PROVE g \in Range(Tail(s))
    <2>1. PICK i \in 1 .. Len(s) : s[i] = g
        BY NamesOnDisk
    <2>2. i - 1 \in 1 .. Len(s) - 1 /\ Tail(s)[i - 1] = g
        BY <2>1, <1>1, <1>2
    <2> QED
        BY <2>2, <1>1, NamesOnDisk
<1> QED
    BY <1>1, <1>2

(* The largest artifact that the cap lets in.                               *)
LEMMA LargestIs ==
    /\ Largest \in Nat
    /\ \A h \in Hashes : SizeOf[h] <= Capacity => SizeOf[h] <= Largest
<1> DEFINE T == {0} \cup {n \in 0 .. Capacity : \E h \in Hashes : SizeOf[h] = n}
           P == T \ {0}
<1>0. Capacity \in Nat /\ \A h \in Hashes : SizeOf[h] \in Nat
    BY DEF ArtifactAssumption
<1>1. T \in SUBSET Nat /\ P \in SUBSET (1 .. Capacity) /\ 0 \in T
    BY <1>0
<1>2. \A h \in Hashes : SizeOf[h] <= Capacity => SizeOf[h] \in T
    BY <1>0
<1>3. Largest = CHOOSE x \in T : \A y \in T : x >= y
    BY DEF Largest, Max
<1> HIDE DEF T
<1>4. \E x \in T : \A y \in T : x >= y
    <2>1. CASE P = {}
        BY <2>1, <1>1
    <2>2. CASE P # {}
        <3> HIDE DEF P
        <3>1. PICK x \in P : \A y \in P : y <= x
            BY <2>2, <1>0, <1>1, HasLast
        <3>2. x \in Nat /\ x \in T /\ \A y \in T : x >= y
            BY <3>1, <1>1 DEF P
        <3> QED BY <3>2
    <2> QED BY <2>1, <2>2
<1>5. Largest \in T /\ \A y \in T : Largest >= y
    BY <1>3, <1>4
<1> QED
    BY <1>0, <1>1, <1>2, <1>5

Endings == {"idle", "ok", "none", "raised", "crashed"}
CallRecords ==
    [at : CallSteps, h : Hashes, plan : Seq(Hashes), total : Int, due : SUBSET Hashes,
     ask : SUBSET Peers, raced : BOOLEAN]

LEMMA CallsAreTyped ==
    /\ CallRecords \subseteq CallStates
    /\ \A a \in Endings : Done(a) \in CallStates /\ Done(a).at = a
    /\ \A c \in CallStates : /\ c.at \in CallSteps => c \in CallRecords
                             /\ c.at \in CallSteps \cup Endings
<1>1. /\ CallRecords \subseteq CallStates
      /\ \A a \in Endings : Done(a) \in CallStates /\ Done(a).at = a
    BY DEF CallStates, CallRecords, CallSteps, Endings, Done
<1>2. ASSUME NEW c \in CallStates
      PROVE  /\ c.at \in CallSteps => c \in CallRecords
             /\ c.at \in CallSteps \cup Endings
    <2>1. c \in CallRecords \/ \E a \in Endings : c = Done(a)
        BY DEF CallStates, CallRecords, CallSteps, Endings
    <2>2. CASE c \in CallRecords
        BY <2>2 DEF CallRecords
    <2>3. CASE \E a \in Endings : c = Done(a)
        BY <2>3 DEF Done, CallSteps, Endings
    <2> QED BY <2>1, <2>2, <2>3
<1> QED
    BY <1>1, <1>2

(* A call that was fine stays so when files go.                             *)
LEMMA FineWithLess ==
    ASSUME NEW c \in CallStates, NEW hs \in SUBSET Hashes, IsFiniteSet(hs),
           NEW rest \in SUBSET hs, NEW ev, CallFine(c, hs, ev)
    PROVE  CallFine(c, rest, ev)
<1>1. Bytes(hs) \in Nat /\ Bytes(rest) \in Nat /\ Bytes(rest) <= Bytes(hs)
    BY BytesAdd
<1>2. c.at \in {"evict", "record", "remeasure"} => c.total \in Int /\ SizeOf[c.h] \in Nat
    BY CallsAreTyped DEF CallRecords, CallSteps, ArtifactAssumption
<1>3. Capacity \in Nat
    BY DEF ArtifactAssumption
<1> QED
    BY <1>1, <1>2, <1>3 DEF CallFine

LEMMA OwedIsNat ==
    \A c \in CallStates : /\ Owed(c) \in Nat
                          /\ c.at # "write" => Owed(c) = 0
                          /\ c.at = "write" => Owed(c) = SizeOf[c.h]
BY CallsAreTyped DEF Owed, CallRecords, CallSteps, ArtifactAssumption

(* What all writers are about to add: all but one of them add what the cap  *)
(* lets in.                                                                 *)
LEMMA OwingIsBounded ==
    ASSUME writing \in [Writers -> CallStates], CallsFine, NEW w \in Writers
    PROVE  /\ Owing \in [Writers -> Nat] /\ SumFunction(Owing) \in Nat
           /\ SumFunction(Owing) - Owing[w] <= Overrun
           /\ Overrun \in Nat
<1>0. IsFiniteSet(Writers) /\ Largest \in Nat /\ Capacity \in Nat
    BY LargestIs DEF ArtifactAssumption
<1>1. Owing \in [Writers -> Nat] /\ DOMAIN Owing = Writers
    BY OwedIsNat DEF Owing
<1>2. \A v \in Writers : Owing[v] \in 0 .. Largest
    <2> TAKE v \in Writers
    <2>1. writing[v] \in CallStates /\ CallFine(writing[v], Range(files), evicting)
        BY DEF CallsFine
    <2>2. CASE writing[v].at # "write"
        BY <2>1, <2>2, <1>0, OwedIsNat DEF Owing
    <2>3. CASE writing[v].at = "write"
        <3>1. writing[v].h \in Hashes /\ SizeOf[writing[v].h] <= Capacity
            BY <2>1, <2>3, CallsAreTyped DEF CallRecords, CallSteps, CallFine
        <3>2. SizeOf[writing[v].h] <= Largest /\ Owing[v] = SizeOf[writing[v].h]
            BY <3>1, <2>1, <2>3, LargestIs, OwedIsNat DEF Owing
        <3> QED
            BY <3>2, <1>0, <1>1
    <2> QED BY <2>2, <2>3
<1> DEFINE R == Writers \ {w}
           f == Restrict(Owing, R)
<1>3. f \in [R -> 0 .. Largest] /\ IsFiniteSet(R)
    BY <1>0, <1>1, <1>2, FS_Subset DEF Restrict
<1>4. Cardinality(R) = Cardinality(Writers) - 1 /\ Cardinality(Writers) \in Nat
    BY <1>0, FS_RemoveElement, FS_CardinalityType
<1>5. Cardinality(R) \in Nat
    BY <1>3, FS_CardinalityType
<1>6. SumFunctionOnSet(f, R) <= Cardinality(R) * Largest
    BY <1>0, <1>3, SumIsBounded
<1>7. SumFunctionOnSet(Owing, Writers) = Owing[w] + SumFunctionOnSet(f, R)
    <2>1. Owing \in [Writers -> Int]
        BY <1>1
    <2> QED BY <2>1, <1>0, SumRemove
<1>8. SumFunctionOnSet(f, R) \in Nat
    <2>1. f \in [R -> Nat]
        BY <1>3, <1>0
    <2> QED BY <2>1, <1>3, SumIsNat
<1>9. Cardinality(R) * Largest = Overrun /\ Cardinality(R) * Largest \in Nat
    <2>1. \A a, b \in Nat : a * b \in Nat
        OBVIOUS
    <2>2. \A a, b \in Int : (a - 1) * b = a * b - b
        OBVIOUS
    <2> QED
        BY <2>1, <2>2, <1>0, <1>4, <1>5 DEF Overrun
<1>10. SumFunction(Owing) = SumFunctionOnSet(Owing, Writers) /\ Owing[w] \in Nat
    BY <1>1 DEF SumFunction
<1> HIDE DEF f, R
<1> QED
    BY <1>1, <1>6, <1>7, <1>8, <1>9, <1>10

(* A call has unlinked the file and not recorded it; how often the file     *)
(* has gone without a trace so far.                                         *)
Pending(c, h) == IF c.at = "record" /\ h \in c.due THEN 1 ELSE 0
Missing(h) == landed[h] - (IF exists(h) THEN 1 ELSE 0) - toms[h] - deleted[h] - unlogged[h]

LEMMA MissingIsPending ==
    ASSUME ArtTypeOK
    PROVE  /\ AbsencesAttributed <=> \A h \in Hashes : Missing(h) = Cardinality(Unrecorded(h))
           /\ \A h \in Hashes : /\ landed[h] \in Nat /\ toms[h] \in Nat
                                /\ deleted[h] \in Nat /\ unlogged[h] \in Nat
                                /\ Missing(h) \in Int
                                /\ IsFiniteSet(Unrecorded(h))
                                /\ Cardinality(Unrecorded(h)) \in Nat
<1>1. ASSUME NEW h \in Hashes
      PROVE  /\ landed[h] \in Nat /\ toms[h] \in Nat /\ deleted[h] \in Nat /\ unlogged[h] \in Nat
             /\ IsFiniteSet(Unrecorded(h)) /\ Cardinality(Unrecorded(h)) \in Nat
    <2>1. landed[h] \in Nat /\ toms[h] \in Nat /\ deleted[h] \in Nat /\ unlogged[h] \in Nat
        BY DEF ArtTypeOK
    <2>2. IsFiniteSet(Unrecorded(h))
        BY FS_Subset DEF Unrecorded, ArtifactAssumption
    <2> QED
        BY <2>1, <2>2, FS_CardinalityType
<1>2. ASSUME NEW h \in Hashes
      PROVE  /\ Missing(h) \in Int
             /\ Missing(h) = Cardinality(Unrecorded(h))
                <=> landed[h] = (IF exists(h) THEN 1 ELSE 0) + toms[h] + deleted[h] + unlogged[h]
                                + Cardinality(Unrecorded(h))
    <2> DEFINE here == IF exists(h) THEN 1 ELSE 0
    <2>1. here \in Nat /\ Missing(h) = landed[h] - here - toms[h] - deleted[h] - unlogged[h]
        BY DEF Missing
    <2> HIDE DEF here
    <2>2. /\ Missing(h) \in Int
          /\ Missing(h) = Cardinality(Unrecorded(h))
                <=> landed[h] = here + toms[h] + deleted[h] + unlogged[h]
                                + Cardinality(Unrecorded(h))
        BY <2>1, <1>1
    <2> QED
        BY <2>2 DEF here
<1>3. AbsencesAttributed <=> \A h \in Hashes : Missing(h) = Cardinality(Unrecorded(h))
    BY <1>2 DEF AbsencesAttributed
<1> QED
    BY <1>1, <1>2, <1>3

LEMMA PendingMoves ==
    ASSUME ArtTypeOK, NEW w \in Writers, NEW c, NEW h \in Hashes,
           writing' = [writing EXCEPT ![w] = c]
    PROVE  Cardinality(Unrecorded(h)')
             = Cardinality(Unrecorded(h)) - Pending(writing[w], h) + Pending(c, h)
<1>0. /\ writing \in [Writers -> CallStates]
      /\ IsFiniteSet(Unrecorded(h)) /\ Cardinality(Unrecorded(h)) \in Nat
    BY MissingIsPending DEF ArtTypeOK
<1> DEFINE U == Unrecorded(h)
           V == U \ {w}
<1>1. IsFiniteSet(V) /\ Cardinality(V) \in Nat
      /\ Cardinality(V) = Cardinality(U) - Pending(writing[w], h)
    <2>1. w \in U <=> Pending(writing[w], h) = 1
        BY DEF Unrecorded, Pending
    <2>2. IsFiniteSet(V) /\ Cardinality(V) = IF w \in U THEN Cardinality(U) - 1 ELSE Cardinality(U)
        BY <1>0, FS_RemoveElement
    <2>3. Pending(writing[w], h) \in {0, 1}
        BY DEF Pending
    <2> QED
        BY <2>1, <2>2, <2>3, <1>0, FS_CardinalityType
<1>2. CASE Pending(c, h) = 1
    <2>1. Unrecorded(h)' = V \cup {w}
        BY <1>0, <1>2 DEF Unrecorded, Pending
    <2>2. Cardinality(V \cup {w}) = Cardinality(V) + 1
        BY <1>1, FS_AddElement
    <2> QED
        BY <2>1, <2>2, <1>0, <1>1, <1>2
<1>3. CASE Pending(c, h) # 1
    <2>1. Pending(c, h) = 0
        BY <1>3 DEF Pending
    <2>2. Unrecorded(h)' = V
        BY <1>0, <1>3 DEF Unrecorded, Pending
    <2> QED
        BY <2>1, <2>2, <1>1
<1> QED
    BY <1>2, <1>3

(* What a call does, or a reader, when no file lands.                       *)
LEMMA NothingLands ==
    ASSUME AInv, ArtTypeOK', NEW w \in Writers, NEW c \in CallStates,
           writing' = [writing EXCEPT ![w] = c], UNCHANGED evicting,
           Range(files') \in SUBSET Range(files),
           CallFine(c, Range(files'), evicting),
           \/ Owed(c) <= Owed(writing[w])
           \/ Bytes(Range(files')) + Owed(c) <= Capacity,
           \A h \in Hashes : Missing(h)' = Missing(h) - Pending(writing[w], h) + Pending(c, h)
    PROVE  AInv'
<1>0. /\ ArtTypeOK /\ CallsFine /\ AbsencesAttributed /\ StoreBounded
      /\ writing \in [Writers -> CallStates] /\ writing' \in [Writers -> CallStates]
      /\ files \in Seq(Hashes) /\ files' \in Seq(Hashes)
    BY DEF AInv, ArtTypeOK
<1>1. /\ Range(files) \in SUBSET Hashes /\ IsFiniteSet(Range(files))
      /\ Range(files') \in SUBSET Hashes /\ IsFiniteSet(Range(files'))
    BY <1>0, NamesOnDisk
<1>2. CallsFine'
    <2> SUFFICES ASSUME NEW v \in Writers
                 PROVE  CallFine(writing'[v], Range(files'), evicting)
        BY DEF CallsFine
    <2>1. CASE v = w
        BY <2>1, <1>0
    <2>2. CASE v # w
        <3>1. writing'[v] = writing[v] /\ writing[v] \in CallStates
            BY <2>2, <1>0
        <3>2. CallFine(writing[v], Range(files), evicting)
            BY <1>0 DEF CallsFine
        <3>3. CallFine(writing[v], Range(files'), evicting)
            BY <3>1, <3>2, <1>1, FineWithLess
        <3> QED BY <3>1, <3>3
    <2> QED BY <2>1, <2>2
<1>3. AbsencesAttributed'
    <2>1. \A h \in Hashes : Missing(h) = Cardinality(Unrecorded(h))
        BY <1>0, MissingIsPending
    <2>2. \A h \in Hashes : Cardinality(Unrecorded(h)')
             = Cardinality(Unrecorded(h)) - Pending(writing[w], h) + Pending(c, h)
        BY <1>0, PendingMoves
    <2>3. \A h \in Hashes : Missing(h)' = Cardinality(Unrecorded(h)')
        BY <2>1, <2>2
    <2> SUFFICES ASSUME NEW h \in Hashes
                 PROVE  landed'[h] = (IF exists(h)' THEN 1 ELSE 0) + toms'[h] + deleted'[h]
                                     + unlogged'[h] + Cardinality(Unrecorded(h)')
        BY DEF AbsencesAttributed
    <2> DEFINE here == IF exists(h)' THEN 1 ELSE 0
    <2>4. landed'[h] \in Nat /\ toms'[h] \in Nat /\ deleted'[h] \in Nat /\ unlogged'[h] \in Nat
        BY DEF ArtTypeOK
    <2>5. here \in Nat /\ Missing(h)' = landed'[h] - here - toms'[h] - deleted'[h] - unlogged'[h]
        BY DEF Missing
    <2> HIDE DEF here
    <2>6. landed'[h] = here + toms'[h] + deleted'[h] + unlogged'[h] + Cardinality(Unrecorded(h)')
        BY <2>3, <2>4, <2>5
    <2> QED
        BY <2>6 DEF here
<1>4. StoreBounded'
    <2> DEFINE f == Owing
    <2>1. /\ f \in [Writers -> Nat] /\ SumFunction(f) \in Nat
          /\ SumFunction(f) - f[w] <= Overrun /\ Overrun \in Nat
        BY <1>0, OwingIsBounded
    <2>2. Owing' = [f EXCEPT ![w] = Owed(c)]
        BY <1>0 DEF Owing
    <2>3. Owed(c) \in Nat /\ f[w] = Owed(writing[w]) /\ f[w] \in Nat
        BY <2>1, OwedIsNat DEF Owing
    <2> HIDE DEF f
    <2>4. SumFunction(Owing') = SumFunction(f) - f[w] + Owed(c)
        BY <2>1, <2>2, <2>3, SumOfChange DEF ArtifactAssumption
    <2>5. /\ Bytes(Range(files)) \in Nat /\ Bytes(Range(files')) \in Nat
          /\ Bytes(Range(files')) <= Bytes(Range(files))
        BY <1>1, BytesAdd
    <2>6. Bytes(Range(files)) + SumFunction(f) <= Capacity + Overrun /\ Capacity \in Nat
        BY <1>0 DEF StoreBounded, total_size_bytes, f, ArtifactAssumption
    <2>7. Bytes(Range(files')) + SumFunction(Owing') <= Capacity + Overrun
        BY <2>1, <2>3, <2>4, <2>5, <2>6
    <2> QED
        BY <2>7 DEF StoreBounded, total_size_bytes, Overrun, Largest
<1> QED
    BY <1>2, <1>3, <1>4 DEF AInv

LEMMA CallKnown ==
    ASSUME AInv, NEW w \in Writers
    PROVE  /\ writing[w] \in CallStates /\ CallFine(writing[w], Range(files), evicting)
           /\ writing[w].at \in CallSteps =>
                /\ writing[w] \in CallRecords
                /\ writing[w].h \in Hashes /\ SizeOf[writing[w].h] \in Nat
                /\ writing[w].plan \in Seq(Hashes) /\ writing[w].total \in Int
                /\ writing[w].due \in SUBSET Hashes /\ writing[w].ask \in SUBSET Peers
                /\ writing[w].raced \in BOOLEAN
           /\ files \in Seq(Hashes) /\ IsInjective(files)
           /\ Range(files) \in SUBSET Hashes /\ IsFiniteSet(Range(files))
           /\ Bytes(Range(files)) \in Nat /\ Capacity \in Nat
<1>1. writing[w] \in CallStates /\ CallFine(writing[w], Range(files), evicting)
      /\ files \in Seq(Hashes) /\ IsInjective(files)
    BY DEF AInv, ArtTypeOK, CallsFine
<1>2. writing[w].at \in CallSteps => writing[w] \in CallRecords
    BY <1>1, CallsAreTyped
<1>3. Range(files) \in SUBSET Hashes /\ IsFiniteSet(Range(files))
    BY <1>1, NamesOnDisk
<1>4. Bytes(Range(files)) \in Nat
    BY <1>3, BytesAdd
<1> QED
    BY <1>1, <1>2, <1>3, <1>4 DEF CallRecords, ArtifactAssumption

(* A call moves on, and leaves the files and the logs alone.                *)
LEMMA CallMoves ==
    ASSUME AInv, NEW w \in Writers, NEW c \in CallStates,
           writing' = [writing EXCEPT ![w] = c], ops' \in [Writers -> 0 .. MaxOps],
           UNCHANGED <<evicting, files, rotten, toms, reading, landed, deleted, unlogged>>,
           writing[w].at # "record", c.at # "record",
           CallFine(c, Range(files), evicting), c.at = "write" => Fits(c.h)
    PROVE  AInv'
<1>1. ArtTypeOK'
    BY DEF AInv, ArtTypeOK
<1>2. \A h \in Hashes : Missing(h) \in Int
    BY MissingIsPending DEF AInv
<1>3. \A h \in Hashes : Missing(h)' = Missing(h) - Pending(writing[w], h) + Pending(c, h)
    BY <1>2 DEF Missing, exists, Pending
<1>4. writing[w] \in CallStates
    BY CallKnown
<1>5. \/ Owed(c) <= Owed(writing[w])
      \/ Bytes(Range(files')) + Owed(c) <= Capacity
    BY <1>4, OwedIsNat DEF Fits, total_size_bytes
<1>6. Range(files') \in SUBSET Range(files) /\ CallFine(c, Range(files'), evicting)
    OBVIOUS
<1> QED
    BY <1>1, <1>3, <1>5, <1>6, NothingLands

(* A corrupt file goes.                                                     *)
LEMMA FileDropped ==
    ASSUME AInv, NEW h \in Hashes, Drop(h), UNCHANGED <<toms, landed, unlogged>>
    PROVE  /\ files' \in Seq(Hashes) /\ IsInjective(files') /\ rotten' \in SUBSET Range(files')
           /\ deleted' \in [Hashes -> Nat]
           /\ Range(files') \in SUBSET Range(files)
           /\ \A g \in Hashes : Missing(g)' = Missing(g)
<1>0. /\ files \in Seq(Hashes) /\ IsInjective(files) /\ rotten \in SUBSET Range(files)
      /\ deleted \in [Hashes -> Nat]
    BY DEF AInv, ArtTypeOK
<1>1. /\ files' \in Seq(Hashes) /\ IsInjective(files')
      /\ Range(files') = Range(files) \ {h}
    BY <1>0, FileGoes DEF Drop
<1>2. rotten' \in SUBSET Range(files') /\ deleted' \in [Hashes -> Nat]
    <2>1. rotten' \in SUBSET Range(files')
        BY <1>0, <1>1 DEF Drop
    <2> DEFINE here == IF exists(h) THEN 1 ELSE 0
    <2>2. here \in Nat /\ deleted' = [deleted EXCEPT ![h] = deleted[h] + here]
        BY DEF Drop
    <2> HIDE DEF here
    <2>3. deleted' \in [Hashes -> Nat]
        BY <1>0, <2>2
    <2> QED BY <2>1, <2>3
<1>3. ASSUME NEW g \in Hashes PROVE Missing(g)' = Missing(g)
    <2>0. /\ landed[g] \in Nat /\ toms[g] \in Nat /\ deleted[g] \in Nat /\ unlogged[g] \in Nat
        BY MissingIsPending DEF AInv
    <2>1. CASE g # h
        <3>1. deleted'[g] = deleted[g] /\ (exists(g)' <=> exists(g))
            BY <2>1, <1>0, <1>1 DEF Drop, exists
        <3> QED BY <3>1 DEF Missing
    <2>2. CASE g = h /\ exists(h)
        <3>1. deleted'[g] = deleted[g] + 1 /\ ~exists(g)' /\ exists(g)
            BY <2>2, <1>0, <1>1 DEF Drop, exists
        <3> QED BY <3>1, <2>0 DEF Missing
    <2>3. CASE g = h /\ ~exists(h)
        <3>1. deleted'[g] = deleted[g] + 0 /\ ~exists(g)' /\ ~exists(g)
            BY <2>3, <1>0, <1>1 DEF Drop, exists
        <3> QED BY <3>1, <2>0 DEF Missing
    <2> QED BY <2>1, <2>2, <2>3
<1> QED
    BY <1>1, <1>2, <1>3

-----------------------------------------------------------------------------
(* The steps of store and fetch.                                            *)

LEMMA NewCalls ==
    ASSUME NEW h \in Hashes, NEW hs, NEW ev
    PROVE  /\ Call("measure", h, {}) \in CallStates
           /\ Call("measure", h, {}).at = "measure" /\ CallFine(Call("measure", h, {}), hs, ev)
           /\ Done("ok") \in CallStates /\ Done("ok").at = "ok" /\ CallFine(Done("ok"), hs, ev)
           /\ Done("raised") \in CallStates /\ Done("raised").at = "raised"
           /\ CallFine(Done("raised"), hs, ev)
           /\ Done("crashed") \in CallStates /\ Done("crashed").at = "crashed"
           /\ CallFine(Done("crashed"), hs, ev)
           /\ Honest = {} => CallFine(Done("none"), hs, ev)
           /\ Done("none") \in CallStates /\ Done("none").at = "none"
           /\ \A a \in {"cached", "ask"} :
                Call(a, h, Peers) \in CallStates /\ Call(a, h, Peers).at = a
                /\ CallFine(Call(a, h, Peers), hs, ev)
<1>1. /\ Call("measure", h, {}) \in CallRecords
      /\ \A a \in {"cached", "ask"} : Call(a, h, Peers) \in CallRecords
    <2>1. \A a \in CallSteps, ps \in SUBSET Peers, s \in Seq(Hashes) :
            [at |-> a, h |-> h, plan |-> s, total |-> 0, due |-> {}, ask |-> ps, raced |-> FALSE]
              \in CallRecords
        BY DEF CallRecords
    <2>2. <<>> \in Seq(Hashes) /\ {"cached", "ask", "measure"} \subseteq CallSteps
        BY DEF CallSteps
    <2> QED
        BY <2>1, <2>2 DEF Call
<1>2. /\ Call("measure", h, {}).at = "measure" /\ Call("measure", h, {}).due = {}
      /\ \A a \in {"cached", "ask"} : /\ Call(a, h, Peers).at = a
                                      /\ Call(a, h, Peers).ask = Peers
                                      /\ Call(a, h, Peers).due = {}
    BY DEF Call
<1>3. /\ CallFine(Call("measure", h, {}), hs, ev)
      /\ \A a \in {"cached", "ask"} : CallFine(Call(a, h, Peers), hs, ev)
    BY <1>2 DEF CallFine, ArtifactAssumption
<1>4. /\ CallFine(Done("ok"), hs, ev) /\ CallFine(Done("crashed"), hs, ev)
      /\ CallFine(Done("raised"), hs, ev)
      /\ Honest = {} => CallFine(Done("none"), hs, ev)
    BY DEF CallFine, CallSteps, Done
<1> QED
    BY <1>1, <1>2, <1>3, <1>4, CallsAreTyped DEF Endings

LEMMA StoreCalled ==
    ASSUME AInv, NEW w \in Writers, NEW h \in Hashes, store(w, h)
    PROVE  AInv'
<1> DEFINE c == IF exists(h) THEN Done("ok") ELSE Call("measure", h, {})
<1>1. /\ c \in CallStates /\ c.at \in {"ok", "measure"}
      /\ CallFine(c, Range(files), evicting)
    BY NewCalls
<1>2. writing' = [writing EXCEPT ![w] = c]
    BY DEF store, Go
<1>3. ops' \in [Writers -> 0 .. MaxOps]
    BY DEF store, AInv, ArtTypeOK, ArtifactAssumption
<1>4. writing[w].at # "record"
    BY DEF store, Ended
<1>5. UNCHANGED <<evicting, files, rotten, toms, reading, landed, deleted, unlogged>>
    BY DEF store, ledger
<1> HIDE DEF c
<1> QED
    BY <1>1, <1>2, <1>3, <1>4, <1>5, CallMoves

LEMMA FetchCalled ==
    ASSUME AInv, NEW w \in Writers, NEW h \in Hashes, fetch(w, h)
    PROVE  AInv'
<1> DEFINE a == IF exists(h) THEN "cached" ELSE "ask"
           c == Call(a, h, Peers)
<1>1. ops' \in [Writers -> 0 .. MaxOps] /\ writing[w].at # "record"
    BY DEF fetch, AInv, ArtTypeOK, ArtifactAssumption, Ended
<1>2. /\ writing' = [writing EXCEPT ![w] = c] /\ a \in {"cached", "ask"}
      /\ UNCHANGED <<evicting, files, rotten, toms, reading, landed, deleted, unlogged>>
    BY DEF fetch, Go, ledger
<1> HIDE DEF a
<1>3. c \in CallStates /\ c.at = a /\ CallFine(c, Range(files), evicting)
    BY <1>2, NewCalls
<1> QED
    BY <1>1, <1>2, <1>3, CallMoves

LEMMA StepTo ==
    ASSUME NEW c \in CallRecords, NEW a \in CallSteps
    PROVE  LET d == [c EXCEPT !.at = a]
           IN  /\ d \in CallRecords /\ d \in CallStates /\ d.at = a
               /\ d.h = c.h /\ d.plan = c.plan /\ d.total = c.total /\ d.due = c.due
               /\ d.ask = c.ask /\ d.raced = c.raced
<1> DEFINE d == [c EXCEPT !.at = a]
<1>1. d \in CallRecords /\ d.at = a
      /\ d.h = c.h /\ d.plan = c.plan /\ d.total = c.total /\ d.due = c.due
      /\ d.ask = c.ask /\ d.raced = c.raced
    BY DEF CallRecords
<1> QED
    BY <1>1, CallsAreTyped

(* The changes of a call that evicts: its scan, an eviction, its end.       *)
Scanned(c, s, t) == [c EXCEPT !.at = "evict", !.plan = s, !.total = t, !.raced = FALSE]
Evicting(c, s, t, u) == [c EXCEPT !.plan = s, !.total = t, !.at = "record", !.due = u]
Swept(c, s, t) == [c EXCEPT !.at = "remeasure", !.plan = s, !.total = t]

LEMMA CallScanned ==
    ASSUME NEW c \in CallRecords, NEW s \in Seq(Hashes), NEW t \in Int
    PROVE  /\ Scanned(c, s, t) \in CallRecords
           /\ Scanned(c, s, t).at = "evict" /\ Scanned(c, s, t).h = c.h
           /\ Scanned(c, s, t).plan = s /\ Scanned(c, s, t).total = t
           /\ Scanned(c, s, t).due = c.due
BY DEF CallRecords, CallSteps, Scanned

LEMMA CallEvicting ==
    ASSUME NEW c \in CallRecords, NEW s \in Seq(Hashes), NEW t \in Int, NEW u \in SUBSET Hashes
    PROVE  /\ Evicting(c, s, t, u) \in CallRecords
           /\ Evicting(c, s, t, u).at = "record" /\ Evicting(c, s, t, u).h = c.h
           /\ Evicting(c, s, t, u).plan = s /\ Evicting(c, s, t, u).total = t
           /\ Evicting(c, s, t, u).due = u /\ Evicting(c, s, t, u).raced = c.raced
BY DEF CallRecords, CallSteps, Evicting

LEMMA CallSwept ==
    ASSUME NEW c \in CallRecords, NEW s \in Seq(Hashes), NEW t \in Int
    PROVE  /\ Swept(c, s, t) \in CallRecords
           /\ Swept(c, s, t).at = "remeasure" /\ Swept(c, s, t).h = c.h
           /\ Swept(c, s, t).due = c.due /\ Swept(c, s, t).raced = c.raced
BY DEF CallRecords, CallSteps, Swept

LEMMA MeasureStep ==
    ASSUME AInv, NEW w \in Writers, measure(w)
    PROVE  AInv'
<1> DEFINE c == writing[w]
           a == IF Fits(c.h) THEN "write" ELSE IF evicting THEN "scan" ELSE "full"
           d == [c EXCEPT !.at = a]
<1>0. c.at = "measure" /\ c.at \in CallSteps
    BY DEF measure, CallSteps
<1>1. /\ c \in CallRecords /\ c.h \in Hashes /\ SizeOf[c.h] \in Nat
      /\ Bytes(Range(files)) \in Nat /\ Capacity \in Nat /\ CallFine(c, Range(files), evicting)
    BY <1>0, CallKnown
<1>2. a \in CallSteps /\ (a = "write" => Fits(c.h)) /\ (a = "full" => ~evicting)
      /\ a \in {"write", "scan", "full"}
    BY DEF CallSteps
<1>3. /\ writing' = [writing EXCEPT ![w] = d]
      /\ UNCHANGED <<evicting, files, rotten, toms, reading, landed, deleted, unlogged>>
      /\ ops' \in [Writers -> 0 .. MaxOps]
    BY DEF measure, Go, ledger, AInv, ArtTypeOK
<1> HIDE DEF a
<1>4. d \in CallStates /\ d.at = a /\ d.h = c.h /\ d.due = c.due
    BY <1>1, <1>2, StepTo
<1> HIDE DEF d
<1>5. a = "write" => SizeOf[c.h] <= Capacity
    BY <1>1, <1>2 DEF Fits, total_size_bytes
<1>6. CallFine(d, Range(files), evicting)
    BY <1>0, <1>1, <1>2, <1>4, <1>5 DEF CallFine
<1> QED
    BY <1>0, <1>2, <1>3, <1>4, <1>6, CallMoves

LEMMA ScanStep ==
    ASSUME AInv, NEW w \in Writers, evict_scan(w)
    PROVE  AInv'
<1> DEFINE c == writing[w]
           hs == Range(files)
<1>0. c.at = "scan" /\ c.at \in CallSteps
    BY DEF evict_scan, CallSteps
<1>1. /\ c \in CallRecords /\ c.h \in Hashes /\ SizeOf[c.h] \in Nat
      /\ files \in Seq(Hashes) /\ Bytes(hs) \in Nat /\ Capacity \in Nat
      /\ CallFine(c, hs, evicting)
    BY <1>0, CallKnown
<1>2. /\ UNCHANGED <<evicting, files, rotten, toms, reading, landed, deleted, unlogged>>
      /\ ops' \in [Writers -> 0 .. MaxOps]
    BY DEF evict_scan, ledger, AInv, ArtTypeOK
<1>3. CASE SizeOf[c.h] > Capacity
    <2> DEFINE d == [c EXCEPT !.at = "remeasure"]
    <2>1. writing' = [writing EXCEPT ![w] = d]
        BY <1>3 DEF evict_scan, Go
    <2>2. d \in CallStates /\ d.at = "remeasure" /\ d.h = c.h /\ d.due = c.due
        BY <1>1, StepTo DEF CallSteps
    <2> HIDE DEF d
    <2>3. CallFine(d, hs, evicting)
        BY <1>0, <1>1, <1>3, <2>2 DEF CallFine
    <2> QED
        BY <1>0, <1>2, <2>1, <2>2, <2>3, CallMoves
<1>4. CASE ~(SizeOf[c.h] > Capacity)
    <2> DEFINE d == [c EXCEPT !.at = "evict", !.plan = files, !.total = total_size_bytes,
                              !.raced = FALSE]
    <2>1. writing' = [writing EXCEPT ![w] = d]
        BY <1>4 DEF evict_scan, Go
    <2>2. d \in CallRecords /\ d.at = "evict" /\ d.h = c.h /\ d.due = c.due
          /\ d.plan = files /\ d.total = Bytes(hs)
        <3>1. d = Scanned(c, files, Bytes(hs))
            BY DEF total_size_bytes, Scanned
        <3>2. c \in CallRecords /\ files \in Seq(Hashes) /\ Bytes(hs) \in Int
            BY <1>1
        <3> HIDE DEF c, hs, d
        <3> HIDE ArtifactAssumption
        <3> QED
            BY <3>1, <3>2, CallScanned
    <2> HIDE DEF d
    <2>3. CallFine(d, hs, evicting)
        BY <1>0, <1>1, <1>4, <2>2 DEF CallFine
    <2> QED
        BY <1>0, <1>2, <2>1, <2>2, <2>3, CallMoves, CallsAreTyped
<1> QED
    BY <1>3, <1>4

LEMMA EvictedStep ==
    ASSUME AInv, NEW w \in Writers, evicted(w)
    PROVE  AInv'
<1> DEFINE c == writing[w]
           hs == Range(files)
           d == [c EXCEPT !.at = "remeasure", !.plan = <<>>, !.total = 0]
<1>0. c.at = "evict" /\ c.at \in CallSteps
    BY DEF evicted, CallSteps
<1>1. /\ c \in CallRecords /\ c.h \in Hashes /\ SizeOf[c.h] \in Nat /\ c.total \in Int
      /\ hs \in SUBSET Hashes /\ Bytes(hs) \in Nat /\ Capacity \in Nat
      /\ CallFine(c, hs, evicting)
    BY <1>0, CallKnown
<1>2. /\ writing' = [writing EXCEPT ![w] = d]
      /\ UNCHANGED <<evicting, files, rotten, toms, reading, landed, deleted, unlogged>>
      /\ ops' \in [Writers -> 0 .. MaxOps]
    BY DEF evicted, Go, ledger, AInv, ArtTypeOK
<1>3. d \in CallRecords /\ d.at = "remeasure" /\ d.h = c.h /\ d.due = c.due /\ d.raced = c.raced
    <2>1. <<>> \in Seq(Hashes) /\ "remeasure" \in CallSteps /\ 0 \in Int
        BY DEF CallSteps
    <2>2. d = Swept(c, <<>>, 0)
        BY DEF Swept
    <2>3. c \in CallRecords
        BY <1>1
    <2> HIDE DEF c, d
    <2> HIDE ArtifactAssumption
    <2> QED
        BY <2>1, <2>2, <2>3, CallSwept
<1> HIDE DEF d
<1>4. ASSUME ~c.raced PROVE Bytes(hs) + SizeOf[c.h] <= Capacity
    <2>1. hs \subseteq Range(c.plan) /\ Bytes(hs) <= c.total /\ SizeOf[c.h] <= Capacity
        BY <1>0, <1>1, <1>4 DEF CallFine
    <2>2. CASE c.plan = <<>>
        <3>1. hs = {}
            BY <2>1, <2>2 DEF Range
        <3>2. Bytes(hs) = 0
            BY <3>1, NoBytes
        <3> HIDE DEF hs
        <3> QED
            BY <3>2, <2>1, <1>1
    <2>3. CASE c.total <= Target(c.h)
        BY <2>1, <2>3, <1>1 DEF Target
    <2> QED
        BY <2>2, <2>3 DEF evicted
<1>5. CallFine(d, hs, evicting)
    BY <1>0, <1>1, <1>3, <1>4 DEF CallFine
<1> QED
    BY <1>0, <1>2, <1>3, <1>5, CallMoves, CallsAreTyped

LEMMA RemeasureStep ==
    ASSUME AInv, NEW w \in Writers, remeasure(w)
    PROVE  AInv'
<1> DEFINE c == writing[w]
           a == IF Fits(c.h) THEN "write" ELSE "full"
           d == [c EXCEPT !.at = a]
<1>0. c.at = "remeasure" /\ c.at \in CallSteps
    BY DEF remeasure, CallSteps
<1>1. /\ c \in CallRecords /\ c.h \in Hashes /\ SizeOf[c.h] \in Nat /\ c.raced \in BOOLEAN
      /\ Bytes(Range(files)) \in Nat /\ Capacity \in Nat /\ CallFine(c, Range(files), evicting)
    BY <1>0, CallKnown
<1>2. /\ a \in CallSteps /\ a \in {"write", "full"}
      /\ (a = "write" => Fits(c.h)) /\ (a = "full" => ~Fits(c.h))
    BY DEF CallSteps
<1>3. /\ writing' = [writing EXCEPT ![w] = d]
      /\ UNCHANGED <<evicting, files, rotten, toms, reading, landed, deleted, unlogged>>
      /\ ops' \in [Writers -> 0 .. MaxOps]
    BY DEF remeasure, Go, ledger, AInv, ArtTypeOK
<1> HIDE DEF a
<1>4. d \in CallStates /\ d.at = a /\ d.h = c.h /\ d.due = c.due /\ d.raced = c.raced
    BY <1>1, <1>2, StepTo
<1> HIDE DEF d
<1>5. a = "write" => SizeOf[c.h] <= Capacity
    BY <1>1, <1>2 DEF Fits, total_size_bytes
<1>6. a = "full" /\ SizeOf[c.h] <= Capacity => c.raced
    BY <1>0, <1>1, <1>2 DEF Fits, total_size_bytes, CallFine
<1>7. CallFine(d, Range(files), evicting)
    BY <1>0, <1>1, <1>2, <1>4, <1>5, <1>6 DEF CallFine
<1> QED
    BY <1>0, <1>2, <1>3, <1>4, <1>7, CallMoves

LEMMA AskStep ==
    ASSUME AInv, NEW w \in Writers,
           nobody_has_it(w) \/ \E p \in Peers : ask_next(w, p) \/ peer_serves(w, p)
    PROVE  AInv'
<1> DEFINE c == writing[w]
           hs == Range(files)
<1>0. c.at = "ask" /\ c.at \in CallSteps
    BY DEF nobody_has_it, ask_next, peer_fails, peer_serves, CallSteps
<1>1. /\ c \in CallRecords /\ c.h \in Hashes /\ c.ask \in SUBSET Peers
      /\ CallFine(c, hs, evicting) /\ Honest \subseteq c.ask /\ c.due = {}
    BY <1>0, CallKnown DEF CallFine
<1>2. /\ UNCHANGED <<evicting, files, rotten, toms, reading, landed, deleted, unlogged>>
      /\ ops' \in [Writers -> 0 .. MaxOps]
    BY DEF nobody_has_it, ask_next, peer_serves, ledger, AInv, ArtTypeOK
<1>3. CASE nobody_has_it(w)
    <2>1. writing' = [writing EXCEPT ![w] = Done("none")] /\ Honest = {}
        BY <1>1, <1>3 DEF nobody_has_it, Go
    <2>2. Done("none") \in CallStates /\ Done("none").at = "none"
          /\ CallFine(Done("none"), hs, evicting)
        BY <2>1, <1>1, NewCalls
    <2> QED
        BY <1>0, <1>2, <2>1, <2>2, CallMoves
<1>4. ASSUME NEW p \in Peers, ask_next(w, p) PROVE AInv'
    <2> DEFINE d == [c EXCEPT !.ask = @ \ {p}]
    <2>1. writing' = [writing EXCEPT ![w] = d] /\ p \notin Honest
        BY <1>4 DEF ask_next, peer_fails, Go
    <2>2. d \in CallRecords /\ d.at = "ask" /\ d.ask = c.ask \ {p} /\ d.due = {}
        BY <1>0, <1>1 DEF CallRecords
    <2> HIDE DEF d
    <2>3. CallFine(d, hs, evicting)
        BY <1>1, <2>1, <2>2 DEF CallFine
    <2> QED
        BY <1>0, <1>2, <2>1, <2>2, <2>3, CallMoves, CallsAreTyped
<1>5. ASSUME NEW p \in Peers, peer_serves(w, p) PROVE AInv'
    <2> DEFINE d == IF exists(c.h) THEN Done("ok") ELSE Call("measure", c.h, {})
    <2>1. writing' = [writing EXCEPT ![w] = d]
        BY <1>5 DEF peer_serves, Go
    <2>2. d \in CallStates /\ d.at \in {"ok", "measure"} /\ CallFine(d, hs, evicting)
        BY <1>1, NewCalls
    <2> HIDE DEF d
    <2> QED
        BY <1>0, <1>2, <2>1, <2>2, CallMoves
<1> QED
    BY <1>3, <1>4, <1>5

(* The file that fetch found in its own store: read, gone, or corrupt.      *)
LEMMA ReadCachedStep ==
    ASSUME AInv, NEW w \in Writers, read_cached(w)
    PROVE  AInv'
<1> DEFINE c == writing[w]
           hs == Range(files)
           d == [c EXCEPT !.at = "mismatch"]
<1>0. c.at = "cached" /\ c.at \in CallSteps /\ "mismatch" \in CallSteps
    BY DEF read_cached, CallSteps
<1>1. /\ c \in CallRecords /\ c.h \in Hashes
      /\ CallFine(c, hs, evicting) /\ Honest \subseteq c.ask /\ c.due = {}
    BY <1>0, CallKnown DEF CallFine, CallSteps
<1>2. /\ UNCHANGED <<evicting, files, rotten, toms, reading, landed, deleted, unlogged>>
      /\ ops' \in [Writers -> 0 .. MaxOps]
    BY DEF read_cached, ledger, AInv, ArtTypeOK
<1>3. PICK e \in {Done("raised"), Done("ok"), d} : writing' = [writing EXCEPT ![w] = e]
    BY DEF read_cached, Go
<1>4. d \in CallStates /\ d.at = "mismatch" /\ d.ask = c.ask /\ d.due = {}
    BY <1>0, <1>1, StepTo
<1> HIDE DEF d
<1>5. CallFine(d, hs, evicting)
    BY <1>1, <1>4 DEF CallFine
<1>6. /\ e \in CallStates /\ e.at \in {"raised", "ok", "mismatch"}
      /\ CallFine(e, hs, evicting)
    BY <1>1, <1>3, <1>4, <1>5, NewCalls
<1> QED
    BY <1>0, <1>2, <1>3, <1>6, CallMoves

LEMMA DropCachedStep ==
    ASSUME AInv, NEW w \in Writers, drop_cached(w)
    PROVE  AInv'
<1> DEFINE c == writing[w]
           h == c.h
           d == [c EXCEPT !.at = "ask"]
<1>0. c.at = "mismatch" /\ c.at \in CallSteps /\ "ask" \in CallSteps
    BY DEF drop_cached, CallSteps
<1>1. /\ c \in CallRecords /\ h \in Hashes
      /\ Honest \subseteq c.ask /\ c.due = {}
    BY <1>0, CallKnown DEF CallFine, CallSteps
<1>2. /\ writing' = [writing EXCEPT ![w] = d] /\ Drop(h)
      /\ UNCHANGED <<evicting, toms, reading, ops, landed, unlogged>>
    BY DEF drop_cached, Go
<1>3. d \in CallStates /\ d.at = "ask" /\ d.ask = c.ask /\ d.due = {}
    BY <1>0, <1>1, StepTo
<1> HIDE DEF d, h
<1>4. CallFine(d, Range(files'), evicting)
    BY <1>1, <1>3 DEF CallFine
<1>5. /\ files' \in Seq(Hashes) /\ IsInjective(files') /\ rotten' \in SUBSET Range(files')
      /\ deleted' \in [Hashes -> Nat]
      /\ Range(files') \in SUBSET Range(files)
      /\ \A g \in Hashes : Missing(g)' = Missing(g)
    BY <1>1, <1>2, FileDropped
<1>6. ArtTypeOK'
    BY <1>2, <1>3, <1>5 DEF AInv, ArtTypeOK
<1>7. \A g \in Hashes : Missing(g)' = Missing(g) - Pending(c, g) + Pending(d, g)
    <2>1. \A g \in Hashes : Missing(g) \in Int
        BY MissingIsPending DEF AInv
    <2> QED
        BY <1>0, <1>3, <1>5, <2>1 DEF Pending
<1>8. Owed(d) <= Owed(c)
    BY <1>3, OwedIsNat, CallKnown
<1> QED
    BY <1>2, <1>3, <1>4, <1>5, <1>6, <1>7, <1>8, NothingLands

LEMMA EvictStep ==
    ASSUME AInv, NEW w \in Writers, evict(w)
    PROVE  AInv'
<1> DEFINE c == writing[w]
           hs == Range(files)
           h == Head(c.plan)
<1>0. c.at = "evict" /\ c.at \in CallSteps /\ c.plan # <<>>
    BY DEF evict, CallSteps
<1>1. /\ c \in CallStates /\ c \in CallRecords /\ c.h \in Hashes /\ SizeOf[c.h] \in Nat
      /\ c.plan \in Seq(Hashes) /\ c.total \in Int /\ c.raced \in BOOLEAN
      /\ files \in Seq(Hashes) /\ IsInjective(files)
      /\ hs \in SUBSET Hashes /\ IsFiniteSet(hs) /\ Bytes(hs) \in Nat /\ Capacity \in Nat
      /\ CallFine(c, hs, evicting)
    BY <1>0, CallKnown
<1>2. /\ h \in Hashes /\ Tail(c.plan) \in Seq(Hashes) /\ SizeOf[h] \in Nat
      /\ Range(c.plan) \subseteq Range(Tail(c.plan)) \cup {h}
    BY <1>0, <1>1, PlanSplits DEF ArtifactAssumption
<1>3. /\ files' \in Seq(Hashes) /\ IsInjective(files') /\ Range(files') = hs \ {h}
      /\ ~exists(h) => files' = files
    BY <1>1, FileGoes DEF evict, evict_oldest
<1>4. /\ UNCHANGED <<evicting, toms, reading, ops, landed, deleted, unlogged>>
      /\ rotten' = rotten \ {h}
    BY DEF evict, ledger
<1>5. /\ SizeOf[c.h] <= Capacity
      /\ ~c.raced => hs \subseteq Range(c.plan) /\ Bytes(hs) <= c.total
    BY <1>0, <1>1 DEF CallFine
<1>6. CASE exists(h)
    <2> DEFINE d == [c EXCEPT !.plan = Tail(@), !.total = @ - SizeOf[h], !.at = "record",
                              !.due = {h}]
    <2>1. writing' = [writing EXCEPT ![w] = d]
        BY <1>6 DEF evict, evict_oldest, Go
    <2>2. d = Evicting(c, Tail(c.plan), c.total - SizeOf[h], {h})
        BY <1>1 DEF Evicting, CallRecords
    <2> HIDE DEF c, d, h, hs
    <2>3. /\ d \in CallRecords /\ d.at = "record" /\ d.h = c.h /\ d.plan = Tail(c.plan)
          /\ d.total = c.total - SizeOf[h] /\ d.due = {h} /\ d.raced = c.raced
        <3> DEFINE s == Tail(c.plan)
                   t == c.total - SizeOf[h]
                   u == {h}
        <3>1. /\ c \in CallRecords /\ s \in Seq(Hashes) /\ t \in Int /\ u \in SUBSET Hashes
              /\ d = Evicting(c, s, t, u)
            BY <1>1, <1>2, <2>2
        <3> HIDE DEF s, t, u
        <3> HIDE ArtifactAssumption
        <3>2. /\ d \in CallRecords /\ d.at = "record" /\ d.h = c.h /\ d.plan = s
              /\ d.total = t /\ d.due = u /\ d.raced = c.raced
            BY <3>1, CallEvicting
        <3> QED
            BY <3>2 DEF s, t, u
    <2>4. d \in CallStates
        BY <2>3, CallsAreTyped
    <2>5. Bytes(hs) = SizeOf[h] + Bytes(hs \ {h}) /\ Bytes(hs \ {h}) \in Nat
        <3>1. h \in hs
            BY <1>6 DEF exists, hs
        <3> QED
            BY <3>1, <1>1, BytesAdd
    <2>6. CallFine(d, hs \ {h}, evicting)
        <3>1. ~d.raced => /\ hs \ {h} \subseteq Range(d.plan)
                          /\ Bytes(hs \ {h}) <= d.total
            BY <1>1, <1>2, <1>5, <2>3, <2>5
        <3> QED
            BY <3>1, <1>5, <2>3 DEF CallFine
    <2>7. ArtTypeOK'
        BY <1>3, <1>4, <2>1, <2>4 DEF AInv, ArtTypeOK, hs
    <2>8. \A g \in Hashes : Missing(g)' = Missing(g) - Pending(c, g) + Pending(d, g)
        <3> TAKE g \in Hashes
        <3>0. Missing(g) \in Int /\ landed[g] \in Nat /\ toms[g] \in Nat /\ deleted[g] \in Nat
              /\ unlogged[g] \in Nat
            BY MissingIsPending DEF AInv
        <3>1. Pending(c, g) = 0
            BY <1>0 DEF Pending
        <3>2. CASE g = h
            <4>1. Pending(d, g) = 1 /\ exists(g) /\ ~exists(g)'
                BY <3>2, <2>3, <1>3, <1>6 DEF Pending, exists
            <4>2. Missing(g)' = Missing(g) + 1
                BY <4>1, <3>0, <1>4 DEF Missing
            <4> QED BY <4>1, <4>2, <3>0, <3>1
        <3>3. CASE g # h
            <4>1. Pending(d, g) = 0 /\ (exists(g) <=> exists(g)')
                BY <3>3, <2>3, <1>3 DEF Pending, exists, hs
            <4>2. Missing(g)' = Missing(g)
                BY <4>1, <1>4 DEF Missing
            <4> QED BY <4>1, <4>2, <3>0, <3>1
        <3> QED BY <3>2, <3>3
    <2>9. Owed(d) <= Owed(c)
        <3>1. Owed(d) = 0 /\ Owed(c) = 0
            BY <2>3, <1>0 DEF Owed
        <3> QED BY <3>1
    <2>10. Range(files') \in SUBSET Range(files) /\ CallFine(d, Range(files'), evicting)
        BY <1>3, <2>6 DEF hs
    <2> QED
        BY <1>4, <2>1, <2>4, <2>7, <2>8, <2>9, <2>10, NothingLands DEF c
<1>7. CASE ~exists(h)
    <2> DEFINE d == [c EXCEPT !.plan = Tail(@)]
    <2>1. writing' = [writing EXCEPT ![w] = d]
        BY <1>7 DEF evict, evict_oldest, Go
    <2>2. /\ d \in CallRecords /\ d.at = "evict" /\ d.h = c.h /\ d.plan = Tail(c.plan)
          /\ d.total = c.total /\ d.due = c.due /\ d.raced = c.raced
        BY <1>0, <1>1, <1>2 DEF CallRecords
    <2>3. d \in CallStates
        BY <2>2, CallsAreTyped
    <2> HIDE DEF d
    <2>4. h \notin hs
        BY <1>7 DEF exists
    <2>5. CallFine(d, hs, evicting)
        <3>1. c.due = {}
            BY <1>0, <1>1 DEF CallFine
        <3>2. ~d.raced => hs \subseteq Range(d.plan) /\ Bytes(hs) <= d.total
            BY <1>2, <1>5, <2>2, <2>4
        <3> QED
            BY <3>1, <3>2, <1>5, <2>2 DEF CallFine
    <2>6. files' = files /\ ops' \in [Writers -> 0 .. MaxOps] /\ rotten' = rotten
        BY <1>3, <1>4, <1>7, <2>4 DEF AInv, ArtTypeOK
    <2> QED
        BY <1>0, <1>4, <2>1, <2>2, <2>3, <2>5, <2>6, CallMoves
<1> QED
    BY <1>6, <1>7

(* The record of an eviction is written, or lost with the call or without.  *)
LEMMA RecordStep ==
    ASSUME AInv, NEW w \in Writers, _record_tombstone(w) \/ tombstone_lost(w)
    PROVE  AInv'
<1> DEFINE c == writing[w]
           hs == Range(files)
           d == [c EXCEPT !.at = "evict", !.due = {}]
<1>0. c.at = "record" /\ c.at \in CallSteps
    BY DEF _record_tombstone, tombstone_lost, CallSteps
<1>1. /\ c \in CallStates /\ c \in CallRecords /\ CallFine(c, hs, evicting)
    BY <1>0, CallKnown
<1>2. /\ writing' = [writing EXCEPT ![w] = d]
      /\ UNCHANGED <<evicting, files, rotten, reading, ops, landed, deleted>>
    BY DEF _record_tombstone, tombstone_lost, Go, ledger
<1>3. /\ d \in CallRecords /\ d.at = "evict" /\ d.h = c.h /\ d.plan = c.plan
      /\ d.total = c.total /\ d.due = {} /\ d.raced = c.raced
    BY <1>1 DEF CallRecords, CallSteps
<1>4. d \in CallStates
    BY <1>3, CallsAreTyped
<1> HIDE DEF d
<1>5. CallFine(d, hs, evicting)
    BY <1>0, <1>1, <1>3 DEF CallFine
<1> DEFINE Due(g) == IF g \in c.due THEN 1 ELSE 0
<1>6. \A g \in Hashes : Due(g) \in Nat /\ Pending(c, g) = Due(g) /\ Pending(d, g) = 0
    BY <1>0, <1>3 DEF Pending
<1>7. \/ toms' = [g \in Hashes |-> toms[g] + Due(g)] /\ unlogged' = unlogged
      \/ unlogged' = [g \in Hashes |-> unlogged[g] + Due(g)] /\ toms' = toms
    BY DEF _record_tombstone, tombstone_lost, ledger
<1> HIDE DEF Due
<1>8. toms' \in [Hashes -> Nat] /\ unlogged' \in [Hashes -> Nat]
    <2>1. toms \in [Hashes -> Nat] /\ unlogged \in [Hashes -> Nat]
        BY DEF AInv, ArtTypeOK
    <2> QED BY <2>1, <1>6, <1>7
<1>9. ArtTypeOK'
    BY <1>2, <1>4, <1>8 DEF AInv, ArtTypeOK
<1>10. \A g \in Hashes : Missing(g)' = Missing(g) - Pending(c, g) + Pending(d, g)
    <2> TAKE g \in Hashes
    <2>0. landed[g] \in Nat /\ toms[g] \in Nat /\ deleted[g] \in Nat /\ unlogged[g] \in Nat
        BY MissingIsPending DEF AInv
    <2> DEFINE here == IF exists(g) THEN 1 ELSE 0
    <2>1. /\ here \in Nat
          /\ Missing(g) = landed[g] - here - toms[g] - deleted[g] - unlogged[g]
          /\ Missing(g)' = landed[g] - here - toms'[g] - deleted[g] - unlogged'[g]
        BY <1>2 DEF Missing, exists
    <2> HIDE DEF here
    <2>2. \/ toms'[g] = toms[g] + Due(g) /\ unlogged'[g] = unlogged[g]
          \/ unlogged'[g] = unlogged[g] + Due(g) /\ toms'[g] = toms[g]
        BY <1>7
    <2> QED
        BY <2>0, <2>1, <2>2, <1>6
<1>11. Owed(d) <= Owed(c)
    BY <1>0, <1>1, <1>3, <1>4, OwedIsNat
<1>12. Range(files') \in SUBSET Range(files) /\ CallFine(d, Range(files'), evicting)
    BY <1>2, <1>5
<1> QED
    BY <1>2, <1>4, <1>9, <1>10, <1>11, <1>12, NothingLands

LEMMA CrashStep ==
    ASSUME AInv, NEW w \in Writers, crash_writer(w)
    PROVE  AInv'
<1> DEFINE c == writing[w]
           hs == Range(files)
           d == Done("crashed")
           Due(g) == IF g \in c.due THEN 1 ELSE 0
<1>0. c \in CallStates /\ CallFine(c, hs, evicting) /\ c.at \notin Ended
    BY CallKnown DEF crash_writer
<1>1. c.at \in CallSteps /\ (c.at # "record" => c.due = {})
    <2>1. c.at \in CallSteps \ {"full"}
        BY <1>0, CallsAreTyped DEF Ended, CallSteps, Endings
    <2> QED BY <2>1, <1>0 DEF CallFine, CallSteps
<1>2. /\ writing' = [writing EXCEPT ![w] = d]
      /\ UNCHANGED <<evicting, files, rotten, toms, reading, ops, landed, deleted>>
      /\ unlogged' = [g \in Hashes |-> unlogged[g] + Due(g)]
    BY DEF crash_writer, Go
<1>3. d \in CallStates /\ d.at = "crashed" /\ CallFine(d, hs, evicting)
    BY CallsAreTyped DEF CallFine, CallSteps, Endings, Done
<1> HIDE DEF d
<1>6. \A g \in Hashes : Due(g) \in Nat /\ Pending(c, g) = Due(g) /\ Pending(d, g) = 0
    BY <1>1, <1>3 DEF Pending
<1> HIDE DEF Due
<1>8. unlogged' \in [Hashes -> Nat]
    <2>1. unlogged \in [Hashes -> Nat]
        BY DEF AInv, ArtTypeOK
    <2> QED BY <2>1, <1>2, <1>6
<1>9. ArtTypeOK'
    BY <1>2, <1>3, <1>8 DEF AInv, ArtTypeOK
<1>10. \A g \in Hashes : Missing(g)' = Missing(g) - Pending(c, g) + Pending(d, g)
    <2> TAKE g \in Hashes
    <2>0. landed[g] \in Nat /\ toms[g] \in Nat /\ deleted[g] \in Nat /\ unlogged[g] \in Nat
        BY MissingIsPending DEF AInv
    <2> DEFINE here == IF exists(g) THEN 1 ELSE 0
    <2>1. /\ here \in Nat
          /\ Missing(g) = landed[g] - here - toms[g] - deleted[g] - unlogged[g]
          /\ Missing(g)' = landed[g] - here - toms[g] - deleted[g] - unlogged'[g]
        BY <1>2 DEF Missing, exists
    <2> HIDE DEF here
    <2>2. unlogged'[g] = unlogged[g] + Due(g)
        BY <1>2
    <2> QED
        BY <2>0, <2>1, <2>2, <1>6
<1>11. Owed(d) <= Owed(c)
    BY <1>0, <1>3, OwedIsNat
<1>12. Range(files') \in SUBSET Range(files) /\ CallFine(d, Range(files'), evicting)
    BY <1>2, <1>3
<1> QED
    BY <1>2, <1>3, <1>9, <1>10, <1>11, <1>12, NothingLands

(* A file lands: the calls that have scanned are told apart.                *)
Raced(c) == IF c.at \in {"evict", "record", "remeasure"} THEN [c EXCEPT !.raced = TRUE] ELSE c

LEMMA RacedKnown ==
    ASSUME NEW c \in CallStates
    PROVE  /\ Raced(c) \in CallStates /\ Raced(c).at = c.at /\ Owed(Raced(c)) = Owed(c)
           /\ \A g : Pending(Raced(c), g) = Pending(c, g)
           /\ \A hs, more, ev : CallFine(c, hs, ev) => CallFine(Raced(c), more, ev)
<1>1. CASE c.at \in {"evict", "record", "remeasure"}
    <2> DEFINE d == [c EXCEPT !.raced = TRUE]
    <2>0. Raced(c) = d /\ c \in CallRecords
        BY <1>1, CallsAreTyped DEF Raced, CallSteps
    <2>1. d \in CallRecords /\ d.at = c.at /\ d.h = c.h /\ d.due = c.due /\ d.raced
        BY <2>0 DEF CallRecords
    <2> HIDE DEF d
    <2>2. Owed(d) = Owed(c) /\ \A g : Pending(d, g) = Pending(c, g)
        BY <2>1, <1>1 DEF Owed, Pending
    <2>3. \A hs, more, ev : CallFine(c, hs, ev) => CallFine(d, more, ev)
        BY <2>1, <1>1 DEF CallFine
    <2> QED
        BY <2>0, <2>1, <2>2, <2>3, CallsAreTyped
<1>2. CASE c.at \notin {"evict", "record", "remeasure"}
    <2>1. Raced(c) = c
        BY <1>2 DEF Raced
    <2>2. \A hs, more, ev : CallFine(c, hs, ev) => CallFine(c, more, ev)
        BY <1>2 DEF CallFine
    <2> QED
        BY <2>1, <2>2
<1> QED
    BY <1>1, <1>2

LEMMA ReplaceStep ==
    ASSUME AInv, NEW w \in Writers, replace(w)
    PROVE  AInv'
<1> DEFINE c == writing[w]
           h == c.h
           hs == Range(files)
           o == Done("ok")
<1>0. c.at = "write" /\ c.at \in CallSteps
    BY DEF replace, CallSteps
<1>1. /\ c \in CallStates /\ h \in Hashes /\ SizeOf[h] \in Nat
      /\ files \in Seq(Hashes) /\ IsInjective(files)
      /\ hs \in SUBSET Hashes /\ IsFiniteSet(hs) /\ Bytes(hs) \in Nat /\ Capacity \in Nat
    BY <1>0, CallKnown
<1>2. /\ files' = Append(Without(h), h) /\ rotten' = rotten \ {h}
      /\ landed' = [landed EXCEPT ![h] = @ + (IF exists(h) THEN 0 ELSE 1)]
      /\ UNCHANGED <<evicting, toms, reading, ops, deleted, unlogged>>
    BY DEF replace
<1>3. writing' = [v \in Writers |-> IF v = w THEN o ELSE Raced(writing[v])]
    BY DEF replace, Raced
<1>4. o \in CallStates /\ o.at = "ok" /\ CallFine(o, Range(files'), evicting)
    BY CallsAreTyped DEF CallFine, CallSteps, Endings, Done
<1> HIDE DEF o
<1>5. ArtTypeOK /\ CallsFine /\ AbsencesAttributed /\ StoreBounded
      /\ writing \in [Writers -> CallStates]
    BY DEF AInv, ArtTypeOK
<1>6. /\ files' \in Seq(Hashes) /\ IsInjective(files') /\ Range(files') = hs \cup {h}
    <2>1. /\ Without(h) \in Seq(Hashes) /\ IsInjective(Without(h))
          /\ Range(Without(h)) = hs \ {h}
        BY <1>1, FileGoes
    <2>2. /\ files' \in Seq(Hashes) /\ IsInjective(files')
          /\ Range(files') = Range(Without(h)) \cup {h}
        BY <2>1, <1>1, <1>2, FileLands
    <2> QED BY <2>1, <2>2
<1>7. ArtTypeOK'
    <2>1. writing' \in [Writers -> CallStates]
        BY <1>3, <1>4, <1>5, RacedKnown
    <2>2. rotten' \in SUBSET Range(files')
        BY <1>2, <1>5, <1>6 DEF ArtTypeOK
    <2>3. landed' \in [Hashes -> Nat]
        <3> DEFINE new == IF exists(h) THEN 0 ELSE 1
        <3>1. new \in Nat /\ landed' = [landed EXCEPT ![h] = @ + new] /\ landed \in [Hashes -> Nat]
            BY <1>2, <1>5 DEF ArtTypeOK
        <3> HIDE DEF new
        <3> QED BY <3>1, <1>1
    <2> QED
        BY <2>1, <2>2, <2>3, <1>2, <1>5, <1>6 DEF ArtTypeOK
<1>8. CallsFine'
    <2> SUFFICES ASSUME NEW v \in Writers
                 PROVE  CallFine(writing'[v], Range(files'), evicting)
        BY <1>2 DEF CallsFine
    <2>1. CASE v = w
        BY <2>1, <1>3, <1>4
    <2>2. CASE v # w
        <3>1. writing'[v] = Raced(writing[v]) /\ writing[v] \in CallStates
            BY <2>2, <1>3, <1>5
        <3>2. CallFine(writing[v], hs, evicting)
            BY <1>5 DEF CallsFine
        <3> QED
            BY <3>1, <3>2, RacedKnown
    <2> QED BY <2>1, <2>2
<1>9. AbsencesAttributed'
    <2> SUFFICES ASSUME NEW g \in Hashes
                 PROVE  landed'[g] = (IF exists(g)' THEN 1 ELSE 0) + toms'[g] + deleted'[g]
                                     + unlogged'[g] + Cardinality(Unrecorded(g)')
        BY DEF AbsencesAttributed
    <2>0. landed[g] \in Nat /\ toms[g] \in Nat /\ deleted[g] \in Nat /\ unlogged[g] \in Nat
          /\ Cardinality(Unrecorded(g)) \in Nat
        BY <1>5, MissingIsPending
    <2>1. Unrecorded(g)' = Unrecorded(g)
        <3>1. \A v \in Writers : v \in Unrecorded(g)' <=> Pending(writing'[v], g) = 1
            BY DEF Unrecorded, Pending
        <3>2. \A v \in Writers : v \in Unrecorded(g) <=> Pending(writing[v], g) = 1
            BY DEF Unrecorded, Pending
        <3>3. \A v \in Writers : Pending(writing'[v], g) = Pending(writing[v], g)
            <4> TAKE v \in Writers
            <4>1. CASE v = w
                <5>1. Pending(o, g) = 0 /\ Pending(writing[w], g) = 0
                    BY <1>0, <1>4 DEF Pending
                <5> QED BY <5>1, <4>1, <1>3
            <4>2. CASE v # w
                <5>1. writing'[v] = Raced(writing[v]) /\ writing[v] \in CallStates
                    BY <4>2, <1>3, <1>5
                <5> QED BY <5>1, RacedKnown
            <4> QED BY <4>1, <4>2
        <3>4. Unrecorded(g)' \subseteq Writers /\ Unrecorded(g) \subseteq Writers
            BY DEF Unrecorded
        <3> QED BY <3>1, <3>2, <3>3, <3>4
    <2>2. landed[g] = (IF exists(g) THEN 1 ELSE 0) + toms[g] + deleted[g] + unlogged[g]
                      + Cardinality(Unrecorded(g))
        BY <1>5 DEF AbsencesAttributed
    <2>3. CASE g # h
        <3>1. landed'[g] = landed[g] /\ (exists(g)' <=> exists(g))
            BY <2>3, <1>2, <1>5, <1>6 DEF ArtTypeOK, exists
        <3> QED BY <3>1, <2>1, <2>2, <1>2
    <2>4. CASE g = h /\ exists(h)
        <3>1. landed'[g] = landed[g] + 0 /\ exists(g)' /\ exists(g)
            BY <2>4, <1>2, <1>5, <1>6 DEF ArtTypeOK, exists
        <3> QED BY <3>1, <2>0, <2>1, <2>2, <1>2
    <2>5. CASE g = h /\ ~exists(h)
        <3>1. landed'[g] = landed[g] + 1 /\ exists(g)' /\ ~exists(g)
            BY <2>5, <1>2, <1>5, <1>6 DEF ArtTypeOK, exists
        <3> QED BY <3>1, <2>0, <2>1, <2>2, <1>2
    <2> QED BY <2>3, <2>4, <2>5
<1>10. StoreBounded'
    <2> DEFINE f == Owing
    <2>1. /\ f \in [Writers -> Nat] /\ SumFunction(f) \in Nat /\ Overrun \in Nat
        BY <1>5, OwingIsBounded
    <2>2. Owing' = [f EXCEPT ![w] = 0]
        <3>1. \A v \in Writers : v # w => Owed(writing'[v]) = Owed(writing[v])
            <4> TAKE v \in Writers
            <4> HAVE v # w
            <4>1. writing'[v] = Raced(writing[v]) /\ writing[v] \in CallStates
                BY <1>3, <1>5
            <4> QED BY <4>1, RacedKnown
        <3>2. Owed(writing'[w]) = 0
            BY <1>3, <1>4 DEF Owed
        <3> QED BY <3>1, <3>2 DEF Owing
    <2>3. f[w] = SizeOf[h]
        BY <1>0, <1>1, OwedIsNat DEF Owing
    <2> HIDE DEF f
    <2>4. SumFunction(Owing') = SumFunction(f) - f[w] + 0
        <3>1. \A z \in Nat : SumFunction([f EXCEPT ![w] = z]) = SumFunction(f) - f[w] + z
            BY <2>1, SumOfChange DEF ArtifactAssumption
        <3> QED BY <3>1, <2>2
    <2>5. Bytes(Range(files')) \in Nat /\ Bytes(Range(files')) <= Bytes(hs) + SizeOf[h]
        <3> DEFINE all == hs \cup {h}
        <3>1. all \in SUBSET Hashes /\ IsFiniteSet(all) /\ h \in all /\ all \ {h} \in SUBSET hs
            BY <1>1, FS_AddElement
        <3> HIDE DEF all, hs, h
        <3>2. /\ Bytes(all) \in Nat /\ Bytes(all) = SizeOf[h] + Bytes(all \ {h})
              /\ Bytes(all \ {h}) \in Nat /\ Bytes(all \ {h}) <= Bytes(hs)
            BY <3>1, <1>1, BytesAdd
        <3>3. Bytes(all) <= Bytes(hs) + SizeOf[h]
            BY <3>2, <1>1
        <3> QED BY <3>2, <3>3, <1>6 DEF all
    <2>6. Bytes(hs) + SumFunction(f) <= Capacity + Overrun
        BY <1>5 DEF StoreBounded, total_size_bytes, f
    <2>7. Bytes(Range(files')) + SumFunction(Owing') <= Capacity + Overrun
        BY <2>1, <2>3, <2>4, <2>5, <2>6, <1>1
    <2> QED
        BY <2>7 DEF StoreBounded, total_size_bytes, Overrun, Largest
<1> QED
    BY <1>7, <1>8, <1>9, <1>10 DEF AInv

(* Readers, and the disk.                                                   *)
LEMMA NobodyWrites ==
    ASSUME AInv, ArtTypeOK', UNCHANGED <<writing, evicting>>,
           Range(files') \in SUBSET Range(files),
           \A g \in Hashes : Missing(g)' = Missing(g)
    PROVE  AInv'
<1>1. PICK w \in Writers : TRUE
    BY DEF ArtifactAssumption
<1> DEFINE c == writing[w]
<1>2. c \in CallStates /\ writing' = [writing EXCEPT ![w] = c]
      /\ Range(files) \in SUBSET Hashes /\ IsFiniteSet(Range(files))
      /\ CallFine(c, Range(files), evicting)
    BY CallKnown DEF AInv, ArtTypeOK
<1>3. CallFine(c, Range(files'), evicting)
    BY <1>2, FineWithLess
<1>4. Owed(c) <= Owed(c)
    BY <1>2, OwedIsNat
<1>5. \A g \in Hashes : Missing(g)' = Missing(g) - Pending(c, g) + Pending(c, g)
    <2>1. \A g \in Hashes : Missing(g) \in Int
        BY MissingIsPending DEF AInv
    <2> QED
        BY <2>1 DEF Pending
<1> QED
    BY <1>2, <1>3, <1>4, <1>5, NothingLands

LEMMA ReadSteps ==
    ASSUME AInv,
           \/ \E r \in Getters : read_bytes(r) \/ delete_corrupt(r)
           \/ \E r \in Getters, h \in Hashes : get(r, h)
           \/ \E h \in Hashes : rot(h)
    PROVE  AInv'
<1>0. ArtTypeOK /\ reading \in [Getters -> ReadStates]
    BY DEF AInv, ArtTypeOK
<1>1. /\ \A a \in {"idle", "none", "read", "raised"} : Done(a) \in ReadStates
      /\ \A h \in Hashes : /\ [at |-> "found", h |-> h] \in ReadStates
                           /\ [at |-> "mismatch", h |-> h] \in ReadStates
    BY DEF ReadStates, Done
<1>2. \A x \in ReadStates : x.at \in {"found", "mismatch"} => x.h \in Hashes
    <2> TAKE x \in ReadStates
    <2>1. \/ x \in [at : {"found", "mismatch"}, h : Hashes]
          \/ \E a \in {"idle", "none", "read", "raised"} : x = Done(a)
        BY DEF ReadStates
    <2> QED BY <2>1 DEF Done
<1>3. ASSUME UNCHANGED <<files, toms, landed, deleted, unlogged, writing, evicting>>, ArtTypeOK'
      PROVE  AInv'
    <2>1. \A g \in Hashes : Missing(g)' = Missing(g)
        BY <1>3 DEF Missing, exists
    <2> QED BY <2>1, <1>3, NobodyWrites
<1>4. ASSUME NEW r \in Getters, read_bytes(r) PROVE AInv'
    <2> DEFINE h == reading[r].h
               x == IF ~exists(h) THEN Done("raised")
                    ELSE IF h \in rotten THEN [at |-> "mismatch", h |-> h] ELSE Done("read")
    <2>1. h \in Hashes
        BY <1>0, <1>2, <1>4 DEF read_bytes
    <2>2. x \in ReadStates
        BY <2>1, <1>1
    <2>3. reading' = [reading EXCEPT ![r] = x]
          /\ UNCHANGED <<evicting, files, rotten, toms, writing, ops, landed, deleted, unlogged>>
        BY <1>4 DEF read_bytes, ledger
    <2> HIDE DEF x
    <2>4. ArtTypeOK'
        BY <1>0, <2>2, <2>3 DEF ArtTypeOK
    <2> QED BY <2>3, <2>4, <1>3
<1>5. ASSUME NEW r \in Getters, delete_corrupt(r) PROVE AInv'
    <2> DEFINE h == reading[r].h
    <2>1. h \in Hashes
        BY <1>0, <1>2, <1>5 DEF delete_corrupt
    <2>2. /\ Drop(h) /\ UNCHANGED <<evicting, toms, writing, ops, landed, unlogged>>
          /\ reading' = [reading EXCEPT ![r] = Done("none")]
        BY <1>5 DEF delete_corrupt
    <2> HIDE DEF h
    <2>3. /\ files' \in Seq(Hashes) /\ IsInjective(files') /\ rotten' \in SUBSET Range(files')
          /\ deleted' \in [Hashes -> Nat]
          /\ Range(files') \in SUBSET Range(files)
          /\ \A g \in Hashes : Missing(g)' = Missing(g)
        BY <2>1, <2>2, FileDropped
    <2>4. reading' \in [Getters -> ReadStates]
        BY <2>2, <1>0, <1>1
    <2>5. ArtTypeOK'
        BY <1>0, <2>2, <2>3, <2>4 DEF ArtTypeOK
    <2> QED BY <2>2, <2>3, <2>5, NobodyWrites
<1>6. ASSUME NEW r \in Getters, NEW h \in Hashes, get(r, h) PROVE AInv'
    <2> DEFINE x == IF exists(h) THEN [at |-> "found", h |-> h] ELSE Done("none")
    <2>1. x \in ReadStates
        BY <1>1
    <2>2. reading' = [reading EXCEPT ![r] = x]
          /\ UNCHANGED <<evicting, files, rotten, toms, writing, ops, landed, deleted, unlogged>>
        BY <1>6 DEF get, ledger
    <2> HIDE DEF x
    <2>3. ArtTypeOK'
        BY <1>0, <2>1, <2>2 DEF ArtTypeOK
    <2> QED BY <2>2, <2>3, <1>3
<1>7. ASSUME NEW h \in Hashes, rot(h) PROVE AInv'
    <2>1. /\ UNCHANGED <<evicting, files, toms, writing, reading, ops, landed, deleted, unlogged>>
          /\ rotten' = rotten \cup {h} /\ h \in Range(files)
        BY <1>7 DEF rot, ledger, exists
    <2>2. ArtTypeOK'
        BY <1>0, <2>1 DEF ArtTypeOK
    <2> QED BY <2>1, <2>2, <1>3
<1> QED
    BY <1>4, <1>5, <1>6, <1>7

-----------------------------------------------------------------------------
LEMMA StoreStarts == ArtInit => AInv
<1> SUFFICES ASSUME ArtInit PROVE AInv
    OBVIOUS
<1>1. Range(files) = {}
    BY DEF ArtInit, Range
<1>2. ArtTypeOK
    <2>1. <<>> \in Seq(Hashes) /\ IsInjective(<<>>)
        BY DEF IsInjective
    <2>2. Done("idle") \in CallStates /\ Done("idle") \in ReadStates
        BY DEF CallStates, ReadStates
    <2>3. 0 \in 0 .. MaxOps
        BY DEF ArtifactAssumption
    <2> QED
        BY <2>1, <2>2, <2>3, <1>1 DEF ArtInit, ArtTypeOK
<1>3. \A w \in Writers : writing[w].at = "idle"
    BY DEF ArtInit, Done
<1>4. CallsFine
    BY <1>3 DEF CallsFine, CallFine, CallSteps
<1>5. AbsencesAttributed
    <2> SUFFICES ASSUME NEW h \in Hashes
                 PROVE  landed[h] = (IF exists(h) THEN 1 ELSE 0) + toms[h] + deleted[h]
                                    + unlogged[h] + Cardinality(Unrecorded(h))
        BY DEF AbsencesAttributed
    <2>1. Unrecorded(h) = {} /\ ~exists(h)
        BY <1>1, <1>3 DEF Unrecorded, exists
    <2>2. Cardinality({}) = 0
        BY FS_EmptySet
    <2>3. landed[h] = 0 /\ toms[h] = 0 /\ deleted[h] = 0 /\ unlogged[h] = 0
        BY DEF ArtInit
    <2> QED BY <2>1, <2>2, <2>3
<1>6. StoreBounded
    <2>1. PICK w \in Writers : TRUE
        BY DEF ArtifactAssumption
    <2>2. Overrun \in Nat /\ Capacity \in Nat
        BY <1>2, <1>4, <2>1, OwingIsBounded DEF ArtTypeOK, ArtifactAssumption
    <2>3. Owing = [w1 \in Writers |-> 0]
        BY <1>3 DEF Owing, Owed
    <2>4. SumFunction(Owing) = 0
        <3>1. SumFunctionOnSet([w1 \in Writers |-> 0], Writers) = 0
            BY SumOfZeros DEF ArtifactAssumption
        <3>2. DOMAIN Owing = Writers
            BY <2>3
        <3> QED BY <3>1, <3>2, <2>3 DEF SumFunction
    <2>5. total_size_bytes = 0
        BY <1>1, NoBytes DEF total_size_bytes
    <2> QED
        BY <2>2, <2>4, <2>5 DEF StoreBounded
<1> QED
    BY <1>2, <1>4, <1>5, <1>6 DEF AInv

LEMMA StoreSteps == AInv /\ [ArtNext]_artVars => AInv'
<1> SUFFICES ASSUME AInv, [ArtNext]_artVars PROVE AInv'
    OBVIOUS
<1>1. CASE UNCHANGED artVars
    <2>1. UNCHANGED <<evicting, files, rotten, toms, writing, reading, ops, landed, deleted, unlogged>>
        BY <1>1 DEF artVars
    <2>2. ArtTypeOK' /\ \A g \in Hashes : Missing(g)' = Missing(g)
        BY <2>1 DEF AInv, ArtTypeOK, Missing, exists
    <2> QED BY <2>1, <2>2, NobodyWrites
<1>2. ASSUME NEW w \in Writers, StoreStep(w) \/ crash_writer(w) PROVE AInv'
    BY <1>2, MeasureStep, ScanStep, EvictStep, RecordStep, EvictedStep, RemeasureStep,
       ReplaceStep, ReadCachedStep, DropCachedStep, AskStep, CrashStep DEF StoreStep
<1>3. ASSUME NEW w \in Writers, NEW h \in Hashes, store(w, h) \/ fetch(w, h) PROVE AInv'
    BY <1>3, StoreCalled, FetchCalled
<1>4. Fetchers \subseteq Writers
    BY DEF ArtifactAssumption
<1> QED
    BY <1>1, <1>2, <1>3, <1>4, ReadSteps DEF ArtNext

LEMMA StoreInvariant == ArtSpec => []AInv
<1> QED
    BY StoreStarts, StoreSteps, PTL DEF ArtSpec

(* Whatever calls, crashes, lost records, rot and peers meet, a file that   *)
(* came and is gone has one tombstone, was deleted as corrupt, or is one of *)
(* the evictions whose record a fault swallowed (store, evict_to_fit, get); *)
(* and a fetch that returns has found what an honest peer serves            *)
(* (ArtifactClient.fetch).                                                  *)
THEOREM ArtifactsStayAccounted == ArtSpec => []ArtifactsAccounted
<1>1. AInv => ArtifactsAccounted
    <2> SUFFICES ASSUME AInv PROVE HonestPeerFound
        BY DEF AInv, ArtifactsAccounted
    <2> QED
        BY DEF AInv, CallsFine, CallFine, HonestPeerFound
<1> QED
    BY <1>1, StoreInvariant, PTL

(* However many writers race, the store overruns its cap by at most what    *)
(* all but one of them may add, and with eviction on it refuses an artifact *)
(* that fits the cap only when another landed since the scan (store).       *)
THEOREM StoreKeepsCapacity == ArtSpec => []CapacityKept
<1>1. AInv => CapacityKept
    <2> SUFFICES ASSUME AInv PROVE CapacityKept
        OBVIOUS
    <2>1. FittingIsStored
        BY DEF AInv, CallsFine, CallFine, FittingIsStored
    <2>2. OverrunBounded
        <3>1. PICK w \in Writers : TRUE
            BY DEF ArtifactAssumption
        <3>2. SumFunction(Owing) \in Nat /\ Overrun \in Nat
            BY <3>1, OwingIsBounded DEF AInv, ArtTypeOK
        <3>3. total_size_bytes \in Nat /\ Capacity \in Nat
            BY <3>1, CallKnown DEF total_size_bytes
        <3>4. total_size_bytes <= Capacity + Overrun
            BY <3>2, <3>3 DEF AInv, StoreBounded
        <3>5. Overrun = (Cardinality(Writers) - 1) * Largest
            <4>1. Cardinality(Writers) \in Int /\ Largest \in Int
                BY LargestIs, FS_CardinalityType DEF ArtifactAssumption
            <4>2. \A a, b \in Int : (a - 1) * b = a * b - b
                OBVIOUS
            <4> QED BY <4>1, <4>2 DEF Overrun
        <3> QED
            BY <3>4, <3>5 DEF OverrunBounded
    <2> QED BY <2>1, <2>2 DEF CapacityKept
<1> QED
    BY <1>1, StoreInvariant, PTL
=============================================================================
