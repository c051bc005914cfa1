------------------------ MODULE ReviewWorker_proofs -------------------------
(***************************************************************************)
(* The worker for every number of jobs, replicas, slots, attempts, stalls, *)
(* tries, failed calls and crashes: types, what a job pays for, what its   *)
(* record says, what a completed record stands for, and that BullMQ as     *)
(* used here is a QueueAdapter.                                            *)
(***************************************************************************)
EXTENDS ReviewWorker, SequenceTheorems, FiniteSetTheorems, TLAPS

CheckRun == [job : Jobs, status : {"in_progress", "review", "failure"}]

-----------------------------------------------------------------------------
(* Where a job stands with the queue.                                      *)

\* The steps that an attempt which has paid for its agents stands at.
Paid == Step \ {"idle", "gate", "startCheck", "pipeline"}

\* The attempt of j exists while the queue counts j active; a job that may still
\* run has attempts and stalls left, and no attempt pays twice.
Life(j) ==
    /\ pc[j] # "idle" <=> queue[j] = "active"
    /\ queue[j] = "active" => at[j] \in Replicas
    /\ queue[j] # "failed" => failures[j] < MaxAttempts /\ stalls[j] <= MaxStalls
    /\ failures[j] + stalls[j] <= MaxAttempts + MaxStalls
    /\ runs[j] <= failures[j] + stalls[j]
                     + (IF queue[j] = "completed" \/ pc[j] \in Paid THEN 1 ELSE 0)

\* The check run an attempt remembers is there and is its job's.
OwnCheck(j) ==
    checkId[j] # 0 => checkId[j] \in DOMAIN checks /\ checks[checkId[j]].job = j

WorkerInv ==
    /\ TypeOK
    /\ \A j \in Jobs : Life(j) /\ OwnCheck(j)

LEMMA InitWorkerInv == Init => WorkerInv
BY WorkerAssumption DEF Init, WorkerInv, TypeOK, Life, OwnCheck, Step, RecStatus, Paid

\* What the pieces that actions share do to the types.
LEMMA ForgetKeepsTypes ==
    ASSUME TypeOK, NEW S, Forget(S)
    PROVE  /\ checkId' \in [Jobs -> Nat]
           /\ target' \in [Jobs -> Nat]
           /\ blocked' \in [Jobs -> BOOLEAN]
BY DEF TypeOK, Forget

LEMMA FaultKeepsTypes ==
    ASSUME TypeOK, NEW j \in Jobs, NEW step \in Step, Fault(j, step) \/ Answer(j, step)
    PROVE  /\ tries' \in [Jobs -> 0 .. MaxTries - 1]
           /\ pc' \in [Jobs -> Step]
           /\ faults' \in 0 .. MaxFaults
           /\ faults' >= faults
<1>1. /\ tries \in [Jobs -> 0 .. MaxTries - 1] /\ MaxTries \in Nat \ {0}
      /\ pc \in [Jobs -> Step]
      /\ faults \in 0 .. MaxFaults /\ MaxFaults \in Nat
  BY WorkerAssumption DEF TypeOK
<1>2. pc' \in [Jobs -> Step]
  BY <1>1 DEF Fault, Answer, Goto
<1>3. tries' \in [Jobs -> 0 .. MaxTries - 1]
  BY <1>1 DEF Fault, Answer
<1>4. faults' \in 0 .. MaxFaults /\ faults' >= faults
  BY <1>1 DEF Fault, Answer
<1> QED
  BY <1>2, <1>3, <1>4

LEMMA NewCheckKeepsTypes ==
    ASSUME TypeOK, NEW j \in Jobs, NEW status \in {"in_progress", "review", "failure"},
           NewCheck(j, status)
    PROVE  /\ checks' \in Seq(CheckRun)
           /\ Len(checks') = Len(checks) + 1
           /\ \A c \in DOMAIN checks : checks'[c] = checks[c]
           /\ checks'[Len(checks) + 1] = [job |-> j, status |-> status]
<1> DEFINE e == [job |-> j, status |-> status]
<1>1. checks \in Seq(CheckRun)
  BY DEF TypeOK, CheckRun
<1>2. e \in CheckRun
  BY DEF CheckRun
<1>3. checks' = Append(checks, e)
  BY DEF NewCheck
<1>4. DOMAIN checks = 1 .. Len(checks)
  BY <1>1
<1> HIDE DEF e
<1>5. /\ checks' \in Seq(CheckRun)
      /\ Len(checks') = Len(checks) + 1
      /\ \A c \in DOMAIN checks : checks'[c] = checks[c]
      /\ checks'[Len(checks) + 1] = e
  BY <1>1, <1>2, <1>3, <1>4, AppendProperties
<1> QED
  BY <1>5 DEF e

LEMMA SetCheckKeepsTypes ==
    ASSUME TypeOK, NEW j \in Jobs, OwnCheck(j), checkId[j] # 0,
           NEW status \in {"in_progress", "review", "failure"},
           SetCheck(j, status)
    PROVE  /\ checks' \in Seq(CheckRun)
           /\ DOMAIN checks' = DOMAIN checks
           /\ checks'[checkId[j]] = [job |-> j, status |-> status]
           /\ \A c \in DOMAIN checks : c # checkId[j] => checks'[c] = checks[c]
<1> DEFINE e == [checks[checkId[j]] EXCEPT !.status = status]
<1>0. checks \in Seq(CheckRun)
  BY DEF TypeOK, CheckRun
<1>1. checks \in Seq(CheckRun) /\ checkId[j] \in 1 .. Len(checks) /\ checkId[j] \in DOMAIN checks
  BY <1>0 DEF OwnCheck
<1>2. checks[checkId[j]] \in CheckRun
  BY <1>1
<1>3. e = [job |-> j, status |-> status] /\ e \in CheckRun
  BY <1>2 DEF CheckRun, OwnCheck
<1>4. checks' = [checks EXCEPT ![checkId[j]] = e]
  BY DEF SetCheck
<1> QED
  BY <1>1, <1>3, <1>4, ExceptSeq

\* The types, by what changes together.
QueueTypes ==
    /\ queue \in [Jobs -> {"new", "waiting", "active", "completed", "failed"}]
    /\ failures \in [Jobs -> 0 .. MaxAttempts]
    /\ stalls \in [Jobs -> 0 .. MaxStalls + 1]
    /\ at \in [Jobs -> Replicas \cup {NoReplica}]
    /\ runs \in [Jobs -> Nat]
    /\ began \in [Jobs -> SUBSET Replicas]
    /\ crashes \in 0 .. MaxCrashes
RecordTypes == rec \in [Replicas -> [Jobs -> RecStatus]]
CallTypes ==
    /\ pc \in [Jobs -> Step]
    /\ tries \in [Jobs -> 0 .. MaxTries - 1]
    /\ faults \in 0 .. MaxFaults
LocalTypes ==
    /\ checkId \in [Jobs -> Nat]
    /\ target \in [Jobs -> Nat]
    /\ blocked \in [Jobs -> BOOLEAN]
GithubTypes ==
    /\ comments \in Seq(Jobs)
    /\ chatter \in 0 .. MaxChatter
    /\ inline \in [Jobs -> Nat]
    /\ lost \in 0 .. faults
CheckTypes == checks \in Seq(CheckRun)

LEMMA TypesByPart ==
    TypeOK <=> /\ QueueTypes /\ RecordTypes /\ CallTypes
               /\ LocalTypes /\ GithubTypes /\ CheckTypes
BY DEF TypeOK, QueueTypes, RecordTypes, CallTypes, LocalTypes, GithubTypes, CheckTypes, CheckRun


LEMMA NextQueueTypes ==
    WorkerInv /\ [Next]_vars => QueueTypes'
<1> SUFFICES ASSUME WorkerInv, [Next]_vars
             PROVE  QueueTypes'
  OBVIOUS
<1> USE DEF QueueTypes
<1>0. QueueTypes /\ \A j \in Jobs : Life(j)
  BY TypesByPart DEF WorkerInv
<1>1. ASSUME NEW j \in Jobs, NEW r \in Replicas, Submit(j, r) \/ Begin(j, r)
      PROVE  QueueTypes'
  BY <1>0, <1>1 DEF Submit, Begin
<1>2. ASSUME NEW j \in Jobs, Pipeline(j)
      PROVE  QueueTypes'
  BY <1>0, <1>2 DEF Pipeline, queueVars
<1>3. ASSUME NEW j \in Jobs, Store(j)
      PROVE  QueueTypes'
  BY <1>0, <1>3 DEF Store, Leave
<1>4. ASSUME NEW j \in Jobs, GiveUp(j)
      PROVE  QueueTypes'
  BY <1>0, <1>4, WorkerAssumption DEF GiveUp, Leave, Life
<1>5. ASSUME NEW j \in Jobs, Stall(j)
      PROVE  QueueTypes'
  BY <1>0, <1>5, WorkerAssumption DEF Stall, Leave, Life
<1>6. ASSUME NEW r \in Replicas, Crash(r)
      PROVE  QueueTypes'
  BY <1>0, <1>6, WorkerAssumption DEF Crash, queueVars
<1>7. ASSUME UNCHANGED <<queue, failures, stalls, at, runs, began, crashes>>
      PROVE  QueueTypes'
  BY <1>0, <1>7
<1> QED
  BY <1>1, <1>2, <1>3, <1>4, <1>5, <1>6, <1>7
     DEF Next, Worker, Quiet, Chat, vars, queueVars, Gate, StartCheck, List, Post, PostInline,
         FinishCheck, Recreate, Cleanup

LEMMA NextRecordTypes ==
    WorkerInv /\ [Next]_vars => RecordTypes'
<1> SUFFICES ASSUME WorkerInv, [Next]_vars
             PROVE  RecordTypes'
  OBVIOUS
<1> USE DEF RecordTypes, RecStatus
<1>0. RecordTypes
  BY TypesByPart DEF WorkerInv
<1>1. ASSUME NEW j \in Jobs, NEW r \in Replicas, Submit(j, r) \/ Begin(j, r)
      PROVE  RecordTypes'
  BY <1>0, <1>1 DEF Submit, Begin
<1>2. ASSUME NEW j \in Jobs, NEW status \in RecStatus, SetRecord(j, status)
      PROVE  RecordTypes'
  BY <1>0, <1>2 DEF SetRecord
<1>3. ASSUME NEW r \in Replicas, Crash(r)
      PROVE  RecordTypes'
  BY <1>0, <1>3 DEF Crash
<1>4. ASSUME UNCHANGED rec
      PROVE  RecordTypes'
  BY <1>0, <1>4
<1> QED
  BY <1>1, <1>2, <1>3, <1>4
     DEF Next, Worker, Quiet, Chat, vars, Gate, StartCheck, Pipeline, List, Post, PostInline,
         FinishCheck, Recreate, Cleanup, Store, GiveUp, Stall

LEMMA NextCallTypes ==
    WorkerInv /\ [Next]_vars => CallTypes'
<1> SUFFICES ASSUME WorkerInv, [Next]_vars
             PROVE  CallTypes'
  OBVIOUS
<1> USE DEF CallTypes
<1>0. TypeOK /\ CallTypes
  BY TypesByPart DEF WorkerInv
<1>1. ASSUME NEW j \in Jobs, NEW step \in Step, Fault(j, step) \/ Answer(j, step)
      PROVE  CallTypes'
  BY <1>0, <1>1, FaultKeepsTypes
<1>2. ASSUME NEW j \in Jobs, NEW step \in Step, Goto(j, step), UNCHANGED tries,
             faults' = faults \/ (faults < MaxFaults /\ faults' = faults + 1)
      PROVE  CallTypes'
  BY <1>0, <1>2, WorkerAssumption DEF Goto
<1>3. ASSUME NEW j \in Jobs, Leave(j), UNCHANGED <<tries, faults>>
      PROVE  CallTypes'
  BY <1>0, <1>3 DEF Leave, Step
<1>4. ASSUME NEW r \in Replicas, Crash(r)
      PROVE  CallTypes'
  BY <1>0, <1>4, WorkerAssumption DEF Crash, Step
<1>5. ASSUME NEW j \in Jobs, NEW r \in Replicas, Begin(j, r)
      PROVE  CallTypes'
  BY <1>0, <1>5 DEF Begin, Step
<1>6. ASSUME UNCHANGED <<pc, tries, faults>>
      PROVE  CallTypes'
  BY <1>0, <1>6
<1>7. /\ "startCheck" \in Step /\ "list" \in Step /\ "cleanup" \in Step /\ "pipeline" \in Step
      /\ "post" \in Step /\ "store" \in Step /\ "inline" \in Step /\ "finishCheck" \in Step
      /\ "recreate" \in Step /\ "giveUp" \in Step
  BY DEF Step
<1>8. ASSUME NEW j \in Jobs, Worker(j)
      PROVE  CallTypes'
  <2>1. CASE Gate(j)
    BY <1>1, <1>7, <2>1 DEF Gate
  <2>2. CASE StartCheck(j)
    BY <1>1, <1>7, <2>2 DEF StartCheck
  <2>3. CASE Pipeline(j)
    BY <1>1, <1>2, <1>7, <2>3 DEF Pipeline
  <2>4. CASE List(j)
    BY <1>1, <1>7, <2>4 DEF List
  <2>5. CASE Post(j)
    BY <1>1, <1>7, <2>5 DEF Post
  <2>6. CASE PostInline(j)
    BY <1>1, <1>7, <2>6 DEF PostInline
  <2>7. CASE FinishCheck(j)
    BY <1>1, <1>2, <1>7, <2>7 DEF FinishCheck
  <2>8. CASE Recreate(j)
    BY <1>1, <1>7, <2>8 DEF Recreate
  <2>9. CASE Store(j)
    BY <1>2, <1>3, <1>7, <2>9 DEF Store
  <2>10. CASE Cleanup(j)
    BY <1>1, <1>2, <1>7, <2>10 DEF Cleanup
  <2>11. CASE GiveUp(j)
    BY <1>3, <2>11 DEF GiveUp
  <2> QED
    BY <1>8, <2>1, <2>2, <2>3, <2>4, <2>5, <2>6, <2>7, <2>8, <2>9, <2>10, <2>11 DEF Worker
<1> QED
  BY <1>3, <1>4, <1>5, <1>6, <1>8 DEF Next, Quiet, Chat, vars, Submit, Stall

LEMMA NextLocalTypes ==
    WorkerInv /\ [Next]_vars => LocalTypes'
<1> SUFFICES ASSUME WorkerInv, [Next]_vars
             PROVE  LocalTypes'
  OBVIOUS
<1> USE DEF LocalTypes, localVars
<1>0. TypeOK /\ LocalTypes /\ Len(checks) \in Nat
  BY TypesByPart DEF WorkerInv, CheckTypes
<1>1. ASSUME NEW S, Forget(S)
      PROVE  LocalTypes'
  BY <1>0, <1>1, ForgetKeepsTypes
<1>2. ASSUME NEW j \in Jobs, Gate(j) \/ StartCheck(j) \/ List(j)
      PROVE  LocalTypes'
  <2>1. CASE Gate(j)
    <3>1. blocked' = blocked \/ blocked' = [blocked EXCEPT ![j] = TRUE]
      BY <2>1 DEF Gate
    <3>2. UNCHANGED <<checkId, target>>
      BY <2>1 DEF Gate
    <3>3. blocked' \in [Jobs -> BOOLEAN]
      BY <1>0, <3>1
    <3> QED
      BY <1>0, <3>2, <3>3
  <2>2. CASE StartCheck(j)
    <3>1. checkId' = checkId \/ checkId' = [checkId EXCEPT ![j] = Len(checks) + 1]
      BY <2>2 DEF StartCheck
    <3>2. UNCHANGED <<target, blocked>>
      BY <2>2 DEF StartCheck
    <3>3. checkId' \in [Jobs -> Nat]
      BY <1>0, <3>1
    <3> QED
      BY <1>0, <3>2, <3>3
  <2>3. CASE List(j)
    BY <1>0, <2>3 DEF List
  <2> QED
    BY <1>2, <2>1, <2>2, <2>3
<1>3. ASSUME UNCHANGED localVars
      PROVE  LocalTypes'
  BY <1>0, <1>3
<1> QED
  BY <1>1, <1>2, <1>3
     DEF Next, Worker, Quiet, Chat, vars, Submit, Begin, Pipeline, Post, PostInline, FinishCheck,
         Recreate, Cleanup, Store, GiveUp, Stall, Crash, Leave

LEMMA NextGithubTypes ==
    WorkerInv /\ [Next]_vars => GithubTypes'
<1> SUFFICES ASSUME WorkerInv, [Next]_vars
             PROVE  GithubTypes'
  OBVIOUS
<1> USE DEF GithubTypes, githubVars
<1>0. /\ TypeOK /\ GithubTypes /\ CallTypes' /\ CallTypes
      /\ faults \in Nat /\ faults' \in Nat
  BY TypesByPart, NextCallTypes, WorkerAssumption DEF WorkerInv, CallTypes
<1>1. ASSUME NEW j \in Jobs, Upsert(j)
      PROVE  comments' \in Seq(Jobs)
  <2>1. CASE target[j] = 0
    BY <1>0, <1>1, <2>1 DEF Upsert
  <2>2. CASE target[j] # 0 /\ target[j] \in 1 .. Len(comments)
    <3>1. comments' = [comments EXCEPT ![target[j]] = j]
      BY <1>1, <2>2 DEF Upsert
    <3> QED BY <1>0, <2>2, <3>1, ExceptSeq
  <2>3. CASE target[j] # 0 /\ target[j] \notin 1 .. Len(comments)
    <3>1. comments' = [comments EXCEPT ![target[j]] = j]
      BY <1>1, <2>3 DEF Upsert
    <3>2. comments' = comments
      BY <1>0, <2>3, <3>1
    <3> QED BY <1>0, <3>2
  <2> QED
    BY <2>1, <2>2, <2>3
<1>2. faults' >= faults
  <2>1. ASSUME NEW j \in Jobs, NEW step, Fault(j, step) \/ Answer(j, step)
        PROVE  faults' >= faults
    BY <1>0, <2>1 DEF Fault, Answer
  <2>2. ASSUME faults' = faults \/ faults' = faults + 1
        PROVE  faults' >= faults
    BY <1>0, <2>2
  <2> QED
    BY <2>1, <2>2
       DEF Next, Worker, Quiet, Chat, vars, Submit, Begin, Gate, StartCheck, Pipeline, List, Post,
           PostInline, FinishCheck, Recreate, Cleanup, Store, GiveUp, Stall, Crash
<1>3. ASSUME NEW j \in Jobs, Post(j)
      PROVE  GithubTypes'
  <2>1. UNCHANGED <<inline, chatter>>
    BY <1>3 DEF Post
  <2>2. comments' \in Seq(Jobs)
    BY <1>0, <1>1, <1>3 DEF Post
  <2>3. lost' = lost \/ (lost' = lost + 1 /\ faults' = faults + 1)
    BY <1>3 DEF Post, Fault
  <2> QED
    BY <1>0, <1>2, <2>1, <2>2, <2>3
<1>4. ASSUME NEW j \in Jobs, PostInline(j)
      PROVE  GithubTypes'
  <2>1. inline' \in [Jobs -> Nat]
    BY <1>0, <1>4 DEF PostInline
  <2>2. UNCHANGED <<comments, chatter, lost>>
    BY <1>4 DEF PostInline
  <2> QED
    BY <1>0, <1>2, <2>1, <2>2
<1>5. ASSUME UNCHANGED <<comments, chatter, inline, lost>>
      PROVE  GithubTypes'
  BY <1>0, <1>2, <1>5
<1>6. CASE Chat
  BY <1>0, <1>2, <1>6, WorkerAssumption DEF Chat
<1> QED
  BY <1>3, <1>4, <1>5, <1>6
     DEF Next, Worker, Quiet, Chat, vars, Submit, Begin, Gate, StartCheck, Pipeline, List, FinishCheck,
         Recreate, Cleanup, Store, GiveUp, Stall, Crash

-----------------------------------------------------------------------------
(* Check runs.                                                             *)

\* Of the check runs, a step leaves all, adds one, or gives one that an attempt
\* remembers a new status.
LEMMA StepOnChecks ==
    ASSUME [Next]_vars
    PROVE  \/ UNCHANGED checks
           \/ \E j \in Jobs, status \in {"in_progress", "review", "failure"} :
                \/ NewCheck(j, status)
                \/ checkId[j] # 0 /\ status # "in_progress" /\ SetCheck(j, status)
BY DEF Next, Worker, Quiet, Chat, vars, githubVars, Submit, Begin, Gate, StartCheck, Pipeline, List,
       Post, PostInline, FinishCheck, Recreate, Cleanup, Store, GiveUp, Stall, Crash

\* No check run is deleted, or handed to another job.
LEMMA ChecksStay ==
    ASSUME WorkerInv, [Next]_vars
    PROVE  /\ CheckTypes'
           /\ DOMAIN checks \subseteq DOMAIN checks'
           /\ \A c \in DOMAIN checks : checks'[c].job = checks[c].job
<1>0. /\ TypeOK /\ checks \in Seq(CheckRun) /\ \A j \in Jobs : OwnCheck(j)
      /\ DOMAIN checks = 1 .. Len(checks)
  <2>1. TypeOK /\ checks \in Seq(CheckRun) /\ \A j \in Jobs : OwnCheck(j)
    BY TypesByPart DEF WorkerInv, CheckTypes
  <2> QED BY <2>1
<1> USE DEF CheckTypes
<1>1. CASE UNCHANGED checks
  BY <1>0, <1>1
<1>2. ASSUME NEW j \in Jobs, NEW status \in {"in_progress", "review", "failure"},
             NewCheck(j, status)
      PROVE  /\ CheckTypes'
             /\ DOMAIN checks \subseteq DOMAIN checks'
             /\ \A c \in DOMAIN checks : checks'[c].job = checks[c].job
  <2>1. /\ checks' \in Seq(CheckRun)
        /\ Len(checks') = Len(checks) + 1
        /\ \A c \in DOMAIN checks : checks'[c] = checks[c]
    BY <1>0, <1>2, NewCheckKeepsTypes
  <2>2. DOMAIN checks' = 1 .. Len(checks')
    BY <2>1
  <2> QED
    BY <1>0, <2>1, <2>2
<1>3. ASSUME NEW j \in Jobs, NEW status \in {"in_progress", "review", "failure"},
             checkId[j] # 0, SetCheck(j, status)
      PROVE  /\ CheckTypes'
             /\ DOMAIN checks \subseteq DOMAIN checks'
             /\ \A c \in DOMAIN checks : checks'[c].job = checks[c].job
  <2>1. /\ checks' \in Seq(CheckRun)
        /\ DOMAIN checks' = DOMAIN checks
        /\ checks'[checkId[j]] = [job |-> j, status |-> status]
        /\ \A c \in DOMAIN checks : c # checkId[j] => checks'[c] = checks[c]
    BY <1>0, <1>3, SetCheckKeepsTypes
  <2>2. checks[checkId[j]].job = j
    BY <1>0, <1>3 DEF OwnCheck
  <2> QED
    BY <2>1, <2>2
<1> QED
  BY <1>1, <1>2, <1>3, StepOnChecks

LEMMA NextOwnCheck ==
    WorkerInv /\ [Next]_vars => \A j \in Jobs : OwnCheck(j)'
<1> SUFFICES ASSUME WorkerInv, [Next]_vars, NEW i \in Jobs
             PROVE  OwnCheck(i)'
  OBVIOUS
<1>0. TypeOK /\ OwnCheck(i) /\ checkId \in [Jobs -> Nat]
  BY TypesByPart DEF WorkerInv, LocalTypes
<1>1. ASSUME checkId'[i] = 0 \/ checkId'[i] = checkId[i]
      PROVE  OwnCheck(i)'
  BY <1>0, <1>1, ChecksStay DEF OwnCheck
<1>2. ASSUME NEW j \in Jobs, StartCheck(j), checkId' # checkId
      PROVE  OwnCheck(i)'
  <2>1. NewCheck(j, "in_progress") /\ checkId' = [checkId EXCEPT ![j] = Len(checks) + 1]
    BY <1>2 DEF StartCheck
  <2>2. CASE i = j
    <3>1. checkId'[i] = Len(checks) + 1
      BY <1>0, <2>1, <2>2
    <3>2. /\ checks' \in Seq(CheckRun) /\ Len(checks') = Len(checks) + 1
          /\ checks'[Len(checks) + 1] = [job |-> j, status |-> "in_progress"]
      BY <1>0, <2>1, NewCheckKeepsTypes
    <3>3. Len(checks) + 1 \in DOMAIN checks'
      <4>1. Len(checks) \in Nat
        BY TypesByPart DEF WorkerInv, CheckTypes
      <4> QED BY <3>2, <4>1
    <3> QED
      BY <2>2, <3>1, <3>2, <3>3 DEF OwnCheck
  <2>3. CASE i # j
    BY <1>0, <1>1, <2>1, <2>3
  <2> QED
    BY <2>2, <2>3
<1>3. ASSUME NEW S, Forget(S)
      PROVE  OwnCheck(i)'
  BY <1>1, <1>3 DEF Forget
<1>4. CASE UNCHANGED checkId
  BY <1>1, <1>4
<1> QED
  BY <1>2, <1>3, <1>4
     DEF Next, Worker, Quiet, Chat, vars, localVars, Submit, Begin, Gate, Pipeline, List, Post,
         PostInline, FinishCheck, Recreate, Cleanup, Store, GiveUp, Stall, Crash, Leave

-----------------------------------------------------------------------------
(* What a job pays for.                                                    *)

LEMMA NextLife ==
    WorkerInv /\ [Next]_vars => \A j \in Jobs : Life(j)'
<1> SUFFICES ASSUME WorkerInv, [Next]_vars, NEW i \in Jobs
             PROVE  Life(i)'
  OBVIOUS
<1> USE DEF Life, Paid
<1>0. /\ Life(i) /\ QueueTypes /\ CallTypes
      /\ MaxAttempts \in Nat \ {0} /\ MaxStalls \in Nat /\ NoReplica \notin Replicas
  BY TypesByPart, WorkerAssumption DEF WorkerInv
<1>1. /\ failures[i] \in Nat /\ stalls[i] \in Nat /\ runs[i] \in Nat /\ pc[i] \in Step
      /\ queue[i] \in {"new", "waiting", "active", "completed", "failed"}
  BY <1>0 DEF QueueTypes, CallTypes
\* Within an attempt, only the pipeline is paid, and once.
<1>2. ASSUME NEW j \in Jobs, NEW step \in Paid, Fault(j, step) \/ Answer(j, step) \/ Goto(j, step),
             pc[j] \in Step \ {"idle"},
             UNCHANGED <<queue, failures, stalls, at, runs>> \/
               (UNCHANGED <<queue, failures, stalls, at>> /\ pc[j] \notin Paid
                  /\ runs' = [runs EXCEPT ![j] = @ + 1] /\ pc' = [pc EXCEPT ![j] = step])
      PROVE  Life(i)'
  BY <1>0, <1>1, <1>2 DEF QueueTypes, CallTypes, Fault, Answer, Goto, Step
<1>3. ASSUME NEW j \in Jobs, NEW step \in {"startCheck", "pipeline"},
             Fault(j, step) \/ Answer(j, step), pc[j] \in {"gate", "startCheck"},
             UNCHANGED <<queue, failures, stalls, at, runs>>
      PROVE  Life(i)'
  BY <1>0, <1>1, <1>3 DEF QueueTypes, CallTypes, Fault, Answer, Goto, Step
<1>4. ASSUME NEW j \in Jobs, NEW r \in Replicas, Submit(j, r)
      PROVE  Life(i)'
  BY <1>0, <1>1, <1>4 DEF QueueTypes, Submit
<1>5. ASSUME NEW j \in Jobs, NEW r \in Replicas, Begin(j, r)
      PROVE  Life(i)'
  BY <1>0, <1>1, <1>5 DEF QueueTypes, CallTypes, Begin
<1>6. ASSUME NEW j \in Jobs, Gate(j) \/ StartCheck(j)
      PROVE  Life(i)'
  BY <1>2, <1>3, <1>6 DEF Gate, StartCheck, queueVars, Step
<1>7. ASSUME NEW j \in Jobs, Pipeline(j)
      PROVE  Life(i)'
  BY <1>2, <1>7 DEF Pipeline, queueVars, Step, Answer, Goto
<1>8. ASSUME NEW j \in Jobs, List(j) \/ Post(j) \/ PostInline(j)
      PROVE  Life(i)'
  BY <1>2, <1>8 DEF List, Post, PostInline, queueVars, Step
<1>9. ASSUME NEW j \in Jobs, FinishCheck(j) \/ Recreate(j) \/ Cleanup(j)
      PROVE  Life(i)'
  BY <1>2, <1>9 DEF FinishCheck, Recreate, Cleanup, queueVars, Step
<1>10. ASSUME NEW j \in Jobs, Store(j)
       PROVE  Life(i)'
  <2>1. CASE Goto(j, "cleanup") /\ UNCHANGED <<rec, queue, at, localVars>>
    BY <1>2, <1>10, <2>1 DEF Store, Step
  <2>2. CASE queue' = [queue EXCEPT ![j] = "completed"] /\ Leave(j)
    BY <1>0, <1>1, <1>10, <2>2 DEF Store, Leave, QueueTypes, CallTypes, Step
  <2> QED
    BY <1>10, <2>1, <2>2 DEF Store
<1>11. ASSUME NEW j \in Jobs, GiveUp(j)
       PROVE  Life(i)'
  BY <1>0, <1>1, <1>11 DEF GiveUp, Leave, QueueTypes, CallTypes, Step
<1>12. ASSUME NEW j \in Jobs, Stall(j)
       PROVE  Life(i)'
  BY <1>0, <1>1, <1>12 DEF Stall, Leave, QueueTypes, CallTypes, Step
<1>13. ASSUME NEW r \in Replicas, Crash(r)
       PROVE  Life(i)'
  BY <1>0, <1>1, <1>13 DEF Crash, Running, QueueTypes, CallTypes, Step, queueVars
<1>14. CASE Chat \/ UNCHANGED vars
  BY <1>0, <1>14 DEF vars, Chat, queueVars
<1> QED
  BY <1>4, <1>5, <1>6, <1>7, <1>8, <1>9, <1>10, <1>11, <1>12, <1>13, <1>14
     DEF Next, Worker, Quiet

LEMMA WorkerInvariant == Spec => []WorkerInv
<1>1. WorkerInv /\ [Next]_vars => WorkerInv'
  <2> SUFFICES ASSUME WorkerInv, [Next]_vars
               PROVE  WorkerInv'
    OBVIOUS
  <2>1. TypeOK'
    <3>1. /\ QueueTypes' /\ RecordTypes' /\ CallTypes' /\ LocalTypes' /\ GithubTypes'
          /\ CheckTypes'
      BY NextQueueTypes, NextRecordTypes, NextCallTypes, NextLocalTypes, NextGithubTypes,
         ChecksStay
    <3> QED
      BY <3>1 DEF TypeOK, QueueTypes, RecordTypes, CallTypes, LocalTypes, GithubTypes,
                  CheckTypes, CheckRun
  <2> QED
    BY <2>1, NextLife, NextOwnCheck DEF WorkerInv
<1> QED
  BY <1>1, InitWorkerInv, PTL DEF Spec

\* Every reachable state has the declared types: attempts, stalls, tries and
\* failed calls stay within their bounds.
THEOREM TypeCorrect == Spec => []TypeOK
<1>1. WorkerInv => TypeOK
  BY DEF WorkerInv
<1> QED
  BY <1>1, WorkerInvariant, PTL

\* For any number of failures and crashes, a job pays for its agents at most once
\* for every attempt and stall that BullMQ allows it.
THEOREM RunsAreBounded == Spec => []RunsBounded
<1>1. WorkerInv => RunsBounded
  <2> SUFFICES ASSUME WorkerInv, NEW j \in Jobs
               PROVE  runs[j] <= MaxAttempts + MaxStalls
    BY DEF RunsBounded
  <2>1. Life(j) /\ QueueTypes /\ CallTypes
    BY TypesByPart DEF WorkerInv
  <2>2. /\ failures[j] \in Nat /\ stalls[j] \in Nat /\ runs[j] \in Nat
        /\ MaxAttempts \in Nat /\ MaxStalls \in Nat
    BY <2>1, WorkerAssumption DEF QueueTypes
  <2> QED
    BY <2>1, <2>2 DEF Life, Paid
<1> QED
  BY <1>1, WorkerInvariant, PTL

-----------------------------------------------------------------------------
(* What a record stands for.                                               *)

\* The verdict of j's review is on GitHub.
HasVerdict(j) ==
    \E c \in DOMAIN checks : checks[c] = [job |-> j, status |-> "review"]

\* An attempt that found or wrote a comment has one, one about to store a review
\* has its verdict; a record is completed only of a job that is, and then both
\* are there.  Only an attempt between its listing and its record is blocked.
Posted(j) ==
    /\ target[j] # 0 \/ pc[j] \in {"inline", "finishCheck", "recreate"} => comments # <<>>
    /\ pc[j] = "store" /\ ~blocked[j] => comments # <<>> /\ HasVerdict(j)
    /\ \A r \in Replicas : rec[r][j] = "completed" =>
         queue[j] = "completed" /\ comments # <<>> /\ HasVerdict(j)
    /\ blocked[j] => pc[j] \in {"list", "post", "store", "cleanup", "giveUp"}

PostedInv == \A j \in Jobs : Posted(j)

\* Comments are never deleted.
LEMMA CommentsStay ==
    ASSUME WorkerInv, [Next]_vars, comments # <<>>
    PROVE  comments' # <<>>
<1>0. comments \in Seq(Jobs)
  BY TypesByPart DEF WorkerInv, GithubTypes
<1>1. ASSUME NEW j \in Jobs, Upsert(j)
      PROVE  comments' # <<>>
  <2>1. CASE target[j] = 0
    BY <1>0, <1>1, <2>1 DEF Upsert
  <2>2. CASE target[j] # 0
    <3>1. comments' = [comments EXCEPT ![target[j]] = j]
      BY <1>1, <2>2 DEF Upsert
    <3>2. DOMAIN comments' = DOMAIN comments /\ DOMAIN comments # {}
      BY <1>0, <3>1
    <3> QED
      BY <3>2
  <2> QED
    BY <2>1, <2>2
<1>2. CASE UNCHANGED comments
  BY <1>2
<1> QED
  BY <1>1, <1>2
     DEF Next, Worker, Quiet, Chat, vars, githubVars, Submit, Begin, Gate, StartCheck, Pipeline, List,
         Post, PostInline, FinishCheck, Recreate, Cleanup, Store, GiveUp, Stall, Crash

\* A verdict that is posted stays unless its own job's attempt flips it.
LEMMA VerdictStays ==
    ASSUME WorkerInv, [Next]_vars, NEW i \in Jobs, HasVerdict(i),
           pc[i] # "cleanup"
    PROVE  HasVerdict(i)'
<1>0. /\ TypeOK /\ \A j \in Jobs : OwnCheck(j) /\ checks \in Seq(CheckRun)
  BY TypesByPart DEF WorkerInv, CheckTypes
<1>1. PICK c \in DOMAIN checks : checks[c] = [job |-> i, status |-> "review"]
  BY DEF HasVerdict
<1>2. c \in DOMAIN checks'
  BY ChecksStay
<1>3. ASSUME checks'[c] = checks[c]
      PROVE  HasVerdict(i)'
  BY <1>1, <1>2, <1>3 DEF HasVerdict
<1>4. CASE UNCHANGED checks
  BY <1>3, <1>4
<1>5. ASSUME NEW j \in Jobs, NEW status \in {"in_progress", "review", "failure"}, NewCheck(j, status)
      PROVE  HasVerdict(i)'
  BY <1>0, <1>3, <1>5, NewCheckKeepsTypes
<1>6. ASSUME NEW j \in Jobs, NEW status \in {"in_progress", "review", "failure"},
             checkId[j] # 0, SetCheck(j, status), j # i \/ status = "review"
      PROVE  HasVerdict(i)'
  <2>1. /\ checks'[checkId[j]] = [job |-> j, status |-> status]
        /\ c # checkId[j] => checks'[c] = checks[c]
    BY <1>0, <1>6, SetCheckKeepsTypes
  <2>2. checks[checkId[j]].job = j /\ checks[c].job = i
    BY <1>0, <1>1, <1>6 DEF OwnCheck
  <2>3. CASE c = checkId[j]
    <3>1. j = i /\ status = "review"
      BY <1>6, <2>2, <2>3
    <3> QED
      BY <1>1, <1>3, <2>1, <2>3, <3>1
  <2> QED
    BY <1>3, <2>1, <2>3
<1>7. ASSUME NEW j \in Jobs, Cleanup(j)
      PROVE  HasVerdict(i)'
  <2>1. j # i
    BY <1>7 DEF Cleanup
  <2> QED
    BY <1>4, <1>6, <1>7, <2>1 DEF Cleanup
<1>8. ASSUME NEW j \in Jobs, FinishCheck(j)
      PROVE  HasVerdict(i)'
  BY <1>4, <1>6, <1>8 DEF FinishCheck
<1> QED
  BY <1>4, <1>5, <1>7, <1>8
     DEF Next, Worker, Quiet, Chat, vars, githubVars, Submit, Begin, Gate, StartCheck, Pipeline, List,
         Post, PostInline, Recreate, Store, GiveUp, Stall, Crash

LEMMA InitPosted == Init => PostedInv
BY DEF Init, PostedInv, Posted

\* A step that leaves j's attempt and records alone keeps what they stand for.
LEMMA PostedStays ==
    ASSUME WorkerInv, [Next]_vars, NEW i \in Jobs, Posted(i),
           pc'[i] = pc[i], target'[i] = target[i], blocked'[i] = blocked[i],
           queue'[i] = queue[i],
           \A r \in Replicas : rec'[r][i] \in {"absent", rec[r][i]}
    PROVE  Posted(i)'
<1>1. comments # <<>> => comments' # <<>>
  BY CommentsStay
<1>2. pc[i] # "cleanup" /\ HasVerdict(i) => HasVerdict(i)'
  BY VerdictStays
<1>3. queue[i] = "completed" => pc[i] # "cleanup"
  BY DEF WorkerInv, Life
<1> QED
  BY <1>1, <1>2, <1>3 DEF Posted

LEMMA NextPosted ==
    WorkerInv /\ PostedInv /\ [Next]_vars => PostedInv'
<1> SUFFICES ASSUME WorkerInv, PostedInv, [Next]_vars, NEW i \in Jobs
             PROVE  Posted(i)'
  BY DEF PostedInv
<1>0. /\ Posted(i) /\ Life(i) /\ OwnCheck(i)
      /\ TypeOK /\ QueueTypes /\ CallTypes /\ LocalTypes /\ RecordTypes
      /\ \A j \in Jobs : Life(j)
  BY TypesByPart DEF WorkerInv, PostedInv
<1>1. /\ comments # <<>> => comments' # <<>>
      /\ pc[i] # "cleanup" /\ HasVerdict(i) => HasVerdict(i)'
      /\ queue[i] = "active" <=> pc[i] # "idle"
      /\ \A r \in Replicas : rec[r][i] = "completed" => queue[i] = "completed"
  BY <1>0, CommentsStay, VerdictStays DEF Life, Posted
\* A handler's step of another job.
<1>2. ASSUME NEW j \in Jobs, j # i, Worker(j)
      PROVE  Posted(i)'
  <2>1. pc'[i] = pc[i] /\ queue'[i] = queue[i]
    BY <1>0, <1>2
       DEF Worker, QueueTypes, CallTypes, queueVars, Gate, StartCheck, Pipeline, List, Post,
           PostInline, FinishCheck, Recreate, Cleanup, Store, GiveUp, Leave, Goto, Fault, Answer
  <2>2. target'[i] = target[i] /\ blocked'[i] = blocked[i]
    BY <1>0, <1>2
       DEF Worker, LocalTypes, localVars, Gate, StartCheck, Pipeline, List, Post,
           PostInline, FinishCheck, Recreate, Cleanup, Store, GiveUp, Leave, Forget
  <2>3. rec' = rec \/ \E status \in RecStatus : SetRecord(j, status)
    BY <1>2
       DEF Worker, RecStatus, Gate, StartCheck, Pipeline, List, Post,
           PostInline, FinishCheck, Recreate, Cleanup, Store, GiveUp
  <2>4. \A r \in Replicas : rec'[r][i] = rec[r][i]
    <3>1. ASSUME NEW status, SetRecord(j, status), NEW r \in Replicas
          PROVE  rec'[r][i] = rec[r][i]
      <4>1. rec \in [Replicas -> [Jobs -> RecStatus]]
        BY <1>0 DEF RecordTypes
      <4>2. CASE r = at[j]
        BY <1>2, <3>1, <4>1, <4>2 DEF SetRecord
      <4>3. CASE r # at[j]
        BY <3>1, <4>1, <4>3 DEF SetRecord
      <4> QED
        BY <4>2, <4>3
    <3> QED
      BY <2>3, <3>1
  <2> QED
    BY <1>0, <2>1, <2>2, <2>4, PostedStays
\* Steps of its own.
<1>3. ASSUME Gate(i) \/ StartCheck(i) \/ Pipeline(i)
      PROVE  Posted(i)'
  <2>1. /\ pc'[i] \in {"gate", "startCheck", "list", "pipeline", "cleanup"}
        /\ UNCHANGED <<queue, rec, target>>
        /\ blocked'[i] => pc'[i] = "list"
    <3>1. CASE Gate(i)
      BY <1>0, <3>1 DEF Gate, Fault, Answer, Goto, CallTypes, LocalTypes, Posted, queueVars
    <3>2. CASE StartCheck(i)
      BY <1>0, <3>2 DEF StartCheck, Fault, Answer, Goto, CallTypes, LocalTypes, Posted, queueVars
    <3>3. CASE Pipeline(i)
      BY <1>0, <3>3 DEF Pipeline, Fault, Answer, Goto, CallTypes, localVars, Posted, queueVars
    <3> QED BY <1>3, <3>1, <3>2, <3>3
  <2>2. queue[i] = "active"
    BY <1>1, <1>3 DEF Gate, StartCheck, Pipeline
  <2> QED
    BY <1>0, <1>1, <2>1, <2>2 DEF Posted
<1>4. CASE List(i)
  <2>1. /\ pc'[i] \in {"list", "post", "cleanup"}
        /\ UNCHANGED <<queue, rec, blocked, comments>>
        /\ target'[i] # 0 => target[i] # 0 \/ comments # <<>>
    BY <1>0, <1>4 DEF List, Fault, Answer, Goto, CallTypes, LocalTypes, queueVars, githubVars
  <2>2. queue[i] = "active"
    BY <1>1, <1>4 DEF List
  <2> QED
    BY <1>0, <1>1, <2>1, <2>2 DEF Posted
<1>5. CASE Post(i)
  <2>1. /\ pc'[i] \in {"post", "store", "inline", "cleanup"}
        /\ pc'[i] = "store" => blocked[i]
        /\ UNCHANGED <<queue, rec, blocked, target>>
        /\ pc'[i] = "inline" => Upsert(i)
        /\ pc'[i] = "inline" => ~blocked[i]
    BY <1>0, <1>5 DEF Post, Fault, Answer, Goto, CallTypes, queueVars, localVars
  <2>2. queue[i] = "active"
    BY <1>1, <1>5 DEF Post
  <2>3. Upsert(i) => comments' # <<>>
    <3>1. CASE target[i] = 0
      <4>1. comments \in Seq(Jobs)
        BY TypesByPart DEF WorkerInv, GithubTypes
      <4> QED BY <3>1, <4>1 DEF Upsert
    <3>2. CASE target[i] # 0
      BY <1>0, <1>1, <3>2 DEF Posted
    <3> QED BY <3>1, <3>2
  <2> QED
    BY <1>0, <1>1, <2>1, <2>2, <2>3 DEF Posted
<1>6. CASE PostInline(i)
  <2>1. /\ pc'[i] \in {"inline", "finishCheck"}
        /\ UNCHANGED <<queue, rec, blocked, target>>
    BY <1>0, <1>6 DEF PostInline, Fault, Answer, Goto, CallTypes, queueVars, localVars
  <2>2. queue[i] = "active" /\ pc[i] = "inline"
    BY <1>1, <1>6 DEF PostInline
  <2> QED
    BY <1>0, <1>1, <2>1, <2>2 DEF Posted
<1>7. ASSUME FinishCheck(i) \/ Recreate(i)
      PROVE  Posted(i)'
  <2>1. /\ pc'[i] \in {"finishCheck", "recreate", "store", "cleanup"}
        /\ UNCHANGED <<queue, rec, blocked, target>>
    BY <1>0, <1>7 DEF FinishCheck, Recreate, Fault, Answer, Goto, CallTypes, queueVars, localVars
  <2>2. queue[i] = "active" /\ pc[i] \in {"finishCheck", "recreate"}
    BY <1>1, <1>7 DEF FinishCheck, Recreate
  <2>3. pc'[i] = "store" =>
          NewCheck(i, "review") \/ (checkId[i] # 0 /\ SetCheck(i, "review"))
    <3>1. CASE FinishCheck(i)
      BY <1>0, <3>1 DEF FinishCheck, Fault, Answer, Goto, CallTypes
    <3>2. CASE Recreate(i)
      <4>1. pc[i] = "recreate" /\ (Fault(i, "cleanup") \/ NewCheck(i, "review"))
        BY <3>2 DEF Recreate
      <4>2. Fault(i, "cleanup") => pc'[i] # "store"
        BY <1>0, <4>1 DEF Fault, Goto, CallTypes
      <4> QED
        BY <4>1, <4>2
    <3> QED
      BY <1>7, <3>1, <3>2
  <2>4. NewCheck(i, "review") => HasVerdict(i)'
    <3> SUFFICES ASSUME NewCheck(i, "review")
                 PROVE  HasVerdict(i)'
      OBVIOUS
    <3>1. /\ checks' \in Seq(CheckRun) /\ Len(checks') = Len(checks) + 1
          /\ checks'[Len(checks) + 1] = [job |-> i, status |-> "review"]
      BY <1>0, NewCheckKeepsTypes
    <3>2. Len(checks) \in Nat
      BY TypesByPart DEF WorkerInv, CheckTypes
    <3>3. Len(checks) + 1 \in DOMAIN checks'
      BY <3>1, <3>2
    <3> QED
      BY <3>1, <3>3 DEF HasVerdict
  <2>5. checkId[i] # 0 /\ SetCheck(i, "review") => HasVerdict(i)'
    BY <1>0, SetCheckKeepsTypes DEF HasVerdict, OwnCheck
  <2> QED
    BY <1>0, <1>1, <2>1, <2>2, <2>3, <2>4, <2>5 DEF Posted
<1>8. CASE Store(i)
  <2>1. /\ queue[i] = "active" /\ pc[i] = "store" /\ at[i] \in Replicas
    BY <1>0, <1>1, <1>8 DEF Store, Life
  <2>2. CASE Goto(i, "cleanup") /\ UNCHANGED <<rec, queue, at, localVars>>
    BY <1>0, <1>1, <2>1, <2>2 DEF Posted, Goto, CallTypes, localVars
  <2>3. CASE /\ SetRecord(i, IF blocked[i] THEN "failed" ELSE "completed")
             /\ queue' = [queue EXCEPT ![i] = "completed"]
             /\ Leave(i)
    <3>1. /\ pc'[i] = "idle" /\ target'[i] = 0 /\ ~blocked'[i]
          /\ queue'[i] = "completed"
      BY <1>0, <2>3 DEF Leave, Forget, CallTypes, QueueTypes
    <3>2. \A r \in Replicas : rec'[r][i] = "completed" => rec[r][i] = "completed" \/ ~blocked[i]
      BY <1>0, <2>1, <2>3 DEF SetRecord, RecordTypes
    <3> QED
      BY <1>0, <1>1, <2>1, <3>1, <3>2 DEF Posted
  <2> QED
    BY <1>8, <2>2, <2>3 DEF Store
<1>9. CASE Cleanup(i)
  <2>1. /\ pc'[i] \in {"cleanup", "giveUp"}
        /\ UNCHANGED <<queue, rec, blocked, target>>
    BY <1>0, <1>9 DEF Cleanup, Fault, Answer, Goto, CallTypes, queueVars, localVars
  <2>2. queue[i] = "active"
    BY <1>1, <1>9 DEF Cleanup
  <2> QED
    BY <1>0, <1>1, <2>1, <2>2 DEF Posted
<1>10. CASE GiveUp(i)
  <2>1. queue[i] = "active" /\ at[i] \in Replicas
    BY <1>0, <1>1, <1>10 DEF GiveUp, Life
  <2>2. pc'[i] = "idle" /\ target'[i] = 0 /\ ~blocked'[i]
    BY <1>0, <1>10 DEF GiveUp, Leave, Forget, CallTypes
  <2>3. \A r \in Replicas : rec'[r][i] = "completed" => rec[r][i] = "completed"
    BY <1>0, <1>10, <2>1 DEF GiveUp, SetRecord, RecordTypes
  <2> QED
    BY <1>0, <1>1, <2>1, <2>2, <2>3 DEF Posted
<1>11. ASSUME NEW j \in Jobs, Stall(j)
       PROVE  Posted(i)'
  <2>1. CASE i = j
    <3>1. pc'[i] = "idle" /\ target'[i] = 0 /\ ~blocked'[i] /\ UNCHANGED rec
      BY <1>0, <1>11, <2>1 DEF Stall, Leave, Forget, CallTypes
    <3>2. queue[i] = "active"
      BY <1>1, <1>11, <2>1 DEF Stall
    <3> QED
      BY <1>0, <1>1, <3>1, <3>2 DEF Posted
  <2>2. CASE i # j
    <3>1. pc'[i] = pc[i] /\ queue'[i] = queue[i] /\ UNCHANGED rec
      BY <1>0, <1>11, <2>2 DEF Stall, Leave, CallTypes, QueueTypes
    <3>2. target'[i] = target[i]
      BY <1>11, <2>2 DEF Stall, Leave, Forget
    <3>3. blocked'[i] = blocked[i]
      BY <1>0, <1>11, <2>2 DEF Stall, Leave, Forget, LocalTypes
    <3> QED
      BY <1>0, <3>1, <3>2, <3>3, PostedStays
  <2> QED
    BY <2>1, <2>2
<1>12. ASSUME NEW j \in Jobs, NEW r \in Replicas, Submit(j, r)
       PROVE  Posted(i)'
  <2>1. CASE i = j
    <3>1. /\ queue[i] = "new" /\ UNCHANGED <<pc, target, blocked>>
          /\ pc[i] = "idle"
      BY <1>1, <1>12, <2>1 DEF Submit, localVars
    <3>2. \A q \in Replicas : rec'[q][i] = "completed" => rec[q][i] = "completed"
      BY <1>0, <1>12, <2>1 DEF Submit, RecordTypes
    <3> QED
      BY <1>0, <1>1, <3>1, <3>2 DEF Posted
  <2>2. CASE i # j
    <3>1. UNCHANGED <<pc, target, blocked>> /\ queue'[i] = queue[i]
      BY <1>0, <1>12, <2>2 DEF Submit, QueueTypes, localVars
    <3>2. \A q \in Replicas : rec'[q][i] = rec[q][i]
      BY <1>0, <1>12, <2>2 DEF Submit, RecordTypes
    <3> QED
      BY <1>0, <3>1, <3>2, PostedStays
  <2> QED
    BY <2>1, <2>2
<1>13. ASSUME NEW j \in Jobs, NEW r \in Replicas, Begin(j, r)
       PROVE  Posted(i)'
  <2>1. CASE i = j
    <3>1. /\ queue[i] = "waiting" /\ UNCHANGED <<target, blocked>>
          /\ pc[i] = "idle" /\ pc'[i] = "gate"
      BY <1>0, <1>1, <1>13, <2>1 DEF Begin, CallTypes, localVars
    <3>2. \A q \in Replicas : rec'[q][i] = "completed" => rec[q][i] = "completed"
      BY <1>0, <1>13, <2>1 DEF Begin, RecordTypes
    <3> QED
      BY <1>0, <1>1, <3>1, <3>2 DEF Posted
  <2>2. CASE i # j
    <3>1. UNCHANGED <<target, blocked>> /\ pc'[i] = pc[i] /\ queue'[i] = queue[i]
      BY <1>0, <1>13, <2>2 DEF Begin, QueueTypes, CallTypes, localVars
    <3>2. \A q \in Replicas : rec'[q][i] = rec[q][i]
      BY <1>0, <1>13, <2>2 DEF Begin, RecordTypes
    <3> QED
      BY <1>0, <3>1, <3>2, PostedStays
  <2> QED
    BY <2>1, <2>2
<1>14. ASSUME NEW r \in Replicas, Crash(r)
       PROVE  Posted(i)'
  <2>1. \A q \in Replicas : rec'[q][i] \in {"absent", rec[q][i]}
    BY <1>0, <1>14 DEF Crash, RecordTypes
  <2>2. queue'[i] = queue[i]
    BY <1>14 DEF Crash, queueVars
  <2>3. CASE i \in Running(r)
    <3>1. pc'[i] = "dead" /\ target'[i] = 0 /\ ~blocked'[i]
      BY <1>14, <2>3 DEF Crash, Forget
    <3>2. queue[i] = "active"
      BY <1>1, <2>3 DEF Running
    <3> QED
      BY <1>0, <1>1, <2>1, <3>1, <3>2 DEF Posted
  <2>4. CASE i \notin Running(r)
    <3>1. pc'[i] = pc[i] /\ target'[i] = target[i] /\ blocked'[i] = blocked[i]
      <4>1. pc'[i] = pc[i] /\ target'[i] = target[i]
        BY <1>14, <2>4 DEF Crash, Forget
      <4>2. blocked'[i] = (i \notin Running(r) /\ blocked[i]) /\ blocked[i] \in BOOLEAN
        BY <1>0, <1>14 DEF Crash, Forget, LocalTypes
      <4> QED
        BY <2>4, <4>1, <4>2
    <3> QED
      BY <1>0, <2>1, <2>2, <3>1, PostedStays
  <2> QED
    BY <2>3, <2>4
<1>15. CASE Chat \/ UNCHANGED vars
  BY <1>0, <1>15, PostedStays DEF vars, Chat, queueVars, localVars
<1>16. Worker(i) => Posted(i)'
  BY <1>3, <1>4, <1>5, <1>6, <1>7, <1>8, <1>9, <1>10 DEF Worker
<1> QED
  BY <1>2, <1>11, <1>12, <1>13, <1>14, <1>15, <1>16 DEF Next, Quiet

\* For any failures, retries and crashes: what a store holds as completed has its
\* comment and its verdict on the pull request.
THEOREM CompletedMeansPosted == Spec => []CompletedIsPosted
<1>1. PostedInv => CompletedIsPosted
  BY DEF PostedInv, Posted, HasVerdict, CompletedIsPosted, Range
<1> QED
  BY <1>1, WorkerInvariant, InitPosted, NextPosted, PTL DEF Spec

-----------------------------------------------------------------------------
(* Records of settled jobs.                                                *)

\* A record says running only while the attempt is at its replica, and queued
\* only where no attempt began.
RecordOf(r, j) ==
    /\ rec[r][j] = "running" => at[j] = r /\ pc[j] \notin {"idle", "dead"}
    /\ rec[r][j] = "queued" => r \notin began[j]
    /\ queue[j] = "new" => began[j] = {}

LEMMA NextRecordOf ==
    ASSUME NEW r \in Replicas, NEW i \in Jobs,
           WorkerInv, [Next]_vars, RecordOf(r, i)
    PROVE  RecordOf(r, i)'
<1>0. /\ QueueTypes /\ CallTypes /\ rec \in [Replicas -> [Jobs -> RecStatus]]
      /\ \A j \in Jobs : Life(j)
  BY TypesByPart DEF WorkerInv, RecordTypes
<1>1. queue[i] = "active" <=> pc[i] # "idle"
  BY <1>0 DEF Life
<1> USE DEF RecordOf
<1>2. ASSUME NEW j \in Jobs, pc[j] # "idle", NEW status \in RecStatus, SetRecord(j, status)
      PROVE  /\ j # i \/ at[j] # r => rec'[r][i] = rec[r][i]
             /\ j = i /\ at[j] = r => rec'[r][i] \in {"absent", status}
  <2>1. at[j] \in Replicas
    BY <1>0, <1>2 DEF Life
  <2> QED
    BY <1>0, <1>2, <2>1 DEF SetRecord
\* The end of an attempt that sets the record to how it ended.
<1>3. ASSUME NEW j \in Jobs, pc[j] # "idle", NEW status \in {"completed", "failed"},
             SetRecord(j, status), Leave(j), UNCHANGED began,
             NEW q \in {"waiting", "completed", "failed"}, queue' = [queue EXCEPT ![j] = q]
      PROVE  RecordOf(r, i)'
  <2>1. status \in RecStatus
    BY DEF RecStatus
  <2>2. /\ j # i \/ at[j] # r => rec'[r][i] = rec[r][i]
        /\ j = i /\ at[j] = r => rec'[r][i] \in {"absent", status}
    BY <1>2, <1>3, <2>1
  <2>3. CASE j # i
    BY <1>0, <1>3, <2>2, <2>3 DEF Leave, QueueTypes, CallTypes
  <2>4. CASE j = i
    <3>1. rec'[r][i] # "running"
      BY <2>2, <2>4
    <3>2. rec'[r][i] = "queued" => rec[r][i] = "queued"
      BY <2>2, <2>4
    <3>3. queue'[i] # "new"
      BY <1>0, <1>3, <2>4 DEF QueueTypes
    <3> QED
      BY <1>3, <3>1, <3>2, <3>3
  <2> QED
    BY <2>3, <2>4
<1>4. ASSUME NEW j \in Jobs, NEW step, Fault(j, step) \/ Answer(j, step) \/ Goto(j, step),
             step \notin {"idle", "dead"}, UNCHANGED <<queue, at, rec, began>>
      PROVE  RecordOf(r, i)'
  BY <1>0, <1>4 DEF Fault, Answer, Goto, CallTypes
<1>5. ASSUME NEW j \in Jobs, Store(j)
      PROVE  RecordOf(r, i)'
  <2>1. pc[j] = "store" /\ UNCHANGED began
    BY <1>5 DEF Store
  <2>2. CASE Goto(j, "cleanup") /\ UNCHANGED <<rec, queue, at, localVars>>
    BY <1>4, <2>1, <2>2
  <2>3. CASE /\ SetRecord(j, IF blocked[j] THEN "failed" ELSE "completed")
             /\ queue' = [queue EXCEPT ![j] = "completed"]
             /\ Leave(j)
    <3>1. PICK status \in {"failed", "completed"} : SetRecord(j, status)
      BY <2>3
    <3> QED
      BY <1>3, <2>1, <2>3, <3>1
  <2> QED
    BY <1>5, <2>2, <2>3 DEF Store
<1>6. ASSUME NEW j \in Jobs, GiveUp(j)
      PROVE  RecordOf(r, i)'
  <2>1. pc[j] = "giveUp" /\ SetRecord(j, "failed") /\ Leave(j) /\ UNCHANGED began
    BY <1>6 DEF GiveUp
  <2>2. PICK q \in {"waiting", "failed"} : queue' = [queue EXCEPT ![j] = q]
    BY <1>6 DEF GiveUp
  <2> QED
    BY <1>3, <2>1, <2>2
<1>7. ASSUME NEW j \in Jobs, Stall(j)
      PROVE  RecordOf(r, i)'
  <2>1. /\ j # i => queue'[i] = queue[i] /\ pc'[i] = pc[i] /\ at'[i] = at[i]
        /\ j = i => queue'[i] # "new" /\ pc[i] = "dead"
        /\ UNCHANGED <<rec, began>>
    BY <1>0, <1>7 DEF Stall, Leave, QueueTypes, CallTypes
  <2> QED
    BY <2>1
<1>8. ASSUME NEW j \in Jobs, NEW q \in Replicas, Submit(j, q)
      PROVE  RecordOf(r, i)'
  <2>1. /\ queue[j] = "new" /\ UNCHANGED <<pc, at, began>>
        /\ queue' = [queue EXCEPT ![j] = "waiting"]
        /\ rec' = [rec EXCEPT ![q][j] = "queued"]
    BY <1>8 DEF Submit
  <2>2. j # i \/ q # r => rec'[r][i] = rec[r][i]
    BY <1>0, <2>1
  <2>3. j = i /\ q = r => rec'[r][i] = "queued" /\ began'[i] = {}
    BY <1>0, <2>1
  <2>4. queue'[i] = "new" => queue[i] = "new"
    BY <1>0, <2>1 DEF QueueTypes
  <2> QED
    BY <2>1, <2>2, <2>3, <2>4
<1>9. ASSUME NEW j \in Jobs, NEW q \in Replicas, Begin(j, q)
      PROVE  RecordOf(r, i)'
  <2>1. /\ queue[j] = "waiting"
        /\ queue' = [queue EXCEPT ![j] = "active"]
        /\ at' = [at EXCEPT ![j] = q]
        /\ pc' = [pc EXCEPT ![j] = "gate"]
        /\ rec' = [rec EXCEPT ![q][j] = IF @ = "absent" THEN @ ELSE "running"]
        /\ began' = [began EXCEPT ![j] = @ \cup {q}]
    BY <1>9 DEF Begin
  <2>2. CASE j # i
    BY <1>0, <2>1, <2>2 DEF QueueTypes, CallTypes
  <2>3. CASE j = i
    <3>1. queue'[i] = "active" /\ at'[i] = q /\ pc'[i] = "gate" /\ began'[i] = began[i] \cup {q}
      BY <1>0, <2>1, <2>3 DEF QueueTypes, CallTypes
    <3>2. rec[r][i] # "running"
      BY <1>1, <2>1, <2>3
    <3>3. q = r => rec'[r][i] \in {"absent", "running"}
      BY <1>0, <2>1, <2>3
    <3>4. q # r => rec'[r][i] = rec[r][i]
      BY <1>0, <2>1, <2>3
    <3> QED
      BY <3>1, <3>2, <3>3, <3>4
  <2> QED
    BY <2>2, <2>3
<1>10. ASSUME NEW q \in Replicas, Crash(q)
       PROVE  RecordOf(r, i)'
  <2>1. /\ UNCHANGED <<queue, at, began>>
        /\ rec'[r][i] = IF q = r THEN "absent" ELSE rec[r][i]
        /\ at[i] # q => pc'[i] = pc[i]
    BY <1>0, <1>10 DEF Crash, Running, queueVars, CallTypes
  <2> QED
    BY <2>1
<1>11. ASSUME NEW j \in Jobs, Gate(j) \/ StartCheck(j) \/ Pipeline(j) \/ List(j) \/ Post(j)
       PROVE  RecordOf(r, i)'
  BY <1>4, <1>11 DEF Gate, StartCheck, Pipeline, List, Post, queueVars
<1>12. ASSUME NEW j \in Jobs, PostInline(j) \/ FinishCheck(j) \/ Recreate(j) \/ Cleanup(j)
       PROVE  RecordOf(r, i)'
  BY <1>4, <1>12 DEF PostInline, FinishCheck, Recreate, Cleanup, queueVars
<1>13. CASE Chat \/ UNCHANGED vars
  BY <1>13 DEF vars, Chat, queueVars
<1> QED
  BY <1>5, <1>6, <1>7, <1>8, <1>9, <1>10, <1>11, <1>12, <1>13 DEF Next, Worker, Quiet

\* For any replicas, failures and crashes: a settled job leaves no record running,
\* and none queued on a replica where it was ever tried, and only a completed job
\* has a record that says so.
THEOREM RecordsStayTrue == Spec => []RecordsAgree
<1> DEFINE Inv == \A r \in Replicas, j \in Jobs : RecordOf(r, j)
<1>1. Init => Inv
  BY DEF Init, RecordOf
<1>2. WorkerInv /\ Inv /\ [Next]_vars => Inv'
  BY NextRecordOf
<1>3. WorkerInv /\ PostedInv /\ Inv => RecordsAgree
  <2> SUFFICES ASSUME WorkerInv, PostedInv, NEW r \in Replicas, NEW j \in Jobs, RecordOf(r, j)
               PROVE  /\ Settled(j) => rec[r][j] # "running"
                      /\ Settled(j) /\ r \in began[j] => rec[r][j] # "queued"
                      /\ rec[r][j] = "completed" => queue[j] = "completed"
    BY DEF RecordsAgree
  <2>1. Settled(j) => pc[j] = "idle"
    BY DEF WorkerInv, Life, Settled
  <2>2. rec[r][j] = "completed" => queue[j] = "completed"
    BY DEF PostedInv, Posted
  <2> QED
    BY <2>1, <2>2 DEF RecordOf
<1> QED
  BY <1>1, <1>2, <1>3, WorkerInvariant, InitPosted, NextPosted, PTL DEF Spec

-----------------------------------------------------------------------------
(* Refinement.                                                             *)

\* What the adapter sees of a job.
PhaseOf(j) ==
    CASE queue[j] = "new" -> "new"
      [] queue[j] = "waiting" -> "queued"
      [] queue[j] = "active" -> "running"
      [] queue[j] = "completed" -> "done"
      [] queue[j] = "failed" -> "failed"

\* An attempt that ends without success, as the adapter sees it.
LEMMA AttemptFails ==
    ASSUME NEW j \in Jobs, QueueTypes,
           NEW q \in {"waiting", "failed"}, queue' = [queue EXCEPT ![j] = q],
           queue[j] = "active",
           q = "waiting" => failures[j] + stalls[j] + 1 < MaxAttempts + MaxStalls,
           \A i \in Jobs : failures'[i] + stalls'[i] =
                failures[i] + stalls[i] + (IF i = j THEN 1 ELSE 0)
    PROVE  Adapter!Fail(j)
<1>0. \A i \in Jobs : failures[i] \in Nat /\ stalls[i] \in Nat
  BY DEF QueueTypes
<1>1. \A i \in Jobs : queue'[i] = IF i = j THEN q ELSE queue[i]
  BY DEF QueueTypes
<1>2. \A i \in Jobs : AttemptsOf(i)' = AttemptsOf(i)
  BY <1>0, <1>1 DEF AttemptsOf
<1>3. /\ PhaseOf(j) = "running"
      /\ q = "waiting" => AttemptsOf(j) < MaxAttempts + MaxStalls
  BY <1>0 DEF PhaseOf, AttemptsOf
<1>4. \A i \in Jobs : i # j => PhaseOf(i)' = PhaseOf(i)
  BY <1>1 DEF PhaseOf
<1>5. CASE q = "waiting"
  <2>1. PhaseOf(j)' = "queued"
    BY <1>1, <1>5 DEF PhaseOf
  <2>2. [i \in Jobs |-> PhaseOf(i)'] = [[i \in Jobs |-> PhaseOf(i)] EXCEPT ![j] = "queued"]
    BY <1>4, <2>1
  <2> QED
    BY <1>2, <1>3, <1>5, <2>2 DEF Adapter!Fail, PhaseOf, AttemptsOf
<1>6. CASE q = "failed"
  <2>1. PhaseOf(j)' = "failed"
    BY <1>1, <1>6 DEF PhaseOf
  <2>2. [i \in Jobs |-> PhaseOf(i)'] = [[i \in Jobs |-> PhaseOf(i)] EXCEPT ![j] = "failed"]
    BY <1>4, <2>1
  <2> QED
    BY <1>2, <1>3, <2>2 DEF Adapter!Fail, PhaseOf, AttemptsOf
<1> QED
  BY <1>5, <1>6

LEMMA InitRefines == Init => Adapter!AdapterInit
BY DEF Init, Adapter!AdapterInit, AttemptsOf

LEMMA NextRefines ==
    WorkerInv /\ [Next]_vars => [Adapter!AdapterNext]_(Adapter!adapterVars)
<1> SUFFICES ASSUME WorkerInv, [Next]_vars
             PROVE  Adapter!AdapterNext \/ UNCHANGED Adapter!adapterVars
  OBVIOUS
<1>0. /\ QueueTypes /\ MaxAttempts \in Nat /\ MaxStalls \in Nat
      /\ \A j \in Jobs : Life(j)
  BY TypesByPart, WorkerAssumption DEF WorkerInv
<1>1. ASSUME NEW j \in Jobs, NEW r \in Replicas, Submit(j, r)
      PROVE  Adapter!Submit(j)
  BY <1>0, <1>1 DEF Submit, QueueTypes, Adapter!Submit, AttemptsOf
<1>2. ASSUME NEW j \in Jobs, NEW r \in Replicas, Begin(j, r)
      PROVE  \E S \in SUBSET Jobs : Adapter!Start(S)
  <2>1. Adapter!Start({j})
    BY <1>0, <1>2 DEF Begin, QueueTypes, Life, Adapter!Start, AttemptsOf
  <2> QED
    BY <2>1
<1>3. ASSUME NEW j \in Jobs, Store(j), queue' # queue
      PROVE  Adapter!Finish(j)
  BY <1>0, <1>3 DEF Store, QueueTypes, Life, Adapter!Finish, AttemptsOf
<1>4. ASSUME NEW j \in Jobs, GiveUp(j)
      PROVE  Adapter!Fail(j)
  <2>1. queue[j] = "active" /\ stalls[j] <= MaxStalls /\ failures[j] < MaxAttempts
    BY <1>0, <1>4 DEF GiveUp, Life
  <2>2. failures' = [failures EXCEPT ![j] = @ + 1] /\ stalls' = stalls
    BY <1>4 DEF GiveUp
  <2>3. PICK q \in {"waiting", "failed"} : /\ queue' = [queue EXCEPT ![j] = q]
                                           /\ q = "waiting" => failures[j] + 1 < MaxAttempts
    BY <1>0, <1>4, <2>2 DEF GiveUp, QueueTypes
  <2>4. /\ q = "waiting" => failures[j] + stalls[j] + 1 < MaxAttempts + MaxStalls
        /\ \A i \in Jobs : failures'[i] + stalls'[i] =
              failures[i] + stalls[i] + (IF i = j THEN 1 ELSE 0)
    BY <1>0, <2>1, <2>2, <2>3 DEF QueueTypes
  <2> QED
    BY <1>0, <2>1, <2>3, <2>4, AttemptFails
<1>5. ASSUME NEW j \in Jobs, Stall(j)
      PROVE  Adapter!Fail(j)
  <2>1. queue[j] = "active" /\ stalls[j] <= MaxStalls /\ failures[j] < MaxAttempts
    BY <1>0, <1>5 DEF Stall, Life
  <2>2. stalls' = [stalls EXCEPT ![j] = @ + 1] /\ failures' = failures
    BY <1>5 DEF Stall
  <2>3. PICK q \in {"waiting", "failed"} : /\ queue' = [queue EXCEPT ![j] = q]
                                           /\ q = "waiting" => stalls[j] < MaxStalls
    BY <1>5 DEF Stall
  <2>4. /\ q = "waiting" => failures[j] + stalls[j] + 1 < MaxAttempts + MaxStalls
        /\ \A i \in Jobs : failures'[i] + stalls'[i] =
              failures[i] + stalls[i] + (IF i = j THEN 1 ELSE 0)
    BY <1>0, <2>1, <2>2, <2>3 DEF QueueTypes
  <2> QED
    BY <1>0, <2>1, <2>3, <2>4, AttemptFails
<1>6. ASSUME UNCHANGED <<queue, failures, stalls>>
      PROVE  UNCHANGED Adapter!adapterVars
  BY <1>6 DEF Adapter!adapterVars, AttemptsOf
<1>7. ASSUME NEW j \in Jobs, Store(j), queue' = queue
      PROVE  UNCHANGED <<queue, failures, stalls>>
  BY <1>7 DEF Store
<1> QED
  BY <1>1, <1>2, <1>3, <1>4, <1>5, <1>6, <1>7
     DEF Next, Worker, Quiet, Chat, vars, queueVars, Gate, StartCheck, Pipeline, List, Post, PostInline,
         FinishCheck, Recreate, Cleanup, Crash, Adapter!AdapterNext

\* BullMQ with the worker's handler keeps the promise of QueueAdapter, for any
\* jobs, replicas, failures and crashes: a job is handed out at most once for
\* every attempt and stall it is allowed, and never twice at once.
THEOREM WorkerImplementsAdapter == Spec => ImplementsAdapter
<1> QED
  BY WorkerInvariant, InitRefines, NextRefines, PTL
     DEF Spec, ImplementsAdapter, Adapter!AdapterSpec

-----------------------------------------------------------------------------
(* How many comments there can be.                                         *)

\* No worker runs more jobs than it has slots.
SlotsInv == \A r \in Replicas : Cardinality(Running(r)) <= Slots

LEMMA RunningIsFinite ==
    ASSUME NEW r
    PROVE  Running(r) \in SUBSET Jobs /\ IsFiniteSet(Running(r)) /\ Cardinality(Running(r)) \in Nat
<1>1. Running(r) \in SUBSET Jobs
  BY DEF Running
<1> QED
  BY <1>1, WorkerAssumption, FS_Subset, FS_CardinalityType

\* Only a start adds to the running jobs of a replica.
LEMMA RunningGrowsByBegin ==
    ASSUME WorkerInv, [Next]_vars, NEW r \in Replicas,
           \A j \in Jobs : ~Begin(j, r)
    PROVE  Running(r)' \subseteq Running(r)
<1>0. CallTypes /\ QueueTypes /\ \A j \in Jobs : Life(j)
  BY TypesByPart DEF WorkerInv
<1> SUFFICES ASSUME NEW i \in Jobs, at'[i] = r, pc'[i] \notin {"idle", "dead"}
             PROVE  at[i] = r /\ pc[i] \notin {"idle", "dead"}
  BY DEF Running
<1>1. ASSUME NEW j \in Jobs, Leave(j)
      PROVE  i # j /\ at[i] = r /\ pc[i] \notin {"idle", "dead"}
  BY <1>0, <1>1 DEF Leave, CallTypes, QueueTypes
<1>2. ASSUME NEW j \in Jobs, NEW step, Fault(j, step) \/ Answer(j, step) \/ Goto(j, step),
             pc[j] \notin {"idle", "dead"}, UNCHANGED at
      PROVE  at[i] = r /\ pc[i] \notin {"idle", "dead"}
  BY <1>0, <1>2 DEF Fault, Answer, Goto, CallTypes
<1>3. ASSUME NEW j \in Jobs, NEW q \in Replicas, Begin(j, q)
      PROVE  at[i] = r /\ pc[i] \notin {"idle", "dead"}
  BY <1>0, <1>3 DEF Begin, CallTypes, QueueTypes
<1>4. ASSUME NEW q \in Replicas, Crash(q)
      PROVE  at[i] = r /\ pc[i] \notin {"idle", "dead"}
  BY <1>0, <1>4 DEF Crash, CallTypes
<1>5. ASSUME UNCHANGED <<at, pc>>
      PROVE  at[i] = r /\ pc[i] \notin {"idle", "dead"}
  BY <1>5
<1>6. ASSUME NEW j \in Jobs,
             Gate(j) \/ StartCheck(j) \/ Pipeline(j) \/ List(j) \/ Post(j) \/ PostInline(j)
      PROVE  at[i] = r /\ pc[i] \notin {"idle", "dead"}
  BY <1>2, <1>6 DEF Gate, StartCheck, Pipeline, List, Post, PostInline
<1>7. ASSUME NEW j \in Jobs, FinishCheck(j) \/ Recreate(j) \/ Cleanup(j) \/ Store(j)
      PROVE  at[i] = r /\ pc[i] \notin {"idle", "dead"}
  BY <1>1, <1>2, <1>7 DEF FinishCheck, Recreate, Cleanup, Store
<1> QED
  BY <1>1, <1>3, <1>4, <1>5, <1>6, <1>7
     DEF Next, Worker, Quiet, Chat, vars, Submit, GiveUp, Stall

LEMMA NextSlots ==
    WorkerInv /\ SlotsInv /\ [Next]_vars => SlotsInv'
<1> SUFFICES ASSUME WorkerInv, SlotsInv, [Next]_vars, NEW r \in Replicas
             PROVE  Cardinality(Running(r)') <= Slots
  BY DEF SlotsInv
<1>0. /\ Slots \in Nat /\ Cardinality(Running(r)) <= Slots
      /\ IsFiniteSet(Running(r)) /\ Cardinality(Running(r)) \in Nat
  BY RunningIsFinite, WorkerAssumption DEF SlotsInv
<1>1. ASSUME NEW j \in Jobs, Begin(j, r)
      PROVE  Cardinality(Running(r)') <= Slots
  <2>1. QueueTypes /\ CallTypes
    BY TypesByPart DEF WorkerInv
  <2>2. Running(r)' = Running(r) \cup {j}
    BY <1>1, <2>1 DEF Begin, Running, QueueTypes, CallTypes
  <2>3. Cardinality(Running(r)) < Slots
    BY <1>1 DEF Begin
  <2>4. Cardinality(Running(r) \cup {j}) <= Slots
    BY <1>0, <2>3, FS_AddElement
  <2> QED
    BY <2>2, <2>4
<1>2. CASE Running(r)' \subseteq Running(r)
  <2>1. Running(r)' \in SUBSET Running(r)
    BY <1>2
  <2>2. Cardinality(Running(r)') <= Cardinality(Running(r)) /\ IsFiniteSet(Running(r)')
    BY <1>0, <2>1, FS_Subset
  <2>3. Cardinality(Running(r)') \in Nat
    BY <2>2, FS_CardinalityType
  <2> QED
    BY <1>0, <2>2, <2>3
<1> QED
  BY <1>1, <1>2, RunningGrowsByBegin

\* The jobs that run anywhere.
Busy == {j \in Jobs : pc[j] \notin {"idle", "dead"}}

\* They fit into the slots of the replicas: each has a place of its own, its
\* replica with its number there.
LEMMA BusyFits ==
    ASSUME WorkerInv, SlotsInv
    PROVE  IsFiniteSet(Busy) /\ Cardinality(Busy) <= Workers
<1>0. IsFiniteSet(Replicas) /\ Slots \in Nat /\ \A j \in Jobs : Life(j)
  BY WorkerAssumption DEF WorkerInv
<1> DEFINE Order(r) == Bijection(1 .. Cardinality(Running(r)), Running(r))
           order == [r \in Replicas |-> CHOOSE f \in Order(r) : TRUE]
           Places == Replicas \X (1 .. Slots)
           number(j) == CHOOSE n \in 1 .. Cardinality(Running(at[j])) : order[at[j]][n] = j
           place == [j \in Busy |-> <<at[j], number(j)>>]
<1>1. ASSUME NEW r \in Replicas
      PROVE  order[r] \in Order(r)
  BY RunningIsFinite, FS_CardinalityType DEF ExistsBijection
<1>2. ASSUME NEW j \in Busy
      PROVE  /\ at[j] \in Replicas /\ number(j) \in 1 .. Slots
             /\ order[at[j]][number(j)] = j
  <2>1. at[j] \in Replicas /\ j \in Running(at[j])
    BY <1>0 DEF Busy, Life, Running
  <2>2. \E n \in 1 .. Cardinality(Running(at[j])) : order[at[j]][n] = j
    BY <1>1, <2>1 DEF Bijection, Surjection
  <2>3. Cardinality(Running(at[j])) <= Slots /\ Cardinality(Running(at[j])) \in Nat
    BY <2>1, RunningIsFinite DEF SlotsInv
  <2>4. number(j) \in 1 .. Cardinality(Running(at[j])) /\ order[at[j]][number(j)] = j
    BY <2>2
  <2> HIDE DEF number, order
  <2> QED
    BY <1>0, <2>1, <2>3, <2>4
<1> HIDE DEF order, number
<1>3. place \in Injection(Busy, Places)
  <2>1. place \in [Busy -> Places]
    BY <1>2
  <2>2. ASSUME NEW i \in Busy, NEW j \in Busy, place[i] = place[j]
        PROVE  i = j
    BY <1>2, <2>2
  <2> QED
    BY <2>1, <2>2 DEF Injection, IsInjective
<1>4. /\ IsFiniteSet(1 .. Slots) /\ Cardinality(1 .. Slots) = Slots
  BY <1>0, FS_Interval
<1>5. /\ IsFiniteSet(Places)
      /\ Cardinality(Places) = Cardinality(Replicas) * Cardinality(1 .. Slots)
  BY <1>0, <1>4, FS_Product
<1> QED
  BY <1>3, <1>4, <1>5, FS_Injection DEF Workers

\* Attempts about to create a comment, for they found none.
Creating == {j \in Jobs : pc[j] = "post" /\ target[j] = 0}

\* While ours are on the page, a comment is created by one of the attempts that
\* listed before there was any, at most one for each slot, or again by one whose
\* reply was lost.
CommentsInv ==
    chatter < PageSize => Len(comments) + Cardinality(Creating) <= Workers + lost

LEMMA SomeJobs ==
    ASSUME NEW S \in SUBSET Jobs
    PROVE  IsFiniteSet(S) /\ Cardinality(S) \in Nat
BY WorkerAssumption, FS_Subset, FS_CardinalityType

\* Only a listing that finds nothing makes an attempt create a comment.
LEMMA CreatingGrowsByList ==
    ASSUME WorkerInv, [Next]_vars, comments' # <<>>, chatter < PageSize
    PROVE  Creating' \subseteq Creating
<1>0. CallTypes /\ LocalTypes /\ QueueTypes
  BY TypesByPart DEF WorkerInv
<1> SUFFICES ASSUME NEW i \in Jobs, pc'[i] = "post", target'[i] = 0
             PROVE  pc[i] = "post" /\ target[i] = 0
  BY DEF Creating
<1>1. ASSUME NEW j \in Jobs, Leave(j)
      PROVE  pc[i] = "post" /\ target[i] = 0
  BY <1>0, <1>1 DEF Leave, Forget, CallTypes
<1>2. ASSUME NEW j \in Jobs, NEW step, Fault(j, step) \/ Answer(j, step) \/ Goto(j, step),
             step # "post", UNCHANGED target
      PROVE  pc[i] = "post" /\ target[i] = 0
  BY <1>0, <1>2 DEF Fault, Answer, Goto, CallTypes
<1>3. ASSUME NEW j \in Jobs, List(j)
      PROVE  pc[i] = "post" /\ target[i] = 0
  <2>1. /\ chatter \in Nat /\ PageSize \in Nat /\ comments' = comments
    BY <1>3, TypesByPart, WorkerAssumption DEF WorkerInv, GithubTypes, List, githubVars
  <2>2. ~ (comments = <<>> \/ chatter >= PageSize)
    BY <2>1
  <2>3. CASE Answer(j, "post") /\ target' = [target EXCEPT ![j] = 1]
    BY <1>0, <2>3 DEF Answer, Goto, CallTypes, LocalTypes
  <2>4. CASE Fault(j, "cleanup") /\ UNCHANGED target
    BY <1>2, <2>4
  <2> QED
    BY <1>3, <2>2, <2>3, <2>4 DEF List
<1>4. ASSUME NEW j \in Jobs, NEW r \in Replicas, Begin(j, r)
      PROVE  pc[i] = "post" /\ target[i] = 0
  BY <1>0, <1>4 DEF Begin, CallTypes, localVars
<1>5. ASSUME NEW r \in Replicas, Crash(r)
      PROVE  pc[i] = "post" /\ target[i] = 0
  BY <1>0, <1>5 DEF Crash, Forget, CallTypes
<1>6. ASSUME UNCHANGED <<pc, target>>
      PROVE  pc[i] = "post" /\ target[i] = 0
  BY <1>6
<1>7. ASSUME NEW j \in Jobs,
             Gate(j) \/ StartCheck(j) \/ Pipeline(j) \/ Post(j) \/ PostInline(j)
      PROVE  pc[i] = "post" /\ target[i] = 0
  BY <1>2, <1>7 DEF Gate, StartCheck, Pipeline, Post, PostInline, localVars
<1>8. ASSUME NEW j \in Jobs, FinishCheck(j) \/ Recreate(j) \/ Cleanup(j) \/ Store(j)
      PROVE  pc[i] = "post" /\ target[i] = 0
  BY <1>1, <1>2, <1>8 DEF FinishCheck, Recreate, Cleanup, Store, localVars
<1> QED
  BY <1>1, <1>3, <1>4, <1>5, <1>6, <1>7, <1>8
     DEF Next, Worker, Quiet, Chat, vars, localVars, Submit, GiveUp, Stall

\* A write of j's comment adds one only when j creates.
LEMMA UpsertAdds ==
    ASSUME WorkerInv, NEW j \in Jobs, Upsert(j)
    PROVE  /\ target[j] = 0 => Len(comments') = Len(comments) + 1
           /\ target[j] # 0 => Len(comments') = Len(comments)
<1>0. comments \in Seq(Jobs)
  BY TypesByPart DEF WorkerInv, GithubTypes
<1>1. CASE target[j] = 0
  BY <1>0, <1>1 DEF Upsert
<1>2. CASE target[j] # 0
  <2>1. comments' = [comments EXCEPT ![target[j]] = j]
    BY <1>2 DEF Upsert
  <2>2. CASE target[j] \in 1 .. Len(comments)
    BY <1>0, <1>2, <2>1, <2>2, ExceptSeq
  <2>3. CASE target[j] \notin 1 .. Len(comments)
    BY <1>0, <1>2, <2>1, <2>3
  <2> QED
    BY <2>2, <2>3
<1> QED
  BY <1>1, <1>2

\* The running jobs are within the slots.
BusyBounded == Cardinality(Busy) <= Workers

LEMMA NextComments ==
    ASSUME WorkerInv, WorkerInv', BusyBounded', CommentsInv, [Next]_vars
    PROVE  CommentsInv'
<1> SUFFICES ASSUME chatter' < PageSize
             PROVE  CommentsInv'
  BY DEF CommentsInv
<1>0. chatter < PageSize
  <2>1. chatter \in Nat /\ PageSize \in Nat
    BY TypesByPart, WorkerAssumption DEF WorkerInv, GithubTypes
  <2>2. chatter' = chatter \/ chatter' = chatter + 1
    BY DEF Next, Worker, Quiet, Chat, vars, githubVars, Submit, Begin, Gate, StartCheck, Pipeline,
           List, Post, PostInline, FinishCheck, Recreate, Cleanup, Store, GiveUp, Stall, Crash
  <2> QED
    BY <2>1, <2>2
<1>1. /\ Creating \in SUBSET Jobs /\ Creating' \in SUBSET Jobs
      /\ Busy' \in SUBSET Jobs /\ Creating' \in SUBSET Busy'
  BY DEF Creating, Busy
<1>2. Workers \in Nat
  <2>1. Cardinality(Replicas) \in Nat /\ Slots \in Nat
    BY WorkerAssumption, FS_CardinalityType
  <2> QED
    BY <2>1 DEF Workers
<1>3. /\ Len(comments) \in Nat /\ Len(comments') \in Nat
      /\ lost \in Nat /\ lost' \in Nat
      /\ Cardinality(Creating) \in Nat /\ Cardinality(Creating') \in Nat
      /\ IsFiniteSet(Creating) /\ IsFiniteSet(Creating')
      /\ CallTypes
  <2>1. GithubTypes /\ CallTypes
    BY TypesByPart DEF WorkerInv
  <2>2. comments' \in Seq(Jobs) /\ lost' \in 0 .. faults' /\ faults' \in 0 .. MaxFaults
    BY DEF WorkerInv, TypeOK
  <2> QED
    BY <1>1, <2>1, <2>2, SomeJobs, WorkerAssumption DEF GithubTypes, CallTypes
<1>4. CASE comments' = <<>>
  <2>1. Cardinality(Creating') <= Cardinality(Busy') /\ Cardinality(Busy') \in Nat
    BY <1>1, SomeJobs, FS_Subset
  <2>2. Cardinality(Busy') <= Workers
    BY DEF BusyBounded, Workers
  <2>3. Len(comments') = 0
    BY <1>4
  <2>4. Len(comments') + Cardinality(Creating') <= Workers + lost'
    BY <1>2, <1>3, <2>1, <2>2, <2>3
  <2> QED
    BY <2>4 DEF CommentsInv, Workers
<1>5. CASE comments' # <<>>
  <2>1. /\ Creating' \in SUBSET Creating
        /\ Cardinality(Creating') <= Cardinality(Creating)
    <3>1. Creating' \in SUBSET Creating
      BY <1>0, <1>5, CreatingGrowsByList
    <3> QED
      BY <1>3, <3>1, FS_Subset
  <2>2. Len(comments) + Cardinality(Creating) <= Workers + lost
    BY <1>0 DEF CommentsInv
  <2>3. CASE UNCHANGED <<comments, lost>>
    <3>1. Len(comments') + Cardinality(Creating') <= Workers + lost'
      BY <1>2, <1>3, <2>1, <2>2, <2>3
    <3> QED
      BY <3>1 DEF CommentsInv, Workers
  <2>4. ASSUME NEW j \in Jobs, Post(j), Upsert(j), lost' = lost + 1
        PROVE  CommentsInv'
    <3>1. Len(comments') <= Len(comments) + 1
      BY <1>3, <2>4, UpsertAdds
    <3>2. Len(comments') + Cardinality(Creating') <= Workers + lost'
      BY <1>2, <1>3, <2>1, <2>2, <2>4, <3>1
    <3> QED
      BY <3>2 DEF CommentsInv, Workers
  <2>5. ASSUME NEW j \in Jobs, NEW step, step # "post", pc[j] = "post", Answer(j, step),
               Upsert(j), lost' = lost
        PROVE  CommentsInv'
    <3>1. CASE target[j] = 0
      <4>1. j \in Creating /\ j \notin Creating'
        BY <1>3, <2>5, <3>1 DEF Creating, Answer, Goto, CallTypes
      <4>2. Creating' \in SUBSET (Creating \ {j})
        BY <2>1, <4>1
      <4>3. /\ IsFiniteSet(Creating \ {j})
            /\ Cardinality(Creating \ {j}) = Cardinality(Creating) - 1
        BY <1>3, <4>1, FS_RemoveElement
      <4>4. Cardinality(Creating') <= Cardinality(Creating) - 1
        BY <4>2, <4>3, FS_Subset
      <4>5. Len(comments') = Len(comments) + 1
        BY <2>5, <3>1, UpsertAdds
      <4>6. Len(comments') + Cardinality(Creating') <= Workers + lost'
        BY <1>2, <1>3, <2>2, <2>5, <4>4, <4>5
      <4> QED
        BY <4>6 DEF CommentsInv, Workers
    <3>2. CASE target[j] # 0
      <4>1. Len(comments') = Len(comments)
        BY <2>5, <3>2, UpsertAdds
      <4>2. Len(comments') + Cardinality(Creating') <= Workers + lost'
        BY <1>2, <1>3, <2>1, <2>2, <2>5, <4>1
      <4> QED
        BY <4>2 DEF CommentsInv, Workers
    <3> QED
      BY <3>1, <3>2
  <2>6. ASSUME NEW j \in Jobs, Post(j)
        PROVE  CommentsInv'
    <3>1. pc[j] = "post"
      BY <2>6 DEF Post
    <3>2. CASE UNCHANGED <<comments, lost>>
      BY <2>3, <3>2
    <3>3. CASE Upsert(j) /\ lost' = lost + 1
      BY <2>4, <2>6, <3>3
    <3>4. ASSUME NEW step \in {"store", "inline"}, Answer(j, step), Upsert(j), lost' = lost
          PROVE  CommentsInv'
      BY <2>5, <3>1, <3>4
    <3> QED
      BY <2>6, <3>2, <3>3, <3>4 DEF Post
  <2> QED
    BY <2>3, <2>6
       DEF Next, Worker, Quiet, Chat, vars, githubVars, Submit, Begin, Gate, StartCheck, Pipeline, List,
           PostInline, FinishCheck, Recreate, Cleanup, Store, GiveUp, Stall, Crash
<1> QED
  BY <1>4, <1>5

LEMMA SlotsInvariant == Spec => []SlotsInv
<1>1. Init => SlotsInv
  <2> SUFFICES ASSUME Init, NEW r \in Replicas
               PROVE  Cardinality(Running(r)) <= Slots
    BY DEF SlotsInv
  <2>1. Running(r) = {}
    BY DEF Init, Running
  <2> QED
    BY <2>1, FS_EmptySet, WorkerAssumption
<1> QED
  BY <1>1, NextSlots, WorkerInvariant, PTL DEF Spec

-----------------------------------------------------------------------------
(* How often the inline comments of a job are posted.                      *)

\* An attempt that has paid for its agents and may still post their comments.
Unposted(j) == pc[j] = "inline" \/ (pc[j] \in {"list", "post"} /\ ~blocked[j])

Inlined(j) == inline[j] + (IF Unposted(j) THEN 1 ELSE 0) <= runs[j] + faults

InlineInv == \A j \in Jobs : Inlined(j)

\* Whoever does not post, and does not pay, leaves the balance alone.
LEMMA InlinedStays ==
    ASSUME WorkerInv, WorkerInv', NEW i \in Jobs, Inlined(i),
           inline'[i] = inline[i], runs'[i] >= runs[i], faults' >= faults,
           Unposted(i)' => Unposted(i)
    PROVE  Inlined(i)'
<1>1. /\ inline[i] \in Nat /\ inline'[i] \in Nat /\ runs[i] \in Nat /\ runs'[i] \in Nat
      /\ faults \in Nat /\ faults' \in Nat
  BY WorkerAssumption DEF WorkerInv, TypeOK
<1> QED
  BY <1>1 DEF Inlined

LEMMA NextInlined ==
    WorkerInv /\ WorkerInv' /\ PostedInv /\ InlineInv /\ [Next]_vars => InlineInv'
<1> SUFFICES ASSUME WorkerInv, WorkerInv', PostedInv, InlineInv, [Next]_vars, NEW i \in Jobs
             PROVE  Inlined(i)'
  BY DEF InlineInv
<1>0. CallTypes /\ LocalTypes /\ GithubTypes /\ QueueTypes /\ Inlined(i) /\ Posted(i)
  BY TypesByPart DEF WorkerInv, PostedInv, InlineInv
<1>1. /\ inline[i] \in Nat /\ inline'[i] \in Nat /\ runs[i] \in Nat /\ runs'[i] \in Nat
      /\ faults \in Nat /\ faults' \in Nat
  BY WorkerAssumption DEF WorkerInv, TypeOK
<1>2. ASSUME UNCHANGED <<inline, runs>>, faults' >= faults, Unposted(i)' => Unposted(i)
      PROVE  Inlined(i)'
  BY <1>0, <1>1, <1>2, InlinedStays
\* A call that answers or fails moves its own attempt only.
<1>3. ASSUME NEW j \in Jobs, NEW step, Fault(j, step) \/ Answer(j, step)
      PROVE  /\ faults' >= faults
             /\ pc'[i] \in {pc[i], step}
             /\ i # j => pc'[i] = pc[i]
  BY <1>0, <1>1, <1>3 DEF Fault, Answer, Goto, CallTypes
<1>4. ASSUME NEW j \in Jobs, Gate(j)
      PROVE  Inlined(i)'
  <2>1. UNCHANGED <<inline, runs>> /\ pc[j] = "gate"
    BY <1>4 DEF Gate, githubVars
  <2>2. i # j => pc'[i] = pc[i] /\ blocked'[i] = blocked[i]
    <3>1. i # j => pc'[i] = pc[i]
      BY <1>3, <1>4 DEF Gate
    <3>2. i # j => blocked'[i] = blocked[i]
      BY <1>0, <1>4 DEF Gate, LocalTypes
    <3> QED
      BY <3>1, <3>2
  <2>3. i = j => pc'[i] \in {"gate", "startCheck", "cleanup"} \/ (pc'[i] = "list" /\ blocked'[i])
    <3>1. CASE Answer(j, "list") /\ blocked' = [blocked EXCEPT ![j] = TRUE]
      BY <1>0, <3>1 DEF Answer, Goto, CallTypes, LocalTypes
    <3>2. CASE Answer(j, "startCheck")
      BY <1>3, <2>1, <3>2
    <3>3. CASE Fault(j, "cleanup")
      BY <1>3, <2>1, <3>3
    <3> QED
      BY <1>4, <3>1, <3>2, <3>3 DEF Gate
  <2>4. faults' >= faults
    BY <1>3, <1>4 DEF Gate
  <2> QED
    BY <1>2, <2>1, <2>2, <2>3, <2>4 DEF Unposted
<1>5. ASSUME NEW j \in Jobs, StartCheck(j)
      PROVE  Inlined(i)'
  <2>1. /\ UNCHANGED <<inline, runs, blocked>> /\ pc[j] = "startCheck"
        /\ Fault(j, "pipeline") \/ Answer(j, "pipeline")
    BY <1>5 DEF StartCheck
  <2> QED
    BY <1>2, <1>3, <2>1 DEF Unposted
<1>6. ASSUME NEW j \in Jobs, Pipeline(j)
      PROVE  Inlined(i)'
  <2>1. /\ UNCHANGED <<inline, blocked>> /\ pc[j] = "pipeline"
        /\ runs' = [runs EXCEPT ![j] = @ + 1]
        /\ faults' >= faults
    BY <1>1, <1>3, <1>6 DEF Pipeline, githubVars, localVars
  <2>2. CASE i = j
    <3>1. runs'[i] = runs[i] + 1
      BY <1>0, <2>1, <2>2 DEF QueueTypes
    <3>2. ~Unposted(i)
      BY <2>1, <2>2 DEF Unposted
    <3>3. inline[i] <= runs[i] + faults
      BY <1>0, <1>1, <3>2 DEF Inlined
    <3>4. inline'[i] + 1 <= runs'[i] + faults'
      BY <1>1, <2>1, <3>1, <3>3
    <3> QED
      BY <1>1, <3>4 DEF Inlined
  <2>3. CASE i # j
    <3>1. runs'[i] = runs[i] /\ pc'[i] = pc[i]
      BY <1>0, <1>6, <2>1, <2>3 DEF Pipeline, Answer, Goto, QueueTypes, CallTypes
    <3> QED
      BY <1>0, <1>1, <2>1, <3>1, InlinedStays DEF Unposted
  <2> QED
    BY <2>2, <2>3
<1>7. ASSUME NEW j \in Jobs, List(j)
      PROVE  Inlined(i)'
  <2>1. /\ UNCHANGED <<inline, runs, blocked>> /\ pc[j] = "list"
        /\ Fault(j, "cleanup") \/ Answer(j, "post")
    BY <1>7 DEF List, githubVars
  <2>2. faults' >= faults
    BY <1>3, <2>1
  <2>3. i # j => pc'[i] = pc[i]
    BY <1>3, <2>1
  <2>4. i = j => pc'[i] \in {"list", "post", "cleanup"}
    BY <1>3, <2>1
  <2> QED
    BY <1>2, <2>1, <2>2, <2>3, <2>4 DEF Unposted
<1>8. ASSUME NEW j \in Jobs, Post(j)
      PROVE  Inlined(i)'
  <2>1. /\ UNCHANGED <<inline, runs, blocked>> /\ pc[j] = "post"
        /\ \/ Fault(j, "cleanup")
           \/ Answer(j, IF blocked[j] THEN "store" ELSE "inline")
    BY <1>8 DEF Post, localVars
  <2>2. faults' >= faults
    BY <1>3, <2>1
  <2>3. i # j => pc'[i] = pc[i]
    BY <1>3, <2>1
  <2>4. i = j => pc'[i] \in {"post", "cleanup"} \/ pc'[i] = (IF blocked[i] THEN "store" ELSE "inline")
    BY <1>3, <2>1
  <2> QED
    BY <1>2, <2>1, <2>2, <2>3, <2>4 DEF Unposted
<1>9. ASSUME NEW j \in Jobs, PostInline(j)
      PROVE  Inlined(i)'
  <2>1. /\ UNCHANGED <<runs, blocked>> /\ pc[j] = "inline"
        /\ inline' = inline \/ inline' = [inline EXCEPT ![j] = @ + 1]
        /\ Fault(j, "finishCheck") \/ Answer(j, "finishCheck")
    BY <1>9 DEF PostInline, localVars
  <2>2. faults' >= faults
    BY <1>3, <2>1
  <2>3. CASE i # j
    <3>1. pc'[i] = pc[i] /\ inline'[i] = inline[i] /\ runs'[i] = runs[i]
      BY <1>0, <1>3, <2>1, <2>3 DEF GithubTypes
    <3> QED
      BY <1>0, <1>1, <2>1, <2>2, <3>1, InlinedStays DEF Unposted
  <2>4. CASE i = j
    <3>1. inline[i] + 1 <= runs[i] + faults
      BY <1>0, <2>1, <2>4 DEF Inlined, Unposted
    <3>2. inline'[i] <= inline[i] + 1
      BY <1>0, <1>1, <2>1, <2>4 DEF GithubTypes
    <3>3. CASE Answer(j, "finishCheck")
      <4>1. pc'[i] = "finishCheck" /\ faults' = faults
        BY <1>0, <2>4, <3>3 DEF Answer, Goto, CallTypes
      <4>2. ~Unposted(i)'
        BY <4>1 DEF Unposted
      <4>3. inline'[i] <= runs'[i] + faults'
        BY <1>1, <2>1, <3>1, <3>2, <4>1
      <4> QED
        BY <1>1, <4>2, <4>3 DEF Inlined
    <3>4. CASE Fault(j, "finishCheck")
      <4>1. faults' = faults + 1
        BY <3>4 DEF Fault
      <4>2. inline'[i] + 1 <= runs'[i] + faults'
        BY <1>1, <2>1, <3>1, <3>2, <4>1
      <4> QED
        BY <1>1, <4>2 DEF Inlined
    <3> QED
      BY <2>1, <3>3, <3>4
  <2> QED
    BY <2>3, <2>4
<1>10. ASSUME NEW j \in Jobs, FinishCheck(j) \/ Recreate(j) \/ Cleanup(j)
       PROVE  Inlined(i)'
  <2>1. /\ UNCHANGED <<inline, runs, blocked>>
        /\ \E step \in {"recreate", "store", "giveUp", "cleanup"} :
             Fault(j, step) \/ Answer(j, step) \/ (Goto(j, step) /\ UNCHANGED faults)
    BY <1>10 DEF FinishCheck, Recreate, Cleanup, localVars
  <2>2. faults' >= faults
    BY <1>1, <1>3, <2>1
  <2>3. pc'[i] \in {pc[i], "recreate", "store", "giveUp", "cleanup"}
    BY <1>0, <1>3, <2>1 DEF Goto, CallTypes
  <2> QED
    BY <1>2, <2>1, <2>2, <2>3 DEF Unposted
\* An attempt that ends posts nothing any more.
<1>11. ASSUME NEW S, Forget(S), UNCHANGED <<inline, runs, faults>>,
              i \in S => pc'[i] \in {"idle", "dead"}, i \notin S => pc'[i] = pc[i]
       PROVE  Inlined(i)'
  <2>1. i \notin S => (blocked'[i] <=> blocked[i])
    BY <1>11 DEF Forget
  <2> QED
    BY <1>1, <1>2, <1>11, <2>1 DEF Unposted
<1>12. ASSUME NEW j \in Jobs, Store(j) \/ GiveUp(j) \/ Stall(j)
       PROVE  Inlined(i)'
  <2>1. UNCHANGED <<inline, runs, faults>>
    BY <1>12 DEF Store, GiveUp, Stall, githubVars
  <2>2. Leave(j) \/ (Goto(j, "cleanup") /\ UNCHANGED localVars)
    BY <1>12 DEF Store, GiveUp, Stall
  <2>3. CASE Leave(j)
    BY <1>0, <1>11, <2>1, <2>3 DEF Leave, CallTypes
  <2>4. CASE Goto(j, "cleanup") /\ UNCHANGED localVars
    BY <1>0, <1>1, <1>2, <2>1, <2>4 DEF Goto, CallTypes, localVars, Unposted
  <2> QED
    BY <2>2, <2>3, <2>4
<1>13. ASSUME NEW r \in Replicas, Crash(r)
       PROVE  Inlined(i)'
  BY <1>11, <1>13 DEF Crash, githubVars
<1>14. ASSUME NEW j \in Jobs, NEW r \in Replicas, Submit(j, r) \/ Begin(j, r)
       PROVE  Inlined(i)'
  <2>1. UNCHANGED <<inline, runs, faults, blocked>> /\ pc'[i] \in {pc[i], "gate"}
    BY <1>0, <1>14 DEF Submit, Begin, githubVars, localVars, CallTypes
  <2> QED
    BY <1>1, <1>2, <2>1 DEF Unposted
<1>15. CASE Chat \/ UNCHANGED vars
  BY <1>1, <1>2, <1>15 DEF vars, Chat, localVars, Unposted
<1> QED
  BY <1>4, <1>5, <1>6, <1>7, <1>8, <1>9, <1>10, <1>12, <1>13, <1>14, <1>15
     DEF Next, Worker, Quiet

-----------------------------------------------------------------------------
(* How many comments show the findings of one job.                         *)

\* The comments that show j's review.
Shown(j) == {c \in DOMAIN comments : comments[c] = j}

\* The steps of an attempt that may have posted.
AfterPost == Step \ {"idle", "gate", "startCheck", "pipeline", "list", "post"}

\* The attempts of j that may have posted, and the replies that were lost.
Posts(j) ==
    failures[j] + stalls[j] + lost
        + (IF queue[j] = "completed" \/ pc[j] \in AfterPost THEN 1 ELSE 0)

ShownInv == \A j \in Jobs : Cardinality(Shown(j)) <= Posts(j)

LEMMA ShownIsFinite ==
    ASSUME NEW j \in Jobs, comments \in Seq(Jobs)
    PROVE  IsFiniteSet(Shown(j)) /\ Cardinality(Shown(j)) \in Nat
<1>1. IsFiniteSet(1 .. Len(comments)) /\ Shown(j) \in SUBSET (1 .. Len(comments))
  BY FS_Interval DEF Shown
<1>2. IsFiniteSet(Shown(j))
  BY <1>1, FS_Subset
<1> QED
  BY <1>2, FS_CardinalityType

\* A write shows j once more at most, and no other job more often.
LEMMA UpsertShows ==
    ASSUME WorkerInv, WorkerInv', NEW j \in Jobs, Upsert(j), NEW i \in Jobs
    PROVE  Cardinality(Shown(i)') <= Cardinality(Shown(i)) + (IF i = j THEN 1 ELSE 0)
<1>0. comments \in Seq(Jobs) /\ comments' \in Seq(Jobs)
  BY DEF WorkerInv, TypeOK
<1> DEFINE k == IF target[j] = 0 THEN Len(comments) + 1 ELSE target[j]
<1>1. \A c \in DOMAIN comments' : c = k \/ (c \in DOMAIN comments /\ comments'[c] = comments[c])
  <2>1. CASE target[j] = 0
    BY <1>0, <2>1 DEF Upsert
  <2>2. CASE target[j] # 0
    BY <1>0, <2>2 DEF Upsert
  <2> QED
    BY <2>1, <2>2
<1>2. k \in DOMAIN comments' => comments'[k] = j
  <2>1. CASE target[j] = 0
    BY <1>0, <2>1 DEF Upsert
  <2>2. CASE target[j] # 0
    BY <1>0, <2>2 DEF Upsert
  <2> QED
    BY <2>1, <2>2
<1> HIDE DEF k
<1>3. /\ IsFiniteSet(Shown(i)) /\ Cardinality(Shown(i)) \in Nat
      /\ IsFiniteSet(Shown(i)') /\ Cardinality(Shown(i)') \in Nat
  <2>1. IsFiniteSet(Shown(i)) /\ Cardinality(Shown(i)) \in Nat
    BY <1>0, ShownIsFinite
  <2>2. Shown(i)' \in SUBSET (1 .. Len(comments')) /\ IsFiniteSet(1 .. Len(comments'))
    BY <1>0, FS_Interval DEF Shown
  <2>3. IsFiniteSet(Shown(i)')
    BY <2>2, FS_Subset
  <2> QED
    BY <2>1, <2>3, FS_CardinalityType
<1>4. CASE i # j
  <2>1. Shown(i)' \in SUBSET Shown(i)
    BY <1>1, <1>2, <1>4 DEF Shown
  <2> QED
    BY <1>3, <1>4, <2>1, FS_Subset
<1>5. CASE i = j
  <2>1. Shown(i)' \in SUBSET (Shown(i) \cup {k})
    BY <1>1 DEF Shown
  <2>2. /\ IsFiniteSet(Shown(i) \cup {k})
        /\ Cardinality(Shown(i) \cup {k}) \in {Cardinality(Shown(i)), Cardinality(Shown(i)) + 1}
    BY <1>3, FS_AddElement
  <2>3. Cardinality(Shown(i)') <= Cardinality(Shown(i) \cup {k})
    BY <2>1, <2>2, FS_Subset
  <2> QED
    BY <1>3, <1>5, <2>2, <2>3
<1> QED
  BY <1>4, <1>5

\* No step takes back an attempt that may have posted.
LEMMA PostsGrow ==
    ASSUME WorkerInv, WorkerInv', [Next]_vars, NEW i \in Jobs
    PROVE  Posts(i)' >= Posts(i)
<1>0. /\ QueueTypes /\ CallTypes /\ Life(i)
      /\ failures[i] \in Nat /\ stalls[i] \in Nat /\ lost \in Nat
  BY TypesByPart, WorkerAssumption DEF WorkerInv, QueueTypes, CallTypes, GithubTypes
<1>1. queue[i] = "completed" => pc[i] = "idle"
  BY <1>0 DEF Life
<1> USE DEF Posts, AfterPost
<1>2. ASSUME NEW j \in Jobs, NEW step \in AfterPost \cup {pc[j]},
             Fault(j, step) \/ Answer(j, step) \/ Goto(j, step),
             UNCHANGED <<queue, failures, stalls>>, lost' = lost \/ lost' = lost + 1
      PROVE  Posts(i)' >= Posts(i)
  BY <1>0, <1>2 DEF Fault, Answer, Goto, CallTypes
<1>3. ASSUME NEW j \in Jobs, NEW step, Fault(j, step) \/ Answer(j, step) \/ Goto(j, step),
             pc[j] \notin AfterPost, UNCHANGED <<queue, failures, stalls, lost>>
      PROVE  Posts(i)' >= Posts(i)
  BY <1>0, <1>3 DEF Fault, Answer, Goto, CallTypes
<1>4. ASSUME NEW j \in Jobs, Gate(j) \/ StartCheck(j) \/ Pipeline(j) \/ List(j)
      PROVE  Posts(i)' >= Posts(i)
  BY <1>3, <1>4 DEF Gate, StartCheck, Pipeline, List, queueVars
<1>5. {"store", "inline", "cleanup", "finishCheck", "recreate", "giveUp", "dead"} \subseteq AfterPost
  BY DEF Step
<1>6. ASSUME NEW j \in Jobs, Post(j)
      PROVE  Posts(i)' >= Posts(i)
  BY <1>2, <1>5, <1>6 DEF Post, queueVars
<1>7. ASSUME NEW j \in Jobs, PostInline(j) \/ FinishCheck(j) \/ Recreate(j) \/ Cleanup(j)
      PROVE  Posts(i)' >= Posts(i)
  BY <1>2, <1>5, <1>7 DEF PostInline, FinishCheck, Recreate, Cleanup, queueVars
<1>8. ASSUME NEW j \in Jobs, Store(j)
      PROVE  Posts(i)' >= Posts(i)
  <2>1. UNCHANGED <<failures, stalls, lost>>
    BY <1>8 DEF Store
  <2>2. CASE Goto(j, "cleanup") /\ UNCHANGED <<rec, queue, at, localVars>>
    BY <1>2, <1>5, <2>1, <2>2
  <2>3. CASE queue' = [queue EXCEPT ![j] = "completed"] /\ Leave(j)
    BY <1>0, <2>1, <2>3 DEF Leave, QueueTypes, CallTypes
  <2> QED
    BY <1>8, <2>2, <2>3 DEF Store
<1>9. ASSUME NEW j \in Jobs, GiveUp(j)
      PROVE  Posts(i)' >= Posts(i)
  <2>1. /\ j # i => UNCHANGED <<queue[i], pc[i], failures[i]>>
        /\ j = i => failures'[i] = failures[i] + 1 /\ pc[i] = "giveUp"
        /\ UNCHANGED <<stalls, lost>>
    BY <1>0, <1>9 DEF GiveUp, Leave, QueueTypes, CallTypes
  <2> QED
    BY <1>0, <1>1, <2>1
<1>10. ASSUME NEW j \in Jobs, Stall(j)
       PROVE  Posts(i)' >= Posts(i)
  <2>1. /\ j # i => UNCHANGED <<queue[i], pc[i], stalls[i]>>
        /\ j = i => stalls'[i] = stalls[i] + 1 /\ pc[i] = "dead"
        /\ UNCHANGED <<failures, lost>>
    BY <1>0, <1>10 DEF Stall, Leave, QueueTypes, CallTypes
  <2> QED
    BY <1>0, <1>1, <2>1
<1>11. ASSUME NEW j \in Jobs, NEW r \in Replicas, Submit(j, r) \/ Begin(j, r)
       PROVE  Posts(i)' >= Posts(i)
  <2>1. /\ j # i => UNCHANGED <<queue[i], pc[i]>>
        /\ j = i => queue[i] \in {"new", "waiting"}
        /\ UNCHANGED <<failures, stalls, lost>>
    BY <1>0, <1>11 DEF Submit, Begin, QueueTypes, CallTypes
  <2>2. queue[i] \in {"new", "waiting"} => pc[i] = "idle"
    BY <1>0 DEF Life
  <2> QED
    BY <1>0, <2>1, <2>2
<1>12. ASSUME NEW r \in Replicas, Crash(r)
       PROVE  Posts(i)' >= Posts(i)
  <2>1. pc'[i] \in {pc[i], "dead"} /\ UNCHANGED <<queue, failures, stalls, lost>>
    BY <1>0, <1>12 DEF Crash, CallTypes, queueVars
  <2> QED
    BY <1>0, <1>5, <2>1
<1>13. CASE Chat \/ UNCHANGED vars
  BY <1>0, <1>13 DEF vars, Chat, queueVars
<1> QED
  BY <1>4, <1>6, <1>7, <1>8, <1>9, <1>10, <1>11, <1>12, <1>13 DEF Next, Worker, Quiet

LEMMA NextShown ==
    WorkerInv /\ WorkerInv' /\ ShownInv /\ [Next]_vars => ShownInv'
<1> SUFFICES ASSUME WorkerInv, WorkerInv', ShownInv, [Next]_vars, NEW i \in Jobs
             PROVE  Cardinality(Shown(i)') <= Posts(i)'
  BY DEF ShownInv
<1>0. /\ QueueTypes /\ CallTypes /\ Posts(i) \in Nat /\ Posts(i)' \in Nat
      /\ failures[i] \in Nat /\ stalls[i] \in Nat /\ lost \in Nat
      /\ Cardinality(Shown(i)) \in Nat /\ Cardinality(Shown(i)') \in Nat
  <2>1. failures[i] \in Nat /\ stalls[i] \in Nat /\ lost \in Nat
    BY TypesByPart, WorkerAssumption DEF WorkerInv, QueueTypes, CallTypes, GithubTypes
  <2>2. failures'[i] \in Nat /\ stalls'[i] \in Nat /\ lost' \in Nat
    BY WorkerAssumption DEF WorkerInv, TypeOK
  <2>3. comments \in Seq(Jobs) /\ comments' \in Seq(Jobs)
    BY DEF WorkerInv, TypeOK
  <2>4. Shown(i)' \in SUBSET (1 .. Len(comments')) /\ IsFiniteSet(1 .. Len(comments'))
    BY <2>3, FS_Interval DEF Shown
  <2>5. Cardinality(Shown(i)') \in Nat
    BY <2>4, FS_Subset, FS_CardinalityType
  <2> QED
    <3>1. Posts(i) \in Nat
      BY <2>1 DEF Posts
    <3>2. Posts(i)' \in Nat
      BY <2>2 DEF Posts
    <3>3. QueueTypes /\ CallTypes
      BY TypesByPart DEF WorkerInv
    <3> QED
      BY <2>1, <2>3, <2>5, <3>1, <3>2, <3>3, ShownIsFinite
<1>1. Cardinality(Shown(i)) <= Posts(i) /\ Posts(i)' >= Posts(i)
  BY PostsGrow DEF ShownInv
<1>2. CASE UNCHANGED comments
  BY <1>0, <1>1, <1>2 DEF Shown
<1>3. ASSUME NEW j \in Jobs, Upsert(j), Post(j)
      PROVE  Cardinality(Shown(i)') <= Posts(i)'
  <2>1. Cardinality(Shown(i)') <= Cardinality(Shown(i)) + (IF i = j THEN 1 ELSE 0)
    BY <1>3, UpsertShows
  <2>2. CASE i # j
    BY <1>0, <1>1, <2>1, <2>2
  <2>3. CASE i = j /\ ~ UNCHANGED comments
    <3>1. pc[i] = "post" /\ UNCHANGED <<queue, failures, stalls>> /\ queue[i] # "completed"
      BY <2>3, <1>3 DEF Post, queueVars, WorkerInv, Life
    <3>2. Posts(i) = failures[i] + stalls[i] + lost
      BY <1>0, <3>1 DEF Posts, AfterPost
    <3>3. lost' = lost + 1 \/ (lost' = lost /\ pc'[i] \in AfterPost)
      <4>1. "store" \in AfterPost /\ "inline" \in AfterPost
        BY DEF AfterPost, Step
      <4> QED
        BY <1>0, <1>3, <2>3, <4>1 DEF Post, Answer, Goto, CallTypes
    <3>4. Posts(i)' >= Posts(i) + 1
      <4>1. CASE lost' = lost + 1
        BY <1>0, <3>1, <3>2, <4>1 DEF Posts
      <4>2. CASE lost' = lost /\ pc'[i] \in AfterPost
        BY <1>0, <3>1, <3>2, <4>2 DEF Posts
      <4> QED
        BY <3>3, <4>1, <4>2
    <3> QED
      BY <1>0, <1>1, <2>1, <2>3, <3>4
  <2> QED
    BY <1>2, <2>2, <2>3
<1> QED
  BY <1>2, <1>3
     DEF Next, Worker, Quiet, Chat, vars, githubVars, Submit, Begin, Gate, StartCheck, Pipeline,
         List, Post, PostInline, FinishCheck, Recreate, Cleanup, Store, GiveUp, Stall, Crash

\* For any page size, replicas, slots, failures and crashes: no more comments than
\* worker slots and lost replies while ours are on the page that is listed, never
\* more for one job than its attempts and the lost replies, and no more inline
\* reviews of a job than its runs of the pipeline and the failed calls.
THEOREM CommentsAreBounded == Spec => []CommentsBounded
<1>1. WorkerInv /\ SlotsInv => BusyBounded
  BY BusyFits DEF BusyBounded
<1>2. Init => CommentsInv
  <2> SUFFICES ASSUME Init
               PROVE  CommentsInv
    OBVIOUS
  <2>1. Creating = {} /\ comments = <<>> /\ lost = 0
    BY DEF Init, Creating
  <2>2. Cardinality(Replicas) * Slots \in Nat
    <3>1. Cardinality(Replicas) \in Nat /\ Slots \in Nat
      BY WorkerAssumption, FS_CardinalityType
    <3> QED
      BY <3>1
  <2> QED
    BY <2>1, <2>2, FS_EmptySet DEF CommentsInv, Workers
<1>3. WorkerInv /\ WorkerInv' /\ BusyBounded' /\ CommentsInv /\ [Next]_vars => CommentsInv'
  BY NextComments
<1>4. WorkerInv /\ CommentsInv /\ InlineInv /\ ShownInv => CommentsBounded
  <2> SUFFICES ASSUME WorkerInv, CommentsInv, InlineInv, ShownInv
               PROVE  CommentsBounded
    OBVIOUS
  <2>1. Creating \in SUBSET Jobs
    BY DEF Creating
  <2>2. Cardinality(Creating) \in Nat
    BY <2>1, SomeJobs
  <2>3. Len(comments) \in Nat /\ lost \in Nat
    BY TypesByPart, WorkerAssumption DEF WorkerInv, GithubTypes, CallTypes
  <2>4. Cardinality(Replicas) * Slots \in Nat
    <3>1. Cardinality(Replicas) \in Nat /\ Slots \in Nat
      BY WorkerAssumption, FS_CardinalityType
    <3> QED
      BY <3>1
  <2>5. chatter < PageSize => Len(comments) <= Workers + lost
    BY <2>2, <2>3, <2>4 DEF CommentsInv, Workers
  <2>6. ASSUME NEW j \in Jobs
        PROVE  inline[j] <= runs[j] + faults
    <3>1. inline[j] \in Nat /\ runs[j] \in Nat /\ faults \in Nat
      BY WorkerAssumption DEF WorkerInv, TypeOK
    <3> QED
      BY <3>1 DEF InlineInv, Inlined
  <2>7. ASSUME NEW j \in Jobs
        PROVE  Cardinality({c \in DOMAIN comments : comments[c] = j}) <= AttemptsOf(j) + lost
    <3>1. /\ Cardinality(Shown(j)) \in Nat /\ Cardinality(Shown(j)) <= Posts(j)
          /\ failures[j] \in Nat /\ stalls[j] \in Nat
      BY ShownIsFinite, WorkerAssumption DEF WorkerInv, TypeOK, ShownInv
    <3>2. pc[j] \in AfterPost => queue[j] = "active"
      BY DEF WorkerInv, Life, AfterPost
    <3> QED
      BY <2>3, <3>1, <3>2 DEF Shown, Posts, AttemptsOf
  <2> QED
    BY <2>5, <2>6, <2>7 DEF CommentsBounded
<1>5. Init => InlineInv
  BY DEF Init, InlineInv, Inlined, Unposted
<1>6. Init => ShownInv
  <2> SUFFICES ASSUME Init, NEW j \in Jobs
               PROVE  Cardinality(Shown(j)) <= Posts(j)
    BY DEF ShownInv
  <2>1. Shown(j) = {} /\ Posts(j) = 0
    BY DEF Init, Shown, Posts, AfterPost
  <2> QED
    BY <2>1, FS_EmptySet
<1> QED
  BY <1>1, <1>2, <1>3, <1>4, <1>5, <1>6, WorkerInvariant, SlotsInvariant, InitPosted, NextPosted,
     NextInlined, NextShown, PTL DEF Spec

-----------------------------------------------------------------------------
(* How many check runs are left in progress.                               *)

\* The steps of an attempt that is still going to finish its check run.
Caring == {"pipeline", "list", "post", "inline", "finishCheck", "cleanup"}

\* Check runs in progress that nobody is going to finish.
Doomed ==
    {c \in DOMAIN checks :
        /\ checks[c].status = "in_progress"
        /\ \A j \in Jobs : checkId[j] = c => pc[j] \notin Caring}

\* An attempt that has not begun its check run, or is over budget, has none.
FreshInv ==
    \A j \in Jobs :
        pc[j] \in {"idle", "dead", "gate", "startCheck"} \/ blocked[j] => checkId[j] = 0

LEMMA NextFresh ==
    WorkerInv /\ PostedInv /\ FreshInv /\ [Next]_vars => FreshInv'
<1> SUFFICES ASSUME WorkerInv, PostedInv, FreshInv, [Next]_vars, NEW i \in Jobs,
                    pc'[i] \in {"idle", "dead", "gate", "startCheck"} \/ blocked'[i]
             PROVE  checkId'[i] = 0
  BY DEF FreshInv
<1>0. CallTypes /\ LocalTypes /\ Posted(i)
  BY TypesByPart DEF WorkerInv, PostedInv
<1>1. pc[i] \in {"idle", "dead", "gate", "startCheck"} \/ blocked[i] => checkId[i] = 0
  BY DEF FreshInv
<1>2. ASSUME NEW j \in Jobs, Leave(j)
      PROVE  checkId'[i] = 0
  <2>1. CASE i = j
    BY <1>2, <2>1 DEF Leave, Forget
  <2>2. CASE i # j
    <3>1. pc'[i] = pc[i] /\ checkId'[i] = checkId[i]
      BY <1>0, <1>2, <2>2 DEF Leave, Forget, CallTypes
    <3>2. blocked'[i] = (i \notin {j} /\ blocked[i]) /\ blocked[i] \in BOOLEAN
      BY <1>0, <1>2 DEF Leave, Forget, LocalTypes
    <3>3. blocked'[i] = blocked[i]
      BY <2>2, <3>2
    <3> QED
      BY <1>1, <3>1, <3>3
  <2> QED
    BY <2>1, <2>2
<1>3. ASSUME NEW r \in Replicas, Crash(r)
      PROVE  checkId'[i] = 0
  <2>1. CASE i \in Running(r)
    BY <1>3, <2>1 DEF Crash, Forget
  <2>2. CASE i \notin Running(r)
    <3>1. pc'[i] = pc[i] /\ checkId'[i] = checkId[i]
      BY <1>3, <2>2 DEF Crash, Forget
    <3>2. blocked'[i] = (i \notin Running(r) /\ blocked[i]) /\ blocked[i] \in BOOLEAN
      BY <1>0, <1>3 DEF Crash, Forget, LocalTypes
    <3>3. blocked'[i] = blocked[i]
      BY <2>2, <3>2
    <3> QED
      BY <1>1, <3>1, <3>3
  <2> QED
    BY <2>1, <2>2
<1>4. ASSUME NEW j \in Jobs, NEW r \in Replicas, Begin(j, r)
      PROVE  checkId'[i] = 0
  <2>1. pc[j] = "idle"
    BY <1>4 DEF Begin, WorkerInv, Life
  <2> QED
    BY <1>0, <1>1, <1>4, <2>1 DEF Begin, CallTypes, localVars
<1>5. ASSUME NEW j \in Jobs, Gate(j)
      PROVE  checkId'[i] = 0
  <2>1. checkId' = checkId /\ pc[j] = "gate"
    BY <1>5 DEF Gate
  <2>2. i # j => pc'[i] = pc[i] /\ blocked'[i] = blocked[i]
    <3>1. i # j => pc'[i] = pc[i]
      BY <1>0, <1>5 DEF Gate, Fault, Answer, Goto, CallTypes
    <3>2. i # j => blocked'[i] = blocked[i]
      BY <1>0, <1>5 DEF Gate, LocalTypes
    <3> QED
      BY <3>1, <3>2
  <2> QED
    BY <1>1, <2>1, <2>2
<1>6. ASSUME NEW j \in Jobs, StartCheck(j)
      PROVE  checkId'[i] = 0
  <2>1. /\ pc[j] = "startCheck" /\ blocked' = blocked
        /\ checkId' = checkId \/ (Answer(j, "pipeline") /\ checkId' = [checkId EXCEPT ![j] = Len(checks) + 1])
        /\ Fault(j, "pipeline") \/ Answer(j, "pipeline")
    BY <1>6 DEF StartCheck
  <2>2. ~blocked[j]
    BY <2>1 DEF PostedInv, Posted
  <2>3. CASE i = j
    BY <1>0, <1>1, <2>1, <2>2, <2>3 DEF Answer, Goto, CallTypes
  <2>4. CASE i # j
    BY <1>0, <1>1, <2>1, <2>4 DEF Fault, Answer, Goto, CallTypes, LocalTypes
  <2> QED
    BY <2>3, <2>4
<1>7. ASSUME NEW j \in Jobs, NEW step, Fault(j, step) \/ Answer(j, step) \/ Goto(j, step),
             step \notin {"idle", "dead", "gate", "startCheck"},
             UNCHANGED <<checkId, blocked>>
      PROVE  checkId'[i] = 0
  BY <1>0, <1>1, <1>7 DEF Fault, Answer, Goto, CallTypes
<1>8. ASSUME NEW j \in Jobs, Pipeline(j) \/ List(j) \/ Post(j) \/ PostInline(j)
      PROVE  checkId'[i] = 0
  BY <1>7, <1>8 DEF Pipeline, List, Post, PostInline, localVars
<1>9. ASSUME NEW j \in Jobs, FinishCheck(j) \/ Recreate(j) \/ Cleanup(j) \/ Store(j)
      PROVE  checkId'[i] = 0
  BY <1>2, <1>7, <1>9 DEF FinishCheck, Recreate, Cleanup, Store, localVars
<1>10. ASSUME UNCHANGED <<pc, checkId, blocked>>
       PROVE  checkId'[i] = 0
  BY <1>1, <1>10
<1> QED
  BY <1>2, <1>3, <1>4, <1>5, <1>6, <1>8, <1>9, <1>10
     DEF Next, Worker, Quiet, Chat, vars, localVars, Submit, GiveUp, Stall

\* An attempt that cares for its check run still does.
StillCares(j) ==
    checkId[j] # 0 /\ pc[j] \in Caring => checkId'[j] = checkId[j] /\ pc'[j] \in Caring

\* A check run becomes doomed only when it is new or its attempt stops caring.
LEMMA DoomedBefore ==
    ASSUME WorkerInv, [Next]_vars, NEW c \in Doomed', c \in DOMAIN checks,
           \A j \in Jobs : checkId[j] = c => StillCares(j)
    PROVE  c \in Doomed
<1>0. /\ TypeOK /\ checks \in Seq(CheckRun) /\ \A j \in Jobs : OwnCheck(j)
      /\ checkId \in [Jobs -> Nat] /\ c # 0
  <2>1. /\ TypeOK /\ checks \in Seq(CheckRun) /\ \A j \in Jobs : OwnCheck(j)
        /\ checkId \in [Jobs -> Nat]
    BY TypesByPart DEF WorkerInv, CheckTypes, LocalTypes
  <2>2. DOMAIN checks = 1 .. Len(checks)
    BY <2>1
  <2> QED
    BY <2>1, <2>2
<1>1. checks'[c].status = "in_progress" /\ \A j \in Jobs : checkId'[j] = c => pc'[j] \notin Caring
  BY DEF Doomed
<1>2. checks[c].status = "in_progress"
  <2>1. CASE UNCHANGED checks
    BY <1>1, <2>1
  <2>2. ASSUME NEW j \in Jobs, NEW status \in {"in_progress", "review", "failure"}, NewCheck(j, status)
        PROVE  checks'[c] = checks[c]
    BY <1>0, <2>2, NewCheckKeepsTypes
  <2>3. ASSUME NEW j \in Jobs, NEW status \in {"in_progress", "review", "failure"},
               checkId[j] # 0, status # "in_progress", SetCheck(j, status)
        PROVE  checks'[c] = checks[c]
    <3>1. /\ checks'[checkId[j]] = [job |-> j, status |-> status]
          /\ c # checkId[j] => checks'[c] = checks[c]
      BY <1>0, <2>3, SetCheckKeepsTypes
    <3> QED
      BY <1>1, <2>3, <3>1
  <2> QED
    BY <1>1, <2>1, <2>2, <2>3, StepOnChecks
<1>3. ASSUME NEW j \in Jobs, checkId[j] = c
      PROVE  pc[j] \notin Caring
  BY <1>0, <1>1, <1>3 DEF StillCares
<1> QED
  BY <1>2, <1>3 DEF Doomed

\* The check runs after a step are those before it, and the one it creates.
LEMMA NewDoomed ==
    ASSUME WorkerInv, [Next]_vars, NEW c \in Doomed', c \notin DOMAIN checks
    PROVE  /\ c = Len(checks) + 1
           /\ \E j \in Jobs : NewCheck(j, "in_progress")
<1>0. TypeOK /\ checks \in Seq(CheckRun) /\ \A j \in Jobs : OwnCheck(j)
  BY TypesByPart DEF WorkerInv, CheckTypes
<1>1. c \in DOMAIN checks' /\ checks'[c].status = "in_progress"
  BY DEF Doomed
<1>2. ASSUME NEW j \in Jobs, NEW status \in {"in_progress", "review", "failure"}, NewCheck(j, status)
      PROVE  c = Len(checks) + 1 /\ status = "in_progress"
  <2>1. /\ checks' \in Seq(CheckRun)
        /\ Len(checks') = Len(checks) + 1
        /\ checks'[Len(checks) + 1] = [job |-> j, status |-> status]
    BY <1>0, <1>2, NewCheckKeepsTypes
  <2>2. DOMAIN checks = 1 .. Len(checks) /\ DOMAIN checks' = 1 .. Len(checks') /\ Len(checks) \in Nat
    BY <1>0, <2>1
  <2>3. c = Len(checks) + 1
    BY <1>1, <2>1, <2>2
  <2> QED
    BY <1>1, <2>1, <2>3
<1>3. ASSUME NEW j \in Jobs, NEW status \in {"in_progress", "review", "failure"},
             checkId[j] # 0, SetCheck(j, status)
      PROVE  FALSE
  BY <1>0, <1>1, <1>3, SetCheckKeepsTypes
<1> QED
  BY <1>1, <1>2, <1>3, StepOnChecks

\* Without a crash, a step dooms at most one check run, and then a call failed.
LEMMA DoomedGrowsByFault ==
    ASSUME WorkerInv, PostedInv, FreshInv, [Next]_vars, \A r \in Replicas : ~Crash(r)
    PROVE  \/ Doomed' \subseteq Doomed
           \/ faults' = faults + 1 /\ \E c : Doomed' \subseteq Doomed \cup {c}
<1>0. /\ CallTypes /\ LocalTypes /\ checks \in Seq(CheckRun)
      /\ \A j \in Jobs : OwnCheck(j) /\ Posted(j)
  BY TypesByPart DEF WorkerInv, PostedInv, CheckTypes
<1>1. ASSUME \A j \in Jobs : StillCares(j), \A j \in Jobs : ~NewCheck(j, "in_progress")
      PROVE  Doomed' \subseteq Doomed
  BY <1>1, DoomedBefore, NewDoomed
<1>2. ASSUME NEW j \in Jobs, NEW step, Fault(j, step) \/ Answer(j, step) \/ Goto(j, step),
             UNCHANGED checkId, step \in Caring \/ checkId[j] = 0 \/ pc[j] \notin Caring
      PROVE  \A i \in Jobs : StillCares(i)
  BY <1>0, <1>2 DEF StillCares, Fault, Answer, Goto, CallTypes
<1>3. ASSUME NEW j \in Jobs, Leave(j), pc[j] \notin Caring
      PROVE  \A i \in Jobs : StillCares(i)
  BY <1>0, <1>3 DEF StillCares, Leave, Forget, CallTypes
<1>4. ASSUME NEW j \in Jobs, NEW r \in Replicas, Begin(j, r)
      PROVE  \A i \in Jobs : StillCares(i)
  <2>1. pc[j] = "idle"
    BY <1>4 DEF Begin, WorkerInv, Life
  <2> QED
    BY <1>0, <1>4, <2>1 DEF StillCares, Begin, CallTypes, localVars, Caring
<1>5. ASSUME NEW j \in Jobs, StartCheck(j)
      PROVE  \/ Doomed' \subseteq Doomed
             \/ faults' = faults + 1 /\ \E c : Doomed' \subseteq Doomed \cup {c}
  <2>1. /\ pc[j] = "startCheck" /\ checkId[j] = 0
        /\ "pipeline" \in Caring /\ "startCheck" \notin Caring
    BY <1>5 DEF StartCheck, FreshInv, Caring
  <2>2. \A i \in Jobs : StillCares(i)
    BY <1>0, <1>5, <2>1 DEF StillCares, StartCheck, Fault, Answer, Goto, CallTypes, LocalTypes
  <2>3. \A c \in Doomed' : c \in DOMAIN checks => c \in Doomed
    BY <2>2, DoomedBefore
  <2>4. CASE Fault(j, "pipeline")
    <3>1. faults' = faults + 1
      BY <2>4 DEF Fault
    <3>2. Doomed' \subseteq Doomed \cup {Len(checks) + 1}
      BY <2>3, NewDoomed
    <3> QED
      BY <3>1, <3>2
  <2>5. CASE Answer(j, "pipeline") /\ checkId' = [checkId EXCEPT ![j] = Len(checks) + 1]
    <3>1. checkId'[j] = Len(checks) + 1 /\ pc'[j] \in Caring
      BY <1>0, <2>1, <2>5 DEF Answer, Goto, CallTypes, LocalTypes
    <3>2. Len(checks) + 1 \notin Doomed'
      BY <3>1 DEF Doomed
    <3> QED
      BY <2>3, <3>2, NewDoomed
  <2> QED
    BY <1>5, <2>4, <2>5 DEF StartCheck
\* The two steps that finish a check run.
<1>6. ASSUME NEW j \in Jobs, NEW step, NEW status \in {"review", "failure"},
             \/ checkId[j] = 0 /\ Goto(j, step) /\ UNCHANGED checks
             \/ checkId[j] # 0 /\ Answer(j, step) /\ SetCheck(j, status)
             \/ checkId[j] # 0 /\ Fault(j, step) /\ (UNCHANGED checks \/ SetCheck(j, status)),
             UNCHANGED checkId
      PROVE  \/ Doomed' \subseteq Doomed
             \/ faults' = faults + 1 /\ \E c : Doomed' \subseteq Doomed \cup {c}
  <2>1. \A i \in Jobs \ {j} : StillCares(i)
    BY <1>0, <1>6 DEF StillCares, Fault, Answer, Goto, CallTypes
  <2>2. \A c \in Doomed' : c \in DOMAIN checks
    <3>1. SetCheck(j, status) => DOMAIN checks' = DOMAIN checks
      BY DEF SetCheck
    <3> QED
      BY <1>6, <3>1 DEF Doomed
  <2>3. \A c \in Doomed' : c # checkId[j] => c \in Doomed
    BY <2>1, <2>2, DoomedBefore
  <2>4. CASE checkId[j] = 0
    <3>1. 0 \notin DOMAIN checks
      <4>1. DOMAIN checks = 1 .. Len(checks)
        BY <1>0
      <4> QED
        BY <4>1
    <3> QED
      BY <2>2, <2>3, <2>4, <3>1
  <2>5. CASE checkId[j] # 0 /\ SetCheck(j, status)
    <3>1. checks'[checkId[j]] = [job |-> j, status |-> status]
      BY <1>0, <2>5, SetCheckKeepsTypes DEF WorkerInv
    <3>2. checkId[j] \notin Doomed'
      BY <3>1 DEF Doomed
    <3> QED
      BY <2>3, <3>2
  <2>6. CASE Fault(j, step)
    <3>1. faults' = faults + 1
      BY <2>6 DEF Fault
    <3> QED
      BY <2>3, <3>1
  <2> QED
    BY <1>6, <2>4, <2>5, <2>6
<1>7. ASSUME NEW j \in Jobs, FinishCheck(j)
      PROVE  \/ Doomed' \subseteq Doomed
             \/ faults' = faults + 1 /\ \E c : Doomed' \subseteq Doomed \cup {c}
  <2>1. /\ \/ checkId[j] = 0 /\ Goto(j, "recreate") /\ UNCHANGED checks
           \/ checkId[j] # 0 /\ Answer(j, "store") /\ SetCheck(j, "review")
           \/ checkId[j] # 0 /\ Fault(j, "recreate") /\ (UNCHANGED checks \/ SetCheck(j, "review"))
        /\ UNCHANGED checkId
    BY <1>7 DEF FinishCheck, localVars
  <2> QED
    BY <1>6, <2>1
<1>8. ASSUME NEW j \in Jobs, Cleanup(j)
      PROVE  \/ Doomed' \subseteq Doomed
             \/ faults' = faults + 1 /\ \E c : Doomed' \subseteq Doomed \cup {c}
  <2>1. /\ \/ checkId[j] = 0 /\ Goto(j, "giveUp") /\ UNCHANGED checks
           \/ checkId[j] # 0 /\ Answer(j, "giveUp") /\ SetCheck(j, "failure")
           \/ checkId[j] # 0 /\ Fault(j, "giveUp") /\ (UNCHANGED checks \/ SetCheck(j, "failure"))
        /\ UNCHANGED checkId
    BY <1>8 DEF Cleanup, localVars
  <2> QED
    BY <1>6, <2>1
\* The other steps keep every attempt caring and begin no check run.
<1>9. ASSUME NEW j \in Jobs, Gate(j) \/ Pipeline(j) \/ List(j) \/ PostInline(j)
      PROVE  \A i \in Jobs : StillCares(i)
  BY <1>2, <1>9 DEF Gate, Pipeline, List, PostInline, localVars, Caring
<1>10. ASSUME NEW j \in Jobs, Post(j)
       PROVE  \A i \in Jobs : StillCares(i)
  <2>1. CASE blocked[j]
    BY <1>2, <1>10, <2>1 DEF Post, FreshInv, localVars
  <2>2. CASE ~blocked[j]
    BY <1>2, <1>10, <2>2 DEF Post, localVars, Caring
  <2> QED
    BY <2>1, <2>2
<1>11. ASSUME NEW j \in Jobs, Recreate(j) \/ Store(j)
       PROVE  \A i \in Jobs : StillCares(i)
  BY <1>2, <1>3, <1>11 DEF Recreate, Store, localVars, Caring
<1>12. ASSUME NEW j \in Jobs, GiveUp(j) \/ Stall(j)
       PROVE  \A i \in Jobs : StillCares(i)
  BY <1>3, <1>12 DEF GiveUp, Stall, Caring
<1>13. ASSUME UNCHANGED <<pc, checkId>>
       PROVE  \A i \in Jobs : StillCares(i)
  BY <1>13 DEF StillCares
<1>14. \A i, j \in Jobs : Recreate(i) => ~NewCheck(j, "in_progress")
  <2> SUFFICES ASSUME NEW i \in Jobs, NEW j \in Jobs, Recreate(i), NewCheck(j, "in_progress")
               PROVE  FALSE
    OBVIOUS
  <2>1. checks' = checks \/ NewCheck(i, "review")
    BY DEF Recreate
  <2>2. Len(checks) \in Nat /\ TypeOK
    BY <1>0 DEF WorkerInv
  <2>3. /\ Len(checks') = Len(checks) + 1
        /\ checks'[Len(checks) + 1] = [job |-> j, status |-> "in_progress"]
    BY <2>2, NewCheckKeepsTypes
  <2>4. NewCheck(i, "review") => checks'[Len(checks) + 1] = [job |-> i, status |-> "review"]
    BY <2>2, NewCheckKeepsTypes
  <2> QED
    BY <2>1, <2>2, <2>3, <2>4
<1>15. ASSUME UNCHANGED checks
       PROVE  \A j \in Jobs : ~NewCheck(j, "in_progress")
  BY <1>0, <1>15 DEF NewCheck
<1> QED
  BY <1>1, <1>4, <1>5, <1>7, <1>8, <1>9, <1>10, <1>11, <1>12, <1>13, <1>14, <1>15
     DEF Next, Worker, Quiet, Chat, vars, localVars, githubVars, Submit, Begin, Gate, Pipeline, List,
         Post, PostInline, Store, GiveUp, Stall

\* A crash dooms the check runs of the attempts that were running, no more than
\* the replica has slots.
LEMMA DoomedGrowsByCrash ==
    ASSUME WorkerInv, SlotsInv, NEW r \in Replicas, Crash(r)
    PROVE  \E T : /\ Doomed' \subseteq Doomed \cup T
                  /\ IsFiniteSet(T) /\ Cardinality(T) <= Slots
<1> DEFINE T == {checkId[j] : j \in Running(r)}
           f == [j \in Running(r) |-> checkId[j]]
<1>1. f \in Surjection(Running(r), T)
  BY DEF Surjection
<1>2. IsFiniteSet(T) /\ Cardinality(T) <= Slots
  <2>1. /\ IsFiniteSet(Running(r)) /\ Cardinality(Running(r)) \in Nat
        /\ Cardinality(Running(r)) <= Slots /\ Slots \in Nat
    BY RunningIsFinite, WorkerAssumption DEF SlotsInv
  <2>2. IsFiniteSet(T) /\ Cardinality(T) <= Cardinality(Running(r))
    BY <1>1, <2>1, FS_Surjection
  <2>3. Cardinality(T) \in Nat
    BY <2>2, FS_CardinalityType
  <2> QED
    BY <2>1, <2>2, <2>3
<1>3. Doomed' \subseteq Doomed \cup T
  <2> SUFFICES ASSUME NEW c \in Doomed', c \notin T
               PROVE  c \in Doomed
    OBVIOUS
  <2>1. checks' = checks
    BY DEF Crash, githubVars
  <2>2. c \in DOMAIN checks /\ checks[c].status = "in_progress"
    BY <2>1 DEF Doomed
  <2>3. ASSUME NEW j \in Jobs, checkId[j] = c
        PROVE  pc[j] \notin Caring
    <3>1. j \notin Running(r)
      BY <2>3
    <3>2. checkId'[j] = checkId[j] /\ pc'[j] = pc[j]
      BY <3>1 DEF Crash, Forget
    <3> QED
      BY <2>3, <3>2 DEF Doomed
  <2> QED
    BY <2>2, <2>3 DEF Doomed
<1> QED
  BY <1>2, <1>3

DoomedInv == Cardinality(Doomed) <= faults + crashes * Slots

\* A finite set that grows by few elements.
LEMMA GrowthBound ==
    ASSUME NEW S, NEW T, NEW U, IsFiniteSet(S), IsFiniteSet(T), U \subseteq S \cup T
    PROVE  /\ IsFiniteSet(U) /\ Cardinality(U) \in Nat
           /\ Cardinality(U) <= Cardinality(S) + Cardinality(T)
<1>1. /\ IsFiniteSet(S \cup T)
      /\ Cardinality(S \cup T) = Cardinality(S) + Cardinality(T) - Cardinality(S \cap T)
  BY FS_Union
<1>2. /\ Cardinality(S) \in Nat /\ Cardinality(T) \in Nat /\ Cardinality(S \cap T) \in Nat
  BY FS_CardinalityType, FS_Intersection
<1>3. IsFiniteSet(U) /\ Cardinality(U) <= Cardinality(S \cup T)
  BY <1>1, FS_Subset
<1>4. Cardinality(U) \in Nat
  BY <1>3, FS_CardinalityType
<1> QED
  BY <1>1, <1>2, <1>3, <1>4

LEMMA DoomedIsFinite ==
    ASSUME WorkerInv
    PROVE  IsFiniteSet(Doomed)
<1>1. Doomed \in SUBSET DOMAIN checks
  BY DEF Doomed
<1>2. DOMAIN checks = 1 .. Len(checks) /\ Len(checks) \in Nat
  BY TypesByPart DEF WorkerInv, CheckTypes
<1>3. IsFiniteSet(1 .. Len(checks))
  BY <1>2, FS_Interval
<1> QED
  BY <1>1, <1>2, <1>3, FS_Subset

LEMMA NextDoomed ==
    ASSUME WorkerInv, PostedInv, FreshInv, SlotsInv, DoomedInv, [Next]_vars
    PROVE  DoomedInv'
<1>0. /\ IsFiniteSet(Doomed) /\ Cardinality(Doomed) \in Nat /\ Slots \in Nat
      /\ faults \in Nat /\ crashes \in Nat /\ crashes * Slots \in Nat
      /\ Cardinality(Doomed) <= faults + crashes * Slots
  <2>1. faults \in Nat /\ crashes \in Nat /\ Slots \in Nat
    BY TypesByPart, WorkerAssumption DEF WorkerInv, CallTypes, QueueTypes
  <2>2. crashes * Slots \in Nat
    BY <2>1
  <2> QED
    BY <2>1, <2>2, DoomedIsFinite, FS_CardinalityType DEF DoomedInv
<1>1. ASSUME NEW r \in Replicas, Crash(r)
      PROVE  DoomedInv'
  <2>1. PICK T : /\ Doomed' \subseteq Doomed \cup T
                 /\ IsFiniteSet(T) /\ Cardinality(T) <= Slots
    BY <1>1, DoomedGrowsByCrash
  <2>2. Cardinality(T) \in Nat
    BY <2>1, FS_CardinalityType
  <2>3. Cardinality(Doomed') \in Nat /\ Cardinality(Doomed') <= Cardinality(Doomed) + Cardinality(T)
    BY <1>0, <2>1, GrowthBound
  <2>4. crashes' = crashes + 1 /\ faults' = faults
    BY <1>1 DEF Crash
  <2>5. crashes' * Slots = crashes * Slots + Slots
    BY <1>0, <2>4
  <2>6. Cardinality(Doomed') <= faults' + crashes' * Slots
    BY <1>0, <2>1, <2>2, <2>3, <2>4, <2>5
  <2> QED
    BY <2>6 DEF DoomedInv
<1>2. CASE \A r \in Replicas : ~Crash(r)
  <2>1. crashes' = crashes
    BY <1>2
       DEF Next, Worker, Quiet, Chat, vars, Submit, Begin, Gate, StartCheck, Pipeline, List, Post,
           PostInline, FinishCheck, Recreate, Cleanup, Store, GiveUp, Stall
  <2>2. faults' \in Nat /\ faults' >= faults
    <3>1. ASSUME NEW j \in Jobs, NEW step, Fault(j, step) \/ Answer(j, step)
          PROVE  faults' \in Nat /\ faults' >= faults
      BY <1>0, <3>1 DEF Fault, Answer
    <3>2. ASSUME faults' = faults \/ faults' = faults + 1
          PROVE  faults' \in Nat /\ faults' >= faults
      BY <1>0, <3>2
    <3> QED
      BY <1>2, <3>1, <3>2
         DEF Next, Worker, Quiet, Chat, vars, Submit, Begin, Gate, StartCheck, Pipeline, List, Post,
             PostInline, FinishCheck, Recreate, Cleanup, Store, GiveUp, Stall
  <2>3. CASE Doomed' \subseteq Doomed
    <3>1. Cardinality(Doomed') <= Cardinality(Doomed) /\ IsFiniteSet(Doomed')
      BY <1>0, <2>3, FS_Subset
    <3>2. Cardinality(Doomed') \in Nat
      BY <3>1, FS_CardinalityType
    <3>3. Cardinality(Doomed') <= faults' + crashes * Slots
      BY <1>0, <2>2, <3>1, <3>2
    <3> QED
      BY <2>1, <3>3 DEF DoomedInv
  <2>4. ASSUME NEW c, faults' = faults + 1, Doomed' \subseteq Doomed \cup {c}
        PROVE  DoomedInv'
    <3>1. IsFiniteSet({c}) /\ Cardinality({c}) = 1
      BY FS_Singleton
    <3>2. Cardinality(Doomed') \in Nat /\ Cardinality(Doomed') <= Cardinality(Doomed) + 1
      BY <1>0, <2>4, <3>1, GrowthBound
    <3>3. Cardinality(Doomed') <= faults' + crashes * Slots
      BY <1>0, <2>4, <3>2
    <3> QED
      BY <2>1, <3>3 DEF DoomedInv
  <2> QED
    BY <1>2, <2>3, <2>4, DoomedGrowsByFault
<1> QED
  BY <1>1, <1>2

\* For any failures and crashes: the check runs left in progress for ever are at
\* most one for each failed call, and for each crash those of one replica.
THEOREM StrandedAreBounded == Spec => []StrandedBounded
<1>1. Init => FreshInv /\ DoomedInv
  <2> SUFFICES ASSUME Init
               PROVE  FreshInv /\ DoomedInv
    OBVIOUS
  <2>1. FreshInv
    BY DEF Init, FreshInv
  <2>2. checks = <<>> /\ faults = 0 /\ crashes = 0
    BY DEF Init
  <2>3. Doomed = {}
    BY <2>2 DEF Doomed
  <2>4. 0 * Slots = 0
    BY WorkerAssumption
  <2>5. DoomedInv
    BY <2>2, <2>3, <2>4, FS_EmptySet DEF DoomedInv
  <2> QED
    BY <2>1, <2>5
<1>2. WorkerInv /\ PostedInv /\ FreshInv /\ SlotsInv /\ DoomedInv /\ [Next]_vars
        => FreshInv' /\ DoomedInv'
  BY NextFresh, NextDoomed
<1>3. WorkerInv /\ DoomedInv => StrandedBounded
  <2> SUFFICES ASSUME WorkerInv, DoomedInv
               PROVE  StrandedBounded
    OBVIOUS
  <2>1. Stranded \in SUBSET Doomed
    BY DEF Stranded, Doomed
  <2>2. IsFiniteSet(Doomed)
    BY DoomedIsFinite
  <2>3. /\ Cardinality(Stranded) <= Cardinality(Doomed)
        /\ Cardinality(Stranded) \in Nat /\ Cardinality(Doomed) \in Nat
    BY <2>1, <2>2, FS_Subset, FS_CardinalityType
  <2>4. faults \in Nat /\ crashes * Slots \in Nat
    <3>1. faults \in Nat /\ crashes \in Nat /\ Slots \in Nat
      BY TypesByPart, WorkerAssumption DEF WorkerInv, CallTypes, QueueTypes
    <3> QED
      BY <3>1
  <2> QED
    BY <2>3, <2>4 DEF DoomedInv, StrandedBounded
<1> QED
  BY <1>1, <1>2, <1>3, WorkerInvariant, SlotsInvariant, InitPosted, NextPosted, PTL DEF Spec
=============================================================================
