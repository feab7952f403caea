--------------------------- MODULE MilestonesProofs ---------------------------
(***************************************************************************)
(* Theorems about Milestones for every set of processes and milestones,    *)
(* every threshold of attempts, retry limit and scenario.                  *)
(*                                                                         *)
(* What holds the queue's books together is who answers for a job: a run   *)
(* that pg-boss has not given up is the only one of its job, and the job   *)
(* is active.  So a handler that ends settles a job nobody else settled,   *)
(* and no dead job comes back to life beside its successor.                *)
(***************************************************************************)
EXTENDS Milestones, FiniteSetTheorems, SequenceTheorems, TLAPS

Types ==
    /\ jobs \in Seq(JobType)
    /\ records \in [Milestones -> Record]
    /\ effects \in [Milestones -> Nat]
    /\ runs \in [Processes -> Seq(RunType)]
    /\ paused \in [Processes -> BOOLEAN]
    /\ requests \in SUBSET RequestType
    /\ spent \in [Spending -> Nat]
    /\ scenario \in Scenarios
    /\ \A p \in Processes : \A i \in DOMAIN runs[p] : runs[p][i].job \in DOMAIN jobs
    /\ \A j \in DOMAIN jobs :
          /\ jobs[j].retries <= jobs[j].limit
          /\ jobs[j].state = "retry" => jobs[j].retries < jobs[j].limit

\* A run that pg-boss still waits for is the only one of its job.
OneAnswers ==
    \A p, q \in Processes : \A i \in DOMAIN runs[p], k \in DOMAIN runs[q] :
        (/\ ~runs[p][i].abandoned /\ ~runs[q][k].abandoned
         /\ runs[p][i].job = runs[q][k].job) => p = q /\ i = k

Answered ==
    /\ OneAnswers
    /\ \A p \in Processes : \A i \in DOMAIN runs[p] :
          ~runs[p][i].abandoned => jobs[runs[p][i].job].state = "active"

Books == Types /\ Answered /\ OneScheduled

\* The books change in four ways at most; each is a lemma below.
Quiet == UNCHANGED <<scenario>> /\ records' \in [Milestones -> Record]
             /\ effects' \in [Milestones -> Nat] /\ requests' \in SUBSET RequestType
             /\ spent' \in [Spending -> Nat] /\ paused' \in [Processes -> BOOLEAN]
----------------------------------------------------------------------------
(* The tables of jobs and runs                                               *)

LEMMA SpendType ==
    ASSUME spent \in [Spending -> Nat], NEW what \in Spending, Spend(what)
    PROVE  /\ spent' \in [Spending -> Nat]
           /\ spent'[what] = spent[what] + 1
           /\ \A other \in Spending : other # what => spent'[other] = spent[other]
BY DEF Spend, Spending

Replaces(p, h, r) == runs' = [runs EXCEPT ![p] = [@ EXCEPT ![h] = r]]

\* One run of a process changes.
LEMMA PlaceMoves ==
    ASSUME Types, NEW p \in Processes, NEW h \in DOMAIN runs[p], NEW r \in RunType,
           Replaces(p, h, r)
    PROVE  /\ runs' \in [Processes -> Seq(RunType)]
           /\ \A q \in Processes : DOMAIN runs'[q] = DOMAIN runs[q]
           /\ \A q \in Processes : \A i \in DOMAIN runs[q] :
                 runs'[q][i] = IF q = p /\ i = h THEN r ELSE runs[q][i]
<1>1. runs[p] \in Seq(RunType) /\ h \in 1..Len(runs[p]) /\ DOMAIN runs[p] = 1..Len(runs[p])
    BY DEF Types
<1>2. PICK n \in Nat : n = Len(runs[p]) /\ runs[p] \in [1..n -> RunType]
    BY <1>1
<1> DEFINE s == [runs[p] EXCEPT ![h] = r]
<1>3. s \in [1..n -> RunType] /\ \A i \in 1..n : s[i] = IF i = h THEN r ELSE runs[p][i]
    BY <1>1, <1>2
<1> HIDE DEF s
<1>3a. s \in Seq(RunType) /\ DOMAIN s = 1..n
    BY <1>3, SeqDef
<1>4. runs' \in [Processes -> Seq(RunType)] /\ runs'[p] = s
      /\ \A q \in Processes : q # p => runs'[q] = runs[q]
    BY <1>3a DEF Types, s, Replaces
<1> QED
    BY <1>1, <1>2, <1>3, <1>3a, <1>4

\* A run at the head of its process goes on, for the same job.
LEMMA HeadMoves ==
    ASSUME Types, NEW p \in Processes, runs[p] # <<>>, NEW r \in RunType,
           Replaces(p, 1, r)
    PROVE  /\ runs' \in [Processes -> Seq(RunType)]
           /\ \A q \in Processes : DOMAIN runs'[q] = DOMAIN runs[q]
           /\ \A q \in Processes : \A i \in DOMAIN runs[q] :
                 runs'[q][i] = IF q = p /\ i = 1 THEN r ELSE runs[q][i]
           /\ 1 \in DOMAIN runs[p]
<1>1. PICK h \in DOMAIN runs[p] : h = 1
    BY DEF Types
<1>2. Replaces(p, h, r)
    BY <1>1
<1>3. /\ runs' \in [Processes -> Seq(RunType)]
      /\ \A q \in Processes : DOMAIN runs'[q] = DOMAIN runs[q]
      /\ \A q \in Processes : \A i \in DOMAIN runs[q] :
            runs'[q][i] = IF q = p /\ i = h THEN r ELSE runs[q][i]
    BY <1>2, PlaceMoves
<1> QED
    BY <1>1, <1>3

\* One job changes; what it is about does not.
LEMMA JobMoves ==
    ASSUME Types, NEW j \in DOMAIN jobs, NEW job \in JobType,
           jobs' = [jobs EXCEPT ![j] = job]
    PROVE  /\ jobs' \in Seq(JobType) /\ DOMAIN jobs' = DOMAIN jobs
           /\ \A i \in DOMAIN jobs : jobs'[i] = IF i = j THEN job ELSE jobs[i]
<1>0. jobs \in Seq(JobType) /\ DOMAIN jobs = 1..Len(jobs) /\ Len(jobs) \in Nat
    BY DEF Types
<1>1. PICK n \in Nat : n = Len(jobs) /\ jobs \in [1..n -> JobType] /\ DOMAIN jobs = 1..n
    BY <1>0
<1> DEFINE s == [jobs EXCEPT ![j] = job]
<1>2. s \in [1..n -> JobType]
    BY <1>1
<1>3. \A i \in 1..n : s[i] = IF i = j THEN job ELSE jobs[i]
    BY <1>1
<1> HIDE DEF s
<1>4. s \in Seq(JobType) /\ DOMAIN s = 1..n
    BY <1>2, SeqDef
<1>5. jobs' = s
    BY DEF s
<1> QED
    BY <1>1, <1>3, <1>4, <1>5

\* A job is sent.
LEMMA JobSent ==
    ASSUME Types, NEW job \in JobType, jobs' = Append(jobs, job)
    PROVE  /\ jobs' \in Seq(JobType) /\ DOMAIN jobs' = DOMAIN jobs \cup {Len(jobs) + 1}
           /\ \A i \in DOMAIN jobs : jobs'[i] = jobs[i]
           /\ jobs'[Len(jobs) + 1] = job /\ Len(jobs) + 1 \notin DOMAIN jobs
<1>1. DOMAIN jobs = 1..Len(jobs) /\ jobs \in Seq(JobType) /\ Len(jobs) \in Nat
    BY DEF Types
<1>2. PICK s \in Seq(JobType) : s = jobs' /\ Len(s) = Len(jobs) + 1
             /\ (\A i \in 1..Len(jobs) : s[i] = jobs[i]) /\ s[Len(jobs) + 1] = job
    BY <1>1, AppendProperties
<1>3. DOMAIN s = 1..(Len(jobs) + 1)
    BY <1>1, <1>2
<1> QED
    BY <1>1, <1>2, <1>3
----------------------------------------------------------------------------
(* The books under each kind of step                                         *)

\* No run begins or ends, and none is given up.
SameRuns ==
    /\ runs' \in [Processes -> Seq(RunType)]
    /\ \A q \in Processes : DOMAIN runs'[q] = DOMAIN runs[q]
    /\ \A q \in Processes : \A i \in DOMAIN runs[q] :
          /\ runs'[q][i].job = runs[q][i].job
          /\ runs'[q][i].abandoned = runs[q][i].abandoned

HeadSteps(p, r) ==
    /\ r.job = runs[p][1].job /\ r.abandoned = runs[p][1].abandoned
    /\ runs[p] # <<>>
    /\ Replaces(p, 1, r)

LEMMA SameHead ==
    ASSUME Types, NEW p \in Processes, NEW r \in RunType, HeadSteps(p, r)
    PROVE  SameRuns
BY HeadMoves DEF HeadSteps, SameRuns

LEMMA SameAnswers ==
    ASSUME Answered, SameRuns
    PROVE  /\ OneAnswers'
           /\ \A p \in Processes : \A i \in DOMAIN runs'[p] :
                ~runs'[p][i].abandoned => jobs[runs'[p][i].job].state = "active"
<1>1. ASSUME NEW q \in Processes, NEW s \in Processes,
             NEW i \in DOMAIN runs'[q], NEW k \in DOMAIN runs'[s],
             ~runs'[q][i].abandoned, ~runs'[s][k].abandoned,
             runs'[q][i].job = runs'[s][k].job
      PROVE  q = s /\ i = k
  <2>1. i \in DOMAIN runs[q] /\ k \in DOMAIN runs[s]
    BY DEF SameRuns
  <2>2. /\ ~runs[q][i].abandoned /\ ~runs[s][k].abandoned
        /\ runs[q][i].job = runs[s][k].job
    BY <1>1, <2>1 DEF SameRuns
  <2> QED
    BY <2>1, <2>2 DEF Answered, OneAnswers
<1>2. OneAnswers'
    BY <1>1 DEF OneAnswers
<1> QED
    BY <1>2 DEF SameRuns, Answered

\* The runs change, the jobs do not.
LEMMA RunsBooks ==
    ASSUME Books, UNCHANGED jobs, Quiet, runs' \in [Processes -> Seq(RunType)], OneAnswers',
           \A p \in Processes : \A i \in DOMAIN runs'[p] :
              /\ runs'[p][i].job \in DOMAIN jobs
              /\ ~runs'[p][i].abandoned => jobs[runs'[p][i].job].state = "active"
    PROVE  Books'
<1>1. Types'
    BY DEF Books, Types, Quiet
<1>2. Answered'
    BY DEF Answered
<1>3. OneScheduled'
    BY DEF Books, OneScheduled, Live
<1> QED
    BY <1>1, <1>2, <1>3 DEF Books

LEMMA StillBooks ==
    ASSUME Books, UNCHANGED jobs, SameRuns, Quiet
    PROVE  Books'
<1>1. \A p \in Processes : \A i \in DOMAIN runs'[p] : runs'[p][i].job \in DOMAIN jobs
    BY DEF SameRuns, Books, Types
<1> QED
    BY <1>1, SameAnswers, RunsBooks DEF Books, SameRuns

\* A new job is nobody's yet; under a milestone's key it is the only one in line.
LEMMA SentBooks ==
    ASSUME Books, NEW job \in JobType, jobs' = Append(jobs, job), SameRuns, Quiet,
           job.state = "created", job.retries = 0,
           job.keyed => ~KeyTaken(job.milestone)
    PROVE  Books'
<1>0. /\ jobs' \in Seq(JobType) /\ DOMAIN jobs' = DOMAIN jobs \cup {Len(jobs) + 1}
      /\ \A i \in DOMAIN jobs : jobs'[i] = jobs[i]
      /\ jobs'[Len(jobs) + 1] = job /\ Len(jobs) + 1 \notin DOMAIN jobs
    BY JobSent DEF Books
<1>1. \A p \in Processes : \A i \in DOMAIN runs'[p] : runs'[p][i].job \in DOMAIN jobs
    BY DEF SameRuns, Books, Types
<1>2. Types'
  <2>1. job.limit \in Nat
    BY DEF JobType
  <2> QED
    BY <1>0, <1>1, <2>1 DEF Books, Types, Quiet, SameRuns
<1>3. Answered'
    BY <1>0, <1>1, SameAnswers DEF Books, Answered
<1>4. OneScheduled'
    BY <1>0 DEF Books, OneScheduled, KeyTaken, Live
<1> QED
    BY <1>2, <1>3, <1>4 DEF Books

\* The state of a job changes, and with it who answers for it.
LEMMA JobBooks ==
    ASSUME Books, NEW j \in DOMAIN jobs, NEW job \in JobType,
           jobs' = [jobs EXCEPT ![j] = job],
           job.milestone = jobs[j].milestone, job.keyed = jobs[j].keyed,
           job.retries <= job.limit, job.state = "retry" => job.retries < job.limit,
           Live(jobs[j]), Quiet,
           runs' \in [Processes -> Seq(RunType)],
           \A p \in Processes : \A i \in DOMAIN runs'[p] : runs'[p][i].job \in DOMAIN jobs,
           \A p \in Processes : \A i \in DOMAIN runs'[p] :
              ~runs'[p][i].abandoned =>
                 IF runs'[p][i].job = j THEN job.state = "active"
                 ELSE jobs[runs'[p][i].job].state = "active",
           OneAnswers'
    PROVE  Books'
<1>0. /\ jobs' \in Seq(JobType) /\ DOMAIN jobs' = DOMAIN jobs
      /\ \A i \in DOMAIN jobs : jobs'[i] = IF i = j THEN job ELSE jobs[i]
    BY JobMoves DEF Books
<1>1. Types'
    BY <1>0 DEF Books, Types, Quiet
<1>2. Answered'
    BY <1>0 DEF Answered
<1>3. OneScheduled'
    BY <1>0 DEF Books, OneScheduled, Live
<1> QED
    BY <1>1, <1>2, <1>3 DEF Books
----------------------------------------------------------------------------
(* The handler                                                               *)

LEMMA RecordTypes ==
    /\ NoRecord \in Record
    /\ \A record \in Record : record.attempts \in Nat /\ record.status \in Statuses \cup {"none"}
    /\ \A status \in Statuses, attempts \in Nat :
          [status |-> status, attempts |-> attempts] \in Record
BY DEF Record, NoRecord

LEMMA HeadRun ==
    ASSUME Types, NEW p \in Processes, runs[p] # <<>>
    PROVE  /\ Run(p) \in RunType /\ Run(p) = runs[p][1] /\ 1 \in DOMAIN runs[p]
           /\ Run(p).job \in DOMAIN jobs /\ jobs[Run(p).job] \in JobType
           /\ MilestoneOf(p) \in Milestones /\ RecordOf(p) \in Record
           /\ RecordOf(p).attempts \in Nat
<1>1. 1 \in DOMAIN runs[p] /\ runs[p][1] \in RunType
    BY DEF Types
<1>2. runs[p][1].job \in DOMAIN jobs
    BY <1>1 DEF Types
<1>3. jobs[runs[p][1].job] \in JobType
    BY <1>2 DEF Types
<1>4. MilestoneOf(p) \in Milestones
    BY <1>3 DEF MilestoneOf, Run, JobType
<1> QED
    BY <1>1, <1>2, <1>3, <1>4, RecordTypes DEF Run, RecordOf, Types

LEMMA GotoHead ==
    ASSUME Types, NEW p \in Processes, runs[p] # <<>>, NEW step \in Steps, Goto(p, step)
    PROVE  \E r \in RunType : r = [Run(p) EXCEPT !.step = step] /\ HeadSteps(p, r)
<1> DEFINE r == [Run(p) EXCEPT !.step = step]
<1>1. r \in RunType /\ r.job = runs[p][1].job /\ r.abandoned = runs[p][1].abandoned
    BY HeadRun DEF RunType
<1>2. Replaces(p, 1, r)
    BY DEF Goto, Run, Replaces
<1> QED
    BY <1>1, <1>2 DEF HeadSteps

\* What the handler writes to a record is a record.
LEMMA WrittenTypes ==
    ASSUME NEW run \in RunType, MaxAttempts \in Nat
    PROVE  /\ InitialRecord(run) \in Record /\ FailureRecord(run) \in Record
           /\ [status |-> "succeeded", attempts |-> run.tracked] \in Record
           /\ FailureRecord(run).status \in Statuses
<1>1. run.tracked \in Nat /\ run.tracked + 1 \in Nat
    BY DEF RunType
<1> QED
    BY <1>1, RecordTypes DEF InitialRecord, FailureRecord, Statuses

LEMMA PublishBooks ==
    ASSUME Books, NEW m \in Milestones, jobs' = Published(m), ~KeyTaken(m), SameRuns, Quiet
    PROVE  Books'
<1> DEFINE job == NewJob(m, MaxAttempts - 1, TRUE)
<1>1. job \in JobType /\ job.milestone = m /\ job.state = "created" /\ job.retries = 0
    BY ConstantsAssumption DEF NewJob, JobType
<1>2. jobs' = Append(jobs, job)
    BY DEF Published
<1> HIDE DEF job
<1> QED
    BY <1>1, <1>2, SentBooks

\* The head leaves; nobody else answers for its job.
LEMMA LeaveMoves ==
    ASSUME Books, NEW p \in Processes, runs[p] # <<>>, Leave(p)
    PROVE  /\ runs' \in [Processes -> Seq(RunType)] /\ OneAnswers'
           /\ \A q \in Processes : \A i \in DOMAIN runs'[q] :
                 /\ runs'[q][i].job \in DOMAIN jobs
                 /\ ~runs'[q][i].abandoned =>
                       /\ jobs[runs'[q][i].job].state = "active"
                       /\ ~Run(p).abandoned => runs'[q][i].job # Run(p).job
<1> DEFINE place(q, i) == IF q = p THEN i + 1 ELSE i
<1>1. PICK s \in Seq(RunType) : s = runs[p] /\ s # <<>>
    BY DEF Books, Types
<1>2. /\ Tail(s) \in Seq(RunType) /\ DOMAIN Tail(s) = 1..(Len(s) - 1) /\ DOMAIN s = 1..Len(s)
      /\ \A i \in 1..(Len(s) - 1) : Tail(s)[i] = s[i + 1]
      /\ Len(s) \in Nat /\ Len(s) > 0
    BY <1>1, HeadTailProperties
<1>3. runs' = [runs EXCEPT ![p] = Tail(s)]
    BY <1>1 DEF Leave
<1>4. runs' \in [Processes -> Seq(RunType)]
    BY <1>2, <1>3 DEF Books, Types
<1>5. ASSUME NEW q \in Processes, NEW i \in DOMAIN runs'[q]
      PROVE  /\ place(q, i) \in DOMAIN runs[q] /\ runs'[q][i] = runs[q][place(q, i)]
             /\ i \in Nat /\ i > 0
  <2>1. CASE q = p
    <3>1. runs'[q] = Tail(s)
      BY <1>3, <2>1 DEF Books, Types
    <3> QED
      BY <1>1, <1>2, <2>1, <3>1
  <2>2. CASE q # p
    <3>1. runs'[q] = runs[q] /\ runs[q] \in Seq(RunType)
      BY <1>3, <2>2 DEF Books, Types
    <3> QED
      BY <2>2, <3>1
  <2> QED
    BY <2>1, <2>2
<1>6. OneAnswers'
  <2>1. ASSUME NEW q \in Processes, NEW t \in Processes,
               NEW i \in DOMAIN runs'[q], NEW k \in DOMAIN runs'[t],
               ~runs'[q][i].abandoned, ~runs'[t][k].abandoned,
               runs'[q][i].job = runs'[t][k].job
        PROVE  q = t /\ i = k
    <3>1. q = t /\ place(q, i) = place(t, k)
      BY <1>5, <2>1 DEF Books, Answered, OneAnswers
    <3> QED
      BY <1>5, <3>1
  <2> QED
    BY <2>1 DEF OneAnswers
<1>7. ASSUME NEW q \in Processes, NEW i \in DOMAIN runs'[q]
      PROVE  /\ runs'[q][i].job \in DOMAIN jobs
             /\ ~runs'[q][i].abandoned =>
                   /\ jobs[runs'[q][i].job].state = "active"
                   /\ ~Run(p).abandoned => runs'[q][i].job # Run(p).job
  <2>1. /\ runs'[q][i].job \in DOMAIN jobs
        /\ ~runs'[q][i].abandoned => jobs[runs'[q][i].job].state = "active"
    <3>1. PICK k \in DOMAIN runs[q] : runs'[q][i] = runs[q][k]
      BY <1>5
    <3> QED
      BY <3>1 DEF Books, Types, Answered
  <2>2. ASSUME ~runs'[q][i].abandoned, ~Run(p).abandoned, runs'[q][i].job = Run(p).job
        PROVE  FALSE
    <3>1. 1 \in DOMAIN runs[p]
      BY <1>1, <1>2
    <3>2. q = p /\ place(q, i) = 1
      BY <1>5, <2>2, <3>1 DEF Books, Answered, OneAnswers, Run
    <3> QED
      BY <1>2, <1>3, <1>5, <3>2
  <2> QED
    BY <2>1, <2>2
<1> QED
    BY <1>4, <1>6, <1>7

LEMMA HandleBooks ==
    ASSUME Books, NEW p \in Processes, Handle(p), UNCHANGED scenario
    PROVE  Books'
<1>0. Types /\ MaxAttempts \in Nat
    BY ConstantsAssumption DEF Books
<1>1. CASE Defer(p)
    BY <1>0, <1>1, GotoHead, SameHead, StillBooks DEF Defer, Running, Steps, Quiet, Types
<1>2. CASE Begin(p)
  <2>1. runs[p] # <<>> /\ Run(p) \in RunType /\ RecordOf(p).attempts \in Nat
    BY <1>0, <1>2, HeadRun DEF Begin, Running
  <2> DEFINE r == IF AlreadyProcessed(RecordOf(p))
                  THEN [Run(p) EXCEPT !.step = "done"]
                  ELSE [Run(p) EXCEPT !.step = "upsert",
                           !.tracked = TrackedAttempts(RecordOf(p), Run(p).attempt)]
  <2>2. TrackedAttempts(RecordOf(p), Run(p).attempt) \in Nat
    BY <2>1 DEF TrackedAttempts, Larger, RunType
  <2>3. r \in RunType /\ r.job = Run(p).job /\ r.abandoned = Run(p).abandoned
    BY <2>1, <2>2 DEF RunType, Steps
  <2>4. HeadSteps(p, r)
    BY <1>2, <2>1, <2>3 DEF Begin, HeadSteps, Replaces, Run
  <2> HIDE DEF r
  <2> QED
    BY <1>0, <1>2, <2>3, <2>4, SameHead, StillBooks DEF Begin, Quiet, Types
<1>3. CASE Upsert(p)
  <2>1. runs[p] # <<>> /\ InitialRecord(Run(p)) \in Record
    BY <1>0, <1>3, HeadRun, WrittenTypes DEF Upsert, Running
  <2>2. Quiet
    BY <1>0, <1>3, <2>1 DEF Upsert, Quiet, Types
  <2> QED
    BY <1>0, <1>3, <2>1, <2>2, GotoHead, SameHead, StillBooks DEF Upsert, Steps
<1>4. CASE Execute(p)
  <2>1. runs[p] # <<>> /\ MilestoneOf(p) \in Milestones
    BY <1>0, <1>4, HeadRun DEF Execute, Running
  <2>2. effects' \in [Milestones -> Nat]
    <3>1. effects[MilestoneOf(p)] + 1 \in Nat
      BY <1>0, <2>1 DEF Types
    <3> QED
      BY <1>0, <1>4, <3>1 DEF Execute, Types
  <2>2a. Quiet
    BY <1>0, <1>4, <2>2 DEF Execute, Quiet, Types
  <2> QED
    BY <1>0, <1>4, <2>1, <2>2a, GotoHead, SameHead, StillBooks DEF Execute, Steps
<1>5. CASE CheckTransition(p)
  <2>1. runs[p] # <<>>
    BY <1>5 DEF CheckTransition, Running
  <2>2. \E step \in Steps : Goto(p, step)
    BY <1>5 DEF CheckTransition, Steps
  <2> QED
    BY <1>0, <1>5, <2>1, <2>2, GotoHead, SameHead, StillBooks DEF CheckTransition, Quiet, Types
<1>6. CASE WriteTransition(p)
  <2>1. runs[p] # <<>> /\ Run(p) \in RunType
    BY <1>0, <1>6, HeadRun DEF WriteTransition, Running
  <2>2. Quiet
    <3>1. records' \in [Milestones -> Record]
      BY <1>0, <1>6, <2>1, WrittenTypes DEF WriteTransition, Types
    <3> QED
      BY <1>0, <1>6, <3>1 DEF WriteTransition, Quiet, Types
  <2>3. \E step \in Steps : Goto(p, step)
    BY <1>6 DEF WriteTransition, Steps
  <2> QED
    BY <1>0, <1>6, <2>1, <2>2, <2>3, GotoHead, SameHead, StillBooks DEF WriteTransition
<1>7. CASE Reschedule(p)
  <2>1. runs[p] # <<>> /\ MilestoneOf(p) \in Milestones
    BY <1>0, <1>7, HeadRun DEF Reschedule, Running
  <2>2. SameRuns
    BY <1>0, <1>7, <2>1, GotoHead, SameHead DEF Reschedule, Steps
  <2>3. Quiet
    BY <1>0, <1>7 DEF Reschedule, Quiet, Types
  <2>4. CASE UNCHANGED jobs
    BY <2>2, <2>3, <2>4, StillBooks
  <2>5. CASE jobs' = Published(MilestoneOf(p)) /\ ~KeyTaken(MilestoneOf(p))
    BY <2>1, <2>2, <2>3, <2>5, PublishBooks
  <2> QED
    BY <1>7, <2>4, <2>5 DEF Reschedule
<1>8. CASE Settle(p)
  <2>1. runs[p] # <<>>
    BY <1>8 DEF Settle, Running
  <2>2. Quiet
    BY <1>0, <1>8 DEF Settle, Quiet, Types
  <2>3. /\ runs' \in [Processes -> Seq(RunType)] /\ OneAnswers'
        /\ \A q \in Processes : \A i \in DOMAIN runs'[q] :
              /\ runs'[q][i].job \in DOMAIN jobs
              /\ ~runs'[q][i].abandoned =>
                    /\ jobs[runs'[q][i].job].state = "active"
                    /\ ~Run(p).abandoned => runs'[q][i].job # Run(p).job
    BY <1>8, <2>1, LeaveMoves DEF Settle
  <2>4. CASE Run(p).abandoned
    BY <1>8, <2>2, <2>3, <2>4, RunsBooks DEF Settle
  <2>5. CASE ~Run(p).abandoned
    <3>1. PICK j \in DOMAIN jobs : j = Run(p).job /\ jobs[j] \in JobType
             /\ jobs[j].state = "active" /\ jobs[j].retries <= jobs[j].limit
      BY <1>0, <2>1, <2>5, HeadRun DEF Books, Answered, Types
    <3> DEFINE job == IF Run(p).step = "done" THEN [jobs[j] EXCEPT !.state = "completed"]
                      ELSE PutBack(jobs[j], "failed")
    <3>2. jobs' = [jobs EXCEPT ![j] = job]
      BY <1>8, <2>5, <3>1 DEF Settle
    <3>3. /\ job \in JobType
          /\ job.milestone = jobs[j].milestone /\ job.keyed = jobs[j].keyed
          /\ job.retries <= job.limit /\ (job.state = "retry" => job.retries < job.limit)
      BY <3>1 DEF PutBack, JobType
    <3> HIDE DEF job
    <3> QED
      BY <2>2, <2>3, <2>5, <3>1, <3>2, <3>3, JobBooks, ZenonT(40) DEF Live
  <2> QED
    BY <2>4, <2>5
<1> QED
    BY <1>1, <1>2, <1>3, <1>4, <1>5, <1>6, <1>7, <1>8 DEF Handle
----------------------------------------------------------------------------
(* The queue, the operator and the faults                                    *)

\* A process that takes a job is the only one to answer for it: the job was not
\* active.
LEMMA FetchBooks ==
    ASSUME Books, NEW p \in Processes, NEW j \in DOMAIN jobs, Fetch(p, j), UNCHANGED scenario
    PROVE  Books'
<1> DEFINE job == Fetched(jobs[j])
           run == [job |-> j, attempt |-> job.retries, tracked |-> 0, step |-> "begin",
                   abandoned |-> FALSE]
<1>0. jobs[j] \in JobType /\ j \in Nat \ {0} /\ jobs[j].state \in {"created", "retry"}
    BY DEF Books, Types, Fetch
<1>1. /\ job \in JobType /\ job.state = "active"
      /\ job.milestone = jobs[j].milestone /\ job.keyed = jobs[j].keyed
      /\ job.retries <= job.limit /\ job.retries \in Nat
  <2>1. PICK old \in JobType : /\ old = jobs[j] /\ old.retries <= old.limit
                               /\ old.state = "retry" => old.retries < old.limit
    BY <1>0 DEF Books, Types
  <2>2. PICK retries \in Nat : /\ retries = IF old.state = "retry" THEN old.retries + 1
                                            ELSE old.retries
                               /\ retries <= old.limit
    BY <2>1 DEF JobType
  <2>3. job = [old EXCEPT !.state = "active", !.retries = retries]
    BY <2>1, <2>2 DEF Fetched
  <2> HIDE DEF job
  <2> QED
    BY <2>1, <2>2, <2>3 DEF JobType
<1>2. jobs' = [jobs EXCEPT ![j] = job]
    BY DEF Fetch
<1>3. run \in RunType
    BY <1>0, <1>1 DEF RunType, Steps
<1>4. PICK s \in Seq(RunType) : s = runs[p]
    BY DEF Books, Types
<1>5. runs' = [runs EXCEPT ![p] = Append(s, run)]
    BY <1>4 DEF Fetch
<1>6. /\ Append(s, run) \in Seq(RunType) /\ DOMAIN Append(s, run) = 1..(Len(s) + 1)
      /\ \A i \in 1..Len(s) : Append(s, run)[i] = s[i]
      /\ Append(s, run)[Len(s) + 1] = run
      /\ DOMAIN s = 1..Len(s) /\ Len(s) \in Nat
  <2> HIDE DEF run
  <2> QED
    BY <1>3, AppendProperties
<1>7. runs' \in [Processes -> Seq(RunType)]
    BY <1>5, <1>6 DEF Books, Types
<1>8. ASSUME NEW q \in Processes, NEW i \in DOMAIN runs'[q]
      PROVE  \/ q = p /\ i = Len(s) + 1 /\ runs'[q][i] = run
             \/ i \in DOMAIN runs[q] /\ runs'[q][i] = runs[q][i]
  <2>1. CASE q = p
    <3>1. runs'[q] = Append(s, run)
      BY <1>5, <2>1 DEF Books, Types
    <3> HIDE DEF run
    <3> QED
      BY <1>4, <1>6, <2>1, <3>1
  <2>2. CASE q # p
    BY <1>5, <2>2 DEF Books, Types
  <2> QED
    BY <2>1, <2>2
<1>9. \A q \in Processes : \A i \in DOMAIN runs[q] :
         ~runs[q][i].abandoned => runs[q][i].job # j
    BY <1>0 DEF Books, Answered
<1> HIDE DEF run, job
<1>10. run.job = j /\ ~run.abandoned
    BY DEF run
<1>11. OneAnswers'
  <2>1. ASSUME NEW q \in Processes, NEW t \in Processes,
               NEW i \in DOMAIN runs'[q], NEW k \in DOMAIN runs'[t],
               ~runs'[q][i].abandoned, ~runs'[t][k].abandoned,
               runs'[q][i].job = runs'[t][k].job
        PROVE  q = t /\ i = k
    <3>1. CASE runs'[q][i].job = j
      <4>1. q = p /\ i = Len(s) + 1
        BY <1>8, <1>9, <2>1, <3>1
      <4>2. t = p /\ k = Len(s) + 1
        BY <1>8, <1>9, <2>1, <3>1, ZenonT(40)
      <4> QED
        BY <4>1, <4>2
    <3>2. CASE runs'[q][i].job # j
      <4>1. i \in DOMAIN runs[q] /\ runs'[q][i] = runs[q][i]
        BY <1>8, <1>10, <3>2
      <4>2. k \in DOMAIN runs[t] /\ runs'[t][k] = runs[t][k]
        BY <1>8, <1>10, <2>1, <3>2
      <4> QED
        BY <2>1, <4>1, <4>2 DEF Books, Answered, OneAnswers
    <3> QED
      BY <3>1, <3>2
  <2> QED
    BY <2>1 DEF OneAnswers
<1>12. ASSUME NEW q \in Processes, NEW i \in DOMAIN runs'[q]
       PROVE  /\ runs'[q][i].job \in DOMAIN jobs
              /\ ~runs'[q][i].abandoned =>
                    IF runs'[q][i].job = j THEN job.state = "active"
                    ELSE jobs[runs'[q][i].job].state = "active"
  <2>1. CASE q = p /\ i = Len(s) + 1 /\ runs'[q][i] = run
    BY <1>1, <1>10, <2>1
  <2>2. CASE i \in DOMAIN runs[q] /\ runs'[q][i] = runs[q][i]
    BY <1>1, <2>2 DEF Books, Types, Answered
  <2> QED
    BY <1>8, <2>1, <2>2
<1>13. Quiet
    BY DEF Fetch, Quiet, Books, Types
<1>14. \A q \in Processes : \A i \in DOMAIN runs'[q] : runs'[q][i].job \in DOMAIN jobs
    BY <1>12
<1>15. \A q \in Processes : \A i \in DOMAIN runs'[q] :
          ~runs'[q][i].abandoned =>
             IF runs'[q][i].job = j THEN job.state = "active"
             ELSE jobs[runs'[q][i].job].state = "active"
    BY <1>12
<1> QED
    BY <1>0, <1>1, <1>2, <1>7, <1>11, <1>13, <1>14, <1>15, JobBooks DEF Live

LEMMA PutBackTypes ==
    ASSUME NEW job \in JobType, job.retries <= job.limit, NEW end \in {"failed", "expired"}
    PROVE  LET back == PutBack(job, end)
           IN  /\ back \in JobType
               /\ back.milestone = job.milestone /\ back.keyed = job.keyed
               /\ back.retries = job.retries /\ back.limit = job.limit
               /\ back.retries <= back.limit /\ (back.state = "retry" => back.retries < back.limit)
               /\ back.state = IF job.retries < job.limit THEN "retry" ELSE end
BY DEF PutBack, JobType

\* The timer gives a run up: nobody answers for its job, which is put back.
LEMMA ExpireBooks ==
    ASSUME Books, NEW p \in Processes, NEW i \in DOMAIN runs[p], Expire(p, i),
           UNCHANGED scenario
    PROVE  Books'
<1> DEFINE j == runs[p][i].job
           job == PutBack(jobs[j], "failed")
           run == [runs[p][i] EXCEPT !.abandoned = TRUE]
<1>0. /\ j \in DOMAIN jobs /\ jobs[j] \in JobType /\ jobs[j].state = "active"
      /\ jobs[j].retries <= jobs[j].limit /\ ~runs[p][i].abandoned
      /\ runs[p][i] \in RunType /\ run \in RunType /\ run.abandoned /\ run.job = j
  <2>1. j \in DOMAIN jobs /\ ~runs[p][i].abandoned /\ runs[p][i] \in RunType
    BY DEF Books, Types, Expire
  <2>2. jobs[j] \in JobType /\ jobs[j].retries <= jobs[j].limit
    BY <2>1 DEF Books, Types
  <2>3. jobs[j].state = "active"
    BY <2>1 DEF Books, Answered
  <2>4. run \in RunType /\ run.abandoned /\ run.job = j
    BY <2>1 DEF RunType
  <2> QED
    BY <2>1, <2>2, <2>3, <2>4
<1>1. jobs' = [jobs EXCEPT ![j] = job]
    BY DEF Expire
<1>2. /\ job \in JobType /\ job.milestone = jobs[j].milestone /\ job.keyed = jobs[j].keyed
      /\ job.retries <= job.limit /\ (job.state = "retry" => job.retries < job.limit)
    BY <1>0, PutBackTypes
<1>3. /\ runs' \in [Processes -> Seq(RunType)]
      /\ \A q \in Processes : DOMAIN runs'[q] = DOMAIN runs[q]
      /\ \A q \in Processes : \A k \in DOMAIN runs[q] :
            runs'[q][k] = IF q = p /\ k = i THEN run ELSE runs[q][k]
  <2>1. Replaces(p, i, run)
    BY DEF Expire, Replaces
  <2> HIDE DEF run
  <2> QED
    BY <1>0, <2>1, PlaceMoves DEF Books
<1> HIDE DEF run, job
<1>4. \A q \in Processes : \A k \in DOMAIN runs'[q] :
         ~runs'[q][k].abandoned => runs'[q][k] = runs[q][k] /\ ~(q = p /\ k = i)
    BY <1>0, <1>3
<1>5. OneAnswers'
    BY <1>3, <1>4 DEF Books, Answered, OneAnswers
<1>6. ASSUME NEW q \in Processes, NEW k \in DOMAIN runs'[q]
      PROVE  /\ runs'[q][k].job \in DOMAIN jobs
             /\ ~runs'[q][k].abandoned =>
                    /\ runs'[q][k].job # j
                    /\ jobs[runs'[q][k].job].state = "active"
  <2>1. runs'[q][k].job \in DOMAIN jobs
    BY <1>0, <1>3, ZenonT(40) DEF Books, Types
  <2>2. ASSUME ~runs'[q][k].abandoned
        PROVE  runs'[q][k].job # j /\ jobs[runs'[q][k].job].state = "active"
    BY <1>0, <1>3, <1>4, <2>2 DEF Books, Answered, OneAnswers
  <2> QED
    BY <2>1, <2>2
<1>7. Quiet
    BY SpendType DEF Expire, Quiet, Books, Types, Spending
<1> QED
    BY <1>0, <1>1, <1>2, <1>3, <1>5, <1>6, <1>7, JobBooks DEF Live

\* A process that stops answers for nothing any more.
LEMMA CrashBooks ==
    ASSUME Books, NEW p \in Processes, Crash(p), UNCHANGED scenario
    PROVE  Books'
<1>1. /\ runs' \in [Processes -> Seq(RunType)]
      /\ \A q \in Processes : runs'[q] = IF q = p THEN <<>> ELSE runs[q]
    BY DEF Crash, Books, Types
<1>2. \A q \in Processes : \A i \in DOMAIN runs'[q] : i \in DOMAIN runs[q] /\ runs'[q] = runs[q]
    BY <1>1
<1>3. OneAnswers'
    BY <1>2 DEF Books, Answered, OneAnswers
<1>4. \A q \in Processes : \A i \in DOMAIN runs'[q] :
         /\ runs'[q][i].job \in DOMAIN jobs
         /\ ~runs'[q][i].abandoned => jobs[runs'[q][i].job].state = "active"
    BY <1>2 DEF Books, Answered, Types
<1>5. Quiet
    BY SpendType DEF Crash, Quiet, Books, Types, Spending
<1> QED
    BY <1>1, <1>3, <1>4, <1>5, RunsBooks DEF Crash

LEMMA LostBooks ==
    ASSUME Books, NEW j \in DOMAIN jobs, ExpireLost(j), UNCHANGED scenario
    PROVE  Books'
<1> DEFINE job == PutBack(jobs[j], "expired")
<1>0. jobs[j] \in JobType /\ jobs[j].retries <= jobs[j].limit /\ jobs[j].state = "active"
    BY DEF Books, Types, ExpireLost
<1>1. /\ job \in JobType /\ job.milestone = jobs[j].milestone /\ job.keyed = jobs[j].keyed
      /\ job.retries <= job.limit /\ (job.state = "retry" => job.retries < job.limit)
    BY <1>0, PutBackTypes
<1>2. jobs' = [jobs EXCEPT ![j] = job] /\ UNCHANGED runs
    BY DEF ExpireLost
<1> HIDE DEF job
<1>3. OneAnswers' /\ runs' \in [Processes -> Seq(RunType)]
    BY <1>2 DEF Books, Answered, OneAnswers, Types
<1>4. \A q \in Processes : \A i \in DOMAIN runs'[q] : runs'[q][i].job \in DOMAIN jobs
    BY <1>2 DEF Books, Types
<1>5. \A q \in Processes : \A i \in DOMAIN runs'[q] :
         ~runs'[q][i].abandoned =>
             IF runs'[q][i].job = j THEN job.state = "active"
             ELSE jobs[runs'[q][i].job].state = "active"
    BY <1>2 DEF Books, Answered, ExpireLost, Held
<1>6. Quiet
    BY DEF ExpireLost, Quiet, Books, Types
<1> QED
    BY <1>0, <1>1, <1>2, <1>3, <1>4, <1>5, <1>6, JobBooks DEF Live

LEMMA FaultBooks ==
    ASSUME Books, NEW p \in Processes, StorageFault(p), UNCHANGED scenario
    PROVE  Books'
<1>1. Run(p).step \in Steps
    BY HeadRun DEF StorageFault, Books, RunType
<1>2. Handler(Run(p).step) \in Steps
    BY <1>1 DEF Handler, Steps
<1>3. SameRuns
    BY <1>2, GotoHead, SameHead DEF StorageFault, Books
<1>4. Quiet
    BY SpendType DEF StorageFault, Quiet, Books, Types, Spending
<1> QED
    BY <1>3, <1>4, StillBooks DEF StorageFault

\* A dispatch, an operator's pause or retry.
LEMMA OperatorBooks ==
    ASSUME Books, UNCHANGED scenario,
           \/ \E m \in Milestones : Dispatch(m)
           \/ \E p \in Processes, mode \in BOOLEAN : SetContestMode(p, mode)
           \/ \E p \in Processes, m \in Milestones : RetryMilestone(p, m)
           \/ Serve
    PROVE  Books'
<1>0. Types /\ SameRuns /\ MaxAttempts \in Nat \ {0}
  <2>1. runs' = runs
    BY DEF Dispatch, SetContestMode, RetryMilestone, Serve, RetryPublish, RetryCheck, RetryWrite
  <2> QED
    BY <2>1, ConstantsAssumption DEF Books, Types, SameRuns
<1>1. ASSUME NEW m \in Milestones, Dispatch(m) PROVE Books'
  <2> DEFINE job == NewJob(m, EventRetries, FALSE)
  <2>1. job \in JobType /\ ~job.keyed /\ job.state = "created" /\ job.retries = 0
    BY ConstantsAssumption DEF NewJob, JobType
  <2>2. jobs' = Append(jobs, job)
    BY <1>1 DEF Dispatch
  <2> HIDE DEF job
  <2>3. Quiet
    BY <1>0, <1>1, SpendType DEF Dispatch, Quiet, Types, Spending
  <2> QED
    BY <1>0, <2>1, <2>2, <2>3, SentBooks
<1>2. ASSUME NEW p \in Processes, NEW mode \in BOOLEAN, SetContestMode(p, mode) PROVE Books'
  <2>1. Quiet
    BY <1>0, <1>2, SpendType DEF SetContestMode, Quiet, Types, Spending
  <2> QED
    BY <1>0, <1>2, <2>1, StillBooks DEF SetContestMode
<1>3. ASSUME NEW p \in Processes, NEW m \in Milestones, RetryMilestone(p, m) PROVE Books'
  <2>1. records[m].attempts + 1 \in Nat
    BY <1>0, RecordTypes DEF Types
  <2>2. requests' \in SUBSET RequestType
    BY <1>0, <1>3, <2>1 DEF RetryMilestone, Types, RequestType
  <2>3. Quiet
    BY <1>0, <1>3, <2>2, SpendType DEF RetryMilestone, Quiet, Types, Spending
  <2> QED
    BY <1>0, <1>3, <2>3, StillBooks DEF RetryMilestone
<1>4. ASSUME NEW r \in requests, RetryPublish(r) \/ RetryCheck(r) \/ RetryWrite(r) PROVE Books'
  <2>0. r \in RequestType
    BY <1>0 DEF Types
  <2>1. requests' \in SUBSET RequestType
    <3>1. \A step \in {"check", "write"} : [r EXCEPT !.step = step] \in RequestType
      BY <2>0 DEF RequestType
    <3> QED
      BY <1>0, <1>4, <3>1 DEF RetryPublish, RetryCheck, RetryWrite, Proceed, Answer, Types
  <2>2. records' \in [Milestones -> Record]
    <3>1. [status |-> "retrying", attempts |-> r.attempts] \in Record
      BY <2>0, RecordTypes DEF RequestType, Statuses
    <3> QED
      BY <1>0, <1>4, <3>1 DEF RetryPublish, RetryCheck, RetryWrite, Types
  <2>3. Quiet
    BY <1>0, <1>4, <2>1, <2>2 DEF RetryPublish, RetryCheck, RetryWrite, Quiet, Types
  <2>4. CASE UNCHANGED jobs
    BY <1>0, <2>3, <2>4, StillBooks
  <2>5. CASE jobs' = Published(r.milestone) /\ ~KeyTaken(r.milestone)
    BY <1>0, <2>0, <2>3, <2>5, PublishBooks DEF RequestType
  <2> QED
    BY <1>4, <2>4, <2>5 DEF RetryPublish, RetryCheck, RetryWrite
<1> QED
    BY <1>1, <1>2, <1>3, <1>4 DEF Serve

LEMMA BooksStep ==
    ASSUME Books, [Next]_vars
    PROVE  Books'
<1>0. scenario.processes \subseteq Processes
    BY ConstantsAssumption DEF Books, Types, Scenario
<1>1. CASE UNCHANGED vars
  <2>1. SameRuns /\ Quiet
    BY <1>1 DEF vars, Books, Types, SameRuns, Quiet
  <2> QED
    BY <1>1, <2>1, StillBooks DEF vars
<1>2. CASE Next
  <2>0. UNCHANGED scenario /\ Step
    BY <1>2 DEF Next
  <2>1. ASSUME NEW p \in Processes, Poll(p) \/ Handle(p) \/ Disturb(p) PROVE Books'
    BY <2>0, <2>1, FetchBooks, HandleBooks, FaultBooks, ExpireBooks, CrashBooks
       DEF Poll, Disturb
  <2>2. CASE Maintain
    BY <2>0, <2>2, LostBooks DEF Maintain
  <2> QED
    BY <1>0, <2>0, <2>1, <2>2, OperatorBooks DEF Step
<1> QED
    BY <1>1, <1>2

LEMMA InitBooks ==
    ASSUME Init
    PROVE  Books
<1>1. Types
    BY RecordTypes DEF Init, Types
<1> QED
    BY <1>1 DEF Init, Books, Answered, OneAnswers, OneScheduled
----------------------------------------------------------------------------
(* The running handlers, one per process                                     *)

StepOf(p) == IF runs[p] = <<>> THEN "none" ELSE Run(p).step

\* Only the head of a process's chain has begun.
Waiting == \A p \in Processes : \A i \in DOMAIN runs[p] : i # 1 => runs[p][i].step = "begin"

SameRunning(p) == /\ StepOf(p)' = StepOf(p)
                  /\ StepOf(p) # "none" => /\ MilestoneOf(p)' = MilestoneOf(p)
                                           /\ Run(p)'.tracked = Run(p).tracked

JobsKept == /\ DOMAIN jobs \subseteq DOMAIN jobs'
            /\ \A j \in DOMAIN jobs : jobs'[j].milestone = jobs[j].milestone

LEMMA RunningKept ==
    ASSUME Books, JobsKept, NEW p \in Processes, runs'[p] = runs[p]
    PROVE  SameRunning(p)
<1>1. runs[p] # <<>> => Run(p).job \in DOMAIN jobs
    BY HeadRun DEF Books
<1> QED
    BY <1>1 DEF SameRunning, StepOf, MilestoneOf, Run, JobsKept

LEMMA HeadRuns ==
    ASSUME Books, Waiting, JobsKept, NEW p \in Processes, NEW r \in RunType, HeadSteps(p, r)
    PROVE  /\ StepOf(p)' = r.step /\ MilestoneOf(p)' = MilestoneOf(p) /\ Run(p)' = r
           /\ \A q \in Processes : q # p => SameRunning(q)
           /\ Waiting'
<1>1. /\ runs' \in [Processes -> Seq(RunType)]
      /\ \A q \in Processes : DOMAIN runs'[q] = DOMAIN runs[q]
      /\ \A q \in Processes : \A i \in DOMAIN runs[q] :
            runs'[q][i] = IF q = p /\ i = 1 THEN r ELSE runs[q][i]
      /\ 1 \in DOMAIN runs[p]
    BY HeadMoves DEF HeadSteps, Books
<1>2. runs'[p][1] = r /\ runs'[p] # <<>>
    BY <1>1
<1>3. StepOf(p)' = r.step /\ MilestoneOf(p)' = MilestoneOf(p) /\ Run(p)' = r
  <2>1. Run(p).job \in DOMAIN jobs /\ r.job = Run(p).job
    BY HeadRun DEF Books, HeadSteps, Run
  <2> QED
    BY <1>2, <2>1 DEF StepOf, MilestoneOf, Run, JobsKept
<1>4. ASSUME NEW q \in Processes, q # p PROVE SameRunning(q)
  <2>1. runs'[q] = runs[q]
    BY <1>4 DEF HeadSteps, Replaces, Books, Types
  <2> QED
    BY <2>1, RunningKept
<1>5. Waiting'
    BY <1>1 DEF Waiting
<1> QED
    BY <1>3, <1>4, <1>5

LEMMA GotoRuns ==
    ASSUME Books, Waiting, JobsKept, NEW p \in Processes, runs[p] # <<>>, NEW step \in Steps,
           Goto(p, step)
    PROVE  /\ StepOf(p)' = step /\ MilestoneOf(p)' = MilestoneOf(p)
           /\ Run(p)' = [Run(p) EXCEPT !.step = step]
           /\ \A q \in Processes : q # p => SameRunning(q)
           /\ Waiting'
<1>1. PICK r \in RunType : r = [Run(p) EXCEPT !.step = step] /\ HeadSteps(p, r)
    BY GotoHead DEF Books
<1>2. r.step = step
    BY <1>1, HeadRun DEF Books, RunType
<1> QED
    BY <1>1, <1>2, HeadRuns

LEMMA LeaveRuns ==
    ASSUME Books, Waiting, JobsKept, NEW p \in Processes, runs[p] # <<>>, Leave(p)
    PROVE  /\ StepOf(p)' \in {"none", "begin"}
           /\ \A q \in Processes : q # p => SameRunning(q)
           /\ Waiting'
<1>1. PICK s \in Seq(RunType) : s = runs[p] /\ s # <<>>
    BY DEF Books, Types
<1>2. /\ Tail(s) \in Seq(RunType) /\ DOMAIN Tail(s) = 1..(Len(s) - 1) /\ DOMAIN s = 1..Len(s)
      /\ \A i \in 1..(Len(s) - 1) : Tail(s)[i] = s[i + 1]
      /\ Len(s) \in Nat /\ Len(s) > 0
    BY <1>1, HeadTailProperties
<1>3. runs' = [runs EXCEPT ![p] = Tail(s)] /\ runs'[p] = Tail(s)
    BY <1>1 DEF Leave, Books, Types
<1>4. ASSUME NEW i \in DOMAIN runs'[p] PROVE runs'[p][i].step = "begin"
  <2>0. i \in 1..(Len(s) - 1)
    BY <1>2, <1>3
  <2>1. i + 1 \in DOMAIN runs[p] /\ i + 1 # 1 /\ runs'[p][i] = runs[p][i + 1]
    <3>1. i \in Nat /\ i >= 1 /\ i + 1 \in 1..Len(s) /\ i + 1 # 1
      BY <2>0, <1>2
    <3>2. Tail(s)[i] = s[i + 1]
      BY <2>0, <1>2
    <3>3. runs'[p][i] = s[i + 1]
      BY <3>2, <1>3
    <3>4. i + 1 \in DOMAIN runs[p]
      BY <3>1, <1>1, <1>2
    <3> QED
      BY <3>1, <3>3, <3>4, <1>1
  <2> QED
    BY <2>1 DEF Waiting
<1>5. runs'[p] # <<>> => 1 \in DOMAIN runs'[p]
    BY <1>2, <1>3
<1>6. StepOf(p)' \in {"none", "begin"}
    BY <1>4, <1>5 DEF StepOf, Run
<1>7. ASSUME NEW q \in Processes, q # p PROVE runs'[q] = runs[q]
    BY <1>3, <1>7 DEF Books, Types
<1>8. \A q \in Processes : q # p => SameRunning(q)
    BY <1>7, RunningKept
<1>9. Waiting'
    BY <1>4, <1>7 DEF Waiting
<1> QED
    BY <1>6, <1>8, <1>9

LEMMA FetchRuns ==
    ASSUME Books, Waiting, JobsKept, NEW p \in Processes, NEW j \in DOMAIN jobs, Fetch(p, j)
    PROVE  /\ IF StepOf(p) = "none" THEN StepOf(p)' = "begin" ELSE SameRunning(p)
           /\ \A q \in Processes : q # p => SameRunning(q)
           /\ Waiting'
<1> DEFINE run == [job |-> j, attempt |-> Fetched(jobs[j]).retries, tracked |-> 0,
                   step |-> "begin", abandoned |-> FALSE]
<1>1. PICK s \in Seq(RunType) : s = runs[p]
    BY DEF Books, Types
<1>2. runs' = [runs EXCEPT ![p] = Append(s, run)] /\ runs'[p] = Append(s, run)
    BY <1>1 DEF Fetch, Books, Types
<1>3. /\ DOMAIN runs'[p] = 1..(Len(s) + 1) /\ DOMAIN s = 1..Len(s) /\ Len(s) \in Nat
      /\ \A i \in 1..Len(s) : runs'[p][i] = s[i]
      /\ runs'[p][Len(s) + 1] = run /\ runs'[p] # <<>>
      /\ s # <<>> => 1 \in 1..Len(s)
      /\ s = <<>> => Len(s) = 0
  <2>1. \A i \in 1..Len(s) : Append(s, run)[i] = s[i]
    OBVIOUS
  <2> QED
    BY <1>2, <2>1
<1>4. ASSUME NEW q \in Processes, q # p PROVE runs'[q] = runs[q]
    BY <1>2, <1>4 DEF Books, Types
<1>5. run.step = "begin"
    OBVIOUS
<1> HIDE DEF run
<1>6. Waiting'
    BY <1>1, <1>3, <1>4, <1>5 DEF Waiting
<1>7. CASE s = <<>>
    BY <1>1, <1>3, <1>4, <1>5, <1>6, <1>7, RunningKept DEF StepOf, Run
<1>8. CASE s # <<>>
  <2>1. Run(p)' = Run(p) /\ Run(p).job \in DOMAIN jobs
    BY <1>1, <1>3, <1>8, HeadRun DEF Run, Books
  <2>2. SameRunning(p)
    BY <1>1, <1>3, <1>8, <2>1 DEF SameRunning, StepOf, MilestoneOf, JobsKept
  <2>3. StepOf(p) # "none"
    <3>1. Run(p).step \in Steps
      BY <1>1, <1>8, HeadRun DEF Books, RunType
    <3> QED
      BY <1>1, <1>8, <3>1 DEF StepOf, Steps
  <2>4. \A q \in Processes : q # p => SameRunning(q)
    BY <1>4, RunningKept
  <2> QED
    BY <1>6, <2>2, <2>3, <2>4
<1> QED
    BY <1>7, <1>8

LEMMA ExpireRuns ==
    ASSUME Books, Waiting, JobsKept, NEW p \in Processes, NEW i \in DOMAIN runs[p], Expire(p, i)
    PROVE  Waiting' /\ \A q \in Processes : SameRunning(q)
<1> DEFINE run == [runs[p][i] EXCEPT !.abandoned = TRUE]
<1>0. runs[p][i] \in RunType
    BY DEF Books, Types
<1>1. run \in RunType /\ Replaces(p, i, run)
      /\ run.job = runs[p][i].job /\ run.step = runs[p][i].step
      /\ run.tracked = runs[p][i].tracked
  <2>1. run \in RunType /\ run.job = runs[p][i].job /\ run.step = runs[p][i].step
        /\ run.tracked = runs[p][i].tracked
    BY <1>0 DEF RunType
  <2>2. Replaces(p, i, run)
    BY DEF Books, Types, Expire, Replaces
  <2> QED
    BY <2>1, <2>2
<1> HIDE DEF run
<1>2. /\ runs' \in [Processes -> Seq(RunType)]
      /\ \A q \in Processes : DOMAIN runs'[q] = DOMAIN runs[q]
      /\ \A q \in Processes : \A k \in DOMAIN runs[q] :
            runs'[q][k] = IF q = p /\ k = i THEN run ELSE runs[q][k]
    BY <1>1, PlaceMoves DEF Books
<1>3. Waiting'
    BY <1>1, <1>2 DEF Waiting
<1>4. ASSUME NEW q \in Processes PROVE SameRunning(q)
  <2>1. CASE runs[q] = <<>>
    <3>1. runs'[q] = <<>>
      BY <1>2, <2>1
    <3> QED
      BY <2>1, <3>1 DEF SameRunning, StepOf
  <2>2. CASE runs[q] # <<>>
    <3>1. 1 \in DOMAIN runs[q] /\ Run(q).job \in DOMAIN jobs
      BY <2>2, HeadRun DEF Books
    <3>2. runs'[q] # <<>>
      BY <1>2, <3>1
    <3>3. Run(q)'.job = Run(q).job /\ Run(q)'.step = Run(q).step
          /\ Run(q)'.tracked = Run(q).tracked
      BY <1>1, <1>2, <3>1 DEF Run
    <3> QED
      BY <2>2, <3>1, <3>2, <3>3 DEF SameRunning, StepOf, MilestoneOf, JobsKept
  <2> QED
    BY <2>1, <2>2
<1> QED
    BY <1>3, <1>4
----------------------------------------------------------------------------
(* Successes took effect, and milestones given up are marked                 *)

Acting == {"execute", "succeed", "succeeding", "fail", "failing"}

\* Out of attempts, and not marked so.
Unmarked(m) == /\ records[m].attempts >= MaxAttempts
               /\ records[m].status \notin {"succeeded", "needs_attention"}

\* A handler about to record a success has executed the milestone, and while
\* nothing disturbs the queue a milestone out of attempts and unmarked has a
\* handler that is going to mark it.
Accounted ==
    /\ \A p \in Processes : StepOf(p) \in {"succeed", "succeeding"} =>
          effects[MilestoneOf(p)] > 0
    /\ SucceededMeansDone
    /\ \A m \in Milestones : records[m].status # "pending"
    /\ Undisturbed =>
          /\ requests = {}
          /\ \A m \in Milestones : Unmarked(m) =>
                \E p \in Processes : StepOf(p) \in Acting /\ MilestoneOf(p) = m

Truth == Waiting /\ Accounted

\* The records stay, and no handler drops what it has begun.
LEMMA StillAccounted ==
    ASSUME Books, Accounted, UNCHANGED <<records, scenario>>, Undisturbed => requests' = {},
           effects' \in [Milestones -> Nat],
           \A m \in Milestones : effects'[m] >= effects[m],
           \A q \in Processes : \/ SameRunning(q)
                                \/ /\ StepOf(q)' \notin {"succeed", "succeeding"}
                                   /\ Undisturbed => StepOf(q) \notin Acting
    PROVE  Accounted'
<1>0. \A q \in Processes : StepOf(q) # "none" => MilestoneOf(q) \in Milestones
    BY HeadRun DEF Books, StepOf
<1>1. ASSUME NEW q \in Processes, StepOf(q)' \in {"succeed", "succeeding"}
      PROVE  effects'[MilestoneOf(q)'] > 0
  <2>1. SameRunning(q)
    BY <1>1
  <2>2. PICK m \in Milestones : m = MilestoneOf(q) /\ MilestoneOf(q)' = m
    BY <1>0, <1>1, <2>1 DEF SameRunning
  <2>3. effects[m] > 0
    BY <1>1, <2>1, <2>2 DEF Accounted, SameRunning
  <2>4. effects[m] \in Nat /\ effects'[m] \in Nat /\ effects'[m] >= effects[m]
    BY DEF Books, Types
  <2> QED
    BY <2>2, <2>3, <2>4
<1>2. SucceededMeansDone'
  <2>1. ASSUME NEW m \in Milestones, records[m].status = "succeeded" PROVE effects'[m] > 0
    BY <2>1 DEF Accounted, SucceededMeansDone, Books, Types
  <2> QED
    BY <2>1 DEF SucceededMeansDone
<1>3. ASSUME Undisturbed', NEW m \in Milestones, Unmarked(m)'
      PROVE  \E q \in Processes : StepOf(q)' \in Acting /\ MilestoneOf(q)' = m
  <2>1. Undisturbed /\ Unmarked(m)
    BY <1>3 DEF Undisturbed, Unmarked
  <2>2. PICK q \in Processes : StepOf(q) \in Acting /\ MilestoneOf(q) = m
    BY <2>1 DEF Accounted
  <2>3. SameRunning(q)
    BY <2>1, <2>2
  <2> QED
    BY <2>2, <2>3 DEF SameRunning, Acting
<1>4. Undisturbed' => Undisturbed
    BY DEF Undisturbed
<1>5. \A m \in Milestones : records'[m].status # "pending"
    BY DEF Accounted
<1>6. Undisturbed' => requests' = {}
    BY <1>4
<1> QED
    BY <1>1, <1>2, <1>3, <1>5, <1>6 DEF Accounted

\* A process writes the record of its milestone, or only moves on from an
\* acting step: any other milestone out of attempts keeps its handler.
LEMMA ActAccounted ==
    ASSUME Books, Accounted, NEW p \in Processes, runs[p] # <<>>, UNCHANGED <<requests, scenario>>,
           effects' \in [Milestones -> Nat], \A m \in Milestones : effects'[m] >= effects[m],
           NEW record \in Record, record.status # "pending",
           records' = [records EXCEPT ![MilestoneOf(p)] = record],
           \A q \in Processes : q # p => SameRunning(q),
           MilestoneOf(p)' = MilestoneOf(p),
           StepOf(p)' \in {"succeed", "succeeding"} \/ record.status = "succeeded" =>
              effects'[MilestoneOf(p)] > 0,
           \/ StepOf(p)' \in Acting
           \/ record.attempts < MaxAttempts
           \/ record.status \in {"succeeded", "needs_attention"}
    PROVE  Accounted'
<1>0. \A q \in Processes : StepOf(q) # "none" => MilestoneOf(q) \in Milestones
    BY HeadRun DEF Books, StepOf
<1>0a. PICK own \in Milestones : own = MilestoneOf(p)
    BY HeadRun DEF Books
<1>0b. \A m \in Milestones : records'[m] = IF m = own THEN record ELSE records[m]
    BY <1>0a DEF Books, Types
<1>0c. \A m \in Milestones : effects[m] > 0 => effects'[m] > 0
    BY DEF Books, Types
<1>1. ASSUME NEW q \in Processes, StepOf(q)' \in {"succeed", "succeeding"}
      PROVE  effects'[MilestoneOf(q)'] > 0
  <2>1. CASE q = p
    BY <1>1, <2>1
  <2>2. CASE q # p
    <3>1. SameRunning(q)
      BY <2>2
    <3>2. PICK m \in Milestones : m = MilestoneOf(q) /\ MilestoneOf(q)' = m
      BY <1>0, <1>1, <3>1 DEF SameRunning
    <3>3. effects[m] > 0
      BY <1>1, <3>1, <3>2 DEF Accounted, SameRunning
    <3> QED
      BY <3>2, <3>3, <1>0c
  <2> QED
    BY <2>1, <2>2
<1>2. SucceededMeansDone'
  <2>1. ASSUME NEW m \in Milestones, records'[m].status = "succeeded" PROVE effects'[m] > 0
    BY <2>1, <1>0a, <1>0b, <1>0c DEF Accounted, SucceededMeansDone
  <2> QED
    BY <2>1 DEF SucceededMeansDone
<1>3. ASSUME Undisturbed', NEW m \in Milestones, Unmarked(m)'
      PROVE  \E q \in Processes : StepOf(q)' \in Acting /\ MilestoneOf(q)' = m
  <2>1. CASE m = own
    <3>1. records'[m] = record
      BY <2>1, <1>0b
    <3>2. record.attempts >= MaxAttempts /\ record.attempts \in Nat /\ MaxAttempts \in Nat
          /\ record.status \notin {"succeeded", "needs_attention"}
      BY <1>3, <3>1, RecordTypes, ConstantsAssumption DEF Unmarked
    <3>3. StepOf(p)' \in Acting
      BY <3>2
    <3> QED
      BY <2>1, <1>0a, <3>3
  <2>2. CASE m # own
    <3>1. Undisturbed /\ Unmarked(m)
      BY <1>3, <1>0b, <2>2 DEF Undisturbed, Unmarked
    <3>2. PICK q \in Processes : StepOf(q) \in Acting /\ MilestoneOf(q) = m
      BY <3>1 DEF Accounted
    <3>3. SameRunning(q)
      BY <3>2, <2>2, <1>0a
    <3> QED
      BY <3>2, <3>3 DEF SameRunning, Acting
  <2> QED
    BY <2>1, <2>2
<1>4. Undisturbed' => Undisturbed
    BY DEF Undisturbed
<1>5. \A m \in Milestones : records'[m].status # "pending"
    BY <1>0b DEF Accounted
<1>6. Undisturbed' => requests' = {}
    BY <1>4 DEF Accounted
<1> QED
    BY <1>1, <1>2, <1>3, <1>5, <1>6 DEF Accounted

\* A job never comes to be about another milestone.
LEMMA KeptJob ==
    ASSUME Books, NEW j \in DOMAIN jobs, NEW job \in JobType, job.milestone = jobs[j].milestone,
           jobs' = [jobs EXCEPT ![j] = job]
    PROVE  JobsKept
BY JobMoves DEF Books, JobsKept

LEMMA KeptSent ==
    ASSUME Books, NEW m \in Milestones, jobs' = Published(m)
    PROVE  JobsKept
<1> DEFINE job == NewJob(m, MaxAttempts - 1, TRUE)
<1>1. job \in JobType
    BY ConstantsAssumption DEF NewJob, JobType
<1>2. jobs' = Append(jobs, job)
    BY DEF Published
<1> HIDE DEF job
<1> QED
    BY <1>1, <1>2, JobSent DEF Books, JobsKept

LEMMA KeptDispatch ==
    ASSUME Books, NEW m \in Milestones, Dispatch(m)
    PROVE  JobsKept
<1> DEFINE job == NewJob(m, EventRetries, FALSE)
<1>1. job \in JobType
    BY ConstantsAssumption DEF NewJob, JobType
<1>2. jobs' = Append(jobs, job)
    BY DEF Dispatch
<1> HIDE DEF job
<1> QED
    BY <1>1, <1>2, JobSent DEF Books, JobsKept

LEMMA KeptPutBack ==
    ASSUME Books, NEW j \in DOMAIN jobs, NEW end \in {"failed", "expired"},
           jobs' = [jobs EXCEPT ![j] = PutBack(@, end)]
    PROVE  JobsKept
<1> DEFINE job == PutBack(jobs[j], end)
<1>1. job \in JobType /\ job.milestone = jobs[j].milestone
  <2>1. jobs[j] \in JobType
    BY DEF Books, Types
  <2> QED
    BY <2>1 DEF PutBack, JobType
<1> HIDE DEF job
<1> QED
    BY <1>1, KeptJob DEF job

LEMMA Kept ==
    ASSUME UNCHANGED jobs
    PROVE  JobsKept
BY DEF JobsKept

LEMMA SettleKept ==
    ASSUME Books, NEW p \in Processes, Settle(p)
    PROVE  JobsKept
<1>1. PICK j \in DOMAIN jobs : j = Run(p).job /\ jobs[j] \in JobType
  <2>1. runs[p] # <<>>
    BY DEF Settle, Running
  <2> QED
    BY <2>1, HeadRun DEF Books
<1>2. CASE jobs' = [jobs EXCEPT ![j] = [jobs[j] EXCEPT !.state = "completed"]]
  <2> DEFINE job == [jobs[j] EXCEPT !.state = "completed"]
  <2>1. job \in JobType /\ job.milestone = jobs[j].milestone
    BY <1>1 DEF JobType
  <2> HIDE DEF job
  <2>2. jobs' = [jobs EXCEPT ![j] = job]
    BY <1>2 DEF job
  <2> QED
    BY <2>1, <2>2, KeptJob
<1>3. CASE jobs' = [jobs EXCEPT ![j] = PutBack(@, "failed")]
    BY <1>3, KeptPutBack
<1> QED
    BY <1>1, <1>2, <1>3, Kept DEF Settle

\* The handler's own steps, one lemma for those that write or act and one for the others.
LEMMA ActTruth ==
    ASSUME Books, Truth, NEW p \in Processes, UNCHANGED scenario,
           Upsert(p) \/ Execute(p) \/ CheckTransition(p) \/ WriteTransition(p)
    PROVE  Truth'
<1>0. runs[p] # <<>> /\ StepOf(p) = Run(p).step
    BY DEF Upsert, Execute, CheckTransition, WriteTransition, Running, StepOf
<1>1. /\ Run(p) \in RunType /\ MilestoneOf(p) \in Milestones /\ RecordOf(p) \in Record
      /\ MaxAttempts \in Nat \ {0} /\ Waiting /\ Accounted
    BY <1>0, HeadRun, ConstantsAssumption DEF Books, Truth
<1>2. PICK own \in Milestones : own = MilestoneOf(p)
    BY <1>1
<1>3. JobsKept
    BY Kept DEF Upsert, Execute, CheckTransition, WriteTransition
<1>4. ASSUME NEW step \in Steps, Goto(p, step)
      PROVE  /\ StepOf(p)' = step /\ MilestoneOf(p)' = MilestoneOf(p)
             /\ \A q \in Processes : q # p => SameRunning(q)
             /\ Waiting'
    BY <1>0, <1>1, <1>3, <1>4, GotoRuns
<1>5. UNCHANGED records => records' = [records EXCEPT ![MilestoneOf(p)] = RecordOf(p)]
    BY <1>1 DEF Books, Types, RecordOf
<1>6. /\ RecordOf(p).status # "pending"
      /\ RecordOf(p).status = "succeeded" => effects[MilestoneOf(p)] > 0
      /\ StepOf(p) \in {"succeed", "succeeding"} => effects[MilestoneOf(p)] > 0
    BY <1>1 DEF Accounted, SucceededMeansDone, RecordOf
<1>7. effects[MilestoneOf(p)] \in Nat
    BY <1>1 DEF Books, Types
<1>8. UNCHANGED effects => /\ effects' \in [Milestones -> Nat]
                           /\ \A m \in Milestones : effects'[m] >= effects[m]
    BY DEF Books, Types
<1>9. CASE Upsert(p)
  <2>1. InitialRecord(Run(p)) \in Record /\ InitialRecord(Run(p)).status # "pending"
        /\ InitialRecord(Run(p)).status # "succeeded"
    BY <1>1, WrittenTypes DEF InitialRecord
  <2>2. /\ StepOf(p)' = "execute" /\ MilestoneOf(p)' = MilestoneOf(p)
        /\ \A q \in Processes : q # p => SameRunning(q)
        /\ Waiting'
    BY <1>4, <1>9 DEF Upsert, Steps
  <2>3. records' = [records EXCEPT ![MilestoneOf(p)] = InitialRecord(Run(p))]
    BY <1>9 DEF Upsert
  <2>4. UNCHANGED <<effects, requests>>
    BY <1>9 DEF Upsert
  <2>5. Accounted'
    BY <1>0, <1>1, <1>8, <2>1, <2>2, <2>3, <2>4, ActAccounted DEF Acting
  <2> QED
    BY <2>2, <2>5 DEF Truth
<1>10. CASE Execute(p)
  <2>0. UNCHANGED <<records, requests>>
    BY <1>10 DEF Execute
  <2>1. CASE Goto(p, "succeed") /\ effects' = [effects EXCEPT ![MilestoneOf(p)] = @ + 1]
    <3>1. /\ StepOf(p)' = "succeed" /\ MilestoneOf(p)' = MilestoneOf(p)
          /\ \A q \in Processes : q # p => SameRunning(q)
          /\ Waiting'
      BY <1>4, <2>1 DEF Steps
    <3>2. /\ effects' \in [Milestones -> Nat]
          /\ \A m \in Milestones : effects'[m] >= effects[m]
          /\ effects'[MilestoneOf(p)] > 0
      <4>1. effects' = [effects EXCEPT ![own] = effects[own] + 1]
        BY <1>2, <2>1
      <4>2. \A m \in Milestones : effects[m] \in Nat
        BY DEF Books, Types
      <4>3. \A m \in Milestones : effects'[m] = IF m = own THEN effects[own] + 1 ELSE effects[m]
        BY <4>1 DEF Books, Types
      <4>4. effects' \in [Milestones -> Nat]
        BY <4>1, <4>2 DEF Books, Types
      <4> QED
        BY <1>2, <4>2, <4>3, <4>4
    <3>3. Accounted'
      BY <1>0, <1>1, <1>5, <1>6, <2>0, <3>1, <3>2, ActAccounted DEF Acting
    <3> QED
      BY <3>1, <3>3 DEF Truth
  <2>2. CASE Goto(p, "fail") /\ UNCHANGED effects
    <3>1. /\ StepOf(p)' = "fail" /\ MilestoneOf(p)' = MilestoneOf(p)
          /\ \A q \in Processes : q # p => SameRunning(q)
          /\ Waiting'
      BY <1>4, <2>2 DEF Steps
    <3>3. Accounted'
      BY <1>0, <1>1, <1>5, <1>6, <1>8, <2>0, <2>2, <3>1, ActAccounted DEF Acting
    <3> QED
      BY <3>1, <3>3 DEF Truth
  <2> QED
    BY <1>10, <2>1, <2>2 DEF Execute
<1>11. CASE CheckTransition(p)
  <2>0. UNCHANGED <<records, requests, effects>>
    BY <1>11 DEF CheckTransition
  <2>1. CASE Running(p, "succeed")
    <3>0. PICK step \in {"succeeding", "fail"} : Goto(p, step)
      BY <1>11, <2>1 DEF CheckTransition, Running
    <3>1. /\ StepOf(p)' = step /\ MilestoneOf(p)' = MilestoneOf(p)
          /\ \A q \in Processes : q # p => SameRunning(q)
          /\ Waiting'
      BY <1>4, <3>0 DEF Steps
    <3>2. effects'[MilestoneOf(p)] > 0
      BY <1>0, <1>6, <2>0, <2>1 DEF Running, Run
    <3>3. Accounted'
      BY <1>0, <1>1, <1>5, <1>6, <1>8, <2>0, <3>0, <3>1, <3>2, ActAccounted DEF Acting
    <3> QED
      BY <3>1, <3>3 DEF Truth
  <2>2. CASE Running(p, "fail")
    <3>0. PICK step \in {"failing", "throw"} :
             /\ Goto(p, step)
             /\ step = "throw" => ~CanTransition(RecordOf(p).status, FailureRecord(Run(p)).status)
      BY <1>11, <2>2 DEF CheckTransition, Running
    <3>1. /\ StepOf(p)' = step /\ MilestoneOf(p)' = MilestoneOf(p)
          /\ \A q \in Processes : q # p => SameRunning(q)
          /\ Waiting'
      BY <1>4, <3>0 DEF Steps
    <3>2. \/ step = "failing"
          \/ RecordOf(p).status = "succeeded"
          \/ RecordOf(p) = NoRecord
      <4>1. RecordOf(p) = NoRecord \/ RecordOf(p).status \in Statuses
        BY <1>1 DEF Record
      <4>2. FailureRecord(Run(p)).status \in {"needs_attention", "retrying"}
        BY DEF FailureRecord
      <4> QED
        BY <1>6, <3>0, <4>1, <4>2 DEF Statuses, CanTransition, transitionGraph
    <3>3. \/ step \in Acting
          \/ RecordOf(p).attempts < MaxAttempts
          \/ RecordOf(p).status \in {"succeeded", "needs_attention"}
      BY <1>1, <3>2 DEF NoRecord, Acting
    <3>4. Accounted'
      BY <1>0, <1>1, <1>5, <1>6, <1>8, <2>0, <3>0, <3>1, <3>3, ActAccounted
    <3> QED
      BY <3>1, <3>4 DEF Truth
  <2> QED
    BY <1>11, <2>1, <2>2 DEF CheckTransition
<1>12. CASE WriteTransition(p)
  <2>0. UNCHANGED <<requests, effects>>
    BY <1>12 DEF WriteTransition
  <2>1. CASE Running(p, "succeeding")
    <3> DEFINE record == [status |-> "succeeded", attempts |-> Run(p).tracked]
    <3>0. /\ records' = [records EXCEPT ![MilestoneOf(p)] = record] /\ Goto(p, "done")
          /\ record \in Record /\ record.status = "succeeded"
      BY <1>1, <1>12, <2>1, WrittenTypes DEF WriteTransition, Running
    <3> HIDE DEF record
    <3>1. /\ StepOf(p)' = "done" /\ MilestoneOf(p)' = MilestoneOf(p)
          /\ \A q \in Processes : q # p => SameRunning(q)
          /\ Waiting'
      BY <1>4, <3>0 DEF Steps
    <3>2. effects'[MilestoneOf(p)] > 0
      BY <1>0, <1>6, <2>0, <2>1 DEF Running, Run
    <3>3. Accounted'
      BY <1>0, <1>1, <1>8, <2>0, <3>0, <3>1, <3>2, ActAccounted
    <3> QED
      BY <3>1, <3>3 DEF Truth
  <2>2. CASE Running(p, "failing")
    <3> DEFINE record == FailureRecord(Run(p))
    <3>0. /\ records' = [records EXCEPT ![MilestoneOf(p)] = record] /\ Goto(p, "throw")
          /\ record \in Record
      BY <1>1, <1>12, <2>2, WrittenTypes DEF WriteTransition, Running
    <3>1. /\ record.status \in {"needs_attention", "retrying"}
          /\ record.attempts < MaxAttempts \/ record.status = "needs_attention"
      <4>1. Run(p).tracked \in Nat
        BY <1>1 DEF RunType
      <4> QED
        BY <1>1, <4>1 DEF FailureRecord
    <3> HIDE DEF record
    <3>2. /\ StepOf(p)' = "throw" /\ MilestoneOf(p)' = MilestoneOf(p)
          /\ \A q \in Processes : q # p => SameRunning(q)
          /\ Waiting'
      BY <1>4, <3>0 DEF Steps
    <3>3. Accounted'
      BY <1>0, <1>1, <1>8, <2>0, <3>0, <3>1, <3>2, ActAccounted
    <3> QED
      BY <3>2, <3>3 DEF Truth
  <2> QED
    BY <1>12, <2>1, <2>2 DEF WriteTransition
<1> QED
    BY <1>9, <1>10, <1>11, <1>12

LEMMA PassTruth ==
    ASSUME Books, Truth, NEW p \in Processes, UNCHANGED scenario,
           Defer(p) \/ Begin(p) \/ Reschedule(p) \/ Settle(p)
    PROVE  Truth'
<1>0. /\ runs[p] # <<>> /\ StepOf(p) = Run(p).step
      /\ UNCHANGED <<records, effects, requests>>
    BY DEF Defer, Begin, Reschedule, Settle, Running, StepOf
<1>1. /\ Run(p) \in RunType /\ MilestoneOf(p) \in Milestones /\ RecordOf(p).attempts \in Nat
      /\ Run(p).job \in DOMAIN jobs /\ jobs[Run(p).job] \in JobType
      /\ Waiting /\ Accounted
    BY <1>0, HeadRun DEF Books, Truth
<1>2. /\ effects' \in [Milestones -> Nat] /\ \A m \in Milestones : effects'[m] >= effects[m]
      /\ Undisturbed => requests' = {}
    BY <1>0, <1>1 DEF Books, Types, Accounted
<1>3. StepOf(p) \notin Acting
    BY <1>0 DEF Defer, Begin, Reschedule, Settle, Running, Run, Acting
<1>4. SUFFICES /\ StepOf(p)' \in {"none", "begin", "reschedule", "done", "upsert"}
               /\ \A q \in Processes : q # p => SameRunning(q)
               /\ Waiting'
  <2>1. \A q \in Processes : \/ SameRunning(q)
                             \/ /\ StepOf(q)' \notin {"succeed", "succeeding"}
                                /\ Undisturbed => StepOf(q) \notin Acting
    BY <1>3, <1>4
  <2>2. Accounted'
    BY <1>0, <1>1, <1>2, <2>1, StillAccounted
  <2> QED
    BY <1>4, <2>2 DEF Truth
<1>5. CASE Defer(p)
  <2>1. JobsKept
    BY <1>5, Kept DEF Defer
  <2> QED
    BY <1>0, <1>1, <1>5, <2>1, GotoRuns DEF Defer, Steps
<1>6. CASE Begin(p)
  <2>1. JobsKept
    BY <1>6, Kept DEF Begin
  <2> DEFINE r == IF AlreadyProcessed(RecordOf(p))
                  THEN [Run(p) EXCEPT !.step = "done"]
                  ELSE [Run(p) EXCEPT !.step = "upsert",
                           !.tracked = TrackedAttempts(RecordOf(p), Run(p).attempt)]
  <2>2. TrackedAttempts(RecordOf(p), Run(p).attempt) \in Nat
    BY <1>1 DEF TrackedAttempts, Larger, RunType
  <2>3. /\ r \in RunType /\ r.job = Run(p).job /\ r.abandoned = Run(p).abandoned
        /\ r.step \in {"done", "upsert"}
    BY <1>1, <2>2 DEF RunType, Steps
  <2>4. HeadSteps(p, r)
    BY <1>0, <1>6, <2>3 DEF Begin, HeadSteps, Replaces, Run
  <2> HIDE DEF r
  <2>5. StepOf(p)' = r.step /\ (\A q \in Processes : q # p => SameRunning(q)) /\ Waiting'
    BY <1>1, <2>1, <2>3, <2>4, HeadRuns
  <2> QED
    BY <2>3, <2>5
<1>7. CASE Reschedule(p)
  <2>1. JobsKept
    BY <1>1, <1>7, Kept, KeptSent DEF Reschedule
  <2> QED
    BY <1>0, <1>1, <1>7, <2>1, GotoRuns DEF Reschedule, Steps
<1>8. CASE Settle(p)
  <2>1. JobsKept
    BY <1>8, SettleKept
  <2> QED
    BY <1>0, <1>1, <1>8, <2>1, LeaveRuns DEF Settle
<1> QED
    BY <1>5, <1>6, <1>7, <1>8

LEMMA FetchKept ==
    ASSUME Books, NEW p \in Processes, NEW j \in DOMAIN jobs, Fetch(p, j)
    PROVE  JobsKept
<1>1. jobs[j] \in JobType /\ jobs[j].state \in {"created", "retry"}
    BY DEF Books, Types, Fetch
<1> DEFINE job == Fetched(jobs[j])
<1>2. job \in JobType /\ job.milestone = jobs[j].milestone
  <2>1. PICK old \in JobType : old = jobs[j]
    BY <1>1
  <2>2. PICK retries \in Nat : retries = IF old.state = "retry" THEN old.retries + 1
                                          ELSE old.retries
    BY <2>1 DEF JobType
  <2>3. job = [old EXCEPT !.state = "active", !.retries = retries]
    BY <2>1, <2>2 DEF Fetched
  <2> HIDE DEF job
  <2> QED
    BY <2>1, <2>2, <2>3 DEF JobType
<1> HIDE DEF job
<1>3. jobs' = [jobs EXCEPT ![j] = job]
    BY DEF Fetch, job
<1> QED
    BY <1>2, <1>3, KeptJob

LEMMA FetchTruth ==
    ASSUME Books, Truth, NEW p \in Processes, NEW j \in DOMAIN jobs, Fetch(p, j),
           UNCHANGED scenario
    PROVE  Truth'
<1>1. JobsKept
    BY FetchKept
<1>2. /\ IF StepOf(p) = "none" THEN StepOf(p)' = "begin" ELSE SameRunning(p)
      /\ \A q \in Processes : q # p => SameRunning(q)
      /\ Waiting'
    BY <1>1, FetchRuns DEF Truth
<1>3. \A q \in Processes : \/ SameRunning(q)
                           \/ /\ StepOf(q)' \notin {"succeed", "succeeding"}
                              /\ Undisturbed => StepOf(q) \notin Acting
    BY <1>2 DEF Acting
<1>4. UNCHANGED <<records, effects, requests>>
    BY DEF Fetch
<1>5. /\ effects' \in [Milestones -> Nat] /\ \A m \in Milestones : effects'[m] >= effects[m]
      /\ (Undisturbed => requests' = {}) /\ Accounted
    BY <1>4 DEF Books, Types, Truth, Accounted
<1>6. Accounted'
    BY <1>3, <1>4, <1>5, StillAccounted
<1> QED
    BY <1>2, <1>6 DEF Truth

\* Every process goes on with what it runs, and no record is written.
LEMMA SameTruth ==
    ASSUME Books, Truth, UNCHANGED <<records, effects, scenario>>, Undisturbed => requests' = {},
           Waiting', \A q \in Processes : SameRunning(q)
    PROVE  Truth'
<1>1. effects' \in [Milestones -> Nat] /\ \A m \in Milestones : effects'[m] >= effects[m]
    BY DEF Books, Types
<1>2. Accounted'
    BY <1>1, StillAccounted DEF Truth
<1> QED
    BY <1>2 DEF Truth

LEMMA IdleTruth ==
    ASSUME Books, Truth, UNCHANGED <<records, effects, runs, scenario>>,
           Undisturbed => requests' = {}, JobsKept
    PROVE  Truth'
<1>1. Waiting'
    BY DEF Truth, Waiting
<1>2. \A q \in Processes : SameRunning(q)
    BY RunningKept
<1> QED
    BY <1>1, <1>2, SameTruth

LEMMA ExpiryTruth ==
    ASSUME Books, Truth, UNCHANGED scenario, NEW p \in Processes, NEW i \in DOMAIN runs[p],
           Expire(p, i)
    PROVE  Truth'
<1>1. JobsKept
  <2>1. runs[p][i].job \in DOMAIN jobs
    BY DEF Books, Types
  <2> QED
    BY <2>1, KeptPutBack DEF Expire
<1>2. Waiting' /\ \A q \in Processes : SameRunning(q)
    BY <1>1, ExpireRuns DEF Truth
<1> QED
    BY <1>2, SameTruth DEF Expire, Truth, Accounted

\* What is budgeted at zero does not happen.
LEMMA NotSpent ==
    ASSUME Books, Undisturbed, NEW what \in {"retry", "pause", "crash", "fault"}
    PROVE  ~Spend(what)
<1>1. spent[what] \in Nat
    BY DEF Books, Types, Spending
<1> QED
    BY <1>1 DEF Spend, Undisturbed

LEMMA FaultTruth ==
    ASSUME Books, Truth, UNCHANGED scenario, NEW p \in Processes, StorageFault(p) \/ Crash(p)
    PROVE  Truth'
<1>0. ~Undisturbed
    BY NotSpent DEF StorageFault, Crash
<1>1. JobsKept
    BY Kept DEF StorageFault, Crash
<1>2. /\ StepOf(p)' \notin {"succeed", "succeeding"}
      /\ \A q \in Processes : q # p => SameRunning(q)
      /\ Waiting'
  <2>1. CASE StorageFault(p)
    <3>1. runs[p] # <<>> /\ Run(p).step \in Steps
      BY <2>1, HeadRun DEF StorageFault, Books, RunType
    <3>2. /\ Handler(Run(p).step) \in Steps
          /\ Handler(Run(p).step) \notin {"succeed", "succeeding"}
      BY <3>1, <2>1 DEF Handler, Steps, StorageFault
    <3> QED
      BY <1>1, <2>1, <3>1, <3>2, GotoRuns DEF StorageFault, Truth
  <2>2. CASE Crash(p)
    <3>1. runs'[p] = <<>> /\ \A q \in Processes : q # p => runs'[q] = runs[q]
      BY <2>2 DEF Crash, Books, Types
    <3>2. StepOf(p)' = "none"
      BY <3>1 DEF StepOf
    <3>3. \A q \in Processes : q # p => SameRunning(q)
      BY <1>1, <3>1, RunningKept
    <3>4. Waiting'
      BY <3>1 DEF Waiting, Truth
    <3> QED
      BY <3>2, <3>3, <3>4
  <2> QED
    BY <2>1, <2>2
<1>3. \A q \in Processes : \/ SameRunning(q)
                           \/ /\ StepOf(q)' \notin {"succeed", "succeeding"}
                              /\ Undisturbed => StepOf(q) \notin Acting
    BY <1>0, <1>2
<1>4. UNCHANGED <<records, effects>>
    BY DEF StorageFault, Crash
<1>5. /\ effects' \in [Milestones -> Nat] /\ \A m \in Milestones : effects'[m] >= effects[m]
      /\ Accounted
    BY <1>4 DEF Books, Types, Truth
<1>6. Accounted'
    BY <1>0, <1>3, <1>4, <1>5, StillAccounted
<1> QED
    BY <1>2, <1>6 DEF Truth

\* An operator's retry says no more than "retrying", and only in a disturbed run.
LEMMA RetryTruth ==
    ASSUME Books, Truth, UNCHANGED scenario, NEW r \in requests, RetryWrite(r)
    PROVE  Truth'
<1>0. ~Undisturbed /\ ~Undisturbed'
    BY DEF Truth, Accounted, Undisturbed
<1>1. r.milestone \in Milestones
    BY DEF Books, Types, RequestType
<1>2. \A q \in Processes : SameRunning(q)
    BY RunningKept, Kept DEF RetryWrite
<1>3. Waiting'
    BY DEF Waiting, Truth, RetryWrite
<1>4. \A m \in Milestones : records'[m].status # records[m].status => records'[m].status = "retrying"
    BY <1>1 DEF RetryWrite, Books, Types
<1>5. Accounted'
  <2>1. SucceededMeansDone'
    BY <1>4 DEF SucceededMeansDone, Truth, Accounted, RetryWrite
  <2>2. \A m \in Milestones : records'[m].status # "pending"
    BY <1>4 DEF Truth, Accounted
  <2>3. ASSUME NEW q \in Processes, StepOf(q)' \in {"succeed", "succeeding"}
        PROVE  effects'[MilestoneOf(q)'] > 0
    <3>1. StepOf(q) = StepOf(q)' /\ MilestoneOf(q)' = MilestoneOf(q)
      BY <1>2, <2>3 DEF SameRunning
    <3>2. PICK m : m = MilestoneOf(q) /\ MilestoneOf(q)' = m
      BY <3>1
    <3> QED
      BY <2>3, <3>1, <3>2 DEF Truth, Accounted, RetryWrite
  <2> QED
    BY <1>0, <2>1, <2>2, <2>3 DEF Accounted
<1> QED
    BY <1>3, <1>5 DEF Truth

LEMMA TruthStep ==
    ASSUME Books, Truth, [Next]_vars
    PROVE  Truth'
<1>1. CASE UNCHANGED vars
  <2>1. JobsKept /\ (Undisturbed => requests' = {})
    BY <1>1, Kept DEF vars, Truth, Accounted
  <2> QED
    BY <1>1, <2>1, IdleTruth DEF vars
<1>2. CASE Next
  <2>0. UNCHANGED scenario /\ Step /\ scenario.processes \subseteq Processes
    BY <1>2, ConstantsAssumption DEF Next, Books, Types, Scenario
  <2>1. ASSUME NEW p \in Processes, Handle(p) PROVE Truth'
    BY <2>0, <2>1, ActTruth, PassTruth DEF Handle
  <2>2. ASSUME NEW p \in Processes, Poll(p) \/ Disturb(p) PROVE Truth'
    BY <2>0, <2>2, FetchTruth, FaultTruth, ExpiryTruth DEF Poll, Disturb
  <2>3. CASE Maintain
    <3>1. PICK j \in DOMAIN jobs : ExpireLost(j)
      BY <2>3 DEF Maintain
    <3>2. JobsKept
      BY <3>1, KeptPutBack DEF ExpireLost
    <3> QED
      BY <2>0, <3>1, <3>2, IdleTruth DEF ExpireLost, Truth, Accounted
  <2>4. ASSUME NEW m \in Milestones, Dispatch(m) PROVE Truth'
    BY <2>0, <2>4, KeptDispatch, IdleTruth DEF Dispatch, Truth, Accounted
  <2>5. ASSUME NEW p \in Processes, NEW mode \in BOOLEAN, SetContestMode(p, mode) PROVE Truth'
    BY <2>0, <2>5, Kept, IdleTruth DEF SetContestMode, Truth, Accounted
  <2>6. ASSUME NEW p \in Processes, NEW m \in Milestones, RetryMilestone(p, m) PROVE Truth'
    <3>1. ~Undisturbed
      BY <2>6, NotSpent DEF RetryMilestone
    <3> QED
      BY <2>0, <2>6, <3>1, Kept, IdleTruth DEF RetryMilestone
  <2>7. ASSUME NEW r \in requests, RetryPublish(r) \/ RetryCheck(r) PROVE Truth'
    <3>1. ~Undisturbed
      BY DEF Truth, Accounted
    <3>2. r.milestone \in Milestones
      BY DEF Books, Types, RequestType
    <3>3. JobsKept
      BY <2>7, <3>2, Kept, KeptSent DEF RetryPublish, RetryCheck
    <3> QED
      BY <2>0, <2>7, <3>1, <3>3, IdleTruth DEF RetryPublish, RetryCheck
  <2>8. ASSUME NEW r \in requests, RetryWrite(r) PROVE Truth'
    BY <2>0, <2>8, RetryTruth
  <2> QED
    BY <2>0, <2>1, <2>2, <2>3, <2>4, <2>5, <2>6, <2>7, <2>8 DEF Step, Serve
<1> QED
    BY <1>1, <1>2

LEMMA InitTruth ==
    ASSUME Init
    PROVE  Truth
<1>1. \A p \in Processes : StepOf(p) = "none" /\ runs[p] = <<>>
    BY DEF Init, StepOf
<1>2. \A m \in Milestones : records[m] = NoRecord
    BY DEF Init
<1>3. \A m \in Milestones : ~Unmarked(m)
    BY <1>2, ConstantsAssumption DEF Unmarked, NoRecord
<1> QED
    BY <1>1, <1>2, <1>3 DEF Init, Truth, Waiting, Accounted, SucceededMeansDone, NoRecord
----------------------------------------------------------------------------
(* One process alone: what a repetition costs, and that no attempt is lost   *)

Writing == Acting \cup {"upsert"}

\* The milestone is done, or its handler is about to say so.
Success(p, m) == \/ records[m].status = "succeeded"
                 \/ StepOf(p) \in {"succeed", "succeeding"} /\ MilestoneOf(p) = m

Paid == spent["fault"] + spent["crash"] + spent["retry"]

Single(p) == \A q \in Processes : q # p => runs[q] = <<>>

\* The record was open when the handler looked, and nobody else closes it.
Guarded(p) ==
    /\ StepOf(p) = "upsert" => RecordOf(p).status # "succeeded"
    /\ StepOf(p) \in Acting => RecordOf(p).status \in {"in_progress", "retrying"}

\* Each execution past the one that counts, and each retry that may still reopen
\* the record, was paid for.
Within(p) ==
    \A m \in Milestones :
        effects[m] + Cardinality(requests) <= (IF Success(p, m) THEN 1 ELSE 0) + Paid

Counted(p) ==
    spent["retry"] = 0 =>
        /\ requests = {}
        /\ StepOf(p) \in Writing => Run(p).tracked >= RecordOf(p).attempts

SerialAt(p) == Single(p) /\ Guarded(p) /\ Within(p) /\ Counted(p)

Serial ==
    /\ IsFiniteSet(requests)
    /\ \A p \in Processes : scenario.processes = {p} => SerialAt(p)

LEMMA PaidType ==
    ASSUME Books
    PROVE  /\ Paid \in Nat /\ spent["retry"] \in Nat /\ spent["fault"] \in Nat
           /\ spent["crash"] \in Nat
BY DEF Books, Types, Spending, Paid

\* Nothing takes effect, no retry is added; a success given up is paid for.
LEMMA WithinKept ==
    ASSUME Books, Books', IsFiniteSet(requests), NEW p \in Processes, Within(p),
           UNCHANGED effects, requests' \subseteq requests, Paid' >= Paid,
           \A m \in Milestones : Success(p, m) => Success(p, m)' \/ Paid' >= Paid + 1
    PROVE  IsFiniteSet(requests') /\ Within(p)'
<1>1. /\ IsFiniteSet(requests') /\ Cardinality(requests') <= Cardinality(requests)
      /\ Cardinality(requests') \in Nat /\ Cardinality(requests) \in Nat
    BY FS_Subset, FS_CardinalityType
<1>2. Paid \in Nat /\ Paid' \in Nat
  <2>1. spent' \in [Spending -> Nat]
    BY DEF Books, Types
  <2> QED
    BY <2>1, PaidType DEF Paid, Spending
<1>3. ASSUME NEW m \in Milestones
      PROVE  effects'[m] + Cardinality(requests')
                <= (IF Success(p, m)' THEN 1 ELSE 0) + Paid'
  <2>1. PICK n \in Nat : n = effects[m] /\ n = effects'[m]
    BY DEF Books, Types
  <2>2. n + Cardinality(requests) <= (IF Success(p, m) THEN 1 ELSE 0) + Paid
    BY <2>1 DEF Within
  <2>3. Success(p, m) => Success(p, m)' \/ Paid' >= Paid + 1
    OBVIOUS
  <2>4. CASE Success(p, m)
    <3>1. n + Cardinality(requests) <= 1 + Paid
      BY <2>2, <2>4
    <3>2. CASE Success(p, m)'
      BY <1>1, <1>2, <2>1, <3>1, <3>2
    <3>3. CASE ~Success(p, m)'
      BY <1>1, <1>2, <2>1, <2>3, <2>4, <3>1, <3>3
    <3> QED
      BY <3>2, <3>3
  <2>5. CASE ~Success(p, m)
    <3>1. n + Cardinality(requests) <= Paid
      BY <1>1, <1>2, <2>2, <2>5
    <3>2. n + Cardinality(requests') <= Paid'
      BY <1>1, <1>2, <3>1
    <3> QED
      BY <1>1, <1>2, <2>1, <3>2
  <2> QED
    BY <2>4, <2>5
<1> QED
    BY <1>1, <1>3 DEF Within

\* The handler at the head goes on with its milestone and its count.
Follows(p) ==
    /\ MilestoneOf(p)' = MilestoneOf(p) /\ Run(p)'.tracked = Run(p).tracked
    /\ \/ StepOf(p) \in Acting /\ StepOf(p)' \in Acting
       \/ StepOf(p)' = StepOf(p)

LEMMA SerialKept ==
    ASSUME Books, Books', IsFiniteSet(requests), NEW p \in Processes, SerialAt(p), Single(p)',
           UNCHANGED <<records, effects>>, requests' \subseteq requests,
           Paid' >= Paid, spent'["retry"] >= spent["retry"],
           StepOf(p)' \notin Writing \/ Follows(p),
           StepOf(p) \in {"succeed", "succeeding"} =>
              Paid' >= Paid + 1 \/ (Follows(p) /\ StepOf(p)' \in {"succeed", "succeeding"})
    PROVE  SerialAt(p)'
<1>1. Within(p)'
  <2>1. ASSUME NEW m \in Milestones, Success(p, m) PROVE Success(p, m)' \/ Paid' >= Paid + 1
    BY <2>1 DEF Success, Follows
  <2> QED
    BY <2>1, WithinKept DEF SerialAt
<1>2. CASE StepOf(p)' \notin Writing
  <2>1. Guarded(p)'
    BY <1>2 DEF Guarded, Writing
  <2>2. Counted(p)'
    <3>1. spent'["retry"] = 0 => spent["retry"] = 0
      BY PaidType
    <3> QED
      BY <1>2, <3>1 DEF Counted, SerialAt
  <2> QED
    BY <1>1, <2>1, <2>2 DEF SerialAt
<1>3. CASE Follows(p) /\ StepOf(p)' \in Writing
  <2>0. PICK m \in Milestones : m = MilestoneOf(p) /\ m = MilestoneOf(p)'
    <3>1. runs[p] # <<>>
      BY <1>3 DEF Follows, StepOf, Writing, Acting
    <3> QED
      BY <1>3, <3>1, HeadRun DEF Follows, Books
  <2>1. RecordOf(p)' = RecordOf(p)
    BY <2>0 DEF RecordOf
  <2>2. Guarded(p)'
    BY <1>3, <2>1 DEF Guarded, Writing, Follows, SerialAt, Acting
  <2>3. Counted(p)'
    <3>1. spent'["retry"] = 0 => spent["retry"] = 0
      BY PaidType
    <3>2. StepOf(p) \in Writing
      BY <1>3 DEF Follows, Writing
    <3> QED
      BY <1>3, <2>1, <3>1, <3>2 DEF Counted, SerialAt, Follows
  <2> QED
    BY <1>1, <2>2, <2>3 DEF SerialAt
<1> QED
    BY <1>2, <1>3

\* The handler's own steps in the process that is alone.
LEMMA HeadSerial ==
    ASSUME Books, Books', Truth, IsFiniteSet(requests), NEW p \in Processes, SerialAt(p),
           UNCHANGED scenario,
           Defer(p) \/ Begin(p) \/ CheckTransition(p) \/ Reschedule(p) \/ StorageFault(p)
    PROVE  SerialAt(p)'
<1>0. runs[p] # <<>> /\ StepOf(p) = Run(p).step
    BY DEF Defer, Begin, CheckTransition, Reschedule, StorageFault, Running, StepOf
<1>1. /\ Run(p) \in RunType /\ MilestoneOf(p) \in Milestones
      /\ RecordOf(p).attempts \in Nat /\ Waiting
    BY <1>0, HeadRun DEF Books, Truth
<1>2. JobsKept
  <2>1. CASE Reschedule(p)
    BY <1>1, <2>1, Kept, KeptSent DEF Reschedule
  <2> QED
    BY <2>1, Kept DEF Defer, Begin, CheckTransition, StorageFault
<1>3. ASSUME NEW step \in Steps, Goto(p, step)
      PROVE  /\ StepOf(p)' = step /\ MilestoneOf(p)' = MilestoneOf(p)
             /\ Run(p)'.tracked = Run(p).tracked
    BY <1>0, <1>1, <1>2, <1>3, GotoRuns DEF RunType
<1>4. Single(p)'
  <2>1. \A q \in Processes : q # p => runs'[q] = runs[q]
    BY DEF Books, Types, Defer, Begin, CheckTransition, Reschedule, StorageFault, Goto
  <2> QED
    BY <2>1 DEF Single, SerialAt
<1>5. UNCHANGED <<records, effects, requests>>
    BY DEF Defer, Begin, CheckTransition, Reschedule, StorageFault
<1>6. CASE Defer(p) \/ Reschedule(p)
  <2>1. StepOf(p)' \notin Writing /\ StepOf(p) \notin {"succeed", "succeeding"}
    BY <1>0, <1>3, <1>6 DEF Defer, Reschedule, Running, Run, Steps, Writing, Acting
  <2>2. UNCHANGED spent
    BY <1>6 DEF Defer, Reschedule
  <2>3. Paid' >= Paid /\ spent'["retry"] >= spent["retry"]
    BY <2>2, PaidType DEF Paid
  <2> QED
    BY <1>4, <1>5, <2>1, <2>3, SerialKept
<1>7. CASE CheckTransition(p)
  <2>1. Guarded(p)
    BY DEF SerialAt
  <2>2. \/ StepOf(p) = "succeed" /\ Goto(p, "succeeding")
        \/ StepOf(p) = "fail" /\ Goto(p, "failing")
    <3>1. RecordOf(p).status \in {"in_progress", "retrying"}
      BY <1>0, <1>7, <2>1 DEF Guarded, CheckTransition, Running, Run, Acting
    <3>2. /\ CanTransition(RecordOf(p).status, "succeeded")
          /\ CanTransition(RecordOf(p).status, FailureRecord(Run(p)).status)
      BY <3>1 DEF CanTransition, transitionGraph, FailureRecord
    <3> QED
      BY <1>0, <1>7, <3>2 DEF CheckTransition, Running, Run
  <2>3. /\ Follows(p)
        /\ StepOf(p) \in {"succeed", "succeeding"} => StepOf(p)' \in {"succeed", "succeeding"}
    BY <1>3, <2>2 DEF Follows, Acting, Steps
  <2>4. UNCHANGED spent
    BY <1>7 DEF CheckTransition
  <2>5. Paid' >= Paid /\ spent'["retry"] >= spent["retry"]
    BY <2>4, PaidType DEF Paid
  <2> QED
    BY <1>4, <1>5, <2>3, <2>5, SerialKept
<1>8. CASE StorageFault(p)
  <2>1. spent'["retry"] = spent["retry"] /\ Paid' = Paid + 1
    BY <1>8, SpendType, PaidType DEF StorageFault, Spending, Books, Types, Paid
  <2>2. Paid' >= Paid /\ Paid' >= Paid + 1 /\ spent'["retry"] >= spent["retry"]
    BY <2>1, PaidType
  <2>3. StepOf(p)' \notin Writing \/ Follows(p)
    <3>1. Run(p).step \in Steps
      BY <1>1 DEF RunType
    <3>2. /\ Handler(Run(p).step) \in Steps
          /\ Handler(Run(p).step) \in Writing =>
                Run(p).step \in Acting /\ Handler(Run(p).step) \in Acting
      BY <3>1, <1>8 DEF Handler, Steps, StorageFault, Writing, Acting
    <3> QED
      BY <1>0, <1>3, <1>8, <3>2 DEF StorageFault, Follows
  <2> QED
    BY <1>4, <1>5, <2>2, <2>3, SerialKept
<1>9. CASE Begin(p)
  <2> DEFINE r == IF AlreadyProcessed(RecordOf(p))
                  THEN [Run(p) EXCEPT !.step = "done"]
                  ELSE [Run(p) EXCEPT !.step = "upsert",
                           !.tracked = TrackedAttempts(RecordOf(p), Run(p).attempt)]
  <2>1. TrackedAttempts(RecordOf(p), Run(p).attempt) \in Nat
        /\ TrackedAttempts(RecordOf(p), Run(p).attempt) >= RecordOf(p).attempts
    BY <1>1 DEF TrackedAttempts, Larger, RunType
  <2>2. /\ r \in RunType /\ r.job = Run(p).job /\ r.abandoned = Run(p).abandoned
        /\ r.step \in {"done", "upsert"}
        /\ r.step = "upsert" => RecordOf(p).status # "succeeded" /\ r.tracked >= RecordOf(p).attempts
    BY <1>1, <2>1 DEF RunType, Steps, AlreadyProcessed
  <2>3. HeadSteps(p, r)
    BY <1>0, <1>9, <2>2 DEF Begin, HeadSteps, Replaces, Run
  <2> HIDE DEF r
  <2>4. StepOf(p)' = r.step /\ MilestoneOf(p)' = MilestoneOf(p) /\ Run(p)' = r
    BY <1>1, <1>2, <2>2, <2>3, HeadRuns
  <2>5. UNCHANGED spent /\ StepOf(p) = "begin"
    BY <1>0, <1>9 DEF Begin, Running, Run
  <2>6. Paid' >= Paid /\ spent'["retry"] >= spent["retry"]
    BY <2>5, PaidType DEF Paid
  <2>7. CASE r.step = "done"
    BY <1>4, <1>5, <2>4, <2>5, <2>6, <2>7, SerialKept DEF Writing, Acting
  <2>8. CASE r.step = "upsert"
    <3>1. RecordOf(p)' = RecordOf(p)
      <4>1. PICK m \in Milestones : m = MilestoneOf(p) /\ m = MilestoneOf(p)'
        BY <1>1, <2>4
      <4> QED
        BY <1>5, <4>1 DEF RecordOf
    <3>2. Guarded(p)'
      BY <2>2, <2>4, <2>8, <3>1 DEF Guarded, Acting
    <3>3. Counted(p)'
      BY <1>5, <2>2, <2>4, <2>5, <2>8, <3>1 DEF Counted, SerialAt
    <3>4. Within(p)'
      <4>1. \A m \in Milestones : Success(p, m) => Success(p, m)'
        BY <1>5, <2>5 DEF Success
      <4> QED
        BY <1>5, <2>6, <4>1, WithinKept DEF SerialAt
    <3> QED
      BY <1>4, <3>2, <3>3, <3>4 DEF SerialAt
  <2> QED
    BY <2>2, <2>7, <2>8
<1> QED
    BY <1>6, <1>7, <1>8, <1>9

\* The handler writes the record of its milestone, or takes effect.
LEMMA WriteSerial ==
    ASSUME Books, Books', Truth, IsFiniteSet(requests), NEW p \in Processes, SerialAt(p),
           UNCHANGED scenario, Upsert(p) \/ Execute(p) \/ WriteTransition(p)
    PROVE  SerialAt(p)'
<1>0. runs[p] # <<>> /\ StepOf(p) = Run(p).step
    BY DEF Upsert, Execute, WriteTransition, Running, StepOf
<1>1. /\ Run(p) \in RunType /\ Run(p).tracked \in Nat /\ MilestoneOf(p) \in Milestones
      /\ Waiting /\ JobsKept
    BY <1>0, HeadRun, Kept DEF Books, Truth, RunType, Upsert, Execute, WriteTransition
<1>2. PICK own \in Milestones : own = MilestoneOf(p)
    BY <1>1
<1>3. ASSUME NEW step \in Steps, Goto(p, step)
      PROVE  /\ StepOf(p)' = step /\ MilestoneOf(p)' = own
             /\ Run(p)'.tracked = Run(p).tracked
    BY <1>0, <1>1, <1>2, <1>3, GotoRuns DEF RunType
<1>4. Single(p)'
  <2>1. \A q \in Processes : q # p => runs'[q] = runs[q]
    BY DEF Books, Types, Upsert, Execute, WriteTransition, Goto
  <2> QED
    BY <2>1 DEF Single, SerialAt
<1>5. UNCHANGED <<requests, spent>>
    BY DEF Upsert, Execute, WriteTransition
<1>6. Paid' >= Paid /\ Paid' = Paid /\ spent'["retry"] >= spent["retry"]
    BY <1>5, PaidType DEF Paid
<1>7. StepOf(p) \notin {"succeed", "succeeding"} => records[own].status # "succeeded"
    BY <1>0, <1>2 DEF SerialAt, Guarded, RecordOf, Upsert, Execute, WriteTransition,
       Running, Run, Acting
<1>8. CASE Upsert(p)
  <2> DEFINE record == InitialRecord(Run(p))
  <2>1. /\ StepOf(p) = "upsert" /\ StepOf(p)' = "execute" /\ MilestoneOf(p)' = own
        /\ Run(p)'.tracked = Run(p).tracked
    BY <1>0, <1>3, <1>8 DEF Upsert, Running, Run, Steps
  <2>2. /\ record.status \in {"in_progress", "retrying"} /\ record.attempts = Run(p).tracked
        /\ records' = [records EXCEPT ![own] = record]
    BY <1>2, <1>8 DEF Upsert, InitialRecord
  <2> HIDE DEF record
  <2>3. \A m \in Milestones : records'[m] = IF m = own THEN record ELSE records[m]
    BY <2>2 DEF Books, Types
  <2>4. RecordOf(p)' = record
    BY <2>1, <2>3 DEF RecordOf
  <2>5. Guarded(p)'
    BY <2>1, <2>2, <2>4 DEF Guarded
  <2>6. Counted(p)'
    BY <1>1, <1>5, <2>1, <2>2, <2>4 DEF Counted, SerialAt
  <2>7. ASSUME NEW m \in Milestones, Success(p, m) PROVE Success(p, m)'
    BY <1>7, <2>1, <2>3, <2>7 DEF Success
  <2>8. Within(p)'
    BY <1>5, <1>6, <1>8, <2>7, WithinKept DEF SerialAt, Upsert
  <2> QED
    BY <1>4, <2>5, <2>6, <2>8 DEF SerialAt
<1>9. CASE Execute(p)
  <2>1. StepOf(p) = "execute" /\ UNCHANGED records
    BY <1>0, <1>9 DEF Execute, Running, Run
  <2>2. CASE Goto(p, "fail") /\ UNCHANGED effects
    <3>1. Follows(p)
      BY <1>2, <1>3, <2>1, <2>2 DEF Follows, Acting, Steps
    <3> QED
      BY <1>4, <1>5, <1>6, <2>1, <2>2, <3>1, SerialKept
  <2>3. CASE Goto(p, "succeed") /\ effects' = [effects EXCEPT ![MilestoneOf(p)] = @ + 1]
    <3>1. /\ StepOf(p)' = "succeed" /\ MilestoneOf(p)' = own
          /\ Run(p)'.tracked = Run(p).tracked
      BY <1>3, <2>3 DEF Steps
    <3>2. RecordOf(p)' = RecordOf(p)
      BY <1>2, <2>1, <3>1 DEF RecordOf
    <3>3. Guarded(p)' /\ Counted(p)'
      BY <1>5, <2>1, <3>1, <3>2 DEF Guarded, Counted, SerialAt, Acting, Writing
    <3>4. ASSUME NEW m \in Milestones
          PROVE  effects'[m] + Cardinality(requests')
                    <= (IF Success(p, m)' THEN 1 ELSE 0) + Paid'
      <4>1. /\ effects[m] + Cardinality(requests) <= (IF Success(p, m) THEN 1 ELSE 0) + Paid
            /\ effects[m] \in Nat /\ Cardinality(requests) \in Nat /\ Paid \in Nat
        BY FS_CardinalityType, PaidType DEF SerialAt, Within, Books, Types
      <4>2. CASE m = own
        <5>1. ~Success(p, m) /\ Success(p, m)'
          BY <1>7, <2>1, <3>1, <4>2 DEF Success
        <5>2. effects'[m] = effects[m] + 1
          BY <1>2, <2>3, <4>2 DEF Books, Types
        <5> QED
          BY <1>5, <1>6, <4>1, <5>1, <5>2
      <4>3. CASE m # own
        <5>1. Success(p, m) => Success(p, m)'
          BY <2>1 DEF Success
        <5>2. effects'[m] = effects[m]
          BY <1>2, <2>3, <4>3 DEF Books, Types
        <5> QED
          BY <1>5, <1>6, <4>1, <5>1, <5>2
      <4> QED
        BY <4>2, <4>3
    <3>5. Within(p)'
      BY <3>4 DEF Within
    <3> QED
      BY <1>4, <3>3, <3>5 DEF SerialAt
  <2> QED
    BY <1>9, <2>2, <2>3 DEF Execute
<1>10. CASE WriteTransition(p)
  <2>0. UNCHANGED effects
    BY <1>10 DEF WriteTransition
  <2>1. PICK record \in Record :
           /\ records' = [records EXCEPT ![own] = record]
           /\ \/ /\ StepOf(p) = "succeeding" /\ Goto(p, "done")
                 /\ record.status = "succeeded"
              \/ StepOf(p) = "failing" /\ Goto(p, "throw")
    BY <1>0, <1>1, <1>2, <1>10, WrittenTypes, ConstantsAssumption
       DEF WriteTransition, Running, Run
  <2>2. StepOf(p)' \notin Writing
    BY <1>3, <2>1 DEF Writing, Acting, Steps
  <2>3. Guarded(p)' /\ Counted(p)'
    BY <1>5, <2>2 DEF Guarded, Counted, Writing, SerialAt
  <2>4. \A m \in Milestones : records'[m] = IF m = own THEN record ELSE records[m]
    BY <2>1 DEF Books, Types
  <2>5. ASSUME NEW m \in Milestones, Success(p, m) PROVE Success(p, m)'
    BY <1>2, <1>7, <2>1, <2>4, <2>5 DEF Success
  <2>6. Within(p)'
    BY <1>5, <1>6, <2>0, <2>5, WithinKept DEF SerialAt
  <2> QED
    BY <1>4, <2>3, <2>6 DEF SerialAt
<1> QED
    BY <1>8, <1>9, <1>10

\* A process drops its handler, takes a job behind it, or goes on with it.
LEMMA QueueSerial ==
    ASSUME Books, Books', Truth, IsFiniteSet(requests), NEW p \in Processes, SerialAt(p),
           UNCHANGED scenario,
           \/ Settle(p) \/ Crash(p) \/ Poll(p)
           \/ \E i \in DOMAIN runs[p] : Expire(p, i)
    PROVE  SerialAt(p)'
<1>1. Single(p)'
  <2>1. \A q \in Processes : q # p => runs'[q] = runs[q]
    BY DEF Books, Types, Settle, Leave, Crash, Poll, Fetch, Expire
  <2> QED
    BY <2>1 DEF Single, SerialAt
<1>2. UNCHANGED <<records, effects>> /\ requests' \subseteq requests
    BY DEF Settle, Crash, Poll, Fetch, Expire
<1>3. /\ Paid' >= Paid /\ spent'["retry"] >= spent["retry"]
      /\ Crash(p) => Paid' >= Paid + 1
  <2>1. CASE UNCHANGED spent /\ ~Crash(p)
    BY <2>1, PaidType DEF Paid
  <2>2. CASE Spend("crash")
    <3>1. spent'["retry"] = spent["retry"] /\ Paid' = Paid + 1
      BY <2>2, SpendType, PaidType DEF Spending, Books, Types, Paid
    <3> QED
      BY <3>1, PaidType
  <2>3. CASE Spend("expiry") /\ ~Crash(p)
    <3>1. spent'["retry"] = spent["retry"] /\ Paid' = Paid
      BY <2>3, SpendType, PaidType DEF Spending, Books, Types, Paid
    <3> QED
      BY <2>3, <3>1, PaidType
  <2> QED
    BY <2>1, <2>2, <2>3 DEF Settle, Crash, Poll, Fetch, Expire
<1>4. \/ SameRunning(p)
      \/ /\ StepOf(p)' \notin Writing
         /\ StepOf(p) \in {"succeed", "succeeding"} => Crash(p)
  <2>1. CASE Settle(p)
    <3>1. runs[p] # <<>> /\ StepOf(p) \in {"done", "throw"}
      BY <2>1 DEF Settle, Running, StepOf, Run
    <3>2. JobsKept
      BY <2>1, SettleKept
    <3>3. StepOf(p)' \in {"none", "begin"}
      BY <2>1, <3>1, <3>2, LeaveRuns DEF Settle, Truth
    <3> QED
      BY <3>1, <3>3 DEF Writing, Acting
  <2>2. CASE Crash(p)
    <3>1. runs'[p] = <<>>
      BY <2>2 DEF Crash, Books, Types
    <3> QED
      BY <2>2, <3>1 DEF StepOf, Writing, Acting
  <2>3. CASE Poll(p)
    <3>1. PICK j \in DOMAIN jobs : Fetch(p, j)
      BY <2>3 DEF Poll
    <3>2. JobsKept
      BY <3>1, FetchKept
    <3>3. IF StepOf(p) = "none" THEN StepOf(p)' = "begin" ELSE SameRunning(p)
      BY <3>1, <3>2, FetchRuns DEF Truth
    <3> QED
      BY <3>3 DEF Writing, Acting
  <2>4. ASSUME NEW i \in DOMAIN runs[p], Expire(p, i) PROVE SameRunning(p)
    <3>1. JobsKept
      <4>1. runs[p][i].job \in DOMAIN jobs
        BY DEF Books, Types
      <4> QED
        BY <2>4, <4>1, KeptPutBack DEF Expire
    <3> QED
      BY <2>4, <3>1, ExpireRuns DEF Truth
  <2> QED
    BY <2>1, <2>2, <2>3, <2>4
<1>5. CASE SameRunning(p)
  <2>1. StepOf(p)' \notin Writing \/ Follows(p)
    BY <1>5 DEF SameRunning, Follows, Writing, Acting
  <2>2. StepOf(p) \in {"succeed", "succeeding"} =>
           Follows(p) /\ StepOf(p)' \in {"succeed", "succeeding"}
    BY <1>5 DEF SameRunning, Follows
  <2> QED
    BY <1>1, <1>2, <1>3, <2>1, <2>2, SerialKept
<1>6. CASE /\ StepOf(p)' \notin Writing
           /\ StepOf(p) \in {"succeed", "succeeding"} => Crash(p)
    BY <1>1, <1>2, <1>3, <1>6, SerialKept
<1> QED
    BY <1>4, <1>5, <1>6

\* The runs stay as they are and so do the records: jobs are sent, put back, paused.
LEMMA IdleSerial ==
    ASSUME Books, Books', IsFiniteSet(requests), NEW p \in Processes, SerialAt(p), JobsKept,
           UNCHANGED <<records, effects, runs, scenario>>, requests' \subseteq requests,
           Paid' >= Paid, spent'["retry"] >= spent["retry"]
    PROVE  SerialAt(p)'
<1>1. Single(p)'
    BY DEF Single, SerialAt
<1>2. SameRunning(p)
    BY RunningKept
<1>3. StepOf(p)' \notin Writing \/ Follows(p)
    BY <1>2 DEF SameRunning, Follows, Writing, Acting
<1>4. StepOf(p) \in {"succeed", "succeeding"} =>
         Follows(p) /\ StepOf(p)' \in {"succeed", "succeeding"}
    BY <1>2 DEF SameRunning, Follows
<1> QED
    BY <1>1, <1>3, <1>4, SerialKept

\* An operator's retry is paid for when it is asked for, and used up when the
\* record is reopened.
LEMMA RetrySerial ==
    ASSUME Books, Books', IsFiniteSet(requests), NEW p \in Processes, SerialAt(p),
           UNCHANGED scenario,
           \/ \E m \in Milestones : RetryMilestone(p, m)
           \/ \E r \in requests : RetryPublish(r) \/ RetryCheck(r) \/ RetryWrite(r)
    PROVE  SerialAt(p)'
<1>0. UNCHANGED <<runs, effects>>
    BY DEF RetryMilestone, RetryPublish, RetryCheck, RetryWrite
<1>1. JobsKept
  <2>1. ASSUME NEW r \in requests, RetryPublish(r) PROVE JobsKept
    <3>1. r.milestone \in Milestones
      BY DEF Books, Types, RequestType
    <3> QED
      BY <2>1, <3>1, Kept, KeptSent DEF RetryPublish
  <2> QED
    BY <2>1, Kept DEF RetryMilestone, RetryCheck, RetryWrite
<1>2. SameRunning(p) /\ Single(p)'
    BY <1>0, <1>1, RunningKept DEF Single, SerialAt
<1>3. spent'["retry"] # 0
  <2>1. CASE Spend("retry")
    BY <2>1, SpendType, PaidType DEF Books, Types, Spending
  <2>2. CASE UNCHANGED spent /\ requests # {}
    BY <2>2 DEF SerialAt, Counted
  <2> QED
    BY <2>1, <2>2 DEF RetryMilestone, RetryPublish, RetryCheck, RetryWrite
<1>4. Counted(p)'
    BY <1>3 DEF Counted
<1>5. ASSUME NEW m \in Milestones, records'[m].status # records[m].status
      PROVE  records'[m].status = "retrying" /\ \E r \in requests : RetryWrite(r)
  <2>1. PICK r \in requests : RetryWrite(r)
    BY <1>5 DEF RetryMilestone, RetryPublish, RetryCheck, RetryWrite
  <2>2. r.milestone \in Milestones
    BY DEF Books, Types, RequestType
  <2> QED
    BY <1>5, <2>1, <2>2 DEF RetryWrite, Books, Types
<1>6. Guarded(p)'
  <2>1. CASE StepOf(p) \notin Writing
    BY <1>2, <2>1 DEF Guarded, SameRunning, Writing
  <2>2. CASE StepOf(p) \in Writing
    <3>1. runs[p] # <<>> /\ StepOf(p) # "none"
      BY <2>2 DEF StepOf, Writing, Acting
    <3>2. PICK m \in Milestones : m = MilestoneOf(p) /\ MilestoneOf(p)' = m
      BY <1>2, <3>1, HeadRun DEF SameRunning, Books
    <3>3. RecordOf(p)' = records'[m] /\ RecordOf(p) = records[m]
      BY <3>2 DEF RecordOf
    <3> QED
      BY <1>2, <1>5, <3>3 DEF Guarded, SerialAt, SameRunning
  <2> QED
    BY <2>1, <2>2
<1>7. /\ IsFiniteSet(requests') /\ Cardinality(requests') \in Nat /\ Cardinality(requests) \in Nat
      /\ Paid \in Nat /\ Paid' \in Nat
      /\ Cardinality(requests') + Paid <= Cardinality(requests) + Paid'
      /\ (\E r \in requests : RetryWrite(r)) =>
            Cardinality(requests') + Paid + 1 <= Cardinality(requests) + Paid'
  <2>0. Paid \in Nat /\ Cardinality(requests) \in Nat
    BY PaidType, FS_CardinalityType
  <2>1. ASSUME NEW m \in Milestones, RetryMilestone(p, m)
        PROVE  /\ IsFiniteSet(requests') /\ Paid' = Paid + 1
               /\ Cardinality(requests') <= Cardinality(requests) + 1
               /\ Cardinality(requests') \in Nat
    <3>1. PICK r : requests' = requests \cup {r}
      BY <2>1 DEF RetryMilestone
    <3>2. Paid' = Paid + 1
      BY <2>1, SpendType, PaidType DEF RetryMilestone, Books, Types, Spending, Paid
    <3>3. IsFiniteSet(requests') /\ Cardinality(requests') \in
             {Cardinality(requests), Cardinality(requests) + 1}
      BY <3>1, FS_AddElement
    <3> QED
      BY <2>0, <3>2, <3>3
  <2>2. ASSUME NEW r \in requests
        PROVE  /\ IsFiniteSet(requests \ {r})
               /\ Cardinality(requests \ {r}) = Cardinality(requests) - 1
               /\ Cardinality(requests) - 1 \in Nat
    <3>1. /\ IsFiniteSet(requests \ {r})
          /\ Cardinality(requests \ {r}) = Cardinality(requests) - 1
      BY FS_RemoveElement
    <3> QED
      BY <3>1, FS_CardinalityType
  <2>3. ASSUME NEW r \in requests, RetryPublish(r) \/ RetryCheck(r) \/ RetryWrite(r)
        PROVE  /\ IsFiniteSet(requests') /\ Paid' = Paid
               /\ Cardinality(requests') \in Nat
               /\ Cardinality(requests') <= Cardinality(requests)
               /\ RetryWrite(r) => Cardinality(requests') = Cardinality(requests) - 1
    <3>1. Paid' = Paid
      BY <2>3 DEF RetryPublish, RetryCheck, RetryWrite, Paid
    <3>2. CASE Answer(r)
      BY <2>0, <2>2, <3>1, <3>2 DEF Answer
    <3>3. ASSUME NEW step, Proceed(r, step)
          PROVE  /\ IsFiniteSet(requests') /\ Cardinality(requests') \in Nat
                 /\ Cardinality(requests') <= Cardinality(requests)
      <4>1. PICK other, rest : rest = requests \ {r} /\ requests' = rest \cup {other}
        BY <3>3 DEF Proceed
      <4>2. /\ IsFiniteSet(rest) /\ Cardinality(rest) = Cardinality(requests) - 1
            /\ Cardinality(requests) - 1 \in Nat
        BY <2>2, <4>1
      <4>3. IsFiniteSet(requests') /\ Cardinality(requests') \in
               {Cardinality(rest), Cardinality(rest) + 1}
        BY <4>1, <4>2, FS_AddElement
      <4> QED
        BY <2>0, <4>2, <4>3
    <3>4. RetryWrite(r) => Answer(r)
      BY DEF RetryWrite
    <3> QED
      BY <2>2, <2>3, <3>1, <3>2, <3>3, <3>4 DEF RetryPublish, RetryCheck, Answer
  <2>4. CASE \E m \in Milestones : RetryMilestone(p, m)
    <3>1. ~\E r \in requests : RetryWrite(r)
      <4>1. spent'["retry"] = spent["retry"] + 1
        BY <2>4, SpendType DEF RetryMilestone, Books, Types, Spending
      <4>2. ASSUME NEW r \in requests, RetryWrite(r) PROVE spent'["retry"] = spent["retry"]
        BY <4>2 DEF RetryWrite
      <4>3. spent["retry"] + 1 # spent["retry"]
        BY PaidType
      <4> QED
        BY <4>1, <4>2, <4>3
    <3> QED
      BY <2>0, <2>1, <2>4, <3>1
  <2>5. CASE \E r \in requests : RetryPublish(r) \/ RetryCheck(r) \/ RetryWrite(r)
    <3>1. PICK r \in requests : RetryPublish(r) \/ RetryCheck(r) \/ RetryWrite(r)
      BY <2>5
    <3>2. (\E s \in requests : RetryWrite(s)) =>
             Cardinality(requests') = Cardinality(requests) - 1
      BY <2>3
    <3> QED
      BY <2>0, <2>3, <3>1, <3>2
  <2> QED
    BY <2>4, <2>5
<1>8. ASSUME NEW m \in Milestones
      PROVE  effects'[m] + Cardinality(requests')
                <= (IF Success(p, m)' THEN 1 ELSE 0) + Paid'
  <2>1. /\ effects[m] + Cardinality(requests) <= (IF Success(p, m) THEN 1 ELSE 0) + Paid
        /\ effects[m] \in Nat /\ effects'[m] = effects[m]
    BY <1>0 DEF SerialAt, Within, Books, Types
  <2>2. CASE Success(p, m) => Success(p, m)'
    BY <1>7, <2>1, <2>2
  <2>3. CASE Success(p, m) /\ ~Success(p, m)'
    <3>1. records'[m].status # records[m].status
      <4>1. records[m].status = "succeeded" /\ records'[m].status # "succeeded"
        BY <1>2, <2>3 DEF Success, SameRunning
      <4> QED
        BY <4>1
    <3>2. Cardinality(requests') + Paid + 1 <= Cardinality(requests) + Paid'
      BY <1>5, <1>7, <3>1
    <3> QED
      BY <1>7, <2>1, <2>3, <3>2
  <2> QED
    BY <2>2, <2>3
<1>9. Within(p)'
    BY <1>8 DEF Within
<1> QED
    BY <1>2, <1>4, <1>6, <1>9 DEF SerialAt

LEMMA SerialStep ==
    ASSUME Books, Books', Truth, Serial, [Next]_vars
    PROVE  Serial'
<1>1. IsFiniteSet(requests')
  <2>0. IsFiniteSet(requests)
    BY DEF Serial
  <2>1. CASE requests' \subseteq requests
    BY <2>0, <2>1, FS_Subset
  <2>2. ASSUME NEW r, requests' = requests \cup {r} PROVE IsFiniteSet(requests')
    BY <2>0, <2>2, FS_AddElement
  <2>3. ASSUME NEW r, NEW s, requests' = (requests \ {r}) \cup {s} PROVE IsFiniteSet(requests')
    <3>1. IsFiniteSet(requests \ {r})
      BY <2>0, FS_RemoveElement
    <3> QED
      BY <2>3, <3>1, FS_AddElement
  <2>4. \/ requests' \subseteq requests
        \/ \E r : requests' = requests \cup {r}
        \/ \E r, s : requests' = (requests \ {r}) \cup {s}
    BY DEF Next, Step, vars, Dispatch, Poll, Fetch, Handle, Defer, Begin, Upsert, Execute,
       CheckTransition, WriteTransition, Reschedule, Settle, Disturb, StorageFault, Expire,
       Crash, SetContestMode, RetryMilestone, Serve, RetryPublish, RetryCheck, RetryWrite,
       Proceed, Answer, Maintain, ExpireLost
  <2> QED
    BY <2>1, <2>2, <2>3, <2>4
<1>2. ASSUME NEW p \in Processes, scenario'.processes = {p} PROVE SerialAt(p)'
  <2>0. UNCHANGED scenario
    BY DEF Next, vars
  <2>1. SerialAt(p) /\ scenario.processes = {p} /\ IsFiniteSet(requests)
    BY <1>2, <2>0 DEF Serial
  <2>2. CASE UNCHANGED vars
    <3>1. Paid' >= Paid /\ spent'["retry"] >= spent["retry"]
      BY <2>2, PaidType DEF vars, Paid
    <3> QED
      BY <2>1, <2>2, <3>1, Kept, IdleSerial DEF vars
  <2>3. CASE Handle(p)
    BY <2>0, <2>1, <2>3, HeadSerial, WriteSerial, QueueSerial DEF Handle
  <2>4. CASE Poll(p) \/ Disturb(p)
    BY <2>0, <2>1, <2>4, HeadSerial, QueueSerial DEF Disturb
  <2>5. CASE Maintain
    <3>1. PICK j \in DOMAIN jobs : ExpireLost(j)
      BY <2>5 DEF Maintain
    <3>2. JobsKept
      BY <3>1, KeptPutBack DEF ExpireLost
    <3>3. Paid' >= Paid /\ spent'["retry"] >= spent["retry"]
      BY <3>1, PaidType DEF ExpireLost, Paid
    <3> QED
      BY <2>0, <2>1, <3>1, <3>2, <3>3, IdleSerial DEF ExpireLost
  <2>6. ASSUME NEW m \in Milestones, Dispatch(m) PROVE SerialAt(p)'
    <3>3. JobsKept
      BY <2>6, KeptDispatch
    <3>4. Paid' = Paid /\ spent'["retry"] = spent["retry"]
      BY <2>6, SpendType DEF Dispatch, Books, Types, Spending, Paid
    <3>5. Paid' >= Paid /\ spent'["retry"] >= spent["retry"]
      BY <3>4, PaidType
    <3> QED
      BY <2>0, <2>1, <2>6, <3>3, <3>5, IdleSerial DEF Dispatch
  <2>7. ASSUME NEW mode \in BOOLEAN, SetContestMode(p, mode) PROVE SerialAt(p)'
    <3>1. Paid' = Paid /\ spent'["retry"] = spent["retry"]
      <4>1. CASE Spend("pause")
        BY <4>1, SpendType DEF Books, Types, Spending, Paid
      <4> QED
        BY <2>7, <4>1 DEF SetContestMode, Paid
    <3>2. Paid' >= Paid /\ spent'["retry"] >= spent["retry"]
      BY <3>1, PaidType
    <3> QED
      BY <2>0, <2>1, <2>7, <3>2, Kept, IdleSerial DEF SetContestMode
  <2>8. CASE Serve \/ \E m \in Milestones : RetryMilestone(p, m)
    BY <2>0, <2>1, <2>8, RetrySerial DEF Serve
  <2> QED
    BY <2>1, <2>2, <2>3, <2>4, <2>5, <2>6, <2>7, <2>8 DEF Next, Step
<1> QED
    BY <1>1, <1>2 DEF Serial

LEMMA InitSerial ==
    ASSUME Init
    PROVE  Serial
<1>1. IsFiniteSet(requests) /\ Cardinality(requests) = 0
    BY FS_EmptySet DEF Init
<1>2. ASSUME NEW p \in Processes PROVE SerialAt(p)
  <2>1. StepOf(p) = "none" /\ Single(p)
    BY DEF Init, StepOf, Single
  <2>2. \A m \in Milestones : effects[m] = 0
    BY DEF Init
  <2>3. Paid = 0
    BY DEF Init, Paid, Spending
  <2>4. Within(p)
    BY <1>1, <2>2, <2>3 DEF Within
  <2>5. Guarded(p) /\ Counted(p)
    BY <2>1 DEF Guarded, Counted, Acting, Writing, Init
  <2> QED
    BY <2>1, <2>4, <2>5 DEF SerialAt
<1> QED
    BY <1>1, <1>2 DEF Serial

\* The instances that run are finitely many, so one is alone as the code counts.
LEMMA TheOne ==
    ASSUME Books, Alone
    PROVE  \E p \in Processes : scenario.processes = {p}
<1>1. IsFiniteSet(scenario.processes) /\ scenario.processes \subseteq Processes
    BY ConstantsAssumption, FS_Subset DEF Books, Types, Scenario
<1> QED
    BY <1>1, FS_Singleton DEF Alone

LEMMA SerialPays ==
    ASSUME Books, Serial
    PROVE  RepetitionsPaidFor
<1>1. ASSUME Alone, NEW m \in Milestones
      PROVE  effects[m] <= 1 + spent["fault"] + spent["crash"] + spent["retry"]
  <2>1. PICK p \in Processes : SerialAt(p)
    BY <1>1, TheOne DEF Serial
  <2>2. effects[m] + Cardinality(requests) <= (IF Success(p, m) THEN 1 ELSE 0) + Paid
    BY <2>1 DEF SerialAt, Within
  <2>3. Cardinality(requests) \in Nat /\ effects[m] \in Nat
    BY FS_CardinalityType DEF Serial, Books, Types
  <2>4. effects[m] <= 1 + Paid
    BY <2>2, <2>3, PaidType
  <2> QED
    BY <2>4, PaidType DEF Paid
<1> QED
    BY <1>1 DEF RepetitionsPaidFor

\* No write of the only process takes an attempt back.
LEMMA NoneForgotten ==
    ASSUME Books, Serial, [Next]_vars, Alone, spent["retry"] = 0, NEW m \in Milestones
    PROVE  records'[m].attempts >= records[m].attempts
<1>0. records[m] \in Record /\ records[m].attempts \in Nat
    BY RecordTypes DEF Books, Types
<1>1. PICK p \in Processes : scenario.processes = {p} /\ SerialAt(p)
    BY TheOne DEF Serial
<1>2. CASE UNCHANGED records
    BY <1>0, <1>2
<1>3. CASE Upsert(p) \/ WriteTransition(p)
  <2>1. /\ runs[p] # <<>> /\ StepOf(p) = Run(p).step
        /\ Run(p).tracked \in Nat /\ MilestoneOf(p) \in Milestones
    BY <1>3, HeadRun DEF Upsert, WriteTransition, Running, StepOf, Books, RunType
  <2>2. Run(p).tracked >= records[MilestoneOf(p)].attempts
    BY <1>1, <1>3, <2>1
       DEF SerialAt, Counted, Writing, Acting, Upsert, WriteTransition, Running, Run, RecordOf
  <2>3. PICK record : /\ records' = [records EXCEPT ![MilestoneOf(p)] = record]
                      /\ record.attempts \in {Run(p).tracked, Run(p).tracked + 1}
    <3>1. /\ InitialRecord(Run(p)).attempts = Run(p).tracked
          /\ FailureRecord(Run(p)).attempts = Run(p).tracked + 1
          /\ [status |-> "succeeded", attempts |-> Run(p).tracked].attempts = Run(p).tracked
      BY DEF InitialRecord, FailureRecord
    <3> QED
      BY <1>3, <3>1 DEF Upsert, WriteTransition
  <2>4. CASE m = MilestoneOf(p)
    <3>1. records'[m] = record
      BY <2>3, <2>4 DEF Books, Types
    <3> QED
      BY <1>0, <2>1, <2>2, <2>3, <2>4, <3>1
  <2>5. CASE m # MilestoneOf(p)
    <3>1. records'[m] = records[m]
      BY <2>3, <2>5 DEF Books, Types
    <3> QED
      BY <1>0, <3>1
  <2> QED
    BY <2>4, <2>5
<1>4. requests = {}
    BY <1>1 DEF SerialAt, Counted
<1>5. UNCHANGED records \/ Upsert(p) \/ WriteTransition(p)
  <2>1. CASE UNCHANGED vars
    BY <2>1 DEF vars
  <2>2. CASE Step
    BY <1>1, <1>4, <2>2
       DEF Step, Dispatch, Poll, Fetch, Handle, Defer, Begin, Execute, CheckTransition,
           Reschedule, Settle, Disturb, StorageFault, Expire, Crash, SetContestMode,
           RetryMilestone, Serve, Maintain, ExpireLost
  <2> QED
    BY <2>1, <2>2 DEF Next
<1> QED
    BY <1>2, <1>3, <1>5
----------------------------------------------------------------------------
(* Nothing is simply gone: what must go wrong before a job is out of attempts *)

\* A job keeps the limit it was sent with; a run pg-boss waits for is the last
\* of its process, in the attempt the job is at; only what was budgeted for
\* happened.
Order ==
    /\ \A j \in DOMAIN jobs :
          /\ jobs[j].limit \in {MaxAttempts - 1, EventRetries}
          /\ jobs[j].state = "created" => jobs[j].retries = 0
    /\ \A p \in Processes : \A i \in DOMAIN runs[p] :
          ~runs[p][i].abandoned => /\ runs[p][i].attempt = jobs[runs[p][i].job].retries
                                   /\ i = Len(runs[p])
    /\ \A p \in Processes : p \notin scenario.processes => runs[p] = <<>>
    /\ spent["expiry"] = 0 =>
          \A p \in Processes : \A i \in DOMAIN runs[p] : ~runs[p][i].abandoned
    /\ spent["pause"] = 0 => \A p \in Processes : ~paused[p]

\* A handler acts on a milestone that has a record.
Recorded == \A p \in Processes : StepOf(p) \in Acting => RecordOf(p).status # "none"

\* What a running handler does in any step.
Moves(p) == \/ SameRunning(p)
            \/ StepOf(p)' \notin Acting
            \/ Follows(p)
            \/ Upsert(p) /\ MilestoneOf(p)' = MilestoneOf(p)

LEMMA StepMoves ==
    ASSUME Books, Truth, [Next]_vars, NEW p \in Processes
    PROVE  Moves(p)
<1>0. Waiting /\ scenario.processes \subseteq Processes
    BY ConstantsAssumption DEF Truth, Books, Types, Scenario
<1>1. ASSUME NEW q \in Processes, NEW step \in Steps, Goto(q, step), JobsKept, runs[q] # <<>>,
             Run(q).step \in Acting \/ step \notin Acting \/ Upsert(q)
      PROVE  Moves(p)
  <2>1. /\ StepOf(q)' = step /\ MilestoneOf(q)' = MilestoneOf(q)
        /\ Run(q)'.tracked = Run(q).tracked
        /\ \A s \in Processes : s # q => SameRunning(s)
    <3>1. Run(q) \in RunType
      BY <1>1, HeadRun DEF Books
    <3> QED
      BY <1>0, <1>1, <3>1, GotoRuns DEF RunType
  <2>2. StepOf(q) = Run(q).step
    BY <1>1 DEF StepOf
  <2>3. CASE q = p
    <3>1. CASE StepOf(p) \in Acting /\ step \in Acting
      BY <2>1, <2>3, <3>1 DEF Follows, Moves
    <3> QED
      BY <1>1, <2>1, <2>2, <2>3, <3>1 DEF Moves
  <2> QED
    BY <2>1, <2>3 DEF Moves
<1>2. CASE UNCHANGED vars
    BY <1>2, Kept, RunningKept DEF vars, Moves
<1>3. ASSUME NEW q \in Processes, Handle(q)
      PROVE  Moves(p)
  <2>0. runs[q] # <<>> /\ MilestoneOf(q) \in Milestones
    BY <1>3, HeadRun DEF Handle, Defer, Begin, Upsert, Execute, CheckTransition,
       WriteTransition, Reschedule, Settle, Running, Books
  <2>1. CASE Defer(q) \/ Upsert(q) \/ Execute(q) \/ CheckTransition(q) \/ WriteTransition(q)
             \/ Reschedule(q)
    <3>1. JobsKept
      BY <2>0, <2>1, Kept, KeptSent
         DEF Defer, Upsert, Execute, CheckTransition, WriteTransition, Reschedule
    <3>2. PICK step \in Steps : /\ Goto(q, step)
                                /\ Run(q).step \in Acting \/ step \notin Acting \/ Upsert(q)
      BY <2>1 DEF Defer, Upsert, Execute, CheckTransition, WriteTransition, Reschedule,
         Running, Run, Steps, Acting
    <3> QED
      BY <1>1, <2>0, <3>1, <3>2
  <2>2. CASE Begin(q)
    <3>1. CASE q = p
      <4>1. runs'[p] # <<>> /\ Run(p)'.step \in {"done", "upsert"}
        <5>1. 1 \in DOMAIN runs[p] /\ Run(p) \in RunType
          BY <2>0, <3>1, HeadRun DEF Books
        <5> DEFINE r == IF AlreadyProcessed(RecordOf(p))
                        THEN [Run(p) EXCEPT !.step = "done"]
                        ELSE [Run(p) EXCEPT !.step = "upsert",
                                 !.tracked = TrackedAttempts(RecordOf(p), Run(p).attempt)]
        <5>2. r.step \in {"done", "upsert"} /\ r.job = Run(p).job
              /\ r.abandoned = Run(p).abandoned
          BY <5>1 DEF RunType
        <5>2a. r \in RunType
          <6>1. TrackedAttempts(RecordOf(p), Run(p).attempt) \in Nat
            BY <2>0, <3>1, <5>1, HeadRun DEF TrackedAttempts, Larger, RunType, Books
          <6> QED
            BY <5>1, <6>1 DEF RunType, Steps
        <5>3. HeadSteps(p, r)
          BY <2>0, <2>2, <3>1, <5>2 DEF Begin, HeadSteps, Replaces, Run
        <5> HIDE DEF r
        <5>4. runs'[p][1] = r /\ 1 \in DOMAIN runs'[p]
          BY <5>1, <5>2a, <5>3, HeadMoves DEF HeadSteps, Books
        <5> QED
          BY <5>2, <5>4 DEF Run
      <4> QED
        BY <4>1 DEF StepOf, Acting, Moves
    <3>2. CASE q # p
      <4>1. runs'[p] = runs[p] /\ JobsKept
        BY <2>2, <3>2, Kept DEF Begin, Books, Types
      <4> QED
        BY <4>1, RunningKept DEF Moves
    <3> QED
      BY <3>1, <3>2
  <2>3. CASE Settle(q)
    <3>1. StepOf(q)' \in {"none", "begin"} /\ \A s \in Processes : s # q => SameRunning(s)
      BY <1>0, <2>0, <2>3, SettleKept, LeaveRuns DEF Settle
    <3> QED
      BY <3>1 DEF Acting, Moves
  <2> QED
    BY <1>3, <2>1, <2>2, <2>3 DEF Handle
<1>4. ASSUME NEW q \in Processes, Poll(q)
      PROVE  Moves(p)
  <2>1. PICK j \in DOMAIN jobs : Fetch(q, j)
    BY <1>4 DEF Poll
  <2>2. /\ IF StepOf(q) = "none" THEN StepOf(q)' = "begin" ELSE SameRunning(q)
        /\ \A s \in Processes : s # q => SameRunning(s)
    BY <1>0, <2>1, FetchKept, FetchRuns
  <2> QED
    BY <2>2 DEF Acting, Moves
<1>5. ASSUME NEW q \in Processes, Disturb(q)
      PROVE  Moves(p)
  <2>1. CASE StorageFault(q)
    <3>1. runs[q] # <<>> /\ Run(q).step \in Steps /\ JobsKept
      BY <2>1, HeadRun, Kept DEF StorageFault, Books, RunType
    <3>2. /\ Handler(Run(q).step) \in Steps
          /\ Run(q).step \in Acting \/ Handler(Run(q).step) \notin Acting
      BY <3>1, <2>1 DEF Handler, Steps, StorageFault, Acting
    <3> QED
      BY <1>1, <2>1, <3>1, <3>2 DEF StorageFault
  <2>2. ASSUME NEW i \in DOMAIN runs[q], Expire(q, i) PROVE Moves(p)
    <3>1. runs[q][i].job \in DOMAIN jobs
      BY DEF Books, Types
    <3>2. JobsKept
      BY <2>2, <3>1, KeptPutBack DEF Expire
    <3> QED
      BY <1>0, <2>2, <3>2, ExpireRuns DEF Moves
  <2>3. CASE Crash(q)
    <3>1. CASE q = p
      <4>1. runs'[p] = <<>>
        BY <2>3, <3>1 DEF Crash, Books, Types
      <4> QED
        BY <4>1 DEF StepOf, Acting, Moves
    <3>2. CASE q # p
      <4>1. runs'[p] = runs[p] /\ JobsKept
        BY <2>3, <3>2, Kept DEF Crash, Books, Types
      <4> QED
        BY <4>1, RunningKept DEF Moves
    <3> QED
      BY <3>1, <3>2
  <2> QED
    BY <1>5, <2>1, <2>2, <2>3 DEF Disturb
<1>6. ASSUME runs' = runs, JobsKept PROVE Moves(p)
    BY <1>6, RunningKept DEF Moves
<1>7. CASE Maintain
  <2>1. PICK j \in DOMAIN jobs : ExpireLost(j)
    BY <1>7 DEF Maintain
  <2> QED
    BY <1>6, <2>1, KeptPutBack DEF ExpireLost
<1>8. ASSUME NEW m \in Milestones, Dispatch(m) PROVE Moves(p)
    BY <1>6, <1>8, KeptDispatch DEF Dispatch
<1>9. ASSUME NEW q \in Processes, \/ \E mode \in BOOLEAN : SetContestMode(q, mode)
                                  \/ \E m \in Milestones : RetryMilestone(q, m)
      PROVE  Moves(p)
    BY <1>6, <1>9, Kept DEF SetContestMode, RetryMilestone
<1>10. ASSUME NEW r \in requests, RetryPublish(r) \/ RetryCheck(r) \/ RetryWrite(r)
       PROVE  Moves(p)
  <2>1. r.milestone \in Milestones
    BY DEF Books, Types, RequestType
  <2> QED
    BY <1>6, <1>10, <2>1, Kept, KeptSent DEF RetryPublish, RetryCheck, RetryWrite
<1> QED
    BY <1>0, <1>2, <1>3, <1>4, <1>5, <1>7, <1>8, <1>9, <1>10 DEF Next, Step, Serve

\* A record once made is never unmade.
LEMMA RecordsStay ==
    ASSUME Books, [Next]_vars, NEW m \in Milestones, records[m].status # "none"
    PROVE  records'[m].status # "none"
<1>1. CASE UNCHANGED records
    BY <1>1
<1>2. ASSUME NEW p \in Processes, Upsert(p) \/ WriteTransition(p) PROVE records'[m].status # "none"
  <2>1. PICK record : /\ records' = [records EXCEPT ![MilestoneOf(p)] = record]
                      /\ record.status # "none"
    <3>1. /\ InitialRecord(Run(p)).status # "none" /\ FailureRecord(Run(p)).status # "none"
          /\ [status |-> "succeeded", attempts |-> Run(p).tracked].status # "none"
      BY DEF InitialRecord, FailureRecord
    <3> QED
      BY <1>2, <3>1 DEF Upsert, WriteTransition
  <2> QED
    BY <2>1 DEF Books, Types
<1>3. ASSUME NEW r \in requests, RetryWrite(r) PROVE records'[m].status # "none"
    BY <1>3 DEF RetryWrite, Books, Types
<1>4. \/ UNCHANGED records
      \/ \E p \in Processes : Upsert(p) \/ WriteTransition(p)
      \/ \E r \in requests : RetryWrite(r)
  <2>1. scenario.processes \subseteq Processes
    BY ConstantsAssumption DEF Books, Types, Scenario
  <2>2. CASE UNCHANGED vars
    BY <2>2 DEF vars
  <2>3. CASE Step
    BY <2>1, <2>3
       DEF Step, Dispatch, Poll, Fetch, Handle, Defer, Begin, Execute, CheckTransition,
           Reschedule, Settle, Disturb, StorageFault, Expire, Crash, SetContestMode,
           RetryMilestone, Serve, RetryPublish, RetryCheck, Maintain, ExpireLost
  <2> QED
    BY <2>2, <2>3 DEF Next
<1> QED
    BY <1>1, <1>2, <1>3, <1>4

LEMMA RecordedStep ==
    ASSUME Books, Truth, Recorded, [Next]_vars
    PROVE  Recorded'
<1>1. ASSUME NEW p \in Processes, StepOf(p)' \in Acting PROVE RecordOf(p)'.status # "none"
  <2>1. CASE StepOf(p) \in Acting /\ MilestoneOf(p)' = MilestoneOf(p)
    <3>1. PICK m \in Milestones : m = MilestoneOf(p) /\ MilestoneOf(p)' = m
      <4>1. runs[p] # <<>>
        BY <2>1 DEF StepOf, Acting
      <4> QED
        BY <2>1, <4>1, HeadRun DEF Books
    <3>2. records[m].status # "none"
      BY <2>1, <3>1 DEF Recorded, RecordOf
    <3> QED
      BY <3>1, <3>2, RecordsStay DEF RecordOf
  <2>2. CASE Upsert(p) /\ MilestoneOf(p)' = MilestoneOf(p)
    <3>1. PICK m \in Milestones : m = MilestoneOf(p) /\ MilestoneOf(p)' = m
      <4>1. runs[p] # <<>>
        BY <2>2 DEF Upsert, Running
      <4> QED
        BY <2>2, <4>1, HeadRun DEF Books
    <3>2. records'[m].status # "none"
      <4>1. InitialRecord(Run(p)).status # "none"
        BY DEF InitialRecord
      <4> QED
        BY <2>2, <3>1, <4>1 DEF Upsert, Books, Types
    <3> QED
      BY <3>1, <3>2 DEF RecordOf
  <2> QED
    BY <1>1, <2>1, <2>2, StepMoves DEF Moves, SameRunning, Follows, Acting
<1> QED
    BY <1>1 DEF Recorded

\* What becomes of a process's chain of runs in a step: its runs go on or are
\* given up, the head leaves, all are lost, or a job is taken when all before it
\* were given up.
Turns(p) ==
    \/ /\ DOMAIN runs'[p] = DOMAIN runs[p]
       /\ \A i \in DOMAIN runs[p] :
             /\ runs'[p][i].job = runs[p][i].job
             /\ runs'[p][i].attempt = runs[p][i].attempt
             /\ runs'[p][i].abandoned # runs[p][i].abandoned =>
                   runs'[p][i].abandoned /\ spent'["expiry"] # 0
    \/ runs[p] # <<>> /\ runs'[p] = Tail(runs[p])
    \/ runs'[p] = <<>>
    \/ /\ \A i \in DOMAIN runs[p] : runs[p][i].abandoned
       /\ \E run \in RunType : /\ runs'[p] = Append(runs[p], run)
                               /\ run.attempt = jobs'[run.job].retries
                               /\ ~run.abandoned /\ run.step = "begin"

LEMMA StaysTurns ==
    ASSUME Books, NEW p \in Processes, runs'[p] = runs[p]
    PROVE  Turns(p)
BY DEF Turns

LEMMA HeadTurns ==
    ASSUME Books, NEW p \in Processes, NEW q \in Processes, NEW r \in RunType,
           HeadSteps(q, r), r.attempt = runs[q][1].attempt
    PROVE  Turns(p)
<1>1. /\ DOMAIN runs'[p] = DOMAIN runs[p]
      /\ \A i \in DOMAIN runs[p] :
            runs'[p][i] = IF p = q /\ i = 1 THEN r ELSE runs[p][i]
    BY HeadMoves DEF HeadSteps, Books
<1> QED
    BY <1>1 DEF Turns, HeadSteps

LEMMA StepTurns ==
    ASSUME Books, [Next]_vars, NEW p \in Processes
    PROVE  Turns(p)
<1>0. scenario.processes \subseteq Processes
    BY ConstantsAssumption DEF Books, Types, Scenario
<1>1. CASE UNCHANGED runs
    BY <1>1, StaysTurns
<1>2. ASSUME NEW q \in Processes, NEW step \in Steps, Goto(q, step), runs[q] # <<>>
      PROVE  Turns(p)
  <2>1. PICK r \in RunType : r = [Run(q) EXCEPT !.step = step] /\ HeadSteps(q, r)
    BY <1>2, GotoHead DEF Books
  <2>2. r.attempt = runs[q][1].attempt
    BY <1>2, <2>1, HeadRun DEF Books, RunType, Run
  <2> QED
    BY <2>1, <2>2, HeadTurns
<1>3. ASSUME NEW q \in Processes, Begin(q) PROVE Turns(p)
  <2>1. runs[q] # <<>> /\ Run(q) \in RunType /\ RecordOf(q).attempts \in Nat
    BY <1>3, HeadRun DEF Begin, Running, Books
  <2> DEFINE r == IF AlreadyProcessed(RecordOf(q))
                  THEN [Run(q) EXCEPT !.step = "done"]
                  ELSE [Run(q) EXCEPT !.step = "upsert",
                           !.tracked = TrackedAttempts(RecordOf(q), Run(q).attempt)]
  <2>2. TrackedAttempts(RecordOf(q), Run(q).attempt) \in Nat
    BY <2>1 DEF TrackedAttempts, Larger, RunType
  <2>3. /\ r \in RunType /\ r.job = Run(q).job /\ r.abandoned = Run(q).abandoned
        /\ r.attempt = Run(q).attempt
    BY <2>1, <2>2 DEF RunType, Steps
  <2>4. HeadSteps(q, r)
    BY <1>3, <2>1, <2>3 DEF Begin, HeadSteps, Replaces, Run
  <2> HIDE DEF r
  <2> QED
    BY <2>3, <2>4, HeadTurns DEF Run
<1>4. ASSUME NEW q \in Processes, Settle(q) PROVE Turns(p)
  <2>1. CASE p = q
    <3>1. runs'[p] = Tail(runs[p]) /\ runs[p] # <<>>
      BY <1>4, <2>1 DEF Settle, Leave, Books, Types, Running
    <3> QED
      BY <3>1 DEF Turns
  <2>2. CASE p # q
    BY <1>4, <2>2, StaysTurns DEF Settle, Leave, Books, Types
  <2> QED
    BY <2>1, <2>2
<1>5. ASSUME NEW q \in Processes, Crash(q) PROVE Turns(p)
  <2>1. CASE p = q
    <3>1. runs'[p] = <<>>
      BY <1>5, <2>1 DEF Crash, Books, Types
    <3> QED
      BY <3>1 DEF Turns
  <2>2. CASE p # q
    BY <1>5, <2>2, StaysTurns DEF Crash, Books, Types
  <2> QED
    BY <2>1, <2>2
<1>6. ASSUME NEW q \in Processes, NEW i \in DOMAIN runs[q], Expire(q, i) PROVE Turns(p)
  <2>1. spent'["expiry"] # 0
    <3>1. spent'["expiry"] = spent["expiry"] + 1 /\ spent["expiry"] \in Nat
      BY <1>6, SpendType DEF Expire, Books, Types, Spending
    <3> QED
      BY <3>1
  <2> DEFINE run == [runs[q][i] EXCEPT !.abandoned = TRUE]
  <2>2. runs[q][i] \in RunType
    BY DEF Books, Types
  <2>3. run \in RunType /\ run.job = runs[q][i].job /\ run.attempt = runs[q][i].attempt
        /\ run.abandoned = TRUE
    BY <2>2 DEF RunType
  <2>4. Replaces(q, i, run)
    BY <1>6 DEF Expire, Replaces
  <2> HIDE DEF run
  <2>5. /\ DOMAIN runs'[p] = DOMAIN runs[p]
        /\ \A k \in DOMAIN runs[p] :
              runs'[p][k] = IF p = q /\ k = i THEN run ELSE runs[p][k]
    BY <2>3, <2>4, PlaceMoves DEF Books
  <2> QED
    BY <2>1, <2>3, <2>5 DEF Turns
<1>7. ASSUME NEW q \in Processes, NEW j \in DOMAIN jobs, Fetch(q, j) PROVE Turns(p)
  <2>1. CASE p = q
    <3>1. PICK job : job = Fetched(jobs[j])
      OBVIOUS
    <3>2. jobs'[j] = job /\ job.retries \in Nat /\ j \in Nat \ {0}
      <4>1. jobs[j] \in JobType /\ j \in Nat \ {0}
        BY DEF Books, Types
      <4>2. jobs[j].retries \in Nat /\ jobs[j].retries + 1 \in Nat
        BY <4>1 DEF JobType
      <4>3. job.retries \in Nat
        BY <3>1, <4>1, <4>2 DEF Fetched, JobType
      <4> QED
        BY <1>7, <3>1, <4>1, <4>3 DEF Fetch, Books, Types
    <3> DEFINE run == [job |-> j, attempt |-> job.retries, tracked |-> 0, step |-> "begin",
                       abandoned |-> FALSE]
    <3>3. run \in RunType /\ run.attempt = jobs'[run.job].retries /\ ~run.abandoned
          /\ run.step = "begin"
      BY <3>2 DEF RunType, Steps
    <3>4. runs'[p] = Append(runs[p], run)
      BY <1>7, <2>1, <3>1 DEF Fetch, Books, Types
    <3> HIDE DEF run
    <3>5. \A i \in DOMAIN runs[p] : runs[p][i].abandoned
      BY <1>7, <2>1 DEF Fetch
    <3> QED
      BY <3>3, <3>4, <3>5 DEF Turns
  <2>2. CASE p # q
    BY <1>7, <2>2, StaysTurns DEF Fetch, Books, Types
  <2> QED
    BY <2>1, <2>2
<1>8. ASSUME NEW q \in Processes, Handle(q) \/ StorageFault(q) PROVE Turns(p)
  <2>1. CASE Begin(q) \/ Settle(q)
    BY <1>3, <1>4, <2>1
  <2>2. CASE \/ Defer(q) \/ Upsert(q) \/ Execute(q) \/ CheckTransition(q)
             \/ WriteTransition(q) \/ Reschedule(q)
    <3>1. runs[q] # <<>>
      BY <2>2 DEF Defer, Upsert, Execute, CheckTransition, WriteTransition, Reschedule, Running
    <3>2. \E step \in Steps : Goto(q, step)
      BY <2>2 DEF Defer, Upsert, Execute, CheckTransition, WriteTransition, Reschedule, Steps
    <3> QED
      BY <1>2, <3>1, <3>2
  <2>3. CASE StorageFault(q)
    <3>1. runs[q] # <<>> /\ Run(q).step \in Steps
      BY <2>3, HeadRun DEF StorageFault, Books, RunType
    <3>2. Handler(Run(q).step) \in Steps
      BY <3>1, <2>3 DEF Handler, Steps, StorageFault
    <3> QED
      BY <1>2, <2>3, <3>1, <3>2 DEF StorageFault
  <2> QED
    BY <1>8, <2>1, <2>2, <2>3 DEF Handle
<1>9. UNCHANGED runs \/ \E q \in Processes : Handle(q) \/ Disturb(q) \/ Poll(q)
  <2>1. CASE UNCHANGED vars
    BY <2>1 DEF vars
  <2>2. CASE Step
    BY <1>0, <2>2
       DEF Step, Dispatch, SetContestMode, RetryMilestone, Serve, RetryPublish, RetryCheck,
           RetryWrite, Maintain, ExpireLost
  <2> QED
    BY <2>1, <2>2 DEF Next
<1> QED
    BY <1>1, <1>5, <1>6, <1>7, <1>8, <1>9 DEF Disturb, Poll

LEMMA SpentGrows ==
    ASSUME Books, [Next]_vars, NEW what \in Spending
    PROVE  spent'[what] >= spent[what] /\ spent'[what] \in Nat /\ spent[what] \in Nat
<1>1. spent[what] \in Nat
    BY DEF Books, Types
<1>2. UNCHANGED spent \/ \E other \in Spending : Spend(other)
  <2>1. CASE UNCHANGED vars
    BY <2>1 DEF vars
  <2>2. CASE Step
    BY <2>2
       DEF Step, Dispatch, Poll, Fetch, Handle, Defer, Begin, Upsert, Execute, CheckTransition,
           WriteTransition, Reschedule, Settle, Disturb, StorageFault, Expire, Crash,
           SetContestMode, RetryMilestone, Serve, RetryPublish, RetryCheck, RetryWrite,
           Maintain, ExpireLost, Spending
  <2> QED
    BY <2>1, <2>2 DEF Next
<1>3. CASE UNCHANGED spent
    BY <1>1, <1>3
<1>4. ASSUME NEW other \in Spending, Spend(other)
      PROVE  spent'[what] >= spent[what] /\ spent'[what] \in Nat
  <2>1. spent'[what] \in {spent[what], spent[what] + 1}
    BY <1>4, SpendType DEF Books, Types
  <2> QED
    BY <1>1, <2>1
<1> QED
    BY <1>1, <1>2, <1>3, <1>4

\* What becomes of a job in a step.
JobTurns ==
    /\ DOMAIN jobs \subseteq DOMAIN jobs'
    /\ \A j \in DOMAIN jobs :
          /\ jobs'[j].limit = jobs[j].limit
          /\ jobs'[j].state = "created" => jobs'[j] = jobs[j]
          /\ jobs[j].state = "active" => jobs'[j].retries = jobs[j].retries
    /\ \A j \in DOMAIN jobs' \ DOMAIN jobs :
          /\ jobs'[j].limit \in {MaxAttempts - 1, EventRetries}
          /\ jobs'[j].retries = 0 /\ jobs'[j].state = "created"

LEMMA StepJobs ==
    ASSUME Books, [Next]_vars
    PROVE  JobTurns
<1>0. scenario.processes \subseteq Processes
    BY ConstantsAssumption DEF Books, Types, Scenario
<1>1. CASE UNCHANGED jobs
    BY <1>1 DEF JobTurns
<1>2. ASSUME NEW m \in Milestones, NEW limit \in {MaxAttempts - 1, EventRetries},
             NEW keyed \in BOOLEAN, jobs' = Append(jobs, NewJob(m, limit, keyed))
      PROVE  JobTurns
  <2> DEFINE job == NewJob(m, limit, keyed)
  <2>1. /\ job \in JobType /\ job.limit = limit /\ job.retries = 0 /\ job.state = "created"
    BY ConstantsAssumption DEF NewJob, JobType
  <2> HIDE DEF job
  <2>2. jobs' = Append(jobs, job)
    BY <1>2 DEF job
  <2>3. /\ DOMAIN jobs' = DOMAIN jobs \cup {Len(jobs) + 1}
        /\ \A k \in DOMAIN jobs : jobs'[k] = jobs[k]
        /\ jobs'[Len(jobs) + 1] = job
    BY <2>1, <2>2, JobSent DEF Books
  <2> QED
    BY <2>1, <2>3 DEF JobTurns
<1>3. ASSUME NEW j \in DOMAIN jobs, NEW job, jobs' = [jobs EXCEPT ![j] = job],
             job.limit = jobs[j].limit, job.state # "created",
             jobs[j].state = "active" => job.retries = jobs[j].retries
      PROVE  JobTurns
  <2>1. /\ DOMAIN jobs' = DOMAIN jobs
        /\ \A k \in DOMAIN jobs : jobs'[k] = IF k = j THEN job ELSE jobs[k]
    BY <1>3 DEF Books, Types
  <2> QED
    BY <1>3, <2>1 DEF JobTurns
<1>4. ASSUME NEW j \in DOMAIN jobs, NEW end \in {"failed", "expired"},
             jobs' = [jobs EXCEPT ![j] = PutBack(@, end)]
      PROVE  JobTurns
  <2> DEFINE job == PutBack(jobs[j], end)
  <2>1. /\ job.limit = jobs[j].limit /\ job.state # "created" /\ job.retries = jobs[j].retries
    <3>1. jobs[j] \in JobType
      BY DEF Books, Types
    <3> QED
      BY <3>1 DEF PutBack, JobType
  <2>2. jobs' = [jobs EXCEPT ![j] = job]
    BY <1>4
  <2> HIDE DEF job
  <2> QED
    BY <1>3, <2>1, <2>2
<1>5. ASSUME NEW q \in Processes, Settle(q) PROVE JobTurns
  <2>1. PICK j \in DOMAIN jobs : j = Run(q).job /\ jobs[j] \in JobType
    BY <1>5, HeadRun DEF Settle, Running, Books
  <2>2. CASE jobs' = [jobs EXCEPT ![j] = [jobs[j] EXCEPT !.state = "completed"]]
    <3> DEFINE job == [jobs[j] EXCEPT !.state = "completed"]
    <3>1. job.limit = jobs[j].limit /\ job.state # "created" /\ job.retries = jobs[j].retries
      BY <2>1 DEF JobType
    <3>2. jobs' = [jobs EXCEPT ![j] = job]
      BY <2>2
    <3> HIDE DEF job
    <3> QED
      BY <1>3, <3>1, <3>2
  <2>3. CASE jobs' = [jobs EXCEPT ![j] = PutBack(@, "failed")]
    BY <1>4, <2>3
  <2> QED
    BY <1>1, <1>5, <2>1, <2>2, <2>3 DEF Settle
<1>6. ASSUME NEW q \in Processes, NEW j \in DOMAIN jobs, Fetch(q, j) PROVE JobTurns
  <2> DEFINE job == Fetched(jobs[j])
  <2>1. jobs[j] \in JobType /\ jobs[j].state \in {"created", "retry"}
    BY <1>6 DEF Fetch, Books, Types
  <2>2. job.limit = jobs[j].limit /\ job.state # "created"
    BY <2>1 DEF Fetched, JobType
  <2>3. jobs' = [jobs EXCEPT ![j] = job]
    BY <1>6 DEF Fetch
  <2> HIDE DEF job
  <2> QED
    BY <1>3, <2>1, <2>2, <2>3
<1>7. ASSUME NEW q \in Processes, NEW i \in DOMAIN runs[q], Expire(q, i) PROVE JobTurns
  <2>1. PICK j \in DOMAIN jobs : j = runs[q][i].job
    BY DEF Books, Types
  <2>2. jobs' = [jobs EXCEPT ![j] = PutBack(@, "failed")]
    BY <1>7, <2>1 DEF Expire
  <2> QED
    BY <1>4, <2>2
<1>8. ASSUME NEW j \in DOMAIN jobs, ExpireLost(j) PROVE JobTurns
    BY <1>4, <1>8 DEF ExpireLost
<1>9. ASSUME NEW q \in Processes, Reschedule(q) PROVE JobTurns
  <2>1. MilestoneOf(q) \in Milestones
    BY <1>9, HeadRun DEF Reschedule, Running, Books
  <2>2. UNCHANGED jobs \/ jobs' = Append(jobs, NewJob(MilestoneOf(q), MaxAttempts - 1, TRUE))
    BY <1>9 DEF Reschedule, Published
  <2> QED
    BY <1>1, <1>2, <2>1, <2>2
<1>10. ASSUME NEW r \in requests, RetryPublish(r) PROVE JobTurns
  <2>1. r.milestone \in Milestones
    BY DEF Books, Types, RequestType
  <2>2. UNCHANGED jobs \/ jobs' = Append(jobs, NewJob(r.milestone, MaxAttempts - 1, TRUE))
    BY <1>10 DEF RetryPublish, Published
  <2> QED
    BY <1>1, <1>2, <2>1, <2>2
<1>11. ASSUME NEW m \in Milestones, Dispatch(m) PROVE JobTurns
    BY <1>2, <1>11 DEF Dispatch
<1>12. \/ UNCHANGED jobs
       \/ \E q \in Processes : Settle(q) \/ Reschedule(q) \/ Poll(q)
             \/ \E i \in DOMAIN runs[q] : Expire(q, i)
       \/ Maintain \/ (\E r \in requests : RetryPublish(r)) \/ \E m \in Milestones : Dispatch(m)
  <2>1. CASE UNCHANGED vars
    BY <2>1 DEF vars
  <2>2. CASE Step
    BY <1>0, <2>2
       DEF Step, Handle, Defer, Begin, Upsert, Execute, CheckTransition, WriteTransition,
           Disturb, StorageFault, Crash, SetContestMode, RetryMilestone, Serve, RetryCheck,
           RetryWrite
  <2> QED
    BY <2>1, <2>2 DEF Next
<1> QED
    BY <1>1, <1>5, <1>6, <1>7, <1>8, <1>9, <1>10, <1>11, <1>12 DEF Maintain, Poll

LEMMA OrderStep ==
    ASSUME Books, Order, [Next]_vars
    PROVE  Order'
<1>0. JobTurns /\ UNCHANGED scenario /\ scenario.processes \subseteq Processes
    BY StepJobs, ConstantsAssumption DEF Next, vars, Books, Types, Scenario
<1>1. ASSUME NEW j \in DOMAIN jobs'
      PROVE  /\ jobs'[j].limit \in {MaxAttempts - 1, EventRetries}
             /\ jobs'[j].state = "created" => jobs'[j].retries = 0
    BY <1>0, <1>1 DEF JobTurns, Order
<1>2. ASSUME NEW p \in Processes, NEW i \in DOMAIN runs'[p], ~runs'[p][i].abandoned
      PROVE  runs'[p][i].attempt = jobs'[runs'[p][i].job].retries /\ i = Len(runs'[p])
  <2>1. PICK s \in Seq(RunType) : s = runs[p]
    BY DEF Books, Types
  <2>2. DOMAIN s = 1..Len(s) /\ Len(s) \in Nat
    BY <2>1
  <2>3. ASSUME NEW k \in DOMAIN s, ~s[k].abandoned
        PROVE  s[k].attempt = jobs'[s[k].job].retries /\ k = Len(s)
    <3>1. s[k].job \in DOMAIN jobs /\ jobs[s[k].job].state = "active"
      BY <2>1, <2>3 DEF Books, Types, Answered
    <3> QED
      BY <1>0, <2>1, <2>3, <3>1 DEF JobTurns, Order
  <2>4. CASE /\ DOMAIN runs'[p] = DOMAIN runs[p]
             /\ \A k \in DOMAIN runs[p] :
                   /\ runs'[p][k].job = runs[p][k].job
                   /\ runs'[p][k].attempt = runs[p][k].attempt
                   /\ runs'[p][k].abandoned # runs[p][k].abandoned => runs'[p][k].abandoned
    <3>1. i \in DOMAIN s /\ ~s[i].abandoned
      BY <1>2, <2>1, <2>4
    <3>2. runs'[p][i].attempt = jobs'[runs'[p][i].job].retries /\ i = Len(s)
      BY <2>1, <2>3, <2>4, <3>1
    <3>3. Len(runs'[p]) = Len(s)
      <4>1. DOMAIN runs'[p] = 1..Len(s)
        BY <2>1, <2>2, <2>4
      <4>2. PICK u : u = runs'[p] /\ u \in Seq(RunType)
        BY BooksStep DEF Books, Types
      <4>3. Len(u) \in Nat /\ DOMAIN u = 1..Len(u)
        BY <4>2
      <4>4. Len(u) = Len(s)
        BY <4>1, <4>2, <4>3, <2>2
      <4> QED
        BY <4>2, <4>4
    <3> QED
      BY <3>2, <3>3
  <2>5. CASE runs[p] # <<>> /\ runs'[p] = Tail(runs[p])
    <3>1. /\ DOMAIN Tail(s) = 1..(Len(s) - 1) /\ Len(Tail(s)) = Len(s) - 1 /\ Len(s) > 0
          /\ \A k \in 1..(Len(s) - 1) : Tail(s)[k] = s[k + 1]
      BY <2>1, <2>5, HeadTailProperties
    <3>2. i \in 1..(Len(s) - 1) /\ i + 1 \in DOMAIN s
      BY <2>1, <2>2, <2>5, <3>1
    <3>3. runs'[p][i] = s[i + 1]
      BY <2>1, <2>5, <3>1, <3>2
    <3>4. s[i + 1].attempt = jobs'[s[i + 1].job].retries /\ i + 1 = Len(s)
      BY <1>2, <2>3, <3>2, <3>3
    <3>5. i = Len(s) - 1
      BY <2>2, <3>2, <3>4
    <3> QED
      BY <2>1, <2>5, <3>1, <3>3, <3>4, <3>5
  <2>6. CASE runs'[p] = <<>>
    BY <2>6
  <2>7. CASE /\ \A k \in DOMAIN runs[p] : runs[p][k].abandoned
             /\ \E run \in RunType : /\ runs'[p] = Append(runs[p], run)
                                     /\ run.attempt = jobs'[run.job].retries
                                     /\ ~run.abandoned /\ run.step = "begin"
    <3>1. PICK run \in RunType : /\ runs'[p] = Append(s, run)
                                 /\ run.attempt = jobs'[run.job].retries
      BY <2>1, <2>7
    <3>2. /\ Len(Append(s, run)) = Len(s) + 1 /\ DOMAIN Append(s, run) = 1..(Len(s) + 1)
          /\ \A k \in 1..Len(s) : Append(s, run)[k] = s[k]
          /\ Append(s, run)[Len(s) + 1] = run
      BY AppendProperties
    <3>3. i = Len(s) + 1
      <4>1. i \notin 1..Len(s)
        BY <1>2, <2>1, <2>2, <2>7, <3>1, <3>2
      <4> QED
        BY <2>2, <3>1, <3>2, <4>1
    <3> QED
      BY <3>1, <3>2, <3>3
  <2> QED
    BY <2>4, <2>5, <2>6, <2>7, StepTurns DEF Turns
<1>3. ASSUME NEW p \in Processes, p \notin scenario'.processes PROVE runs'[p] = <<>>
  <2>1. runs[p] = <<>>
    BY <1>0, <1>3 DEF Order
  <2>2. ASSUME NEW q \in scenario.processes PROVE q # p /\ q \in Processes
    BY <1>0, <1>3
  <2>3. runs'[p] = runs[p]
    <3>1. CASE UNCHANGED vars
      BY <3>1 DEF vars
    <3>2. CASE \E q \in scenario.processes : Poll(q) \/ Handle(q) \/ Disturb(q)
      BY <2>2, <3>2, ZenonT(40)
         DEF Poll, Fetch, Handle, Defer, Begin, Upsert, Execute, CheckTransition,
             WriteTransition, Reschedule, Settle, Disturb, StorageFault, Expire, Crash,
             Goto, Leave, Books, Types
    <3> QED
      BY <3>1, <3>2
         DEF Next, Step, Dispatch, SetContestMode, RetryMilestone, Serve, RetryPublish,
             RetryCheck, RetryWrite, Maintain, ExpireLost
  <2> QED
    BY <2>1, <2>3
<1>4. ASSUME spent'["expiry"] = 0, NEW p \in Processes, NEW i \in DOMAIN runs'[p]
      PROVE  ~runs'[p][i].abandoned
  <2>0. spent["expiry"] = 0
    BY <1>4, SpentGrows DEF Spending
  <2>1. PICK s \in Seq(RunType) : s = runs[p] /\ \A k \in DOMAIN s : ~s[k].abandoned
    BY <2>0 DEF Books, Types, Order
  <2>2. DOMAIN s = 1..Len(s) /\ Len(s) \in Nat
    BY <2>1
  <2>3. CASE runs[p] # <<>> /\ runs'[p] = Tail(runs[p])
    <3>1. /\ DOMAIN Tail(s) = 1..(Len(s) - 1) /\ Len(s) > 0
          /\ \A k \in 1..(Len(s) - 1) : Tail(s)[k] = s[k + 1]
      BY <2>1, <2>3, HeadTailProperties
    <3>2. i \in 1..(Len(s) - 1) /\ i + 1 \in DOMAIN s
      BY <2>1, <2>2, <2>3, <3>1
    <3> QED
      BY <2>1, <2>3, <3>1, <3>2
  <2>4. ASSUME NEW run \in RunType, runs'[p] = Append(runs[p], run), ~run.abandoned
        PROVE  ~runs'[p][i].abandoned
    <3>2. /\ DOMAIN Append(s, run) = 1..(Len(s) + 1)
          /\ \A k \in 1..Len(s) : Append(s, run)[k] = s[k]
          /\ Append(s, run)[Len(s) + 1] = run
      BY AppendProperties
    <3>3. i \in 1..Len(s) \/ i = Len(s) + 1
      BY <2>1, <2>2, <2>4, <3>2
    <3> QED
      BY <2>1, <2>2, <2>4, <3>2, <3>3
  <2>5. CASE /\ DOMAIN runs'[p] = DOMAIN runs[p]
             /\ \A k \in DOMAIN runs[p] :
                   runs'[p][k].abandoned # runs[p][k].abandoned => spent'["expiry"] # 0
    BY <1>4, <2>1, <2>5
  <2> QED
    BY <2>3, <2>4, <2>5, StepTurns DEF Turns
<1>5. ASSUME spent'["pause"] = 0, NEW p \in Processes PROVE ~paused'[p]
  <2>0. spent["pause"] = 0 /\ ~paused[p]
    BY <1>5, SpentGrows DEF Spending, Order
  <2>1. CASE UNCHANGED paused
    BY <2>0, <2>1
  <2>2. ASSUME NEW q \in Processes, Crash(q) PROVE ~paused'[p]
    BY <2>0, <2>2 DEF Crash, Books, Types
  <2>3. ASSUME NEW q \in Processes, NEW mode \in BOOLEAN, SetContestMode(q, mode)
        PROVE  ~paused'[p]
    <3>1. ~mode
      <4>1. SUFFICES ASSUME mode PROVE FALSE
        OBVIOUS
      <4>2. spent'["pause"] = spent["pause"] + 1
        BY <2>3, <4>1, SpendType DEF SetContestMode, Books, Types, Spending
      <4> QED
        BY <1>5, <2>0, <4>2
    <3> QED
      BY <2>0, <2>3, <3>1 DEF SetContestMode, Books, Types
  <2>4. \/ UNCHANGED paused
        \/ \E q \in Processes : Crash(q) \/ \E mode \in BOOLEAN : SetContestMode(q, mode)
    <3>1. CASE UNCHANGED vars
      BY <3>1 DEF vars
    <3>2. CASE Step
      BY <1>0, <3>2
         DEF Step, Dispatch, Poll, Fetch, Handle, Defer, Begin, Upsert, Execute,
             CheckTransition, WriteTransition, Reschedule, Settle, Disturb, StorageFault,
             Expire, RetryMilestone, Serve, RetryPublish, RetryCheck, RetryWrite, Maintain,
             ExpireLost
    <3> QED
      BY <3>1, <3>2 DEF Next
  <2> QED
    BY <2>1, <2>2, <2>3, <2>4
<1> QED
    BY <1>1, <1>2, <1>3, <1>4, <1>5 DEF Order

\* Fewer things went wrong than a job has attempts.
Fit ==
    /\ Mishaps < MaxAttempts /\ Mishaps <= EventRetries
    /\ spent["pause"] = 0
    /\ Alone \/ spent["expiry"] = 0

\* A job with an attempt to spare: each attempt it used up went with a mishap,
\* and the one running has not ended without one.
Spare(j) ==
    \/ jobs[j].state = "created"
    \/ jobs[j].state = "retry" /\ jobs[j].retries < Mishaps
    \/ /\ jobs[j].state = "active" /\ jobs[j].retries <= Mishaps
       /\ \A p \in Processes : \A i \in DOMAIN runs[p] :
             (runs[p][i].job = j /\ ~runs[p][i].abandoned) =>
                /\ runs[p][i].step \notin {"done", "reschedule"}
                /\ runs[p][i].step = "throw" => jobs[j].retries < Mishaps
       /\ jobs[j].retries < Mishaps \/ \E p \in Processes : Held(p, j)

\* A first attempt that has not written the record yet.
Fresh(j) == \E p \in Processes : \E i \in DOMAIN runs[p] :
               /\ runs[p][i].job = j /\ runs[p][i].attempt = 0
               /\ runs[p][i].step \in {"begin", "upsert"}

\* The record says no more than that a first attempt was made, if any.
Open(m) == records[m].status \in {"none", "in_progress"}

\* A first attempt may put the record back to "in progress", and its job has then
\* an attempt to spare; a milestone with such a record has a job that does.
Hopeful ==
    Fit =>
        /\ \A j \in DOMAIN jobs : Fresh(j) => Spare(j)
        /\ \A j \in DOMAIN jobs : Open(jobs[j].milestone) =>
              \E k \in DOMAIN jobs : jobs[k].milestone = jobs[j].milestone /\ Spare(k)

LEMMA MishapsType ==
    ASSUME Books
    PROVE  /\ Mishaps \in Nat
           /\ \A j \in DOMAIN jobs : jobs[j] \in JobType /\ jobs[j].retries \in Nat
                                   /\ jobs[j].limit \in Nat
<1>1. \A j \in DOMAIN jobs : jobs[j] \in JobType
    BY DEF Books, Types
<1> QED
    BY <1>1 DEF Books, Types, Spending, Mishaps, JobType

LEMMA MishapsGrow ==
    ASSUME Books, [Next]_vars
    PROVE  /\ Mishaps' \in Nat /\ Mishaps' >= Mishaps
           /\ \A what \in {"fault", "crash", "expiry"} : Spend(what) => Mishaps' = Mishaps + 1
           /\ Fit' => Fit
<1>1. \A what \in Spending : /\ spent'[what] >= spent[what]
                             /\ spent'[what] \in Nat /\ spent[what] \in Nat
    BY SpentGrows
<1>2. Mishaps' \in Nat /\ Mishaps' >= Mishaps /\ Mishaps \in Nat
    BY <1>1 DEF Mishaps, Spending
<1>3. ASSUME NEW what \in {"fault", "crash", "expiry"}, Spend(what)
      PROVE  Mishaps' = Mishaps + 1
  <2>1. what \in Spending
    BY DEF Spending
  <2>2. /\ spent'[what] = spent[what] + 1
        /\ \A other \in Spending : other # what => spent'[other] = spent[other]
    BY <1>3, <2>1, SpendType DEF Books, Types
  <2> QED
    BY <1>1, <2>2 DEF Mishaps, Spending
<1>4. ASSUME Fit' PROVE Fit
  <2>1. UNCHANGED scenario
    BY DEF Next, vars
  <2>2. Alone' => Alone
    BY <2>1 DEF Alone
  <2>3. Mishaps < MaxAttempts /\ Mishaps <= EventRetries
    BY <1>2, <1>4, ConstantsAssumption DEF Fit
  <2>4. spent["pause"] = 0 /\ (spent'["expiry"] = 0 => spent["expiry"] = 0)
    BY <1>1, <1>4 DEF Fit, Spending
  <2> QED
    BY <1>4, <2>2, <2>3, <2>4 DEF Fit
<1> QED
    BY <1>2, <1>3, <1>4

\* While fewer things went wrong, no job that a mishap ended is out of attempts.
LEMMA LimitsFit ==
    ASSUME Books, Order, Fit, NEW j \in DOMAIN jobs
    PROVE  Mishaps <= jobs[j].limit
<1>1. jobs[j].limit \in {MaxAttempts - 1, EventRetries}
    BY DEF Order
<1> QED
    BY <1>1, MishapsType, ConstantsAssumption DEF Fit

\* A handler pg-boss waits for is alone with its job.
LEMMA SoleRun ==
    ASSUME Books, Order, Fit, NEW q \in Processes, runs[q] # <<>>, ~Run(q).abandoned,
           NEW p \in Processes, NEW i \in DOMAIN runs[p], runs[p][i].job = Run(q).job
    PROVE  p = q /\ i = 1
<1>0. 1 \in DOMAIN runs[q] /\ Run(q) = runs[q][1]
    BY HeadRun DEF Books
<1>1. CASE ~runs[p][i].abandoned
    BY <1>0, <1>1 DEF Books, Answered, OneAnswers
<1>2. CASE runs[p][i].abandoned
  <2>1. Alone
    BY <1>2 DEF Order, Fit
  <2>2. runs[p] # <<>>
    OBVIOUS
  <2>3. PICK s \in Processes : scenario.processes = {s}
    BY <2>1, TheOne
  <2>4. p = q
    BY <2>2, <2>3 DEF Order
  <2>5. 1 = Len(runs[q])
    BY <1>0 DEF Order
  <2>6. DOMAIN runs[q] = 1..Len(runs[q])
    BY DEF Books, Types
  <2> QED
    BY <2>4, <2>5, <2>6
<1> QED
    BY <1>1, <1>2

\* The job stays as it is and so, but for mishaps, does its handler.
LEMMA SpareSame ==
    ASSUME Books, NEW j \in DOMAIN jobs, Spare(j), jobs'[j] = jobs[j],
           Mishaps' \in Nat, Mishaps' >= Mishaps,
           \A p \in Processes : \A i \in DOMAIN runs'[p] :
              (runs'[p][i].job = j /\ ~runs'[p][i].abandoned) =>
                 /\ runs'[p][i].step \notin {"done", "reschedule"}
                 /\ runs'[p][i].step = "throw" => jobs[j].retries < Mishaps',
           (\E p \in Processes : Held(p, j)) =>
              Mishaps' >= Mishaps + 1 \/ \E p \in Processes : Held(p, j)'
    PROVE  Spare(j)'
<1>1. jobs[j].retries \in Nat /\ Mishaps \in Nat
    BY MishapsType
<1>2. /\ jobs[j].retries <= Mishaps => jobs[j].retries <= Mishaps'
      /\ jobs[j].retries < Mishaps => jobs[j].retries < Mishaps'
      /\ jobs[j].retries <= Mishaps /\ Mishaps' >= Mishaps + 1 => jobs[j].retries < Mishaps'
    BY <1>1
<1> QED
    BY <1>2 DEF Spare

\* The handler of q goes on to another step.
LEMMA SpareHead ==
    ASSUME Books, [Next]_vars, NEW j \in DOMAIN jobs, Spare(j), jobs'[j] = jobs[j],
           NEW q \in Processes, NEW r \in RunType, HeadSteps(q, r),
           (Run(q).job = j /\ ~Run(q).abandoned) =>
              /\ r.step \notin {"done", "reschedule"}
              /\ r.step = "throw" => Mishaps' >= Mishaps + 1
    PROVE  Spare(j)'
<1>0. /\ Mishaps' \in Nat /\ Mishaps' >= Mishaps /\ Mishaps \in Nat
      /\ jobs[j].retries \in Nat
    BY MishapsGrow, MishapsType
<1>1. /\ \A p \in Processes : DOMAIN runs'[p] = DOMAIN runs[p]
      /\ \A p \in Processes : \A i \in DOMAIN runs[p] :
            runs'[p][i] = IF p = q /\ i = 1 THEN r ELSE runs[p][i]
      /\ 1 \in DOMAIN runs[q] /\ Run(q) = runs[q][1]
      /\ r.job = Run(q).job /\ r.abandoned = Run(q).abandoned
    BY HeadMoves DEF HeadSteps, Books, Run
<1>2. ASSUME NEW p \in Processes, NEW i \in DOMAIN runs'[p],
             runs'[p][i].job = j, ~runs'[p][i].abandoned
      PROVE  /\ runs'[p][i].step \notin {"done", "reschedule"}
             /\ runs'[p][i].step = "throw" => jobs[j].retries < Mishaps'
  <2>0. i \in DOMAIN runs[p]
    BY <1>1
  <2>1. runs[p][i].job = j /\ ~runs[p][i].abandoned
    BY <1>1, <1>2, <2>0
  <2>2. jobs[j].state = "active"
    BY <2>0, <2>1 DEF Books, Answered
  <2>3. /\ jobs[j].retries <= Mishaps
        /\ runs[p][i].step \notin {"done", "reschedule"}
        /\ runs[p][i].step = "throw" => jobs[j].retries < Mishaps
    BY <2>0, <2>1, <2>2 DEF Spare
  <2>4. CASE p = q /\ i = 1
    <3>1. /\ runs'[p][i] = r
          /\ r.step \notin {"done", "reschedule"}
          /\ r.step = "throw" => Mishaps' >= Mishaps + 1
      BY <1>1, <2>0, <2>1, <2>4
    <3> QED
      BY <1>0, <2>3, <3>1
  <2>5. CASE ~(p = q /\ i = 1)
    <3>1. runs'[p][i] = runs[p][i]
      BY <1>1, <2>0, <2>5
    <3> QED
      BY <1>0, <2>3, <3>1
  <2> QED
    BY <2>4, <2>5
<1>3. ASSUME NEW p \in Processes, Held(p, j) PROVE Held(p, j)'
    BY <1>1, <1>3 DEF Held
<1> QED
    BY <1>0, <1>2, <1>3, SpareSame

LEMMA SpareIdle ==
    ASSUME Books, [Next]_vars, NEW j \in DOMAIN jobs, Spare(j), jobs'[j] = jobs[j],
           UNCHANGED runs
    PROVE  Spare(j)'
<1>0. /\ Mishaps' \in Nat /\ Mishaps' >= Mishaps /\ Mishaps \in Nat
      /\ jobs[j].retries \in Nat
    BY MishapsGrow, MishapsType
<1>1. ASSUME NEW p \in Processes, NEW i \in DOMAIN runs'[p],
             runs'[p][i].job = j, ~runs'[p][i].abandoned
      PROVE  /\ runs'[p][i].step \notin {"done", "reschedule"}
             /\ runs'[p][i].step = "throw" => jobs[j].retries < Mishaps'
  <2>1. jobs[j].state = "active"
    BY <1>1 DEF Books, Answered
  <2> QED
    BY <1>0, <1>1, <2>1 DEF Spare
<1>2. ASSUME NEW p \in Processes, Held(p, j) PROVE Held(p, j)'
    BY <1>2 DEF Held
<1> QED
    BY <1>0, <1>1, <1>2, SpareSame

LEMMA SparePutBack ==
    ASSUME Books, NEW j \in DOMAIN jobs, NEW end \in {"failed", "expired"},
           jobs'[j] = PutBack(jobs[j], end), Mishaps' \in Nat, jobs[j].retries < Mishaps',
           Mishaps' <= jobs[j].limit
    PROVE  Spare(j)'
<1>1. jobs[j] \in JobType /\ jobs[j].retries \in Nat /\ jobs[j].limit \in Nat
    BY MishapsType
<1>2. jobs[j].retries < jobs[j].limit
    BY <1>1
<1>3. jobs'[j].state = "retry" /\ jobs'[j].retries = jobs[j].retries
    BY <1>1, <1>2 DEF PutBack, JobType
<1> QED
    BY <1>3 DEF Spare

\* A handler that ends: a job whose attempt a mishap ended has another one.
LEMMA SpareSettle ==
    ASSUME Books, [Next]_vars, Order, Fit, NEW j \in DOMAIN jobs, Spare(j),
           NEW q \in Processes, Settle(q)
    PROVE  Spare(j)'
<1>0. /\ Mishaps' \in Nat /\ Mishaps' >= Mishaps /\ Mishaps \in Nat /\ UNCHANGED spent
      /\ jobs[j].retries \in Nat /\ Mishaps' = Mishaps
    BY MishapsGrow, MishapsType DEF Settle, Mishaps
<1>1. PICK s \in Seq(RunType) : s = runs[q] /\ s # <<>>
    BY DEF Settle, Running, Books, Types
<1>2. /\ DOMAIN Tail(s) = 1..(Len(s) - 1) /\ DOMAIN s = 1..Len(s)
      /\ \A i \in 1..(Len(s) - 1) : Tail(s)[i] = s[i + 1]
      /\ Len(s) \in Nat /\ Len(s) > 0
    BY <1>1, HeadTailProperties
<1>3. /\ runs'[q] = Tail(s) /\ \A p \in Processes : p # q => runs'[p] = runs[p]
      /\ Run(q) = s[1] /\ 1 \in DOMAIN s
    BY <1>1, <1>2 DEF Settle, Leave, Books, Types, Run
<1>4. CASE Run(q).job = j /\ ~Run(q).abandoned
  <2>1. /\ jobs[j].state = "active" /\ Run(q).step \in {"done", "throw"}
        /\ Run(q).step # "done"
        /\ Run(q).step = "throw" => jobs[j].retries < Mishaps
    <3>1. jobs[j].state = "active"
      BY <1>1, <1>3, <1>4 DEF Books, Answered
    <3>2. Run(q).step \in {"done", "throw"}
      BY DEF Settle, Running, Run
    <3>3. 1 \in DOMAIN runs[q] /\ runs[q][1].job = j /\ ~runs[q][1].abandoned
          /\ Run(q) = runs[q][1]
      BY <1>1, <1>3, <1>4
    <3> QED
      BY <3>1, <3>2, <3>3 DEF Spare
  <2>2. jobs'[j] = PutBack(jobs[j], "failed")
    BY <1>4, <2>1 DEF Settle, Books, Types
  <2>3. Mishaps' <= jobs[j].limit
    BY <1>0, LimitsFit
  <2> QED
    BY <1>0, <2>1, <2>2, <2>3, SparePutBack
<1>5. CASE ~(Run(q).job = j /\ ~Run(q).abandoned)
  <2>1. jobs'[j] = jobs[j]
    <3>1. CASE Run(q).abandoned
      BY <3>1 DEF Settle
    <3>2. CASE Run(q).job # j
      BY <3>2 DEF Settle, Books, Types
    <3> QED
      BY <1>5, <3>1, <3>2
  <2>2. ASSUME NEW p \in Processes, NEW i \in DOMAIN runs'[p],
               runs'[p][i].job = j, ~runs'[p][i].abandoned
        PROVE  /\ runs'[p][i].step \notin {"done", "reschedule"}
               /\ runs'[p][i].step = "throw" => jobs[j].retries < Mishaps'
    <3>1. PICK k \in DOMAIN runs[p] : runs'[p][i] = runs[p][k]
      <4>1. CASE p = q
        <5>1. i \in 1..(Len(s) - 1) /\ i + 1 \in DOMAIN s
          BY <1>2, <1>3, <4>1
        <5>2. runs'[p][i] = s[i + 1]
          BY <1>2, <1>3, <4>1, <5>1
        <5> QED
          BY <1>1, <4>1, <5>1, <5>2
      <4>2. CASE p # q
        BY <1>3, <4>2
      <4> QED
        BY <4>1, <4>2
    <3>2. jobs[j].state = "active"
      BY <2>2, <3>1 DEF Books, Answered
    <3> QED
      BY <1>0, <2>2, <3>1, <3>2 DEF Spare
  <2>3. ASSUME NEW p \in Processes, Held(p, j) PROVE Held(p, j)'
    <3>1. PICK k \in DOMAIN runs[p] : runs[p][k].job = j /\ ~runs[p][k].abandoned
      BY <2>3 DEF Held
    <3>2. PICK i \in DOMAIN runs'[p] : runs'[p][i] = runs[p][k]
      <4>1. CASE p = q
        <5>1. k # 1 /\ k \in 1..Len(s)
          BY <1>1, <1>2, <1>3, <1>5, <3>1, <4>1
        <5>2. k - 1 \in 1..(Len(s) - 1) /\ (k - 1) + 1 = k
          BY <1>2, <5>1
        <5>3. k - 1 \in DOMAIN runs'[p] /\ runs'[p][k - 1] = s[k]
          <6>1. Tail(s)[k - 1] = s[k]
            BY <1>2, <5>2
          <6>2. runs'[p] = Tail(s)
            BY <1>3, <4>1
          <6> QED
            BY <1>2, <5>2, <6>1, <6>2
        <5> QED
          BY <1>1, <4>1, <5>3
      <4>2. CASE p # q
        BY <1>3, <4>2
      <4> QED
        BY <4>1, <4>2
    <3> QED
      BY <3>1, <3>2 DEF Held
  <2> QED
    BY <1>0, <2>1, <2>2, <2>3, SpareSame
<1> QED
    BY <1>4, <1>5

\* A crash ends the attempts of its process, and is a mishap.
LEMMA SpareCrash ==
    ASSUME Books, [Next]_vars, NEW j \in DOMAIN jobs, Spare(j), NEW q \in Processes, Crash(q)
    PROVE  Spare(j)'
<1>0. /\ Mishaps' \in Nat /\ Mishaps' >= Mishaps /\ Mishaps \in Nat
      /\ jobs[j].retries \in Nat /\ Mishaps' >= Mishaps + 1
  <2>1. Mishaps' = Mishaps + 1 /\ Mishaps \in Nat /\ jobs[j].retries \in Nat
    BY MishapsGrow, MishapsType DEF Crash
  <2> QED
    BY <2>1
<1>1. ASSUME NEW p \in Processes, NEW i \in DOMAIN runs'[p],
             runs'[p][i].job = j, ~runs'[p][i].abandoned
      PROVE  /\ runs'[p][i].step \notin {"done", "reschedule"}
             /\ runs'[p][i].step = "throw" => jobs[j].retries < Mishaps'
  <2>1. i \in DOMAIN runs[p] /\ runs'[p][i] = runs[p][i]
    BY DEF Crash, Books, Types
  <2>2. jobs[j].state = "active"
    BY <1>1, <2>1 DEF Books, Answered
  <2> QED
    BY <1>0, <1>1, <2>1, <2>2 DEF Spare
<1>2. jobs'[j] = jobs[j]
    BY DEF Crash
<1> QED
    BY <1>0, <1>1, <1>2, SpareSame

\* Maintenance puts back a job whose process crashed.
LEMMA SpareLost ==
    ASSUME Books, [Next]_vars, Order, Fit, NEW j \in DOMAIN jobs, Spare(j),
           NEW k \in DOMAIN jobs, ExpireLost(k)
    PROVE  Spare(j)'
<1>0. Mishaps' = Mishaps /\ Mishaps \in Nat
    BY MishapsType DEF ExpireLost, Mishaps
<1>1. CASE k = j
  <2>1. jobs[j].state = "active" /\ ~\E p \in Processes : Held(p, j)
    BY <1>1 DEF ExpireLost
  <2>2. jobs[j].retries < Mishaps'
    BY <1>0, <2>1 DEF Spare
  <2>3. jobs'[j] = PutBack(jobs[j], "expired")
    BY <1>1 DEF ExpireLost, Books, Types
  <2>4. Mishaps' <= jobs[j].limit
    BY <1>0, LimitsFit
  <2> QED
    BY <1>0, <2>2, <2>3, <2>4, SparePutBack
<1>2. CASE k # j
  <2>1. jobs'[j] = jobs[j] /\ UNCHANGED runs
    BY <1>2 DEF ExpireLost, Books, Types
  <2> QED
    BY <2>1, SpareIdle
<1> QED
    BY <1>1, <1>2

\* The timer gives up an attempt, which is a mishap.
LEMMA SpareExpire ==
    ASSUME Books, [Next]_vars, Order, Fit', NEW j \in DOMAIN jobs, Spare(j),
           NEW q \in Processes, NEW h \in DOMAIN runs[q], Expire(q, h)
    PROVE  Spare(j)'
<1>0. /\ Mishaps' \in Nat /\ Mishaps' >= Mishaps /\ Mishaps \in Nat
      /\ jobs[j].retries \in Nat /\ Mishaps' = Mishaps + 1
    BY MishapsGrow, MishapsType DEF Expire
<1> DEFINE run == [runs[q][h] EXCEPT !.abandoned = TRUE]
<1>1. run \in RunType /\ run.abandoned = TRUE
  <2>1. runs[q][h] \in RunType
    BY DEF Books, Types
  <2> QED
    BY <2>1 DEF RunType
<1>2. Replaces(q, h, run)
    BY DEF Expire, Replaces
<1> HIDE DEF run
<1>3. /\ \A p \in Processes : DOMAIN runs'[p] = DOMAIN runs[p]
      /\ \A p \in Processes : \A i \in DOMAIN runs[p] :
            runs'[p][i] = IF p = q /\ i = h THEN run ELSE runs[p][i]
    BY <1>1, <1>2, PlaceMoves DEF Books
<1>4. CASE runs[q][h].job = j
  <2>1. jobs[j].state = "active"
    BY <1>4 DEF Expire, Books, Answered
  <2>2. jobs[j].retries < Mishaps'
    BY <1>0, <2>1 DEF Spare
  <2>3. jobs'[j] = PutBack(jobs[j], "failed")
    BY <1>4 DEF Expire, Books, Types
  <2>4. Mishaps' <= jobs[j].limit
    <3>1. jobs[j].limit \in {MaxAttempts - 1, EventRetries}
      BY DEF Order
    <3>2. Mishaps' < MaxAttempts /\ Mishaps' <= EventRetries
      BY DEF Fit
    <3> QED
      BY <1>0, <3>1, <3>2, ConstantsAssumption
  <2> QED
    BY <1>0, <2>2, <2>3, <2>4, SparePutBack
<1>5. CASE runs[q][h].job # j
  <2>1. jobs'[j] = jobs[j]
    BY <1>5 DEF Expire, Books, Types
  <2>2. ASSUME NEW p \in Processes, NEW i \in DOMAIN runs'[p],
               runs'[p][i].job = j, ~runs'[p][i].abandoned
        PROVE  /\ runs'[p][i].step \notin {"done", "reschedule"}
               /\ runs'[p][i].step = "throw" => jobs[j].retries < Mishaps'
    <3>1. i \in DOMAIN runs[p] /\ runs'[p][i] = runs[p][i]
      BY <1>1, <1>3, <2>2
    <3>2. jobs[j].state = "active"
      BY <2>2, <3>1 DEF Books, Answered
    <3> QED
      BY <1>0, <2>2, <3>1, <3>2 DEF Spare
  <2>3. ASSUME NEW p \in Processes, Held(p, j) PROVE Held(p, j)'
    <3>1. PICK k \in DOMAIN runs[p] : runs[p][k].job = j /\ ~runs[p][k].abandoned
      BY <2>3 DEF Held
    <3>2. k \in DOMAIN runs'[p] /\ runs'[p][k] = runs[p][k]
      BY <1>3, <1>5, <3>1
    <3> QED
      BY <3>1, <3>2 DEF Held
  <2> QED
    BY <1>0, <2>1, <2>2, <2>3, SpareSame
<1> QED
    BY <1>4, <1>5

\* A process takes a job: one that a mishap put back is one attempt further.
LEMMA SpareFetch ==
    ASSUME Books, [Next]_vars, Order, NEW j \in DOMAIN jobs, Spare(j),
           NEW q \in Processes, NEW k \in DOMAIN jobs, Fetch(q, k)
    PROVE  Spare(j)'
<1>0. /\ Mishaps' = Mishaps /\ Mishaps \in Nat
      /\ jobs[j] \in JobType /\ jobs[j].retries \in Nat
    BY MishapsType DEF Fetch, Mishaps
<1>1. PICK s \in Seq(RunType) : s = runs[q]
    BY DEF Books, Types
<1> DEFINE run == [job |-> k, attempt |-> Fetched(jobs[k]).retries, tracked |-> 0,
                   step |-> "begin", abandoned |-> FALSE]
<1>2. /\ runs'[q] = Append(s, run) /\ \A p \in Processes : p # q => runs'[p] = runs[p]
      /\ run.job = k /\ run.step = "begin" /\ ~run.abandoned
    BY <1>1 DEF Fetch, Books, Types
<1>3. /\ DOMAIN Append(s, run) = 1..(Len(s) + 1) /\ DOMAIN s = 1..Len(s) /\ Len(s) \in Nat
      /\ \A i \in 1..Len(s) : Append(s, run)[i] = s[i]
      /\ Append(s, run)[Len(s) + 1] = run
  <2>1. \A i \in 1..Len(s) : Append(s, run)[i] = s[i]
    OBVIOUS
  <2> QED
    BY <2>1
<1> HIDE DEF run
<1>4. ASSUME NEW p \in Processes, NEW i \in DOMAIN runs'[p]
      PROVE  \/ i \in DOMAIN runs[p] /\ runs'[p][i] = runs[p][i]
             \/ runs'[p][i] = run
  <2>1. CASE p = q
    <3>1. i \in 1..Len(s) \/ i = Len(s) + 1
      BY <1>2, <1>3, <2>1
    <3> QED
      BY <1>1, <1>2, <1>3, <2>1, <3>1
  <2> QED
    BY <1>2, <2>1
<1>5. ASSUME NEW p \in Processes, NEW i \in DOMAIN runs[p]
      PROVE  i \in DOMAIN runs'[p] /\ runs'[p][i] = runs[p][i]
  <2>1. CASE p = q
    <3>1. i \in 1..Len(s) /\ i \in 1..(Len(s) + 1)
      BY <1>1, <1>3, <2>1
    <3> QED
      BY <1>1, <1>2, <1>3, <2>1, <3>1
  <2> QED
    BY <1>2, <2>1
<1>6. jobs[k].state \in {"created", "retry"}
    BY DEF Fetch
<1>7. CASE k = j
  <2>1. jobs'[j] = Fetched(jobs[j])
    BY <1>7 DEF Fetch, Books, Types
  <2>2. jobs'[j].state = "active" /\ jobs'[j].retries <= Mishaps'
    <3>1. CASE jobs[j].state = "created"
      <4>1. jobs[j].retries = 0
        BY <3>1 DEF Order
      <4> QED
        BY <1>0, <2>1, <3>1, <4>1 DEF Fetched, JobType
    <3>2. CASE jobs[j].state = "retry"
      <4>1. jobs[j].retries < Mishaps
        BY <3>2 DEF Spare
      <4>2. jobs'[j].state = "active" /\ jobs'[j].retries = jobs[j].retries + 1
        BY <1>0, <2>1, <3>2 DEF Fetched, JobType
      <4> QED
        BY <1>0, <4>1, <4>2
    <3> QED
      BY <1>6, <1>7, <3>1, <3>2
  <2>3. ASSUME NEW p \in Processes, NEW i \in DOMAIN runs'[p],
               runs'[p][i].job = j, ~runs'[p][i].abandoned
        PROVE  runs'[p][i].step = "begin"
    <3>1. CASE runs'[p][i] = run
      BY <1>2, <3>1
    <3>2. CASE i \in DOMAIN runs[p] /\ runs'[p][i] = runs[p][i]
      BY <1>6, <1>7, <2>3, <3>2 DEF Books, Answered
    <3> QED
      BY <1>4, <3>1, <3>2
  <2>4. Held(q, j)'
    <3>1. Len(s) + 1 \in DOMAIN runs'[q] /\ runs'[q][Len(s) + 1] = run
      BY <1>2, <1>3
    <3> QED
      BY <1>2, <1>7, <3>1 DEF Held
  <2> QED
    BY <2>2, <2>3, <2>4 DEF Spare
<1>8. CASE k # j
  <2>1. jobs'[j] = jobs[j]
    BY <1>8 DEF Fetch, Books, Types
  <2>2. ASSUME NEW p \in Processes, NEW i \in DOMAIN runs'[p],
               runs'[p][i].job = j, ~runs'[p][i].abandoned
        PROVE  /\ runs'[p][i].step \notin {"done", "reschedule"}
               /\ runs'[p][i].step = "throw" => jobs[j].retries < Mishaps'
    <3>1. i \in DOMAIN runs[p] /\ runs'[p][i] = runs[p][i]
      BY <1>2, <1>4, <1>8, <2>2
    <3>2. jobs[j].state = "active"
      BY <2>2, <3>1 DEF Books, Answered
    <3> QED
      BY <1>0, <2>2, <3>1, <3>2 DEF Spare
  <2>3. ASSUME NEW p \in Processes, Held(p, j) PROVE Held(p, j)'
    <3>1. PICK i \in DOMAIN runs[p] : runs[p][i].job = j /\ ~runs[p][i].abandoned
      BY <2>3 DEF Held
    <3> QED
      BY <1>5, <3>1 DEF Held
  <2>4. Mishaps' \in Nat /\ Mishaps' >= Mishaps
    BY <1>0
  <2> QED
    BY <2>1, <2>2, <2>3, <2>4, SpareSame
<1> QED
    BY <1>7, <1>8

\* The record of m says no more after the step than that a first attempt was made.
StaysOpen(m) == records'[m].status \in {"none", "in_progress"}

\* Hope is not lost in a step: a spare attempt that matters stays, a first attempt
\* begins on a job that has one, and so does a record that opens.
HopeKept ==
    \A j \in DOMAIN jobs :
        /\ (Spare(j) /\ (Fresh(j)' \/ StaysOpen(jobs[j].milestone))) => Spare(j)'
        /\ Fresh(j)' => Fresh(j) \/ Spare(j)'
        /\ StaysOpen(jobs[j].milestone) =>
              \/ Open(jobs[j].milestone)
              \/ \E k \in DOMAIN jobs : /\ jobs[k].milestone = jobs[j].milestone
                                        /\ Spare(k)'

LEMMA HopefulFrom ==
    ASSUME Books, [Next]_vars, Hopeful, JobsKept, Fit' => HopeKept
    PROVE  Hopeful'
<1> SUFFICES ASSUME Fit' PROVE (/\ \A j \in DOMAIN jobs : Fresh(j) => Spare(j)
                                /\ \A j \in DOMAIN jobs : Open(jobs[j].milestone) =>
                                      \E k \in DOMAIN jobs :
                                         jobs[k].milestone = jobs[j].milestone /\ Spare(k))'
    BY DEF Hopeful
<1>0. Fit /\ HopeKept /\ JobTurns
    BY MishapsGrow, StepJobs
<1>1. ASSUME NEW j \in DOMAIN jobs' \ DOMAIN jobs PROVE Spare(j)'
    BY <1>0 DEF JobTurns, Spare
<1>2. ASSUME NEW j \in DOMAIN jobs', Fresh(j)' PROVE Spare(j)'
  <2>1. CASE j \in DOMAIN jobs
    BY <1>0, <1>2, <2>1 DEF HopeKept, Hopeful
  <2> QED
    BY <1>1, <2>1
<1>3. ASSUME NEW j \in DOMAIN jobs', records'[jobs'[j].milestone].status \in {"none", "in_progress"}
      PROVE  \E k \in DOMAIN jobs' : jobs'[k].milestone = jobs'[j].milestone /\ Spare(k)'
  <2>1. CASE j \in DOMAIN jobs
    <3>1. jobs'[j].milestone = jobs[j].milestone /\ StaysOpen(jobs[j].milestone)
      BY <1>3, <2>1 DEF JobsKept, StaysOpen
    <3>2. CASE \E k \in DOMAIN jobs : jobs[k].milestone = jobs[j].milestone /\ Spare(k)'
      BY <3>1, <3>2 DEF JobsKept
    <3>3. CASE Open(jobs[j].milestone)
      <4>1. PICK k \in DOMAIN jobs : jobs[k].milestone = jobs[j].milestone /\ Spare(k)
        BY <1>0, <2>1, <3>3 DEF Hopeful
      <4>2. Spare(k)'
        BY <1>0, <3>1, <4>1 DEF HopeKept
      <4> QED
        BY <2>1, <3>2, <4>1, <4>2
    <3> QED
      BY <1>0, <2>1, <3>1, <3>2, <3>3 DEF HopeKept
  <2> QED
    BY <1>1, <2>1
<1> QED
    BY <1>2, <1>3 DEF Open

\* No record opens and no first attempt begins.
LEMMA HopeFrom ==
    ASSUME \A j \in DOMAIN jobs : Spare(j) => Spare(j)',
           \A j \in DOMAIN jobs : Fresh(j)' => Fresh(j) \/ Spare(j)',
           \A j \in DOMAIN jobs : StaysOpen(jobs[j].milestone) => Open(jobs[j].milestone)
    PROVE  HopeKept
BY DEF HopeKept

\* A handler goes on.  One that leaves the attempt without a mishap leaves behind
\* a record that tells how it ended.
LEMMA HopeHead ==
    ASSUME Books, [Next]_vars, Order, Fit', Hopeful,
           \A j \in DOMAIN jobs : jobs'[j] = jobs[j],
           NEW q \in Processes, NEW r \in RunType, HeadSteps(q, r),
           r.attempt = Run(q).attempt,
           r.step \in {"begin", "upsert"} => Run(q).step \in {"begin", "upsert"},
           (/\ ~Run(q).abandoned /\ Run(q).step \notin {"done", "reschedule"}
            /\ \/ r.step \in {"done", "reschedule"}
               \/ r.step = "throw" /\ ~(Mishaps' >= Mishaps + 1)) =>
              ~StaysOpen(MilestoneOf(q)),
           \A m \in Milestones : StaysOpen(m) =>
              \/ Open(m)
              \/ /\ m = MilestoneOf(q) /\ Run(q).attempt = 0
                 /\ Run(q).step = "upsert" /\ r.step = "execute"
    PROVE  HopeKept
<1>0. Fit
    BY MishapsGrow
<1>1. /\ \A p \in Processes : DOMAIN runs'[p] = DOMAIN runs[p]
      /\ \A p \in Processes : \A i \in DOMAIN runs[p] :
            runs'[p][i] = IF p = q /\ i = 1 THEN r ELSE runs[p][i]
      /\ 1 \in DOMAIN runs[q] /\ Run(q) = runs[q][1]
      /\ r.job = Run(q).job /\ r.abandoned = Run(q).abandoned
      /\ Run(q).job \in DOMAIN jobs /\ runs[q] # <<>>
    BY HeadMoves, HeadRun DEF HeadSteps, Books, Run
<1>2. ASSUME NEW j \in DOMAIN jobs, Spare(j), Fresh(j)' \/ StaysOpen(jobs[j].milestone)
      PROVE  Spare(j)'
  <2>1. CASE ~(Run(q).job = j /\ ~Run(q).abandoned)
    BY <1>2, <2>1, SpareHead
  <2>2. CASE Run(q).job = j /\ ~Run(q).abandoned
    <3>1. Run(q).step \notin {"done", "reschedule"}
      <4>1. jobs[j].state = "active"
        BY <1>1, <2>2 DEF Books, Answered
      <4> QED
        BY <1>1, <1>2, <2>2, <4>1 DEF Spare
    <3>2. CASE StaysOpen(jobs[j].milestone)
      <4>1. StaysOpen(MilestoneOf(q))
        BY <2>2, <3>2 DEF MilestoneOf
      <4> QED
        BY <1>2, <2>2, <3>1, <4>1, SpareHead
    <3>3. CASE Fresh(j)'
      <4>0. PICK p \in Processes : \E i \in DOMAIN runs'[p] :
                 runs'[p][i].job = j /\ runs'[p][i].step \in {"begin", "upsert"}
        BY <3>3 DEF Fresh
      <4>1. PICK i \in DOMAIN runs'[p] :
                 runs'[p][i].job = j /\ runs'[p][i].step \in {"begin", "upsert"}
        BY <4>0
      <4>2. i \in DOMAIN runs[p] /\ runs[p][i].job = j
        BY <1>1, <4>1
      <4>3. p = q /\ i = 1
        BY <1>0, <1>1, <2>2, <4>2, SoleRun
      <4>4. r.step \in {"begin", "upsert"}
        BY <1>1, <4>1, <4>2, <4>3
      <4> QED
        BY <1>2, <4>4, SpareHead
    <3> QED
      BY <1>2, <3>2, <3>3
  <2> QED
    BY <2>1, <2>2
<1>3. ASSUME NEW j \in DOMAIN jobs, Fresh(j)' PROVE Fresh(j)
  <2>0. PICK p \in Processes : \E i \in DOMAIN runs'[p] :
             /\ runs'[p][i].job = j /\ runs'[p][i].attempt = 0
             /\ runs'[p][i].step \in {"begin", "upsert"}
    BY <1>3 DEF Fresh
  <2>1. PICK i \in DOMAIN runs'[p] :
             /\ runs'[p][i].job = j /\ runs'[p][i].attempt = 0
             /\ runs'[p][i].step \in {"begin", "upsert"}
    BY <2>0
  <2>2. /\ i \in DOMAIN runs[p] /\ runs[p][i].job = j /\ runs[p][i].attempt = 0
        /\ runs[p][i].step \in {"begin", "upsert"}
    BY <1>1, <2>1
  <2> QED
    BY <2>2 DEF Fresh
<1>4. ASSUME NEW j \in DOMAIN jobs, StaysOpen(jobs[j].milestone)
      PROVE  \/ Open(jobs[j].milestone)
             \/ \E k \in DOMAIN jobs : jobs[k].milestone = jobs[j].milestone /\ Spare(k)'
  <2>1. jobs[j].milestone \in Milestones
    BY MishapsType DEF JobType
  <2>2. CASE /\ jobs[j].milestone = MilestoneOf(q) /\ Run(q).attempt = 0
             /\ Run(q).step = "upsert" /\ r.step = "execute"
    <3>1. PICK k \in DOMAIN jobs : k = Run(q).job
      BY <1>1
    <3>2. Fresh(k)
      BY <1>1, <2>2, <3>1 DEF Fresh
    <3>3. Spare(k)
      BY <1>0, <3>2 DEF Hopeful
    <3>4. Spare(k)'
      BY <2>2, <3>1, <3>3, SpareHead
    <3> QED
      BY <2>2, <3>1, <3>4 DEF MilestoneOf
  <2> QED
    BY <1>4, <2>1, <2>2
<1> QED
    BY <1>2, <1>3, <1>4 DEF HopeKept

\* The handler's own steps.
LEMMA HopeHandle ==
    ASSUME Books, [Next]_vars, Order, Recorded, Fit', Hopeful, NEW q \in Processes,
           \/ Begin(q) \/ Upsert(q) \/ Execute(q) \/ CheckTransition(q) \/ WriteTransition(q)
           \/ Reschedule(q) \/ StorageFault(q) \/ Defer(q)
    PROVE  HopeKept
<1>0. /\ runs[q] # <<>> /\ Run(q) \in RunType /\ MilestoneOf(q) \in Milestones
      /\ RecordOf(q).attempts \in Nat /\ Run(q).job \in DOMAIN jobs
      /\ runs[q][1] = Run(q)
  <2>1. runs[q] # <<>>
    BY DEF Begin, Upsert, Execute, CheckTransition, WriteTransition, Reschedule,
       StorageFault, Defer, Running
  <2> QED
    BY <2>1, HeadRun DEF Books
<1>1. ASSUME NEW step \in Steps, Goto(q, step), \A j \in DOMAIN jobs : jobs'[j] = jobs[j],
             step \notin {"begin", "upsert"},
             (/\ ~Run(q).abandoned /\ Run(q).step \notin {"done", "reschedule"}
              /\ \/ step \in {"done", "reschedule"}
                 \/ step = "throw" /\ ~(Mishaps' >= Mishaps + 1)) =>
                ~StaysOpen(MilestoneOf(q)),
             \A m \in Milestones : StaysOpen(m) =>
                \/ Open(m)
                \/ /\ m = MilestoneOf(q) /\ Run(q).attempt = 0
                   /\ Run(q).step = "upsert" /\ step = "execute"
      PROVE  HopeKept
  <2>1. PICK r \in RunType : r = [Run(q) EXCEPT !.step = step] /\ HeadSteps(q, r)
    BY <1>0, <1>1, GotoHead DEF Books
  <2>2. r.step = step /\ r.attempt = Run(q).attempt
    BY <1>0, <2>1 DEF RunType
  <2> QED
    BY <1>1, <2>1, <2>2, HopeHead
<1>2. ASSUME UNCHANGED records PROVE \A m \in Milestones : StaysOpen(m) => Open(m)
    BY <1>2 DEF StaysOpen, Open
<1>3. CASE Begin(q)
  <2> DEFINE r == IF AlreadyProcessed(RecordOf(q))
                  THEN [Run(q) EXCEPT !.step = "done"]
                  ELSE [Run(q) EXCEPT !.step = "upsert",
                           !.tracked = TrackedAttempts(RecordOf(q), Run(q).attempt)]
  <2>1. TrackedAttempts(RecordOf(q), Run(q).attempt) \in Nat
    BY <1>0 DEF TrackedAttempts, Larger, RunType
  <2>2. /\ r \in RunType /\ r.job = Run(q).job /\ r.abandoned = Run(q).abandoned
        /\ r.attempt = Run(q).attempt /\ r.step \in {"done", "upsert"}
        /\ r.step = "done" => RecordOf(q).status = "succeeded"
    BY <1>0, <2>1 DEF RunType, Steps, AlreadyProcessed
  <2>3. HeadSteps(q, r) /\ Run(q).step = "begin" /\ UNCHANGED <<jobs, records>>
    BY <1>0, <1>3, <2>2 DEF Begin, HeadSteps, Replaces, Running, Run
  <2> HIDE DEF r
  <2>4. r.step = "done" => ~StaysOpen(MilestoneOf(q))
    BY <1>0, <2>2, <2>3 DEF StaysOpen, RecordOf
  <2> QED
    BY <1>2, <2>2, <2>3, <2>4, HopeHead
<1>4. CASE Upsert(q)
  <2>1. ASSUME NEW m \in Milestones, StaysOpen(m)
        PROVE  Open(m) \/ (m = MilestoneOf(q) /\ Run(q).attempt = 0)
    <3>1. CASE m = MilestoneOf(q)
      <4>1. records'[m] = InitialRecord(Run(q))
        BY <1>4, <3>1 DEF Upsert, Books, Types
      <4>2. Run(q).attempt = 0
        BY <1>0, <2>1, <4>1 DEF InitialRecord, StaysOpen, RunType
      <4> QED
        BY <3>1, <4>2
    <3>2. CASE m # MilestoneOf(q)
      BY <1>4, <2>1, <3>2 DEF Upsert, Books, Types, StaysOpen, Open
    <3> QED
      BY <3>1, <3>2
  <2>2. Goto(q, "execute") /\ UNCHANGED jobs /\ Run(q).step = "upsert"
    BY <1>4 DEF Upsert, Running, Run
  <2> QED
    BY <1>1, <2>1, <2>2 DEF Steps
<1>5. CASE Execute(q)
  <2>1. PICK step \in {"succeed", "fail"} : Goto(q, step) /\ UNCHANGED <<jobs, records>>
    BY <1>5 DEF Execute
  <2> QED
    BY <1>1, <1>2, <2>1 DEF Steps
<1>6. CASE CheckTransition(q)
  <2>1. UNCHANGED <<jobs, records>>
    BY <1>6 DEF CheckTransition
  <2>2. CASE \E step \in {"succeeding", "fail", "failing"} : Goto(q, step)
    BY <1>1, <1>2, <2>1, <2>2 DEF Steps
  <2>3. CASE /\ Running(q, "fail") /\ Goto(q, "throw")
             /\ ~CanTransition(RecordOf(q).status, FailureRecord(Run(q)).status)
    <3>1. RecordOf(q).status # "none"
      BY <1>0, <2>3 DEF Recorded, StepOf, Acting, Running, Run
    <3>2. FailureRecord(Run(q)).status \in {"needs_attention", "retrying"}
      BY DEF FailureRecord
    <3>3. RecordOf(q).status # "in_progress"
      BY <2>3, <3>2 DEF CanTransition, transitionGraph
    <3>4. ~StaysOpen(MilestoneOf(q))
      BY <1>0, <2>1, <3>1, <3>3 DEF StaysOpen, RecordOf
    <3> QED
      BY <1>1, <1>2, <2>1, <2>3, <3>4 DEF Steps
  <2> QED
    BY <1>6, <2>2, <2>3 DEF CheckTransition
<1>7. CASE WriteTransition(q)
  <2>1. PICK record : /\ records' = [records EXCEPT ![MilestoneOf(q)] = record]
                      /\ record.status \notin {"none", "in_progress"}
    <3>1. /\ FailureRecord(Run(q)).status \notin {"none", "in_progress"}
          /\ [status |-> "succeeded", attempts |-> Run(q).tracked].status = "succeeded"
      BY DEF FailureRecord
    <3> QED
      BY <1>7, <3>1 DEF WriteTransition
  <2>2. ~StaysOpen(MilestoneOf(q)) /\ \A m \in Milestones : StaysOpen(m) => Open(m)
    BY <1>0, <2>1 DEF StaysOpen, Open, Books, Types
  <2>3. PICK step \in {"done", "throw"} : Goto(q, step) /\ UNCHANGED jobs
    BY <1>7 DEF WriteTransition
  <2> QED
    BY <1>1, <2>2, <2>3 DEF Steps
<1>8. CASE Reschedule(q)
  <2>1. \A j \in DOMAIN jobs : jobs'[j] = jobs[j]
    <3>1. CASE jobs' = Published(MilestoneOf(q))
      <4> DEFINE job == NewJob(MilestoneOf(q), MaxAttempts - 1, TRUE)
      <4>1. job \in JobType
        BY <1>0, ConstantsAssumption DEF NewJob, JobType
      <4>2. jobs' = Append(jobs, job)
        BY <3>1 DEF Published
      <4> HIDE DEF job
      <4> QED
        BY <4>1, <4>2, JobSent DEF Books
    <3> QED
      BY <1>8, <3>1 DEF Reschedule
  <2>2. Goto(q, "done") /\ Run(q).step = "reschedule" /\ UNCHANGED records
    BY <1>8 DEF Reschedule, Running, Run
  <2> QED
    BY <1>1, <1>2, <2>1, <2>2 DEF Steps
<1>9. CASE StorageFault(q)
  <2>1. Mishaps' = Mishaps + 1 /\ Mishaps \in Nat
    BY <1>9, MishapsGrow, MishapsType DEF StorageFault
  <2>2. Handler(Run(q).step) \in {"fail", "throw"}
    BY <1>0, <1>9 DEF Handler, StorageFault, RunType, Steps
  <2>3. PICK step \in {"fail", "throw"} : step = Handler(Run(q).step)
    BY <2>2
  <2>4. Goto(q, step) /\ UNCHANGED <<jobs, records>> /\ Mishaps' >= Mishaps + 1
    BY <1>9, <2>1, <2>3 DEF StorageFault
  <2> QED
    BY <1>1, <1>2, <2>3, <2>4 DEF Steps
<1>10. CASE Defer(q)
  <2>1. Fit
    BY MishapsGrow
  <2>2. ~paused[q]
    BY <2>1 DEF Order, Fit
  <2> QED
    BY <1>10, <2>2 DEF Defer
<1> QED
    BY <1>3, <1>4, <1>5, <1>6, <1>7, <1>8, <1>9, <1>10

\* Nobody's handler moves, and no record opens.
LEMMA HopeIdle ==
    ASSUME Books, [Next]_vars, UNCHANGED runs, \A j \in DOMAIN jobs : jobs'[j] = jobs[j],
           \A m \in Milestones : StaysOpen(m) => Open(m)
    PROVE  HopeKept
<1>1. \A j \in DOMAIN jobs : Spare(j) => Spare(j)'
    BY SpareIdle
<1>2. \A j \in DOMAIN jobs : Fresh(j)' => Fresh(j)
    BY DEF Fresh
<1>3. \A j \in DOMAIN jobs : jobs[j].milestone \in Milestones
    BY MishapsType DEF JobType
<1> QED
    BY <1>1, <1>2, <1>3, HopeFrom

\* A handler ends, its process crashes, or the timer gives an attempt up.
LEMMA HopeEnds ==
    ASSUME Books, [Next]_vars, UNCHANGED records, \A j \in DOMAIN jobs : Spare(j) => Spare(j)',
           \A p \in Processes : \A i \in DOMAIN runs'[p] : \E k \in DOMAIN runs[p] :
              /\ runs'[p][i].job = runs[p][k].job /\ runs'[p][i].attempt = runs[p][k].attempt
              /\ runs'[p][i].step = runs[p][k].step
    PROVE  HopeKept
<1>1. ASSUME NEW j \in DOMAIN jobs, Fresh(j)' PROVE Fresh(j)
  <2>1. PICK p \in Processes : \E i \in DOMAIN runs'[p] :
             /\ runs'[p][i].job = j /\ runs'[p][i].attempt = 0
             /\ runs'[p][i].step \in {"begin", "upsert"}
    BY <1>1 DEF Fresh
  <2>2. PICK k \in DOMAIN runs[p] : /\ runs[p][k].job = j /\ runs[p][k].attempt = 0
                                    /\ runs[p][k].step \in {"begin", "upsert"}
    BY <2>1
  <2> QED
    BY <2>2 DEF Fresh
<1>2. \A j \in DOMAIN jobs : StaysOpen(jobs[j].milestone) => Open(jobs[j].milestone)
    BY DEF StaysOpen, Open
<1> QED
    BY <1>1, <1>2, HopeFrom

LEMMA HopeSettle ==
    ASSUME Books, [Next]_vars, Order, Fit', NEW q \in Processes, Settle(q)
    PROVE  HopeKept
<1>1. \A j \in DOMAIN jobs : Spare(j) => Spare(j)'
    BY MishapsGrow, SpareSettle
<1>2. ASSUME NEW p \in Processes, NEW i \in DOMAIN runs'[p]
      PROVE  \E k \in DOMAIN runs[p] : runs'[p][i] = runs[p][k]
  <2>1. PICK s \in Seq(RunType) : s = runs[q] /\ s # <<>>
    BY DEF Settle, Running, Books, Types
  <2>2. /\ DOMAIN Tail(s) = 1..(Len(s) - 1) /\ DOMAIN s = 1..Len(s) /\ Len(s) \in Nat
        /\ \A k \in 1..(Len(s) - 1) : Tail(s)[k] = s[k + 1]
    BY <2>1, HeadTailProperties
  <2>3. CASE p = q
    <3>1. runs'[q] = Tail(s)
      BY <2>1 DEF Settle, Leave, Books, Types
    <3>2. i \in 1..(Len(s) - 1) /\ i + 1 \in DOMAIN s
      BY <2>2, <2>3, <3>1
    <3>3. runs'[p][i] = s[i + 1]
      BY <2>2, <2>3, <3>1, <3>2
    <3> QED
      BY <2>1, <2>3, <3>2, <3>3
  <2>4. CASE p # q
    BY <2>4 DEF Settle, Leave, Books, Types
  <2> QED
    BY <2>3, <2>4
<1>3. UNCHANGED records
    BY DEF Settle
<1> QED
    BY <1>1, <1>2, <1>3, HopeEnds

LEMMA HopeCrash ==
    ASSUME Books, [Next]_vars, NEW q \in Processes, Crash(q)
    PROVE  HopeKept
<1>1. \A j \in DOMAIN jobs : Spare(j) => Spare(j)'
    BY SpareCrash
<1>2. ASSUME NEW p \in Processes, NEW i \in DOMAIN runs'[p]
      PROVE  i \in DOMAIN runs[p] /\ runs'[p][i] = runs[p][i]
    BY DEF Crash, Books, Types
<1>3. UNCHANGED records
    BY DEF Crash
<1> QED
    BY <1>1, <1>2, <1>3, HopeEnds

LEMMA HopeExpire ==
    ASSUME Books, [Next]_vars, Order, Fit', NEW q \in Processes, NEW h \in DOMAIN runs[q],
           Expire(q, h)
    PROVE  HopeKept
<1>1. \A j \in DOMAIN jobs : Spare(j) => Spare(j)'
    BY SpareExpire
<1> DEFINE run == [runs[q][h] EXCEPT !.abandoned = TRUE]
<1>2. /\ run \in RunType /\ run.job = runs[q][h].job /\ run.attempt = runs[q][h].attempt
      /\ run.step = runs[q][h].step
  <2>1. runs[q][h] \in RunType
    BY DEF Books, Types
  <2> QED
    BY <2>1 DEF RunType
<1>3. Replaces(q, h, run) /\ UNCHANGED records
    BY DEF Expire, Replaces
<1> HIDE DEF run
<1>4. \A p \in Processes : \A i \in DOMAIN runs'[p] :
         /\ i \in DOMAIN runs[p]
         /\ runs'[p][i] = IF p = q /\ i = h THEN run ELSE runs[p][i]
    BY <1>2, <1>3, PlaceMoves DEF Books
<1>5. ASSUME NEW p \in Processes, NEW i \in DOMAIN runs'[p]
      PROVE  /\ i \in DOMAIN runs[p]
             /\ runs'[p][i].job = runs[p][i].job /\ runs'[p][i].attempt = runs[p][i].attempt
             /\ runs'[p][i].step = runs[p][i].step
    BY <1>2, <1>4
<1> QED
    BY <1>1, <1>3, <1>5, HopeEnds

LEMMA HopeLost ==
    ASSUME Books, [Next]_vars, Order, Fit', NEW k \in DOMAIN jobs, ExpireLost(k)
    PROVE  HopeKept
<1>1. \A j \in DOMAIN jobs : Spare(j) => Spare(j)'
    BY MishapsGrow, SpareLost
<1>2. UNCHANGED <<runs, records>>
    BY DEF ExpireLost
<1> QED
    BY <1>1, <1>2, HopeEnds

\* A process takes a job: its first attempt is of one that nothing was tried on.
LEMMA HopeFetch ==
    ASSUME Books, [Next]_vars, Order, NEW q \in Processes, NEW k \in DOMAIN jobs, Fetch(q, k)
    PROVE  HopeKept
<1>1. \A j \in DOMAIN jobs : Spare(j) => Spare(j)'
    BY SpareFetch
<1>2. PICK s \in Seq(RunType) : s = runs[q]
    BY DEF Books, Types
<1>3. PICK run : /\ run = [job |-> k, attempt |-> Fetched(jobs[k]).retries, tracked |-> 0,
                           step |-> "begin", abandoned |-> FALSE]
    OBVIOUS
<1>4. /\ runs'[q] = Append(s, run) /\ \A p \in Processes : p # q => runs'[p] = runs[p]
      /\ run.job = k /\ run.attempt = Fetched(jobs[k]).retries
    BY <1>2, <1>3 DEF Fetch, Books, Types
<1>5. /\ DOMAIN Append(s, run) = 1..(Len(s) + 1) /\ DOMAIN s = 1..Len(s) /\ Len(s) \in Nat
      /\ \A i \in 1..Len(s) : Append(s, run)[i] = s[i]
      /\ Append(s, run)[Len(s) + 1] = run
  <2>1. \A i \in 1..Len(s) : Append(s, run)[i] = s[i]
    OBVIOUS
  <2> QED
    BY <2>1
<1>6. ASSUME NEW j \in DOMAIN jobs, Fresh(j)' PROVE Fresh(j) \/ Spare(j)'
  <2>1. PICK p \in Processes : \E i \in DOMAIN runs'[p] :
             /\ runs'[p][i].job = j /\ runs'[p][i].attempt = 0
             /\ runs'[p][i].step \in {"begin", "upsert"}
    BY <1>6 DEF Fresh
  <2>2. PICK i \in DOMAIN runs'[p] :
             /\ runs'[p][i].job = j /\ runs'[p][i].attempt = 0
             /\ runs'[p][i].step \in {"begin", "upsert"}
    BY <2>1
  <2>3. CASE p = q /\ i = Len(s) + 1
    <3>1. j = k /\ Fetched(jobs[k]).retries = 0
      BY <1>4, <1>5, <2>2, <2>3
    <3>2. jobs[k] \in JobType /\ jobs[k].retries \in Nat /\ jobs[k].state \in {"created", "retry"}
      BY MishapsType DEF Fetch
    <3>3. jobs[k].state = "created"
      <4>1. jobs[k].state = "retry" => Fetched(jobs[k]).retries = jobs[k].retries + 1
        BY <3>2 DEF Fetched, JobType
      <4> QED
        BY <3>1, <3>2, <4>1
    <3> QED
      BY <1>1, <3>1, <3>3 DEF Spare
  <2>4. CASE ~(p = q /\ i = Len(s) + 1)
    <3>1. i \in DOMAIN runs[p] /\ runs'[p][i] = runs[p][i]
      <4>1. CASE p = q
        <5>1. i \in 1..Len(s)
          BY <1>4, <1>5, <2>4, <4>1
        <5> QED
          BY <1>2, <1>4, <1>5, <4>1, <5>1
      <4> QED
        BY <1>4, <4>1
    <3> QED
      BY <2>2, <3>1 DEF Fresh
  <2> QED
    BY <2>3, <2>4
<1>7. \A j \in DOMAIN jobs : StaysOpen(jobs[j].milestone) => Open(jobs[j].milestone)
    BY DEF StaysOpen, Open, Fetch
<1> QED
    BY <1>1, <1>6, <1>7, HopeFrom

LEMMA HopefulStep ==
    ASSUME Books, Truth, Order, Recorded, Hopeful, [Next]_vars
    PROVE  Hopeful'
<1>0. scenario.processes \subseteq Processes
    BY ConstantsAssumption DEF Books, Types, Scenario
<1>1. CASE UNCHANGED vars
  <2>1. UNCHANGED <<jobs, runs, records>>
    BY <1>1 DEF vars
  <2>2. JobsKept /\ \A m \in Milestones : StaysOpen(m) => Open(m)
    BY <2>1, Kept DEF StaysOpen, Open
  <2> QED
    BY <2>1, <2>2, HopeIdle, HopefulFrom
<1>2. ASSUME NEW q \in Processes, Handle(q) PROVE Hopeful'
  <2>0. MilestoneOf(q) \in Milestones
    BY <1>2, HeadRun DEF Handle, Defer, Begin, Upsert, Execute, CheckTransition,
       WriteTransition, Reschedule, Settle, Running, Books
  <2>1. CASE Settle(q)
    BY <2>1, SettleKept, HopeSettle, HopefulFrom
  <2>2. CASE \/ Begin(q) \/ Upsert(q) \/ Execute(q) \/ CheckTransition(q)
             \/ WriteTransition(q) \/ Reschedule(q) \/ Defer(q)
    <3>1. UNCHANGED jobs \/ jobs' = Published(MilestoneOf(q))
      BY <2>2 DEF Defer, Begin, Upsert, Execute, CheckTransition, WriteTransition, Reschedule
    <3>2. JobsKept
      BY <2>0, <3>1, Kept, KeptSent
    <3> QED
      BY <2>2, <3>2, HopeHandle, HopefulFrom
  <2> QED
    BY <1>2, <2>1, <2>2 DEF Handle
<1>3. ASSUME NEW q \in Processes, Poll(q) PROVE Hopeful'
  <2>1. PICK k \in DOMAIN jobs : Fetch(q, k)
    BY <1>3 DEF Poll
  <2>2. JobsKept
    BY <2>1, FetchKept
  <2> QED
    BY <2>1, <2>2, HopeFetch, HopefulFrom
<1>4. ASSUME NEW q \in Processes, Disturb(q) PROVE Hopeful'
  <2>1. CASE StorageFault(q)
    <3>1. JobsKept
      BY <2>1, Kept DEF StorageFault
    <3> QED
      BY <2>1, <3>1, HopeHandle, HopefulFrom
  <2>2. CASE Crash(q)
    <3>1. JobsKept
      BY <2>2, Kept DEF Crash
    <3> QED
      BY <2>2, <3>1, HopeCrash, HopefulFrom
  <2>3. ASSUME NEW h \in DOMAIN runs[q], Expire(q, h) PROVE Hopeful'
    <3>1. PICK j \in DOMAIN jobs : j = runs[q][h].job
      BY DEF Books, Types
    <3>2. JobsKept
      BY <2>3, <3>1, KeptPutBack DEF Expire
    <3> QED
      BY <2>3, <3>2, HopeExpire, HopefulFrom
  <2> QED
    BY <1>4, <2>1, <2>2, <2>3 DEF Disturb
<1>5. CASE Maintain
  <2>1. PICK k \in DOMAIN jobs : ExpireLost(k)
    BY <1>5 DEF Maintain
  <2>2. JobsKept
    BY <2>1, KeptPutBack DEF ExpireLost
  <2> QED
    BY <2>1, <2>2, HopeLost, HopefulFrom
<1>6. ASSUME UNCHANGED runs, \A m \in Milestones : StaysOpen(m) => Open(m),
             \/ UNCHANGED jobs
             \/ \E job \in JobType : jobs' = Append(jobs, job)
      PROVE  Hopeful'
  <2>1. JobsKept /\ \A j \in DOMAIN jobs : jobs'[j] = jobs[j]
    <3>1. ASSUME NEW job \in JobType, jobs' = Append(jobs, job)
          PROVE  JobsKept /\ \A j \in DOMAIN jobs : jobs'[j] = jobs[j]
      BY <3>1, JobSent DEF Books, JobsKept
    <3> QED
      BY <1>6, <3>1, Kept
  <2> QED
    BY <1>6, <2>1, HopeIdle, HopefulFrom
<1>7. ASSUME NEW m \in Milestones
      PROVE  NewJob(m, EventRetries, FALSE) \in JobType /\ NewJob(m, MaxAttempts - 1, TRUE) \in JobType
    BY ConstantsAssumption DEF NewJob, JobType
<1>8. ASSUME NEW m \in Milestones, Dispatch(m) PROVE Hopeful'
    BY <1>6, <1>7, <1>8 DEF Dispatch, StaysOpen, Open
<1>9. ASSUME NEW q \in Processes, \/ \E mode \in BOOLEAN : SetContestMode(q, mode)
                                  \/ \E m \in Milestones : RetryMilestone(q, m)
      PROVE  Hopeful'
    BY <1>6, <1>9 DEF SetContestMode, RetryMilestone, StaysOpen, Open
<1>10. ASSUME NEW r \in requests, RetryPublish(r) \/ RetryCheck(r) \/ RetryWrite(r)
       PROVE  Hopeful'
  <2>1. r.milestone \in Milestones
    BY DEF Books, Types, RequestType
  <2>2. CASE RetryWrite(r)
    <3>1. \A m \in Milestones : StaysOpen(m) => Open(m)
      BY <2>1, <2>2 DEF RetryWrite, StaysOpen, Open, Books, Types
    <3> QED
      BY <1>6, <2>2, <3>1 DEF RetryWrite
  <2>3. CASE RetryPublish(r) \/ RetryCheck(r)
    BY <1>6, <1>7, <2>1, <2>3 DEF RetryPublish, RetryCheck, Published, StaysOpen, Open
  <2> QED
    BY <1>10, <2>2, <2>3
<1> QED
    BY <1>0, <1>1, <1>2, <1>3, <1>4, <1>5, <1>8, <1>9, <1>10 DEF Next, Step, Serve

LEMMA InitHopeful == Init => Order /\ Recorded /\ Hopeful
<1> SUFFICES ASSUME Init PROVE Order /\ Recorded /\ Hopeful
    OBVIOUS
<1>1. DOMAIN jobs = {} /\ \A p \in Processes : runs[p] = <<>> /\ ~paused[p]
  <2>1. jobs = <<>>
    BY DEF Init
  <2> QED
    BY <2>1 DEF Init
<1>2. Order
    BY <1>1 DEF Order
<1>3. Recorded
    BY <1>1 DEF Recorded, StepOf, Acting
<1>4. Hopeful
    BY <1>1 DEF Hopeful
<1> QED
    BY <1>2, <1>3, <1>4

\* A milestone that nothing of it is recorded of, or no more than its first
\* attempt, has a job with an attempt to spare, and that job is in line.
LEMMA HopefulTells ==
    ASSUME Books, Truth, Hopeful
    PROVE  NeverGone
<1> SUFFICES ASSUME Fit, NEW j \in DOMAIN jobs, ~Attended(jobs[j].milestone)
             PROVE  Pending(jobs[j].milestone)
    BY DEF NeverGone, Fit
<1>1. PICK m \in Milestones : m = jobs[j].milestone
    BY MishapsType DEF JobType
<1>2. records[m] \in Record /\ records[m].status # "pending"
    BY DEF Books, Types, Truth, Accounted
<1>3. records[m].status \in Statuses \cup {"none"}
    BY <1>2, RecordTypes
<1>4. Open(m)
    BY <1>1, <1>2, <1>3 DEF Open, Attended, ALLOWED_RETRY_STATUSES, Statuses
<1>5. PICK k \in DOMAIN jobs : jobs[k].milestone = m /\ Spare(k)
    BY <1>1, <1>4 DEF Hopeful
<1>6. Live(jobs[k])
    BY <1>5 DEF Spare, Live
<1> QED
    BY <1>1, <1>5, <1>6 DEF Pending
----------------------------------------------------------------------------
(* Theorems                                                                  *)

LEMMA AllTheWhile == Spec => [](Books /\ Truth /\ Serial)
<1>1. Init => Books /\ Truth /\ Serial
    BY InitBooks, InitTruth, InitSerial
<1>2. Books /\ Truth /\ Serial /\ [Next]_vars => (Books /\ Truth /\ Serial)'
  <2> SUFFICES ASSUME Books, Truth, Serial, [Next]_vars PROVE (Books /\ Truth /\ Serial)'
    OBVIOUS
  <2>1. Books' /\ Truth'
    BY BooksStep, TruthStep
  <2> QED
    BY <2>1, SerialStep
<1> QED
    BY <1>1, <1>2, PTL DEF Spec

\* A record out of attempts has its handler still at work or is marked: a
\* handler at work is one that the queue or a process still holds.
LEMMA MarkedInTime ==
    ASSUME Books, Truth
    PROVE  BooksAreTrue
<1>1. ASSUME Undisturbed, NEW m \in Milestones, records[m].attempts >= MaxAttempts, ~Pending(m)
      PROVE  records[m].status \in {"succeeded", "needs_attention"}
  <2>1. SUFFICES ASSUME Unmarked(m) PROVE FALSE
    BY <1>1 DEF Unmarked
  <2>2. PICK p \in Processes : StepOf(p) \in Acting /\ MilestoneOf(p) = m
    BY <1>1, <2>1 DEF Truth, Accounted
  <2>3. runs[p] # <<>>
    BY <2>2 DEF StepOf, Acting
  <2>4. 1 \in DOMAIN runs[p] /\ jobs[runs[p][1].job].milestone = m
    BY <2>2, <2>3, HeadRun DEF Books, MilestoneOf, Run
  <2> QED
    BY <1>1, <2>4 DEF Pending
<1>2. ExhaustedIsMarked
    BY <1>1 DEF ExhaustedIsMarked
<1> QED
    BY <1>2 DEF BooksAreTrue, Books, Truth, Accounted

\* The milestone books stay true for any number of processes, milestones and
\* attempts: a milestone is recorded as succeeded only after it took effect, no
\* two follow-up jobs of one milestone are in line (milestoneProcessor.ts,
\* milestoneControl.ts and the singleton keys of taskQueue.ts), and one out of
\* attempts that nothing is working on any more is marked for attention.
THEOREM BooksAreKept == Spec => []BooksAreTrue
BY AllTheWhile, MarkedInTime, PTL

\* Every variable keeps its type; in particular no job is ever past its retry
\* limit and every handler runs a job that was sent.
THEOREM MilestonesTyped == Spec => []TypeOK
<1>1. Books => TypeOK
    BY DEF Books, Types, TypeOK
<1> QED
    BY <1>1, AllTheWhile, PTL

\* With one process of the tasks service, a milestone takes effect a second time
\* only if a storage call failed, the process crashed or an operator retried it,
\* once for each: neither duplicate events nor the timer of pg-boss that hands a
\* running job out again repeats anything (serialExecutor.ts and the check of the
\* record in milestoneProcessor.ts).
THEOREM RepetitionsArePaidFor == Spec => []RepetitionsPaidFor
BY AllTheWhile, SerialPays, PTL

\* With one process, and while no operator retries, no attempt of a milestone is
\* forgotten: the counter that decides when to stop never goes down.
THEOREM AttemptsAreKept == Spec => AttemptsKept
<1>1. Books /\ Serial /\ [Next]_vars =>
         [\A m \in Milestones : (Alone /\ spent["retry"] = 0) =>
                                records'[m].attempts >= records[m].attempts]_vars
    BY NoneForgotten
<1> QED
    BY <1>1, AllTheWhile, PTL DEF Spec, AttemptsKept

\* While fewer things go wrong than a job has attempts, no milestone that was sent
\* drops out of sight: it is done, or a job of it is still to be worked on, or its
\* record is one that retryMilestone (milestoneControl.ts) accepts.
THEOREM NothingIsGone == Spec => []NeverGone
<1>1. Init => Order /\ Recorded /\ Hopeful
    BY InitHopeful
<1>2. Books /\ Truth /\ Serial /\ Order /\ Recorded /\ Hopeful /\ [Next]_vars =>
         (Order /\ Recorded /\ Hopeful)'
    BY OrderStep, RecordedStep, HopefulStep
<1>3. Books /\ Truth /\ Serial /\ Order /\ Recorded /\ Hopeful => NeverGone
    BY HopefulTells
<1> QED
    BY <1>1, <1>2, <1>3, AllTheWhile, PTL DEF Spec
================================================================================
