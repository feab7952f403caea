--------------------------- MODULE DeploymentProofs ---------------------------
(***************************************************************************)
(* Theorems about the creation of contests, for any number of pages,       *)
(* contest ids, requests and failures.                                     *)
(***************************************************************************)
EXTENDS Deployment, TLAPS

-----------------------------------------------------------------------------
(* The inductive invariant                                                   *)

\* Requests are filed in order, and nothing is known of one that is not.
Order ==
    /\ \A r \in Filed : \A q \in Requests : q < r => q \in Filed
    /\ \A r \in Requests \ Filed :
          /\ artifacts[r] = [owner |-> "absent", linked |-> FALSE]
          /\ contracts[r] = "nothing" /\ job[r].step = "none" /\ r \notin cut

Is(r, status, owner) == requests[r].status = status /\ artifacts[r].owner = owner
Listed(r)   == rows[requests[r].key].contract # None
Standing(r) == contracts[r] = "initialized" \/ (contracts[r] = "factory" /\ r \in cut)

\* What the server knows of a contest it initializes itself, and of one whose
\* owner it asks.
Server(r) == ~requests[r].prize /\ Is(r, "confirmed", "none") /\ contracts[r] = "initialized"
Asked(r)  == requests[r].prize /\ Is(r, "deploying", "asked") /\ contracts[r] = "factory"

Untracked(r) == rows[requests[r].key].contract # r

\* deployContest, step by step.
Deploying(r) ==
    /\ At(r, "contest") => Is(r, "deploying", "absent") /\ contracts[r] = "nothing"
    /\ At(r, "factory") => Is(r, "deploying", "absent") /\ contracts[r] = "contest"
    /\ At(r, "initialize") =>
          ~requests[r].prize /\ Is(r, "deploying", "absent") /\ contracts[r] = "factory"
    /\ At(r, "artifact") =>
          /\ Is(r, "deploying", "absent")
          /\ contracts[r] = IF requests[r].prize THEN "factory" ELSE "initialized"
    /\ At(r, "status") =>
          /\ Is(r, "deploying", IF requests[r].prize THEN "asked" ELSE "none")
          /\ contracts[r] = IF requests[r].prize THEN "factory" ELSE "initialized"
          /\ Untracked(r)
    /\ At(r, "register") => Server(r) /\ Untracked(r)
    /\ At(r, "fallback") => (Server(r) \/ Asked(r)) /\ Untracked(r)
    /\ At(r, "link")     => Server(r) /\ Listed(r)
    /\ At(r, "answer")   => ((Server(r) /\ artifacts[r].linked) \/ Asked(r)) /\ Listed(r)

\* finalizeContestDeployment, step by step.
Finalizing(r) ==
    /\ \A step \in {"contest", "factory", "initialize"} : ~At(r, step)
    /\ requests[r].prize
    /\ At(r, "status")   => Is(r, "deploying", "asked") /\ Standing(r)
    /\ At(r, "artifact") => Is(r, "confirmed", "asked") /\ Standing(r)
    /\ \A step \in {"register", "fallback", "link", "answer"} : At(r, step) =>
          Is(r, "confirmed", "completed") /\ Standing(r)
    /\ \A step \in {"link", "answer"} : At(r, step) => Listed(r)
    /\ At(r, "answer") => artifacts[r].linked

Staged ==
    \A r \in Requests :
        /\ \A step \in {"failing", "error"} : At(r, step) => r \in cut
        /\ ~job[r].final => Deploying(r)
        /\ job[r].final => Finalizing(r)

CameOut(r) == requests[r].status = "confirmed" /\ contracts[r] = "initialized"
              /\ Listed(r) /\ artifacts[r].linked

\* A form is of the last request filed for its contest id.
Latest ==
    \A t \in Tabs :
        /\ \A u \in Tabs : form[t].key = form[u].key => t = u
        /\ \A r \in Filed : requests[r].key = form[t].key => r <= form[t].request
        /\ form[t].request # None => form[t].request \in Filed /\ requests[form[t].request].key = form[t].key
        /\ form[t].step = "editing" => form[t].request = None
        /\ form[t].request = None => form[t].step \in {"editing", "error"}

\* A form and the job it waits for.
InStep ==
    \A t \in Tabs : form[t].request # None =>
        LET r == form[t].request IN
        /\ job[r].step # "none" => form[t].step = (IF job[r].final THEN "finalizing" ELSE "creating") \/ (form[t].step = "error" /\ r \in cut)
        /\ form[t].step \in {"approve", "initialize"} => Asked(r) /\ Listed(r)
        /\ form[t].step = "finalize" =>
              requests[r].prize /\ Is(r, "deploying", "asked") /\ Standing(r) /\ Listed(r)

\* An earlier request for the same contest id is at rest, or its answer is lost.
Superseded ==
    \A q, r \in Filed : q < r /\ requests[q].key = requests[r].key => job[q].step = "none" \/ q \in cut

\* A contests row names requests that were recorded for its contest id.
Tracked ==
    /\ RowsNameContracts
    /\ \A k \in Keys : IF rows[k].contract = None THEN rows[k].entries = 0 ELSE rows[k].meta # None

Told ==
    \A r \in Filed \ cut :
        CameOut(r) \/ \E t \in Tabs : form[t].request = r /\ form[t].step \notin {"done", "error"}

IInv == TypeOK /\ Order /\ Staged /\ Latest /\ InStep /\ Superseded /\ Tracked /\ Told /\ ConfirmedMeansDeployed

-----------------------------------------------------------------------------
(* Types                                                                     *)

LEMMA Spent ==
    ASSUME TypeOK, NEW what \in Spending, Spend(what)
    PROVE  left' \in [Spending -> Nat]
BY SMT DEF TypeOK, Spend

\* A step of a form.
LEMMA Shown ==
    ASSUME TypeOK, NEW t \in Tabs, NEW step \in FormSteps, Show(t, step)
    PROVE  /\ form' \in [Tabs -> [step : FormSteps, key : Keys, vault : 0..vaults, request : Requests \cup {None}]]
           /\ form'[t] = [form[t] EXCEPT !.step = step]
           /\ form'[t].step = step /\ form'[t].key = form[t].key /\ form'[t].request = form[t].request
           /\ \A u \in Tabs : u # t => form'[u] = form[u]
<1> PICK f : f = [form[t] EXCEPT !.step = step]
    OBVIOUS
<1>0. form[t] \in [step : FormSteps, key : Keys, vault : 0..vaults, request : Requests \cup {None}]
    BY DEF TypeOK
<1>1. f \in [step : FormSteps, key : Keys, vault : 0..vaults, request : Requests \cup {None}]
    BY <1>0
<1>2. f.step = step /\ f.key = form[t].key /\ f.request = form[t].request
    BY DEF TypeOK
<1>3. form' = [form EXCEPT ![t] = f]
    BY DEF Show, TypeOK
<1> QED
    BY <1>1, <1>2, <1>3 DEF TypeOK

\* A step of a job.
LEMMA Gone ==
    ASSUME TypeOK, NEW r \in Requests, NEW step \in JobSteps, Goto(r, step)
    PROVE  /\ job' \in [Requests -> [step : JobSteps, final : BOOLEAN]]
           /\ job'[r].step = step /\ job'[r].final = job[r].final
           /\ \A q \in Requests : q # r => job'[q] = job[q]
<1> PICK j : j = [job[r] EXCEPT !.step = step]
    OBVIOUS
<1>1. j \in [step : JobSteps, final : BOOLEAN] /\ j.step = step /\ j.final = job[r].final
    BY DEF TypeOK
<1>2. job' = [job EXCEPT ![r] = j]
    BY DEF Goto, TypeOK
<1> QED
    BY <1>1, <1>2 DEF TypeOK

\* The row of a request that is tracked.
LEMMA TrackedRow ==
    ASSUME TypeOK, NEW r \in Requests, Track(r)
    PROVE  /\ rows' \in [Keys -> [contract : Requests \cup {None}, meta : Requests \cup {None}, entries : 0..MaxEntrants]]
           /\ rows'[requests[r].key].meta = r /\ rows'[requests[r].key].entries = 0
           /\ rows'[requests[r].key].contract =
                 IF rows[requests[r].key].contract = None THEN r ELSE rows[requests[r].key].contract
           /\ \A k \in Keys : k # requests[r].key => rows'[k] = rows[k]
<1> PICK k \in Keys : k = requests[r].key
    BY DEF TypeOK
<1> PICK c \in Requests \cup {None} : c = (IF rows[k].contract = None THEN r ELSE rows[k].contract)
    BY DEF TypeOK
<1> PICK b : b = [contract |-> c, meta |-> r, entries |-> 0]
    OBVIOUS
<1>1. b \in [contract : Requests \cup {None}, meta : Requests \cup {None}, entries : 0..MaxEntrants]
    BY DeploymentAssumption
<1>2. rows' = [rows EXCEPT ![k] = b]
    BY DEF Track, Built, TypeOK
<1>3. b.meta = r /\ b.entries = 0 /\ b.contract = c
    OBVIOUS
<1> QED
    BY <1>1, <1>2, <1>3 DEF TypeOK

-----------------------------------------------------------------------------
(* A step of a job                                                           *)

\* It leaves everything but its own request, and the row of its contest id,
\* alone.
Frame(r) ==
    /\ UNCHANGED <<catalogue, form>> /\ left' \in [Spending -> Nat]
    /\ requests' \in [Requests -> [status : Statuses, key : Keys, prize : BOOLEAN]]
    /\ artifacts' \in [Requests -> [owner : {"absent", "none", "asked", "completed"}, linked : BOOLEAN]]
    /\ contracts' \in [Requests -> OnChain]
    /\ job' \in [Requests -> [step : JobSteps, final : BOOLEAN]]
    /\ rows' = rows \/ Track(r)
    /\ cut' = cut \/ cut' = cut \cup {r}
    /\ \A q \in Requests : q # r =>
          /\ requests'[q] = requests[q] /\ artifacts'[q] = artifacts[q]
          /\ contracts'[q] = contracts[q] /\ job'[q] = job[q]
    /\ requests'[r].key = requests[r].key /\ requests'[r].prize = requests[r].prize
    /\ job[r].step # "none" /\ job'[r].step # "none" /\ job'[r].final = job[r].final

\* What it does to its own request.
Well(r) ==
    /\ requests'[r].status # "absent"
    /\ \A step \in {"failing", "error"} : At(r, step)' => r \in cut'
    /\ ~job[r].final => Deploying(r)'
    /\ job[r].final => Finalizing(r)'
    /\ CameOut(r) /\ r \notin cut' => requests'[r].status = "confirmed" /\ contracts'[r] = "initialized" /\ artifacts'[r].linked
    /\ requests'[r].status = "confirmed" =>
          /\ artifacts'[r].owner # "absent"
          /\ contracts'[r] = "initialized" \/ (contracts'[r] = "factory" /\ requests[r].prize /\ r \in cut')
    /\ artifacts[r].owner # "absent" \/ rows' # rows =>
          /\ artifacts'[r].owner # "absent"
          /\ contracts[r] \in {"factory", "initialized"} \/ rows' # rows => contracts'[r] \in {"factory", "initialized"}
    /\ artifacts'[r].linked => artifacts[r].linked \/ Listed(r)

\* The rows it leaves: none loses its address.
LEMMA RowsStand ==
    ASSUME IInv, NEW r \in Requests, Frame(r)
    PROVE  /\ rows' \in [Keys -> [contract : Requests \cup {None}, meta : Requests \cup {None}, entries : 0..MaxEntrants]]
           /\ \A k \in Keys : rows[k].contract # None => rows'[k].contract = rows[k].contract
           /\ \A k \in Keys : rows'[k] # rows[k] =>
                 /\ k = requests[r].key /\ Track(r) /\ rows' # rows
                 /\ rows'[k].meta = r /\ rows'[k].entries = 0
                 /\ rows'[k].contract = IF rows[k].contract = None THEN r ELSE rows[k].contract
<1>0. TypeOK
    BY DEF IInv
<1>1. CASE rows' = rows
    BY <1>0, <1>1 DEF TypeOK
<1>2. CASE Track(r) /\ rows' # rows
    BY <1>0, <1>2, TrackedRow DEF TypeOK
<1> QED
    BY <1>1, <1>2 DEF Frame

\* The requests filed stay those.
LEMMA FiledStand ==
    ASSUME IInv, NEW r \in Requests, Frame(r), Well(r)
    PROVE  /\ r \in Filed /\ Filed' = Filed
           /\ \A q \in Requests : requests'[q].key = requests[q].key /\ requests'[q].prize = requests[q].prize
<1>1. r \in Filed
    BY DEF IInv, Order, Frame
<1>2. \A q \in Requests : requests'[q].key = requests[q].key /\ requests'[q].prize = requests[q].prize
    BY DEF Frame
<1>3. \A q \in Requests : requests'[q].status = "absent" <=> requests[q].status = "absent"
    BY <1>1 DEF Frame, Well, Filed
<1> QED
    BY <1>1, <1>2, <1>3 DEF Filed

LEMMA JobKeeps ==
    ASSUME IInv, NEW r \in Requests, Frame(r), Well(r)
    PROVE  IInv'
<1>0. TypeOK /\ Order /\ Staged /\ Latest /\ InStep /\ Superseded /\ Tracked /\ Told /\ ConfirmedMeansDeployed
    BY DEF IInv
<1>1. /\ rows' \in [Keys -> [contract : Requests \cup {None}, meta : Requests \cup {None}, entries : 0..MaxEntrants]]
      /\ \A k \in Keys : rows[k].contract # None => rows'[k].contract = rows[k].contract
      /\ \A k \in Keys : rows'[k] # rows[k] =>
            /\ k = requests[r].key /\ Track(r) /\ rows' # rows
            /\ rows'[k].meta = r /\ rows'[k].entries = 0
            /\ rows'[k].contract = IF rows[k].contract = None THEN r ELSE rows[k].contract
    BY RowsStand
<1>2. /\ r \in Filed /\ Filed' = Filed
      /\ \A q \in Requests : requests'[q].key = requests[q].key /\ requests'[q].prize = requests[q].prize
    BY FiledStand
<1>3. \A q \in Requests : q # r =>
          /\ requests'[q] = requests[q] /\ artifacts'[q] = artifacts[q]
          /\ contracts'[q] = contracts[q] /\ job'[q] = job[q] /\ (q \in cut' <=> q \in cut)
    BY DEF Frame
<1>4. form' = form /\ cut \subseteq cut' /\ cut' \subseteq cut \cup {r}
    BY DEF Frame
<1>5. \A q \in Requests : requests[q].key \in Keys
    BY <1>0 DEF TypeOK
<1>6. \A q \in Requests : Listed(q) => Listed(q)'
    BY <1>1, <1>2, <1>5, <1>0 DEF Listed, TypeOK
<1>7. \A q \in Requests : q # r /\ Untracked(q) => Untracked(q)'
  <2> SUFFICES ASSUME NEW q \in Requests, q # r, Untracked(q)
               PROVE  rows'[requests[q].key].contract # q
    BY <1>2 DEF Untracked
  <2>1. CASE rows'[requests[q].key] = rows[requests[q].key]
    BY <2>1 DEF Untracked
  <2>2. CASE rows'[requests[q].key] # rows[requests[q].key]
    BY <2>2, <1>1, <1>5 DEF Untracked
  <2> QED
    BY <2>1, <2>2
<1>10. TypeOK'
    BY <1>0, <1>1, <1>4 DEF TypeOK, Frame, catalogue
<1>11. Order'
    BY <1>0, <1>2, <1>3, <1>4 DEF Order
<1>12. Staged'
  <2> SUFFICES ASSUME NEW q \in Requests
               PROVE  /\ \A step \in {"failing", "error"} : At(q, step)' => q \in cut'
                      /\ ~job'[q].final => Deploying(q)'
                      /\ job'[q].final => Finalizing(q)'
    BY DEF Staged
  <2>1. CASE q = r
    BY <2>1 DEF Well, Frame
  <2>2. CASE q # r
    <3>1. /\ requests'[q] = requests[q] /\ artifacts'[q] = artifacts[q]
          /\ contracts'[q] = contracts[q] /\ job'[q] = job[q] /\ (q \in cut' <=> q \in cut)
          /\ (Listed(q) => Listed(q)') /\ (Untracked(q) => Untracked(q)')
      BY <2>2, <1>3, <1>6, <1>7
    <3>2. /\ \A step \in {"failing", "error"} : At(q, step) => q \in cut
          /\ ~job[q].final => Deploying(q)
          /\ job[q].final => Finalizing(q)
      BY <1>0 DEF Staged
    <3>3. \A step \in {"failing", "error"} : At(q, step)' => q \in cut'
      BY <3>1, <3>2 DEF At
    <3>4. ~job'[q].final => Deploying(q)'
      BY <3>1, <3>2 DEF Deploying, At, Is, Server, Asked
    <3>5. job'[q].final => Finalizing(q)'
      BY <3>1, <3>2 DEF Finalizing, At, Is, Standing
    <3> QED
      BY <3>3, <3>4, <3>5
  <2> QED
    BY <2>1, <2>2
<1>13. Latest'
    BY <1>0, <1>2, <1>4 DEF Latest, Filed
<1>14. InStep'
  <2> SUFFICES ASSUME NEW t \in Tabs, form[t].request # None, NEW q, q = form[t].request
               PROVE  /\ job'[q].step # "none" => form[t].step = (IF job'[q].final THEN "finalizing" ELSE "creating") \/ (form[t].step = "error" /\ q \in cut')
                      /\ form[t].step \in {"approve", "initialize"} => Asked(q)' /\ Listed(q)'
                      /\ form[t].step = "finalize" =>
                            requests'[q].prize /\ Is(q, "deploying", "asked")' /\ Standing(q)' /\ Listed(q)'
    BY <1>4 DEF InStep
  <2>0. q \in Requests
    BY <1>0 DEF Latest, Filed
  <2>1. /\ job[q].step # "none" => form[t].step = (IF job[q].final THEN "finalizing" ELSE "creating") \/ (form[t].step = "error" /\ q \in cut)
        /\ form[t].step \in {"approve", "initialize"} => Asked(q) /\ Listed(q)
        /\ form[t].step = "finalize" =>
              requests[q].prize /\ Is(q, "deploying", "asked") /\ Standing(q) /\ Listed(q)
    BY <1>0 DEF InStep
  <2>2. CASE q = r
    BY <2>1, <2>2 DEF Frame
  <2>3. CASE q # r
    BY <2>0, <2>1, <2>3, <1>3, <1>6 DEF Asked, Is, Standing
  <2> QED
    BY <2>2, <2>3
<1>15. Superseded'
    BY <1>0, <1>2, <1>3, <1>4 DEF Superseded, Filed, Frame
<1>16. Tracked'
  <2>0. ASSUME NEW k \in Keys, rows[k].contract # None
        PROVE  /\ \A q \in {rows[k].contract, rows[k].meta} :
                     /\ q \in Filed /\ requests[q].key = k /\ artifacts[q].owner # "absent"
                     /\ contracts[q] \in {"factory", "initialized"}
               /\ rows[k].contract <= rows[k].meta \/ rows[k].meta \in cut
    <3>1. /\ \A q \in {rows[k].contract, rows[k].meta} :
                /\ requests[q].key = k /\ artifacts[q].owner # "absent"
                /\ contracts[q] \in {"factory", "initialized"}
          /\ rows[k].contract <= rows[k].meta \/ rows[k].meta \in cut
          /\ rows[k].meta # None
      BY <2>0, <1>0 DEF Tracked, RowsNameContracts
    <3>2. rows[k].contract \in Requests /\ rows[k].meta \in Requests
      BY <2>0, <3>1, <1>0 DEF TypeOK
    <3>3. \A q \in Requests : artifacts[q].owner # "absent" => q \in Filed
      BY <1>0 DEF Order
    <3> QED
      BY <3>1, <3>2, <3>3
  <2>1. ASSUME NEW q \in Filed, artifacts[q].owner # "absent", contracts[q] \in {"factory", "initialized"}
        PROVE  artifacts'[q].owner # "absent" /\ contracts'[q] \in {"factory", "initialized"}
    BY <2>1, <1>3 DEF Well, Filed
  <2>2. ASSUME NEW k \in Keys, rows'[k].contract # None
        PROVE  /\ \A q \in {rows'[k].contract, rows'[k].meta} :
                     /\ requests'[q].key = k /\ artifacts'[q].owner # "absent"
                     /\ contracts'[q] \in {"factory", "initialized"}
               /\ rows'[k].contract <= rows'[k].meta \/ rows'[k].meta \in cut'
               /\ rows'[k].meta # None
    <3>1. CASE rows'[k] = rows[k]
      <4>1. \A q \in {rows[k].contract, rows[k].meta} :
               /\ q \in Requests /\ requests'[q].key = k /\ artifacts'[q].owner # "absent"
               /\ contracts'[q] \in {"factory", "initialized"}
        BY <2>0, <2>1, <2>2, <3>1, <1>2 DEF Filed
      <4> QED
        BY <4>1, <3>1, <2>0, <2>2, <1>0, <1>4 DEF Tracked
    <3>2. CASE rows'[k] # rows[k]
      <4>1. /\ k = requests[r].key /\ rows' # rows /\ rows'[k].meta = r
            /\ rows'[k].contract = IF rows[k].contract = None THEN r ELSE rows[k].contract
        BY <3>2, <1>1
      <4>2. requests'[r].key = k /\ artifacts'[r].owner # "absent" /\ contracts'[r] \in {"factory", "initialized"}
        BY <4>1, <1>2 DEF Well
      <4>3. r # None /\ r \in Nat
        BY DeploymentAssumption
      <4>4. CASE rows[k].contract = None
        BY <4>1, <4>2, <4>3, <4>4
      <4>5. CASE rows[k].contract # None
        <5> PICK c \in Filed : c = rows[k].contract
          BY <4>5, <2>0
        <5>1. requests'[c].key = k /\ artifacts'[c].owner # "absent" /\ contracts'[c] \in {"factory", "initialized"}
          BY <4>5, <2>0, <2>1, <1>2 DEF Filed
        <5>2. c \in Nat /\ (r < c => r \in cut')
          BY <4>1, <4>5, <2>0, <1>0, <1>2, <1>4, DeploymentAssumption DEF Superseded, Frame, Filed
        <5> QED
          BY <4>1, <4>2, <4>3, <4>5, <5>1, <5>2
      <4> QED
        BY <4>4, <4>5
    <3> QED
      BY <3>1, <3>2
  <2>3. ASSUME NEW k \in Keys, rows'[k].contract = None
        PROVE  rows'[k].entries = 0
    <3>1. rows'[k] = rows[k] \/ rows'[k].entries = 0
      BY <1>1
    <3> QED
      BY <2>3, <3>1, <1>0 DEF Tracked
  <2>4. ASSUME NEW q \in Requests, artifacts'[q].linked
        PROVE  /\ rows'[requests'[q].key].contract # None
               /\ (\A p \in Filed' \ {q} : requests'[p].key # requests'[q].key) => rows'[requests'[q].key].contract = q
    <3> PICK k \in Keys : k = requests[q].key
      BY <1>5
    <3>0. requests'[q].key = k
      BY <1>2
    <3>1. /\ rows[k].contract # None
          /\ (\A p \in Filed \ {q} : requests[p].key # k) => rows[k].contract = q
      <4>1. CASE artifacts[q].linked
        BY <4>1, <1>0 DEF Tracked, RowsNameContracts
      <4>2. CASE ~artifacts[q].linked
        <5>1. q = r /\ rows[k].contract # None
          BY <4>2, <2>4, <1>3 DEF Well, Listed
        <5>2. rows[k].contract \in Filed /\ requests[rows[k].contract].key = k
          BY <5>1, <2>0
        <5> QED
          BY <5>1, <5>2
      <4> QED
        BY <4>1, <4>2
    <3>2. rows'[k].contract = rows[k].contract
      BY <3>1, <1>1
    <3>3. (\A p \in Filed' \ {q} : requests'[p].key # k) => \A p \in Filed \ {q} : requests[p].key # k
      BY <1>2 DEF Filed
    <3> QED
      BY <3>0, <3>1, <3>2, <3>3
  <2> QED
    BY <2>2, <2>3, <2>4 DEF Tracked, RowsNameContracts
<1>17. Told'
  <2> SUFFICES ASSUME NEW q \in Filed, q \notin cut'
               PROVE  CameOut(q)' \/ \E t \in Tabs : form[t].request = q /\ form[t].step \notin {"done", "error"}
    BY <1>2, <1>4 DEF Told
  <2>0. q \in Requests
    BY DEF Filed
  <2>1. CASE ~CameOut(q)
    BY <2>1, <1>0, <1>4 DEF Told
  <2>2. CASE CameOut(q) /\ q = r
    BY <2>0, <2>2, <1>6 DEF CameOut, Well
  <2>3. CASE CameOut(q) /\ q # r
    BY <2>0, <2>3, <1>3, <1>6 DEF CameOut
  <2> QED
    BY <2>1, <2>2, <2>3
<1>18. ConfirmedMeansDeployed'
  <2> SUFFICES ASSUME NEW q \in Requests, requests'[q].status = "confirmed"
               PROVE  /\ artifacts'[q].owner # "absent"
                      /\ contracts'[q] = "initialized" \/ (contracts'[q] = "factory" /\ requests'[q].prize /\ q \in cut')
    BY DEF ConfirmedMeansDeployed
  <2>1. CASE q = r
    BY <2>1, <1>2 DEF Well
  <2>2. CASE q # r
    BY <2>2, <1>0, <1>3 DEF ConfirmedMeansDeployed
  <2> QED
    BY <2>1, <2>2
<1> QED
    BY <1>10, <1>11, <1>12, <1>13, <1>14, <1>15, <1>16, <1>17, <1>18 DEF IInv

\* What a step knows before it.
LEMMA Before ==
    ASSUME IInv, NEW r \in Requests
    PROVE  /\ TypeOK /\ ConfirmedMeansDeployed
           /\ \A step \in {"failing", "error"} : At(r, step) => r \in cut
           /\ ~job[r].final => Deploying(r)
           /\ job[r].final => Finalizing(r)
           /\ artifacts[r].owner = "absent" => Untracked(r)
           /\ job[r].step # "none" => requests[r].status # "absent"
<1>1. TypeOK /\ ConfirmedMeansDeployed /\ Staged /\ Tracked
    BY DEF IInv
<1>2. artifacts[r].owner = "absent" => Untracked(r)
  <2> SUFFICES ASSUME artifacts[r].owner = "absent", NEW k \in Keys, k = requests[r].key, rows[k].contract = r
               PROVE  FALSE
    BY <1>1 DEF Untracked, TypeOK
  <2>1. r # None
    BY DeploymentAssumption
  <2> QED
    BY <2>1, <1>1 DEF Tracked, RowsNameContracts
<1>3. job[r].step # "none" => requests[r].status # "absent"
    BY DEF IInv, Order, Filed
<1> QED
    BY <1>1, <1>2, <1>3 DEF Staged

\* A call fails.
LEMMA CallFails ==
    ASSUME IInv, NEW r \in Requests, Fails(r), job[r].step # "none",
           UNCHANGED <<catalogue, form, requests, artifacts, rows>>,
           contracts' \in [Requests -> OnChain], \A q \in Requests : q # r => contracts'[q] = contracts[q],
           \/ contracts' = contracts
           \/ contracts'[r] \in {"factory", "initialized"} /\ requests[r].status = "deploying"
           \/ contracts[r] = "nothing" /\ requests[r].status = "deploying"
    PROVE  IInv'
<1>0. /\ TypeOK /\ ConfirmedMeansDeployed
      /\ ~job[r].final => Deploying(r)
      /\ job[r].final => Finalizing(r)
    BY Before
<1> PICK s \in JobSteps : s = (IF job[r].final THEN "error" ELSE "failing")
    BY DEF JobSteps
<1>1. Goto(r, s) /\ cut' = cut \cup {r} /\ Spend("fault")
    BY DEF Fails, Interrupt
<1>2. /\ job' \in [Requests -> [step : JobSteps, final : BOOLEAN]]
      /\ job'[r].step = s /\ job'[r].final = job[r].final
      /\ \A q \in Requests : q # r => job'[q] = job[q]
    BY <1>0, <1>1, Gone
<1>3. left' \in [Spending -> Nat]
    BY <1>0, <1>1, Spent DEF Spending
<1>4. Frame(r)
    BY <1>0, <1>1, <1>2, <1>3 DEF Frame, TypeOK
<1>5. requests[r].status # "absent"
    BY Before
<1>6. job[r].final => Finalizing(r)'
    BY <1>0, <1>2 DEF Finalizing, At
<1>7. ~job[r].final => Deploying(r)'
    BY <1>2 DEF Deploying, At
<1>8. requests'[r].status = "confirmed" =>
          /\ artifacts'[r].owner # "absent"
          /\ contracts'[r] = "initialized" \/ (contracts'[r] = "factory" /\ requests[r].prize /\ r \in cut')
    BY <1>0, <1>1 DEF ConfirmedMeansDeployed
<1>9. Well(r)
    BY <1>1, <1>5, <1>6, <1>7, <1>8 DEF Well
<1> QED
    BY <1>4, <1>9, JobKeeps

\* A call returns and the job goes on.
LEMMA CallReturns ==
    ASSUME IInv, NEW r \in Requests, NEW step \in JobSteps \ {"none"}, Goto(r, step), job[r].step # "none",
           UNCHANGED <<catalogue, form>>, left' \in [Spending -> Nat],
           cut' = cut \/ cut' = cut \cup {r},
           requests' \in [Requests -> [status : Statuses, key : Keys, prize : BOOLEAN]],
           artifacts' \in [Requests -> [owner : {"absent", "none", "asked", "completed"}, linked : BOOLEAN]],
           contracts' \in [Requests -> OnChain], rows' = rows \/ Track(r),
           requests'[r].key = requests[r].key, requests'[r].prize = requests[r].prize,
           \A q \in Requests : q # r =>
               requests'[q] = requests[q] /\ artifacts'[q] = artifacts[q] /\ contracts'[q] = contracts[q]
    PROVE  Frame(r) /\ job'[r].step = step /\ job'[r].final = job[r].final
<1>1. TypeOK
    BY DEF IInv
<1>2. /\ job' \in [Requests -> [step : JobSteps, final : BOOLEAN]]
      /\ job'[r].step = step /\ job'[r].final = job[r].final
      /\ \A q \in Requests : q # r => job'[q] = job[q]
    BY <1>1, Gone
<1> QED
    BY <1>2 DEF Frame

\* Writes of one request.
LEMMA StatusWritten ==
    ASSUME TypeOK, NEW r \in Requests, NEW s \in Statuses, requests' = [requests EXCEPT ![r].status = s]
    PROVE  /\ requests' \in [Requests -> [status : Statuses, key : Keys, prize : BOOLEAN]]
           /\ requests'[r].status = s /\ requests'[r].key = requests[r].key /\ requests'[r].prize = requests[r].prize
           /\ \A q \in Requests : q # r => requests'[q] = requests[q]
<1> PICK f : f = [requests[r] EXCEPT !.status = s]
    OBVIOUS
<1>0. requests[r] \in [status : Statuses, key : Keys, prize : BOOLEAN]
    BY DEF TypeOK
<1>1. f \in [status : Statuses, key : Keys, prize : BOOLEAN] /\ f.status = s /\ f.key = requests[r].key /\ f.prize = requests[r].prize
    BY <1>0
<1>2. requests' = [requests EXCEPT ![r] = f]
    BY DEF TypeOK
<1> QED
    BY <1>1, <1>2 DEF TypeOK

LEMMA OwnerWritten ==
    ASSUME TypeOK, NEW r \in Requests, NEW o \in {"none", "asked", "completed"},
           artifacts' = [artifacts EXCEPT ![r].owner = o]
    PROVE  /\ artifacts' \in [Requests -> [owner : {"absent", "none", "asked", "completed"}, linked : BOOLEAN]]
           /\ artifacts'[r].owner = o /\ artifacts'[r].linked = artifacts[r].linked
           /\ \A q \in Requests : q # r => artifacts'[q] = artifacts[q]
<1> PICK f : f = [artifacts[r] EXCEPT !.owner = o]
    OBVIOUS
<1>0. artifacts[r] \in [owner : {"absent", "none", "asked", "completed"}, linked : BOOLEAN]
    BY DEF TypeOK
<1>1. f \in [owner : {"absent", "none", "asked", "completed"}, linked : BOOLEAN] /\ f.owner = o /\ f.linked = artifacts[r].linked
    BY <1>0
<1>2. artifacts' = [artifacts EXCEPT ![r] = f]
    BY DEF TypeOK
<1> QED
    BY <1>1, <1>2 DEF TypeOK

LEMMA LinkWritten ==
    ASSUME TypeOK, NEW r \in Requests, artifacts' = [artifacts EXCEPT ![r].linked = TRUE]
    PROVE  /\ artifacts' \in [Requests -> [owner : {"absent", "none", "asked", "completed"}, linked : BOOLEAN]]
           /\ artifacts'[r].owner = artifacts[r].owner /\ artifacts'[r].linked = TRUE
           /\ \A q \in Requests : q # r => artifacts'[q] = artifacts[q]
<1> PICK f : f = [artifacts[r] EXCEPT !.linked = TRUE]
    OBVIOUS
<1>0. artifacts[r] \in [owner : {"absent", "none", "asked", "completed"}, linked : BOOLEAN]
    BY DEF TypeOK
<1>1. f \in [owner : {"absent", "none", "asked", "completed"}, linked : BOOLEAN] /\ f.owner = artifacts[r].owner /\ f.linked = TRUE
    BY <1>0
<1>2. artifacts' = [artifacts EXCEPT ![r] = f]
    BY DEF TypeOK
<1> QED
    BY <1>1, <1>2 DEF TypeOK

LEMMA ChainWritten ==
    ASSUME TypeOK, NEW r \in Requests, NEW e \in OnChain, contracts' = [contracts EXCEPT ![r] = e]
    PROVE  /\ contracts' \in [Requests -> OnChain] /\ contracts'[r] = e
           /\ \A q \in Requests : q # r => contracts'[q] = contracts[q]
BY DEF TypeOK

\* deployContest sends its three transactions.
LEMMA ChainSteps ==
    ASSUME IInv, NEW r \in Requests, DeployContest(r) \/ DeployFactory(r) \/ Initialize(r)
    PROVE  IInv'
<1> PICK step, effect, next :
        /\ OnTheChain(r, step, effect, next)
        /\ \/ step = "contest" /\ effect = "contest" /\ next = "factory"
           \/ step = "factory" /\ effect = "factory" /\ next = (IF requests[r].prize THEN "artifact" ELSE "initialize")
           \/ step = "initialize" /\ effect = "initialized" /\ next = "artifact"
    BY DEF DeployContest, DeployFactory, Initialize
<1>0. /\ TypeOK /\ ConfirmedMeansDeployed
      /\ \A s \in {"failing", "error"} : At(r, s) => r \in cut
      /\ ~job[r].final => Deploying(r)
      /\ job[r].final => Finalizing(r)
      /\ artifacts[r].owner = "absent" => Untracked(r)
    BY Before
<1>1. effect \in OnChain /\ next \in JobSteps \ {"none"} /\ job[r].step = step /\ step # "none"
    BY DEF OnChain, JobSteps, OnTheChain, At
<1>2. /\ ~job[r].final /\ Is(r, "deploying", "absent") /\ artifacts[r].owner = "absent"
      /\ step = "contest" => contracts[r] = "nothing"
      /\ step = "factory" => contracts[r] = "contest"
      /\ step = "initialize" => contracts[r] = "factory" /\ ~requests[r].prize
    BY <1>0, <1>1 DEF Deploying, Finalizing, At, Is
<1>3. requests[r].status = "deploying"
    BY <1>2 DEF Is
<1>4. CASE contracts' = [contracts EXCEPT ![r] = effect] /\ Goto(r, next) /\ UNCHANGED <<cut, left>>
  <2>1. /\ contracts' \in [Requests -> OnChain] /\ contracts'[r] = effect
        /\ \A q \in Requests : q # r => contracts'[q] = contracts[q]
    BY <1>0, <1>1, <1>4, ChainWritten
  <2>2. UNCHANGED <<catalogue, form, requests, artifacts, rows>>
    BY DEF OnTheChain
  <2>3. Frame(r) /\ job'[r].step = next /\ job'[r].final = job[r].final
    BY <1>0, <1>1, <1>4, <2>1, <2>2, CallReturns DEF TypeOK
  <2>4. Deploying(r)'
    BY <1>2, <2>1, <2>2, <2>3 DEF Deploying, At, Is
  <2>5. Well(r)
    BY <1>2, <1>3, <2>1, <2>2, <2>3, <2>4 DEF Well, CameOut, At
  <2> QED
    BY <2>3, <2>5, JobKeeps
<1>5. CASE Fails(r) /\ contracts' \in {contracts, [contracts EXCEPT ![r] = effect]}
  <2>1. UNCHANGED <<catalogue, form, requests, artifacts, rows>>
    BY DEF OnTheChain
  <2>2. CASE contracts' = contracts
    BY <1>0, <1>1, <1>5, <2>1, <2>2, CallFails DEF TypeOK
  <2>3. CASE contracts' = [contracts EXCEPT ![r] = effect]
    <3>1. /\ contracts' \in [Requests -> OnChain] /\ contracts'[r] = effect
          /\ \A q \in Requests : q # r => contracts'[q] = contracts[q]
      BY <1>0, <1>1, <2>3, ChainWritten
    <3> QED
      BY <1>1, <1>2, <1>3, <1>5, <2>1, <3>1, CallFails
  <2> QED
    BY <1>5, <2>2, <2>3
<1> QED
    BY <1>4, <1>5 DEF OnTheChain

\* The artifact is recorded, by either service.
LEMMA ArtifactSteps ==
    ASSUME IInv, NEW r \in Requests, RecordArtifact(r) \/ CompleteArtifact(r)
    PROVE  IInv'
<1>0. /\ TypeOK /\ ConfirmedMeansDeployed
      /\ ~job[r].final => Deploying(r)
      /\ job[r].final => Finalizing(r)
      /\ artifacts[r].owner = "absent" => Untracked(r)
    BY Before
<1>1. /\ job[r].step = "artifact" /\ UNCHANGED <<catalogue, form, requests, rows, contracts>>
      /\ requests[r].status # "absent"
    BY Before DEF RecordArtifact, CompleteArtifact, At
<1>2. CASE Fails(r) /\ UNCHANGED artifacts
    BY <1>0, <1>1, <1>2, CallFails DEF TypeOK
<1>3. CASE RecordArtifact(r) /\ ~(Fails(r) /\ UNCHANGED artifacts)
  <2> PICK o \in {"none", "asked", "completed"} : o = (IF requests[r].prize THEN "asked" ELSE "none")
    OBVIOUS
  <2>1. artifacts' = [artifacts EXCEPT ![r].owner = o] /\ Goto(r, "status") /\ UNCHANGED <<cut, left>> /\ ~job[r].final
    BY <1>3 DEF RecordArtifact
  <2>2. /\ artifacts' \in [Requests -> [owner : {"absent", "none", "asked", "completed"}, linked : BOOLEAN]]
        /\ artifacts'[r].owner = o /\ artifacts'[r].linked = artifacts[r].linked
        /\ \A q \in Requests : q # r => artifacts'[q] = artifacts[q]
    BY <1>0, <2>1, OwnerWritten
  <2>3. Frame(r) /\ job'[r].step = "status" /\ job'[r].final = job[r].final
    BY <1>0, <1>1, <2>1, <2>2, CallReturns DEF TypeOK, JobSteps
  <2>4. /\ Is(r, "deploying", "absent") /\ Untracked(r)
        /\ contracts[r] = IF requests[r].prize THEN "factory" ELSE "initialized"
    BY <1>0, <1>1, <2>1 DEF Deploying, At, Is
  <2>5. Deploying(r)'
    BY <1>1, <2>2, <2>3, <2>4 DEF Deploying, At, Is, Untracked
  <2>6. Well(r)
    BY <1>1, <2>1, <2>2, <2>3, <2>4, <2>5 DEF Well, CameOut, At, Is
  <2> QED
    BY <2>3, <2>6, JobKeeps
<1>4. CASE CompleteArtifact(r) /\ ~(Fails(r) /\ UNCHANGED artifacts)
  <2>1. artifacts' = [artifacts EXCEPT ![r].owner = "completed"] /\ Goto(r, "register") /\ UNCHANGED <<cut, left>> /\ job[r].final
    BY <1>4 DEF CompleteArtifact
  <2>2. /\ artifacts' \in [Requests -> [owner : {"absent", "none", "asked", "completed"}, linked : BOOLEAN]]
        /\ artifacts'[r].owner = "completed" /\ artifacts'[r].linked = artifacts[r].linked
        /\ \A q \in Requests : q # r => artifacts'[q] = artifacts[q]
    BY <1>0, <2>1, OwnerWritten
  <2>3. Frame(r) /\ job'[r].step = "register" /\ job'[r].final = job[r].final
    BY <1>0, <1>1, <2>1, <2>2, CallReturns DEF TypeOK, JobSteps
  <2>4. requests[r].prize /\ Is(r, "confirmed", "asked") /\ Standing(r)
    BY <1>0, <1>1, <2>1 DEF Finalizing, At
  <2>5. Finalizing(r)'
    BY <1>1, <2>1, <2>2, <2>3, <2>4 DEF Finalizing, At, Is, Standing
  <2>6. Well(r)
    BY <1>1, <2>1, <2>2, <2>3, <2>4, <2>5 DEF Well, CameOut, At, Is, Standing
  <2> QED
    BY <2>3, <2>6, JobKeeps
<1> QED
    BY <1>2, <1>3, <1>4

\* The status is recorded, by either service.
LEMMA StatusSteps ==
    ASSUME IInv, NEW r \in Requests, RecordStatus(r) \/ Confirm(r)
    PROVE  IInv' /\ requests[r].status = "deploying"
<1>0. /\ TypeOK /\ ConfirmedMeansDeployed
      /\ ~job[r].final => Deploying(r)
      /\ job[r].final => Finalizing(r)
    BY Before
<1>1. job[r].step = "status" /\ UNCHANGED <<catalogue, form, artifacts, rows, contracts>>
    BY DEF RecordStatus, Confirm, At
<1>2. requests[r].status = "deploying"
    BY <1>0, <1>1 DEF Deploying, Finalizing, At, Is
<1>3. CASE Fails(r) /\ UNCHANGED requests
    BY <1>0, <1>1, <1>2, <1>3, CallFails DEF TypeOK
<1>4. CASE RecordStatus(r) /\ ~(Fails(r) /\ UNCHANGED requests)
  <2> PICK s \in {"deploying", "confirmed"} : s = (IF requests[r].prize THEN "deploying" ELSE "confirmed")
    OBVIOUS
  <2> PICK next \in {"fallback", "register"} : next = (IF requests[r].prize THEN "fallback" ELSE "register")
    OBVIOUS
  <2>1. /\ ~job[r].final /\ requests' = [requests EXCEPT ![r].status = s]
        /\ Goto(r, next) /\ UNCHANGED <<cut, left>>
    BY <1>4 DEF RecordStatus, Waits
  <2>2. /\ requests' \in [Requests -> [status : Statuses, key : Keys, prize : BOOLEAN]]
        /\ requests'[r].status = s /\ requests'[r].key = requests[r].key /\ requests'[r].prize = requests[r].prize
        /\ \A q \in Requests : q # r => requests'[q] = requests[q]
    <3>1. s \in Statuses
      BY DEF Statuses
    <3> QED
      BY <1>0, <2>1, <3>1, StatusWritten, ZenonT(40)
  <2>3. Frame(r) /\ job'[r].step = next /\ job'[r].final = job[r].final
    <3>1. next \in JobSteps \ {"none"}
      BY DEF JobSteps
    <3>2. /\ left' \in [Spending -> Nat] /\ contracts' \in [Requests -> OnChain]
          /\ artifacts' \in [Requests -> [owner : {"absent", "none", "asked", "completed"}, linked : BOOLEAN]]
          /\ \A q \in Requests : q # r =>
                requests'[q] = requests[q] /\ artifacts'[q] = artifacts[q] /\ contracts'[q] = contracts[q]
          /\ requests' \in [Requests -> [status : Statuses, key : Keys, prize : BOOLEAN]]
          /\ requests'[r].key = requests[r].key /\ requests'[r].prize = requests[r].prize
          /\ job[r].step # "none"
      BY <1>0, <1>1, <2>1, <2>2 DEF TypeOK
    <3> QED
      BY <1>1, <2>1, <3>1, <3>2, CallReturns
  <2>4. /\ Is(r, "deploying", IF requests[r].prize THEN "asked" ELSE "none") /\ Untracked(r)
        /\ contracts[r] = IF requests[r].prize THEN "factory" ELSE "initialized"
    BY <1>0, <1>1, <2>1 DEF Deploying, At
  <2>5. Deploying(r)'
    BY <1>1, <2>2, <2>3, <2>4 DEF Deploying, At, Is, Untracked, Server, Asked
  <2>6. Well(r)
    BY <1>1, <1>2, <2>1, <2>2, <2>3, <2>4, <2>5 DEF Well, CameOut, At, Is
  <2> QED
    BY <1>2, <2>3, <2>6, JobKeeps
<1>5. CASE Confirm(r) /\ ~(Fails(r) /\ UNCHANGED requests)
  <2>0. job[r].final
    BY <1>5 DEF Confirm
  <2>1. requests[r].prize /\ Is(r, "deploying", "asked") /\ Standing(r)
    BY <1>0, <1>1, <2>0 DEF Finalizing, At
  <2>2. requests' = [requests EXCEPT ![r].status = "confirmed"] /\ Goto(r, "artifact") /\ UNCHANGED <<cut, left>>
    BY <1>5, <2>1 DEF Confirm, MayFinalize, Is
  <2>3. /\ requests' \in [Requests -> [status : Statuses, key : Keys, prize : BOOLEAN]]
        /\ requests'[r].status = "confirmed" /\ requests'[r].key = requests[r].key /\ requests'[r].prize = requests[r].prize
        /\ \A q \in Requests : q # r => requests'[q] = requests[q]
    BY <1>0, <2>2, StatusWritten DEF Statuses
  <2>4. Frame(r) /\ job'[r].step = "artifact" /\ job'[r].final = job[r].final
    BY <1>0, <1>1, <2>2, <2>3, CallReturns DEF TypeOK, JobSteps
  <2>5. Finalizing(r)'
    BY <1>1, <2>0, <2>1, <2>2, <2>3, <2>4 DEF Finalizing, At, Is, Standing
  <2>6. Well(r)
    BY <1>1, <1>2, <2>0, <2>1, <2>2, <2>3, <2>4, <2>5 DEF Well, CameOut, At, Is, Standing
  <2> QED
    BY <1>2, <2>4, <2>6, JobKeeps
<1> QED
    BY <1>3, <1>4, <1>5

\* What a job knows when it tracks its contest.
LEMMA MayTrack ==
    ASSUME IInv, NEW r \in Requests, job[r].step \in {"register", "fallback"}
    PROVE  /\ ~job[r].final => (Server(r) \/ Asked(r)) /\ Untracked(r)
           /\ job[r].step = "register" /\ ~job[r].final => Server(r)
           /\ job[r].final => requests[r].prize /\ Is(r, "confirmed", "completed") /\ Standing(r)
           /\ artifacts[r].owner # "absent" /\ contracts[r] \in {"factory", "initialized"}
           /\ requests[r].status # "absent"
<1>0. /\ TypeOK
      /\ ~job[r].final => Deploying(r)
      /\ job[r].final => Finalizing(r)
      /\ job[r].step # "none" => requests[r].status # "absent"
    BY Before
<1>1. ~job[r].final => (Server(r) \/ Asked(r)) /\ Untracked(r)
    BY <1>0 DEF Deploying, At
<1>2. job[r].step = "register" /\ ~job[r].final => Server(r)
    BY <1>0 DEF Deploying, At
<1>3. job[r].final => requests[r].prize /\ Is(r, "confirmed", "completed") /\ Standing(r)
    BY <1>0 DEF Finalizing, At
<1>4. artifacts[r].owner # "absent" /\ contracts[r] \in {"factory", "initialized"}
    BY <1>1, <1>3 DEF Server, Asked, Is, Standing
<1> QED
    BY <1>0, <1>1, <1>2, <1>3, <1>4

\* The contest is tracked.
LEMMA TrackSteps ==
    ASSUME IInv, NEW r \in Requests, Register(r) \/ Fallback(r)
    PROVE  IInv'
<1>0. /\ TypeOK /\ ConfirmedMeansDeployed
      /\ ~job[r].final => Deploying(r)
      /\ job[r].final => Finalizing(r)
    BY Before
<1>1. job[r].step \in {"register", "fallback"} /\ UNCHANGED <<catalogue, form, requests, artifacts, contracts>>
    BY DEF Register, Fallback, At
<1>2. /\ ~job[r].final => (Server(r) \/ Asked(r)) /\ Untracked(r)
      /\ job[r].step = "register" /\ ~job[r].final => Server(r)
      /\ job[r].final => requests[r].prize /\ Is(r, "confirmed", "completed") /\ Standing(r)
      /\ artifacts[r].owner # "absent" /\ contracts[r] \in {"factory", "initialized"}
      /\ requests[r].status # "absent"
    BY <1>1, MayTrack
<1>3. CASE Fails(r) /\ UNCHANGED rows
    BY <1>0, <1>1, <1>3, CallFails DEF TypeOK
<1>4. CASE Interrupt(r) /\ Goto(r, "fallback") /\ UNCHANGED rows /\ Register(r)
  <2>0. job[r].step = "register"
    BY <1>4 DEF Register, At
  <2>1. left' \in [Spending -> Nat] /\ cut' = cut \cup {r}
    BY <1>0, <1>4, Spent DEF Interrupt, Spending
  <2>2. Frame(r) /\ job'[r].step = "fallback" /\ job'[r].final = job[r].final
    BY <1>0, <1>1, <1>4, <2>1, CallReturns DEF TypeOK, JobSteps
  <2>3. ~job[r].final => Deploying(r)'
    BY <1>1, <1>2, <1>4, <2>0, <2>2 DEF Deploying, At, Is, Untracked, Server, Asked
  <2>4. job[r].final => Finalizing(r)'
    BY <1>1, <1>2, <2>1, <2>2 DEF Finalizing, At, Is, Standing
  <2>5. Well(r)
    BY <1>0, <1>1, <1>2, <1>4, <2>1, <2>2, <2>3, <2>4 DEF Well, At, ConfirmedMeansDeployed
  <2> QED
    BY <2>2, <2>5, JobKeeps
<1>5. CASE Track(r) /\ UNCHANGED <<cut, left>> /\ Goto(r, IF job[r].step = "fallback" /\ Waits(r) THEN "answer" ELSE "link")
  <2> PICK next \in {"answer", "link"} : next = (IF job[r].step = "fallback" /\ Waits(r) THEN "answer" ELSE "link")
    OBVIOUS
  <2>1. Frame(r) /\ job'[r].step = next /\ job'[r].final = job[r].final
    BY <1>0, <1>1, <1>5, CallReturns DEF TypeOK, JobSteps
  <2>2. Listed(r)'
    <3> PICK k \in Keys : k = requests[r].key
      BY <1>0 DEF TypeOK
    <3>1. rows'[k].contract = IF rows[k].contract = None THEN r ELSE rows[k].contract
      BY <1>0, <1>5, TrackedRow
    <3>2. r # None
      BY DeploymentAssumption
    <3> QED
      BY <1>1, <3>1, <3>2 DEF Listed
  <2>3. ~job[r].final => Deploying(r)'
    BY <1>1, <1>2, <2>1, <2>2 DEF Deploying, At, Is, Server, Asked, Waits
  <2>4. job[r].final => Finalizing(r)'
    BY <1>1, <1>2, <1>5, <2>1, <2>2 DEF Finalizing, At, Is, Standing, Waits
  <2>5. Well(r)
    BY <1>0, <1>1, <1>2, <1>5, <2>1, <2>3, <2>4 DEF Well, At, ConfirmedMeansDeployed, CameOut
  <2> QED
    BY <2>1, <2>5, JobKeeps
<1> QED
    BY <1>1, <1>3, <1>4, <1>5 DEF Register, Fallback, At

\* The artifact is linked to the contest.
LEMMA LinkStep ==
    ASSUME IInv, NEW r \in Requests, Link(r)
    PROVE  IInv'
<1>0. /\ TypeOK /\ ConfirmedMeansDeployed
      /\ ~job[r].final => Deploying(r)
      /\ job[r].final => Finalizing(r)
      /\ job[r].step # "none" => requests[r].status # "absent"
    BY Before
<1>1. job[r].step = "link" /\ UNCHANGED <<catalogue, form, requests, rows, contracts>>
    BY DEF Link, At
<1>2. CASE Fails(r) /\ UNCHANGED artifacts
    BY <1>0, <1>1, <1>2, CallFails DEF TypeOK
<1>3. CASE artifacts' = [artifacts EXCEPT ![r].linked = TRUE] /\ Goto(r, "answer") /\ UNCHANGED <<cut, left>>
  <2>1. /\ artifacts' \in [Requests -> [owner : {"absent", "none", "asked", "completed"}, linked : BOOLEAN]]
        /\ artifacts'[r].owner = artifacts[r].owner /\ artifacts'[r].linked = TRUE
        /\ \A q \in Requests : q # r => artifacts'[q] = artifacts[q]
    BY <1>0, <1>3, LinkWritten
  <2>2. Frame(r) /\ job'[r].step = "answer" /\ job'[r].final = job[r].final
    BY <1>0, <1>1, <1>3, <2>1, CallReturns DEF TypeOK, JobSteps
  <2>3. Listed(r)
    BY <1>0, <1>1 DEF Deploying, Finalizing, At
  <2>4. ~job[r].final => Deploying(r)'
    BY <1>0, <1>1, <2>1, <2>2, <2>3 DEF Deploying, At, Is, Server, Listed
  <2>5. job[r].final => Finalizing(r)'
    BY <1>0, <1>1, <1>3, <2>1, <2>2, <2>3 DEF Finalizing, At, Is, Standing, Listed
  <2>6. Well(r)
    BY <1>0, <1>1, <1>3, <2>1, <2>2, <2>3, <2>4, <2>5 DEF Well, At, ConfirmedMeansDeployed, CameOut
  <2> QED
    BY <2>2, <2>6, JobKeeps
<1> QED
    BY <1>2, <1>3 DEF Link

\* The failure is recorded.
LEMMA FailureStep ==
    ASSUME IInv, NEW r \in Requests, RecordFailure(r)
    PROVE  IInv'
<1>0. /\ TypeOK /\ ConfirmedMeansDeployed
      /\ \A step \in {"failing", "error"} : At(r, step) => r \in cut
      /\ ~job[r].final => Deploying(r)
      /\ job[r].final => Finalizing(r)
      /\ requests[r].status # "absent" \/ job[r].step = "none"
    BY Before
<1>1. job[r].step = "failing" /\ Goto(r, "error") /\ UNCHANGED <<catalogue, form, artifacts, rows, contracts, cut>>
    BY DEF RecordFailure, At
<1>2. /\ requests' \in [Requests -> [status : Statuses, key : Keys, prize : BOOLEAN]]
      /\ requests'[r].status \in {requests[r].status, "failed"}
      /\ requests'[r].key = requests[r].key /\ requests'[r].prize = requests[r].prize
      /\ \A q \in Requests : q # r => requests'[q] = requests[q]
      /\ left' \in [Spending -> Nat]
  <2>1. CASE requests' = [requests EXCEPT ![r].status = "failed"] /\ UNCHANGED left
    <3>1. /\ requests' \in [Requests -> [status : Statuses, key : Keys, prize : BOOLEAN]]
          /\ requests'[r].status = "failed" /\ requests'[r].key = requests[r].key /\ requests'[r].prize = requests[r].prize
          /\ \A q \in Requests : q # r => requests'[q] = requests[q]
      BY <1>0, <2>1, StatusWritten DEF Statuses
    <3> QED
      BY <1>0, <2>1, <3>1 DEF TypeOK
  <2>2. CASE Spend("fault") /\ UNCHANGED requests
    BY <1>0, <2>2, Spent DEF Spending, TypeOK
  <2> QED
    BY <2>1, <2>2 DEF RecordFailure
<1>3. Frame(r) /\ job'[r].step = "error" /\ job'[r].final = job[r].final
    BY <1>0, <1>1, <1>2, CallReturns DEF TypeOK, JobSteps
<1>4. r \in cut
    BY <1>0, <1>1 DEF At
<1>5. ~job[r].final => Deploying(r)'
    BY <1>3 DEF Deploying, At
<1>6. job[r].final => Finalizing(r)'
    BY <1>0, <1>2, <1>3 DEF Finalizing, At
<1>7. Well(r)
    BY <1>0, <1>1, <1>2, <1>3, <1>4, <1>5, <1>6 DEF Well, ConfirmedMeansDeployed
<1> QED
    BY <1>3, <1>7, JobKeeps

LEMMA JobSteady ==
    ASSUME IInv, NEW r \in Requests, JobStep(r)
    PROVE  IInv'
BY ChainSteps, ArtifactSteps, StatusSteps, TrackSteps, LinkStep, FailureStep DEF JobStep

-----------------------------------------------------------------------------
(* A step of a form                                                          *)

\* Two forms are never of one request.
LEMMA FormsApart ==
    ASSUME IInv, NEW t \in Tabs, NEW u \in Tabs, form[t].request # None, form[t].request = form[u].request
    PROVE  t = u
BY DEF IInv, Latest

\* A form whose request has come out, or that never had one, shows it.
LEMMA NothingPends ==
    ASSUME IInv, NEW t \in Tabs, form[t].step \in {"editing", "done", "error"}, NEW r, r = form[t].request
    PROVE  r # None => r \in Filed /\ (job[r].step = "none" \/ r \in cut) /\ (CameOut(r) \/ r \in cut)
<1> SUFFICES ASSUME r # None
             PROVE  r \in Filed /\ (job[r].step = "none" \/ r \in cut) /\ (CameOut(r) \/ r \in cut)
    OBVIOUS
<1>1. r \in Filed /\ form[t].step # "editing"
    BY DEF IInv, Latest
<1>2. job[r].step = "none" \/ r \in cut
    BY DEF IInv, InStep
<1>3. r \notin cut => CameOut(r)
  <2> SUFFICES ASSUME r \notin cut, ~CameOut(r), NEW u \in Tabs, form[u].request = r, form[u].step \notin {"done", "error"}
               PROVE  FALSE
    BY <1>1 DEF IInv, Told
  <2>1. u = t
    BY FormsApart
  <2> QED
    BY <1>1, <2>1
<1> QED
    BY <1>1, <1>2, <1>3

LEMMA FormKeeps ==
    ASSUME IInv, NEW t \in Tabs, NEW s \in FormSteps \ {"editing"}, Show(t, s),
           NEW r, r = form[t].request, r = None => s = "error",
           UNCHANGED <<catalogue, requests, artifacts, rows>>,
           contracts' \in [Requests -> OnChain], left' \in [Spending -> Nat],
           job' \in [Requests -> [step : JobSteps, final : BOOLEAN]],
           cut' = cut \/ (cut' = cut \cup {r} /\ r # None),
           \A q \in Requests : q # r => contracts'[q] = contracts[q] /\ job'[q] = job[q],
           r # None =>
              /\ contracts'[r] = contracts[r] \/ (contracts'[r] = "initialized" /\ Asked(r))
              /\ \A step \in {"failing", "error"} : At(r, step)' => r \in cut'
              /\ ~job'[r].final => Deploying(r)'
              /\ job'[r].final => Finalizing(r)'
              /\ job'[r].step # "none" => s = (IF job'[r].final THEN "finalizing" ELSE "creating") \/ (s = "error" /\ r \in cut')
              /\ s \in {"approve", "initialize"} => Asked(r)' /\ Listed(r)
              /\ s = "finalize" => requests[r].prize /\ Is(r, "deploying", "asked") /\ Standing(r)' /\ Listed(r)
              /\ s \in {"done", "error"} => CameOut(r) \/ r \in cut'
    PROVE  IInv'
<1>0. TypeOK /\ Order /\ Staged /\ Latest /\ InStep /\ Superseded /\ Tracked /\ Told /\ ConfirmedMeansDeployed
    BY DEF IInv
<1>1. /\ form' \in [Tabs -> [step : FormSteps, key : Keys, vault : 0..vaults, request : Requests \cup {None}]]
      /\ form'[t].step = s /\ form'[t].key = form[t].key /\ form'[t].request = form[t].request
      /\ \A u \in Tabs : u # t => form'[u] = form[u]
    BY <1>0, Shown
<1>2. r # None => r \in Filed /\ r \in Requests /\ requests[r].key = form[t].key
    BY <1>0 DEF Latest, Filed
<1>3. Filed' = Filed /\ cut \subseteq cut'
    BY DEF Filed
<1>4. \A q \in Requests : q # r =>
          contracts'[q] = contracts[q] /\ job'[q] = job[q] /\ (q \in cut' <=> q \in cut)
    OBVIOUS
<1>5. \A u \in Tabs : form'[u].key = form[u].key /\ form'[u].request = form[u].request
    BY <1>1
<1>6. \A q \in Requests : CameOut(q) => CameOut(q)'
    BY <1>4, DeploymentAssumption DEF CameOut, Listed
<1>10. TypeOK'
    BY <1>0, <1>1, <1>2 DEF TypeOK, catalogue
<1>11. Order'
  <2>1. \A q \in Requests \ Filed : q # r
    BY <1>2, DeploymentAssumption
  <2> QED
    BY <2>1, <1>0, <1>3, <1>4 DEF Order
<1>12. Staged'
  <2> SUFFICES ASSUME NEW q \in Requests
               PROVE  /\ \A step \in {"failing", "error"} : At(q, step)' => q \in cut'
                      /\ ~job'[q].final => Deploying(q)'
                      /\ job'[q].final => Finalizing(q)'
    BY DEF Staged
  <2>1. CASE q = r
    BY <2>1, <1>2, DeploymentAssumption
  <2>2. CASE q # r
    <3>1. contracts'[q] = contracts[q] /\ job'[q] = job[q] /\ (q \in cut' <=> q \in cut)
      BY <2>2, <1>4
    <3>2. /\ \A step \in {"failing", "error"} : At(q, step) => q \in cut
          /\ ~job[q].final => Deploying(q)
          /\ job[q].final => Finalizing(q)
      BY <1>0 DEF Staged
    <3>3. \A step \in {"failing", "error"} : At(q, step)' => q \in cut'
      BY <3>1, <3>2 DEF At
    <3>4. ~job'[q].final => Deploying(q)'
      BY <3>1, <3>2 DEF Deploying, At, Is, Server, Asked, Untracked, Listed
    <3>5. job'[q].final => Finalizing(q)'
      BY <3>1, <3>2, SMTT(90) DEF Finalizing, At, Is, Standing, Listed
    <3> QED
      BY <3>3, <3>4, <3>5
  <2> QED
    BY <2>1, <2>2
<1>13. Latest'
    BY <1>0, <1>1, <1>3, <1>5 DEF Latest
<1>14. InStep'
  <2> SUFFICES ASSUME NEW u \in Tabs, form[u].request # None, NEW q, q = form[u].request
               PROVE  /\ job'[q].step # "none" => form'[u].step = (IF job'[q].final THEN "finalizing" ELSE "creating") \/ (form'[u].step = "error" /\ q \in cut')
                      /\ form'[u].step \in {"approve", "initialize"} => Asked(q)' /\ Listed(q)'
                      /\ form'[u].step = "finalize" =>
                            requests'[q].prize /\ Is(q, "deploying", "asked")' /\ Standing(q)' /\ Listed(q)'
    BY <1>5 DEF InStep
  <2>1. CASE u = t
    BY <2>1, <1>1 DEF Is, Listed
  <2>2. CASE u # t
    <3>1. q # r /\ q \in Requests /\ form'[u] = form[u]
      BY <2>2, <1>0, <1>1, FormsApart DEF Latest, Filed
    <3>2. /\ job[q].step # "none" => form[u].step = (IF job[q].final THEN "finalizing" ELSE "creating") \/ (form[u].step = "error" /\ q \in cut)
          /\ form[u].step \in {"approve", "initialize"} => Asked(q) /\ Listed(q)
          /\ form[u].step = "finalize" =>
                requests[q].prize /\ Is(q, "deploying", "asked") /\ Standing(q) /\ Listed(q)
      BY <1>0 DEF InStep
    <3> QED
      BY <3>1, <3>2, <1>4, SMTT(30) DEF Asked, Is, Standing, Listed
  <2> QED
    BY <2>1, <2>2
<1>15. Superseded'
  <2> SUFFICES ASSUME NEW q \in Filed, NEW p \in Filed, q < p, requests[q].key = requests[p].key
               PROVE  job'[q].step = "none" \/ q \in cut'
    BY <1>3 DEF Superseded
  <2>1. (job[q].step = "none" \/ q \in cut) /\ q \in Requests /\ q \in Nat /\ p \in Nat
    BY <1>0, DeploymentAssumption DEF Superseded, Filed
  <2>2. q # r
    BY <1>0, <1>2, <2>1, DeploymentAssumption DEF Latest
  <2> QED
    BY <2>1, <2>2, <1>4
<1>16. Tracked'
  <2>1. \A q \in Requests : contracts[q] \in {"factory", "initialized"} => contracts'[q] \in {"factory", "initialized"}
    <3> SUFFICES ASSUME NEW q \in Requests, contracts[q] \in {"factory", "initialized"}
                 PROVE  contracts'[q] \in {"factory", "initialized"}
      OBVIOUS
    <3> QED
      BY <1>2, <1>4, DeploymentAssumption
  <2>2. \A k \in Keys : rows[k].contract # None => rows[k].contract \in Requests /\ rows[k].meta \in Requests
    BY <1>0 DEF TypeOK, Tracked
  <2> QED
    BY <1>0, <1>3, <2>1, <2>2 DEF Tracked, RowsNameContracts
<1>17. Told'
  <2> SUFFICES ASSUME NEW q \in Filed, q \notin cut', ~CameOut(q)
               PROVE  \E u \in Tabs : form'[u].request = q /\ form'[u].step \notin {"done", "error"}
    BY <1>3, <1>6 DEF Told, Filed
  <2> PICK u \in Tabs : form[u].request = q /\ form[u].step \notin {"done", "error"}
    BY <1>0, <1>3 DEF Told
  <2>1. CASE u = t
    BY <2>1, <1>1, DeploymentAssumption DEF Filed
  <2>2. CASE u # t
    BY <2>2, <1>1
  <2> QED
    BY <2>1, <2>2
<1>18. ConfirmedMeansDeployed'
  <2> SUFFICES ASSUME NEW q \in Requests, requests[q].status = "confirmed"
               PROVE  /\ artifacts[q].owner # "absent"
                      /\ contracts'[q] = "initialized" \/ (contracts'[q] = "factory" /\ requests[q].prize /\ q \in cut')
    BY DEF ConfirmedMeansDeployed
  <2>1. CASE q = r
    BY <2>1, <1>0, <1>3, DeploymentAssumption DEF ConfirmedMeansDeployed
  <2>2. CASE q # r
    BY <2>2, <1>0, <1>3, <1>4 DEF ConfirmedMeansDeployed
  <2> QED
    BY <2>1, <2>2
<1> QED
    BY <1>10, <1>11, <1>12, <1>13, <1>14, <1>15, <1>16, <1>17, <1>18 DEF IInv

\* The answer of a job.
LEMMA AnsweredKeeps ==
    ASSUME IInv, NEW t \in Tabs, Answered(t)
    PROVE  IInv'
<1>0. TypeOK
    BY DEF IInv
<1> PICK r : r = form[t].request
    OBVIOUS
<1>1. /\ form[t].step \in {"creating", "finalizing"} /\ job[r].step \in {"answer", "error"}
      /\ Goto(r, "none")
      /\ UNCHANGED <<catalogue, requests, artifacts, rows, contracts, cut, left>>
    BY DEF Answered
<1>2. r # None /\ r \in Requests /\ job[r].step # "none"
    BY <1>1 DEF IInv, Latest, Filed
<1>3. /\ \A step \in {"failing", "error"} : At(r, step) => r \in cut
      /\ ~job[r].final => Deploying(r)
      /\ job[r].final => Finalizing(r)
    BY <1>2, Before
<1> PICK s \in {"error", "approve", "done"} :
        s = (IF At(r, "error") THEN "error" ELSE IF requests[r].prize /\ ~job[r].final THEN "approve" ELSE "done")
    OBVIOUS
<1>4. Show(t, s)
    BY <1>1 DEF Answered, At
<1>5. /\ job' \in [Requests -> [step : JobSteps, final : BOOLEAN]]
      /\ job'[r].step = "none" /\ job'[r].final = job[r].final
      /\ \A q \in Requests : q # r => job'[q] = job[q]
    BY <1>0, <1>1, <1>2, Gone DEF JobSteps
<1>6. ~job[r].final => Deploying(r)'
    BY <1>5 DEF Deploying, At
<1>7. job[r].final => Finalizing(r)'
    BY <1>1, <1>3, <1>5 DEF Finalizing, At
<1>8. s = "approve" => Asked(r) /\ Listed(r)
    BY <1>1, <1>3 DEF Deploying, At, Server
<1>9. s = "error" => r \in cut
    BY <1>3 DEF At
<1>10. s = "done" => CameOut(r) \/ r \in cut
  <2> SUFFICES ASSUME s = "done", r \notin cut
               PROVE  CameOut(r)
    OBVIOUS
  <2>1. job[r].step = "answer"
    BY <1>1 DEF At
  <2>2. CASE job[r].final
    BY <2>1, <2>2, <1>3 DEF Finalizing, At, Standing, Is, CameOut
  <2>3. CASE ~job[r].final
    BY <2>1, <2>3, <1>3 DEF Deploying, At, Server, Asked, Is, CameOut
  <2> QED
    BY <2>2, <2>3
<1>11. s \in FormSteps \ {"editing"} /\ contracts' \in [Requests -> OnChain] /\ left' \in [Spending -> Nat]
    BY <1>0, <1>1 DEF TypeOK, FormSteps
<1>12. s \in {"approve", "initialize"} => Asked(r)' /\ Listed(r)
    BY <1>1, <1>8 DEF Asked, Is
<1>13. \A step \in {"failing", "error"} : ~At(r, step)'
    BY <1>5 DEF At
<1>14. r # None =>
             /\ contracts'[r] = contracts[r] \/ (contracts'[r] = "initialized" /\ Asked(r))
             /\ \A step \in {"failing", "error"} : At(r, step)' => r \in cut'
             /\ ~job'[r].final => Deploying(r)'
             /\ job'[r].final => Finalizing(r)'
             /\ job'[r].step # "none" => s = (IF job'[r].final THEN "finalizing" ELSE "creating") \/ (s = "error" /\ r \in cut')
             /\ s \in {"approve", "initialize"} => Asked(r)' /\ Listed(r)
             /\ s = "finalize" => requests[r].prize /\ Is(r, "deploying", "asked") /\ Standing(r)' /\ Listed(r)
             /\ s \in {"done", "error"} => CameOut(r) \/ r \in cut'
    BY <1>1, <1>5, <1>6, <1>7, <1>9, <1>10, <1>12, <1>13
<1> QED
    BY <1>1, <1>2, <1>4, <1>5, <1>11, <1>14, FormKeeps

\* An answer that is lost.
LEMMA LostKeeps ==
    ASSUME IInv, NEW t \in Tabs, LoseAnswer(t)
    PROVE  IInv'
<1>0. TypeOK
    BY DEF IInv
<1> PICK r : r = form[t].request
    OBVIOUS
<1>1. /\ form[t].step \in {"creating", "finalize", "finalizing"} /\ Show(t, "error") /\ cut' = cut \cup {r}
      /\ UNCHANGED <<catalogue, requests, artifacts, rows, contracts, job>>
    BY DEF LoseAnswer
<1>2. r # None /\ r \in Requests
    BY <1>1 DEF IInv, Latest, Filed
<1>3. /\ ~job[r].final => Deploying(r)
      /\ job[r].final => Finalizing(r)
    BY <1>2, Before
<1>4. ~job'[r].final => Deploying(r)'
    BY <1>1, <1>3 DEF Deploying, At, Is, Server, Asked, Untracked, Listed
<1>5. job'[r].final => Finalizing(r)'
    BY <1>1, <1>3 DEF Finalizing, At, Is, Standing, Listed
<1>6. left' \in [Spending -> Nat]
    BY <1>0, Spent DEF LoseAnswer, Spending
<1>7. /\ "error" \in FormSteps \ {"editing"} /\ contracts' \in [Requests -> OnChain]
      /\ job' \in [Requests -> [step : JobSteps, final : BOOLEAN]]
    BY <1>0, <1>1 DEF FormSteps, TypeOK
<1> PICK s : s = "error"
    OBVIOUS
<1>8. s \notin {"approve", "initialize", "finalize"} /\ r \in cut'
    BY <1>1
<1>9. r # None =>
             /\ contracts'[r] = contracts[r] \/ (contracts'[r] = "initialized" /\ Asked(r))
             /\ \A step \in {"failing", "error"} : At(r, step)' => r \in cut'
             /\ ~job'[r].final => Deploying(r)'
             /\ job'[r].final => Finalizing(r)'
             /\ job'[r].step # "none" => s = (IF job'[r].final THEN "finalizing" ELSE "creating") \/ (s = "error" /\ r \in cut')
             /\ s \in {"approve", "initialize"} => Asked(r)' /\ Listed(r)
             /\ s = "finalize" => requests[r].prize /\ Is(r, "deploying", "asked") /\ Standing(r)' /\ Listed(r)
             /\ s \in {"done", "error"} => CameOut(r) \/ r \in cut'
    BY <1>1, <1>4, <1>5, <1>8
<1> QED
    BY <1>1, <1>2, <1>6, <1>7, <1>9, FormKeeps

\* A step of the wallet, or finalizing.
LEMMA AskedKeeps ==
    ASSUME IInv, NEW t \in Tabs, Refuse(t) \/ Approve(t) \/ SendInitialize(t)
    PROVE  IInv'
<1>0. TypeOK
    BY DEF IInv
<1> PICK r : r = form[t].request
    OBVIOUS
<1>1. /\ form[t].step \in {"approve", "initialize"}
      /\ UNCHANGED <<catalogue, requests, artifacts, rows, job>>
    BY DEF Refuse, Approve, SendInitialize
<1>2. r # None /\ r \in Requests /\ Asked(r) /\ Listed(r) /\ job[r].step = "none"
    BY <1>1 DEF IInv, Latest, InStep, Filed
<1>3. /\ ~job[r].final => Deploying(r)
      /\ job[r].final => Finalizing(r)
    BY <1>2, Before
<1>4. ~job'[r].final => Deploying(r)'
    BY <1>1, <1>2 DEF Deploying, At
<1>5. job'[r].final => Finalizing(r)'
    BY <1>1, <1>2, <1>3 DEF Finalizing, At
<1>6. \A step \in {"failing", "error"} : ~At(r, step)'
    BY <1>1, <1>2 DEF At
<1>7. requests[r].prize /\ Is(r, "deploying", "asked")
    BY <1>2 DEF Asked
<1>8. PICK s \in {"error", "initialize", "finalize"} : Show(t, s)
          /\ (s = "error" => cut' = cut \cup {r})
          /\ (s = "initialize" => UNCHANGED contracts)
          /\ (s = "finalize" => contracts' = [contracts EXCEPT ![r] = "initialized"] \/ (contracts' = contracts /\ r \in cut'))
          /\ (cut' = cut \/ cut' = cut \cup {r})
          /\ (UNCHANGED left \/ Spend("fault"))
          /\ (contracts' = contracts \/ contracts' = [contracts EXCEPT ![r] = "initialized"])
  <2>1. CASE Refuse(t)
    BY <2>1, <1>1 DEF Refuse
  <2>2. CASE Approve(t)
    BY <2>2, <1>1 DEF Approve
  <2>3. CASE SendInitialize(t)
    BY <2>3, <1>1 DEF SendInitialize
  <2> QED
    BY <2>1, <2>2, <2>3
<1>9. left' \in [Spending -> Nat]
    BY <1>0, <1>8, Spent DEF TypeOK, Spending
<1>10. /\ contracts' \in [Requests -> OnChain]
       /\ \A q \in Requests : q # r => contracts'[q] = contracts[q]
       /\ contracts'[r] = contracts[r] \/ contracts'[r] = "initialized"
    BY <1>0, <1>2, <1>8 DEF TypeOK, OnChain
<1>11. s = "initialize" => Asked(r)'
    BY <1>1, <1>2, <1>8 DEF Asked, Is
<1>12. s = "finalize" => Standing(r)'
    BY <1>0, <1>2, <1>8 DEF Asked, Standing, TypeOK
<1>13. s \in FormSteps \ {"editing"} /\ job' \in [Requests -> [step : JobSteps, final : BOOLEAN]]
    BY <1>0, <1>1 DEF FormSteps, TypeOK
<1>14. r # None =>
             /\ contracts'[r] = contracts[r] \/ (contracts'[r] = "initialized" /\ Asked(r))
             /\ \A step \in {"failing", "error"} : At(r, step)' => r \in cut'
             /\ ~job'[r].final => Deploying(r)'
             /\ job'[r].final => Finalizing(r)'
             /\ job'[r].step # "none" => s = (IF job'[r].final THEN "finalizing" ELSE "creating") \/ (s = "error" /\ r \in cut')
             /\ s \in {"approve", "initialize"} => Asked(r)' /\ Listed(r)
             /\ s = "finalize" => requests[r].prize /\ Is(r, "deploying", "asked") /\ Standing(r)' /\ Listed(r)
             /\ s \in {"done", "error"} => CameOut(r) \/ r \in cut'
    BY <1>1, <1>2, <1>4, <1>5, <1>6, <1>7, <1>8, <1>10, <1>11, <1>12
<1> QED
    BY <1>1, <1>2, <1>8, <1>9, <1>10, <1>13, <1>14, FormKeeps

LEMMA FinalizeKeeps ==
    ASSUME IInv, NEW t \in Tabs, Finalize(t)
    PROVE  IInv'
<1>0. TypeOK
    BY DEF IInv
<1> PICK r : r = form[t].request
    OBVIOUS
<1>1. /\ form[t].step = "finalize" /\ Show(t, "finalizing")
      /\ job' = [job EXCEPT ![r] = [step |-> "status", final |-> TRUE]]
      /\ UNCHANGED <<catalogue, requests, artifacts, rows, contracts, cut, left>>
    BY DEF Finalize
<1>2. /\ r # None /\ r \in Requests /\ Listed(r) /\ Standing(r)
      /\ requests[r].prize /\ Is(r, "deploying", "asked")
    BY <1>1 DEF IInv, Latest, InStep, Filed
<1>3. /\ job' \in [Requests -> [step : JobSteps, final : BOOLEAN]]
      /\ job'[r].step = "status" /\ job'[r].final
      /\ \A q \in Requests : q # r => job'[q] = job[q]
    BY <1>0, <1>1, <1>2 DEF TypeOK, JobSteps
<1>4. Finalizing(r)'
    BY <1>1, <1>2, <1>3 DEF Finalizing, At, Is, Standing
<1>5. \A step \in {"failing", "error"} : ~At(r, step)'
    BY <1>3 DEF At
<1>6. /\ "finalizing" \in FormSteps \ {"editing"}
      /\ contracts' \in [Requests -> OnChain] /\ left' \in [Spending -> Nat]
    BY <1>0, <1>1 DEF TypeOK, FormSteps
<1> QED
    BY <1>1, <1>2, <1>3, <1>4, <1>5, <1>6, FormKeeps

-----------------------------------------------------------------------------
(* Everything else                                                           *)

\* What is said of the requests needs the forms in three places only.
LEMMA RequestsStand ==
    ASSUME IInv, UNCHANGED <<requests, artifacts, rows, contracts, job>>, cut \subseteq cut', cut' \subseteq cut \cup Filed
    PROVE  Order' /\ Staged' /\ Superseded' /\ Tracked' /\ ConfirmedMeansDeployed' /\ Filed' = Filed
<1>0. Order /\ Staged /\ Superseded /\ Tracked /\ ConfirmedMeansDeployed
    BY DEF IInv
<1>1. Filed' = Filed
    BY DEF Filed
<1>2. Order'
    BY <1>0, <1>1 DEF Order
<1>3. Staged'
  <2> SUFFICES ASSUME NEW q \in Requests
               PROVE  /\ \A step \in {"failing", "error"} : At(q, step)' => q \in cut'
                      /\ ~job'[q].final => Deploying(q)'
                      /\ job'[q].final => Finalizing(q)'
    BY DEF Staged
  <2>1. /\ \A step \in {"failing", "error"} : At(q, step) => q \in cut
        /\ ~job[q].final => Deploying(q)
        /\ job[q].final => Finalizing(q)
    BY <1>0 DEF Staged
  <2>2. \A step \in {"failing", "error"} : At(q, step)' => q \in cut'
    BY <2>1 DEF At
  <2>3. ~job'[q].final => Deploying(q)'
    BY <2>1 DEF Deploying, At, Is, Server, Asked, Untracked, Listed
  <2>4. job'[q].final => Finalizing(q)'
    BY <2>1 DEF Finalizing, At, Is, Standing, Listed
  <2> QED
    BY <2>2, <2>3, <2>4
<1>4. Superseded'
    BY <1>0, <1>1 DEF Superseded
<1>5. Tracked'
    BY <1>0, <1>1 DEF Tracked, RowsNameContracts
<1>6. ConfirmedMeansDeployed'
    BY <1>0 DEF ConfirmedMeansDeployed
<1> QED
    BY <1>1, <1>2, <1>3, <1>4, <1>5, <1>6

\* Components, and the list of them that a form loads.
ComponentStep(t) == DeployClick(t) \/ DeployVault(t) \/ FindComponent(t) \/ SaveComponent(t)

LEMMA ComponentsTyped ==
    ASSUME TypeOK, NEW t \in Tabs, ComponentStep(t)
    PROVE  /\ vaults' \in 0..MaxVaults /\ component' \in 0..vaults' /\ vaults <= vaults'
           /\ page' \in [Tabs -> [step : {"idle", "deploy", "read", "write"}, vault : 0..vaults', found : BOOLEAN]]
           /\ left' \in [Spending -> Nat]
           /\ UNCHANGED <<form, requests, artifacts, rows, contracts, job, cut>>
<1> DEFINE Page(v) == [step : {"idle", "deploy", "read", "write"}, vault : 0..v, found : BOOLEAN]
<1>0. MaxVaults \in Nat /\ vaults \in Nat /\ component \in Nat /\ None = 0
    BY DeploymentAssumption DEF TypeOK, None
<1>1. page \in [Tabs -> Page(vaults)] /\ page[t] \in Page(vaults)
    BY DEF TypeOK
<1>2. CASE DeployClick(t)
  <2> PICK p : p = [page[t] EXCEPT !.step = "deploy"]
    OBVIOUS
  <2>1. p \in Page(vaults)
    BY <1>1
  <2>2. page' = [page EXCEPT ![t] = p]
    BY <1>1, <1>2 DEF DeployClick
  <2>3. page' \in [Tabs -> Page(vaults)]
    BY <1>1, <2>1, <2>2
  <2>4. left' \in [Spending -> Nat]
    BY <1>2, Spent DEF DeployClick, Spending
  <2> QED
    BY <1>0, <1>2, <2>3, <2>4 DEF DeployClick, TypeOK
<1>3. CASE DeployVault(t)
  <2>1. vaults' = vaults + 1 /\ vaults' \in 0..MaxVaults
    BY <1>0, <1>3 DEF DeployVault, TypeOK
  <2>2. Page(vaults) \subseteq Page(vaults')
    BY <1>0, <2>1
  <2>3. NoPage \in Page(vaults') /\ [step |-> "read", vault |-> vaults', found |-> FALSE] \in Page(vaults')
    BY <1>0, <2>1 DEF NoPage
  <2> HIDE DEF Page
  <2>4. page' \in [Tabs -> Page(vaults')]
    BY <1>1, <1>3, <2>2, <2>3 DEF DeployVault
  <2>5. left' \in [Spending -> Nat]
    BY <1>3, Spent DEF DeployVault, Spending, TypeOK
  <2>6. component' \in 0..vaults'
    BY <1>0, <1>3, <2>1 DEF DeployVault, TypeOK
  <2>7. UNCHANGED <<form, requests, artifacts, rows, contracts, job, cut>>
    BY <1>3 DEF DeployVault
  <2> QED
    BY <1>0, <2>1, <2>4, <2>5, <2>6, <2>7 DEF Page
<1>4. CASE FindComponent(t)
  <2> PICK b \in BOOLEAN : b = (component # None)
    OBVIOUS
  <2> PICK p : p = [page[t] EXCEPT !.step = "write", !.found = b]
    OBVIOUS
  <2>1. p \in Page(vaults)
    BY <1>1
  <2>2. page' = [page EXCEPT ![t] = p]
    BY <1>1, <1>4 DEF FindComponent
  <2>3. page' \in [Tabs -> Page(vaults)]
    BY <1>1, <2>1, <2>2
  <2> QED
    BY <1>0, <1>4, <2>3 DEF FindComponent, TypeOK
<1>5. CASE SaveComponent(t)
  <2>1. NoPage \in Page(vaults)
    BY <1>0 DEF NoPage
  <2>2. page' \in [Tabs -> Page(vaults)]
    BY <1>1, <1>5, <2>1 DEF SaveComponent
  <2>3. component' \in 0..vaults
    BY <1>1, <1>5 DEF SaveComponent, TypeOK
  <2> QED
    BY <1>0, <1>5, <2>2, <2>3 DEF SaveComponent, TypeOK
<1> QED
    BY <1>2, <1>3, <1>4, <1>5 DEF ComponentStep

\* Forms that stay where they are keep step with a catalogue that stands still.
LEMMA InStepStands ==
    ASSUME InStep, UNCHANGED <<requests, artifacts, rows, contracts, job>>, cut \subseteq cut',
           \A u \in Tabs : form'[u].request # None =>
                              form'[u].request = form[u].request /\ form'[u].step = form[u].step
    PROVE  InStep'
<1> SUFFICES ASSUME NEW u \in Tabs, form'[u].request # None, NEW q, q = form'[u].request
             PROVE  /\ job'[q].step # "none" => form'[u].step = (IF job'[q].final THEN "finalizing" ELSE "creating") \/ (form'[u].step = "error" /\ q \in cut')
                    /\ form'[u].step \in {"approve", "initialize"} => Asked(q)' /\ Listed(q)'
                    /\ form'[u].step = "finalize" =>
                          requests'[q].prize /\ Is(q, "deploying", "asked")' /\ Standing(q)' /\ Listed(q)'
    BY DEF InStep
<1>1. form[u].request = q /\ q # None /\ form'[u].step = form[u].step
    OBVIOUS
<1>2. /\ job[q].step # "none" => form[u].step = (IF job[q].final THEN "finalizing" ELSE "creating") \/ (form[u].step = "error" /\ q \in cut)
      /\ form[u].step \in {"approve", "initialize"} => Asked(q) /\ Listed(q)
      /\ form[u].step = "finalize" =>
            requests[q].prize /\ Is(q, "deploying", "asked") /\ Standing(q) /\ Listed(q)
    BY <1>1 DEF InStep
<1>3. /\ Asked(q)' = Asked(q) /\ Listed(q)' = Listed(q) /\ (Standing(q) => Standing(q)')
      /\ Is(q, "deploying", "asked")' = Is(q, "deploying", "asked")
    BY DEF Asked, Is, Standing, Listed
<1> QED
    BY <1>1, <1>2, <1>3

LEMMA ComponentKeeps ==
    ASSUME IInv, NEW t \in Tabs, ComponentStep(t)
    PROVE  IInv'
<1>0. TypeOK /\ Latest /\ InStep /\ Told
    BY DEF IInv
<1>1. /\ vaults' \in 0..MaxVaults /\ component' \in 0..vaults' /\ vaults <= vaults'
      /\ page' \in [Tabs -> [step : {"idle", "deploy", "read", "write"}, vault : 0..vaults', found : BOOLEAN]]
      /\ left' \in [Spending -> Nat]
      /\ UNCHANGED <<form, requests, artifacts, rows, contracts, job, cut>>
    BY <1>0, ComponentsTyped
<1>2. Order' /\ Staged' /\ Superseded' /\ Tracked' /\ ConfirmedMeansDeployed' /\ Filed' = Filed
    BY <1>1, RequestsStand
<1>3. form' \in [Tabs -> [step : FormSteps, key : Keys, vault : 0..vaults', request : Requests \cup {None}]]
  <2> DEFINE Form(v) == [step : FormSteps, key : Keys, vault : 0..v, request : Requests \cup {None}]
  <2>1. vaults \in Nat /\ vaults' \in Nat /\ vaults <= vaults'
    BY <1>0, <1>1, DeploymentAssumption DEF TypeOK
  <2>2. Form(vaults) \subseteq Form(vaults')
    BY <2>1
  <2>3. form \in [Tabs -> Form(vaults)] /\ form' = form
    BY <1>0, <1>1 DEF TypeOK
  <2> HIDE DEF Form
  <2>4. form' \in [Tabs -> Form(vaults')]
    BY <2>2, <2>3
  <2> QED
    BY <2>4 DEF Form
<1>4. TypeOK'
    BY <1>0, <1>1, <1>3 DEF TypeOK
<1>5. Latest'
    BY <1>0, <1>1, <1>2 DEF Latest
<1>7. InStep'
    BY <1>0, <1>1, InStepStands
<1>6. Told'
    BY <1>0, <1>1, <1>2 DEF Told, CameOut, Listed
<1> QED
    BY <1>7, <1>2, <1>4, <1>5, <1>6 DEF IInv

LEMMA LoadKeeps ==
    ASSUME IInv, NEW t \in Tabs, LoadComponents(t)
    PROVE  IInv'
<1>0. TypeOK /\ Latest /\ InStep /\ Told
    BY DEF IInv
<1>1. UNCHANGED <<catalogue, requests, artifacts, rows, contracts, job, cut, left>>
    BY DEF LoadComponents
<1>2. Order' /\ Staged' /\ Superseded' /\ Tracked' /\ ConfirmedMeansDeployed' /\ Filed' = Filed
    BY <1>1, RequestsStand
<1> PICK f : f = [form[t] EXCEPT !.vault = component]
    OBVIOUS
<1>3. /\ form[t] \in [step : FormSteps, key : Keys, vault : 0..vaults, request : Requests \cup {None}]
      /\ component \in 0..vaults
    BY <1>0 DEF TypeOK
<1>4. /\ f \in [step : FormSteps, key : Keys, vault : 0..vaults, request : Requests \cup {None}]
      /\ f.step = form[t].step /\ f.key = form[t].key /\ f.request = form[t].request
    BY <1>3
<1>5. form' = [form EXCEPT ![t] = f]
    BY <1>0 DEF LoadComponents, TypeOK
<1>6. /\ form' \in [Tabs -> [step : FormSteps, key : Keys, vault : 0..vaults, request : Requests \cup {None}]]
      /\ \A u \in Tabs : form'[u].step = form[u].step /\ form'[u].key = form[u].key /\ form'[u].request = form[u].request
    BY <1>0, <1>4, <1>5 DEF TypeOK
<1>7. TypeOK'
    BY <1>0, <1>1, <1>6 DEF TypeOK, catalogue
<1>8. Latest'
    BY <1>0, <1>1, <1>2, <1>6 DEF Latest
<1>9. InStep'
    BY <1>0, <1>1, <1>6, InStepStands
<1>10. Told'
    BY <1>0, <1>1, <1>2, <1>6 DEF Told, CameOut, Listed
<1> QED
    BY <1>2, <1>7, <1>8, <1>9, <1>10 DEF IInv

LEMMA ResetKeeps ==
    ASSUME IInv, NEW t \in Tabs, Reset(t)
    PROVE  IInv'
<1>0. TypeOK /\ Order /\ Latest /\ InStep /\ Told
    BY DEF IInv
<1>1. UNCHANGED <<catalogue, requests, artifacts, rows, contracts, job>> /\ left' \in [Spending -> Nat]
    BY <1>0, Spent DEF Reset, Spending
<1>2. cut' = IF form[t].step \in {"editing", "done"} THEN cut ELSE cut \cup ({form[t].request} \cap Requests)
    BY DEF Reset
<1>3. cut \subseteq cut' /\ cut' \subseteq cut \cup Filed /\ cut' \subseteq Requests
  <2>1. form[t].request \in Requests => form[t].request \in Filed
    BY <1>0, DeploymentAssumption DEF Latest
  <2> QED
    BY <1>0, <1>2, <2>1 DEF TypeOK
<1>4. Order' /\ Staged' /\ Superseded' /\ Tracked' /\ ConfirmedMeansDeployed' /\ Filed' = Filed
    BY <1>1, <1>3, RequestsStand
<1> PICK k \in Keys \ Used : form' = [form EXCEPT ![t] = [NoForm(k) EXCEPT !.vault = form[t].vault]]
    BY DEF Reset
<1> PICK f : f = [NoForm(k) EXCEPT !.vault = form[t].vault]
    OBVIOUS
<1>5. form[t].vault \in 0..vaults
    BY <1>0 DEF TypeOK
<1>6. /\ f \in [step : FormSteps, key : Keys, vault : 0..vaults, request : Requests \cup {None}]
      /\ f.step = "editing" /\ f.key = k /\ f.request = None
    BY <1>5 DEF NoForm, FormSteps
<1>7. /\ form' \in [Tabs -> [step : FormSteps, key : Keys, vault : 0..vaults, request : Requests \cup {None}]]
      /\ form'[t].step = "editing" /\ form'[t].key = k /\ form'[t].request = None
      /\ \A u \in Tabs : u # t => form'[u] = form[u]
    BY <1>0, <1>6 DEF TypeOK
<1>8. TypeOK'
    BY <1>0, <1>1, <1>3, <1>7 DEF TypeOK, catalogue
<1>9. (\A u \in Tabs : form[u].key # k) /\ (\A r \in Filed : requests[r].key # k)
    BY DEF Used
<1>10. Latest'
    BY <1>0, <1>1, <1>4, <1>7, <1>9 DEF Latest
<1>11. InStep'
  <2>1. \A u \in Tabs : form'[u].request # None => form'[u] = form[u]
    BY <1>7
  <2> QED
    BY <1>0, <1>1, <1>3, <2>1, InStepStands
<1>12. Told'
  <2> SUFFICES ASSUME NEW q \in Filed, q \notin cut', ~CameOut(q)
               PROVE  \E u \in Tabs : form'[u].request = q /\ form'[u].step \notin {"done", "error"}
    BY <1>1, <1>4 DEF Told, CameOut, Listed
  <2> PICK u \in Tabs : form[u].request = q /\ form[u].step \notin {"done", "error"}
    BY <1>0, <1>3 DEF Told
  <2>1. u # t
    BY <1>0, <1>2, DeploymentAssumption DEF Filed, Latest
  <2> QED
    BY <2>1, <1>7
<1> QED
    BY <1>4, <1>8, <1>10, <1>11, <1>12 DEF IInv

LEMMA SubmitKeeps ==
    ASSUME IInv, NEW t \in Tabs, Submit(t)
    PROVE  IInv'
<1>0. TypeOK /\ Order /\ Staged /\ Latest /\ InStep /\ Superseded /\ Tracked /\ Told /\ ConfirmedMeansDeployed
    BY DEF IInv
<1>1. /\ form[t].step \in {"editing", "done", "error"}
      /\ UNCHANGED <<catalogue, artifacts, rows, contracts, cut>> /\ left' \in [Spending -> Nat]
    BY <1>0, Spent DEF Submit, Spending
<1> PICK old : old = form[t].request
    OBVIOUS
<1>2. old # None => old \in Filed /\ old \in Requests /\ (job[old].step = "none" \/ old \in cut) /\ (CameOut(old) \/ old \in cut)
    BY <1>1, NothingPends DEF Filed
<1>3. CASE Show(t, "error") /\ UNCHANGED <<requests, job>>
  <2>1. old # None =>
             /\ \A step \in {"failing", "error"} : At(old, step) => old \in cut
             /\ ~job[old].final => Deploying(old)
             /\ job[old].final => Finalizing(old)
    BY <1>2, Before
  <2>2. old # None => (~job'[old].final => Deploying(old)')
    BY <1>1, <1>3, <2>1 DEF Deploying, At, Is, Server, Asked, Untracked, Listed
  <2>3. old # None => (job'[old].final => Finalizing(old)')
    BY <1>1, <1>3, <2>1 DEF Finalizing, At, Is, Standing, Listed
  <2>4. old # None => \A step \in {"failing", "error"} : At(old, step)' => old \in cut'
    BY <1>1, <1>3, <2>1 DEF At
  <2>5. "error" \in FormSteps \ {"editing"} /\ contracts' \in [Requests -> OnChain]
        /\ job' \in [Requests -> [step : JobSteps, final : BOOLEAN]]
    BY <1>0, <1>1, <1>3 DEF TypeOK, FormSteps
  <2> QED
    BY <1>1, <1>2, <1>3, <2>2, <2>3, <2>4, <2>5, FormKeeps
<1>4. CASE \E r \in Requests \ Filed, prize \in BOOLEAN :
               /\ \A q \in Requests \ Filed : r <= q
               /\ requests' = [requests EXCEPT ![r] = [status |-> "deploying", key |-> form[t].key, prize |-> prize]]
               /\ job' = [job EXCEPT ![r] = [step |-> "contest", final |-> FALSE]]
               /\ form' = [form EXCEPT ![t].step = "creating", ![t].request = r]
  <2> PICK r \in Requests \ Filed, prize \in BOOLEAN :
               /\ \A q \in Requests \ Filed : r <= q
               /\ requests' = [requests EXCEPT ![r] = [status |-> "deploying", key |-> form[t].key, prize |-> prize]]
               /\ job' = [job EXCEPT ![r] = [step |-> "contest", final |-> FALSE]]
               /\ form' = [form EXCEPT ![t].step = "creating", ![t].request = r]
    BY <1>4
  <2> PICK k \in Keys : k = form[t].key
    BY <1>0 DEF TypeOK
  <2>1. Requests \subseteq Nat /\ r # None /\ r \in Nat
    BY DeploymentAssumption
  <2>2. /\ requests' \in [Requests -> [status : Statuses, key : Keys, prize : BOOLEAN]]
        /\ requests'[r].status = "deploying" /\ requests'[r].key = k
        /\ \A q \in Requests : q # r => requests'[q] = requests[q]
    BY <1>0 DEF TypeOK, Statuses
  <2>3. /\ job' \in [Requests -> [step : JobSteps, final : BOOLEAN]]
        /\ job'[r].step = "contest" /\ ~job'[r].final
        /\ \A q \in Requests : q # r => job'[q] = job[q]
    BY <1>0 DEF TypeOK, JobSteps
  <2>4. /\ form' \in [Tabs -> [step : FormSteps, key : Keys, vault : 0..vaults, request : Requests \cup {None}]]
        /\ form'[t].step = "creating" /\ form'[t].request = r
        /\ \A u \in Tabs : form'[u].key = form[u].key
        /\ \A u \in Tabs : u # t => form'[u] = form[u]
    <3> PICK f : f = [form[t] EXCEPT !.step = "creating", !.request = r]
      OBVIOUS
    <3>1. form[t] \in [step : FormSteps, key : Keys, vault : 0..vaults, request : Requests \cup {None}]
      BY <1>0 DEF TypeOK
    <3>2. /\ f \in [step : FormSteps, key : Keys, vault : 0..vaults, request : Requests \cup {None}]
          /\ f.step = "creating" /\ f.request = r /\ f.key = form[t].key
      BY <3>1 DEF FormSteps
    <3>3. form' = [form EXCEPT ![t] = f]
      BY <1>0 DEF TypeOK
    <3> QED
      BY <1>0, <3>2, <3>3 DEF TypeOK
  <2>5. Filed' = Filed \cup {r} /\ r \notin Filed
    BY <2>2 DEF Filed
  <2>6. \A q \in Filed : q \in Nat /\ q < r /\ q # r
    BY <1>0, <2>1 DEF Order, Filed
  <2>7. /\ artifacts[r] = [owner |-> "absent", linked |-> FALSE]
        /\ contracts[r] = "nothing" /\ r \notin cut
    BY <1>0 DEF Order
  <2>8. \A q \in Filed : CameOut(q) => CameOut(q)'
    BY <1>1, <2>2, <2>6 DEF CameOut, Listed, Filed
  <2>10. TypeOK'
    BY <1>0, <1>1, <2>2, <2>3, <2>4 DEF TypeOK, catalogue
  <2>11. Order'
    <3> SUFFICES /\ \A p \in Filed' : \A q \in Requests : q < p => q \in Filed'
                 /\ \A p \in Requests \ Filed' :
                       /\ artifacts[p] = [owner |-> "absent", linked |-> FALSE]
                       /\ contracts[p] = "nothing" /\ job'[p].step = "none" /\ p \notin cut
      BY <1>1 DEF Order
    <3>1. \A q \in Requests : q < r => q \in Filed
      BY <2>1
    <3> QED
      BY <1>0, <2>3, <2>5, <3>1 DEF Order
  <2>12. Staged'
    <3> SUFFICES ASSUME NEW q \in Requests
                 PROVE  /\ \A step \in {"failing", "error"} : At(q, step)' => q \in cut'
                        /\ ~job'[q].final => Deploying(q)'
                        /\ job'[q].final => Finalizing(q)'
      BY DEF Staged
    <3>1. CASE q = r
      BY <1>1, <2>2, <2>3, <2>7, <3>1 DEF Deploying, At, Is
    <3>2. CASE q # r
      <4>1. requests'[q] = requests[q] /\ job'[q] = job[q]
        BY <2>2, <2>3, <3>2
      <4>2. /\ \A step \in {"failing", "error"} : At(q, step) => q \in cut
            /\ ~job[q].final => Deploying(q)
            /\ job[q].final => Finalizing(q)
        BY <1>0 DEF Staged
      <4>3. \A step \in {"failing", "error"} : At(q, step)' => q \in cut'
        BY <1>1, <4>1, <4>2 DEF At
      <4>4. ~job'[q].final => Deploying(q)'
        BY <1>1, <4>1, <4>2 DEF Deploying, At, Is, Server, Asked, Untracked, Listed
      <4>5. job'[q].final => Finalizing(q)'
        BY <1>1, <4>1, <4>2 DEF Finalizing, At, Is, Standing, Listed
      <4> QED
        BY <4>3, <4>4, <4>5
    <3> QED
      BY <3>1, <3>2
  <2>13. Latest'
    <3> SUFFICES ASSUME NEW u \in Tabs
                 PROVE  /\ \A v \in Tabs : form'[u].key = form'[v].key => u = v
                        /\ \A q \in Filed' : requests'[q].key = form'[u].key => q <= form'[u].request
                        /\ form'[u].request # None =>
                              form'[u].request \in Filed' /\ requests'[form'[u].request].key = form'[u].key
                        /\ form'[u].step = "editing" => form'[u].request = None
                        /\ form'[u].request = None => form'[u].step \in {"editing", "error"}
      BY DEF Latest
    <3>0. /\ \A v \in Tabs : form[u].key = form[v].key => u = v
          /\ \A q \in Filed : requests[q].key = form[u].key => q <= form[u].request
          /\ form[u].request # None => form[u].request \in Filed /\ requests[form[u].request].key = form[u].key
          /\ form[u].step = "editing" => form[u].request = None
          /\ form[u].request = None => form[u].step \in {"editing", "error"}
      BY <1>0 DEF Latest
    <3>1. CASE u = t
      BY <3>0, <3>1, <2>1, <2>2, <2>4, <2>5, <2>6 DEF Filed
    <3>2. CASE u # t
      <4>1. form'[u] = form[u] /\ form[u].key # k
        BY <2>4, <3>0, <3>2
      <4>2. \A q \in Filed : requests'[q] = requests[q]
        BY <2>2, <2>6 DEF Filed
      <4> QED
        BY <3>0, <4>1, <4>2, <2>2, <2>4, <2>5
    <3> QED
      BY <3>1, <3>2
  <2>14. InStep'
    <3> SUFFICES ASSUME NEW u \in Tabs, form'[u].request # None, NEW q, q = form'[u].request
                 PROVE  /\ job'[q].step # "none" => form'[u].step = (IF job'[q].final THEN "finalizing" ELSE "creating") \/ (form'[u].step = "error" /\ q \in cut')
                        /\ form'[u].step \in {"approve", "initialize"} => Asked(q)' /\ Listed(q)'
                        /\ form'[u].step = "finalize" =>
                              requests'[q].prize /\ Is(q, "deploying", "asked")' /\ Standing(q)' /\ Listed(q)'
      BY DEF InStep
    <3>1. CASE u = t
      BY <2>3, <2>4, <3>1
    <3>2. CASE u # t
      <4>1. form'[u] = form[u] /\ q \in Requests /\ q # r
        BY <1>0, <2>4, <2>6, <3>2 DEF Latest, Filed
      <4>2. requests'[q] = requests[q] /\ job'[q] = job[q]
        BY <2>2, <2>3, <4>1
      <4>3. /\ job[q].step # "none" => form[u].step = (IF job[q].final THEN "finalizing" ELSE "creating") \/ (form[u].step = "error" /\ q \in cut)
            /\ form[u].step \in {"approve", "initialize"} => Asked(q) /\ Listed(q)
            /\ form[u].step = "finalize" =>
                  requests[q].prize /\ Is(q, "deploying", "asked") /\ Standing(q) /\ Listed(q)
        BY <1>0, <4>1 DEF InStep
      <4> QED
        BY <1>1, <4>1, <4>2, <4>3 DEF Asked, Is, Standing, Listed
    <3> QED
      BY <3>1, <3>2
  <2>15. Superseded'
    <3> SUFFICES ASSUME NEW q \in Filed', NEW p \in Filed', q < p, requests'[q].key = requests'[p].key
                 PROVE  job'[q].step = "none" \/ q \in cut'
      BY DEF Superseded
    <3>1. q \in Filed /\ q \in Requests /\ q # r
      BY <2>1, <2>5, <2>6 DEF Filed
    <3>2. CASE p = r
      <4>1. requests[q].key = k
        BY <2>2, <3>1, <3>2
      <4>2. q <= old /\ q \in Nat /\ q # None
        BY <1>0, <3>1, <4>1, DeploymentAssumption DEF Latest
      <4>3. old \in Filed /\ old \in Nat /\ requests[old].key = k
        BY <1>0, <1>2, <2>1, <4>2 DEF Latest, None
      <4>4. job[q].step = "none" \/ q \in cut
        BY <1>0, <1>2, <3>1, <4>1, <4>2, <4>3 DEF Superseded
      <4> QED
        BY <1>1, <2>3, <3>1, <4>4
    <3>3. CASE p # r
      <4>1. p \in Filed /\ requests'[p] = requests[p] /\ requests'[q] = requests[q] /\ job'[q] = job[q]
        BY <2>2, <2>3, <2>5, <3>1, <3>3 DEF Filed
      <4> QED
        BY <1>0, <1>1, <3>1, <4>1 DEF Superseded
    <3> QED
      BY <3>2, <3>3
  <2>16. Tracked'
    <3>1. \A q \in Requests : artifacts[q].owner # "absent" \/ artifacts[q].linked => q # r
      BY <2>7
    <3>2. \A j \in Keys : rows[j].contract # None => rows[j].contract \in Requests /\ rows[j].meta \in Requests
      BY <1>0 DEF TypeOK, Tracked
    <3>3. ASSUME NEW j \in Keys, rows[j].contract # None, NEW q \in {rows[j].contract, rows[j].meta}
          PROVE  requests'[q].key = j /\ artifacts[q].owner # "absent" /\ contracts[q] \in {"factory", "initialized"}
      <4>1. requests[q].key = j /\ artifacts[q].owner # "absent" /\ contracts[q] \in {"factory", "initialized"}
        BY <1>0, <3>3 DEF Tracked, RowsNameContracts
      <4> QED
        BY <3>1, <3>2, <3>3, <4>1, <2>2
    <3>4. ASSUME NEW q \in Requests, artifacts[q].linked
          PROVE  /\ requests'[q].key = requests[q].key
                 /\ rows[requests[q].key].contract # None
                 /\ (\A p \in Filed' \ {q} : requests'[p].key # requests[q].key) => rows[requests[q].key].contract = q
      <4>1. requests'[q].key = requests[q].key
        BY <3>1, <3>4, <2>2
      <4>2. (\A p \in Filed' \ {q} : requests'[p].key # requests[q].key) => \A p \in Filed \ {q} : requests[p].key # requests[q].key
        BY <2>2, <2>5, <2>6 DEF Filed
      <4> QED
        BY <1>0, <3>4, <4>1, <4>2 DEF Tracked, RowsNameContracts
    <3>5. \A j \in Keys : /\ rows[j].contract # None => rows[j].contract <= rows[j].meta \/ rows[j].meta \in cut
                          /\ IF rows[j].contract = None THEN rows[j].entries = 0 ELSE rows[j].meta # None
      BY <1>0 DEF Tracked, RowsNameContracts
    <3> QED
      BY <1>1, <3>3, <3>4, <3>5 DEF Tracked, RowsNameContracts
  <2>17. Told'
    <3> SUFFICES ASSUME NEW q \in Filed', q \notin cut, q # r, ~CameOut(q)'
                 PROVE  \E u \in Tabs : form'[u].request = q /\ form'[u].step \notin {"done", "error"}
      BY <1>1, <2>4 DEF Told
    <3>1. q \in Filed /\ ~CameOut(q)
      BY <2>5, <2>8
    <3> PICK u \in Tabs : form[u].request = q /\ form[u].step \notin {"done", "error"}
      BY <1>0, <3>1 DEF Told
    <3>2. u # t
      BY <1>0, <1>1, <2>1, <3>1, DeploymentAssumption DEF Latest, Filed
    <3> QED
      BY <2>4, <3>2
  <2>18. ConfirmedMeansDeployed'
    BY <1>0, <1>1, <2>2 DEF ConfirmedMeansDeployed
  <2> QED
    BY <2>10, <2>11, <2>12, <2>13, <2>14, <2>15, <2>16, <2>17, <2>18 DEF IInv
<1> QED
    BY <1>3, <1>4 DEF Submit

LEMMA EnterKeeps ==
    ASSUME IInv, NEW k \in Keys, Enter(k)
    PROVE  IInv'
<1>0. TypeOK /\ Order /\ Staged /\ Latest /\ InStep /\ Superseded /\ Tracked /\ Told /\ ConfirmedMeansDeployed
    BY DEF IInv
<1>1. /\ rows[k].contract # None /\ rows[k].entries < MaxEntrants
      /\ rows' = [rows EXCEPT ![k].entries = @ + 1]
      /\ UNCHANGED <<catalogue, form, requests, artifacts, contracts, job, cut>> /\ left' \in [Spending -> Nat]
    BY <1>0, Spent DEF Enter, Spending
<1>2. /\ rows' \in [Keys -> [contract : Requests \cup {None}, meta : Requests \cup {None}, entries : 0..MaxEntrants]]
      /\ \A j \in Keys : rows'[j].contract = rows[j].contract /\ rows'[j].meta = rows[j].meta
      /\ \A j \in Keys : rows[j].contract = None => rows'[j].entries = rows[j].entries
  <2>0. rows[k] \in [contract : Requests \cup {None}, meta : Requests \cup {None}, entries : 0..MaxEntrants] /\ MaxEntrants \in Nat
    BY <1>0, DeploymentAssumption DEF TypeOK
  <2> PICK e : e = [rows[k] EXCEPT !.entries = rows[k].entries + 1]
    OBVIOUS
  <2>1. e.contract = rows[k].contract /\ e.meta = rows[k].meta /\ e.entries = rows[k].entries + 1
        /\ e \in [contract : Requests \cup {None}, meta : Requests \cup {None}, entries : 0..MaxEntrants]
    BY <1>1, <2>0
  <2>2. rows' = [rows EXCEPT ![k] = e]
    BY <1>0, <1>1 DEF TypeOK
  <2> QED
    BY <1>0, <1>1, <2>1, <2>2 DEF TypeOK
<1>3. \A q \in Requests : requests[q].key \in Keys
    BY <1>0 DEF TypeOK
<1>4. Filed' = Filed
    BY <1>1 DEF Filed
<1>5. \A q \in Requests : (Listed(q)' <=> Listed(q)) /\ (Untracked(q)' <=> Untracked(q)) /\ (CameOut(q)' <=> CameOut(q))
    BY <1>1, <1>2, <1>3 DEF Listed, Untracked, CameOut
<1>10. TypeOK'
    BY <1>0, <1>1, <1>2 DEF TypeOK, catalogue
<1>11. Order'
    BY <1>0, <1>1, <1>4 DEF Order
<1>12. Staged'
  <2> SUFFICES ASSUME NEW q \in Requests
               PROVE  /\ \A step \in {"failing", "error"} : At(q, step)' => q \in cut'
                      /\ ~job'[q].final => Deploying(q)'
                      /\ job'[q].final => Finalizing(q)'
    BY DEF Staged
  <2>1. /\ \A step \in {"failing", "error"} : At(q, step) => q \in cut
        /\ ~job[q].final => Deploying(q)
        /\ job[q].final => Finalizing(q)
    BY <1>0 DEF Staged
  <2>2. \A step \in {"failing", "error"} : At(q, step)' => q \in cut'
    BY <1>1, <2>1 DEF At
  <2>3. ~job'[q].final => Deploying(q)'
    BY <1>1, <1>5, <2>1 DEF Deploying, At, Is, Server, Asked
  <2>4. job'[q].final => Finalizing(q)'
    BY <1>1, <1>5, <2>1 DEF Finalizing, At, Is, Standing
  <2> QED
    BY <2>2, <2>3, <2>4
<1>13. Latest'
    BY <1>0, <1>1, <1>4 DEF Latest
<1>14. InStep'
  <2>1. \A u \in Tabs : form[u].request # None => form[u].request \in Requests
    BY <1>0 DEF TypeOK
  <2> QED
    BY <1>0, <1>1, <1>5, <2>1 DEF InStep, Asked, Is, Standing
<1>15. Superseded'
    BY <1>0, <1>1, <1>4 DEF Superseded
<1>16. Tracked'
    BY <1>0, <1>1, <1>2, <1>3, <1>4 DEF Tracked, RowsNameContracts
<1>17. Told'
    BY <1>0, <1>1, <1>4, <1>5 DEF Told, Filed
<1>18. ConfirmedMeansDeployed'
    BY <1>0, <1>1 DEF ConfirmedMeansDeployed
<1> QED
    BY <1>10, <1>11, <1>12, <1>13, <1>14, <1>15, <1>16, <1>17, <1>18 DEF IInv

LEMMA RestartKeeps ==
    ASSUME IInv, Restart
    PROVE  IInv'
<1>0. TypeOK /\ Order /\ Staged /\ Latest /\ InStep /\ Superseded /\ Tracked /\ Told /\ ConfirmedMeansDeployed
    BY DEF IInv
<1>1. /\ cut' = cut \cup Running
      /\ job' = [r \in Requests |-> IF r \in Running THEN [job[r] EXCEPT !.step = "error"] ELSE job[r]]
      /\ UNCHANGED <<catalogue, form, requests, artifacts, rows, contracts>> /\ left' \in [Spending -> Nat]
    BY <1>0, Spent DEF Restart, Spending
<1>2. ASSUME NEW q \in Requests
      PROVE  /\ q \in Running => job'[q].step = "error" /\ q \in cut' /\ job[q].step # "none"
             /\ q \notin Running => job'[q] = job[q] /\ (q \in cut' <=> q \in cut)
             /\ job'[q].final = job[q].final
             /\ job'[q] \in [step : JobSteps, final : BOOLEAN]
  <2>0. job[q] \in [step : JobSteps, final : BOOLEAN]
    BY <1>0 DEF TypeOK
  <2>1. CASE q \in Running
    <3> PICK j : j = [job[q] EXCEPT !.step = "error"]
      OBVIOUS
    <3>1. j.step = "error" /\ j.final = job[q].final /\ j \in [step : JobSteps, final : BOOLEAN]
      BY <2>0 DEF JobSteps
    <3>2. job'[q] = j
      BY <1>1, <2>1
    <3> QED
      BY <1>1, <2>1, <3>1, <3>2 DEF Running
  <2>2. CASE q \notin Running
    BY <1>1, <2>0, <2>2
  <2> QED
    BY <2>1, <2>2
<1>3. Filed' = Filed /\ cut \subseteq cut' /\ cut' \subseteq cut \cup Filed
  <2>1. Running \subseteq Filed
    BY <1>0 DEF Running, Order
  <2> QED
    BY <1>1, <2>1 DEF Filed
<1>10. TypeOK'
  <2>1. job' \in [Requests -> [step : JobSteps, final : BOOLEAN]]
    BY <1>1, <1>2
  <2> QED
    BY <1>0, <1>1, <1>3, <2>1 DEF TypeOK, catalogue, Filed
<1>11. Order'
    BY <1>0, <1>1, <1>2, <1>3 DEF Order
<1>12. Staged'
  <2> SUFFICES ASSUME NEW q \in Requests
               PROVE  /\ \A step \in {"failing", "error"} : At(q, step)' => q \in cut'
                      /\ ~job'[q].final => Deploying(q)'
                      /\ job'[q].final => Finalizing(q)'
    BY DEF Staged
  <2>1. /\ \A step \in {"failing", "error"} : At(q, step) => q \in cut
        /\ ~job[q].final => Deploying(q)
        /\ job[q].final => Finalizing(q)
    BY <1>0 DEF Staged
  <2>2. \A step \in {"failing", "error"} : At(q, step)' => q \in cut'
    BY <1>2, <2>1 DEF At
  <2>3. ~job'[q].final => Deploying(q)'
    <3>1. CASE q \in Running
      BY <1>2, <3>1 DEF Deploying, At
    <3>2. CASE q \notin Running
      BY <1>1, <1>2, <2>1, <3>2 DEF Deploying, At, Is, Server, Asked, Untracked, Listed
    <3> QED
      BY <3>1, <3>2
  <2>4. job'[q].final => Finalizing(q)'
    <3>1. CASE q \in Running
      BY <1>1, <1>2, <2>1, <3>1 DEF Finalizing, At
    <3>2. CASE q \notin Running
      BY <1>1, <1>2, <2>1, <3>2 DEF Finalizing, At, Is, Standing, Listed
    <3> QED
      BY <3>1, <3>2
  <2> QED
    BY <2>2, <2>3, <2>4
<1>13. Latest'
    BY <1>0, <1>1, <1>3 DEF Latest
<1>14. InStep'
  <2> SUFFICES ASSUME NEW u \in Tabs, form[u].request # None, NEW q, q = form[u].request
               PROVE  /\ job'[q].step # "none" => form[u].step = (IF job'[q].final THEN "finalizing" ELSE "creating") \/ (form[u].step = "error" /\ q \in cut')
                      /\ form[u].step \in {"approve", "initialize"} => Asked(q)' /\ Listed(q)'
                      /\ form[u].step = "finalize" =>
                            requests'[q].prize /\ Is(q, "deploying", "asked")' /\ Standing(q)' /\ Listed(q)'
    BY <1>1 DEF InStep
  <2>1. q \in Requests
    BY <1>0 DEF TypeOK
  <2>2. /\ job[q].step # "none" => form[u].step = (IF job[q].final THEN "finalizing" ELSE "creating") \/ (form[u].step = "error" /\ q \in cut)
        /\ form[u].step \in {"approve", "initialize"} => Asked(q) /\ Listed(q)
        /\ form[u].step = "finalize" =>
              requests[q].prize /\ Is(q, "deploying", "asked") /\ Standing(q) /\ Listed(q)
    BY <1>0 DEF InStep
  <2>3. job'[q].step # "none" => job[q].step # "none"
    BY <1>2, <2>1
  <2> QED
    BY <1>1, <1>2, <1>3, <2>1, <2>2, <2>3 DEF Asked, Is, Standing, Listed
<1>15. Superseded'
  <2> SUFFICES ASSUME NEW q \in Filed, NEW p \in Filed, q < p, requests[q].key = requests[p].key
               PROVE  job'[q].step = "none" \/ q \in cut'
    BY <1>1, <1>3 DEF Superseded
  <2>1. (job[q].step = "none" \/ q \in cut) /\ q \in Requests
    BY <1>0 DEF Superseded, Filed
  <2> QED
    BY <1>2, <2>1
<1>16. Tracked'
    BY <1>0, <1>1, <1>3 DEF Tracked, RowsNameContracts
<1>17. Told'
    BY <1>0, <1>1, <1>3 DEF Told, CameOut, Listed
<1>18. ConfirmedMeansDeployed'
    BY <1>0, <1>1, <1>3 DEF ConfirmedMeansDeployed
<1> QED
    BY <1>10, <1>11, <1>12, <1>13, <1>14, <1>15, <1>16, <1>17, <1>18 DEF IInv

LEMMA InitHolds == Init => IInv
<1> SUFFICES ASSUME Init
             PROVE  IInv
    OBVIOUS
<1> PICK k0 \in Keys : k0 = (CHOOSE k \in Keys : TRUE)
    BY DeploymentAssumption
<1>1. /\ \A r \in Requests : requests[r] = [status |-> "absent", key |-> k0, prize |-> FALSE]
      /\ \A r \in Requests : artifacts[r] = [owner |-> "absent", linked |-> FALSE]
      /\ \A r \in Requests : contracts[r] = "nothing"
      /\ \A r \in Requests : job[r] = [step |-> "none", final |-> FALSE]
      /\ \A k \in Keys : rows[k] = [contract |-> None, meta |-> None, entries |-> 0]
      /\ cut = {}
    BY DEF Init, NoRow
<1>2. \A t \in Tabs : form[t] = [step |-> "editing", key |-> First[t], vault |-> None, request |-> None]
    BY DEF Init, NoForm
<1>3. Filed = {}
  <2>1. \A r \in Requests : requests[r].status = "absent"
    BY DEF Init
  <2> QED
    BY <2>1 DEF Filed
<1>4. TypeOK
  <2>1. left \in [Spending -> Nat]
    BY DeploymentAssumption DEF Init
  <2>2. MaxVaults \in Nat /\ MaxEntrants \in Nat /\ vaults = 0 /\ component = 0 /\ None = 0 /\ First \in [Tabs -> Keys]
    BY DeploymentAssumption DEF Init, None
  <2>3. page \in [Tabs -> [step : {"idle", "deploy", "read", "write"}, vault : 0..vaults, found : BOOLEAN]]
    BY <2>2 DEF Init, NoPage
  <2>4. form \in [Tabs -> [step : FormSteps, key : Keys, vault : 0..vaults, request : Requests \cup {None}]]
    BY <2>2 DEF Init, NoForm, FormSteps
  <2>5. rows \in [Keys -> [contract : Requests \cup {None}, meta : Requests \cup {None}, entries : 0..MaxEntrants]]
    BY <2>2 DEF Init, NoRow
  <2>6. requests \in [Requests -> [status : Statuses, key : Keys, prize : BOOLEAN]]
    BY DEF Init, Statuses
  <2>7. /\ artifacts \in [Requests -> [owner : {"absent", "none", "asked", "completed"}, linked : BOOLEAN]]
        /\ contracts \in [Requests -> OnChain] /\ job \in [Requests -> [step : JobSteps, final : BOOLEAN]]
    BY DEF Init, OnChain, JobSteps
  <2> QED
    BY <1>1, <2>1, <2>2, <2>3, <2>4, <2>5, <2>6, <2>7 DEF TypeOK
<1>5. Order
    BY <1>1, <1>3 DEF Order
<1>6. Staged
    BY <1>1 DEF Staged, Deploying, At
<1>7. \A t \in Tabs : form[t].step = "editing" /\ form[t].key = First[t] /\ form[t].request = None
    BY DEF Init, NoForm
<1>8. Latest
    BY <1>3, <1>7, DeploymentAssumption DEF Latest
<1>11. InStep /\ Superseded /\ Told
    BY <1>3, <1>7 DEF InStep, Superseded, Told
<1>9. Tracked
    BY <1>1, <1>3 DEF Tracked, RowsNameContracts
<1>10. ConfirmedMeansDeployed
  <2>1. \A r \in Requests : requests[r].status = "absent"
    BY DEF Init
  <2> QED
    BY <2>1 DEF ConfirmedMeansDeployed
<1> QED
    BY <1>4, <1>5, <1>6, <1>8, <1>9, <1>10, <1>11 DEF IInv

LEMMA StillHolds ==
    ASSUME IInv, UNCHANGED vars
    PROVE  IInv'
<1>1. TypeOK'
    BY DEF IInv, vars, TypeOK
<1>3. Latest'
    BY DEF IInv, vars, Latest, Filed
<1>4. InStep'
    BY InStepStands DEF IInv, vars
<1>5. Told'
    BY DEF IInv, vars, Told, CameOut, Filed, Listed
<1>2. Order' /\ Staged' /\ Superseded' /\ Tracked' /\ ConfirmedMeansDeployed'
    BY RequestsStand DEF vars
<1> QED
    BY <1>1, <1>2, <1>3, <1>4, <1>5 DEF IInv

\* What a step may be.
LEMMA NextIs ==
    ASSUME Next
    PROVE  \/ \E t \in Tabs :
                 \/ ComponentStep(t) \/ LoadComponents(t) \/ Submit(t) \/ Reset(t) \/ Answered(t) \/ LoseAnswer(t)
                 \/ Refuse(t) \/ Approve(t) \/ SendInitialize(t) \/ Finalize(t)
           \/ \E r \in Requests : JobStep(r)
           \/ \E k \in Keys : Enter(k)
           \/ Restart
BY DEF Next, FormStep, ComponentStep

LEMMA Inductive == IInv /\ [Next]_vars => IInv'
<1> SUFFICES ASSUME IInv, [Next]_vars
             PROVE  IInv'
    OBVIOUS
<1>1. CASE UNCHANGED vars
    BY <1>1, StillHolds
<1>2. ASSUME NEW t \in Tabs,
             \/ ComponentStep(t) \/ LoadComponents(t) \/ Submit(t) \/ Reset(t) \/ Answered(t) \/ LoseAnswer(t)
             \/ Refuse(t) \/ Approve(t) \/ SendInitialize(t) \/ Finalize(t)
      PROVE  IInv'
    BY <1>2, ComponentKeeps, LoadKeeps, SubmitKeeps, ResetKeeps, AnsweredKeeps, LostKeeps, AskedKeeps, FinalizeKeeps
<1>3. ASSUME NEW r \in Requests, JobStep(r)
      PROVE  IInv'
    BY <1>3, JobSteady
<1>4. ASSUME NEW k \in Keys, Enter(k)
      PROVE  IInv'
    BY <1>4, EnterKeeps
<1>5. CASE Restart
    BY <1>5, RestartKeeps
<1> QED
    BY <1>1, <1>2, <1>3, <1>4, <1>5, NextIs

LEMMA Invariance == Spec => []IInv
BY InitHolds, Inductive, PTL DEF Spec

-----------------------------------------------------------------------------
(* Theorems                                                                  *)

\* No variable leaves its type: no page shows a vault implementation that was
\* never deployed (DeployComponentPage, CreateContestForm).
THEOREM DeploymentTyped == Spec => []TypeOK
<1>1. IInv => TypeOK
    BY DEF IInv
<1> QED
    BY <1>1, Invariance, PTL

\* What the catalogue shows of a deployment is on the chain, and what came out
\* there without an interruption is shown, however requests, retries, lost answers,
\* failures, restarts and pages interleave (deploymentService.ts, trackContest).
THEOREM CatalogueStaysTrue == Spec => []CatalogueIsTrue
<1>1. IInv => CatalogueIsTrue
  <2> SUFFICES ASSUME IInv
               PROVE  CatalogueIsTrue
    OBVIOUS
  <2>1. ConfirmedMeansDeployed /\ RowsNameContracts /\ Told
    BY DEF IInv, Tracked
  <2>2. OutcomeKnown
    BY <2>1 DEF Told, OutcomeKnown, Handled, CameOut, Listed
  <2> QED
    BY <2>1, <2>2 DEF CatalogueIsTrue
<1> QED
    BY <1>1, Invariance, PTL

\* The status of a request is written only while it is being deployed.
LEMMA StatusKept ==
    ASSUME IInv, [Next]_vars, NEW r \in Requests
    PROVE  /\ requests[r].status = "failed" => requests'[r].status = "failed"
           /\ requests[r].status = "confirmed" => requests'[r].status # "deploying"
<1>0. TypeOK
    BY DEF IInv
<1>1. ASSUME NEW q \in Requests, JobStep(q), requests' # requests
      PROVE  /\ \A p \in Requests : p # q => requests'[p] = requests[p]
             /\ requests[q].status = "deploying" \/ requests'[q].status \in {requests[q].status, "failed"}
  <2>1. RecordStatus(q) \/ Confirm(q) \/ RecordFailure(q)
    BY <1>1 DEF JobStep, DeployContest, DeployFactory, Initialize, OnTheChain, RecordArtifact, CompleteArtifact,
                Register, Fallback, Link
  <2>2. CASE RecordStatus(q) \/ Confirm(q)
    <3>1. requests[q].status = "deploying"
      BY <2>2, StatusSteps
    <3> QED
      BY <1>0, <1>1, <2>2, <3>1 DEF RecordStatus, Confirm, TypeOK
  <2>3. CASE RecordFailure(q)
    <3>1. requests' = [requests EXCEPT ![q].status = "failed"]
      BY <1>1, <2>3 DEF RecordFailure
    <3>2. "failed" \in Statuses
      BY DEF Statuses
    <3> QED
      BY <1>0, <3>1, <3>2, StatusWritten
  <2> QED
    BY <2>1, <2>2, <2>3
<1>2. ASSUME NEW t \in Tabs, Submit(t), requests' # requests
      PROVE  \E q \in Requests \ Filed : \A p \in Requests : p # q => requests'[p] = requests[p]
    BY <1>0, <1>2 DEF Submit, TypeOK
<1>3. CASE requests' = requests
    BY <1>3
<1>4. CASE requests' # requests
  <2>1. (\E q \in Requests : JobStep(q)) \/ (\E t \in Tabs : Submit(t))
    BY <1>4, NextIs DEF vars, ComponentStep, DeployClick, DeployVault, FindComponent, SaveComponent, LoadComponents,
          Reset, Answered, LoseAnswer, Refuse, Approve, SendInitialize, Finalize, Enter, Restart
  <2>2. CASE \E q \in Requests : JobStep(q)
    BY <1>1, <1>4, <2>2
  <2>3. CASE \E t \in Tabs : Submit(t)
    <3>1. requests[r].status \in {"failed", "confirmed"} => r \in Filed
      BY DEF Filed
    <3> QED
      BY <1>2, <1>4, <2>3, <3>1
  <2> QED
    BY <2>1, <2>2, <2>3
<1> QED
    BY <1>3, <1>4

\* A row loses its entrants only when its contest is tracked again.
LEMMA EntrantsKept ==
    ASSUME IInv, [Next]_vars, NEW k \in Keys, rows'[k].entries < rows[k].entries
    PROVE  \/ \E r \in Filed : requests[r].key = k /\ job[r].final
           \/ \E q, r \in Filed : q # r /\ requests[q].key = k /\ requests[r].key = k
<1>0. TypeOK /\ Tracked /\ Order
    BY DEF IInv
<1>1. rows[k].entries \in Nat
    BY <1>0, DeploymentAssumption DEF TypeOK
<1>2. rows' # rows
    BY <1>1
<1>3. ~\E j \in Keys : Enter(j)
  <2> SUFFICES ASSUME NEW j \in Keys, Enter(j)
               PROVE  FALSE
    OBVIOUS
  <2>1. rows'[k].entries = rows[k].entries \/ rows'[k].entries = rows[k].entries + 1
    BY <1>0 DEF Enter, TypeOK
  <2> QED
    BY <1>1, <2>1
<1>4. PICK r \in Requests : JobStep(r)
    BY <1>2, <1>3, NextIs DEF vars, ComponentStep, DeployClick, DeployVault, FindComponent, SaveComponent, LoadComponents,
          Submit, Reset, Answered, LoseAnswer, Refuse, Approve, SendInitialize, Finalize, Restart
<1>5. (Register(r) \/ Fallback(r)) /\ Track(r)
    BY <1>2, <1>4 DEF JobStep, DeployContest, DeployFactory, Initialize, OnTheChain, RecordArtifact, RecordStatus,
                      Confirm, CompleteArtifact, Register, Fallback, Link, RecordFailure
<1>6. k = requests[r].key
  <2>1. k # requests[r].key => rows'[k] = rows[k]
    BY <1>0, <1>5, TrackedRow
  <2> QED
    BY <1>1, <2>1
<1>7. job[r].step \in {"register", "fallback"}
    BY <1>5 DEF Register, Fallback, At
<1>8. (~job[r].final => Untracked(r)) /\ r \in Filed
    BY <1>7, MayTrack DEF Filed
<1>9. rows[k].contract \in Filed /\ requests[rows[k].contract].key = k
  <2>1. rows'[k].entries = 0
    BY <1>0, <1>5, <1>6, TrackedRow
  <2>2. rows[k].contract # None /\ rows[k].contract \in Requests
    BY <1>0, <1>1, <2>1 DEF Tracked, TypeOK
  <2> QED
    BY <1>0, <2>2 DEF Tracked, RowsNameContracts, Order
<1> QED
    BY <1>6, <1>8, <1>9 DEF Untracked

\* How a request came out, and who entered, is not taken back: the calls that
\* write the status come in one order (updateContestCreationRequestStatus
\* checks none), and the server never tracks a contest over one that somebody
\* has entered unless it is finalized or its id was submitted again.
THEOREM NothingIsUndone == Spec => NothingUndone
<1> DEFINE FailedKept ==
               \A r \in Requests : /\ requests[r].status = "failed" => requests'[r].status = "failed"
                                   /\ requests[r].status = "confirmed" => requests'[r].status # "deploying"
           EntrantsStay ==
               \A k \in Keys : rows'[k].entries < rows[k].entries =>
                  \/ \E r \in Filed : requests[r].key = k /\ job[r].final
                  \/ \E q, r \in Filed : q # r /\ requests[q].key = k /\ requests[r].key = k
<1>1. IInv /\ [Next]_vars => [FailedKept]_vars
    BY StatusKept
<1>2. IInv /\ [Next]_vars => [EntrantsStay]_vars
    BY EntrantsKept
<1> HIDE DEF FailedKept, EntrantsStay
<1>3. Spec => [][FailedKept]_vars /\ [][EntrantsStay]_vars
    BY <1>1, <1>2, Invariance, PTL DEF Spec
<1> QED
    BY <1>3 DEF NothingUndone, FailedIsFinal, EntriesKept, FailedKept, EntrantsStay

=============================================================================
