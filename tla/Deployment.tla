------------------------------- MODULE Deployment -------------------------------
(***************************************************************************)
(* Creating contests: the organizer's pages (DeployComponentPage,          *)
(* CreateContestForm), the deployment services of the api-server, the      *)
(* creation gateway, the tables of components, requests, artifacts and     *)
(* contests, and the contracts on the chain.  A request, the contract it   *)
(* deploys and the artifact that records it have one number.  A contest    *)
(* without an initial prize is initialised by the server; one with a prize *)
(* by the organizer's wallet, after which the form asks to finalize.       *)
(***************************************************************************)
EXTENDS Naturals, FiniteSets

CONSTANTS
    Tabs,         \* the organizer's open pages
    Requests,     \* numbers of requests: 1..n
    Keys,         \* contest ids that generateContestId may draw
    First,        \* those the pages draw when they are opened, all different
    MaxVaults,    \* bound on the vault implementations deployed
    MaxEntrants,  \* bound on the participants the indexer has counted
    Scenarios     \* bounds on what happens: budgets

Spending == {"component", "submit", "prize", "reset", "enter", "fault", "restart"}
None == 0         \* no request, no vault implementation

ASSUME DeploymentAssumption ==
    /\ Requests \in SUBSET (Nat \ {None}) /\ IsFiniteSet(Requests)
    /\ \A r \in Requests : 1..r \subseteq Requests
    /\ Keys # {}
    /\ First \in [Tabs -> Keys] /\ \A t, u \in Tabs : First[t] = First[u] => t = u
    /\ MaxVaults \in Nat /\ MaxEntrants \in Nat
    /\ Scenarios \subseteq [Spending -> Nat]

VARIABLES
    vaults,    \* vault implementations on the chain
    component, \* the row of organizer_components: its contract
    page,      \* each tab's deployment of a component
    form,      \* each tab's contest form
    requests,  \* contest_creation_requests
    artifacts, \* contest_deployment_artifacts
    rows,      \* contests, by internal_key
    contracts, \* what is on the chain for each request
    job,       \* deployContest and finalizeContestDeployment, for each request
    cut,       \* requests whose handling something has interrupted
    left       \* what is left of the budget

vars == <<vaults, component, page, form, requests, artifacts, rows, contracts, job, cut, left>>
catalogue == <<vaults, component, page>>

-----------------------------------------------------------------------------
(* Types                                                                     *)

Filed    == {r \in Requests : requests[r].status # "absent"}
NoForm(k) == [step |-> "editing", key |-> k, vault |-> None, request |-> None]
NoRow    == [contract |-> None, meta |-> None, entries |-> 0]
NoPage   == [step |-> "idle", vault |-> None, found |-> FALSE]

Statuses  == {"absent", "deploying", "confirmed", "failed"}
FormSteps == {"editing", "creating", "approve", "initialize", "finalize", "finalizing", "done", "error"}
JobSteps  == {"none", "contest", "factory", "initialize", "artifact", "status", "register",
              "fallback", "link", "answer", "failing", "error"}
OnChain   == {"nothing", "contest", "factory", "initialized"}

TypeOK ==
    /\ vaults \in 0..MaxVaults /\ component \in 0..vaults
    /\ page \in [Tabs -> [step : {"idle", "deploy", "read", "write"}, vault : 0..vaults, found : BOOLEAN]]
    /\ form \in [Tabs -> [step : FormSteps, key : Keys, vault : 0..vaults, request : Requests \cup {None}]]
    /\ requests \in [Requests -> [status : Statuses, key : Keys, prize : BOOLEAN]]
    /\ artifacts \in [Requests -> [owner : {"absent", "none", "asked", "completed"}, linked : BOOLEAN]]
    /\ rows \in [Keys -> [contract : Requests \cup {None}, meta : Requests \cup {None}, entries : 0..MaxEntrants]]
    /\ contracts \in [Requests -> OnChain]
    /\ job \in [Requests -> [step : JobSteps, final : BOOLEAN]]
    /\ cut \subseteq Requests
    /\ left \in [Spending -> Nat]

Init ==
    /\ vaults = 0 /\ component = None /\ page = [t \in Tabs |-> NoPage]
    /\ form = [t \in Tabs |-> NoForm(First[t])]
    /\ requests = [r \in Requests |-> [status |-> "absent", key |-> CHOOSE k \in Keys : TRUE, prize |-> FALSE]]
    /\ artifacts = [r \in Requests |-> [owner |-> "absent", linked |-> FALSE]]
    /\ rows = [k \in Keys |-> NoRow]
    /\ contracts = [r \in Requests |-> "nothing"]
    /\ job = [r \in Requests |-> [step |-> "none", final |-> FALSE]]
    /\ cut = {} /\ left \in Scenarios

Spend(what) == left[what] > 0 /\ left' = [left EXCEPT ![what] = @ - 1]
Goto(r, step) == job' = [job EXCEPT ![r].step = step]
At(r, step) == job[r].step = step
Show(t, step) == form' = [form EXCEPT ![t].step = step]

-----------------------------------------------------------------------------
(* Components: one configuration of a vault                                  *)

DeployClick(t) ==
    /\ page[t].step = "idle" /\ Spend("component")
    /\ page' = [page EXCEPT ![t].step = "deploy"]
    /\ UNCHANGED <<vaults, component, form, requests, artifacts, rows, contracts, job, cut>>

\* The gateway deploys: the receipt may be lost, the contract stays.
DeployVault(t) ==
    /\ page[t].step = "deploy" /\ vaults < MaxVaults
    /\ vaults' = vaults + 1
    /\ \/ page' = [page EXCEPT ![t] = [step |-> "read", vault |-> vaults', found |-> FALSE]] /\ UNCHANGED left
       \/ page' = [page EXCEPT ![t] = NoPage] /\ Spend("fault")
    /\ UNCHANGED <<component, form, requests, artifacts, rows, contracts, job, cut>>

\* The registry looks for the row of the configuration, then inserts or
\* updates; the unique index refuses an insertion that comes second.
FindComponent(t) ==
    /\ page[t].step = "read"
    /\ page' = [page EXCEPT ![t].step = "write", ![t].found = (component # None)]
    /\ UNCHANGED <<vaults, component, form, requests, artifacts, rows, contracts, job, cut, left>>

SaveComponent(t) ==
    /\ page[t].step = "write"
    /\ component' = IF page[t].found \/ component = None THEN page[t].vault ELSE component
    /\ page' = [page EXCEPT ![t] = NoPage]
    /\ UNCHANGED <<vaults, form, requests, artifacts, rows, contracts, job, cut, left>>

-----------------------------------------------------------------------------
(* The contest form                                                          *)

\* useOrganizerComponents loads the confirmed components.
LoadComponents(t) ==
    /\ form[t].vault # component
    /\ form' = [form EXCEPT ![t].vault = component]
    /\ UNCHANGED <<catalogue, requests, artifacts, rows, contracts, job, cut, left>>

\* The payload must name the contract the component has now (toContestPayload).
Matches(t) == form[t].vault = component

\* The request is filed.  A form that has answered can be submitted again.
Submit(t) ==
    /\ form[t].step \in {"editing", "done", "error"} /\ form[t].vault # None
    /\ Spend("submit")
    /\ IF ~Matches(t)
       THEN Show(t, "error") /\ UNCHANGED <<requests, job>>
       ELSE \E r \in Requests \ Filed, prize \in BOOLEAN :
               /\ \A q \in Requests \ Filed : r <= q
               /\ prize => left["prize"] > 0
               /\ requests' = [requests EXCEPT ![r] = [status |-> "deploying", key |-> form[t].key, prize |-> prize]]
               /\ job' = [job EXCEPT ![r] = [step |-> "contest", final |-> FALSE]]
               /\ form' = [form EXCEPT ![t].step = "creating", ![t].request = r]
    /\ UNCHANGED <<catalogue, artifacts, rows, contracts, cut>>

\* The button draws a new contest id; so does a page opened again, wherever
\* the old one was.
Used == {form[t].key : t \in Tabs} \cup {requests[r].key : r \in Filed}
Reset(t) ==
    /\ Spend("reset")
    /\ \E k \in Keys \ Used :
          form' = [form EXCEPT ![t] = [NoForm(k) EXCEPT !.vault = form[t].vault]]
    /\ cut' = IF form[t].step \in {"editing", "done"} THEN cut ELSE cut \cup ({form[t].request} \cap Requests)
    /\ UNCHANGED <<catalogue, requests, artifacts, rows, contracts, job>>

\* The answer: with a prize the wallet is asked next.
Answered(t) ==
    LET r == form[t].request IN
    /\ form[t].step \in {"creating", "finalizing"} /\ job[r].step \in {"answer", "error"}
    /\ Show(t, CASE At(r, "error") -> "error"
                 [] At(r, "answer") /\ requests[r].prize /\ ~job[r].final -> "approve"
                 [] OTHER -> "done")
    /\ Goto(r, "none")
    /\ UNCHANGED <<catalogue, requests, artifacts, rows, contracts, cut, left>>

\* An answer is lost on its way, or the request to finalize: the form shows an
\* error and can be submitted again, whatever the server goes on to do.
LoseAnswer(t) ==
    /\ form[t].step \in {"creating", "finalize", "finalizing"} /\ Spend("fault")
    /\ Show(t, "error") /\ cut' = cut \cup {form[t].request}
    /\ UNCHANGED <<catalogue, requests, artifacts, rows, contracts, job>>

Refuse(t) ==
    /\ form[t].step \in {"approve", "initialize"} /\ Spend("fault")
    /\ Show(t, "error") /\ cut' = cut \cup {form[t].request}
    /\ UNCHANGED <<catalogue, requests, artifacts, rows, contracts, job>>

Approve(t) ==
    /\ form[t].step = "approve" /\ Show(t, "initialize")
    /\ UNCHANGED <<catalogue, requests, artifacts, rows, contracts, job, cut, left>>

\* A mutant: the form is done once the wallet has sent.
SendAndForget(t) ==
    LET r == form[t].request IN
    /\ form[t].step = "initialize" /\ Show(t, "done")
    /\ contracts' = [contracts EXCEPT ![r] = "initialized"]
    /\ UNCHANGED <<catalogue, requests, artifacts, rows, job, cut, left>>

\* The wallet sends initialize.  A transaction that reverts is not told from
\* one that succeeds; when no receipt comes the form gives up.
SendInitialize(t) ==
    LET r == form[t].request IN
    /\ form[t].step = "initialize"
    /\ \/ /\ contracts' = [contracts EXCEPT ![r] = "initialized"] /\ Show(t, "finalize")
          /\ UNCHANGED <<cut, left>>
       \/ /\ Spend("fault") /\ cut' = cut \cup {r}
          /\ \/ UNCHANGED contracts /\ Show(t, "finalize")
             \/ contracts' = [contracts EXCEPT ![r] = "initialized"] /\ Show(t, "error")
    /\ UNCHANGED <<catalogue, requests, artifacts, rows, job>>

Finalize(t) ==
    LET r == form[t].request IN
    /\ form[t].step = "finalize" /\ Show(t, "finalizing")
    /\ job' = [job EXCEPT ![r] = [step |-> "status", final |-> TRUE]]
    /\ UNCHANGED <<catalogue, requests, artifacts, rows, contracts, cut, left>>

-----------------------------------------------------------------------------
(* deployContest and finalizeContestDeployment                               *)

\* A call of a job fails: with its effect when it was a transaction whose
\* receipt was lost.  deployContest then records the failure.
Interrupt(r) == Spend("fault") /\ cut' = cut \cup {r}
Fails(r) == /\ Interrupt(r)
            /\ Goto(r, IF job[r].final THEN "error" ELSE "failing")

OnTheChain(r, step, effect, next) ==
    /\ At(r, step)
    /\ \/ /\ contracts' = [contracts EXCEPT ![r] = effect] /\ Goto(r, next) /\ UNCHANGED <<cut, left>>
       \/ /\ Fails(r) /\ contracts' \in {contracts, [contracts EXCEPT ![r] = effect]}
    /\ UNCHANGED <<catalogue, form, requests, artifacts, rows>>

DeployContest(r) == OnTheChain(r, "contest", "contest", "factory")
DeployFactory(r) == OnTheChain(r, "factory", "factory", IF requests[r].prize THEN "artifact" ELSE "initialize")
Initialize(r)    == OnTheChain(r, "initialize", "initialized", "artifact")

\* The artifact, with what the owner has to do.
RecordArtifact(r) ==
    /\ At(r, "artifact") /\ ~job[r].final
    /\ \/ /\ artifacts' = [artifacts EXCEPT ![r].owner = IF requests[r].prize THEN "asked" ELSE "none"]
          /\ Goto(r, "status") /\ UNCHANGED <<cut, left>>
       \/ Fails(r) /\ UNCHANGED artifacts
    /\ UNCHANGED <<catalogue, form, requests, rows, contracts>>

\* A contest that waits for its owner stays in deploying, and goes straight
\* to the fallback.
Waits(r) == requests[r].prize /\ ~job[r].final

RecordStatus(r) ==
    /\ At(r, "status") /\ ~job[r].final
    /\ \/ /\ requests' = [requests EXCEPT ![r].status = IF Waits(r) THEN "deploying" ELSE "confirmed"]
          /\ Goto(r, IF Waits(r) THEN "fallback" ELSE "register") /\ UNCHANGED <<cut, left>>
       \/ Fails(r) /\ UNCHANGED requests
    /\ UNCHANGED <<catalogue, form, artifacts, rows, contracts>>

\* Finalizing, refused for any other status or artifact, writes the status
\* first, and then that the owner's part is completed.
MayFinalize(r) == requests[r].status = "deploying" /\ artifacts[r].owner = "asked"

Confirm(r) ==
    /\ At(r, "status") /\ job[r].final
    /\ \/ /\ MayFinalize(r)
          /\ requests' = [requests EXCEPT ![r].status = "confirmed"]
          /\ Goto(r, "artifact") /\ UNCHANGED <<cut, left>>
       \/ ~MayFinalize(r) /\ Goto(r, "error") /\ UNCHANGED <<requests, cut, left>>
       \/ Fails(r) /\ UNCHANGED requests
    /\ UNCHANGED <<catalogue, form, artifacts, rows, contracts>>

CompleteArtifact(r) ==
    /\ At(r, "artifact") /\ job[r].final
    /\ \/ /\ artifacts' = [artifacts EXCEPT ![r].owner = "completed"]
          /\ Goto(r, "register") /\ UNCHANGED <<cut, left>>
       \/ Fails(r) /\ UNCHANGED artifacts
    /\ UNCHANGED <<catalogue, form, requests, rows, contracts>>

\* The metadata the services build: of a contest nobody has entered.
Built(r, contract) == [contract |-> contract, meta |-> r, entries |-> 0]

\* A mutant: the address is replaced, the metadata kept.
TrackAddress(r) ==
    rows' = [rows EXCEPT ![requests[r].key] = Built(IF @.meta = None THEN r ELSE @.meta, r)]

\* trackContest finds the row by the contest id: then the whole metadata is
\* replaced, the contract's address kept.
Track(r) ==
    rows' = [rows EXCEPT ![requests[r].key] = Built(r, IF @.contract = None THEN r ELSE @.contract)]

\* A mutant: the fallback follows in any case.
RegisterThenFallback(r) ==
    /\ At(r, "register") /\ Track(r) /\ Goto(r, "fallback")
    /\ UNCHANGED <<catalogue, form, requests, artifacts, contracts, cut, left>>

\* registerContestInDomain: its failures are logged, the fallback follows.
Register(r) ==
    /\ At(r, "register")
    /\ \/ Track(r) /\ Goto(r, "link") /\ UNCHANGED <<cut, left>>
       \/ Interrupt(r) /\ Goto(r, "fallback") /\ UNCHANGED rows
    /\ UNCHANGED <<catalogue, form, requests, artifacts, contracts>>

Fallback(r) ==
    /\ At(r, "fallback")
    /\ \/ Track(r) /\ Goto(r, IF Waits(r) THEN "answer" ELSE "link") /\ UNCHANGED <<cut, left>>
       \/ Fails(r) /\ UNCHANGED rows
    /\ UNCHANGED <<catalogue, form, requests, artifacts, contracts>>

Link(r) ==
    /\ At(r, "link")
    /\ \/ artifacts' = [artifacts EXCEPT ![r].linked = TRUE] /\ Goto(r, "answer") /\ UNCHANGED <<cut, left>>
       \/ Fails(r) /\ UNCHANGED artifacts
    /\ UNCHANGED <<catalogue, form, requests, rows, contracts>>

RecordFailure(r) ==
    /\ At(r, "failing") /\ Goto(r, "error")
    /\ \/ requests' = [requests EXCEPT ![r].status = "failed"] /\ UNCHANGED left
       \/ Spend("fault") /\ UNCHANGED requests
    /\ UNCHANGED <<catalogue, form, artifacts, rows, contracts, cut>>

\* The api-server stops: what it was doing is not taken up again.
Running == {r \in Requests : job[r].step \notin {"none", "answer", "error"}}
Restart ==
    /\ Running # {} /\ Spend("restart")
    /\ cut' = cut \cup Running
    /\ job' = [r \in Requests |-> IF r \in Running THEN [job[r] EXCEPT !.step = "error"] ELSE job[r]]
    /\ UNCHANGED <<catalogue, form, requests, artifacts, rows, contracts>>

\* Somebody enters: the indexer, which follows the contests of the table,
\* counts it in the row.
Enter(k) ==
    /\ rows[k].contract # None /\ contracts[rows[k].contract] = "initialized"
    /\ rows[k].entries < MaxEntrants /\ Spend("enter")
    /\ rows' = [rows EXCEPT ![k].entries = @ + 1]
    /\ UNCHANGED <<catalogue, form, requests, artifacts, contracts, job, cut>>

JobStep(r) ==
    \/ DeployContest(r) \/ DeployFactory(r) \/ Initialize(r) \/ RecordArtifact(r) \/ RecordStatus(r)
    \/ Confirm(r) \/ CompleteArtifact(r)
    \/ Register(r) \/ Fallback(r) \/ Link(r) \/ RecordFailure(r)
FormStep(t) == Answered(t) \/ Approve(t) \/ SendInitialize(t) \/ Finalize(t)

Next ==
    \/ \E t \in Tabs : \/ DeployClick(t) \/ DeployVault(t) \/ FindComponent(t) \/ SaveComponent(t)
                       \/ LoadComponents(t) \/ Submit(t) \/ Reset(t) \/ LoseAnswer(t) \/ Refuse(t)
                       \/ FormStep(t)
    \/ \E r \in Requests : JobStep(r)
    \/ \E k \in Keys : Enter(k)
    \/ Restart

Spec == Init /\ [][Next]_vars

\* The server's calls return, and the owner goes on once asked.
FairSpec == /\ Spec
            /\ \A r \in Requests : WF_vars(JobStep(r))
            /\ \A t \in Tabs : WF_vars(FormStep(t))
-----------------------------------------------------------------------------
(* Properties                                                                *)

\* A request is confirmed (RecordStatus, by the server or by finalizing) only
\* once its artifact is recorded and its contract stands with its factory; it
\* is initialized too, unless the owner's transaction was interrupted.
ConfirmedMeansDeployed ==
    \A r \in Requests : requests[r].status = "confirmed" =>
        /\ artifacts[r].owner # "absent"
        /\ contracts[r] = "initialized" \/ (contracts[r] = "factory" /\ requests[r].prize /\ r \in cut)

\* A contests row names contracts that were deployed and recorded for its
\* contest id: the first one tracked, and in its metadata the last.  They
\* differ only when the same form was submitted again (trackContest keeps the
\* address), and metadata older than the address are of a request whose answer
\* was lost: it was overtaken by the next.  An artifact linked to a contest
\* finds its row.
RowsNameContracts ==
    /\ \A k \in Keys : rows[k].contract # None =>
          /\ \A r \in {rows[k].contract, rows[k].meta} :
                /\ requests[r].key = k /\ artifacts[r].owner # "absent"
                /\ contracts[r] \in {"factory", "initialized"}
          /\ rows[k].contract <= rows[k].meta \/ rows[k].meta \in cut
    /\ \A r \in Requests : artifacts[r].linked =>
          /\ rows[requests[r].key].contract # None
          /\ (\A q \in Filed \ {r} : requests[q].key # requests[r].key) => rows[requests[r].key].contract = r

\* Unless something interrupted it, a request that nobody works on any more,
\* neither the server nor the form, has come out: confirmed, its contract
\* initialized, listed as a contest and linked to it.
Handled(r) == \/ r \in Running
              \/ \E t \in Tabs : form[t].request = r /\ form[t].step \notin {"done", "error"}
OutcomeKnown ==
    \A r \in Filed \ cut : Handled(r) \/
        /\ requests[r].status = "confirmed" /\ contracts[r] = "initialized"
        /\ rows[requests[r].key].contract # None /\ artifacts[r].linked

\* The catalogue agrees with the chain: what it shows of a deployment is there, and
\* what came out there without an interruption is shown.
CatalogueIsTrue == ConfirmedMeansDeployed /\ RowsNameContracts /\ OutcomeKnown

\* A failed request is never revived and a confirmed one never goes back to
\* deploying (updateContestCreationRequestStatus checks neither): the calls
\* that write the status come in one order.
FailedIsFinal ==
    [][\A r \in Requests : /\ requests[r].status = "failed" => requests'[r].status = "failed"
                           /\ requests[r].status = "confirmed" => requests'[r].status # "deploying"]_vars

\* Tracking a contest again forgets the participants counted in its row.  It
\* happens only when a funded contest is finalized, or when the contest id is
\* submitted again, never when the server deploys a contest on its own.
EntriesKept ==
    [][\A k \in Keys : rows'[k].entries < rows[k].entries =>
          \/ \E r \in Filed : requests[r].key = k /\ job[r].final
          \/ \E q, r \in Filed : q # r /\ requests[q].key = k /\ requests[r].key = k]_vars

\* Nothing recorded is taken back: not how a request came out, nor who entered.
NothingUndone == FailedIsFinal /\ EntriesKept

\* A contest the owner has funded is confirmed in the end, unless a failure, a
\* restart or a closed page comes between.
FundedIsConfirmed ==
    \A r \in Requests :
        contracts[r] = "initialized" ~> requests[r].status = "confirmed" \/ r \in cut

=================================================================================
