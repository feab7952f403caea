------------------------------ MODULE MCServices ------------------------------
(***************************************************************************)
(* The parts of the system that share no state with one another, side by    *)
(* side: each behaviour is of one part, the others rest in a quiet scene.   *)
(***************************************************************************)
EXTENDS PriceSource, Reports, Endpoints, Catalogue, Validation, Console,
        DevEnvironment, TLC

CONSTANTS w1, w2, s1, s2, u, k, v1, v2

VARIABLE part   \* the part whose behaviour this is

servicesVars == <<part, vars, reportVars, endpointVars, catalogueVars, validationVars,
                  consoleVars, devVars>>

-----------------------------------------------------------------------------
(* -1, 0 and 1 are ticks a whole factor apart; a mean lies in the same range. *)
MCTicks  == {-1, 1}
MCPrices == (-1 :> 5) @@ (0 :> 10) @@ (1 :> 20)

Only(budgets, allowance) == [what \in budgets |-> IF what \in DOMAIN allowance THEN allowance[what] ELSE 0]

ReportCase(ws, allowance) == [workers |-> ws, budget |-> Only(ReportSpending, allowance)]
QuietReports == ReportCase({}, <<>>)
MCReports ==
    { QuietReports,
      ReportCase({w1}, [send |-> 2, review |-> 1, fault |-> 1, expiry |-> 1]),
      ReportCase({w1}, [send |-> 2, fault |-> 4]),
      ReportCase({w1, w2}, [send |-> 2, review |-> 1, repeat |-> 1]),
      ReportCase({w1}, [replay |-> 1, send |-> 1, outside |-> 1, fault |-> 1, crash |-> 1]) }

\* In the last but one the gateway wraps its errors, as the chain package's does.
EndpointCase(ds, ss, wraps, n, allowance) ==
    [down |-> ds, streams |-> ss, wraps |-> wraps, calls |-> n,
     budget |-> Only(EndpointSpending, allowance)]
QuietEndpoints == EndpointCase({}, {}, TRUE, 0, <<>>)
MCEndpoints ==
    { EndpointCase({1}, {s1}, FALSE, 2, <<>>),
      EndpointCase({}, {s1, s2}, FALSE, 1, [flip |-> 1]),
      EndpointCase({1, 2}, {s1}, FALSE, 1, <<>>),
      EndpointCase({1, 2, 3}, {s1}, FALSE, 1, [flip |-> 3]),
      EndpointCase({2}, {s1}, FALSE, 2, [flip |-> 1, storage |-> 1, queue |-> 1]),
      EndpointCase({1}, {s1}, TRUE, 1, [flip |-> 1]),
      QuietEndpoints }

CatalogueCase(list, rows, linked, allowance) ==
    [list |-> list, rows |-> rows, linked |-> linked, budget |-> Only(CatalogueSpending, allowance)]
QuietCatalogue == CatalogueCase("contests", {}, FALSE, <<>>)
MCCatalogue ==
    { QuietCatalogue,
      CatalogueCase("contests", {1, 2, 3}, FALSE, [turn |-> 3, back |-> 1, refresh |-> 1]),
      CatalogueCase("contests", {1, 2}, FALSE, [turn |-> 1, filter |-> 2, fault |-> 1]),
      CatalogueCase("contests", {2, 3}, TRUE, [turn |-> 2, back |-> 1, insert |-> 1, move |-> 1]),
      CatalogueCase("requests", {1, 2, 3}, FALSE, [turn |-> 2, refresh |-> 1, insert |-> 1]),
      CatalogueCase("activity", {1, 2, 3}, FALSE, [turn |-> 3, refresh |-> 1, move |-> 1, insert |-> 1]) }

\* Every registry of three types; every batch of up to three entries of a chain of
\* types; every pair of overrides of the chain.
MCTypes == {1, 2, 3}
Good(t)  == [type |-> t, value |-> 2]
\* 0 is never accepted, and no value on which one that is less depends.
MCAccepts(t, v, deps) == v # 0 /\ \A d \in DOMAIN deps : deps[d] <= v
Chain    == <<{}, {1}, {1, 2}>>
ValidationCase(deps, overrides, batch) ==
    [registry |-> deps, overrides |-> overrides, batch |-> batch]
QuietValidation == ValidationCase(Chain, <<>>, <<>>)
MCEntries   == [type : MCTypes, value : 0 .. 2] \cup {Good(u)}
MCOverrides == [of : MCTypes, to : SUBSET MCTypes]
MCValidation ==
    {QuietValidation} \cup
    {ValidationCase(deps, <<>>, <<Good(1), Good(2), Good(3)>>) :
        deps \in {d \in [MCTypes -> SUBSET MCTypes] : \A t \in MCTypes : t \notin d[t]}} \cup
    {ValidationCase(Chain, <<>>, batch) : batch \in UNION {[1 .. n -> MCEntries] : n \in 1 .. 3}} \cup
    {ValidationCase(Chain, <<a, b>>, <<Good(3), Good(2), Good(1)>>) : a, b \in MCOverrides}

\* Of the two contracts, one has an ABI at its path, one at the API only.
Node(runtime, chain, eth, personal, integers, n) ==
    [runtime |-> runtime, chain |-> chain, accounts |-> [eth |-> eth, personal |-> personal],
     abis |-> (1 :> [inline |-> FALSE, path |-> "good", api |-> "bad"])
              @@ (2 :> [inline |-> FALSE, path |-> "none", api |-> "good"]),
     integers |-> integers, calls |-> n]
QuietConsole == Node("good", "same", "some", "none", FALSE, 0)
MCConsole ==
    { QuietConsole,
      Node("good", "same", "some", "none", FALSE, 3),
      Node("good", "same", "none", "some", TRUE, 3) } \cup
    {Node(runtime, chain, eth, personal, FALSE, 1) :
        runtime \in {"good", "down"}, chain \in {"same", "other"},
        eth \in AccountsAnswer, personal \in AccountsAnswer}

\* A database with a volume, in a profile that is on by default; a tool without
\* a profile, whose volume is bound to a path.
Container(name, profiles, ports, mounts) ==
    [name |-> name, profiles |-> profiles, ports |-> ports, mounts |-> mounts]
Stack ==
    [services |-> <<Container("database", {k}, {1}, {v1}), Container("tool", {}, {}, {v2})>>,
     profiles |-> <<[name |-> k, services |-> {"database"}, default |-> TRUE]>>,
     volumes  |-> <<[name |-> v1, bound |-> FALSE], [name |-> v2, bound |-> TRUE]>>,
     checked  |-> TRUE,
     resetPolicy |-> [mode |-> "selective", selectiveVolumes |-> <<v1, v2>>]]
DevCase(base, over, allowance) == [base |-> base, over |-> over, budget |-> Only(DevSpending, allowance)]
QuietDev == DevCase(Absent, Absent, <<>>)
MCDev ==
    { QuietDev,
      DevCase(File("fine", Stack), Absent, [command |-> 3, fault |-> 1, kill |-> 1]),
      DevCase(File("fine", Stack), File("fine", [checked |-> FALSE]), [command |-> 3, fault |-> 2]),
      DevCase(File("fine", Stack), Absent, [command |-> 2, port |-> 1]) } \cup
    {DevCase(base, over, [command |-> 1]) :
        base \in {Absent, File("broken", <<>>), File("fine", Stack)},
        over \in {File("broken", <<>>), File("fine", [resetPolicy |-> [mode |-> "full"]]),
                  File("fine", [profiles |-> <<>>]), File("fine", [volumes |-> <<>>])}}

-----------------------------------------------------------------------------
ServicesInit ==
    /\ part \in {"prices", "reports", "endpoints", "catalogue", "validation", "console", "environment"}
    /\ Init
    /\ part = "reports" \/ reportScene = QuietReports
    /\ ReportsInit
    /\ part = "endpoints" \/ endpointScene = QuietEndpoints
    /\ EndpointsInit
    /\ part = "catalogue" \/ catalogueScene = QuietCatalogue
    /\ CatalogueInit
    /\ part = "validation" \/ scene = QuietValidation
    /\ ValidationInit
    /\ part = "console" \/ consoleScene = QuietConsole
    /\ ConsoleInit
    /\ part = "environment" \/ devScene = QuietDev
    /\ DevInit

Steps(name, step, rest) == part = name /\ step /\ UNCHANGED <<part, rest>>

ServicesNext ==
    \/ Steps("prices", Next, <<reportVars, endpointVars, catalogueVars,
                  validationVars, consoleVars, devVars>>)
    \/ Steps("reports", ReportsNext, <<vars, endpointVars, catalogueVars,
                  validationVars, consoleVars, devVars>>)
    \/ Steps("endpoints", EndpointsNext, <<vars, reportVars, catalogueVars,
                  validationVars, consoleVars, devVars>>)
    \/ Steps("catalogue", CatalogueNext, <<vars, reportVars, endpointVars,
                  validationVars, consoleVars, devVars>>)
    \/ Steps("validation", ValidationNext, <<vars, reportVars, endpointVars,
                  catalogueVars, consoleVars, devVars>>)
    \/ Steps("console", ConsoleNext, <<vars, reportVars, endpointVars,
                  catalogueVars, validationVars, devVars>>)
    \/ Steps("environment", DevNext, <<vars, reportVars, endpointVars,
                  catalogueVars, validationVars, consoleVars>>)

\* A timer starts live cycles and every call ends, the console's too; nothing else
\* is promised.
ServicesSpec == ServicesInit /\ [][ServicesNext]_servicesVars 
                /\ EndpointsFairness /\ ConsoleFairness

\* What is under way comes to an end: an outage, once the endpoints answer again,
\* and every call of the console.
NothingStaysStuck == HealthRecovers /\ CallsEnd
===============================================================================
