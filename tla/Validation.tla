------------------------------ MODULE Validation ------------------------------
(***************************************************************************)
(* packages/shared/schemas: the registry of validation rules, its overrides *)
(* per environment, the execution plan, and the evaluation of a batch, in   *)
(* which a composite entry first pulls the entries it depends on.           *)
(*                                                                          *)
(* Types are numbered in the order of the registry.  An atomic type has no  *)
(* dependencies and a composite one has some, which the code checks of the  *)
(* base registry and of the merged one.                                     *)
(***************************************************************************)
EXTENDS Naturals, Sequences, FiniteSets, FiniteSetsExt, SequencesExt

CONSTANTS
    Types,                \* 1 .. n, the types of the registry
    Unknown,              \* a type of no registry
    Values,               \* what an entry can hold
    Accepts(_, _, _),     \* the rules: of a type, a value and the values depended on
    ValidationScenarios   \* the situations explored, see ValidationScene

\* The registry's dependencies, the overrides of the environment in the order they
\* are listed, and the batch.
Dependencies == [Types -> SUBSET Types]
Override     == [of : Types, to : SUBSET Types]
Entry        == [type : Types \cup {Unknown}, value : Values]
ValidationScene == [registry : Dependencies, overrides : Seq(Override), batch : Seq(Entry)]

ASSUME ValidationAssumption ==
    /\ IsFiniteSet(Types) /\ Types = 1 .. Cardinality(Types)
    /\ Unknown \notin Types
    /\ \A scene \in ValidationScenarios :
          /\ scene.registry \in Dependencies
          /\ scene.overrides \in Seq(Override)
          /\ scene.batch \in Seq(Entry)

VARIABLES
    registry,   \* the dependencies, with the overrides merged so far
    merged,     \* how many overrides are merged
    queue,      \* types whose dependencies are all planned
    ordered,    \* the plan's types, in order
    depth,      \* depth of each type in the plan
    frames,     \* the calls of evaluateState, the innermost last
    evaluated,  \* entries that were accepted
    resolved,   \* the entry each type's value is from, the last one accepted
    outcome,    \* what became of it
    scene       \* the situation explored

validationVars == <<registry, merged, queue, ordered, depth, frames, evaluated, resolved,
                    outcome, scene>>

-----------------------------------------------------------------------------
Frame    == [index : Nat \ {0}, next : Nat \ {0}, missing : SUBSET Types]
Outcomes == [result : {"merging", "planning", "running", "refused", "cyclic", "reentered",
                       "success", "rejected", "unknown", "missing"}, at : Nat]
Result(r, i) == [result |-> r, at |-> i]

Indexes    == DOMAIN scene.batch
TypeOf(i)  == scene.batch[i].type
ValueOf(i) == scene.batch[i].value
NoEntry    == 0
HasValue(t) == resolved[t] # NoEntry

ValidationInit ==
    /\ scene \in ValidationScenarios
    /\ registry = scene.registry
    /\ merged = 0
    /\ queue = <<>>
    /\ ordered = <<>>
    /\ depth = [t \in Types |-> 0]
    /\ frames = <<>>
    /\ evaluated = {}
    /\ resolved = [t \in Types |-> NoEntry]
    /\ outcome = Result("merging", 0)

-----------------------------------------------------------------------------
(* The registry                                                              *)

\* ensureDependenciesAreKnown, of what the types leave open.
Consistent(deps) == \A t \in Types : t \notin deps[t]

\* An override replaces the dependencies; a composite type stays composite and an
\* atomic one atomic.
MergeOverride ==
    /\ outcome.result = "merging"
    /\ merged < Len(scene.overrides)
    /\ LET o == scene.overrides[merged + 1]
       IN  IF (o.to = {}) # (scene.registry[o.of] = {})
           THEN /\ outcome' = Result("refused", 0)
                /\ UNCHANGED registry
           ELSE /\ registry' = [registry EXCEPT ![o.of] = o.to]
                /\ UNCHANGED outcome
    /\ merged' = merged + 1
    /\ UNCHANGED <<queue, ordered, depth, frames, evaluated, resolved>>

\* The types of a set in the order of the registry.
Sorted(S) ==
    CHOOSE q \in [1 .. Cardinality(S) -> S] :
        \A i, j \in 1 .. Cardinality(S) : i < j => q[i] < q[j]

CheckRegistry ==
    /\ outcome.result = "merging"
    /\ merged = Len(scene.overrides)
    /\ IF Consistent(registry)
       THEN /\ outcome' = Result("planning", 0)
            /\ queue' = Sorted({t \in Types : registry[t] = {}})
       ELSE /\ outcome' = Result("refused", 0)
            /\ UNCHANGED queue
    /\ UNCHANGED <<registry, merged, ordered, depth, frames, evaluated, resolved>>

-----------------------------------------------------------------------------
(* The plan                                                                  *)

Planned == Range(ordered)

\* A mutant: one planned dependency is enough.
ReadyEarly(t) ==
    {f \in Types : t \in registry[f] /\ Cardinality(registry[f] \cap Planned) = 0}

\* The types whose last unplanned dependency is t.
Ready(t) == {f \in Types : registry[f] \ Planned = {t}}

PlanNext ==
    /\ outcome.result = "planning"
    /\ queue # <<>>
    /\ LET t == Head(queue)
       IN  /\ ordered' = Append(ordered, t)
           /\ queue' = Tail(queue) \o Sorted(Ready(t))
           /\ depth' = [f \in Types |-> IF f \in Ready(t)
                                        THEN Max({depth[d] : d \in registry[f]}) + 1 ELSE depth[f]]
    /\ UNCHANGED <<registry, merged, frames, evaluated, resolved, outcome>>

PlanComplete == Len(ordered) = Cardinality(Types)

FinishPlan ==
    /\ outcome.result = "planning"
    /\ queue = <<>>
    /\ outcome' = IF PlanComplete THEN Result("running", 0) ELSE Result("cyclic", 0)
    /\ UNCHANGED <<registry, merged, queue, ordered, depth, frames, evaluated, resolved>>

-----------------------------------------------------------------------------
(* The batch                                                                 *)

Waiting(t) == {i \in Indexes : TypeOf(i) = t} \ evaluated

\* A mutant: only entries before the one that depends on them.
DependencyBefore(t, after) ==
    {i \in Waiting(t) : i <= after /\ \A j \in Waiting(t) : i <= j}

\* The first entry of the type that is not evaluated.
DependencyOf(t, after) == {i \in Waiting(t) : \A j \in Waiting(t) : i <= j}

Call(i) == [index |-> i, next |-> 1, missing |-> {}]

\* The loop over the entries calls evaluateState of the next one.
CallNext ==
    /\ outcome.result = "running"
    /\ frames = <<>>
    /\ IF Indexes \subseteq evaluated
       THEN outcome' = Result("success", 0) /\ UNCHANGED frames
       ELSE frames' = <<Call(Min(Indexes \ evaluated))>> /\ UNCHANGED outcome
    /\ UNCHANGED <<registry, merged, queue, ordered, depth, evaluated, resolved>>

Top     == frames[Len(frames)]
Running == outcome.result = "running" /\ frames # <<>>

Fail(why, i) == outcome' = Result(why, i) /\ frames' = <<>> /\ UNCHANGED <<evaluated, resolved>>

Accept(i) ==
    /\ evaluated' = evaluated \cup {i}
    /\ resolved' = [resolved EXCEPT ![TypeOf(i)] = i]
    /\ frames' = Front(frames)
    /\ UNCHANGED outcome

\* The rule, a schema or an evaluator, on the values of the entries in view.
Passes(i, view) == Accepts(TypeOf(i), ValueOf(i), [d \in DOMAIN view |-> ValueOf(view[d])])

\* An entry is judged on the values its dependencies have by now; an error ends
\* the batch.
Judge(i) ==
    IF Passes(i, [d \in registry[TypeOf(i)] |-> resolved[d]]) THEN Accept(i) ELSE Fail("rejected", i)

\* The dependencies of a type, in the order they are declared.
Declared(t) == Sorted(registry[t])

\* The next dependency of the composite entry on top: it has a value, or an entry
\* to evaluate first, or is missing.
Resolve ==
    LET t  == Declared(TypeOf(Top.index))[Top.next]
        up == [frames EXCEPT ![Len(frames)].next = @ + 1]
        found == DependencyOf(t, Top.index)
    IN  IF HasValue(t)
        THEN frames' = up /\ UNCHANGED <<evaluated, resolved, outcome>>
        ELSE IF found = {}
        THEN /\ frames' = [up EXCEPT ![Len(frames)].missing = @ \cup {t}]
             /\ UNCHANGED <<evaluated, resolved, outcome>>
        ELSE LET i == CHOOSE j \in found : TRUE
             IN  IF \E k \in DOMAIN frames : frames[k].index = i
                 THEN Fail("reentered", i)
                 ELSE frames' = Append(up, Call(i)) /\ UNCHANGED <<evaluated, resolved, outcome>>

EvaluateTop ==
    /\ Running
    /\ LET i == Top.index
       IN  IF TypeOf(i) = Unknown THEN Fail("unknown", i)
           ELSE IF Top.next <= Cardinality(registry[TypeOf(i)]) THEN Resolve
           ELSE IF Top.missing # {} THEN Fail("missing", i)
           ELSE Judge(i)
    /\ UNCHANGED <<registry, merged, queue, ordered, depth>>

ValidationNext ==
    /\ \/ MergeOverride \/ CheckRegistry \/ PlanNext \/ FinishPlan \/ CallNext \/ EvaluateTop
    /\ UNCHANGED scene

ValidationSpec == ValidationInit /\ [][ValidationNext]_validationVars

-----------------------------------------------------------------------------
(* Properties                                                                *)

\* Every variable has its type, nothing is planned twice, and no entry is on the
\* stack of calls twice or after it was accepted.
ValidationTypeOK ==
    /\ registry \in Dependencies
    /\ merged \in Nat
    /\ queue \in Seq(Types) /\ ordered \in Seq(Types)
    /\ IsInjective(ordered \o queue)
    /\ depth \in [Types -> Nat]
    /\ frames \in Seq(Frame)
    /\ evaluated \subseteq Indexes /\ resolved \in [Types -> evaluated \cup {NoEntry}]
    /\ outcome \in Outcomes
    /\ IsInjective([k \in DOMAIN frames |-> frames[k].index])
    /\ \A k \in DOMAIN frames : frames[k].index \notin evaluated

\* Some types depend on each other in a circle.
Cyclic == \E S \in SUBSET Types : S # {} /\ \A t \in S : registry[t] \cap S # {}

\* The plan names every type after the types it depends on, at a greater depth, and
\* it is refused exactly when the merged registry has a circle: an override can
\* close one that neither it nor the base registry has alone.
PlanIsSound ==
    /\ outcome.result = "cyclic" => Cyclic
    /\ outcome.result \in {"running", "success", "rejected", "unknown", "missing", "reentered"} =>
          /\ ~Cyclic
          /\ \A i \in DOMAIN ordered : \A d \in registry[ordered[i]] :
                d \in {ordered[j] : j \in 1 .. i - 1} /\ depth[d] < depth[ordered[i]]

\* An evaluation never comes back to an entry it is in the middle of: the error for
\* that is not reached.
NeverReentered == outcome.result # "reentered"

\* The entries an entry's dependencies may get their values from: none when its
\* type is unknown, or a type it depends on is not in the batch.
Views(i) ==
    IF TypeOf(i) = Unknown THEN {}
    ELSE {v \in [registry[TypeOf(i)] -> Indexes] : \A d \in DOMAIN v : TypeOf(v[d]) = d}

\* A batch succeeds only when every entry passes on values of the batch, and an
\* entry is refused only for a dependency that is not there, or on values that were
\* accepted themselves.
VerdictIsJustified ==
    /\ outcome.result = "success" => \A i \in Indexes : \E v \in Views(i) : Passes(i, v)
    /\ outcome.result \in {"unknown", "missing"} => Views(outcome.at) = {}
    /\ outcome.result = "rejected" =>
          \E v \in Views(outcome.at) : Range(v) \subseteq evaluated /\ ~Passes(outcome.at, v)

\* What every entry needs, said without an order.
Acceptable(i) == Views(i) # {} /\ \A v \in Views(i) : Passes(i, v)

\* No type that an entry depends on occurs twice.  Otherwise the last accepted
\* overwrites the earlier ones, and the order of the batch does enter.
Unambiguous == \A i \in Indexes : \A v, w \in Views(i) : v = w

\* A batch succeeds exactly when each entry is acceptable, and the entry an error
\* names is one that is not.
VerdictIsOrderless ==
    /\ outcome.result = "success" => \A i \in Indexes : Acceptable(i)
    /\ outcome.result \in {"rejected", "unknown", "missing"} => ~Acceptable(outcome.at)

\* The verdict on a batch follows from the registry and the batch: from the values
\* in it at any time and, when no type depended on occurs twice, neither from the
\* order of registration, nor of the entries, nor of the evaluation.
VerdictIsRight ==
    PlanIsSound /\ NeverReentered /\ VerdictIsJustified /\ (Unambiguous => VerdictIsOrderless)
===============================================================================
