------------------------------- MODULE Console -------------------------------
(***************************************************************************)
(* The developer console: its start on a node, and the calls a developer    *)
(* makes of the contracts.  Reads run side by side; writes form one queue.  *)
(* The history is drawn anew at every change, and drawing a record whose    *)
(* details hold a bigint throws.  The connection may fail after the node     *)
(* took a write: the call is then told to have failed, and is mined later.   *)
(*                                                                          *)
(* One load of the page.  The form, banner, overlay and log are left out.   *)
(***************************************************************************)
EXTENDS Naturals, Sequences, FiniteSets

CONSTANTS
    Contracts,          \* the contracts of the runtime configuration
    MaxCalls,           \* bound on the calls made
    ConsoleScenarios    \* the situations explored, see ConsoleScene

\* How the environment answers: /api/runtime/config, the node's chain id, its two
\* methods that list accounts, and the two sources of each contract's ABI; whether
\* what the calls return or revert with may hold integers; bound: the calls made.
AccountsAnswer == {"some", "none", "unknown", "error"}
AbiSource      == [inline : BOOLEAN, path : {"good", "bad", "none"}, api : {"good", "bad"}]
ConsoleScene ==
    [runtime : {"good", "empty", "bad", "down"}, chain : {"same", "other", "down"},
     accounts : [eth : AccountsAnswer, personal : AccountsAnswer],
     abis : [Contracts -> AbiSource], integers : BOOLEAN, calls : 0 .. MaxCalls]

ASSUME ConsoleAssumption == ConsoleScenarios \subseteq ConsoleScene

VARIABLES
    page,           \* root.dataset.status, with the step reached while it starts
    listed,         \* the contracts in the list
    callsMade,          \* the calls made: the tracker's requests, in order
    statusFilter,   \* the status filter of the history
    consoleScene    \* the situation explored

consoleVars == <<page, listed, callsMade, statusFilter, consoleScene>>

-----------------------------------------------------------------------------
CallStatus == {"validated", "queued", "submitted", "confirmed", "failed"}
\* step: where the executor is; "lost": the call was never handed to it.
\* effect: what the chain made of it; "open": the node took it, it is not mined.
\* cut: it failed for the connection, which tells nothing of the effect.
\* integer: the details in the history hold a bigint.
CallRecord == [kind : {"read", "write"}, status : CallStatus,
               step : {"waiting", "running", "sent", "over", "lost"},
               effect : {"none", "open", "done", "undone"}, cut : BOOLEAN,
               integer : BOOLEAN]

StatusFilters == {"all", "confirmed", "failed"}

ConsoleInit ==
    /\ consoleScene \in ConsoleScenarios
    /\ page = "config"
    /\ listed = {}
    /\ callsMade = <<>>
    /\ statusFilter = "all"

-----------------------------------------------------------------------------
(* The start                                                                 *)

\* loadEnvironmentConfig: an empty, unreachable or invalid configuration is refused.
LoadConfig ==
    /\ page = "config"
    /\ page' = IF consoleScene.runtime = "good" THEN "provider" ELSE "error"
    /\ UNCHANGED <<listed, callsMade, statusFilter>>

VerifyChain == consoleScene.chain = "same"

\* eth_accounts, and personal_listAccounts when that lists none or is unknown.
ListAccounts ==
    \/ consoleScene.accounts.eth = "some"
    \/ /\ consoleScene.accounts.eth \in {"none", "unknown"}
       /\ consoleScene.accounts.personal = "some"

CreateProvider ==
    /\ page = "provider"
    /\ page' = IF VerifyChain /\ ListAccounts THEN "abis" ELSE "error"
    /\ UNCHANGED <<listed, callsMade, statusFilter>>

\* The ABI's own path first; the API when there is none there.  A file that is
\* not an ABI is an error of its own.
LoadAbi(source) ==
    IF source.inline \/ source.path = "none" THEN source.api = "good"
                                             ELSE source.path = "good"

\* A contract whose ABI does not load is left out of the list.
BuildContractList ==
    /\ page = "abis"
    /\ listed' = {c \in Contracts : LoadAbi(consoleScene.abis[c])}
    /\ page' = "ready"
    /\ UNCHANGED <<callsMade, statusFilter>>

-----------------------------------------------------------------------------
(* The history                                                               *)

Listed(call, choice) == choice = "all" \/ call.status = choice

\* Whether drawing the history of these calls throws.
Unprintable(calls) == \E i \in DOMAIN calls : Listed(calls[i], statusFilter) /\ calls[i].integer

ChooseFilter(choice) ==
    /\ page = "ready"
    /\ statusFilter' = choice
    /\ UNCHANGED <<page, listed, callsMade>>

-----------------------------------------------------------------------------
(* The calls                                                                 *)

NewCall(kind) == [kind |-> kind, status |-> "validated", step |-> "lost",
                  effect |-> "none", cut |-> FALSE, integer |-> FALSE]

\* The form is submitted.  The call is registered and the history drawn, outside
\* any try: if that throws, nothing more happens.  A read is then sent at once, a
\* write queued.
Submit(kind) ==
    /\ page = "ready" /\ listed # {}
    /\ Len(callsMade) < consoleScene.calls
    /\ callsMade' = Append(callsMade,
          IF Unprintable(Append(callsMade, NewCall(kind))) THEN NewCall(kind)
          ELSE IF kind = "read"
               THEN [NewCall(kind) EXCEPT !.status = "submitted", !.step = "running"]
               ELSE [NewCall(kind) EXCEPT !.status = "queued", !.step = "waiting"])
    /\ UNCHANGED <<page, listed, statusFilter>>

\* What a call leaves behind, which holds integers or not.
Details == IF consoleScene.integers THEN BOOLEAN ELSE {FALSE}

Set(i, call) == callsMade' = [callsMade EXCEPT ![i] = call]

FailCall(i, effect, cut) ==
    \E integer \in Details :
        Set(i, [callsMade[i] EXCEPT !.status = "failed", !.step = "over", !.effect = effect,
                                !.cut = cut, !.integer = integer])

\* The call succeeded and is told so; if drawing the history with its answer
\* throws, it is then told to have failed.
Succeed(i, integer) ==
    LET done == [callsMade[i] EXCEPT !.status = "confirmed", !.step = "over", !.effect = "done",
                                 !.integer = integer]
    IN  Set(i, IF Unprintable([callsMade EXCEPT ![i] = done])
               THEN [done EXCEPT !.status = "failed"] ELSE done)

ExecuteRead(i) ==
    /\ callsMade[i].kind = "read" /\ callsMade[i].step = "running"
    /\ \/ \E integer \in Details : Succeed(i, integer)
       \/ \E cut \in BOOLEAN : FailCall(i, "none", cut)

EarlierWrites(i) == {j \in 1 .. i - 1 : callsMade[j].kind = "write" /\ callsMade[j].step # "lost"}

\* A mutant: the queue is not waited for.
TurnAtOnce(i)      == \A j \in EarlierWrites(i) : callsMade[j].step # "waiting"

\* writeQueue.then(task, task): the write before is over, well or not.
Turn(i) == \A j \in EarlierWrites(i) : callsMade[j].step = "over"

StartWrite(i) ==
    /\ callsMade[i].step = "waiting" /\ Turn(i)
    /\ Set(i, [callsMade[i] EXCEPT !.status = "submitted", !.step = "running"])

\* The node takes the write or refuses it; or the connection fails, before or
\* after it took it.
Send(i) ==
    /\ callsMade[i].kind = "write" /\ callsMade[i].step = "running"
    /\ \/ Set(i, [callsMade[i] EXCEPT !.step = "sent", !.effect = "open"])
       \/ FailCall(i, "none", FALSE)
       \/ \E effect \in {"none", "open"} : FailCall(i, effect, TRUE)

\* The chain carries a write out, reverts it or drops it, whoever still waits.
Mine(i) ==
    /\ callsMade[i].effect = "open"
    /\ \E effect \in {"done", "undone"} : Set(i, [callsMade[i] EXCEPT !.effect = effect])

\* A receipt prints its integers as strings; wait() throws on a reverted one, and
\* at any time for the connection.
AwaitReceipt(i) ==
    /\ callsMade[i].step = "sent"
    /\ \/ callsMade[i].effect = "done" /\ Succeed(i, FALSE)
       \/ callsMade[i].effect = "undone" /\ FailCall(i, "undone", FALSE)
       \/ FailCall(i, callsMade[i].effect, TRUE)

-----------------------------------------------------------------------------
Carry(i) == ExecuteRead(i) \/ StartWrite(i) \/ Send(i) \/ AwaitReceipt(i) \/ Mine(i)

CarryOn ==
    /\ \E i \in DOMAIN callsMade : Carry(i)
    /\ UNCHANGED <<page, listed, statusFilter>>

ConsoleNext ==
    /\ \/ LoadConfig \/ CreateProvider \/ BuildContractList
       \/ \E choice \in StatusFilters : ChooseFilter(choice)
       \/ \E kind \in {"read", "write"} : Submit(kind)
       \/ CarryOn
    /\ UNCHANGED consoleScene

ConsoleSpec == ConsoleInit /\ [][ConsoleNext]_consoleVars

\* The node answers, and mines or drops what it was sent.
ConsoleFairness == WF_consoleVars(CarryOn /\ UNCHANGED consoleScene)

-----------------------------------------------------------------------------
(* Properties                                                                *)

\* Every variable has its type, and the tracker shows an end exactly of the calls
\* that are over.
ConsoleTypeOK ==
    /\ page \in {"config", "provider", "abis", "ready", "error"}
    /\ listed \subseteq Contracts
    /\ callsMade \in Seq(CallRecord)
    /\ statusFilter \in StatusFilters
    /\ \A i \in DOMAIN callsMade :
          callsMade[i].step = "over" <=> callsMade[i].status \in {"confirmed", "failed"}

\* Writes reach the node in the order they were asked for, whatever became of the
\* ones before, and none while an earlier one is open there, unless the connection
\* failed for that one.
WritesInOrder ==
    \A i, j \in DOMAIN callsMade :
        /\ i < j
        /\ callsMade[i].kind = "write" /\ callsMade[j].kind = "write"
        /\ callsMade[j].step \in {"running", "sent", "over"}
        => /\ callsMade[i].step \in {"over", "lost"}
           /\ callsMade[i].effect = "open" => callsMade[i].cut

\* The tracker tells what became of a call, and none is dropped, unless the history
\* came to hold an integer: confirmed, it took effect; failed, it did not and will
\* not, unless the connection failed, which the tracker tells in the same way.
OutcomeIsTold ==
    (\A i \in DOMAIN callsMade : ~callsMade[i].integer) =>
        \A i \in DOMAIN callsMade :
            /\ callsMade[i].step # "lost"
            /\ callsMade[i].status = "confirmed" => callsMade[i].effect = "done"
            /\ callsMade[i].status = "failed" /\ callsMade[i].effect \in {"open", "done"}
               => callsMade[i].cut

\* Whatever becomes of other calls, each comes in its turn and is told as it ended.
CallsComeOutRight == WritesInOrder /\ OutcomeIsTold

\* No call waits for ever behind another: each comes to its end.
CallsEnd ==
    \A i \in 1 .. MaxCalls :
        (i \in DOMAIN callsMade) ~> (i \in DOMAIN callsMade /\ callsMade[i].step \in {"over", "lost"})
===============================================================================
