--------------------------- MODULE DevEnvironment ---------------------------
(***************************************************************************)
(* The dev-bootstrap tool: validate, start, stop and reset a development    *)
(* environment that lives in Docker.  A command is a process of several     *)
(* steps; any step's docker call may fail, and the process may be killed.   *)
(*                                                                          *)
(* One command at a time, one project.  What docker does is external.       *)
(***************************************************************************)
EXTENDS Naturals, Sequences, SequencesExt

CONSTANTS
    Keys,           \* the keys of profiles
    Volumes,        \* names of volumes
    DevScenarios    \* the situations explored, see DevScene

DevSpending == {"command", "fault", "kill", "port"}
Modes       == {"preserve", "selective", "full"}

\* The two configuration files as they are read, and bounds on what happens.  A file
\* is missing, not YAML, or an object with some of the configuration's keys.
File(state, content) == [state |-> state, content |-> content]
Absent == File("missing", <<>>)

Names(seq) == {seq[i].name : i \in DOMAIN seq}

\* Services mount volumes, profiles have keys; the policy is a mode and a list.
Typed(content) ==
    /\ "services" \in DOMAIN content =>
          \A i \in DOMAIN content.services : content.services[i].mounts \subseteq Volumes
    /\ "profiles" \in DOMAIN content => Names(content.profiles) \subseteq Keys
    /\ "resetPolicy" \in DOMAIN content =>
          /\ "mode" \in DOMAIN content.resetPolicy => content.resetPolicy.mode \in Modes
          /\ "selectiveVolumes" \in DOMAIN content.resetPolicy =>
                content.resetPolicy.selectiveVolumes \in Seq(Volumes)

ASSUME DevAssumption ==
    \A s \in DevScenarios : Typed(s.base.content) /\ Typed(s.over.content)

VARIABLES
    containers,     \* the services that have a container of the project
    networked,      \* the project's network exists
    disk,           \* the docker volumes of the project
    data,           \* volumes with data: in the docker volume or at the bound path
    taken,          \* another process holds a checked port
    command,        \* the command under way
    told,        \* what the last command that ended told
    devSpent,       \* how much of the budget is used
    devScene        \* the situation explored

devVars == <<containers, networked, disk, data, taken, command, told, devSpent, devScene>>
docker  == <<containers, networked, disk, data>>

-----------------------------------------------------------------------------
(* The configuration (config/loader.ts, config/schema.ts)                    *)

\* Objects are merged key by key, anything else is replaced.
MergeObjects(base, over) ==
    [k \in DOMAIN base \cup DOMAIN over |->
        IF k = "resetPolicy" /\ k \in DOMAIN base \cap DOMAIN over
        THEN [j \in DOMAIN base[k] \cup DOMAIN over[k] |->
                 IF j \in DOMAIN over[k] THEN over[k][j] ELSE base[k][j]]
        ELSE IF k \in DOMAIN over THEN over[k] ELSE base[k]]

RawConfig(base, over) ==
    IF over.state = "fine" THEN MergeObjects(base.content, over.content) ELSE base.content

Field(object, key, default) == IF key \in DOMAIN object THEN object[key] ELSE default

\* The defaults the schema fills in.
Parsed(raw) ==
    LET policy == Field(raw, "resetPolicy", <<>>)
    IN  [services |-> Field(raw, "services", <<>>), profiles |-> Field(raw, "profiles", <<>>),
         volumes |-> Field(raw, "volumes", <<>>), checked |-> Field(raw, "checked", FALSE),
         mode |-> Field(policy, "mode", "preserve"),
         selective |-> Field(policy, "selectiveVolumes", <<>>)]

Distinct(seq) == \A i, j \in DOMAIN seq : seq[i].name = seq[j].name => i = j

\* A service and a profile are records with a name; so is a volume, whose names
\* may repeat.
Valid(config) ==
    /\ config.services # <<>>
    /\ Distinct(config.services) /\ Distinct(config.profiles)
    /\ \A i, j \in DOMAIN config.services :
          i # j => config.services[i].ports \cap config.services[j].ports = {}
    /\ \A i \in DOMAIN config.profiles : config.profiles[i].services \subseteq Names(config.services)
    /\ \A i \in DOMAIN config.services : config.services[i].profiles \subseteq Names(config.profiles)
    /\ config.selective # <<>> => config.mode = "selective"
    /\ ToSet(config.selective) \subseteq Names(config.volumes)

Config == Parsed(RawConfig(devScene.base, devScene.over))

\* How loading ends: the exit code of the error it throws, or "Success".
LoadConfigResult ==
    IF devScene.base.state = "missing" THEN "ConfigFileNotFound"
    ELSE IF "broken" \in {devScene.base.state, devScene.over.state} THEN "ConfigParseFailed"
    ELSE IF ~Valid(Config) THEN "ConfigValidationFailed"
    ELSE "Success"

-----------------------------------------------------------------------------
Idle == [name |-> "none", step |-> "none", wipe |-> FALSE, mode |-> "preserve",
         left |-> <<>>, found |-> {}, profiles |-> {}, asked |-> {}, faulty |-> FALSE, blind |-> FALSE]

NoOutcome == [name |-> "none", exit |-> "Success", faulty |-> FALSE, blind |-> FALSE,
              wipe |-> FALSE, asked |-> {}]

DevInit ==
    /\ devScene \in DevScenarios
    /\ containers = {} /\ networked = FALSE /\ disk = {} /\ data = {}
    /\ taken = FALSE
    /\ command = Idle
    /\ told = NoOutcome
    /\ devSpent = [what \in DevSpending |-> 0]

SpendDev(what) ==
    /\ devSpent[what] < devScene.budget[what]
    /\ devSpent' = [devSpent EXCEPT ![what] = @ + 1]

Goto(step) == command' = [command EXCEPT !.step = step]

\* The command ends with an exit code and a summary.
End(exit) ==
    /\ command' = Idle
    /\ told' = [name |-> command.name, exit |-> exit, faulty |-> command.faulty,
                   blind |-> command.blind, wipe |-> command.wipe, asked |-> command.asked]

\* A docker call fails, and the command with it.
FailDocker(exit) ==
    /\ SpendDev("fault")
    /\ command' = Idle
    /\ told' = [name |-> command.name, exit |-> exit, faulty |-> TRUE,
                   blind |-> command.blind, wipe |-> command.wipe, asked |-> command.asked]

-----------------------------------------------------------------------------
(* Commands are given: each loads the configuration first                    *)

Issue(new) ==
    /\ command = Idle
    /\ SpendDev("command")
    /\ IF LoadConfigResult = "Success"
       THEN command' = new /\ told' = NoOutcome
       ELSE /\ told' = [NoOutcome EXCEPT !.name = new.name, !.exit = LoadConfigResult]
            /\ UNCHANGED command
    /\ UNCHANGED <<docker, taken>>

\* What validate would do is the loading alone.
RunValidate ==
    Issue([Idle EXCEPT !.name = "validate", !.step = "done"])

DefaultProfiles ==
    {p.name : p \in {q \in ToSet(Config.profiles) : q.default}}

DetermineProfiles(enable, disable) == (DefaultProfiles \cup enable) \ disable

RunStart(enable, disable) ==
    Issue([Idle EXCEPT !.name = "start", !.step = "preflight",
                       !.profiles = DetermineProfiles(enable, disable)])

RunStop(removeVolumes) ==
    Issue([Idle EXCEPT !.name = "stop", !.step = "down", !.wipe = removeVolumes,
                       !.asked = IF removeVolumes THEN Volumes ELSE {}])

DetermineMode(mode) == IF mode = "default" THEN Config.mode ELSE mode

DetermineSelectiveVolumes(requested) == IF requested # <<>> THEN requested ELSE Config.selective

\* A mutant: any mode but "preserve" removes all volumes.
WipesUnlessPreserving(mode) == mode # "preserve"

\* removeVolumes of the stop a reset begins with.
Wipes(mode) == mode = "full"

\* The requested volumes are looked up whatever the mode.
RunReset(mode, requested) ==
    LET effective == DetermineMode(mode)
        selection == DetermineSelectiveVolumes(requested)
        refused   == \/ effective = "selective" /\ selection = <<>>
                     \/ ~(ToSet(selection) \subseteq Names(Config.volumes))
    IN  Issue([Idle EXCEPT !.name = "reset", !.mode = effective,
                  !.step = IF refused THEN "refused" ELSE "down",
                  !.wipe = Wipes(effective), !.left = selection,
                  !.asked = CASE ~refused /\ effective = "full" -> Volumes
                              [] ~refused /\ effective = "selective" -> ToSet(selection)
                              [] OTHER -> {}])

Refuse ==
    /\ command.step = "refused"
    /\ End("TeardownFailed")
    /\ UNCHANGED <<docker, taken, devSpent>>

-----------------------------------------------------------------------------
(* start                                                                     *)

Service(name) == CHOOSE s \in ToSet(Config.services) : s.name = name

\* Docker runs the services that are of no profile or of an enabled one.
Active(profiles) ==
    {s.name : s \in {t \in ToSet(Config.services) : t.profiles = {} \/ t.profiles \cap profiles # {}}}

Mounted(names) == UNION {Service(n).mounts : n \in names}

\* A port of the checklist is in use: by another process, or by the environment
\* itself, when it runs.
PortInUse == Config.checked /\ (taken \/ \E n \in containers : Service(n).ports # {})

Preflight ==
    /\ command.step = "preflight"
    /\ \/ /\ IF PortInUse THEN End("OrchestrationFailed") ELSE Goto("up") /\ UNCHANGED told
          /\ UNCHANGED devSpent
       \/ FailDocker("OrchestrationFailed")
    /\ UNCHANGED <<docker, taken>>

\* docker compose up: some containers may be there when it fails.
ComposeUp ==
    /\ command.step = "up"
    /\ \E up \in SUBSET Active(command.profiles) :
          /\ containers' = containers \cup up
          /\ networked' = (networked \/ up # {})
          /\ disk' = disk \cup Mounted(up)
          /\ data' = data \cup Mounted(up)
          /\ \/ /\ up = Active(command.profiles)
                /\ End("Success") /\ UNCHANGED devSpent
             \/ FailDocker("OrchestrationFailed")
    /\ UNCHANGED taken

-----------------------------------------------------------------------------
(* stop                                                                      *)

Bound(v) == \E w \in ToSet(Config.volumes) : w.name = v /\ w.bound

\* The data of docker volumes goes with them; what is at a bound path stays.
RemoveVolumes(vs) ==
    /\ disk' = disk \ vs
    /\ data' = data \ {v \in vs : ~Bound(v)}

\* docker compose down, without the profiles: it may pass over the containers of
\* profiles, and the network and the volumes these use.  A failed one does a part.
ComposeDown ==
    /\ command.step = "down"
    /\ \E gone \in SUBSET containers, wiped \in SUBSET disk :
          /\ wiped # {} => command.wipe /\ wiped \cap Mounted(containers \ gone) = {}
          /\ containers' = containers \ gone
          /\ networked' = (networked /\ containers' # {})
          /\ RemoveVolumes(wiped)
          /\ \/ /\ containers \cap Active({}) \subseteq gone
                /\ Goto("list containers") /\ UNCHANGED <<told, devSpent>>
             \/ FailDocker("TeardownFailed")
    /\ UNCHANGED taken

\* What is left of the project by its label; a failed listing is an empty one.
Listing(step, what, next) ==
    /\ command.step = step
    /\ \/ /\ command' = [command EXCEPT !.step = next, !.found = what]
          /\ UNCHANGED devSpent
       \/ /\ SpendDev("fault")
          /\ command' = [command EXCEPT !.step = next, !.found = {}, !.blind = TRUE, !.faulty = TRUE]
    /\ UNCHANGED <<docker, taken, told>>

ListContainers == Listing("list containers", containers, "remove containers")
ListVolumes    == Listing("list volumes", disk, "remove volumes")
ListNetworks   == Listing("list networks", IF networked THEN {"network"} ELSE {}, "remove networks")

\* A mutant: compose is trusted to have removed the volumes.
AfterContainersTrusting == "list networks"

AfterContainers == IF command.wipe THEN "list volumes" ELSE "list networks"

ForceRemoveContainers ==
    /\ command.step = "remove containers"
    /\ \/ /\ containers' = containers \ command.found
          /\ Goto(AfterContainers) /\ UNCHANGED <<told, devSpent>>
       \/ /\ command.found # {} /\ FailDocker("TeardownFailed")
          /\ UNCHANGED containers
    /\ UNCHANGED <<networked, disk, data, taken>>

\* Docker removes the volumes no container uses, and fails if there are others.
ForceRemoveVolumes ==
    /\ command.step = "remove volumes"
    /\ \/ /\ RemoveVolumes(command.found \ Mounted(containers))
          /\ IF command.found \cap Mounted(containers) = {}
             THEN Goto("list networks") /\ UNCHANGED told
             ELSE End("TeardownFailed")
          /\ UNCHANGED devSpent
       \/ /\ command.found # {} /\ FailDocker("TeardownFailed")
          /\ UNCHANGED <<disk, data>>
    /\ UNCHANGED <<containers, networked, taken>>

\* The network of a container that is left cannot be removed.
ForceRemoveNetworks ==
    /\ command.step = "remove networks"
    /\ \/ /\ command.found = {} \/ containers = {}
          /\ networked' = (networked /\ command.found = {})
          /\ IF command.name = "reset" /\ command.mode = "selective"
             THEN Goto("select") /\ UNCHANGED told
             ELSE End("Success")
          /\ UNCHANGED devSpent
       \/ /\ command.found # {} /\ containers # {}
          /\ End("TeardownFailed") /\ UNCHANGED <<networked, devSpent>>
       \/ command.found # {} /\ FailDocker("TeardownFailed") /\ UNCHANGED networked
    /\ UNCHANGED <<containers, disk, data, taken>>

-----------------------------------------------------------------------------
(* reset, in selective mode: volume by volume                                *)

Chosen == Head(command.left)

\* fs.rm with force: what is not there is no error.
RemoveBindPath ==
    /\ Bound(Chosen)
    /\ data' = data \ {Chosen}
    /\ command' = [command EXCEPT !.left = Tail(@)]
    /\ UNCHANGED <<disk, told, devSpent>>

\* docker volume rm: what is not there, or in use, is an error.
RemoveDockerVolume ==
    /\ ~Bound(Chosen)
    /\ IF Chosen \in disk \ Mounted(containers)
       THEN /\ RemoveVolumes({Chosen})
            /\ command' = [command EXCEPT !.left = Tail(@)]
            /\ UNCHANGED told
       ELSE End("TeardownFailed") /\ UNCHANGED <<disk, data>>
    /\ UNCHANGED devSpent

ResetVolume ==
    /\ command.step = "select" /\ command.left # <<>>
    /\ \/ RemoveBindPath \/ RemoveDockerVolume
       \/ FailDocker("TeardownFailed") /\ UNCHANGED <<disk, data>>
    /\ UNCHANGED <<containers, networked, taken>>

FinishReset ==
    /\ \/ command.step = "select" /\ command.left = <<>>
       \/ command.step = "done"
    /\ End("Success")
    /\ UNCHANGED <<docker, taken, devSpent>>

-----------------------------------------------------------------------------
(* The world                                                                 *)

Kill ==
    /\ command # Idle
    /\ SpendDev("kill")
    /\ command' = Idle
    /\ UNCHANGED <<docker, taken, told>>

TakePort ==
    /\ SpendDev("port")
    /\ taken' = ~taken
    /\ UNCHANGED <<docker, command, told>>

DevStep ==
    \/ Refuse \/ Preflight \/ ComposeUp \/ ComposeDown
    \/ ListContainers \/ ForceRemoveContainers \/ ListVolumes \/ ForceRemoveVolumes
    \/ ListNetworks \/ ForceRemoveNetworks \/ ResetVolume \/ FinishReset

DevNext ==
    /\ \/ RunValidate
       \/ \E enable, disable \in SUBSET Keys : RunStart(enable, disable)
       \/ \E wipe \in BOOLEAN : RunStop(wipe)
       \/ \E mode \in Modes \cup {"default"}, vs \in BoundedSeq(Volumes, 2) : RunReset(mode, vs)
       \/ DevStep
       \/ Kill \/ TakePort
    /\ UNCHANGED devScene

DevSpec == DevInit /\ [][DevNext]_devVars

-----------------------------------------------------------------------------
(* Properties                                                                *)

CommandSteps == {"none", "done", "refused", "preflight", "up", "down", "select",
          "list containers", "remove containers", "list volumes", "remove volumes",
          "list networks", "remove networks"}
ExitCodes == {"Success", "ConfigFileNotFound", "ConfigParseFailed", "ConfigValidationFailed",
              "OrchestrationFailed", "TeardownFailed"}

\* Every variable has its type; a container's volumes and network exist.
DevTypeOK ==
    /\ networked \in BOOLEAN /\ taken \in BOOLEAN
    /\ disk \subseteq Volumes /\ data \subseteq Volumes
    /\ command.step \in CommandSteps /\ command.mode \in Modes
    /\ command.profiles \subseteq Keys /\ command.asked \subseteq Volumes
    /\ told.exit \in ExitCodes
    /\ containers # {} =>
          networked /\ containers \subseteq Names(Config.services) /\ Mounted(containers) \subseteq disk

\* A volume's data is lost only to a command that was asked to remove that volume,
\* whatever fails on the way and whenever the tool is killed.
OnlyTheAskedIsLost == [][data \ data' \subseteq command.asked]_devVars

\* A stop or reset that tells success has left no container and no network, and
\* none of the volumes it was asked to remove; a listing that failed is the one
\* thing that may hide some.
SuccessMeansDone ==
    /\ told.name \in {"stop", "reset"}
    /\ told.exit = "Success" /\ ~told.blind
    => /\ containers = {} /\ ~networked
       /\ IF told.wipe THEN disk = {} ELSE told.asked \cap data = {}

\* A command that fails while docker does what it is told has a cause the user can
\* remove: the configuration, a port in use, or a selection of volumes that are not
\* there.  So a stop or a full reset that failed half-way can be repeated.
FailsForACause ==
    told.exit # "Success" /\ ~told.faulty =>
        \/ LoadConfigResult # "Success"
        \/ told.name = "start" /\ Config.checked
        \/ told.name = "reset" /\ told.asked = {}
        \/ /\ told.name = "reset" /\ ~told.wipe
           /\ \E v \in told.asked : ~Bound(v) /\ v \notin disk

\* The exit code is right both ways: success leaves nothing behind that was to go,
\* and failure has a reason the user can find.
ExitIsTrue == SuccessMeansDone /\ FailsForACause
===============================================================================
