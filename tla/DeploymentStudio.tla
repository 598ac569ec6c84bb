--------------------------- MODULE DeploymentStudio ---------------------------
(***************************************************************************)
(* services/deployment-studio, the handlers of api.ts that decide what may *)
(* be broadcast for one project, and runtime.ts, which serves what was     *)
(* verified. Doctor, dry run, deployment, verification and onboarding are  *)
(* child processes of the CLI: they read the project's files at some time  *)
(* while the handler awaits them, and edits and further requests come in   *)
(* between. What doctor and dry run said is held in memory, in objects     *)
(* that a handler keeps a reference to over its await; the activation and  *)
(* the deployment binding are files. Requests that change files or the     *)
(* activation wait for their bodies too. The three services of the runtime *)
(* are started and killed together, and whoever starts first has the       *)
(* ports; who stops them waits until they have ended.                      *)
(*                                                                         *)
(* A fingerprint stands for the contents it hashes; an edit may bring      *)
(* contents back that were there before.                                   *)
(***************************************************************************)
EXTENDS Naturals, Sequences, FiniteSets

CONSTANTS
    Contents,     \* of the project's files
    StudioJobs,   \* requests that may be in flight together
    Rpcs,         \* what parseRpc and isAllowedRpc let pass
    NoFiles,      \* an absent fingerprint, reference or RPC
    MaxEdits,     \* bound of the edits
    MaxCommands,  \* bound of the commands
    MaxLaunches   \* bound of the services started

ASSUME StudioAssumption ==
    /\ MaxEdits \in Nat /\ MaxCommands \in Nat /\ MaxLaunches \in Nat
    /\ Contents # {}
    /\ NoFiles \notin {"doctor", "plan", "deploy", "verify", "onboard"}
    /\ NoFiles \notin {"ports", "spawn", "health"}
    /\ NoFiles \notin {"save", "confirm", "withdraw", "stop", "failing"} \cup Contents
    /\ NoFiles \notin [files: Contents, rpcUrl: Rpcs] \cup [files: Contents, artifact: Nat]

VARIABLES
    projectFiles, \* contents of config, integration and scenario
    artifact,     \* how often the deployment artifact was written
    activation,   \* verificationHash of activation.json
    deployment,   \* deployment.json
    objects,      \* the ProjectEvidence objects, oldest first
    evidence,     \* index of the one the map holds
    job,          \* the command each request awaits, and what its handler keeps
    runtimeState, \* current.state of the runtime manager
    ofProject,    \* whether current.project is set
    children,     \* the launch whose processes the manager holds; 0: none
    listening,    \* the launch that has the ports, and what it read
    edits, commands, launches,
    dryRuns,      \* observation: contents and RPC of the dry runs that passed
    overtaken,    \* observation: those that plans name whose run an edit overtook
    broadcasts,   \* observation: contents and RPC of the deployments accepted
    verified,     \* observation: what a verification that passed has read
    misnamed,     \* observation: what activation.json named that changed meanwhile
    served        \* observation: what was running, and whether it was overtaken

manager == <<runtimeState, ofProject, children, listening, launches, served>>
studioVars == <<projectFiles, artifact, activation, deployment, objects, evidence,
                job, edits, commands, dryRuns, overtaken, broadcasts, verified, misnamed,
                manager>>
persisted == <<projectFiles, artifact, activation, deployment>>
inMemory == <<objects, evidence>>
confirmed == <<verified, misnamed>>
observed == <<dryRuns, overtaken, broadcasts, confirmed>>

NoJob == [action |-> NoFiles, read |-> NoFiles, fingerprint |-> NoFiles,
          object |-> 0, rpcUrl |-> NoFiles, edits |-> 0, overtaken |-> FALSE,
          stops |-> 0]
NoListener == [launch |-> 0, serves |-> NoFiles, overtaken |-> FALSE]
NothingChecked == [doctor |-> NoFiles, plan |-> NoFiles]

StudioInit ==
    /\ projectFiles = (CHOOSE c \in Contents : TRUE) /\ artifact = 0
    /\ activation = NoFiles /\ deployment = NoFiles
    /\ objects = <<>> /\ evidence = 0
    /\ job = [j \in StudioJobs |-> NoJob] /\ edits = 0 /\ commands = 0
    /\ runtimeState = "stopped" /\ ofProject = FALSE /\ children = 0
    /\ listening = NoListener /\ launches = 0
    /\ dryRuns = {} /\ overtaken = {} /\ broadcasts = {} /\ verified = {} /\ misnamed = {}
    /\ served = {}

Present == [files |-> projectFiles, artifact |-> artifact]

-----------------------------------------------------------------------------
(* runner.run, once the guards have passed.                                  *)
Run(j, command) ==
    /\ job[j] = NoJob /\ commands < MaxCommands
    /\ job' = [job EXCEPT ![j] = command]
    /\ commands' = commands + 1
    /\ UNCHANGED edits

Running(j, action) == job[j].action = action /\ job[j].stops = 0
Done(j) == job' = [job EXCEPT ![j] = NoJob]

(* The child process reads the files.                                        *)
Children == {"doctor", "plan", "deploy", "verify", "onboard"}
ReadFiles(j) ==
    /\ job[j].action \in Children /\ job[j].stops = 0 /\ job[j].read = NoFiles
    /\ job' = [job EXCEPT ![j].read = Present]
    /\ UNCHANGED <<persisted, inMemory, manager, edits, commands, observed>>

(* A command that exits with an error, whose answer is not ready or whose    *)
(* body is not valid: nothing is kept. Doctor has an outcome of its own.     *)
CommandFails(j) ==
    /\ job[j].action \in Children \cup {"save", "confirm", "withdraw"} /\ job[j].stops = 0
    /\ Done(j)
    /\ UNCHANGED <<persisted, inMemory, manager, edits, commands, observed>>

(* stop: the processes the manager holds are told to end. The request goes   *)
(* on when they have, of which there may be none, and only then is current   *)
(* reset, whatever was started meanwhile; others may have come and gone.     *)
StopFor(j, request) ==
    /\ children' = 0
    /\ job' = [job EXCEPT ![j] = [request EXCEPT !.stops = children]]
    /\ IF children = 0 THEN runtimeState' = "stopped" /\ ofProject' = FALSE
       ELSE UNCHANGED <<runtimeState, ofProject>>
    /\ UNCHANGED <<listening, launches, served>>

stopProjectRuntime(j, request) ==
    IF ofProject /\ runtimeState # "stopped" THEN StopFor(j, request)
    ELSE /\ job' = [job EXCEPT ![j] = request]
         /\ UNCHANGED manager

(* waitForExit: what has not ended after two seconds is killed.              *)
Ended(launch) == IF launch # 0 /\ listening.launch = launch THEN NoListener ELSE listening
Exited(j) ==
    LET after == IF job[j].action \in {"stop", "failing"} THEN NoJob
                 ELSE [job[j] EXCEPT !.stops = 0]
    IN
    /\ job[j].stops # 0
    /\ listening' = Ended(job[j].stops)
    /\ runtimeState' = IF job[j].action = "failing" THEN "failed" ELSE "stopped"
    /\ ofProject' = (job[j].action = "failing" /\ ofProject)
    /\ job' = [job EXCEPT ![j] = after]
    /\ UNCHANGED <<persisted, inMemory, children, launches, served, edits, commands, observed>>

(* What is about to be served is not what was checked any more.              *)
OvertakeLaunches ==
    [i \in StudioJobs |->
        IF job[i].action \in {"ports", "spawn"} THEN [job[i] EXCEPT !.overtaken = TRUE]
        ELSE job[i]]

(* PUT config, integration and scenario: the runtime is stopped before the   *)
(* body is there.                                                            *)
StartSave(j) ==
    /\ job[j] = NoJob
    /\ stopProjectRuntime(j, [NoJob EXCEPT !.action = "save"])
    /\ UNCHANGED <<persisted, inMemory, edits, commands, observed>>

SaveFiles(j, contents) ==
    /\ Running(j, "save")
    /\ edits < MaxEdits /\ edits' = edits + 1
    /\ projectFiles' = contents
    /\ activation' = NoFiles /\ evidence' = 0
    /\ job' = [OvertakeLaunches EXCEPT ![j] = NoJob]
    /\ UNCHANGED <<artifact, deployment, objects, commands, observed, manager>>

StartDoctor(j) ==
    /\ Run(j, [NoJob EXCEPT !.action = "doctor"])
    /\ UNCHANGED <<persisted, inMemory, manager, observed>>

(* "current" is looked up when doctor has ended, and so is the fingerprint.  *)
EndDoctor(j) ==
    LET current == IF evidence = 0 THEN Len(objects) + 1 ELSE evidence
        before == IF evidence = 0 THEN Append(objects, NothingChecked) ELSE objects
    IN
    /\ Running(j, "doctor") /\ job[j].read # NoFiles
    /\ evidence' = current
    /\ \/ objects' = [before EXCEPT ![current].doctor = projectFiles]
       \/ objects' = [before EXCEPT ![current] = NothingChecked]
    /\ Done(j)
    /\ UNCHANGED <<persisted, manager, edits, commands, observed>>

StartPlan(j, rpcUrl) ==
    /\ evidence # 0 /\ objects[evidence].doctor = projectFiles
    /\ Run(j, [NoJob EXCEPT !.action = "plan", !.fingerprint = projectFiles,
                            !.object = evidence, !.rpcUrl = rpcUrl, !.edits = edits])
    /\ UNCHANGED <<persisted, inMemory, manager, observed>>

(* The object that was current at the start is put back into the map.        *)
EndPlan(j) ==
    LET plan == [files |-> job[j].fingerprint, rpcUrl |-> job[j].rpcUrl] IN
    /\ Running(j, "plan") /\ job[j].read # NoFiles
    /\ objects' = [objects EXCEPT ![job[j].object].plan = plan]
    /\ evidence' = job[j].object
    /\ dryRuns' = dryRuns \cup {[plan EXCEPT !.files = job[j].read.files]}
    /\ overtaken' = overtaken \cup IF edits # job[j].edits THEN {plan} ELSE {}
    /\ Done(j)
    /\ UNCHANGED <<persisted, manager, edits, commands, broadcasts, confirmed>>

(* Mutation: a plan for any RPC will do. *)
PlannedSomewhere(rpcUrl) ==
    \E other \in Rpcs : objects[evidence].plan = [files |-> projectFiles, rpcUrl |-> other]
Planned(rpcUrl) == objects[evidence].plan = [files |-> projectFiles, rpcUrl |-> rpcUrl]

StartDeploy(j, rpcUrl) ==
    /\ evidence # 0
    /\ objects[evidence].doctor = projectFiles
    /\ Planned(rpcUrl)
    /\ job[j] = NoJob /\ commands < MaxCommands
    /\ commands' = commands + 1
    /\ stopProjectRuntime(j, [NoJob EXCEPT !.action = "deploy", !.rpcUrl = rpcUrl])
    /\ broadcasts' = broadcasts \cup {[files |-> projectFiles, rpcUrl |-> rpcUrl]}
    /\ UNCHANGED <<persisted, inMemory, edits, dryRuns, overtaken, confirmed>>

(* The CLI writes the artifact, recordDeployment the binding.                *)
EndDeploy(j) ==
    /\ Running(j, "deploy") /\ job[j].read # NoFiles
    /\ artifact' = artifact + 1
    /\ deployment' = [files |-> projectFiles, rpcUrl |-> job[j].rpcUrl, demo |-> FALSE]
    /\ job' = [[i \in StudioJobs |->
                  IF job[i].action = "onboard" THEN [job[i] EXCEPT !.overtaken = TRUE]
                  ELSE OvertakeLaunches[i]] EXCEPT ![j] = NoJob]
    /\ UNCHANGED <<projectFiles, activation, inMemory, manager, edits, commands, observed>>

StartVerify(j) ==
    /\ artifact > 0
    /\ Run(j, [NoJob EXCEPT !.action = "verify"])
    /\ UNCHANGED <<persisted, inMemory, manager, observed>>

(* The fingerprint that activation.json gets is taken when verify has ended. *)
Confirm(j) ==
    /\ activation' = Present
    /\ misnamed' = misnamed \cup IF job[j].read = Present THEN {} ELSE {Present}

EndVerify(j) ==
    /\ Running(j, "verify") /\ job[j].read # NoFiles
    /\ Confirm(j)
    /\ verified' = verified \cup {job[j].read}
    /\ Done(j)
    /\ UNCHANGED <<projectFiles, artifact, deployment, inMemory, manager, edits, commands,
                   dryRuns, overtaken, broadcasts>>

Verified == activation = Present

(* PUT activation: whether it was verified is asked before the body is there.*)
StartActivation(j) ==
    /\ job[j] = NoJob
    /\ job' = [job EXCEPT ![j] =
          [NoJob EXCEPT !.action = IF Verified THEN "confirm" ELSE "withdraw",
                        !.read = Present]]
    /\ UNCHANGED <<persisted, inMemory, manager, edits, commands, observed>>

SaveActivation(j) ==
    /\ \/ Running(j, "confirm") /\ Confirm(j)
       \/ Running(j, "withdraw") /\ activation' = NoFiles /\ UNCHANGED misnamed
    /\ Done(j)
    /\ UNCHANGED <<projectFiles, artifact, deployment, inMemory, manager, edits, commands,
                   dryRuns, overtaken, broadcasts, verified>>

(* The server starts again: the files stay, the evidence is gone, and        *)
(* services it had started are ended by "close", or stay with a crash.       *)
StudioRestart ==
    /\ objects # <<>> \/ children # 0
    /\ objects' = <<>> /\ evidence' = 0
    /\ job' = [j \in StudioJobs |-> NoJob]
    /\ runtimeState' = "stopped" /\ ofProject' = FALSE /\ children' = 0
    /\ listening' \in {Ended(children), listening}
    /\ UNCHANGED <<persisted, launches, served, edits, commands, observed>>

-----------------------------------------------------------------------------
(* The runtime manager. "running" whose processes ended reads "failed"; of   *)
(* no processes it stays "running".                                          *)
runtimeStatus ==
    IF runtimeState = "running" /\ children # 0 /\ listening.launch # children
    THEN "failed" ELSE runtimeState

(* deploymentBinding.                                                        *)
Bound == deployment # NoFiles /\ deployment.files = projectFiles

(* Mutation: the binding is not read again. *)
BoundBefore == deployment # NoFiles
StillBound == Bound

(* start, up to its first await: what runs already is the answer, or, when   *)
(* its project was forgotten, an error.                                      *)
Launch(j) ==
    IF runtimeStatus = "running"
    THEN /\ job' = [job EXCEPT ![j] = NoJob]
         /\ UNCHANGED manager
    ELSE StopFor(j, [NoJob EXCEPT !.action = "ports", !.overtaken = job[j].overtaken])

(* POST runtime/start. What was not onboarded yet is onboarded first.        *)
StartRuntime(j) ==
    /\ job[j] = NoJob
    /\ Verified /\ Bound
    /\ IF deployment.demo
       THEN Launch(j) /\ UNCHANGED <<edits, commands>>
       ELSE Run(j, [NoJob EXCEPT !.action = "onboard"]) /\ UNCHANGED manager
    /\ UNCHANGED <<persisted, inMemory, observed>>

(* markDemoActivated, of whatever deployment.json holds by then.             *)
EndOnboard(j) ==
    /\ Running(j, "onboard") /\ job[j].read # NoFiles
    /\ StillBound
    /\ deployment' = [deployment EXCEPT !.demo = TRUE]
    /\ Launch(j)
    /\ UNCHANGED <<projectFiles, artifact, activation, inMemory, edits, commands, observed>>

(* assertPortAvailable.                                                      *)
PortsFree(j) ==
    /\ Running(j, "ports") /\ listening = NoListener
    /\ job' = [job EXCEPT ![j].action = "spawn"]
    /\ UNCHANGED <<persisted, inMemory, manager, edits, commands, observed>>

(* The services read their files; of two launches the first has the ports.   *)
Spawn(j) ==
    /\ Running(j, "spawn") /\ launches < MaxLaunches
    /\ launches' = launches + 1
    /\ children' = launches + 1 /\ runtimeState' = "starting" /\ ofProject' = TRUE
    /\ listening' = IF listening = NoListener
                    THEN [launch |-> launches + 1, overtaken |-> job[j].overtaken,
                          serves |-> Present]
                    ELSE listening
    /\ job' = [job EXCEPT ![j].action = "health"]
    /\ UNCHANGED <<persisted, inMemory, served, edits, commands, observed>>

(* Whoever has the ports answers; its router is that of the artifact.        *)
Healthy(j) ==
    /\ Running(j, "health") /\ listening # NoListener
    /\ listening.serves.artifact = artifact
    /\ runtimeState' = "running"
    /\ served' = served \cup
           IF ofProject THEN {[serves |-> listening.serves, overtaken |-> listening.overtaken]}
           ELSE {}
    /\ Done(j)
    /\ UNCHANGED <<persisted, inMemory, ofProject, children, listening, launches, edits,
                   commands, observed>>

(* A port is taken.                                                          *)
PortTaken(j) ==
    /\ Running(j, "ports") \/ Running(j, "spawn")
    /\ Done(j)
    /\ UNCHANGED <<persisted, inMemory, manager, edits, commands, observed>>

(* The services do not answer, or for another router.                        *)
LaunchFails(j) ==
    /\ Running(j, "health")
    /\ children' = 0
    /\ job' = [job EXCEPT ![j] = IF children = 0 THEN NoJob
                                 ELSE [NoJob EXCEPT !.action = "failing", !.stops = children]]
    /\ runtimeState' = IF children = 0 THEN "failed" ELSE runtimeState
    /\ UNCHANGED <<ofProject, listening, launches, served>>
    /\ UNCHANGED <<persisted, inMemory, edits, commands, observed>>

(* POST runtime/stop; GET handoff stops what is not verified any more.       *)
Stop(j) ==
    /\ job[j] = NoJob
    /\ StopFor(j, IF children = 0 THEN NoJob ELSE [NoJob EXCEPT !.action = "stop"])
    /\ UNCHANGED <<persisted, inMemory, edits, commands, observed>>
StopRequested(j) ==
    /\ runtimeState # "stopped" \/ children # 0
    /\ Stop(j)
Handoff(j) ==
    /\ ~Verified /\ ofProject /\ runtimeState # "stopped"
    /\ Stop(j)

(* A service ends by itself.                                                 *)
ServiceExits ==
    /\ listening # NoListener /\ listening' = NoListener
    /\ UNCHANGED <<persisted, inMemory, job, runtimeState, ofProject, children, launches,
                   served, edits, commands, observed>>

StudioStep(j) ==
    \/ ReadFiles(j) \/ CommandFails(j)
    \/ StartDoctor(j) \/ EndDoctor(j) \/ EndPlan(j)
    \/ StartVerify(j) \/ EndVerify(j) \/ EndDeploy(j)
    \/ \E rpcUrl \in Rpcs : StartPlan(j, rpcUrl) \/ StartDeploy(j, rpcUrl)
    \/ StartRuntime(j) \/ EndOnboard(j)
    \/ PortsFree(j) \/ Spawn(j) \/ Healthy(j) \/ PortTaken(j) \/ LaunchFails(j)
    \/ StartSave(j) \/ \E contents \in Contents : SaveFiles(j, contents)
    \/ StartActivation(j) \/ SaveActivation(j)
    \/ StopRequested(j) \/ Handoff(j) \/ Exited(j)

StudioNext ==
    \/ StudioRestart \/ ServiceExits
    \/ \E j \in StudioJobs : StudioStep(j)

StudioSpec == StudioInit /\ [][StudioNext]_studioVars

-----------------------------------------------------------------------------
(* A deployment is accepted only for files and an RPC that a dry run passed   *)
(* on, although edits, doctors and other dry runs come while it runs and the  *)
(* evidence they delete is put back when it ends. The fingerprint of a plan   *)
(* is that of its start, so a dry run that an edit overtook is left out: its  *)
(* plan names files it did not read, and is good again once they are restored. *)
PlannedIsDeployed == broadcasts \subseteq dryRuns \cup overtaken

(* What the handoff calls running serves files and an artifact that one       *)
(* verification read together, although onboarding takes long and starts,     *)
(* stops, edits and deployments come in any order: unless an edit came        *)
(* between the last look at the binding and the start of the services, a      *)
(* deployment since the look at the activation, or either of them while       *)
(* verify ran or the body of an activation was awaited.                       *)
RunningIsVerified == \A s \in served : s.overtaken \/ s.serves \in verified \cup misnamed

(* The handoff is enabled only for files and an artifact that a verification  *)
(* has read: edits take an earlier verification back.                         *)
HandoffIsVerified == Verified => Present \in verified
=============================================================================
