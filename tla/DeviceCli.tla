------------------------------ MODULE DeviceCli ------------------------------
(***************************************************************************)
(* The virtual device as its users see and set it:                         *)
(*   HandleDevice, HandleStatus     vgpu/server/api.go                     *)
(*   deviceCreate, deviceStatusCmd, deviceRemoveCmd, workerSetCmd          *)
(*       the commands, in cmd/distribox/main.go and again in               *)
(*       cmd/cli/main.go: each is a process that sends one or two requests *)
(*   the calibration loop           cmd/distribox/main.go, vgpu/main.go    *)
(* Memory is counted in units of 256 MB.                                   *)
(***************************************************************************)
EXTENDS Calibration, FiniteSets, FiniteSetsExt

CONSTANTS
    Commands,      (* commands that may be under way at one time           *)
    Nodes,         (* workers that may be active                           *)
    InfoOf,        (* what a worker reports: see Calibration               *)
    Ranking,       (* the workers, by descending score                     *)
    Wishes,        (* sizes users ask for                                  *)
    MaxCommands,   (* bound on the commands                                *)
    MaxMoves       (* bound on workers coming and going                    *)

VARIABLES
    active,    (* workers GetActiveWorkers returns                         *)
    reported,  (* those of them whose capability report has come           *)
    moves,     (* changes of it so far                                     *)
    spec,      (* VRAMManager.Spec                                         *)
    command,   (* command[p]: what process p is doing                      *)
    issued,    (* commands so far                                          *)
    up         (* the core answers requests                                *)

workersVars == <<active, reported, moves>>
deviceVars == <<workersVars, spec, command, issued, up>>

DefaultName == "DistriBox Virtual GPU"
Spec0 == [Name |-> DefaultName, VRAMTotal |-> 32, ComputeUnits |-> 2048]
Idle == [at |-> "idle", size |-> 0]

DeviceInit ==
    /\ active = {} /\ reported = {}
    /\ moves = 0
    /\ spec = Spec0
    /\ command = [p \in Commands |-> Idle]
    /\ issued = 0
    /\ up \in BOOLEAN

(* A worker registers, or is gone or lost.                                 *)
Move(n) ==
    /\ moves < MaxMoves
    /\ moves' = moves + 1
    /\ active' = IF n \in active THEN active \ {n} ELSE active \cup {n}
    /\ reported' = reported \ {n}
    /\ UNCHANGED <<spec, command, issued, up>>

(* Until its report has come a worker has no score, no memory and no GPU.  *)
Report(n) ==
    /\ n \in active \ reported
    /\ reported' = reported \cup {n}
    /\ UNCHANGED <<active, moves, spec, command, issued, up>>

Registered == [ram |-> 0, gpu |-> FALSE, fast |-> FALSE]
Info(n) == IF n \in reported THEN InfoOf[n] ELSE Registered

(* Those without a score come last.                                        *)
GetActiveWorkers(known, new) ==
    [k \in 1 .. Cardinality(known) |-> InfoOf[SelectSeq(Ranking, LAMBDA n : n \in known)[k]]]
    \o [k \in 1 .. Cardinality(new) |-> Registered]
----------------------------------------------------------------------------
(* json.Decode into VirtualDeviceSpec, which has no tags: a key is taken   *)
(* for the field of that name, in any case of letters.  The commands send  *)
(* "name", "vram_total" and "compute_units"; a client of its own may send  *)
(* the names of the fields.                                                *)
Field(body, key, none) == IF key \in DOMAIN body THEN body[key] ELSE none
Decode(body) == [Name |-> Field(body, "name", ""),
                 VRAMTotal |-> Field(body, "vramtotal", 0),
                 ComputeUnits |-> Field(body, "computeunits", 0)]

HandleDevice(body) == spec' = Decode(body)

(* deviceCreate --auto asks for the workers and then sets 80 % of their    *)
(* memory, which is no longer what they have if some come or go meanwhile. *)
AutoSize == IF active = {} THEN 32
            ELSE Max({4, (MapThenSumSet(LAMBDA n : Info(n).ram, active) * 4) \div 5})

Issue(p, new) ==
    /\ command[p] = Idle /\ issued < MaxCommands
    /\ command' = [command EXCEPT ![p] = new]
    /\ issued' = issued + 1
    /\ UNCHANGED <<workersVars, spec, up>>

deviceCreate(p, size) == Issue(p, [at |-> "post", size |-> size])
deviceCreateAuto(p) == up /\ Issue(p, [at |-> "post", size |-> AutoSize])

Ends(p) == command' = [command EXCEPT ![p] = Idle]
Post(p) ==
    /\ command[p].at = "post" /\ up
    /\ HandleDevice([name |-> "My GPU", vram_total |-> command[p].size, compute_units |-> 64])
    /\ Ends(p)
    /\ UNCHANGED <<workersVars, issued, up>>

(* A client that sends the names of the fields.                            *)
PostFields(size) ==
    /\ issued < MaxCommands /\ up
    /\ HandleDevice([name |-> "My GPU", vramtotal |-> size, computeunits |-> 64])
    /\ issued' = issued + 1
    /\ UNCHANGED <<workersVars, command, up>>

(* The core is not there: the command says so and ends.                    *)
PostFails(p) ==
    /\ command[p].at = "post" /\ ~up
    /\ Ends(p)
    /\ UNCHANGED <<workersVars, spec, issued, up>>

(* "device status" and "status" print what HandleStatus answers, or that   *)
(* there is no core.                                                       *)
deviceStatus(p) == Issue(p, [at |-> "get", size |-> 0])
Shown(p) ==
    /\ command[p].at = "get"
    /\ Ends(p)
    /\ UNCHANGED <<workersVars, spec, issued, up>>

(* "device remove" sends DELETE, which HandleDevice refuses; "worker set"  *)
(* posts to a path nothing serves.  Both print that it is done.            *)
NoEffect(p) == Issue(p, [at |-> "refused", size |-> 0])
Refused(p) ==
    /\ command[p].at = "refused"
    /\ Ends(p)
    /\ UNCHANGED <<workersVars, spec, issued, up>>
----------------------------------------------------------------------------
(* What the device may be set to for the workers known and those without   *)
(* a report.                                                               *)
Recalibrate == [known \in SUBSET Nodes, new \in SUBSET Nodes |->
    {[Name |-> card.name, VRAMTotal |-> card.vram, ComputeUnits |-> card.units] :
        card \in UNION {findBestMatch(p) : p \in {aggregate(GetActiveWorkers(known, new))}}}]
Profiles == Recalibrate[reported, active \ reported]

(* The calibration loop, every 5 s; the profile of no workers is not used. *)
SlipCalibrate ==   (* only when the profile is no longer that of the device's name *)
    /\ up /\ active # {} /\ spec.Name = DefaultName
    /\ spec' \in Profiles
    /\ UNCHANGED <<workersVars, command, issued, up>>
Calibrate ==
    /\ up /\ active # {}
    /\ spec' \in Profiles
    /\ UNCHANGED <<workersVars, command, issued, up>>

(* The core stops, for good as far as its device goes.                     *)
Stop ==
    /\ up
    /\ up' = FALSE
    /\ UNCHANGED <<workersVars, spec, command, issued>>
----------------------------------------------------------------------------
DeviceNext ==
    \/ \E n \in Nodes : Move(n) \/ Report(n)
    \/ \E p \in Commands : \/ \E size \in Wishes : deviceCreate(p, size)
                           \/ deviceCreateAuto(p)
                           \/ Post(p) \/ PostFails(p)
                           \/ deviceStatus(p) \/ Shown(p)
                           \/ NoEffect(p) \/ Refused(p)
    \/ \E size \in Wishes : PostFields(size)
    \/ Calibrate
    \/ Stop

DeviceFairness ==
    /\ WF_deviceVars(Calibrate)
    /\ \A p \in Commands : /\ WF_deviceVars(Post(p)) /\ WF_deviceVars(PostFails(p))
                          /\ WF_deviceVars(Shown(p)) /\ WF_deviceVars(Refused(p))
----------------------------------------------------------------------------
(* A command leaves a device with no memory at all (its keys are not those *)
(* the core reads), and one may end long after the workers it looked at    *)
(* have gone.  With a worker that stays, the device is in the end what     *)
(* that worker and its fellows give, whatever was sent in between.         *)
DeviceRecovers == <>[](up /\ active # {}) => <>[](spec \in Profiles)
=============================================================================
