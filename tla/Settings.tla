------------------------------- MODULE Settings --------------------------------
(***************************************************************************)
(* The chain-provider settings of the backend: the file they are kept in   *)
(* (services/settings-store.ts), the copy in memory, and the provider and  *)
(* indexer that run on them (index.ts), changed by PUT /settings while     *)
(* other such requests are under way.                                      *)
(*                                                                         *)
(* A request awaits the check of the new provider and then the write of    *)
(* the file; between two awaits other requests run.  Node's writeFile      *)
(* opens (which empties the file), writes, and calls back: three steps,    *)
(* for two writers of one file.  An object built for a request is told     *)
(* from another by a number.                                               *)
(***************************************************************************)
EXTENDS Integers, FiniteSets

CONSTANTS
  Clients,      (* pages and scripts that send settings                      *)
  ProjectIds,   (* Blockfrost project ids, None among them                   *)
  PreprodIds,   (* those that start with "preprod"                           *)
  Tokens,       (* Koios tokens                                              *)
  Defaults,     (* the settings of the environment                           *)
  Patches,      (* what the clients may send                                 *)
  MaxBuilds,    (* bound on requests that come to building a provider        *)
  MaxCrashes,   (* bound on crashes                                          *)
  None

Settings == [provider : {"blockfrost", "koios"}, projectId : ProjectIds, token : Tokens]

(* The constructor of the Blockfrost provider throws for other ids.        *)
buildable(s) == s.provider = "koios" \/ s.projectId \in PreprodIds \cup {None}

(* Without a project id there is no provider.                              *)
keyless(s) == s.provider = "blockfrost" /\ s.projectId = None

(* What a provider and its indexer are known by: a number, and the settings *)
(* they were built from.                                                   *)
Runtimes == [number : Nat, settings : Settings]

(* A patch gives values to some of the fields.                             *)
ASSUME SettingsAssumption ==
  /\ None \in ProjectIds /\ PreprodIds \subseteq ProjectIds \ {None}
  /\ None \notin Runtimes
  /\ Defaults \in Settings /\ buildable(Defaults)
  /\ \A patch \in Patches :
       \E s \in Settings, fields \in SUBSET DOMAIN Defaults : patch = [f \in fields |-> s[f]]
  /\ MaxBuilds \in Nat /\ MaxCrashes \in Nat

VARIABLES
  file,      (* the file: settings, or one of Missing, Emptied, Garbled      *)
  memory,    (* settings.current                                             *)
  runtime,   (* deps.provider and deps.indexer: number and settings, or None *)
  timers,    (* numbers of the indexers whose interval timer runs            *)
  backend,   (* "down", "listening" before the boot has ended, or "up"       *)
  request,   (* the request of each client                                   *)
  builds,    (* how many objects have been built                             *)
  crashes,
  blemish    (* history: what may have come between file, memory, runtime    *)

vars == <<file, memory, runtime, timers, backend, request, builds, crashes, blemish>>

Missing == [unreadable |-> "missing"]
Emptied == [unreadable |-> "empty"]
Garbled == [unreadable |-> "garbled"]

NoRequest == [pc |-> "idle", patch |-> << >>, built |-> None, next |-> None, alone |-> TRUE]

UnderWay == {c \in Clients : request[c].pc # "idle"}

Goes(c, point) == request' = [request EXCEPT ![c].pc = point]

(* { ...settings, ...patch }                                               *)
merge(settings, patch) ==
  [f \in DOMAIN settings |-> IF f \in DOMAIN patch THEN patch[f] ELSE settings[f]]

full(patch) == DOMAIN patch = DOMAIN Defaults

----------------------------------------------------------------------------
(***************************************************************************)
(* Boot and crash.                                                         *)
(***************************************************************************)
(* SettingsStore.load: what cannot be read gives way to the environment.   *)
load(f) == IF f \in {Missing, Emptied, Garbled} THEN Defaults ELSE f

buildRuntime(s, number) == IF keyless(s) THEN None ELSE [number |-> number, settings |-> s]

start(r) == IF r = None THEN {} ELSE {r.number}

(* The store is loaded and the runtime built; if its constructor throws    *)
(* the process ends.                                                       *)
Boot ==
  /\ backend = "down"
  /\ memory' = load(file)
  /\ IF buildable(load(file))
     THEN backend' = "listening" /\ runtime' = buildRuntime(load(file), 0) /\ blemish' = {}
     ELSE UNCHANGED <<backend, runtime, blemish>>
  /\ UNCHANGED <<file, timers, request, builds, crashes>>

(* After app.listen the indexer is started; requests may come before.      *)
Started ==
  /\ backend = "listening"
  /\ backend' = "up"
  /\ timers' = timers \cup start(runtime)
  /\ UNCHANGED <<file, memory, runtime, request, builds, crashes, blemish>>

Crash ==
  /\ backend # "down" /\ crashes < MaxCrashes
  /\ backend' = "down"
  /\ runtime' = None /\ timers' = {}
  /\ request' = [c \in Clients |-> NoRequest]
  /\ crashes' = crashes + 1
  /\ UNCHANGED <<file, memory, builds, blemish>>

----------------------------------------------------------------------------
(***************************************************************************)
(* PUT /settings.                                                          *)
(***************************************************************************)
(* Answered 422 for want of a project id, or 500 as the constructor throws.*)
refused(s) == keyless(s) \/ ~buildable(s)

Refused(c, patch) ==
  /\ backend # "down" /\ request[c].pc = "idle"
  /\ refused(merge(memory, patch))
  /\ UNCHANGED vars

(* applySettings up to the check.  The form sends one request at a time:   *)
(* its button is disabled while saving.                                    *)
Put(c, patch) ==
  LET s == merge(memory, patch) IN
  /\ backend # "down" /\ request[c].pc = "idle" /\ builds < MaxBuilds
  /\ ~refused(s)
  /\ builds' = builds + 1
  /\ request' = [d \in Clients |->
                   IF d = c
                   THEN [ pc |-> "checking", patch |-> patch, next |-> None,
                          built |-> buildRuntime(s, builds + 1), alone |-> UnderWay = {} ]
                   ELSE [request[d] EXCEPT !.alone = (request[d].pc = "idle")]]
  /\ blemish' = IF UnderWay = {} THEN blemish
                ELSE blemish \cup {"overlap"}
                       \cup (IF \A d \in UnderWay : full(request[d].patch) /\ full(patch)
                             THEN {} ELSE {"partial"})
  /\ UNCHANGED <<file, memory, runtime, timers, backend, crashes>>

(* getTip throws: 422.                                                     *)
CheckFails(c) ==
  /\ request[c].pc = "checking"
  /\ request' = [request EXCEPT ![c] = NoRequest]
  /\ UNCHANGED <<file, memory, runtime, timers, backend, builds, crashes, blemish>>

(* Fault: the copy in memory is replaced before the file is written.       *)
Checked_early(c) ==
  LET next == merge(memory, request[c].patch) IN
  /\ request[c].pc = "checking"
  /\ request' = [request EXCEPT ![c].pc = "mkdir", ![c].next = next]
  /\ memory' = next
  /\ UNCHANGED <<file, runtime, timers, backend, builds, crashes, blemish>>

(* The tip has come.  SettingsStore.update merges again, into what is in   *)
(* memory now.                                                             *)
Checked(c) ==
  /\ request[c].pc = "checking"
  /\ request' = [request EXCEPT ![c].pc = "mkdir",
                                ![c].next = merge(memory, request[c].patch)]
  /\ UNCHANGED <<file, memory, runtime, timers, backend, builds, crashes, blemish>>

Open(c) ==
  /\ request[c].pc = "mkdir"
  /\ file' = Emptied
  /\ Goes(c, "writing")
  /\ UNCHANGED <<memory, runtime, timers, backend, builds, crashes, blemish>>

(* Over what another request has written meanwhile, from the first byte: a *)
(* longer text keeps its tail.                                             *)
Write(c) ==
  /\ request[c].pc = "writing"
  /\ file' \in IF file \in {Emptied, request[c].next} THEN {request[c].next}
               ELSE {request[c].next, Garbled}
  /\ Goes(c, "written")
  /\ UNCHANGED <<memory, runtime, timers, backend, builds, crashes, blemish>>

(* Fault: the error is swallowed.                                          *)
WriteFails_swallowed(c) ==
  /\ request[c].pc \in {"mkdir", "writing"}
  /\ Goes(c, "written")
  /\ UNCHANGED <<file, memory, runtime, timers, backend, builds, crashes, blemish>>

(* mkdir, open or write throws (no permission, no space): 500.             *)
WriteFails(c) ==
  /\ request[c].pc \in {"mkdir", "writing"}
  /\ request' = [request EXCEPT ![c] = NoRequest]
  /\ blemish' = IF request[c].pc = "writing" THEN blemish \cup {"cut"} ELSE blemish
  /\ UNCHANGED <<file, memory, runtime, timers, backend, builds, crashes>>

(* The write calls back: all that follows is one run of the event loop.  A *)
(* request that had no other beside it makes file, memory and runtime      *)
(* agree again.                                                            *)
swap(c, current, running) ==
  /\ request[c].pc = "written"
  /\ memory' = current
  /\ runtime' = request[c].built
  /\ timers' = running
  /\ request' = [request EXCEPT ![c] = NoRequest]
  /\ blemish' = IF request[c].alone THEN {} ELSE blemish
  /\ UNCHANGED <<file, backend, builds, crashes>>

(* Fault: the old indexer is not stopped.                                  *)
Applied_unstopped(c) == swap(c, request[c].next, timers \cup start(request[c].built))

(* The copy in memory is replaced, the old indexer stopped, and the new    *)
(* runtime put in its place and started.                                   *)
Applied(c) ==
  swap(c, request[c].next, (timers \ start(runtime)) \cup start(request[c].built))

----------------------------------------------------------------------------
Init ==
  /\ file = Missing
  /\ memory = Defaults
  /\ runtime = None /\ timers = {}
  /\ backend = "down"
  /\ request = [c \in Clients |-> NoRequest]
  /\ builds = 0 /\ crashes = 0
  /\ blemish = {}

Next ==
  \/ Boot \/ Started \/ Crash
  \/ \E c \in Clients :
       \/ \E patch \in Patches : Put(c, patch) \/ Refused(c, patch)
       \/ CheckFails(c) \/ Checked(c) \/ Open(c) \/ Write(c) \/ WriteFails(c) \/ Applied(c)

Spec == Init /\ [][Next]_vars
----------------------------------------------------------------------------
(***************************************************************************)
(* Properties.                                                             *)
(***************************************************************************)

(* At most one indexer polls the chain, and it is the one that the routes  *)
(* use, whatever requests overlap, also with the boot.                     *)
OnePoller ==
  /\ timers \subseteq start(runtime)
  /\ backend = "up" => timers = start(runtime)

(* GET /settings tells what the backend runs on: the settings in memory    *)
(* are those the provider was built from, unless requests that name only   *)
(* some of the fields have overlapped.                                     *)
RunningIsShown ==
  (backend # "down" /\ "partial" \notin blemish) =>
    IF runtime = None THEN keyless(memory)
    ELSE ~keyless(memory) /\ runtime.settings = memory

(* "So it survives restarts": between requests, a restart would load the   *)
(* settings in memory, unless writes have overlapped or one was cut short. *)
Persisted ==
  (backend # "down" /\ UnderWay = {} /\ blemish = {}) => load(file) = memory

(* The backend can be booted from its file, whenever it crashes, unless    *)
(* requests that name only some of the fields have overlapped.             *)
Bootable == "partial" \notin blemish => buildable(load(file))

(* Both: settings that were accepted survive restarts, and restarts them.  *)
SurvivesRestarts == Persisted /\ Bootable
=============================================================================
