---------------------------- MODULE Settings_proofs ----------------------------
(***************************************************************************)
(* The settings of the backend survive: one poller, the settings shown are *)
(* those it runs on, and the file can always be booted from.               *)
(*                                                                         *)
(* The argument is about the requests that are under way.  One that has    *)
(* had no other beside it knows what the file and the copy in memory hold; *)
(* of several, each sends all the fields, or "partial" is on record, so    *)
(* that what it writes does not depend on what the others have written.    *)
(***************************************************************************)
EXTENDS Settings, TLAPS

Unreadable == {Missing, Emptied, Garbled}

Points == {"idle", "checking", "mkdir", "writing", "written"}

(* A request that is past its check has merged its patch.                  *)
Merged(c) == request[c].pc \in {"mkdir", "writing", "written"}

Requests ==
  [ pc : Points, patch : Patches \cup {<< >>}, built : Runtimes \cup {None},
    next : Settings \cup {None}, alone : BOOLEAN ]

TypeOK ==
  /\ file \in Settings \cup Unreadable
  /\ memory \in Settings
  /\ backend \in {"down", "listening", "up"}
  /\ request \in [Clients -> Requests]
  /\ builds \in Nat
  /\ \A c \in UnderWay : request[c].patch \in Patches
  /\ \A c \in UnderWay : Merged(c) => request[c].next \in Settings

----------------------------------------------------------------------------
(***************************************************************************)
(* The inductive invariant.                                                *)
(***************************************************************************)

(* What a request is about to put in place of the settings in memory.      *)
Target(c) == IF Merged(c) THEN request[c].next ELSE merge(memory, request[c].patch)

(* Nothing runs and nobody is served while the backend is down.            *)
DownIsStill ==
  backend = "down" => UnderWay = {} /\ runtime = None /\ timers = {}

(* The history is kept: a request knows whether it had company, company is *)
(* on record, and so is company of a request that names some fields only.  *)
CompanyOnRecord ==
  /\ \A c \in UnderWay : request[c].alone => UnderWay = {c}
  /\ \A c \in UnderWay : ~request[c].alone => "overlap" \in blemish
  /\ \A c, d \in UnderWay :
       (c # d /\ "partial" \notin blemish) => full(request[c].patch)

(* The provider that a request has built is built from the settings that   *)
(* it is about to put in place, and those were accepted.                   *)
BuiltFromTarget ==
  \A c \in UnderWay :
    (request[c].alone \/ "partial" \notin blemish) =>
      /\ Target(c) \in Settings
      /\ ~refused(Target(c))
      /\ \E n \in Nat : request[c].built = [number |-> n, settings |-> Target(c)]

(* A request without company knows what is in the file.                    *)
FileOfTheOnly ==
  \A c \in UnderWay : request[c].alone =>
    /\ request[c].pc = "writing" => file = Emptied
    /\ request[c].pc = "written" => file = request[c].next

(* As long as nothing has come between them, file and memory agree until a *)
(* request opens the file.                                                 *)
FileIsMemory ==
  ( /\ backend # "down" /\ blemish = {}
    /\ \A c \in Clients : request[c].pc \in {"idle", "checking", "mkdir"} )
  => load(file) = memory

IInv ==
  /\ TypeOK /\ DownIsStill /\ OnePoller
  /\ CompanyOnRecord /\ BuiltFromTarget /\ RunningIsShown
  /\ FileOfTheOnly /\ FileIsMemory /\ Bootable

----------------------------------------------------------------------------
(***************************************************************************)
(* Settings, patches and files.                                            *)
(***************************************************************************)
LEMMA SettingsFields ==
  ASSUME NEW s \in Settings
  PROVE  /\ DOMAIN s = {"provider", "projectId", "token"}
         /\ s.provider \in {"blockfrost", "koios"} /\ s.projectId \in ProjectIds /\ s.token \in Tokens
BY DEF Settings

LEMMA MergeIsSettings ==
  ASSUME NEW s \in Settings, NEW patch \in Patches
  PROVE  merge(s, patch) \in Settings
<1> DEFINE m == merge(s, patch)
           r == [provider |-> m.provider, projectId |-> m.projectId, token |-> m.token]
<1>1. PICK q \in Settings, fields \in SUBSET DOMAIN Defaults : patch = [f \in fields |-> q[f]]
  BY SettingsAssumption
<1>2. DOMAIN m = {"provider", "projectId", "token"}
  BY SettingsFields DEF merge
<1>3. \A f \in DOMAIN m : m[f] \in {q[f], s[f]}
  BY <1>1, <1>2, SettingsFields DEF merge
<1>4. /\ m["provider"] \in {"blockfrost", "koios"} /\ m["projectId"] \in ProjectIds
      /\ m["token"] \in Tokens
  BY <1>2, <1>3, SettingsFields
<1>5. m = [f \in DOMAIN m |-> m[f]]
  BY DEF merge
<1> HIDE DEF m
<1>6. r \in Settings
  BY <1>4 DEF Settings
<1>7. m = r
  BY <1>2, <1>5
<1>8. QED
  BY <1>6, <1>7 DEF m

(* What a patch of all fields makes does not depend on what was there.     *)
LEMMA FullMerge ==
  ASSUME NEW s \in Settings, NEW t \in Settings, NEW patch, full(patch)
  PROVE  merge(s, patch) = merge(t, patch)
<1>1. DOMAIN s = DOMAIN patch /\ DOMAIN t = DOMAIN patch
  BY SettingsFields, SettingsAssumption DEF full
<1>2. QED
  BY <1>1 DEF merge

LEMMA Readable ==
  ASSUME NEW s \in Settings
  PROVE  s \notin Unreadable
<1>1. "unreadable" \notin DOMAIN s
  BY SettingsFields
<1>2. "unreadable" \in DOMAIN Missing /\ "unreadable" \in DOMAIN Emptied
      /\ "unreadable" \in DOMAIN Garbled
  BY DEF Missing, Emptied, Garbled
<1>3. QED
  BY <1>1, <1>2 DEF Unreadable

LEMMA LoadIsSettings ==
  ASSUME NEW f \in Settings \cup Unreadable
  PROVE  /\ load(f) \in Settings
         /\ f \in Settings => load(f) = f
         /\ f \in Unreadable => load(f) = Defaults
BY Readable, SettingsAssumption DEF load, Unreadable

LEMMA BuildRuntime ==
  ASSUME NEW s \in Settings, NEW n \in Nat
  PROVE  /\ buildRuntime(s, n) \in Runtimes \cup {None}
         /\ keyless(s) => buildRuntime(s, n) = None
         /\ ~keyless(s) => /\ buildRuntime(s, n) = [number |-> n, settings |-> s]
                           /\ buildRuntime(s, n) # None
<1>1. [number |-> n, settings |-> s] \in Runtimes
  BY DEF Runtimes
<1>2. QED
  BY <1>1, SettingsAssumption DEF buildRuntime

LEMMA TargetWhileChecking ==
  ASSUME TypeOK, NEW c \in UnderWay, request[c].pc = "checking"
  PROVE  Target(c) = merge(memory, request[c].patch) /\ Target(c) \in Settings
<1>1. QED
  BY MergeIsSettings DEF Target, Merged, TypeOK

----------------------------------------------------------------------------
(***************************************************************************)
(* Initial states, boot and crash.                                         *)
(***************************************************************************)
LEMMA InitIInv == Init => IInv
<1> SUFFICES ASSUME Init PROVE IInv
  OBVIOUS
<1>1. NoRequest \in Requests /\ NoRequest.pc = "idle"
  BY DEF NoRequest, Requests, Points
<1>2. UnderWay = {}
  BY <1>1 DEF Init, UnderWay
<1>3. TypeOK
  BY <1>1, <1>2, SettingsAssumption DEF Init, TypeOK, Unreadable
<1>4. DownIsStill /\ OnePoller /\ FileIsMemory /\ RunningIsShown
  BY <1>2 DEF Init, DownIsStill, OnePoller, FileIsMemory, RunningIsShown
<1>5. CompanyOnRecord /\ BuiltFromTarget /\ FileOfTheOnly
  BY <1>2 DEF CompanyOnRecord, BuiltFromTarget, FileOfTheOnly
<1>6. Bootable
  BY SettingsAssumption DEF Init, Bootable, load
<1>7. QED
  BY <1>3, <1>4, <1>5, <1>6 DEF IInv

LEMMA BootKeeps == ASSUME IInv, Boot PROVE IInv'
<1> USE DEF IInv
<1>1. UnderWay = {} /\ UnderWay' = {}
  BY DEF Boot, DownIsStill, UnderWay
<1>2. load(file) \in Settings /\ 0 \in Nat
  BY LoadIsSettings DEF TypeOK
<1>3. TypeOK'
  BY <1>1, <1>2 DEF Boot, TypeOK
<1>4. (CompanyOnRecord /\ BuiltFromTarget /\ FileOfTheOnly)'
  BY <1>1 DEF CompanyOnRecord, BuiltFromTarget, FileOfTheOnly
<1>5. CASE buildable(load(file))
  <2> DEFINE s == load(file)
  <2>1. /\ backend' = "listening" /\ runtime' = buildRuntime(s, 0) /\ blemish' = {}
        /\ memory' = s /\ file' = file /\ timers' = {}
    BY <1>5 DEF Boot, DownIsStill
  <2>2. DownIsStill' /\ OnePoller' /\ FileIsMemory' /\ Bootable'
    BY <1>1, <1>5, <2>1 DEF DownIsStill, OnePoller, FileIsMemory, Bootable, load
  <2>3. RunningIsShown'
    BY <1>2, <2>1, BuildRuntime DEF RunningIsShown, keyless
  <2>4. QED
    BY <1>3, <1>4, <2>2, <2>3
<1>6. CASE ~buildable(load(file))
  <2>1. backend' = "down" /\ UNCHANGED <<file, runtime, timers, blemish>>
    BY <1>6 DEF Boot
  <2>2. DownIsStill' /\ OnePoller' /\ FileIsMemory' /\ RunningIsShown' /\ Bootable'
    BY <1>1, <2>1 DEF Boot, DownIsStill, OnePoller, start, FileIsMemory, RunningIsShown,
                      Bootable, load
  <2>3. QED
    BY <1>3, <1>4, <2>2
<1>7. QED
  BY <1>5, <1>6

LEMMA StartedKeeps == ASSUME IInv, Started PROVE IInv'
<1> USE DEF IInv, Started
<1>1. UnderWay' = UnderWay /\ \A c \in Clients : Target(c)' = Target(c)
  BY DEF UnderWay, Target, Merged, merge
<1>2. TypeOK'
  BY <1>1 DEF TypeOK, Merged
<1>3. DownIsStill' /\ OnePoller' /\ FileIsMemory' /\ RunningIsShown' /\ Bootable'
  BY DEF DownIsStill, OnePoller, start, FileIsMemory, RunningIsShown, keyless, Bootable, load
<1>4. CompanyOnRecord' /\ FileOfTheOnly'
  BY <1>1 DEF CompanyOnRecord, FileOfTheOnly
<1>5. BuiltFromTarget'
  BY <1>1 DEF BuiltFromTarget, UnderWay
<1>6. QED
  BY <1>2, <1>3, <1>4, <1>5

LEMMA CrashKeeps == ASSUME IInv, Crash PROVE IInv'
<1> USE DEF IInv, Crash
<1>1. NoRequest \in Requests /\ NoRequest.pc = "idle"
  BY DEF NoRequest, Requests, Points
<1>2. UnderWay' = {}
  BY <1>1 DEF UnderWay
<1>3. TypeOK'
  BY <1>1, <1>2 DEF TypeOK
<1>4. DownIsStill' /\ OnePoller' /\ FileIsMemory' /\ RunningIsShown' /\ Bootable'
  BY <1>2 DEF DownIsStill, OnePoller, start, FileIsMemory, RunningIsShown, Bootable, load
<1>5. CompanyOnRecord' /\ BuiltFromTarget' /\ FileOfTheOnly'
  BY <1>2 DEF CompanyOnRecord, BuiltFromTarget, FileOfTheOnly
<1>6. QED
  BY <1>3, <1>4, <1>5

----------------------------------------------------------------------------
(***************************************************************************)
(* The steps of a request.                                                 *)
(***************************************************************************)
LEMMA RequestEnds ==
  ASSUME TypeOK, NEW c \in Clients, request' = [request EXCEPT ![c] = NoRequest]
  PROVE  /\ UnderWay' = UnderWay \ {c}
         /\ \A d \in Clients \ {c} : request'[d] = request[d]
         /\ request' \in [Clients -> Requests]
<1>1. NoRequest \in Requests /\ NoRequest.pc = "idle"
  BY DEF NoRequest, Requests, Points
<1>2. request'[c] = NoRequest /\ \A d \in Clients \ {c} : request'[d] = request[d]
  BY DEF TypeOK
<1>3. request' \in [Clients -> Requests]
  BY <1>1 DEF TypeOK
<1>4. QED
  BY <1>1, <1>2, <1>3 DEF UnderWay

LEMMA RequestGoes ==
  ASSUME TypeOK, NEW c \in UnderWay, NEW point \in Points \ {"idle"}, Goes(c, point)
  PROVE  /\ UnderWay' = UnderWay
         /\ \A d \in Clients \ {c} : request'[d] = request[d]
         /\ request' \in [Clients -> Requests]
         /\ request'[c].pc = point
         /\ request'[c].patch = request[c].patch /\ request'[c].built = request[c].built
         /\ request'[c].next = request[c].next /\ request'[c].alone = request[c].alone
<1>1. c \in Clients /\ request \in [Clients -> Requests]
  BY DEF TypeOK, Merged, UnderWay
<1>2. request'[c] = [request[c] EXCEPT !.pc = point]
      /\ \A d \in Clients \ {c} : request'[d] = request[d]
  BY <1>1 DEF Goes
<1>3. request'[c] \in Requests /\ request'[c].pc = point
      /\ request'[c].patch = request[c].patch /\ request'[c].built = request[c].built
      /\ request'[c].next = request[c].next /\ request'[c].alone = request[c].alone
  BY <1>1, <1>2 DEF Requests
<1>4. request' \in [Clients -> Requests]
  BY <1>1, <1>2, <1>3 DEF Goes
<1>5. UnderWay' = UnderWay
  BY <1>1, <1>2, <1>3 DEF UnderWay
<1>6. QED
  BY <1>2, <1>3, <1>4, <1>5

(* A request that another one ends beside keeps all that was known of it,  *)
(* as long as the settings in memory stay.                                 *)
LEMMA OthersKeep ==
  ASSUME IInv, NEW c \in Clients, request' = [request EXCEPT ![c] = NoRequest],
         memory' = memory, file' = file, blemish \subseteq blemish'
  PROVE  CompanyOnRecord' /\ BuiltFromTarget' /\ FileOfTheOnly'
<1> USE DEF IInv
<1>1. UnderWay' = UnderWay \ {c} /\ \A d \in UnderWay' : request'[d] = request[d]
  BY RequestEnds DEF UnderWay
<1>2. \A d \in UnderWay' : Target(d)' = Target(d)
  BY <1>1 DEF Target, Merged, merge
<1>3. CompanyOnRecord'
  <2>1. ASSUME NEW d \in UnderWay', request'[d].alone PROVE UnderWay' = {d}
    BY <1>1, <2>1 DEF CompanyOnRecord
  <2>2. ASSUME NEW d \in UnderWay', ~request'[d].alone PROVE "overlap" \in blemish'
    BY <1>1, <2>2 DEF CompanyOnRecord
  <2>3. ASSUME NEW d \in UnderWay', NEW e \in UnderWay', d # e, "partial" \notin blemish'
        PROVE  full(request'[d].patch)
    BY <1>1, <2>3 DEF CompanyOnRecord
  <2>4. QED
    BY <2>1, <2>2, <2>3 DEF CompanyOnRecord, full
<1>4. BuiltFromTarget'
  <2> SUFFICES ASSUME NEW d \in UnderWay', request'[d].alone \/ "partial" \notin blemish'
               PROVE  /\ Target(d)' \in Settings
                      /\ ~refused(Target(d)')
                      /\ \E n \in Nat :
                           request'[d].built = [number |-> n, settings |-> Target(d)']
    BY DEF BuiltFromTarget, refused, keyless, buildable
  <2>1. d \in UnderWay /\ request'[d] = request[d]
        /\ (request[d].alone \/ "partial" \notin blemish)
    BY <1>1
  <2>2. QED
    BY <1>2, <2>1 DEF BuiltFromTarget
<1>5. FileOfTheOnly'
  BY <1>1 DEF FileOfTheOnly
<1>6. QED
  BY <1>3, <1>4, <1>5

LEMMA CheckFailsKeeps == ASSUME IInv, NEW c \in Clients, CheckFails(c) PROVE IInv'
<1> USE DEF IInv, CheckFails
<1>1. UnderWay' = UnderWay \ {c} /\ request' \in [Clients -> Requests]
      /\ \A d \in Clients \ {c} : request'[d] = request[d]
  BY RequestEnds
<1>2. TypeOK'
  BY <1>1 DEF TypeOK, Merged, UnderWay
<1>3. CompanyOnRecord' /\ BuiltFromTarget' /\ FileOfTheOnly'
  BY OthersKeep
<1>4. DownIsStill' /\ OnePoller' /\ RunningIsShown' /\ Bootable'
  BY <1>1 DEF DownIsStill, OnePoller, start, RunningIsShown, keyless, Bootable, load, buildable
<1>5. FileIsMemory'
  BY <1>1 DEF FileIsMemory, load
<1>6. QED
  BY <1>2, <1>3, <1>4, <1>5

LEMMA WriteFailsKeeps == ASSUME IInv, NEW c \in Clients, WriteFails(c) PROVE IInv'
<1> USE DEF IInv, WriteFails
<1>1. UnderWay' = UnderWay \ {c} /\ request' \in [Clients -> Requests]
      /\ \A d \in Clients \ {c} : request'[d] = request[d]
  BY RequestEnds
<1>2. TypeOK'
  BY <1>1 DEF TypeOK, Merged, UnderWay
<1>3. CompanyOnRecord' /\ BuiltFromTarget' /\ FileOfTheOnly'
  BY OthersKeep
<1>4. DownIsStill' /\ OnePoller' /\ RunningIsShown' /\ Bootable'
  BY <1>1 DEF DownIsStill, OnePoller, start, RunningIsShown, keyless, Bootable, load, buildable
<1>5. FileIsMemory'
  <2>1. CASE request[c].pc = "writing"
    BY <2>1 DEF FileIsMemory
  <2>2. CASE request[c].pc = "mkdir"
    BY <1>1, <2>2 DEF FileIsMemory, load
  <2>3. QED
    BY <2>1, <2>2
<1>6. QED
  BY <1>2, <1>3, <1>4, <1>5

(* A request that goes on, its target unchanged, keeps what was known of   *)
(* it and of the others.                                                   *)
LEMMA OnTheWay ==
  ASSUME IInv, NEW c \in UnderWay, UnderWay' = UnderWay,
         \A d \in Clients \ {c} : request'[d] = request[d],
         request'[c].patch = request[c].patch, request'[c].built = request[c].built,
         request'[c].alone = request[c].alone, Target(c)' = Target(c),
         memory' = memory, blemish' = blemish
  PROVE  CompanyOnRecord' /\ BuiltFromTarget'
<1> USE DEF IInv
<1>1. \A d \in UnderWay : /\ Target(d)' = Target(d)
                          /\ request'[d].patch = request[d].patch
                          /\ request'[d].built = request[d].built
                          /\ request'[d].alone = request[d].alone
  BY DEF Target, Merged, merge, UnderWay
<1>2. CompanyOnRecord'
  <2>1. ASSUME NEW d \in UnderWay', request'[d].alone PROVE UnderWay' = {d}
    BY <1>1, <2>1 DEF CompanyOnRecord
  <2>2. ASSUME NEW d \in UnderWay', ~request'[d].alone PROVE "overlap" \in blemish'
    BY <1>1, <2>2 DEF CompanyOnRecord
  <2>3. ASSUME NEW d \in UnderWay', NEW e \in UnderWay', d # e, "partial" \notin blemish'
        PROVE  full(request'[d].patch)
    BY <1>1, <2>3 DEF CompanyOnRecord
  <2>4. QED
    BY <2>1, <2>2, <2>3 DEF CompanyOnRecord, full
<1>3. BuiltFromTarget'
  <2> SUFFICES ASSUME NEW d \in UnderWay', request'[d].alone \/ "partial" \notin blemish'
               PROVE  /\ Target(d)' \in Settings
                      /\ ~refused(Target(d)')
                      /\ \E n \in Nat :
                           request'[d].built = [number |-> n, settings |-> Target(d)']
    BY DEF BuiltFromTarget, refused, keyless, buildable
  <2>1. d \in UnderWay /\ (request[d].alone \/ "partial" \notin blemish)
    BY <1>1
  <2>2. QED
    BY <1>1, <2>1 DEF BuiltFromTarget
<1>4. QED
  BY <1>2, <1>3

LEMMA CheckedKeeps == ASSUME IInv, NEW c \in Clients, Checked(c) PROVE IInv'
<1> USE DEF IInv
<1> DEFINE next == merge(memory, request[c].patch)
<1>1. c \in UnderWay /\ request \in [Clients -> Requests] /\ request[c].pc = "checking"
  BY DEF Checked, UnderWay, TypeOK
<1>2. Target(c) = next /\ next \in Settings
  BY <1>1, TargetWhileChecking
<1>3. request' = [request EXCEPT ![c].pc = "mkdir", ![c].next = next]
      /\ UNCHANGED <<file, memory, runtime, timers, backend, builds, crashes, blemish>>
  BY DEF Checked
<1> HIDE DEF next
<1>4. request'[c] = [request[c] EXCEPT !.pc = "mkdir", !.next = next]
      /\ \A d \in Clients \ {c} : request'[d] = request[d]
  BY <1>1, <1>3
<1>5. /\ request'[c] \in Requests /\ request'[c].pc = "mkdir" /\ request'[c].next = next
      /\ request'[c].patch = request[c].patch /\ request'[c].built = request[c].built
      /\ request'[c].alone = request[c].alone
  BY <1>1, <1>2, <1>4 DEF Requests, Points
<1>6. UnderWay' = UnderWay /\ request' \in [Clients -> Requests]
  BY <1>1, <1>3, <1>4, <1>5 DEF UnderWay
<1>7. TypeOK'
  BY <1>2, <1>3, <1>4, <1>5, <1>6 DEF TypeOK, Merged, UnderWay
<1>8. Target(c)' = Target(c)
  BY <1>2, <1>5 DEF Target, Merged
<1>9. CompanyOnRecord' /\ BuiltFromTarget'
  BY <1>1, <1>3, <1>4, <1>5, <1>6, <1>8, OnTheWay
<1>10. DownIsStill' /\ OnePoller' /\ RunningIsShown' /\ Bootable'
  BY <1>3, <1>6 DEF DownIsStill, OnePoller, start, RunningIsShown, keyless, Bootable, load,
                    buildable
<1>11. FileOfTheOnly'
  BY <1>3, <1>4, <1>5, <1>6 DEF FileOfTheOnly, UnderWay
<1>12. FileIsMemory'
  BY <1>1, <1>3, <1>4, <1>5 DEF FileIsMemory, load
<1>13. QED
  BY <1>7, <1>9, <1>10, <1>11, <1>12

LEMMA OpenKeeps == ASSUME IInv, NEW c \in Clients, Open(c) PROVE IInv'
<1> USE DEF IInv, Open
<1>1. c \in UnderWay /\ request \in [Clients -> Requests] /\ request[c].pc = "mkdir"
  BY DEF UnderWay, TypeOK
<1>2. /\ UnderWay' = UnderWay
      /\ \A d \in Clients \ {c} : request'[d] = request[d]
      /\ request' \in [Clients -> Requests]
      /\ request'[c].pc = "writing"
      /\ request'[c].patch = request[c].patch /\ request'[c].built = request[c].built
      /\ request'[c].next = request[c].next /\ request'[c].alone = request[c].alone
  BY <1>1, RequestGoes DEF Points
<1>3. TypeOK'
  BY <1>1, <1>2 DEF TypeOK, Merged, UnderWay, Unreadable
<1>4. Target(c)' = Target(c)
  BY <1>1, <1>2 DEF Target, Merged
<1>5. CompanyOnRecord' /\ BuiltFromTarget'
  BY <1>1, <1>2, <1>4, OnTheWay
<1>6. DownIsStill' /\ OnePoller' /\ RunningIsShown'
  BY <1>2 DEF DownIsStill, OnePoller, start, RunningIsShown, keyless
<1>7. Bootable'
  BY SettingsAssumption DEF Bootable, load, buildable
<1>8. FileOfTheOnly'
  <2> SUFFICES ASSUME NEW d \in UnderWay', request'[d].alone
               PROVE  /\ request'[d].pc = "writing" => file' = Emptied
                      /\ request'[d].pc = "written" => file' = request'[d].next
    BY DEF FileOfTheOnly, Emptied
  <2>1. d = c
    BY <1>1, <1>2 DEF CompanyOnRecord, UnderWay
  <2>2. QED
    BY <1>2, <2>1
<1>9. FileIsMemory'
  BY <1>1, <1>2 DEF FileIsMemory
<1>10. QED
  BY <1>3, <1>5, <1>6, <1>7, <1>8, <1>9

LEMMA WriteKeeps == ASSUME IInv, NEW c \in Clients, Write(c) PROVE IInv'
<1> USE DEF IInv
<1>1. c \in UnderWay /\ request \in [Clients -> Requests] /\ request[c].pc = "writing"
  BY DEF Write, UnderWay, TypeOK
<1>2. /\ UnderWay' = UnderWay
      /\ \A d \in Clients \ {c} : request'[d] = request[d]
      /\ request' \in [Clients -> Requests]
      /\ request'[c].pc = "written"
      /\ request'[c].patch = request[c].patch /\ request'[c].built = request[c].built
      /\ request'[c].next = request[c].next /\ request'[c].alone = request[c].alone
  BY <1>1, RequestGoes DEF Points, Write
<1>3. /\ UNCHANGED <<memory, runtime, timers, backend, builds, crashes, blemish>>
      /\ file' \in {request[c].next, Garbled}
      /\ file = Emptied => file' = request[c].next
  BY DEF Write
<1>4. Target(c)' = Target(c) /\ Target(c) = request[c].next
  BY <1>1, <1>2 DEF Target, Merged
<1>5. CompanyOnRecord' /\ BuiltFromTarget'
  BY <1>1, <1>2, <1>3, <1>4, OnTheWay
<1>6. DownIsStill' /\ OnePoller' /\ RunningIsShown'
  BY <1>2, <1>3 DEF DownIsStill, OnePoller, start, RunningIsShown, keyless
<1>7. "partial" \notin blemish => request[c].next \in Settings /\ buildable(request[c].next)
  BY <1>1, <1>4 DEF BuiltFromTarget, refused
<1>8. Bootable'
  BY <1>3, <1>7, SettingsAssumption DEF Bootable, load, buildable
<1>9. FileOfTheOnly'
  <2> SUFFICES ASSUME NEW d \in UnderWay', request'[d].alone
               PROVE  /\ request'[d].pc = "writing" => file' = Emptied
                      /\ request'[d].pc = "written" => file' = request'[d].next
    BY DEF FileOfTheOnly, Emptied
  <2>1. d = c
    BY <1>1, <1>2 DEF CompanyOnRecord, UnderWay
  <2>2. file = Emptied
    BY <1>1, <1>2, <2>1 DEF FileOfTheOnly
  <2>3. QED
    BY <1>2, <1>3, <2>1, <2>2
<1>10. FileIsMemory'
  BY <1>1, <1>2 DEF FileIsMemory
<1>11. TypeOK'
  BY <1>1, <1>2, <1>3 DEF TypeOK, Merged, UnderWay, Unreadable
<1>12. QED
  BY <1>5, <1>6, <1>8, <1>9, <1>10, <1>11

LEMMA AppliedKeeps == ASSUME IInv, NEW c \in Clients, Applied(c) PROVE IInv'
<1> USE DEF IInv
<1> DEFINE next == request[c].next
<1>1. c \in UnderWay /\ request \in [Clients -> Requests] /\ request[c].pc = "written"
      /\ next \in Settings
  BY DEF Applied, swap, UnderWay, TypeOK, Merged
<1>2. /\ memory' = next /\ runtime' = request[c].built
      /\ timers' = (timers \ start(runtime)) \cup start(request[c].built)
      /\ request' = [request EXCEPT ![c] = NoRequest]
      /\ blemish' = IF request[c].alone THEN {} ELSE blemish
      /\ UNCHANGED <<file, backend, builds, crashes>>
  BY DEF Applied, swap
<1>3. UnderWay' = UnderWay \ {c} /\ request' \in [Clients -> Requests]
      /\ \A d \in Clients \ {c} : request'[d] = request[d]
  BY <1>2, RequestEnds
<1>4. backend # "down"
  BY <1>1 DEF DownIsStill
<1>5. request[c].alone => UnderWay' = {} /\ file = next
  BY <1>1, <1>3 DEF CompanyOnRecord, FileOfTheOnly
<1>6. ~request[c].alone => "overlap" \in blemish /\ blemish' = blemish
  BY <1>1, <1>2 DEF CompanyOnRecord
<1>7. Target(c) = next
  BY <1>1 DEF Target, Merged
<1>8. ASSUME "partial" \notin blemish'
      PROVE  /\ ~keyless(next) /\ buildable(next)
             /\ \E n \in Nat : request[c].built = [number |-> n, settings |-> next]
  <2>1. request[c].alone \/ "partial" \notin blemish
    BY <1>6, <1>8
  <2>2. QED
    BY <1>1, <1>7, <2>1 DEF BuiltFromTarget, refused
<1>9. TypeOK'
  BY <1>1, <1>2, <1>3 DEF TypeOK, Merged, UnderWay
<1>10. DownIsStill'
  BY <1>2, <1>4 DEF DownIsStill
<1>11. OnePoller'
  BY <1>2 DEF OnePoller, start
<1>12. CompanyOnRecord'
  <2>1. ASSUME NEW d \in UnderWay', request'[d].alone PROVE UnderWay' = {d}
    BY <1>3, <2>1 DEF CompanyOnRecord, UnderWay
  <2>2. ASSUME NEW d \in UnderWay', ~request'[d].alone PROVE "overlap" \in blemish'
    BY <1>3, <1>5, <1>6, <2>2 DEF CompanyOnRecord, UnderWay
  <2>3. ASSUME NEW d \in UnderWay', NEW e \in UnderWay', d # e, "partial" \notin blemish'
        PROVE  full(request'[d].patch)
    BY <1>3, <1>5, <1>6, <2>3 DEF CompanyOnRecord, UnderWay
  <2>4. QED
    BY <2>1, <2>2, <2>3 DEF CompanyOnRecord, full
<1>13. BuiltFromTarget'
  <2> SUFFICES ASSUME NEW d \in UnderWay', request'[d].alone \/ "partial" \notin blemish'
               PROVE  /\ Target(d)' \in Settings
                      /\ ~refused(Target(d)')
                      /\ \E n \in Nat :
                           request'[d].built = [number |-> n, settings |-> Target(d)']
    BY DEF BuiltFromTarget, refused, keyless, buildable
  <2>1. d \in UnderWay /\ d # c /\ request'[d] = request[d] /\ d \in Clients
    BY <1>3 DEF UnderWay
  <2>2. ~request[d].alone /\ ~request[c].alone
    BY <1>1, <2>1 DEF CompanyOnRecord
  <2>3. "partial" \notin blemish
    BY <1>6, <2>1, <2>2
  <2>4. full(request[d].patch)
    BY <1>1, <2>1, <2>3 DEF CompanyOnRecord
  <2>5. Target(d)' = Target(d)
    <3>1. merge(next, request[d].patch) = merge(memory, request[d].patch)
      BY <1>1, <2>4, FullMerge DEF TypeOK
    <3>2. QED
      BY <1>2, <2>1, <3>1 DEF Target, Merged, merge
  <2>6. QED
    BY <2>1, <2>3, <2>5 DEF BuiltFromTarget
<1>14. RunningIsShown'
  <2> SUFFICES ASSUME "partial" \notin blemish'
               PROVE  runtime' # None /\ ~keyless(memory') /\ runtime'.settings = memory'
    BY DEF RunningIsShown, keyless
  <2>1. PICK n \in Nat : request[c].built = [number |-> n, settings |-> next]
    BY <1>8
  <2>2. [number |-> n, settings |-> next] # None
    BY <1>1, SettingsAssumption DEF Runtimes
  <2>3. QED
    BY <1>2, <1>8, <2>1, <2>2
<1>15. FileOfTheOnly'
  <2> SUFFICES ASSUME NEW d \in UnderWay', request'[d].alone PROVE FALSE
    BY DEF FileOfTheOnly
  <2>1. QED
    BY <1>1, <1>3 DEF CompanyOnRecord, UnderWay
<1>16. FileIsMemory'
  <2> SUFFICES ASSUME blemish' = {} PROVE load(file') = memory'
    BY DEF FileIsMemory, load
  <2>1. file' = next /\ memory' = next
    BY <1>2, <1>5, <1>6
  <2>2. QED
    BY <1>1, <2>1, LoadIsSettings
<1>17. Bootable'
  <2> SUFFICES ASSUME "partial" \notin blemish' PROVE buildable(load(file'))
    BY DEF Bootable, load, buildable
  <2>1. CASE request[c].alone
    BY <1>1, <1>2, <1>5, <1>8, <2>1, LoadIsSettings
  <2>2. CASE ~request[c].alone
    BY <1>2, <1>6, <2>2 DEF Bootable
  <2>3. QED
    BY <2>1, <2>2
<1>18. QED
  BY <1>9, <1>10, <1>11, <1>12, <1>13, <1>14, <1>15, <1>16, <1>17

LEMMA PutKeeps ==
  ASSUME IInv, NEW c \in Clients, NEW patch \in Patches, Put(c, patch)
  PROVE  IInv'
<1> USE DEF IInv
<1> DEFINE s == merge(memory, patch)
           new == [ pc |-> "checking", patch |-> patch, next |-> None,
                    built |-> buildRuntime(s, builds + 1), alone |-> UnderWay = {} ]
<1>1. c \notin UnderWay /\ request \in [Clients -> Requests] /\ backend # "down"
      /\ ~refused(s) /\ builds + 1 \in Nat
  BY DEF Put, UnderWay, TypeOK
<1>2. s \in Settings
  BY MergeIsSettings DEF TypeOK
<1>3. buildRuntime(s, builds + 1) = [number |-> builds + 1, settings |-> s]
      /\ buildRuntime(s, builds + 1) \in Runtimes \cup {None}
  BY <1>1, <1>2, BuildRuntime DEF refused
<1>4. new \in Requests
  BY <1>3 DEF Requests, Points
<1>5. /\ request' = [d \in Clients |->
                       IF d = c THEN new ELSE [request[d] EXCEPT !.alone = (request[d].pc = "idle")]]
      /\ blemish' = IF UnderWay = {} THEN blemish
                    ELSE blemish \cup {"overlap"}
                           \cup (IF \A d \in UnderWay : full(request[d].patch) /\ full(patch)
                                 THEN {} ELSE {"partial"})
      /\ builds' = builds + 1
      /\ UNCHANGED <<file, memory, runtime, timers, backend, crashes>>
  BY DEF Put
<1>6. /\ request'[c].pc = "checking" /\ request'[c].patch = patch
      /\ request'[c].built = buildRuntime(s, builds + 1)
      /\ request'[c].alone <=> UnderWay = {}
  BY <1>5
<1> HIDE DEF new, s
<1>7. ASSUME NEW d \in Clients \ {c}
      PROVE  /\ request'[d] \in Requests /\ request'[d].pc = request[d].pc
             /\ request'[d].patch = request[d].patch /\ request'[d].built = request[d].built
             /\ request'[d].next = request[d].next
             /\ request'[d].alone <=> request[d].pc = "idle"
  <2>1. request'[d] = [request[d] EXCEPT !.alone = (request[d].pc = "idle")]
    BY <1>5
  <2>2. request[d] \in Requests
    BY <1>1
  <2>3. QED
    BY <2>1, <2>2 DEF Requests
<1>8. request' \in [Clients -> Requests]
  <2>1. request'[c] = new
    BY <1>5
  <2>2. request' = [d \in Clients |-> request'[d]]
    BY <1>5
  <2>3. \A d \in Clients : request'[d] \in Requests
    BY <1>4, <1>7, <2>1
  <2>4. QED
    BY <2>2, <2>3
<1>9. UnderWay' = UnderWay \cup {c}
  BY <1>6, <1>7 DEF UnderWay
<1>10. \A d \in UnderWay : d \in Clients \ {c} /\ ~request'[d].alone
  BY <1>1, <1>7 DEF UnderWay
<1>11. TypeOK'
  <2>1. \A d \in UnderWay' : request'[d].patch \in Patches
    BY <1>6, <1>7, <1>9, <1>10 DEF TypeOK
  <2>2. \A d \in UnderWay' : Merged(d)' => request'[d].next \in Settings
    BY <1>6, <1>7, <1>9, <1>10 DEF TypeOK, Merged
  <2>3. QED
    BY <1>1, <1>5, <1>8, <2>1, <2>2 DEF TypeOK
<1>12. DownIsStill' /\ OnePoller' /\ RunningIsShown' /\ Bootable'
  BY <1>1, <1>5 DEF DownIsStill, OnePoller, start, RunningIsShown, keyless, Bootable, load,
                    buildable
<1>13. CompanyOnRecord'
  <2>1. ASSUME NEW d \in UnderWay', request'[d].alone PROVE UnderWay' = {d}
    BY <1>6, <1>9, <1>10, <2>1
  <2>2. ASSUME NEW d \in UnderWay', ~request'[d].alone PROVE "overlap" \in blemish'
    BY <1>5, <1>6, <1>9, <2>2
  <2>3. ASSUME NEW d \in UnderWay', NEW e \in UnderWay', d # e, "partial" \notin blemish'
        PROVE  full(request'[d].patch)
    <3>1. UnderWay # {}
      BY <1>9, <2>3
    <3>2. \A a \in UnderWay : full(request[a].patch) /\ full(patch)
      BY <1>5, <2>3, <3>1
    <3>3. request'[d].patch = IF d = c THEN patch ELSE request[d].patch
      BY <1>6, <1>7, <1>9, <1>10
    <3>4. QED
      BY <1>9, <3>1, <3>2, <3>3
  <2>4. QED
    BY <2>1, <2>2, <2>3 DEF CompanyOnRecord, full
<1>14. BuiltFromTarget'
  <2> SUFFICES ASSUME NEW d \in UnderWay', request'[d].alone \/ "partial" \notin blemish'
               PROVE  /\ Target(d)' \in Settings
                      /\ ~refused(Target(d)')
                      /\ \E n \in Nat :
                           request'[d].built = [number |-> n, settings |-> Target(d)']
    BY DEF BuiltFromTarget, refused, keyless, buildable
  <2>1. CASE d = c
    <3>1. Target(d)' = s
      BY <1>5, <1>6, <2>1 DEF Target, Merged, merge, s
    <3>2. QED
      BY <1>1, <1>2, <1>3, <1>6, <2>1, <3>1
  <2>2. CASE d # c
    <3>1. d \in UnderWay /\ "partial" \notin blemish
      BY <1>5, <1>9, <1>10, <2>2
    <3>2. /\ request'[d].pc = request[d].pc /\ request'[d].patch = request[d].patch
          /\ request'[d].next = request[d].next /\ request'[d].built = request[d].built
      BY <1>7, <1>10, <3>1
    <3>3. Target(d)' = Target(d)
      BY <1>5, <3>2 DEF Target, Merged, merge
    <3>4. QED
      BY <3>1, <3>2, <3>3 DEF BuiltFromTarget
  <2>3. QED
    BY <2>1, <2>2
<1>15. FileOfTheOnly'
  BY <1>6, <1>9, <1>10 DEF FileOfTheOnly
<1>16. FileIsMemory'
  <2>1. ASSUME blemish' = {} PROVE blemish = {}
    BY <1>5, <2>1
  <2>2. \A d \in Clients \ {c} : request'[d].pc = request[d].pc
    BY <1>7
  <2>3. request[c].pc = "idle"
    BY <1>1 DEF UnderWay
  <2>4. QED
    BY <1>5, <2>1, <2>2, <2>3 DEF FileIsMemory, load
<1>17. QED
  BY <1>11, <1>12, <1>13, <1>14, <1>15, <1>16

----------------------------------------------------------------------------
LEMMA NothingKeeps == ASSUME IInv, UNCHANGED vars PROVE IInv'
<1> USE DEF vars
<1>1. UnderWay' = UnderWay /\ \A c \in Clients : Target(c)' = Target(c)
  BY DEF UnderWay, Target, Merged, merge
<1>2. TypeOK' /\ DownIsStill' /\ OnePoller' /\ CompanyOnRecord'
  BY <1>1 DEF IInv, TypeOK, Merged, DownIsStill, OnePoller, start, CompanyOnRecord, full
<1>3. BuiltFromTarget'
  BY <1>1 DEF IInv, BuiltFromTarget, refused, keyless, buildable, UnderWay
<1>4. RunningIsShown' /\ FileOfTheOnly' /\ FileIsMemory' /\ Bootable'
  BY <1>1 DEF IInv, RunningIsShown, keyless, FileOfTheOnly, FileIsMemory, Bootable, load,
              buildable
<1>5. QED
  BY <1>2, <1>3, <1>4 DEF IInv

LEMMA NextKeeps == IInv /\ [Next]_vars => IInv'
<1> SUFFICES ASSUME IInv, [Next]_vars PROVE IInv'
  OBVIOUS
<1>1. CASE Boot
  BY <1>1, BootKeeps
<1>2. CASE Started
  BY <1>2, StartedKeeps
<1>3. CASE Crash
  BY <1>3, CrashKeeps
<1>4. ASSUME NEW c \in Clients, NEW patch \in Patches, Put(c, patch) \/ Refused(c, patch)
      PROVE  IInv'
  BY <1>4, PutKeeps, NothingKeeps DEF Refused
<1>5. ASSUME NEW c \in Clients, CheckFails(c) \/ WriteFails(c) PROVE IInv'
  BY <1>5, CheckFailsKeeps, WriteFailsKeeps
<1>6. ASSUME NEW c \in Clients, Checked(c) \/ Open(c) \/ Write(c) \/ Applied(c) PROVE IInv'
  BY <1>6, CheckedKeeps, OpenKeeps, WriteKeeps, AppliedKeeps
<1>7. CASE UNCHANGED vars
  BY <1>7, NothingKeeps
<1>8. QED
  BY <1>1, <1>2, <1>3, <1>4, <1>5, <1>6, <1>7 DEF Next

(* The invariant of the settings: types, what each request under way knows *)
(* of the file, the memory and the provider it has built.                  *)
THEOREM SettingsInvariant == Spec => []IInv
BY InitIInv, NextKeeps, PTL DEF Spec

(* Whatever requests overlap with each other and with the boot, no indexer *)
(* that was replaced goes on polling, and the one in use polls.            *)
THEOREM OnePollerAlways == Spec => []OnePoller
<1>1. IInv => OnePoller
  BY DEF IInv
<1>2. QED
  BY <1>1, SettingsInvariant, PTL

(* What GET /settings tells is what the backend runs on.                   *)
THEOREM ShownAlways == Spec => []RunningIsShown
<1>1. IInv => RunningIsShown
  BY DEF IInv
<1>2. QED
  BY <1>1, SettingsInvariant, PTL

(* Accepted settings are what the next boot loads, and it can be booted    *)
(* from the file at every moment.                                          *)
THEOREM SettingsSurvive == Spec => []SurvivesRestarts
<1>1. IInv => SurvivesRestarts
  BY DEF IInv, SurvivesRestarts, Persisted, FileIsMemory, UnderWay
<1>2. QED
  BY <1>1, SettingsInvariant, PTL
=============================================================================
