---------------------------- MODULE RecordsProofs ----------------------------
(***************************************************************************)
(* Proofs about the services that keep records: the installation and       *)
(* update of plugins (PluginUpdate), the capability boundary               *)
(* (CapabilityBroker; its quota, which is a sum, comes last), jobs,        *)
(* artifacts and reviews (ProcessingJobs), Packages, transcripts and pages *)
(* (PackageStore), notes and candidates (ActionCandidates), a session of   *)
(* the course organizer (CourseOrganizer).  For each the inductive         *)
(* invariant, its three facts and the theorem; at the end the theorem of   *)
(* the composition RecordsSpec, in which they take their turns.            *)
(***************************************************************************)
EXTENDS MCRecords, SequenceTheorems, Loops

-----------------------------------------------------------------------------
(* Plugin installation and update.                                         *)

TicketStates == {"none", "live", "expired", "used", "gone"}

ConfirmSteps == {"idle", "importing", "starting", "migrating"}

ConfirmFields == {"pc", "ticket", "version", "previous", "items", "enabled"}

\* The types the steps rely on; a confirmation's ticket and version are typed
\* in UnderWay, because the record of an idle request holds neither.
UpdateTypes ==
  /\ ticket \in [Tickets -> TicketStates] /\ DOMAIN offers = Tickets
  /\ staged \subseteq Tickets /\ installed \subseteq Versions /\ recorded \subseteq Versions
  /\ preferred \in Versions \cup {NoVersion} /\ running \subseteq Versions /\ pinned \subseteq Versions
  /\ orphans \subseteq Versions
  /\ removal \in {"none", "disable", "uninstall"} /\ stopping \subseteq Versions
  /\ DOMAIN confirm = Confirmers
  /\ \A c \in Confirmers : DOMAIN confirm[c] = ConfirmFields

\* A confirmation under way holds a ticket and the version the ticket offered.
UnderWay ==
  \A c \in Confirmers :
    /\ confirm[c].pc \in ConfirmSteps
    /\ confirm[c].pc # "idle" => confirm[c].ticket \in Tickets /\ confirm[c].version \in Versions

\* An inspected ticket names a version.
Offered == \A t \in Tickets : ticket[t] # "none" => offers[t] \in Versions

\* A ticket that recorded a package can be consumed no more.
Consumed ==
  /\ DOMAIN installs = Tickets
  /\ \A t \in Tickets : installs[t] \in {0, 1} /\ (installs[t] = 1 => ticket[t] \in {"used", "gone"})

\* What runs was ready, or is the candidate of a confirmation that migrates it;
\* sessions are bound to ready versions, and only an installed plugin is enabled.
RunsReady ==
  /\ \A v \in running : v \in ready \/ \E c \in Confirmers : confirm[c].pc = "migrating" /\ confirm[c].version = v
  /\ pinned \subseteq ready
  /\ enabled => preferred # NoVersion

UpdateInv == UpdateTypes /\ UnderWay /\ Offered /\ Consumed /\ PreferredReady /\ RunsReady

\* The invariant implies what the run checks.
LEMMA UpdateInvSafe == UpdateInv => UpdateSafe
<1> SUFFICES ASSUME UpdateInv PROVE UpdateSafe
  OBVIOUS
<1>1. UpdateTypeOK
  BY DEF UpdateInv, UpdateTypes, UnderWay, UpdateTypeOK, TicketStates, ConfirmSteps
<1>2. TicketOnce
  BY DEF UpdateInv, Consumed, TicketOnce
<1>3. NoStrayCandidate
  BY DEF UpdateInv, RunsReady, NoStrayCandidate, Settled
<1> QED
  BY <1>1, <1>2, <1>3 DEF UpdateInv, UpdateSafe

\* The idle record of a confirmation request.
LEMMA IdleConfirm == NoConfirm.pc = "idle" /\ DOMAIN NoConfirm = ConfirmFields
BY DEF NoConfirm, ConfirmFields

\* Nothing is inspected, recorded or running at first.
LEMMA UpdateStarts == UpdateInit => UpdateInv
<1> SUFFICES ASSUME UpdateInit PROVE UpdateInv
  OBVIOUS
<1>1. DOMAIN confirm = Confirmers /\ \A c \in Confirmers : confirm[c].pc = "idle" /\ DOMAIN confirm[c] = ConfirmFields
  BY IdleConfirm DEF UpdateInit
<1>2. UpdateTypes /\ Offered /\ Consumed /\ PreferredReady /\ RunsReady
  BY <1>1, UpdateAssumption DEF UpdateInit, UpdateTypes, Offered, Consumed, PreferredReady, RunsReady, TicketStates
<1> QED
  BY <1>1, <1>2 DEF UpdateInv, UnderWay, ConfirmSteps

\* A request that goes back to idle: the others are as they were.
LEMMA BackToIdle ==
  ASSUME NEW c \in Confirmers, UpdateTypes, UnderWay,
         confirm' = [confirm EXCEPT ![c] = NoConfirm]
  PROVE  /\ DOMAIN confirm' = Confirmers /\ UnderWay'
         /\ \A d \in Confirmers : DOMAIN confirm'[d] = ConfirmFields
         /\ \A d \in Confirmers : d # c => confirm'[d] = confirm[d]
<1>1. /\ confirm'[c].pc = "idle" /\ DOMAIN confirm' = Confirmers
      /\ \A d \in Confirmers : DOMAIN confirm'[d] = ConfirmFields
      /\ \A d \in Confirmers : d # c => confirm'[d] = confirm[d]
  BY IdleConfirm DEF UpdateTypes
<1>2. UnderWay'
  <2> SUFFICES ASSUME NEW d \in Confirmers
               PROVE  /\ confirm'[d].pc \in ConfirmSteps
                      /\ confirm'[d].pc # "idle" => confirm'[d].ticket \in Tickets /\ confirm'[d].version \in Versions
    BY DEF UnderWay
  <2>1. CASE d = c
    BY <2>1, <1>1 DEF ConfirmSteps
  <2>2. CASE d # c
    BY <2>2, <1>1 DEF UnderWay
  <2> QED
    BY <2>1, <2>2
<1> QED
  BY <1>1, <1>2

\* Inspection, expiry and refusal of a ticket: no confirmation moves, no ticket
\* that recorded a package becomes live again.
LEMMA TicketSteps ==
  ASSUME UpdateInv, NEW t \in Tickets,
         (\E v \in Versions : Inspect(t, v)) \/ TicketExpires(t) \/ ConfirmRefused(t)
  PROVE  UpdateInv'
<1>0. UNCHANGED <<installed, recorded, preferred, enabled, pinned, running, orphans, confirm, removal, stopping,
                  ready, installs>>
  BY DEF Inspect, TicketExpires, ConfirmRefused, rowVars, diskVars, containers
<1>1. CASE \E v \in Versions : Inspect(t, v)
  <2> PICK v \in Versions : Inspect(t, v)
    BY <1>1
  <2>1. UpdateTypes' /\ Offered'
    BY <1>0 DEF UpdateInv, UpdateTypes, Offered, Inspect, TicketStates
  <2>2. Consumed'
    BY <1>0 DEF UpdateInv, UpdateTypes, Consumed, Inspect
  <2> QED
    BY <2>1, <2>2, <1>0 DEF UpdateInv, UnderWay, PreferredReady, RunsReady
<1>2. CASE TicketExpires(t) \/ ConfirmRefused(t)
  <2>1. UpdateTypes' /\ Offered' /\ Consumed'
    BY <1>0, <1>2 DEF UpdateInv, UpdateTypes, Offered, Consumed, TicketExpires, ConfirmRefused, TicketStates,
       diskVars, rowVars
  <2> QED
    BY <2>1, <1>0 DEF UpdateInv, UnderWay, PreferredReady, RunsReady
<1> QED
  BY <1>1, <1>2

\* A confirmation begins with a live ticket and the version it offered.
LEMMA ConfirmBeginStep ==
  ASSUME UpdateInv, NEW c \in Confirmers, NEW t \in Tickets, ConfirmBegin(c, t)
  PROVE  UpdateInv'
<1>0. UNCHANGED <<staged, ticket, offers, recorded, preferred, enabled, pinned, running, orphans, removal,
                  stopping, ready, installs>>
  BY DEF ConfirmBegin, containers
<1>1. offers[t] \in Versions /\ confirm[c].pc = "idle"
  BY DEF ConfirmBegin, UpdateInv, Offered
<1>2. PICK r : r = [NoConfirm EXCEPT !.pc = "importing", !.ticket = t, !.version = offers[t]]
  OBVIOUS
<1>3. r.pc = "importing" /\ r.ticket = t /\ r.version = offers[t] /\ DOMAIN r = ConfirmFields
  BY <1>2, IdleConfirm DEF ConfirmFields
<1>4. confirm' = [confirm EXCEPT ![c] = r]
  BY <1>2 DEF ConfirmBegin
<1>5. UpdateTypes'
  BY <1>0, <1>1, <1>3, <1>4 DEF UpdateInv, UpdateTypes, ConfirmBegin
<1>6. UnderWay'
  BY <1>1, <1>3, <1>4 DEF UpdateInv, UpdateTypes, UnderWay, ConfirmSteps
<1>7. RunsReady'
  BY <1>0, <1>1, <1>4 DEF UpdateInv, UpdateTypes, RunsReady
<1> QED
  BY <1>0, <1>5, <1>6, <1>7 DEF UpdateInv, Offered, Consumed, PreferredReady

\* The recording transaction consumes the ticket, or records nothing.
LEMMA ImportSteps ==
  ASSUME UpdateInv, NEW c \in Confirmers, ImportFails(c) \/ ImportDone(c)
  PROVE  UpdateInv'
<1>0. UNCHANGED <<installed, offers, enabled, pinned, running, orphans, removal, stopping>>
  BY DEF ImportFails, ImportDone, rowVars, containers
<1>a. confirm[c].pc = "importing" /\ staged' \subseteq Tickets
  BY DEF ImportFails, ImportDone, UpdateInv, UpdateTypes
<1>b. confirm[c].ticket \in Tickets /\ confirm[c].version \in Versions
  BY <1>a DEF UpdateInv, UnderWay
<1>c. ASSUME confirm' = [confirm EXCEPT ![c] = NoConfirm], ready \subseteq ready',
             preferred' # NoVersion => preferred' \in recorded' \cap ready',
             enabled' => preferred' # NoVersion
      PROVE  UnderWay' /\ RunsReady' /\ PreferredReady' /\ DOMAIN confirm' = Confirmers
             /\ \A d \in Confirmers : DOMAIN confirm'[d] = ConfirmFields
  <2>1. /\ DOMAIN confirm' = Confirmers /\ UnderWay'
        /\ \A d \in Confirmers : DOMAIN confirm'[d] = ConfirmFields
        /\ \A d \in Confirmers : d # c => confirm'[d] = confirm[d]
    BY <1>c, BackToIdle DEF UpdateInv
  <2>2. RunsReady'
    BY <2>1, <1>0, <1>a, <1>c DEF UpdateInv, RunsReady
  <2> QED
    BY <2>1, <2>2, <1>c DEF PreferredReady
<1>1. CASE UNCHANGED <<ticket, installs, recorded, preferred, ready>> /\ confirm' = [confirm EXCEPT ![c] = NoConfirm]
  <2>1. UnderWay' /\ RunsReady' /\ PreferredReady' /\ DOMAIN confirm' = Confirmers
        /\ \A d \in Confirmers : DOMAIN confirm'[d] = ConfirmFields
    BY <1>1, <1>0, <1>c DEF UpdateInv, RunsReady, PreferredReady
  <2> QED
    BY <2>1, <1>0, <1>1, <1>a DEF UpdateInv, UpdateTypes, Offered, Consumed
<1>2. CASE ImportDone(c) /\ Consumable(confirm[c].ticket)
  <2>1. PICK u \in Tickets : u = confirm[c].ticket
    BY <1>b
  <2>2. PICK v \in Versions : v = confirm[c].version
    BY <1>b
  <2>3. /\ ticket[u] = "live" /\ ticket' = [ticket EXCEPT ![u] = "used"]
        /\ installs' = [installs EXCEPT ![u] = @ + 1] /\ recorded' = recorded \cup {v}
    BY <1>2, <2>1, <2>2 DEF ImportDone, Consumable
  <2>4. Offered' /\ Consumed'
    BY <2>3, <1>0 DEF UpdateInv, UpdateTypes, Offered, Consumed
  <2>5. CASE preferred \in {NoVersion, v}
    <3>1. preferred' = v /\ ready' = ready \cup {v} /\ confirm' = [confirm EXCEPT ![c] = NoConfirm]
      BY <2>5, <2>2, <1>2 DEF ImportDone
    <3>2. UnderWay' /\ RunsReady' /\ PreferredReady' /\ DOMAIN confirm' = Confirmers
          /\ \A d \in Confirmers : DOMAIN confirm'[d] = ConfirmFields
      BY <3>1, <2>3, <1>c, UpdateAssumption
    <3>3. UpdateTypes'
      BY <3>1, <3>2, <2>3, <1>0, <1>a DEF UpdateInv, UpdateTypes, TicketStates
    <3> QED
      BY <3>2, <3>3, <2>4 DEF UpdateInv
  <2>6. CASE preferred \notin {NoVersion, v}
    <3>1. UNCHANGED <<preferred, ready>>
      BY <2>6, <2>2, <1>2 DEF ImportDone
    <3>2. confirm' = [confirm EXCEPT ![c].pc = "starting", ![c].previous = preferred,
                                     ![c].items = store[preferred], ![c].enabled = enabled]
      BY <2>6, <2>2, <1>2 DEF ImportDone
    <3>3. /\ DOMAIN confirm' = Confirmers /\ \A d \in Confirmers : d # c => confirm'[d] = confirm[d]
          /\ \A d \in Confirmers : DOMAIN confirm'[d] = ConfirmFields
          /\ confirm'[c].pc = "starting" /\ confirm'[c].ticket = u /\ confirm'[c].version = v
      BY <3>2, <2>1, <2>2 DEF UpdateInv, UpdateTypes, ConfirmFields
    <3>4. UpdateTypes'
      BY <3>1, <3>3, <2>3, <1>0, <1>a DEF UpdateInv, UpdateTypes, TicketStates
    <3>5. UnderWay'
      BY <3>3 DEF UpdateInv, UnderWay, ConfirmSteps
    <3>6. RunsReady' /\ PreferredReady'
      BY <3>1, <3>3, <2>3, <1>0, <1>a DEF UpdateInv, RunsReady, PreferredReady
    <3> QED
      BY <3>4, <3>5, <3>6, <2>4 DEF UpdateInv
  <2> QED
    BY <2>5, <2>6
<1> QED
  BY <1>1, <1>2 DEF ImportFails, ImportDone, rowVars

\* A candidate that starts is migrating; one whose migration fails is stopped, and
\* one that does not start never comes under supervision.
LEMMA CandidateSteps ==
  ASSUME UpdateInv, NEW c \in Confirmers, CandidateStarts(c) \/ CandidateFails(c) \/ UpdateFails(c)
  PROVE  UpdateInv'
<1>0. UNCHANGED <<diskVars, rowVars, removal, stopping, ready, installs>>
  BY DEF CandidateStarts, CandidateFails, UpdateFails
<1>a. confirm[c].pc \in {"starting", "migrating"}
  BY DEF CandidateStarts, CandidateFails, UpdateFails
<1>b. PICK v \in Versions : v = confirm[c].version
  BY <1>a DEF UpdateInv, UnderWay
<1>d. orphans' \subseteq orphans \cup {v}
  BY <1>b DEF CandidateStarts, CandidateFails, UpdateFails, LaunchFails
<1>1. CASE CandidateStarts(c)
  <2>1. running' = running \cup {v} /\ confirm' = [confirm EXCEPT ![c].pc = "migrating"]
    BY <1>1, <1>b DEF CandidateStarts
  <2>2. /\ DOMAIN confirm' = Confirmers /\ \A d \in Confirmers : d # c => confirm'[d] = confirm[d]
        /\ \A d \in Confirmers : DOMAIN confirm'[d] = ConfirmFields
        /\ confirm'[c].pc = "migrating" /\ confirm'[c].ticket = confirm[c].ticket /\ confirm'[c].version = v
    BY <2>1, <1>b DEF UpdateInv, UpdateTypes, ConfirmFields
  <2>3. UnderWay'
    BY <2>2, <1>a DEF UpdateInv, UnderWay, ConfirmSteps
  <2>4. RunsReady'
    BY <2>1, <2>2, <1>0, <1>b DEF UpdateInv, RunsReady, rowVars
  <2>5. UpdateTypes'
    BY <2>1, <2>2, <1>0, <1>d DEF UpdateInv, UpdateTypes, diskVars, rowVars
  <2> QED
    BY <2>3, <2>4, <2>5, <1>0 DEF UpdateInv, Offered, Consumed, PreferredReady, rowVars
<1>2. CASE UpdateFails(c) \/ CandidateFails(c)
  <2>1. v \notin running' /\ running' \subseteq running /\ confirm' = [confirm EXCEPT ![c] = NoConfirm]
    BY <1>2, <1>b DEF UpdateFails, CandidateFails, LaunchFails
  <2>2. /\ DOMAIN confirm' = Confirmers /\ UnderWay'
        /\ \A d \in Confirmers : DOMAIN confirm'[d] = ConfirmFields
        /\ \A d \in Confirmers : d # c => confirm'[d] = confirm[d]
    BY <2>1, BackToIdle DEF UpdateInv
  <2>3. RunsReady'
    BY <2>1, <2>2, <1>0, <1>b DEF UpdateInv, RunsReady, rowVars
  <2>4. UpdateTypes'
    BY <2>1, <2>2, <1>0, <1>d DEF UpdateInv, UpdateTypes, diskVars, rowVars
  <2> QED
    BY <2>2, <2>3, <2>4, <1>0 DEF UpdateInv, Offered, Consumed, PreferredReady, rowVars
<1> QED
  BY <1>1, <1>2

\* The swap makes a recorded candidate the preferred and a ready version.
LEMMA SwapStep ==
  ASSUME UpdateInv, NEW c \in Confirmers, Swap(c)
  PROVE  UpdateInv'
<1>0. UNCHANGED <<staged, installed, ticket, offers, recorded, enabled, pinned, orphans, removal, stopping, installs>>
  BY DEF Swap, diskVars
<1>a. PICK v \in Versions : v = confirm[c].version
  BY DEF Swap, UpdateInv, UnderWay
<1>1. /\ v \in recorded /\ preferred' = v /\ ready' = ready \cup {v} /\ running' \subseteq running
      /\ confirm' = [confirm EXCEPT ![c] = NoConfirm]
  BY <1>a DEF Swap
<1>2. /\ DOMAIN confirm' = Confirmers /\ UnderWay'
      /\ \A d \in Confirmers : DOMAIN confirm'[d] = ConfirmFields
      /\ \A d \in Confirmers : d # c => confirm'[d] = confirm[d]
  BY <1>1, BackToIdle DEF UpdateInv
<1>3. RunsReady'
  BY <1>0, <1>1, <1>2, <1>a, UpdateAssumption DEF UpdateInv, RunsReady
<1>4. UpdateTypes'
  BY <1>0, <1>1, <1>2 DEF UpdateInv, UpdateTypes
<1>5. PreferredReady'
  BY <1>0, <1>1 DEF PreferredReady
<1> QED
  BY <1>0, <1>2, <1>3, <1>4, <1>5 DEF UpdateInv, Offered, Consumed

\* Enabling, binding, writing, and the beginning and end of a disable.
LEMMA ServiceSteps ==
  ASSUME UpdateInv,
         \/ Enable \/ BindSession \/ (\E v \in Versions : WriteState(v)) \/ DisableEnds
         \/ \E kind \in {"disable", "uninstall"} : RemovalBegins(kind)
  PROVE  UpdateInv'
<1>0. UNCHANGED <<staged, installed, ticket, offers, recorded, preferred, confirm, ready, installs>>
  BY DEF Enable, BindSession, WriteState, DisableEnds, RemovalBegins, diskVars
<1>1. /\ running' \subseteq running \cup {preferred} /\ (running' \subseteq running \/ preferred # NoVersion)
      /\ pinned' \subseteq pinned \cup {preferred} /\ (pinned' = pinned \/ preferred \in running)
      /\ (enabled' => enabled \/ preferred # NoVersion)
      /\ removal' \in {"none", "disable", "uninstall"} /\ stopping' \subseteq Versions
  BY DEF Enable, LaunchFails, BindSession, WriteState, DisableEnds, RemovalBegins, UpdateInv, UpdateTypes, containers
<1>a. orphans' \subseteq orphans \cup {preferred} /\ (orphans' = orphans \/ preferred # NoVersion)
  BY DEF Enable, LaunchFails, BindSession, WriteState, DisableEnds, RemovalBegins, containers
<1>2. UpdateTypes'
  BY <1>0, <1>1, <1>a DEF UpdateInv, UpdateTypes
<1>3. RunsReady'
  BY <1>0, <1>1, UpdateAssumption DEF UpdateInv, UpdateTypes, RunsReady, PreferredReady
<1> QED
  BY <1>0, <1>2, <1>3 DEF UpdateInv, UnderWay, Offered, Consumed, PreferredReady

\* The uninstall forgets the records, not what its tickets installed.
LEMMA UninstallStep ==
  ASSUME UpdateInv, UninstallEnds
  PROVE  UpdateInv'
<1>1. UpdateTypes'
  BY DEF UpdateInv, UpdateTypes, UninstallEnds, TicketStates
<1>2. Offered' /\ Consumed'
  BY DEF UpdateInv, UpdateTypes, Offered, Consumed, UninstallEnds, TicketStates
<1>3. UnderWay' /\ PreferredReady' /\ RunsReady'
  BY DEF UpdateInv, UnderWay, PreferredReady, RunsReady, UninstallEnds
<1> QED
  BY <1>1, <1>2, <1>3 DEF UpdateInv

\* A restart of the Host runs the preferred version and the bound ones, as far as they start.
LEMMA RebootStep ==
  ASSUME UpdateInv, HostReboots
  PROVE  UpdateInv'
<1>0. UNCHANGED <<installed, offers, recorded, preferred, enabled, pinned, ready, installs>>
  BY DEF HostReboots
<1>1. /\ running' \subseteq {preferred} \cup pinned /\ (running' # {} => enabled)
      /\ orphans' \subseteq {preferred} \cup pinned /\ (orphans' # {} => enabled)
  <2> DEFINE starts == IF enabled THEN {preferred} \cup pinned ELSE {}
  <2>1. running' \subseteq starts /\ orphans' \subseteq starts
    BY DEF HostReboots
  <2> QED
    BY <2>1
<1>2. DOMAIN confirm' = Confirmers /\ \A d \in Confirmers : confirm'[d].pc = "idle" /\ DOMAIN confirm'[d] = ConfirmFields
  BY IdleConfirm DEF HostReboots
<1>3. RunsReady'
  BY <1>0, <1>1 DEF UpdateInv, RunsReady, PreferredReady
<1>4. UpdateTypes'
  <2>1. /\ ticket' \in [Tickets -> TicketStates] /\ staged' \subseteq Tickets
        /\ removal' = "none" /\ stopping' = {}
    BY DEF HostReboots, UpdateInv, UpdateTypes, TicketStates
  <2>2. running' \subseteq Versions /\ orphans' \subseteq Versions
    BY <1>1 DEF UpdateInv, UpdateTypes, RunsReady
  <2> QED
    BY <1>0, <1>2, <2>1, <2>2 DEF UpdateInv, UpdateTypes
<1>5. Offered' /\ Consumed'
  BY <1>0 DEF UpdateInv, UpdateTypes, Offered, Consumed, HostReboots
<1>6. UnderWay' /\ PreferredReady'
  BY <1>0, <1>2 DEF UpdateInv, UnderWay, PreferredReady, ConfirmSteps
<1> QED
  BY <1>3, <1>4, <1>5, <1>6 DEF UpdateInv

\* Every step of the update protocol preserves the invariant.
LEMMA UpdateStep == UpdateInv /\ [UpdateNext]_updateVars => UpdateInv'
<1> SUFFICES ASSUME UpdateInv, [UpdateNext]_updateVars PROVE UpdateInv'
  OBVIOUS
<1>1. CASE UNCHANGED updateVars
  BY <1>1 DEF updateVars, diskVars, rowVars, containers, UpdateInv, UpdateTypes, UnderWay, Offered, Consumed,
     PreferredReady, RunsReady
<1>2. CASE UpdateNext
  BY <1>2, TicketSteps, ConfirmBeginStep, ImportSteps, CandidateSteps, SwapStep, ServiceSteps, UninstallStep,
     RebootStep DEF UpdateNext
<1> QED
  BY <1>1, <1>2

\* confirm_install, _activate_installed_package, disable, uninstall and start():
\* for any number of versions, tickets and overlapping confirmations a ticket
\* records one package, the preferred version is recorded and was installed
\* first or migrated, and no failed candidate stays under supervision.
THEOREM UpdateSafeHolds == UpdateSpec => []UpdateSafe
<1>1. UpdateSpec => []UpdateInv
  BY UpdateStarts, UpdateStep, PTL DEF UpdateSpec
<1> QED
  BY <1>1, UpdateInvSafe, PTL

recordVars == <<part, jobVars, packageVars, candidateVars, brokerVars, updateVars, courseVars>>

\* The same in the composition, where the other services take their turns.
THEOREM RecordsKeepUpdateSafe == RecordsSpec => []UpdateSafe
<1>1. RecordsInit => UpdateInv
  BY UpdateStarts DEF RecordsInit
<1>2. UpdateInv /\ [RecordsNext]_recordVars => UpdateInv'
  <2>1. [RecordsNext]_recordVars => [UpdateNext]_updateVars
    BY DEF RecordsNext, JobsPart, PackagesPart, CandidatesPart, BrokerPart, UpdatePart, CoursePart, recordVars
  <2> QED
    BY <2>1, UpdateStep
<1>3. RecordsSpec => []UpdateInv
  BY <1>1, <1>2, PTL DEF RecordsSpec, recordVars
<1> QED
  BY <1>3, UpdateInvSafe, PTL

-----------------------------------------------------------------------------
(* The capability boundary.                                                *)

Rows == [call : Keyed \cup {"none"}, body : Bodies \cup {0},
         status : {"none", "pending", "completed", "failed"}, result : Nat]

BrokerTypes ==
  /\ BrokerTypeOK
  /\ effects \in [CallKeys -> Nat]

\* A key has no effect before its row; its model call has none before it is
\* made, and is under way only while the row is pending.
KeyState ==
  \A k \in CallKeys :
    /\ effects[k] <= 1
    /\ invocation[k] = NoRow => effects[k] = 0 /\ remote[k] = "none"
    /\ remote[k] # "none" => invocation[k].status = "pending" /\ invocation[k].call = "model.invoke"
    /\ remote[k] = "queued" => effects[k] = 0

\* What the plugin was told is what a completed row holds.
ToldRows ==
  \A a \in answers : \E k \in CallKeys :
    invocation[k].status = "completed" /\ a = <<k, invocation[k].call, invocation[k].result>>

BrokerInv == BrokerTypes /\ KeyState /\ ToldRows /\ FetchConfined

\* What the invariant gives: all of BrokerSafe but the quota, which needs the
\* sums below.
KeysAndHosts == BrokerTypeOK /\ KeyedOnce /\ FetchConfined

\* Two answers to one key are the row's.
LEMMA BrokerInvSafe == BrokerInv => KeysAndHosts
<1> SUFFICES ASSUME BrokerInv PROVE KeysAndHosts
  OBVIOUS
<1>1. ASSUME NEW a \in answers, NEW b \in answers, a[1] = b[1] PROVE a = b
  <2>1. PICK k \in CallKeys : a = <<k, invocation[k].call, invocation[k].result>>
    BY DEF BrokerInv, ToldRows
  <2>2. PICK m \in CallKeys : b = <<m, invocation[m].call, invocation[m].result>>
    BY DEF BrokerInv, ToldRows
  <2>3. k = m
    BY <1>1, <2>1, <2>2
  <2> QED
    BY <2>1, <2>2, <2>3
<1> QED
  BY <1>1 DEF BrokerInv, BrokerTypes, KeyState, KeyedOnce, KeysAndHosts

\* A key without a row is one no capability has used.
LEMMA NoRowIs == NoRow \in Rows /\ NoRow.status = "none" /\ NoRow.call = "none"
BY DEF NoRow, Rows

\* Nothing is stored, told or contacted at first.
LEMMA BrokerStarts == BrokerInit => BrokerInv
<1> SUFFICES ASSUME BrokerInit PROVE BrokerInv
  OBVIOUS
<1>1. invocation \in [CallKeys -> Rows]
  BY NoRowIs DEF BrokerInit
<1>2. item \in [StateItems -> [version : Nat, size : Nat]] /\ shownView \in [version : Nat, body : Nat]
  BY DEF BrokerInit
<1>3. documents \in Seq(Bodies) /\ accepted \subseteq Bodies /\ authority \in BOOLEAN
      /\ remote \in [CallKeys -> {"none", "queued", "calling"}] /\ effects \in [CallKeys -> Nat]
  BY DEF BrokerInit
<1>4. KeyState /\ ToldRows /\ FetchConfined
  BY DEF BrokerInit, KeyState, ToldRows, FetchConfined
<1> QED
  BY <1>1, <1>2, <1>3, <1>4 DEF BrokerInv, BrokerTypes, BrokerTypeOK, Rows

\* Steps that leave the rows, the model calls and the effects alone.
LEMMA BrokerFrame ==
  ASSUME BrokerInv, UNCHANGED <<invocation, remote, effects>>,
         item' \in [StateItems -> [version : Nat, size : Nat]], shownView' \in [version : Nat, body : Nat],
         UNCHANGED documents, UNCHANGED accepted, authority' \in BOOLEAN,
         \A a \in answers' : a \in answers \/
           \E k \in CallKeys : invocation[k].status = "completed" /\ a = <<k, invocation[k].call, invocation[k].result>>,
         \A h \in contacted' : h \in contacted \/ Contactable(h)
  PROVE  BrokerInv'
<1>1. BrokerTypes'
  BY DEF BrokerInv, BrokerTypes, BrokerTypeOK
<1>2. KeyState'
  BY DEF BrokerInv, KeyState
<1>3. ToldRows'
  BY DEF BrokerInv, ToldRows
<1>4. FetchConfined'
  BY DEF BrokerInv, FetchConfined, Contactable
<1> QED
  BY <1>1, <1>2, <1>3, <1>4 DEF BrokerInv

\* A repeated key, a refused request, state, views, fetches and the end of the
\* grants change no row.
LEMMA RowlessSteps ==
  ASSUME BrokerInv,
         \/ \E k \in CallKeys, body \in Bodies, call \in Keyed : ResumeCall(k, call, body)
         \/ RolledBack \/ AuthorityEnds
         \/ \E i \in StateItems, size \in Bodies : \E expected \in 0..item[i].version : PutState(i, expected, size)
         \/ \E version \in 1..2, body \in Bodies : PublishView(version, body)
         \/ \E first \in Hops, fine \in BOOLEAN : \E then \in {<<>>} \cup {<<hop>> : hop \in Hops} :
              Fetch(<<first>> \o then, fine)
  PROVE  BrokerInv'
<1>0. /\ item \in [StateItems -> [version : Nat, size : Nat]] /\ shownView \in [version : Nat, body : Nat]
      /\ authority \in BOOLEAN
  BY DEF BrokerInv, BrokerTypes, BrokerTypeOK
<1>1. CASE \E k \in CallKeys, body \in Bodies, call \in Keyed : ResumeCall(k, call, body)
  <2> PICK k \in CallKeys, body \in Bodies, call \in Keyed : ResumeCall(k, call, body)
    BY <1>1
  <2>1. UNCHANGED <<invocation, remote, effects, item, shownView, documents, accepted, authority, contacted>>
    BY DEF ResumeCall
  <2>2. \A a \in answers' : a \in answers \/ (invocation[k].status = "completed"
                                             /\ a = <<k, invocation[k].call, invocation[k].result>>)
    BY DEF ResumeCall, Answered, SameRequest
  <2> QED
    BY <1>0, <2>1, <2>2, BrokerFrame
<1>2. CASE RolledBack
  BY <1>0, <1>2, BrokerFrame DEF RolledBack
<1>3. CASE AuthorityEnds
  BY <1>0, <1>3, BrokerFrame DEF AuthorityEnds
<1>4. CASE \E i \in StateItems, size \in Bodies : \E expected \in 0..item[i].version : PutState(i, expected, size)
  <2> PICK i \in StateItems, size \in Bodies : \E expected \in 0..item[i].version : PutState(i, expected, size)
    BY <1>4
  <2>1. UNCHANGED <<invocation, remote, effects, shownView, documents, accepted, authority, contacted, answers>>
    BY DEF PutState
  <2>2. item' = [item EXCEPT ![i] = [version |-> item[i].version + 1, size |-> size]]
    BY DEF PutState
  <2>3. item' \in [StateItems -> [version : Nat, size : Nat]]
    BY <1>0, <2>2, BrokerAssumption
  <2> QED
    BY <1>0, <2>1, <2>3, BrokerFrame
<1>5. CASE \E version \in 1..2, body \in Bodies : PublishView(version, body)
  <2>1. shownView' \in [version : Nat, body : Nat]
    BY <1>5, BrokerAssumption DEF PublishView
  <2> QED
    BY <1>0, <1>5, <2>1, BrokerFrame DEF PublishView
<1>6. CASE \E first \in Hops, fine \in BOOLEAN : \E then \in {<<>>} \cup {<<hop>> : hop \in Hops} :
             Fetch(<<first>> \o then, fine)
  <2> PICK first \in Hops, fine \in BOOLEAN, then \in {<<>>} \cup {<<hop>> : hop \in Hops} :
        Fetch(<<first>> \o then, fine)
    BY <1>6
  <2> PICK chain : chain = <<first>> \o then
    OBVIOUS
  <2>1. Len(chain) \in Nat
    OBVIOUS
  <2>2. \A h \in Reached(chain) : Contactable(h)
    BY <2>1 DEF Reached
  <2>3. contacted' = contacted \cup Reached(chain)
    BY DEF Fetch
  <2>4. UNCHANGED <<invocation, remote, effects, item, shownView, documents, accepted, authority, answers>>
    BY DEF Fetch
  <2> QED
    BY <1>0, <2>2, <2>3, <2>4, BrokerFrame
<1> QED
  BY <1>1, <1>2, <1>3, <1>4, <1>5, <1>6

\* A key's first use by a local capability: row, effect and answer in one commit.
LEMMA CompletedStep ==
  ASSUME BrokerInv, NEW k \in CallKeys, NEW call \in Keyed, NEW body \in Bodies, NEW result \in Nat,
         invocation[k] = NoRow, CompletedCall(k, call, body, result),
         UNCHANGED <<item, shownView, authority, remote, contacted>>,
         documents' \in Seq(Bodies), accepted' \subseteq Bodies
  PROVE  BrokerInv'
<1>1. PICK r : r = [call |-> call, body |-> body, status |-> "completed", result |-> result]
  OBVIOUS
<1>2. r \in Rows /\ r.call = call /\ r.status = "completed" /\ r.result = result /\ r # NoRow
  BY <1>1, NoRowIs DEF Rows
<1>3. /\ invocation' = [invocation EXCEPT ![k] = r] /\ effects' = [effects EXCEPT ![k] = @ + 1]
      /\ answers' = answers \cup {<<k, call, result>>}
  BY <1>1 DEF CompletedCall, Effect, Answered
<1>4. /\ invocation \in [CallKeys -> Rows] /\ effects \in [CallKeys -> Nat]
      /\ remote \in [CallKeys -> {"none", "queued", "calling"}]
  BY DEF BrokerInv, BrokerTypes, BrokerTypeOK, Rows
<1>5. invocation' \in [CallKeys -> Rows] /\ effects' \in [CallKeys -> Nat]
  BY <1>2, <1>3, <1>4
<1>6. BrokerTypes'
  BY <1>5 DEF BrokerInv, BrokerTypes, BrokerTypeOK, Rows
<1>7. KeyState'
  BY <1>2, <1>3, <1>4 DEF BrokerInv, KeyState
<1>8. ToldRows'
  <2> SUFFICES ASSUME NEW a \in answers'
               PROVE  \E m \in CallKeys : invocation'[m].status = "completed"
                                         /\ a = <<m, invocation'[m].call, invocation'[m].result>>
    BY DEF ToldRows
  <2>1. CASE a \in answers
    <3>1. PICK m \in CallKeys : invocation[m].status = "completed" /\ a = <<m, invocation[m].call, invocation[m].result>>
      BY <2>1 DEF BrokerInv, ToldRows
    <3>2. m # k
      BY <3>1, NoRowIs
    <3> QED
      BY <3>1, <3>2, <1>3, <1>4
  <2>2. CASE a = <<k, call, result>>
    BY <2>2, <1>2, <1>3, <1>4
  <2> QED
    BY <2>1, <2>2, <1>3
<1>9. FetchConfined'
  BY DEF BrokerInv, FetchConfined, Contactable
<1> QED
  BY <1>6, <1>7, <1>8, <1>9 DEF BrokerInv

\* document.publish and meeting.execution.submit are such uses.
LEMMA LocalSteps ==
  ASSUME BrokerInv, NEW k \in CallKeys, NEW body \in Bodies, PublishDocument(k, body) \/ SubmitExecution(k, body)
  PROVE  BrokerInv'
<1>0. documents \in Seq(Bodies) /\ accepted \subseteq Bodies
  BY DEF BrokerInv, BrokerTypes, BrokerTypeOK
<1>1. CASE PublishDocument(k, body)
  <2>1. PICK docs : docs = Published(body)
    OBVIOUS
  <2>2. docs \in Seq(Bodies)
    BY <1>0, <2>1 DEF Published
  <2>3. Len(docs) \in Nat
    BY <2>2
  <2>4. CompletedCall(k, "document.publish", body, Len(docs)) /\ documents' = docs /\ accepted' = accepted
    BY <1>1, <2>1 DEF PublishDocument
  <2>5. invocation[k] = NoRow /\ UNCHANGED <<item, shownView, authority, remote, contacted>>
    BY <1>1 DEF PublishDocument
  <2> QED
    BY <1>0, <2>2, <2>3, <2>4, <2>5, CompletedStep DEF Keyed
<1>2. CASE SubmitExecution(k, body)
  <2>1. /\ CompletedCall(k, "meeting.execution.submit", body, body) /\ invocation[k] = NoRow
        /\ UNCHANGED <<item, shownView, documents, authority, remote, contacted>>
        /\ accepted' = accepted \cup {body} /\ body \in Nat
    BY <1>2, BrokerAssumption DEF SubmitExecution
  <2> QED
    BY <1>0, <2>1, CompletedStep DEF Keyed
<1> QED
  BY <1>1, <1>2

\* A model call: the pending row, the call, its answer or failure.
LEMMA ModelSteps ==
  ASSUME BrokerInv, NEW k \in CallKeys,
         (\E body \in Bodies : ModelBegin(k, body) \/ ModelAnswers(k, body)) \/ ModelCall(k) \/ ModelFails(k)
  PROVE  BrokerInv'
<1>0. /\ invocation \in [CallKeys -> Rows] /\ effects \in [CallKeys -> Nat]
      /\ remote \in [CallKeys -> {"none", "queued", "calling"}]
  BY DEF BrokerInv, BrokerTypes, BrokerTypeOK, Rows
<1>f. ASSUME UNCHANGED <<item, shownView, documents, accepted, authority, contacted>>,
             invocation' \in [CallKeys -> Rows], effects' \in [CallKeys -> Nat],
             remote' \in [CallKeys -> {"none", "queued", "calling"}], KeyState', ToldRows'
      PROVE  BrokerInv'
  <2>1. BrokerTypes'
    BY <1>f DEF BrokerInv, BrokerTypes, BrokerTypeOK, Rows
  <2>2. FetchConfined'
    BY <1>f DEF BrokerInv, FetchConfined, Contactable
  <2> QED
    BY <1>f, <2>1, <2>2 DEF BrokerInv
<1>t. ASSUME NEW r \in Rows, invocation' = [invocation EXCEPT ![k] = r], invocation[k].status # "completed",
             \A a \in answers' : a \in answers \/ (r.status = "completed" /\ a = <<k, r.call, r.result>>)
      PROVE  ToldRows'
  <2> SUFFICES ASSUME NEW a \in answers'
               PROVE  \E m \in CallKeys : invocation'[m].status = "completed"
                                         /\ a = <<m, invocation'[m].call, invocation'[m].result>>
    BY DEF ToldRows
  <2>1. CASE a \in answers
    <3>1. PICK m \in CallKeys : invocation[m].status = "completed" /\ a = <<m, invocation[m].call, invocation[m].result>>
      BY <2>1 DEF BrokerInv, ToldRows
    <3> QED
      BY <3>1, <1>0, <1>t
  <2>2. CASE a \notin answers
    BY <2>2, <1>0, <1>t
  <2> QED
    BY <2>1, <2>2
<1>1. CASE \E body \in Bodies : ModelBegin(k, body)
  <2> PICK body \in Bodies : ModelBegin(k, body)
    BY <1>1
  <2>1. PICK r : r = [call |-> "model.invoke", body |-> body, status |-> "pending", result |-> 0]
    OBVIOUS
  <2>2. r \in Rows /\ r.call = "model.invoke" /\ r.status = "pending" /\ r # NoRow
    BY <2>1, NoRowIs DEF Rows, Keyed
  <2>3. /\ invocation[k] = NoRow /\ invocation' = [invocation EXCEPT ![k] = r]
        /\ remote' = [remote EXCEPT ![k] = "queued"]
        /\ UNCHANGED <<item, shownView, documents, accepted, authority, contacted, effects, answers>>
    BY <2>1 DEF ModelBegin
  <2>4. ToldRows'
    BY <2>2, <2>3, <1>t, NoRowIs
  <2>5. KeyState'
    BY <2>2, <2>3, <1>0 DEF BrokerInv, KeyState
  <2> QED
    BY <2>2, <2>3, <2>4, <2>5, <1>0, <1>f
<1>2. CASE ModelCall(k)
  <2>1. /\ remote[k] = "queued" /\ remote' = [remote EXCEPT ![k] = "calling"]
        /\ effects' = [effects EXCEPT ![k] = @ + 1]
        /\ UNCHANGED <<item, shownView, documents, accepted, authority, contacted, invocation, answers>>
    BY <1>2 DEF ModelCall, Effect
  <2>2. KeyState'
    BY <2>1, <1>0, NoRowIs DEF BrokerInv, KeyState
  <2>3. ToldRows'
    BY <2>1 DEF BrokerInv, ToldRows
  <2> QED
    BY <2>1, <2>2, <2>3, <1>0, <1>f
<1>3. CASE (\E body \in Bodies : ModelAnswers(k, body)) \/ ModelFails(k)
  <2>1. /\ remote[k] = "calling" /\ remote' = [remote EXCEPT ![k] = "none"]
        /\ UNCHANGED <<item, shownView, documents, accepted, authority, contacted, effects>>
    BY <1>3 DEF ModelAnswers, ModelFails
  <2>2. invocation[k].status = "pending" /\ invocation[k].call = "model.invoke"
    BY <2>1 DEF BrokerInv, KeyState
  <2>3. PICK r \in Rows : /\ invocation' = [invocation EXCEPT ![k] = r] /\ r.status \in {"completed", "failed"}
                          /\ \A a \in answers' : a \in answers \/ (r.status = "completed" /\ a = <<k, r.call, r.result>>)
    <3>1. CASE \E body \in Bodies : ModelAnswers(k, body)
      <4> PICK body \in Bodies : ModelAnswers(k, body)
        BY <3>1
      <4>1. PICK r : r = [invocation[k] EXCEPT !.status = "completed", !.result = body]
        OBVIOUS
      <4>2. r \in Rows /\ r.status = "completed" /\ r.result = body /\ r.call = "model.invoke"
        BY <4>1, <2>2, <1>0, BrokerAssumption DEF Rows
      <4>3. invocation' = [invocation EXCEPT ![k] = r]
        BY <4>1, <1>0 DEF ModelAnswers
      <4>4. answers' = answers \cup {<<k, "model.invoke", body>>}
        BY DEF ModelAnswers, Answered
      <4> QED
        BY <4>2, <4>3, <4>4
    <3>2. CASE ModelFails(k)
      <4>1. PICK r : r = [invocation[k] EXCEPT !.status = "failed"]
        OBVIOUS
      <4>2. r \in Rows /\ r.status = "failed"
        BY <4>1, <1>0 DEF Rows
      <4>3. invocation' = [invocation EXCEPT ![k] = r] /\ answers' = answers
        BY <3>2, <4>1, <1>0 DEF ModelFails
      <4> QED
        BY <4>2, <4>3
    <3> QED
      BY <1>3, <3>1, <3>2
  <2>4. ToldRows'
    BY <2>2, <2>3, <1>t
  <2>5. KeyState'
    BY <2>1, <2>2, <2>3, <1>0, NoRowIs DEF BrokerInv, KeyState
  <2>6. invocation' \in [CallKeys -> Rows] /\ remote' \in [CallKeys -> {"none", "queued", "calling"}]
    BY <2>1, <2>3, <1>0
  <2> QED
    BY <2>1, <2>4, <2>5, <2>6, <1>0, <1>f
<1> QED
  BY <1>1, <1>2, <1>3

\* The death of the Host loses the calls and keeps the rows.
LEMMA HostDiesStep == ASSUME BrokerInv, HostDies PROVE BrokerInv'
<1>1. /\ remote' = [k \in CallKeys |-> "none"]
      /\ UNCHANGED <<invocation, item, shownView, documents, accepted, authority, effects, answers, contacted>>
  BY DEF HostDies
<1>2. BrokerTypes'
  BY <1>1 DEF BrokerInv, BrokerTypes, BrokerTypeOK
<1>3. KeyState'
  BY <1>1 DEF BrokerInv, KeyState
<1> QED
  BY <1>1, <1>2, <1>3 DEF BrokerInv, ToldRows, FetchConfined, Contactable

\* Every step of the boundary preserves the invariant.
LEMMA BrokerStep == BrokerInv /\ [BrokerNext]_brokerVars => BrokerInv'
<1> SUFFICES ASSUME BrokerInv, [BrokerNext]_brokerVars PROVE BrokerInv'
  OBVIOUS
<1>1. CASE UNCHANGED brokerVars
  BY <1>1 DEF brokerVars, BrokerInv, BrokerTypes, BrokerTypeOK, KeyState, ToldRows, FetchConfined, Contactable
<1>2. CASE BrokerNext
  BY <1>2, RowlessSteps, LocalSteps, ModelSteps, HostDiesStep DEF BrokerNext
<1> QED
  BY <1>1, <1>2

-----------------------------------------------------------------------------
(* Jobs, artifacts and reviews.                                            *)

RowFields == {"status", "kind", "target", "result"}

WorkFields == {"pc", "job", "chunk", "attempt", "cited", "version"}

ArtifactFields == {"kind", "target", "version", "status", "parent", "cited", "job"}

ReviewFields == {"pc", "artifact", "cited", "version"}

ArtifactTypes == IsSeq(artifacts) /\ \A a \in DOMAIN artifacts : DOMAIN artifacts[a] = ArtifactFields

RowTypes == DOMAIN jobs = Jobs /\ \A j \in Jobs : DOMAIN jobs[j] = RowFields

WorkTypes == DOMAIN work = Workers /\ \A w \in Workers : DOMAIN work[w] = WorkFields

ReviewTypes == DOMAIN review = Reviewers /\ \A r \in Reviewers : DOMAIN review[r] = ReviewFields

\* What is queued or in the hands of a worker was submitted.
Submitted ==
  /\ jobQueue \in Seq(Jobs) /\ \A i \in DOMAIN jobQueue : jobs[jobQueue[i]].status # "none"
  /\ \A w \in Workers :
       work[w].pc # "waiting" => work[w].job \in Jobs /\ jobs[work[w].job].status # "none"

\* What EvidenceComplete says of an artifact.
CitesWell(k, cited) ==
  /\ Cites(cited) \subseteq Items
  /\ k \in Complete => Cites(cited) = Items /\ CitesOnce(cited)

\* A draft that is about to be stored was validated.
DraftsValid == \A w \in Workers : work[w].pc = "storing" => CitesWell(jobs[work[w].job].kind, work[w].cited)

\* A review under way is of an artifact, and an edit repeats its citations.
ReviewsFit ==
  \A r \in Reviewers :
    /\ review[r].pc # "idle" => review[r].artifact \in DOMAIN artifacts
    /\ review[r].pc = "editing" => review[r].cited = artifacts[review[r].artifact].cited

JobsInv ==
  /\ ArtifactTypes /\ RowTypes /\ WorkTypes /\ ReviewTypes /\ Submitted /\ DraftsValid /\ ReviewsFit
  /\ JobMatchesArtifact /\ EvidenceComplete /\ OneApproved

\* No job and no artifact at first.
LEMMA JobsStart == JobsInit => JobsInv
<1> SUFFICES ASSUME JobsInit PROVE JobsInv
  OBVIOUS
<1>1. artifacts = <<>> /\ jobQueue = <<>>
  BY DEF JobsInit
<1>2. IsSeq(artifacts) /\ DOMAIN artifacts = {} /\ jobQueue \in Seq(Jobs) /\ DOMAIN jobQueue = {}
  <2>1. <<>> \in Seq({}) /\ <<>> \in Seq(Jobs) /\ DOMAIN <<>> = {}
    OBVIOUS
  <2> QED
    BY <1>1, <2>1 DEF IsSeq
<1>3. /\ \A j \in Jobs : DOMAIN jobs[j] = RowFields /\ jobs[j].status = "none"
      /\ \A w \in Workers : DOMAIN work[w] = WorkFields /\ work[w].pc = "waiting"
      /\ \A r \in Reviewers : DOMAIN review[r] = ReviewFields /\ review[r].pc = "idle"
      /\ DOMAIN jobs = Jobs /\ DOMAIN work = Workers /\ DOMAIN review = Reviewers
  BY DEF JobsInit, NoJob, NoWork, NoReview, RowFields, WorkFields, ReviewFields
<1> QED
  BY <1>2, <1>3 DEF JobsInv, ArtifactTypes, RowTypes, WorkTypes, ReviewTypes, Submitted, DraftsValid,
       ReviewsFit, JobMatchesArtifact, EvidenceComplete, OneApproved

(* What a step that touches no artifact may do to the rows of jobs.        *)
RowsGoOn ==
  \A j \in Jobs :
    /\ jobs[j].status # "none" => jobs'[j].status # "none" /\ jobs'[j].kind = jobs[j].kind
    /\ jobs[j].status = "completed" <=> jobs'[j].status = "completed"
    /\ jobs[j].status = "completed" => jobs'[j].result = jobs[j].result

\* A step that leaves artifacts and reviews alone.
LEMMA Aside ==
  ASSUME JobsInv, artifacts' = artifacts, review' = review, RowTypes', WorkTypes', RowsGoOn,
         Submitted', DraftsValid'
  PROVE  JobsInv'
<1>1. ArtifactTypes' /\ ReviewTypes' /\ ReviewsFit' /\ EvidenceComplete' /\ OneApproved'
  BY DEF JobsInv, ArtifactTypes, ReviewTypes, ReviewsFit, EvidenceComplete, OneApproved, SameIdentity
<1>2. JobMatchesArtifact'
  BY DEF JobsInv, JobMatchesArtifact, RowsGoOn
<1> QED
  BY <1>1, <1>2 DEF JobsInv

\* The record of an idle worker.
LEMMA IdleWork == NoWork.pc = "waiting" /\ DOMAIN NoWork = WorkFields
BY DEF NoWork, WorkFields

(* What a step may do to the workers: each goes on with its job, neither   *)
(* about to store nor with other citations, or is idle.                    *)
WorkersGoOn ==
  /\ DOMAIN work' = Workers
  /\ \A w \in Workers :
       /\ DOMAIN work'[w] = WorkFields
       /\ \/ work'[w].pc = "waiting"
          \/ work'[w] = work[w]
          \/ work[w].pc # "waiting" /\ work'[w].job = work[w].job /\ work'[w].pc # "storing"

\* With rows and workers that go on, what was submitted stays so.
LEMMA GoesOn ==
  ASSUME JobsInv, RowsGoOn, WorkersGoOn, jobQueue' \in Seq(Jobs),
         \A i \in DOMAIN jobQueue' : jobs'[jobQueue'[i]].status # "none"
  PROVE  WorkTypes' /\ Submitted' /\ DraftsValid'
<1>1. WorkTypes'
  BY DEF WorkersGoOn, WorkTypes
<1>2. ASSUME NEW w \in Workers, work'[w].pc # "waiting"
      PROVE  /\ work[w].pc # "waiting" /\ work'[w].job = work[w].job
             /\ work'[w].job \in Jobs /\ jobs'[work'[w].job].status # "none"
             /\ jobs'[work'[w].job].kind = jobs[work[w].job].kind
             /\ work'[w].pc = "storing" => work'[w] = work[w]
  <2>1. work[w].pc # "waiting" /\ work'[w].job = work[w].job /\ (work'[w].pc = "storing" => work'[w] = work[w])
    BY <1>2 DEF WorkersGoOn
  <2>2. work[w].job \in Jobs /\ jobs[work[w].job].status # "none"
    BY <2>1 DEF JobsInv, Submitted
  <2> QED
    BY <2>1, <2>2 DEF RowsGoOn
<1>3. Submitted'
  BY <1>2 DEF Submitted
<1>4. DraftsValid'
  BY <1>2 DEF DraftsValid, JobsInv, CitesWell, Cites, CitesOnce, Items, Complete
<1> QED
  BY <1>1, <1>3, <1>4

\* Rows that stay as they are go on.
LEMMA RowsStay == ASSUME jobs' = jobs PROVE RowsGoOn
BY DEF RowsGoOn

\* The queue of rows that go on.
LEMMA QueueStays ==
  ASSUME JobsInv, RowsGoOn, jobQueue' = jobQueue
  PROVE  jobQueue' \in Seq(Jobs) /\ \A i \in DOMAIN jobQueue' : jobs'[jobQueue'[i]].status # "none"
<1>1. jobQueue \in Seq(Jobs) /\ \A i \in DOMAIN jobQueue : jobs[jobQueue[i]].status # "none"
  BY DEF JobsInv, Submitted
<1>2. \A i \in DOMAIN jobQueue : jobQueue[i] \in Jobs
  BY <1>1
<1> QED
  BY <1>1, <1>2 DEF RowsGoOn

\* A job becomes a row, then an id in the queue.
LEMMA SubmitStep ==
  ASSUME JobsInv, NEW j \in Jobs, NEW k, NEW target, Submit(j, k, target) PROVE JobsInv'
<1>1. /\ jobs[j].status = "none" /\ jobs' = [jobs EXCEPT ![j] = Queued(k, target)]
      /\ jobQueue' = Append(jobQueue, j) /\ UNCHANGED <<artifacts, review, work>>
  BY DEF Submit
<1>2. RowTypes' /\ jobs'[j].status = "queued" /\ \A i \in Jobs \ {j} : jobs'[i] = jobs[i]
  BY <1>1 DEF JobsInv, RowTypes, Queued, RowFields
<1>3. RowsGoOn
  BY <1>1, <1>2 DEF RowsGoOn
<1>4. WorkersGoOn
  BY <1>1 DEF WorkersGoOn, JobsInv, WorkTypes
<1>5. jobQueue' \in Seq(Jobs) /\ \A i \in DOMAIN jobQueue' : jobs'[jobQueue'[i]].status # "none"
  <2>1. jobQueue \in Seq(Jobs) /\ \A i \in DOMAIN jobQueue : jobs[jobQueue[i]].status # "none"
    BY DEF JobsInv, Submitted
  <2>2. \A i \in DOMAIN jobQueue : jobQueue[i] \in Jobs /\ jobs'[jobQueue[i]].status # "none"
    BY <2>1, <1>3 DEF RowsGoOn
  <2>3. \A i \in DOMAIN jobQueue' : (i \in DOMAIN jobQueue /\ jobQueue'[i] = jobQueue[i]) \/ jobQueue'[i] = j
    BY <2>1, <1>1
  <2> QED
    BY <1>1, <1>2, <2>1, <2>2, <2>3
<1> QED
  BY <1>1, <1>2, <1>3, <1>4, <1>5, GoesOn, Aside

\* A cancellation marks the row and ends the task that works on it.
LEMMA CancelStep == ASSUME JobsInv, NEW j \in Jobs, CancelJob(j) PROVE JobsInv'
<1>1. /\ Unfinished(j) /\ jobs' = [jobs EXCEPT ![j].status = "cancelled"]
      /\ work' = [w \in Workers |-> IF work[w].job = j THEN NoWork ELSE work[w]]
      /\ UNCHANGED <<jobQueue, artifacts, review>>
  BY DEF CancelJob, Cancelled
<1>2. /\ RowTypes' /\ jobs'[j].status = "cancelled" /\ jobs'[j].kind = jobs[j].kind
      /\ \A i \in Jobs \ {j} : jobs'[i] = jobs[i]
  BY <1>1 DEF JobsInv, RowTypes, RowFields
<1>3. RowsGoOn
  BY <1>1, <1>2 DEF RowsGoOn, Unfinished
<1>4. WorkersGoOn
  BY <1>1, IdleWork DEF WorkersGoOn, JobsInv, WorkTypes
<1> QED
  BY <1>1, <1>2, <1>3, <1>4, QueueStays, GoesOn, Aside

\* A worker task takes the next id.
LEMMA TakeStep == ASSUME JobsInv, NEW w \in Workers, TakeJob(w) PROVE JobsInv'
<1>1. /\ work[w].pc = "waiting" /\ jobQueue # <<>> /\ jobQueue' = Tail(jobQueue)
      /\ work' = [work EXCEPT ![w] = [NoWork EXCEPT !.pc = "taken", !.job = Head(jobQueue)]]
      /\ UNCHANGED <<jobs, artifacts, review>>
  BY DEF TakeJob
<1>2. jobQueue \in Seq(Jobs) /\ \A i \in DOMAIN jobQueue : jobs[jobQueue[i]].status # "none"
  BY DEF JobsInv, Submitted
<1>3. /\ Head(jobQueue) \in Jobs /\ jobs[Head(jobQueue)].status # "none"
      /\ jobQueue' \in Seq(Jobs) /\ \A i \in DOMAIN jobQueue' : jobs'[jobQueue'[i]].status # "none"
  BY <1>1, <1>2
<1>4. /\ DOMAIN work' = Workers /\ \A v \in Workers \ {w} : work'[v] = work[v]
      /\ work'[w].pc = "taken" /\ work'[w].job = Head(jobQueue) /\ DOMAIN work'[w] = WorkFields
  BY <1>1 DEF JobsInv, WorkTypes, NoWork, WorkFields
<1>5. WorkTypes'
  BY <1>4 DEF JobsInv, WorkTypes
<1>6. Submitted'
  BY <1>1, <1>3, <1>4 DEF JobsInv, Submitted
<1>7. DraftsValid'
  BY <1>1, <1>4 DEF JobsInv, DraftsValid, CitesWell, Cites, CitesOnce, Items, Complete
<1> QED
  BY <1>1, <1>5, <1>6, <1>7, RowsStay, Aside DEF JobsInv, RowTypes

\* The row of a job that failed, and its worker.
LEMMA FailedStep ==
  ASSUME JobsInv, NEW w \in Workers, work[w].pc # "waiting", Failed(w), UNCHANGED <<jobQueue, artifacts, review>>
  PROVE  JobsInv'
<1>1. PICK j \in Jobs : j = work[w].job
  BY DEF JobsInv, Submitted
<1>2. /\ jobs' = [jobs EXCEPT ![j].status = IF Unfinished(j) THEN "failed" ELSE @]
      /\ work' = [work EXCEPT ![w] = NoWork]
  BY <1>1 DEF Failed, Released
<1>3. /\ RowTypes' /\ jobs'[j].kind = jobs[j].kind /\ jobs'[j].result = jobs[j].result
      /\ jobs'[j].status = (IF Unfinished(j) THEN "failed" ELSE jobs[j].status)
      /\ \A i \in Jobs \ {j} : jobs'[i] = jobs[i]
  BY <1>2 DEF JobsInv, RowTypes, RowFields
<1>4. RowsGoOn
  BY <1>3 DEF RowsGoOn, Unfinished
<1>5. WorkersGoOn
  BY <1>2, IdleWork DEF WorkersGoOn, JobsInv, WorkTypes
<1> QED
  BY <1>3, <1>4, <1>5, QueueStays, GoesOn, Aside

\* A queued row is marked running; another one is passed over.
LEMMA RunningStep == ASSUME JobsInv, NEW w \in Workers, MarkRunning(w) PROVE JobsInv'
<1>1. work[w].pc = "taken" /\ UNCHANGED <<jobQueue, artifacts, review>>
  BY DEF MarkRunning
<1>2. PICK j \in Jobs : j = work[w].job
  BY <1>1 DEF JobsInv, Submitted
<1>3. \/ Failed(w)
      \/ /\ jobs[j].status = "queued" /\ jobs' = [jobs EXCEPT ![j].status = "running"]
         /\ work' = [work EXCEPT ![w].pc = "asking", ![w].chunk = 1]
      \/ jobs' = jobs /\ work' = [work EXCEPT ![w] = NoWork]
  BY <1>2, Zenon DEF MarkRunning, Released
<1>4. CASE Failed(w)
  BY <1>1, <1>4, FailedStep
<1>5. CASE /\ jobs[j].status = "queued" /\ jobs' = [jobs EXCEPT ![j].status = "running"]
           /\ work' = [work EXCEPT ![w].pc = "asking", ![w].chunk = 1]
  <2>1. /\ RowTypes' /\ jobs'[j].status = "running" /\ jobs'[j].kind = jobs[j].kind
        /\ \A i \in Jobs \ {j} : jobs'[i] = jobs[i]
    BY <1>5 DEF JobsInv, RowTypes, RowFields
  <2>2. RowsGoOn
    BY <1>5, <2>1 DEF RowsGoOn
  <2>3. WorkersGoOn
    BY <1>1, <1>5 DEF WorkersGoOn, JobsInv, WorkTypes, WorkFields
  <2> QED
    BY <1>1, <2>1, <2>2, <2>3, QueueStays, GoesOn, Aside
<1>6. CASE jobs' = jobs /\ work' = [work EXCEPT ![w] = NoWork]
  <2>1. WorkersGoOn /\ RowsGoOn /\ RowTypes'
    BY <1>6, IdleWork DEF WorkersGoOn, RowsGoOn, JobsInv, WorkTypes, RowTypes
  <2> QED
    BY <1>1, <2>1, QueueStays, GoesOn, Aside
<1> QED
  BY <1>3, <1>4, <1>5, <1>6

\* What the validator lets through is what EvidenceComplete says of an artifact.
LEMMA ValidatedCitesWell == ASSUME NEW k, NEW cited, ValidEvidence(k, cited) PROVE CitesWell(k, cited)
<1>1. CASE Evidence(cited) = {}
  <2>1. k = "timeline_fact_review"
    BY <1>1 DEF ValidEvidence
  <2>2. \A i \in DOMAIN cited : cited[i] = {}
    BY <1>1 DEF Evidence
  <2>3. Cites(cited) = {}
    BY <2>2 DEF Cites, Range
  <2> QED
    BY <2>1, <2>3 DEF CitesWell, Complete
<1>2. CASE Evidence(cited) # {}
  BY <1>2 DEF ValidEvidence, CitesWell
<1> QED
  BY <1>1, <1>2

\* An answer that parses, or one that does not.
LEMMA AnswerSteps ==
  ASSUME JobsInv, NEW w \in Workers, ChunkAnswered(w) \/ ChunkFails(w) PROVE JobsInv'
<1>1. work[w].pc = "asking" /\ UNCHANGED <<jobQueue, artifacts, review>>
  BY DEF ChunkAnswered, ChunkFails
<1>2. ASSUME UNCHANGED jobs, DOMAIN work' = Workers, \A v \in Workers \ {w} : work'[v] = work[v],
             DOMAIN work'[w] = WorkFields, work'[w].job = work[w].job, work'[w].pc # "storing"
      PROVE  JobsInv'
  <2>1. RowsGoOn /\ WorkersGoOn /\ RowTypes'
    BY <1>1, <1>2 DEF RowsGoOn, WorkersGoOn, JobsInv, WorkTypes, RowTypes
  <2> QED
    BY <1>1, <2>1, QueueStays, GoesOn, Aside
<1>3. CASE ChunkAnswered(w)
  <2> DEFINE chunks == ChunksOf(jobs[work[w].job])
  <2>1. /\ UNCHANGED jobs
        /\ \E answer \in Answers(chunks[work[w].chunk]) :
             work' = [work EXCEPT ![w].cited = @ \o answer, ![w].attempt = 0,
                                  ![w].chunk = IF @ = Len(chunks) THEN @ ELSE @ + 1,
                                  ![w].pc = IF work[w].chunk = Len(chunks) THEN "drafted" ELSE "asking"]
    BY <1>3, Zenon DEF ChunkAnswered
  <2> HIDE DEF chunks
  <2>2. /\ DOMAIN work' = Workers /\ \A v \in Workers \ {w} : work'[v] = work[v]
        /\ DOMAIN work'[w] = WorkFields /\ work'[w].job = work[w].job /\ work'[w].pc # "storing"
    BY <2>1 DEF JobsInv, WorkTypes, WorkFields
  <2> QED
    BY <1>2, <2>1, <2>2
<1>4. CASE ChunkFails(w)
  <2>1. \/ Failed(w)
        \/ work' = [work EXCEPT ![w].attempt = @ + 1] /\ UNCHANGED jobs
    BY <1>4, Zenon DEF ChunkFails
  <2>2. CASE Failed(w)
    BY <1>1, <2>2, FailedStep
  <2>3. CASE work' = [work EXCEPT ![w].attempt = @ + 1] /\ UNCHANGED jobs
    BY <1>1, <1>2, <2>3 DEF JobsInv, WorkTypes, WorkFields
  <2> QED
    BY <2>1, <2>2, <2>3
<1> QED
  BY <1>3, <1>4

\* A whole draft is validated before it gets a version.
LEMMA ValidateStep == ASSUME JobsInv, NEW w \in Workers, Validate(w) PROVE JobsInv'
<1>1. work[w].pc = "drafted" /\ UNCHANGED <<jobQueue, artifacts, review>>
  BY DEF Validate
<1>2. PICK v : v = NextVersion(jobs[work[w].job].kind, jobs[work[w].job].target)
  OBVIOUS
<1>3. \/ Failed(w)
      \/ /\ ValidEvidence(jobs[work[w].job].kind, work[w].cited)
         /\ work' = [work EXCEPT ![w].pc = "storing", ![w].version = v] /\ UNCHANGED jobs
  BY <1>2, Zenon DEF Validate
<1>4. CASE Failed(w)
  BY <1>1, <1>4, FailedStep
<1>5. CASE /\ ValidEvidence(jobs[work[w].job].kind, work[w].cited)
           /\ work' = [work EXCEPT ![w].pc = "storing", ![w].version = v] /\ UNCHANGED jobs
  <2>1. /\ DOMAIN work' = Workers /\ \A u \in Workers \ {w} : work'[u] = work[u]
        /\ work'[w].job = work[w].job /\ work'[w].cited = work[w].cited /\ DOMAIN work'[w] = WorkFields
    BY <1>5 DEF JobsInv, WorkTypes, WorkFields
  <2>2. WorkTypes' /\ RowTypes' /\ RowsGoOn
    BY <1>5, <2>1 DEF JobsInv, WorkTypes, RowTypes, RowsGoOn
  <2>3. Submitted'
    BY <1>1, <1>5, <2>1 DEF JobsInv, Submitted
  <2>4. CitesWell(jobs[work[w].job].kind, work[w].cited)
    BY <1>5, ValidatedCitesWell
  <2>5. DraftsValid'
    BY <1>5, <2>1, <2>4 DEF JobsInv, DraftsValid, CitesWell, Cites, CitesOnce, Items, Complete
  <2> QED
    BY <1>1, <2>2, <2>3, <2>5, Aside
<1> QED
  BY <1>3, <1>4, <1>5

\* The death or the stop of the process, and its start.
LEMMA RunnerSteps == ASSUME JobsInv, StopRunner \/ StartRunner PROVE JobsInv'
<1>1. CASE StopRunner
  <2>1. /\ work' = [w \in Workers |-> NoWork] /\ jobQueue' \in {jobQueue, <<>>}
        /\ UNCHANGED <<jobs, artifacts, review>>
    BY <1>1 DEF StopRunner
  <2>2. RowsGoOn /\ RowTypes' /\ WorkersGoOn
    BY <2>1, IdleWork DEF RowsGoOn, JobsInv, RowTypes, WorkersGoOn
  <2>3. jobQueue' \in Seq(Jobs) /\ \A i \in DOMAIN jobQueue' : jobs'[jobQueue'[i]].status # "none"
    <3>1. CASE jobQueue' = jobQueue
      BY <2>2, <3>1, QueueStays
    <3>2. CASE jobQueue' = <<>>
      <4>1. <<>> \in Seq(Jobs) /\ DOMAIN <<>> = {}
        OBVIOUS
      <4> QED
        BY <3>2, <4>1
    <3> QED
      BY <2>1, <3>1, <3>2
  <2> QED
    BY <2>1, <2>2, <2>3, GoesOn, Aside
<1>2. CASE StartRunner
  <2>1. /\ UNCHANGED <<jobQueue, work, artifacts, review>>
        /\ jobs' = [j \in Jobs |-> IF Unfinished(j) THEN [jobs[j] EXCEPT !.status = "failed"] ELSE jobs[j]]
    BY <1>2 DEF StartRunner, Recovered
  <2>2. RowTypes' /\ RowsGoOn
    BY <2>1 DEF JobsInv, RowTypes, RowFields, RowsGoOn, Unfinished
  <2>3. WorkersGoOn
    BY <2>1 DEF WorkersGoOn, JobsInv, WorkTypes
  <2> QED
    BY <2>1, <2>2, <2>3, QueueStays, GoesOn, Aside
<1> QED
  BY <1>1, <1>2

\* Rows, queue and workers stay as they are.
LEMMA RunnerStays ==
  ASSUME JobsInv, UNCHANGED <<jobs, jobQueue, work>>
  PROVE  RowTypes' /\ WorkTypes' /\ Submitted' /\ DraftsValid'
BY DEF JobsInv, RowTypes, WorkTypes, Submitted, DraftsValid, CitesWell, Cites, CitesOnce, Items, Complete

\* A reviewer's request reads the artifact it is about.
LEMMA ReviewReads ==
  ASSUME JobsInv, NEW r \in Reviewers, NEW a \in DOMAIN artifacts, NEW cited,
         EditReads(r, a, cited) \/ ApproveReads(r, a)
  PROVE  JobsInv'
<1>1. PICK pc \in {"editing", "approving"}, c \in {artifacts[a].cited, <<>>},
           v \in {0, NextVersion(artifacts[a].kind, artifacts[a].target)} :
        /\ review' = [review EXCEPT ![r] = [pc |-> pc, artifact |-> a, cited |-> c, version |-> v]]
        /\ pc = "editing" => c = artifacts[a].cited
  BY DEF EditReads, ApproveReads, ValidHumanContent, Provenance
<1>2. UNCHANGED <<jobs, jobQueue, work, artifacts>>
  BY DEF EditReads, ApproveReads
<1>3. ReviewTypes' /\ ReviewsFit'
  BY <1>1, <1>2 DEF JobsInv, ReviewTypes, ReviewsFit, ReviewFields
<1>4. ArtifactTypes' /\ JobMatchesArtifact' /\ EvidenceComplete' /\ OneApproved'
  BY <1>2 DEF JobsInv, ArtifactTypes, JobMatchesArtifact, EvidenceComplete, OneApproved, SameIdentity
<1> QED
  BY <1>2, <1>3, <1>4, RunnerStays DEF JobsInv

\* A new artifact of an identity, with a version that is not taken.
LEMMA Added ==
  ASSUME JobsInv, NEW e, artifacts' = Append(artifacts, e), DOMAIN e = ArtifactFields,
         CitesWell(e.kind, e.cited), ~VersionTaken(e.kind, e.target, e.version), e.status # "approved",
         ReviewTypes', \A r \in Reviewers : review'[r].pc = "idle" \/ review'[r] = review[r]
  PROVE  /\ ArtifactTypes' /\ ReviewsFit' /\ EvidenceComplete' /\ OneApproved'
         /\ DOMAIN artifacts' = DOMAIN artifacts \cup {Len(artifacts) + 1}
         /\ artifacts'[Len(artifacts) + 1] = e /\ \A a \in DOMAIN artifacts : artifacts'[a] = artifacts[a]
         /\ Len(artifacts) + 1 \notin DOMAIN artifacts
<1>1. /\ DOMAIN artifacts' = DOMAIN artifacts \cup {Len(artifacts) + 1}
      /\ artifacts'[Len(artifacts) + 1] = e /\ \A a \in DOMAIN artifacts : artifacts'[a] = artifacts[a]
      /\ Len(artifacts) + 1 \notin DOMAIN artifacts /\ IsSeq(artifacts')
  BY Appended DEF JobsInv, ArtifactTypes
<1>2. ArtifactTypes'
  BY <1>1 DEF JobsInv, ArtifactTypes
<1>3. ReviewsFit'
  BY <1>1 DEF JobsInv, ReviewsFit
<1>4. EvidenceComplete'
  <2>1. \A a \in DOMAIN artifacts : CitesWell(artifacts[a].kind, artifacts[a].cited)
    BY DEF JobsInv, EvidenceComplete, CitesWell
  <2>2. \A a \in DOMAIN artifacts' : CitesWell(artifacts'[a].kind, artifacts'[a].cited)
    BY <1>1, <2>1
  <2> QED
    BY <2>2 DEF EvidenceComplete, CitesWell, Cites, CitesOnce, Items, Complete
<1>5. OneApproved'
  <2>1. \A a \in DOMAIN artifacts :
          artifacts[a].kind = e.kind /\ artifacts[a].target = e.target => artifacts[a].version # e.version
    BY DEF VersionTaken, SameIdentity
  <2> QED
    BY <1>1, <2>1 DEF JobsInv, OneApproved, SameIdentity
<1> QED
  BY <1>1, <1>2, <1>3, <1>4, <1>5

\* The artifact and the job's row are one transaction, unless the version is taken or the
\* job was cancelled meanwhile.
LEMMA StoreStep == ASSUME JobsInv, NEW w \in Workers, StoreResult(w) PROVE JobsInv'
<1>1. work[w].pc = "storing" /\ UNCHANGED <<jobQueue, review>>
  BY DEF StoreResult
<1>2. PICK j \in Jobs : j = work[w].job
  BY <1>1 DEF JobsInv, Submitted
<1>3. \/ Failed(w) /\ UNCHANGED artifacts
      \/ Released(w) /\ UNCHANGED <<jobs, artifacts>>
      \/ /\ Released(w) /\ jobs[j].status = "running"
         /\ ~VersionTaken(jobs[j].kind, jobs[j].target, work[w].version)
         /\ artifacts' = Append(artifacts, Generated(w)) /\ Completed(j, Len(artifacts) + 1)
  BY <1>2, Zenon DEF StoreResult
<1>4. CASE Failed(w) /\ UNCHANGED artifacts
  BY <1>1, <1>4, FailedStep
<1>5. CASE Released(w) /\ UNCHANGED <<jobs, artifacts>>
  <2>1. WorkersGoOn /\ RowsGoOn /\ RowTypes'
    BY <1>5, IdleWork DEF Released, WorkersGoOn, RowsGoOn, JobsInv, WorkTypes, RowTypes
  <2> QED
    BY <1>1, <1>5, <2>1, QueueStays, GoesOn, Aside
<1>6. CASE /\ Released(w) /\ jobs[j].status = "running"
           /\ ~VersionTaken(jobs[j].kind, jobs[j].target, work[w].version)
           /\ artifacts' = Append(artifacts, Generated(w)) /\ Completed(j, Len(artifacts) + 1)
  <2>1. PICK e : e = Generated(w)
    OBVIOUS
  <2>2. /\ DOMAIN e = ArtifactFields /\ e.kind = jobs[j].kind /\ e.target = jobs[j].target
        /\ e.version = work[w].version /\ e.cited = work[w].cited /\ e.status = "generated" /\ e.job = j
    BY <1>2, <2>1 DEF Generated, ArtifactFields
  <2>3. /\ RowTypes' /\ jobs'[j].kind = jobs[j].kind /\ jobs'[j].status = "completed"
        /\ jobs'[j].result = Len(artifacts) + 1 /\ \A i \in Jobs \ {j} : jobs'[i] = jobs[i]
    BY <1>6 DEF Completed, JobsInv, RowTypes, RowFields
  <2>4. WorkersGoOn
    BY <1>6, IdleWork DEF Released, WorkersGoOn, JobsInv, WorkTypes
  <2>5. CitesWell(e.kind, e.cited)
    BY <1>1, <1>2, <2>2 DEF JobsInv, DraftsValid
  <2>6. ~VersionTaken(e.kind, e.target, e.version)
    BY <1>6, <2>2
  <2>7. ReviewTypes' /\ \A r \in Reviewers : review'[r] = review[r]
    BY <1>1 DEF JobsInv, ReviewTypes
  <2>8. /\ ArtifactTypes' /\ ReviewsFit' /\ EvidenceComplete' /\ OneApproved'
        /\ DOMAIN artifacts' = DOMAIN artifacts \cup {Len(artifacts) + 1}
        /\ artifacts'[Len(artifacts) + 1] = e /\ \A a \in DOMAIN artifacts : artifacts'[a] = artifacts[a]
        /\ Len(artifacts) + 1 \notin DOMAIN artifacts
    BY <1>6, <2>1, <2>2, <2>5, <2>6, <2>7, Added
  <2>9. JobMatchesArtifact'
    <3>1. \A a \in DOMAIN artifacts : artifacts[a].job # j
      BY <1>6 DEF JobsInv, JobMatchesArtifact
    <3> QED
      BY <2>2, <2>3, <2>8, <3>1 DEF JobsInv, JobMatchesArtifact
  <2>10. \A i \in Jobs : jobs[i].status # "none" => jobs'[i].status # "none" /\ jobs'[i].kind = jobs[i].kind
    BY <2>3
  <2>11. WorkTypes' /\ Submitted' /\ DraftsValid'
    <3>1. WorkTypes'
      BY <2>4 DEF WorkersGoOn, WorkTypes
    <3>2. \A v \in Workers : work'[v].pc = "waiting" \/ work'[v] = work[v]
      BY <1>6, IdleWork DEF Released, JobsInv, WorkTypes
    <3>3. Submitted'
      BY <1>1, <2>10, <3>2 DEF JobsInv, Submitted
    <3>4. DraftsValid'
      BY <2>10, <3>2 DEF JobsInv, Submitted, DraftsValid, CitesWell, Cites, CitesOnce, Items, Complete
    <3> QED
      BY <3>1, <3>3, <3>4
  <2> QED
    BY <2>3, <2>7, <2>8, <2>9, <2>11 DEF JobsInv
<1> QED
  BY <1>3, <1>4, <1>5, <1>6

\* The record of an idle request.
LEMMA IdleReview == NoReview.pc = "idle" /\ DOMAIN NoReview = ReviewFields
BY DEF NoReview, ReviewFields

\* The INSERT of an edited version.
LEMMA EditStep == ASSUME JobsInv, NEW r \in Reviewers, EditWrites(r) PROVE JobsInv'
<1>1. /\ review[r].pc = "editing" /\ review' = [review EXCEPT ![r] = NoReview]
      /\ UNCHANGED <<jobs, jobQueue, work>>
  BY DEF EditWrites
<1>2. PICK p \in DOMAIN artifacts : p = review[r].artifact
  BY <1>1 DEF JobsInv, ReviewsFit
<1>3. ReviewTypes' /\ \A q \in Reviewers : review'[q].pc = "idle" \/ review'[q] = review[q]
  BY <1>1, IdleReview DEF JobsInv, ReviewTypes
<1>4. CASE UNCHANGED artifacts
  <2>1. ReviewsFit'
    BY <1>3, <1>4 DEF JobsInv, ReviewsFit
  <2>2. ArtifactTypes' /\ JobMatchesArtifact' /\ EvidenceComplete' /\ OneApproved'
    BY <1>1, <1>4 DEF JobsInv, ArtifactTypes, JobMatchesArtifact, EvidenceComplete, OneApproved, SameIdentity
  <2> QED
    BY <1>1, <1>3, <2>1, <2>2, RunnerStays DEF JobsInv
<1>5. CASE ~UNCHANGED artifacts
  <2>1. PICK e : e = [artifacts[p] EXCEPT !.version = review[r].version, !.status = "reviewed",
                                          !.parent = review[r].artifact, !.cited = review[r].cited,
                                          !.job = "none"]
    OBVIOUS
  <2>2. ~VersionTaken(artifacts[p].kind, artifacts[p].target, review[r].version) /\ artifacts' = Append(artifacts, e)
    BY <1>2, <1>5, <2>1, Zenon DEF EditWrites
  <2>3. /\ DOMAIN e = ArtifactFields /\ e.kind = artifacts[p].kind /\ e.target = artifacts[p].target
        /\ e.version = review[r].version /\ e.cited = artifacts[p].cited /\ e.status = "reviewed" /\ e.job = "none"
    BY <1>1, <1>2, <2>1 DEF JobsInv, ArtifactTypes, ArtifactFields, ReviewsFit
  <2>4. CitesWell(e.kind, e.cited)
    BY <2>3 DEF JobsInv, EvidenceComplete, CitesWell
  <2>5. ~VersionTaken(e.kind, e.target, e.version)
    BY <2>2, <2>3
  <2>6. /\ ArtifactTypes' /\ ReviewsFit' /\ EvidenceComplete' /\ OneApproved'
        /\ DOMAIN artifacts' = DOMAIN artifacts \cup {Len(artifacts) + 1}
        /\ artifacts'[Len(artifacts) + 1] = e /\ \A a \in DOMAIN artifacts : artifacts'[a] = artifacts[a]
    BY <1>3, <2>2, <2>3, <2>4, <2>5, Added
  <2>7. JobMatchesArtifact'
    <3>1. e.job \notin Jobs
      BY <2>3, JobsAssumption
    <3>2. \A j \in Jobs : {a \in DOMAIN artifacts' : artifacts'[a].job = j} = {a \in DOMAIN artifacts : artifacts[a].job = j}
      BY <2>6, <3>1
    <3> QED
      BY <1>1, <3>2 DEF JobsInv, JobMatchesArtifact
  <2> QED
    BY <1>1, <1>3, <2>6, <2>7, RunnerStays DEF JobsInv
<1> QED
  BY <1>4, <1>5

\* The UPDATEs of an approval: of the approved one, then of the row itself.
LEMMA ApproveStep == ASSUME JobsInv, NEW r \in Reviewers, ApproveWrites(r) PROVE JobsInv'
<1>1. /\ review[r].pc = "approving" /\ review' = [review EXCEPT ![r] = NoReview]
      /\ UNCHANGED <<jobs, jobQueue, work>>
  BY DEF ApproveWrites
<1>2. PICK p \in DOMAIN artifacts : p = review[r].artifact
  BY <1>1 DEF JobsInv, ReviewsFit
<1>3. artifacts' = [b \in DOMAIN artifacts |->
          IF b = p THEN [artifacts[b] EXCEPT !.status = "approved"]
          ELSE IF SameIdentity(b, artifacts[p].kind, artifacts[p].target) /\ artifacts[b].status = "approved"
          THEN [artifacts[b] EXCEPT !.status = "superseded"]
          ELSE artifacts[b]]
  BY <1>2, Zenon DEF ApproveWrites
<1>4. /\ DOMAIN artifacts' = DOMAIN artifacts
      /\ \A a \in DOMAIN artifacts :
           /\ DOMAIN artifacts'[a] = ArtifactFields
           /\ artifacts'[a].kind = artifacts[a].kind /\ artifacts'[a].target = artifacts[a].target
           /\ artifacts'[a].version = artifacts[a].version /\ artifacts'[a].cited = artifacts[a].cited
           /\ artifacts'[a].job = artifacts[a].job
           /\ artifacts'[a].status =
                (IF a = p THEN "approved"
                 ELSE IF SameIdentity(a, artifacts[p].kind, artifacts[p].target) /\ artifacts[a].status = "approved"
                 THEN "superseded" ELSE artifacts[a].status)
  BY <1>3 DEF JobsInv, ArtifactTypes, ArtifactFields
<1>5. ArtifactTypes'
  <2>1. PICK X : artifacts \in Seq(X)
    BY DEF JobsInv, ArtifactTypes, IsSeq
  <2>2. artifacts' \in Seq({artifacts'[a] : a \in DOMAIN artifacts})
    BY <1>3, <2>1
  <2> QED
    BY <1>4, <2>2 DEF ArtifactTypes, IsSeq
<1>6. ReviewTypes' /\ \A q \in Reviewers : review'[q].pc = "idle" \/ review'[q] = review[q]
  BY <1>1, IdleReview DEF JobsInv, ReviewTypes
<1>7. ReviewsFit'
  BY <1>4, <1>6 DEF JobsInv, ReviewsFit
<1>8. JobMatchesArtifact' /\ EvidenceComplete'
  BY <1>1, <1>4 DEF JobsInv, JobMatchesArtifact, EvidenceComplete, Cites, CitesOnce, Items, Complete
<1>9. OneApproved'
  BY <1>4 DEF JobsInv, OneApproved, SameIdentity
<1> QED
  BY <1>1, <1>5, <1>6, <1>7, <1>8, <1>9, RunnerStays DEF JobsInv

\* Every step of the runner, the workers and the reviewers preserves the invariant.
LEMMA JobsKeep == JobsInv /\ [JobsNext]_jobVars => JobsInv'
<1> SUFFICES ASSUME JobsInv, [JobsNext]_jobVars PROVE JobsInv'
  OBVIOUS
<1>1. CASE UNCHANGED jobVars
  <2>1. UNCHANGED <<jobs, jobQueue, work, artifacts, review>>
    BY <1>1 DEF jobVars
  <2>2. ArtifactTypes' /\ ReviewTypes' /\ ReviewsFit' /\ JobMatchesArtifact' /\ EvidenceComplete' /\ OneApproved'
    BY <2>1 DEF JobsInv, ArtifactTypes, ReviewTypes, ReviewsFit, JobMatchesArtifact, EvidenceComplete,
         OneApproved, SameIdentity
  <2> QED
    BY <2>1, <2>2, RunnerStays DEF JobsInv
<1>2. CASE JobsNext
  BY <1>2, TakeStep, RunningStep, AnswerSteps, ValidateStep, StoreStep, RunnerSteps, SubmitStep, CancelStep,
     ReviewReads, EditStep, ApproveStep DEF JobsNext, JobStep
<1> QED
  BY <1>1, <1>2

\* ProcessingJobRunner, the workflows' validation and the review endpoints: for any number
\* of jobs, workers and reviewers, any source and any answers of the model, a job has the one
\* artifact it names or none, an artifact cites what its kind owes, and an identity has
\* one approved version and no version twice.
THEOREM JobsSafeHolds == JobsSpec => []JobsSafe
<1>1. JobsInv => JobsSafe
  BY DEF JobsInv, JobsSafe
<1>2. JobsSpec => []JobsInv
  BY JobsStart, JobsKeep, PTL DEF JobsSpec
<1> QED
  BY <1>1, <1>2, PTL

-----------------------------------------------------------------------------
(* The results of a session: Packages, transcript revisions and pages.     *)

SourceIds == Range(Segments)

\* A document, and the raw source of a Package.
Docs == {s \in Seq(SUBSET SourceIds) : Len(s) <= Len(Segments) + 1}

RawDocs == {s \in Seq(SUBSET SourceIds) : Len(s) <= Len(Segments)}

PackageRows == [status : {"frozen", "superseded"}, raw : RawDocs, items : Docs, revision : Nat, base : Nat]

RevisionRows == [status : {"saved", "approved", "superseded"}, base : Nat, items : Docs]

RequestStates ==
  [op : {"none", "baseline", "build", "revise", "approve"}, on : Nat, version : Nat, items : Docs,
   approved : SUBSET Nat]

StoreTypes ==
  /\ finals \subseteq SourceIds
  /\ packages \in Seq(PackageRows) /\ revisions \in Seq(RevisionRows)
  /\ request \in [Requests -> RequestStates]
  /\ reading \in [package : Nat, after : Nat, got : Seq(SUBSET SourceIds)]

\* The newest Package is the frozen one.
NewestFrozen ==
  \A p \in DOMAIN packages : packages[p].status = IF p = Len(packages) THEN "frozen" ELSE "superseded"

ApprovedOnce == \A r, s \in ApprovedRevisions : r = s

\* A Package built from a revision has the raw source of the Package that was revised.
PackagesKept ==
  \A p \in DOMAIN packages :
    /\ Covers(packages[p].items) = Covers(packages[p].raw)
    /\ packages[p].revision # 0 =>
         packages[p].base \in DOMAIN packages /\ packages[p].raw = packages[packages[p].base].raw

TranscriptsKept ==
  \A r \in DOMAIN revisions :
    revisions[r].base \in DOMAIN packages /\ Covers(revisions[r].items) = Covers(packages[revisions[r].base].raw)

\* What a request has read is still true when it writes: nothing it depends on changes.
RequestFits(it) ==
  /\ it.op = "baseline" => it.on = 0 /\ it.items \in RawDocs
  /\ it.op = "build" => it.on \in DOMAIN revisions /\ it.items = revisions[it.on].items
  /\ it.op = "revise" => it.on \in DOMAIN packages /\ Covers(it.items) = Covers(packages[it.on].raw)
  /\ it.op = "approve" => it.on \in DOMAIN revisions /\ it.on \notin it.approved

RequestsFit == \A q \in Requests : RequestFits(request[q])

\* What a reader has is the beginning of the Package.
PagesRead ==
  reading.package # 0 =>
    /\ reading.package \in DOMAIN packages
    /\ IF reading.after = Done THEN reading.got = FlatItems(reading.package)
       ELSE /\ reading.after \in 0..Len(FlatItems(reading.package))
            /\ reading.got = SubSeq(FlatItems(reading.package), 1, reading.after)

PackagesInv ==
  /\ StoreTypes /\ NewestFrozen /\ ApprovedOnce /\ PackagesKept /\ TranscriptsKept /\ RequestsFit /\ PagesRead

\* The invariant implies what the run checks.
LEMMA PackagesInvSafe == PackagesInv => PackagesSafe
<1> SUFFICES ASSUME PackagesInv PROVE PackagesSafe
  OBVIOUS
<1>1. Cardinality(ApprovedRevisions) <= 1
  <2>1. CASE ApprovedRevisions = {}
    BY <2>1, FS_EmptySet
  <2>2. CASE ApprovedRevisions # {}
    <3>1. PICK r : r \in ApprovedRevisions
      BY <2>2
    <3>2. ApprovedRevisions = {r}
      BY <3>1 DEF PackagesInv, ApprovedOnce
    <3>3. Cardinality({r}) = 1
      BY FS_Singleton, Zenon
    <3> QED
      BY <3>2, <3>3
  <2> QED
    BY <2>1, <2>2
<1>2. OneCurrentResult
  BY <1>1 DEF PackagesInv, NewestFrozen, OneCurrentResult
<1>3. SegmentsPreserved
  BY DEF PackagesInv, PackagesKept, TranscriptsKept, SegmentsPreserved
<1>4. PagesWhole
  BY DEF PackagesInv, PagesRead, PagesWhole
<1> QED
  BY <1>2, <1>3, <1>4 DEF PackagesSafe

\* No Package, no revision and no request at first.
LEMMA PackagesStart == PackagesInit => PackagesInv
<1> SUFFICES ASSUME PackagesInit PROVE PackagesInv
  OBVIOUS
<1>1. <<>> \in RawDocs /\ <<>> \in Docs /\ RawDocs \subseteq Docs
  <2>1. Len(Segments) \in Nat
    BY PackagesAssumption
  <2> QED
    BY <2>1 DEF RawDocs, Docs
<1>2. StoreTypes
  BY <1>1 DEF PackagesInit, StoreTypes, NoRequest, NotReading, RequestStates
<1>3. DOMAIN packages = {} /\ DOMAIN revisions = {}
  BY DEF PackagesInit
<1>4. \A q \in Requests : request[q].op = "none"
  BY DEF PackagesInit, NoRequest
<1>5. reading.package = 0
  BY DEF PackagesInit, NotReading
<1> QED
  BY <1>2, <1>3, <1>4, <1>5 DEF PackagesInv, NewestFrozen, ApprovedOnce, ApprovedRevisions, PackagesKept,
       TranscriptsKept, RequestsFit, RequestFits, PagesRead

\* Documents are sequences.
LEMMA DocsAre ==
  /\ Len(Segments) \in Nat
  /\ \A s \in RawDocs : s \in Docs
  /\ \A s \in Docs : s \in Seq(SUBSET SourceIds) /\ Len(s) \in Nat /\ Len(s) <= Len(Segments) + 1
  /\ \A s \in RawDocs : Len(s) <= Len(Segments)
<1>1. Len(Segments) \in Nat
  BY PackagesAssumption
<1> QED
  BY <1>1 DEF RawDocs, Docs

(* One turn of the loop of normalize_timeline.                             *)
TimelineNext(x, n) == IF Segments[n] \in finals THEN Append(x, {Segments[n]}) ELSE x

\* The loop of normalize_timeline.
LEMMA TimelineIs ==
  /\ Timeline[0] = <<>>
  /\ \A n \in 1..Len(Segments) : Timeline[n] = TimelineNext(Timeline[n - 1], n)
<1> DEFINE X == Seq(SUBSET SourceIds)
<1>1. Len(Segments) \in Nat /\ (\A n \in 1..Len(Segments) : Segments[n] \in SourceIds) /\ <<>> \in X
  BY PackagesAssumption DEF SourceIds
<1>2. PICK turn : turn = [p \in (1..Len(Segments)) \X X |-> TimelineNext(p[2], p[1])]
  OBVIOUS
<1>3. \A n \in 1..Len(Segments), x \in X : turn[<<n, x>>] = TimelineNext(x, n)
  BY <1>2
<1>4. \A n \in 1..Len(Segments), x \in X : TimelineNext(x, n) \in X
  BY <1>1 DEF TimelineNext
<1> HIDE DEF X
<1>5. PICK f \in [0..Len(Segments) -> X] : RunOf(f, Len(Segments), <<>>, turn)
  <2>1. TurnsOver(turn, Len(Segments), X)
    BY <1>3, <1>4 DEF TurnsOver
  <2> QED
    BY <1>1, <2>1, LoopRuns
<1>6. \A n \in 0..Len(Segments) : f[n] = IF n = 0 THEN <<>> ELSE TimelineNext(f[n - 1], n)
  <2>1. ASSUME NEW n \in 1..Len(Segments) PROVE f[n] = TimelineNext(f[n - 1], n)
    <3>1. f[n - 1] \in X
      <4>1. n - 1 \in 0..Len(Segments)
        BY <1>1
      <4> QED
        BY <1>5, <4>1, Zenon
    <3> QED
      BY <1>3, <1>5, <3>1 DEF RunOf
  <2> QED
    BY <1>1, <1>5, <2>1 DEF RunOf
<1>7. f = [n \in 0..Len(Segments) |-> IF n = 0 THEN <<>> ELSE TimelineNext(f[n - 1], n)]
  BY <1>5, <1>6
<1>8. Timeline = [n \in 0..Len(Segments) |-> IF n = 0 THEN <<>> ELSE TimelineNext(Timeline[n - 1], n)]
  BY <1>7, Zenon DEF Timeline, TimelineNext
<1> QED
  BY <1>1, <1>8

\* One item for each final segment.
LEMMA RawItemsAre == RawItems \in RawDocs
<1> DEFINE T(x, n) == x \in Seq(SUBSET SourceIds) /\ Len(x) <= n
           S == {n \in 0..Len(Segments) : T(Timeline[n], n)}
<1>1. Len(Segments) \in Nat /\ \A n \in 1..Len(Segments) : Segments[n] \in SourceIds
  BY PackagesAssumption DEF SourceIds
<1>2. 0 \in S
  <2>1. T(<<>>, 0)
    OBVIOUS
  <2>2. T(Timeline[0], 0) /\ 0 \in 0..Len(Segments)
    <3> HIDE DEF T
    <3> QED
      BY <1>1, <2>1, TimelineIs
  <2> QED
    BY <2>2
<1>3. ASSUME NEW n \in 1..Len(Segments), n - 1 \in S PROVE n \in S
  <2>1. T(Timeline[n - 1], n - 1) /\ n \in 0..Len(Segments)
    BY <1>1, <1>3
  <2>2. T(TimelineNext(Timeline[n - 1], n), n)
    BY <1>1, <2>1 DEF TimelineNext
  <2> QED
    BY <2>1, <2>2, TimelineIs
<1>4. 0..Len(Segments) \subseteq S
  <2> HIDE DEF S
  <2> QED
    BY <1>1, <1>2, <1>3, LoopInduction
<1> QED
  BY <1>1, <1>4 DEF RawItems, RawDocs

-----------------------------------------------------------------------------
\* A request reads; what it has read fits.
LEMMA ReadStep ==
  ASSUME PackagesInv, NEW q \in Requests, NEW op, NEW on, NEW version, NEW items, NEW approved,
         Reads(q, op, on, version, items, approved),
         [op |-> op, on |-> on, version |-> version, items |-> items, approved |-> approved] \in RequestStates,
         RequestFits([op |-> op, on |-> on, version |-> version, items |-> items, approved |-> approved])
  PROVE  PackagesInv'
<1>1. PICK it \in RequestStates :
        /\ RequestFits(it) /\ request' = [request EXCEPT ![q] = it]
        /\ UNCHANGED <<finals, packages, revisions, reading>>
  BY DEF Reads
<1>2. StoreTypes'
  BY <1>1 DEF PackagesInv, StoreTypes
<1>3. \A p \in Requests : request'[p] = it \/ request'[p] = request[p]
  BY <1>1 DEF PackagesInv, StoreTypes
<1>4. RequestsFit'
  <2>1. \A p \in Requests : RequestFits(request'[p])
    BY <1>1, <1>3 DEF PackagesInv, RequestsFit
  <2> QED
    BY <1>1, <2>1 DEF RequestsFit, RequestFits, Covers
<1>5. NewestFrozen' /\ ApprovedOnce' /\ PackagesKept' /\ TranscriptsKept' /\ PagesRead'
  BY <1>1 DEF PackagesInv, NewestFrozen, ApprovedOnce, ApprovedRevisions, PackagesKept, TranscriptsKept, Covers,
       PagesRead, FlatItems, Done
<1> QED
  BY <1>2, <1>4, <1>5 DEF PackagesInv

\* The reads of the two builds, of a revision, of a further version and of an approval.
LEMMA ReadSteps ==
  ASSUME PackagesInv, NEW q \in Requests,
         \/ BaselineReads(q)
         \/ \E r \in DOMAIN revisions : BuildReads(q, r) \/ RevisionApproveReads(q, r)
         \/ \E p \in DOMAIN packages : RevisionFromPackage(q, p)
         \/ \E r \in DOMAIN revisions :
              \E items \in {<<finals>>, [i \in DOMAIN revisions[r].items |-> revisions[r].items[1]]} :
                RevisionVersion(q, r, items)
  PROVE  PackagesInv'
<1>0. /\ Len(packages) \in Nat /\ Len(revisions) \in Nat /\ finals \subseteq SourceIds
      /\ \A r \in DOMAIN revisions : r \in Nat /\ revisions[r].items \in Docs /\ revisions[r].base \in Nat
      /\ \A p \in DOMAIN packages : p \in Nat /\ packages[p].items \in Docs
  <2>1. Len(packages) \in Nat /\ Len(revisions) \in Nat /\ finals \subseteq SourceIds
    BY DEF PackagesInv, StoreTypes
  <2>2. \A r \in DOMAIN revisions : r \in Nat /\ revisions[r] \in RevisionRows
    BY DEF PackagesInv, StoreTypes
  <2>3. \A p \in DOMAIN packages : p \in Nat /\ packages[p] \in PackageRows
    BY DEF PackagesInv, StoreTypes
  <2> QED
    BY <2>1, <2>2, <2>3 DEF PackageRows, RevisionRows
<1>1. CASE BaselineReads(q)
  <2>1. RawItems \in RawDocs /\ RawItems \in Docs
    BY RawItemsAre, DocsAre
  <2>2. Reads(q, "baseline", 0, Len(packages) + 1, RawItems, {})
    BY <1>1 DEF BaselineReads
  <2> QED
    BY <1>0, <2>1, <2>2, ReadStep DEF RequestStates, RequestFits
<1>2. ASSUME NEW r \in DOMAIN revisions, BuildReads(q, r) PROVE PackagesInv'
  <2>1. Reads(q, "build", r, Len(packages) + 1, revisions[r].items, {})
    BY <1>2 DEF BuildReads
  <2> QED
    BY <1>0, <2>1, ReadStep DEF RequestStates, RequestFits
<1>3. ASSUME NEW r \in DOMAIN revisions, RevisionApproveReads(q, r) PROVE PackagesInv'
  <2>1. Reads(q, "approve", r, 0, <<>>, ApprovedRevisions \ {r})
    BY <1>3 DEF RevisionApproveReads
  <2>2. <<>> \in Docs /\ ApprovedRevisions \ {r} \in SUBSET Nat
    BY <1>0, DocsAre DEF ApprovedRevisions, Docs
  <2> QED
    BY <1>0, <2>1, <2>2, ReadStep DEF RequestStates, RequestFits
<1>4. ASSUME NEW p \in DOMAIN packages, RevisionFromPackage(q, p) PROVE PackagesInv'
  <2>1. Reads(q, "revise", p, Len(revisions) + 1, packages[p].items, {})
    BY <1>4 DEF RevisionFromPackage
  <2>2. Covers(packages[p].items) = Covers(packages[p].raw)
    BY DEF PackagesInv, PackagesKept
  <2> QED
    BY <1>0, <2>1, <2>2, ReadStep DEF RequestStates, RequestFits
<1>5. ASSUME NEW r \in DOMAIN revisions,
             NEW items \in {<<finals>>, [i \in DOMAIN revisions[r].items |-> revisions[r].items[1]]},
             RevisionVersion(q, r, items)
      PROVE  PackagesInv'
  <2>1. Reads(q, "revise", revisions[r].base, Len(revisions) + 1, items, {})
    BY <1>5 DEF RevisionVersion
  <2>2. items \in Docs
    <3>1. CASE items = <<finals>>
      BY <1>0, <3>1, DocsAre DEF Docs
    <3>2. CASE items = [i \in DOMAIN revisions[r].items |-> revisions[r].items[1]]
      <4>1. PICK old \in Docs : old = revisions[r].items
        BY <1>0
      <4>2. old \in Seq(SUBSET SourceIds) /\ Len(old) \in Nat /\ Len(old) <= Len(Segments) + 1
        BY DocsAre
      <4>3. items = [i \in 1..Len(old) |-> old[1]]
        BY <3>2, <4>1, <4>2
      <4>4. items \in Seq(SUBSET SourceIds) /\ Len(items) = Len(old)
        BY <4>2, <4>3
      <4> QED
        BY <4>2, <4>4 DEF Docs
    <3> QED
      BY <3>1, <3>2
  <2>3. revisions[r].base \in DOMAIN packages
    BY DEF PackagesInv, TranscriptsKept
  <2>4. Covers(items) = Covers(packages[revisions[r].base].raw)
    BY <1>5 DEF RevisionVersion
  <2> QED
    BY <1>0, <2>1, <2>2, <2>3, <2>4, ReadStep DEF RequestStates, RequestFits
<1> QED
  BY <1>1, <1>2, <1>3, <1>4, <1>5

(* Rows are added, and none changes but for its status.                    *)
PackagesGrow ==
  \A p \in DOMAIN packages :
    /\ p \in DOMAIN packages'
    /\ packages'[p].raw = packages[p].raw /\ packages'[p].items = packages[p].items
    /\ packages'[p].revision = packages[p].revision /\ packages'[p].base = packages[p].base

RevisionsGrow ==
  \A r \in DOMAIN revisions :
    r \in DOMAIN revisions' /\ revisions'[r].items = revisions[r].items /\ revisions'[r].base = revisions[r].base

\* What requests and readers have read stays true.
LEMMA GrowthKeeps ==
  ASSUME PackagesInv, PackagesGrow, RevisionsGrow
  PROVE  /\ (\A q \in Requests : request'[q] = request[q] \/ request'[q] = NoRequest) => RequestsFit'
         /\ \A p \in DOMAIN packages : FlatItems(p)' = FlatItems(p)
         /\ reading' = reading => PagesRead'
<1>1. ASSUME NEW it, RequestFits(it) PROVE RequestFits(it)'
  <2>1. it.op = "baseline" => it.on = 0 /\ it.items \in RawDocs
    BY <1>1 DEF RequestFits
  <2>2. it.op = "build" => it.on \in DOMAIN revisions' /\ it.items = revisions'[it.on].items
    BY <1>1 DEF RequestFits, RevisionsGrow
  <2>3. it.op = "revise" => it.on \in DOMAIN packages' /\ Covers(it.items) = Covers(packages'[it.on].raw)
    BY <1>1 DEF RequestFits, PackagesGrow
  <2>4. it.op = "approve" => it.on \in DOMAIN revisions' /\ it.on \notin it.approved
    BY <1>1 DEF RequestFits, RevisionsGrow
  <2> QED
    BY <2>1, <2>2, <2>3, <2>4 DEF RequestFits, Covers
<1>2. RequestFits(NoRequest)
  BY DEF RequestFits, NoRequest
<1>3. ASSUME \A q \in Requests : request'[q] = request[q] \/ request'[q] = NoRequest PROVE RequestsFit'
  <2>1. ASSUME NEW q \in Requests, NEW it, it = request'[q] PROVE RequestFits(it)'
    <3>1. RequestFits(it)
      BY <1>2, <1>3, <2>1 DEF PackagesInv, RequestsFit
    <3> QED
      BY <1>1, <3>1
  <2> QED
    BY <2>1 DEF RequestsFit, RequestFits, Covers
<1>4. \A p \in DOMAIN packages : FlatItems(p)' = FlatItems(p)
  BY DEF PackagesGrow, FlatItems
<1>5. ASSUME reading' = reading PROVE PagesRead'
  BY <1>4, <1>5 DEF PackagesInv, PagesRead, PackagesGrow, Done
<1> QED
  BY <1>3, <1>4, <1>5

\* A caption becomes final: what was frozen or read before stays as it is.
LEMMA FinalStep == ASSUME PackagesInv, NEW s \in Range(Segments), FinalSegment(s) PROVE PackagesInv'
<1>1. finals' = finals \cup {s} /\ UNCHANGED <<packages, revisions, request, reading>>
  BY DEF FinalSegment
<1>2. StoreTypes'
  BY <1>1 DEF PackagesInv, StoreTypes, SourceIds
<1>3. NewestFrozen' /\ ApprovedOnce' /\ PackagesKept' /\ TranscriptsKept'
  BY <1>1 DEF PackagesInv, NewestFrozen, ApprovedOnce, ApprovedRevisions, PackagesKept, TranscriptsKept, Covers
<1>4. PackagesGrow /\ RevisionsGrow
  BY <1>1 DEF PackagesGrow, RevisionsGrow
<1> QED
  BY <1>1, <1>2, <1>3, <1>4, GrowthKeeps DEF PackagesInv

\* The record of a thread without a request.
LEMMA RequestEnds ==
  ASSUME StoreTypes, NEW q \in Requests, RequestDone(q)
  PROVE  /\ request' \in [Requests -> RequestStates]
         /\ \A p \in Requests : request'[p] = request[p] \/ request'[p] = NoRequest
<1>1. <<>> \in Docs
  BY DocsAre DEF Docs
<1>2. NoRequest \in RequestStates
  BY <1>1 DEF NoRequest, RequestStates
<1> QED
  BY <1>2 DEF StoreTypes, RequestDone

\* A build writes, when nobody else has taken the version meanwhile.
LEMMA StoredStep ==
  ASSUME PackagesInv, NEW q \in Requests, NEW raw \in RawDocs, NEW from \in Nat, Stored(q, raw, from),
         request[q].on # 0 => from \in DOMAIN packages /\ raw = packages[from].raw
  PROVE  PackagesInv'
<1>1. RequestDone(q) /\ UNCHANGED <<finals, revisions, reading>>
  BY DEF Stored
<1>2. PICK it \in RequestStates : it = request[q]
  BY DEF PackagesInv, StoreTypes
<1>3. PICK e : e = [status |-> "frozen", raw |-> raw, items |-> it.items, revision |-> it.on, base |-> from]
  OBVIOUS
<1>4. e \in PackageRows
  BY <1>2, <1>3 DEF PackageRows, RequestStates
<1>5. \/ UNCHANGED packages
      \/ packages' = Frozen(e) /\ ValidPackage(raw, it.items, it.on)
  BY <1>2, <1>3, Zenon DEF Stored
<1>6. RevisionsGrow
  BY <1>1 DEF RevisionsGrow
<1>7. request' \in [Requests -> RequestStates] /\ \A p \in Requests : request'[p] = request[p] \/ request'[p] = NoRequest
  BY <1>1, RequestEnds DEF PackagesInv
<1>8. CASE UNCHANGED packages
  <2>1. StoreTypes' /\ PackagesGrow
    BY <1>1, <1>7, <1>8 DEF PackagesInv, StoreTypes, PackagesGrow
  <2>2. NewestFrozen' /\ ApprovedOnce' /\ PackagesKept' /\ TranscriptsKept'
    BY <1>1, <1>8 DEF PackagesInv, NewestFrozen, ApprovedOnce, ApprovedRevisions, PackagesKept, TranscriptsKept, Covers
  <2> QED
    BY <1>1, <1>6, <1>7, <2>1, <2>2, GrowthKeeps DEF PackagesInv
<1>9. CASE packages' = Frozen(e) /\ ValidPackage(raw, it.items, it.on)
  <2>1. Len(packages) \in Nat /\ DOMAIN packages = 1..Len(packages) /\ \A p \in DOMAIN packages : packages[p] \in PackageRows
    BY DEF PackagesInv, StoreTypes
  <2>2. packages' = [p \in 1..Len(packages) + 1 |->
           IF p = Len(packages) + 1 THEN e
           ELSE [packages[p] EXCEPT !.status = IF @ = "frozen" THEN "superseded" ELSE @]]
    BY <1>9 DEF Frozen
  <2>3. \A p \in DOMAIN packages : packages'[p] = [packages[p] EXCEPT !.status = IF @ = "frozen" THEN "superseded" ELSE @]
    BY <2>1, <2>2
  <2>4. \A p \in DOMAIN packages : packages'[p] \in PackageRows /\ packages'[p].status = "superseded"
    BY <2>1, <2>3 DEF PackageRows
  <2>5. PackagesGrow
    BY <2>1, <2>2, <2>3 DEF PackagesGrow, PackageRows
  <2>6. packages' \in Seq(PackageRows) /\ Len(packages') = Len(packages) + 1 /\ packages'[Len(packages) + 1] = e
    <3>1. ASSUME NEW p \in 1..Len(packages) + 1 PROVE packages'[p] \in PackageRows
      <4>1. CASE p = Len(packages) + 1
        BY <1>4, <2>2, <4>1
      <4>2. CASE p # Len(packages) + 1
        BY <2>1, <2>4, <4>2
      <4> QED
        BY <4>1, <4>2
    <3>2. packages' = [p \in 1..Len(packages) + 1 |-> packages'[p]]
      BY <2>2
    <3> QED
      BY <2>1, <2>2, <3>1, <3>2, IsASeq
  <2>7. DOMAIN packages' = DOMAIN packages \cup {Len(packages) + 1} /\ Len(packages) + 1 \notin DOMAIN packages
    BY <2>1, <2>2
  <2>8. StoreTypes'
    BY <1>1, <1>7, <2>6 DEF PackagesInv, StoreTypes
  <2>9. NewestFrozen'
    BY <1>3, <2>4, <2>6, <2>7 DEF NewestFrozen
  <2>10. Covers(it.items) = Covers(raw)
    BY <1>9 DEF ValidPackage, EffectiveSource
  <2>11. PackagesKept'
    <3>1. ASSUME NEW p \in DOMAIN packages
          PROVE  /\ Covers(packages'[p].items) = Covers(packages'[p].raw)
                 /\ packages'[p].revision # 0 =>
                      packages'[p].base \in DOMAIN packages' /\ packages'[p].raw = packages'[packages'[p].base].raw
      BY <2>5 DEF PackagesInv, PackagesKept, PackagesGrow
    <3>2. /\ Covers(e.items) = Covers(e.raw)
          /\ e.revision # 0 => e.base \in DOMAIN packages' /\ e.raw = packages'[e.base].raw
      BY <1>2, <1>3, <2>5, <2>10 DEF PackagesGrow
    <3> QED
      BY <2>6, <2>7, <3>1, <3>2 DEF PackagesKept, Covers
  <2>12. TranscriptsKept'
    <3>1. \A r \in DOMAIN revisions :
            revisions[r].base \in DOMAIN packages' /\ Covers(revisions[r].items) = Covers(packages'[revisions[r].base].raw)
      BY <2>5 DEF PackagesInv, TranscriptsKept, PackagesGrow
    <3> QED
      BY <1>1, <3>1 DEF TranscriptsKept, Covers
  <2>13. ApprovedOnce'
    BY <1>1 DEF PackagesInv, ApprovedOnce, ApprovedRevisions
  <2> QED
    BY <1>1, <1>6, <1>7, <2>5, <2>8, <2>9, <2>11, <2>12, <2>13, GrowthKeeps DEF PackagesInv
<1> QED
  BY <1>5, <1>8, <1>9

\* The two builds.
LEMMA BuildSteps ==
  ASSUME PackagesInv, NEW q \in Requests, BuildPackage(q) \/ RebuildPackage(q) PROVE PackagesInv'
<1>1. request[q] \in RequestStates /\ RequestFits(request[q])
  BY DEF PackagesInv, StoreTypes, RequestsFit
<1>2. CASE BuildPackage(q)
  <2>1. request[q].items \in RawDocs /\ request[q].on = 0 /\ Stored(q, request[q].items, 0)
    BY <1>1, <1>2 DEF BuildPackage, RequestFits
  <2> QED
    BY <2>1, StoredStep
<1>3. CASE RebuildPackage(q)
  <2>1. request[q].on \in DOMAIN revisions
    BY <1>1, <1>3 DEF RebuildPackage, RequestFits
  <2>2. PICK from : from = revisions[request[q].on].base
    OBVIOUS
  <2>3. from \in DOMAIN packages /\ Stored(q, packages[from].raw, from)
    BY <1>3, <2>1, <2>2 DEF RebuildPackage, PackagesInv, TranscriptsKept
  <2>4. packages[from] \in PackageRows /\ from \in Nat
    BY <2>3 DEF PackagesInv, StoreTypes
  <2>5. packages[from].raw \in RawDocs
    BY <2>4 DEF PackageRows
  <2> QED
    BY <2>3, <2>4, <2>5, StoredStep
<1> QED
  BY <1>2, <1>3

\* A revision is created, when nobody else has taken the version meanwhile.
LEMMA CreateStep == ASSUME PackagesInv, NEW q \in Requests, CreateRevision(q) PROVE PackagesInv'
<1>1. request[q].op = "revise" /\ RequestDone(q) /\ UNCHANGED <<finals, packages, reading>>
  BY DEF CreateRevision
<1>2. PICK it \in RequestStates : it = request[q] /\ RequestFits(it)
  BY DEF PackagesInv, StoreTypes, RequestsFit
<1>3. it.on \in DOMAIN packages /\ Covers(it.items) = Covers(packages[it.on].raw)
  BY <1>1, <1>2 DEF RequestFits
<1>4. PICK e : e = [status |-> "saved", base |-> it.on, items |-> it.items]
  OBVIOUS
<1>5. e \in RevisionRows
  BY <1>2, <1>4 DEF RevisionRows, RequestStates
<1>6. revisions' = revisions \/ revisions' = Append(revisions, e)
  BY <1>2, <1>4 DEF CreateRevision
<1>7. /\ revisions' \in Seq(RevisionRows) /\ \A r \in DOMAIN revisions : r \in DOMAIN revisions' /\ revisions'[r] = revisions[r]
      /\ \A r \in DOMAIN revisions' : (r \in DOMAIN revisions /\ revisions'[r] = revisions[r]) \/ revisions'[r] = e
  <2>1. revisions \in Seq(RevisionRows)
    BY DEF PackagesInv, StoreTypes
  <2> QED
    BY <1>5, <1>6, <2>1
<1>8. RevisionsGrow /\ PackagesGrow
  BY <1>1, <1>7 DEF RevisionsGrow, PackagesGrow
<1>9. request' \in [Requests -> RequestStates] /\ \A p \in Requests : request'[p] = request[p] \/ request'[p] = NoRequest
  BY <1>1, RequestEnds DEF PackagesInv
<1>10. StoreTypes'
  BY <1>1, <1>7, <1>9 DEF PackagesInv, StoreTypes
<1>11. ApprovedOnce'
  <2>1. \A r \in ApprovedRevisions' : r \in ApprovedRevisions
    BY <1>4, <1>7 DEF ApprovedRevisions
  <2> QED
    BY <2>1 DEF PackagesInv, ApprovedOnce
<1>12. TranscriptsKept'
  <2>1. \A r \in DOMAIN revisions' :
          revisions'[r].base \in DOMAIN packages /\ Covers(revisions'[r].items) = Covers(packages[revisions'[r].base].raw)
    BY <1>3, <1>4, <1>7 DEF PackagesInv, TranscriptsKept
  <2> QED
    BY <1>1, <2>1 DEF TranscriptsKept, Covers
<1>13. NewestFrozen' /\ PackagesKept'
  BY <1>1 DEF PackagesInv, NewestFrozen, PackagesKept, Covers
<1> QED
  BY <1>1, <1>8, <1>9, <1>10, <1>11, <1>12, <1>13, GrowthKeeps DEF PackagesInv

\* An approval: the partial index refuses it when another approved one was not read.
LEMMA ApprovesStep == ASSUME PackagesInv, NEW q \in Requests, RevisionApproves(q) PROVE PackagesInv'
<1>1. request[q].op = "approve" /\ RequestDone(q) /\ UNCHANGED <<finals, packages, reading>>
  BY DEF RevisionApproves
<1>2. PICK it \in RequestStates : it = request[q] /\ RequestFits(it)
  BY DEF PackagesInv, StoreTypes, RequestsFit
<1>3. \/ UNCHANGED revisions
      \/ /\ ApprovedRevisions \subseteq it.approved \cup {it.on}
         /\ revisions' = [r \in DOMAIN revisions |->
                             IF r = it.on THEN [revisions[r] EXCEPT !.status = "approved"]
                             ELSE IF r \in it.approved THEN [revisions[r] EXCEPT !.status = "superseded"]
                             ELSE revisions[r]]
  BY <1>2, Zenon DEF RevisionApproves
<1>4. revisions \in Seq(RevisionRows)
  BY DEF PackagesInv, StoreTypes
<1>5. revisions' \in Seq(RevisionRows) /\ RevisionsGrow /\ DOMAIN revisions' = DOMAIN revisions
  <2>1. CASE UNCHANGED revisions
    BY <1>4, <2>1 DEF RevisionsGrow
  <2>2. CASE ~UNCHANGED revisions
    <3>1. \A r \in DOMAIN revisions : revisions[r] \in RevisionRows
      BY <1>4
    <3>2. DOMAIN revisions' = DOMAIN revisions /\ \A r \in DOMAIN revisions :
            revisions'[r] \in {revisions[r], [revisions[r] EXCEPT !.status = "approved"], [revisions[r] EXCEPT !.status = "superseded"]}
      BY <1>3, <2>2
    <3>3. \A r \in DOMAIN revisions :
            revisions'[r] \in RevisionRows /\ revisions'[r].items = revisions[r].items /\ revisions'[r].base = revisions[r].base
      BY <3>1, <3>2 DEF RevisionRows
    <3>4. revisions' = [r \in 1..Len(revisions) |-> revisions'[r]]
      BY <1>3, <1>4, <2>2
    <3>5. revisions' \in Seq(RevisionRows)
      BY <1>4, <3>3, <3>4, IsASeq
    <3> QED
      BY <3>2, <3>3, <3>5 DEF RevisionsGrow
  <2> QED
    BY <2>1, <2>2
<1>6. PackagesGrow
  BY <1>1 DEF PackagesGrow
<1>7. request' \in [Requests -> RequestStates] /\ \A p \in Requests : request'[p] = request[p] \/ request'[p] = NoRequest
  BY <1>1, RequestEnds DEF PackagesInv
<1>8. StoreTypes'
  BY <1>1, <1>5, <1>7 DEF PackagesInv, StoreTypes
<1>9. ApprovedOnce'
  <2>1. CASE UNCHANGED revisions
    BY <2>1 DEF PackagesInv, ApprovedOnce, ApprovedRevisions
  <2>2. CASE ~UNCHANGED revisions
    <3>1. \A r \in DOMAIN revisions : revisions[r] \in RevisionRows
      BY <1>4
    <3>2. \A r \in DOMAIN revisions : r # it.on => revisions'[r].status # "approved"
      BY <1>3, <2>2, <3>1 DEF RevisionRows, ApprovedRevisions
    <3> QED
      BY <1>5, <3>2 DEF ApprovedOnce, ApprovedRevisions
  <2> QED
    BY <2>1, <2>2
<1>10. TranscriptsKept'
  <2>1. \A r \in DOMAIN revisions' :
          revisions'[r].base \in DOMAIN packages /\ Covers(revisions'[r].items) = Covers(packages[revisions'[r].base].raw)
    BY <1>5 DEF PackagesInv, TranscriptsKept, RevisionsGrow
  <2> QED
    BY <1>1, <2>1 DEF TranscriptsKept, Covers
<1>11. NewestFrozen' /\ PackagesKept'
  BY <1>1 DEF PackagesInv, NewestFrozen, PackagesKept, Covers
<1> QED
  BY <1>1, <1>5, <1>6, <1>7, <1>8, <1>9, <1>10, <1>11, GrowthKeeps DEF PackagesInv

\* The documents of a Package, one after the other.
LEMMA FlatAre ==
  ASSUME PackagesInv, NEW p \in DOMAIN packages
  PROVE  FlatItems(p) \in Seq(SUBSET SourceIds) /\ Len(FlatItems(p)) \in 0..(2 * Len(Segments) + 1)
<1>1. packages[p] \in PackageRows
  BY DEF PackagesInv, StoreTypes
<1>2. PICK raw \in RawDocs, items \in Docs : raw = packages[p].raw /\ items = packages[p].items
  BY <1>1 DEF PackageRows
<1>3. /\ raw \in Seq(SUBSET SourceIds) /\ Len(raw) \in 0..Len(Segments) /\ Len(Segments) \in Nat
      /\ items \in Seq(SUBSET SourceIds) /\ Len(items) \in 0..(Len(Segments) + 1)
  BY DocsAre
<1>4. FlatItems(p) = raw \o <<>> \/ FlatItems(p) = raw \o items
  BY <1>2 DEF FlatItems
<1>5. raw \o <<>> = raw
  BY <1>3
<1>6. raw \o items \in Seq(SUBSET SourceIds) /\ Len(raw \o items) = Len(raw) + Len(items)
  BY <1>3
<1>7. PICK both : both = raw \o items
  OBVIOUS
<1>8. CASE FlatItems(p) = both
  BY <1>3, <1>6, <1>7, <1>8
<1>9. CASE FlatItems(p) = raw
  BY <1>3, <1>9
<1> QED
  BY <1>4, <1>5, <1>7, <1>8, <1>9

\* A reader begins with a Package.
LEMMA OpenStep == ASSUME PackagesInv, NEW p \in DOMAIN packages, OpenPackage(p) PROVE PackagesInv'
<1>1. reading' = [package |-> p, after |-> 0, got |-> <<>>] /\ UNCHANGED <<finals, packages, revisions, request>>
  BY DEF OpenPackage
<1>2. p \in Nat
  BY DEF PackagesInv, StoreTypes
<1>3. StoreTypes'
  BY <1>1, <1>2 DEF PackagesInv, StoreTypes
<1>4. PackagesGrow /\ RevisionsGrow
  BY <1>1 DEF PackagesGrow, RevisionsGrow
<1>5. PagesRead'
  <2>1. FlatItems(p)' = FlatItems(p) /\ FlatItems(p) \in Seq(SUBSET SourceIds)
    BY <1>4, FlatAre, GrowthKeeps
  <2>2. SubSeq(FlatItems(p), 1, 0) = <<>> /\ 0 \in 0..Len(FlatItems(p)) /\ Done # 0
    BY <2>1, SubSeqEmpty, DocsAre DEF Done
  <2> QED
    BY <1>1, <2>1, <2>2 DEF PagesRead, Done
<1>6. NewestFrozen' /\ ApprovedOnce' /\ PackagesKept' /\ TranscriptsKept'
  BY <1>1 DEF PackagesInv, NewestFrozen, ApprovedOnce, ApprovedRevisions, PackagesKept, TranscriptsKept, Covers
<1> QED
  BY <1>1, <1>3, <1>4, <1>5, <1>6, GrowthKeeps DEF PackagesInv

\* Without an item a page has no bytes.
LEMMA EmptyPage == ASSUME NEW items PROVE Bytes(items, 0) = 0
<1> DEFINE F(g) == [k \in 0..0 |-> IF k = 0 THEN 0 ELSE g[k - 1] + Cardinality(items[k])]
           upTo == CHOOSE g : g = F(g)
<1>1. \A g : F(g) = [k \in 0..0 |-> 0]
  OBVIOUS
<1>2. PICK f : f = [k \in 0..0 |-> 0]
  OBVIOUS
<1>3. f = F(f)
  BY <1>1, <1>2
<1>4. upTo = F(upTo)
  <2> HIDE DEF F
  <2> QED
    BY <1>3, Zenon
<1>5. upTo[0] = 0
  <2>1. upTo = [k \in 0..0 |-> 0]
    <3> HIDE DEF F, upTo
    <3> QED
      BY <1>1, <1>4
  <2> HIDE DEF upTo
  <2> QED
    BY <2>1
<1>6. Bytes(items, 0) = upTo[0]
  BY Zenon DEF Bytes
<1> QED
  BY <1>5, <1>6, Zenon

\* A page begins after what was delivered.
LEMMA PageIs ==
  ASSUME NEW flat \in Seq(SUBSET SourceIds), NEW after \in 0..Len(flat)
  PROVE  \E n \in 0..(Len(flat) - after) :
           /\ PageFrom(flat, after) = SubSeq(flat, after + 1, after + n) /\ Len(PageFrom(flat, after)) = n
<1> DEFINE rest == SubSeq(flat, after + 1, Len(flat))
           fits == {n \in 0..Len(rest) : n <= PageLimit /\ Bytes(rest, n) <= PageBytes}
           top(n) == n \in fits /\ \A m \in fits : m <= n
           most == CHOOSE n \in fits : \A m \in fits : m <= n
<1>1. /\ rest \in Seq(SUBSET SourceIds) /\ Len(rest) = Len(flat) - after /\ Len(rest) \in Nat
      /\ \A i \in 1..Len(rest) : rest[i] = flat[after + i]
  BY SubSeqProperties
<1>2. 0 \in fits /\ fits \subseteq 0..Len(rest)
  <2> HIDE DEF rest
  <2>1. 0 \in 0..Len(rest) /\ 0 <= PageLimit /\ Bytes(rest, 0) <= PageBytes
    BY <1>1, EmptyPage, PackagesAssumption
  <2> QED
    BY <2>1
<1> HIDE DEF fits
<1>3. \E n \in fits : \A m \in fits : m <= n
  <2> DEFINE left == {k \in 0..Len(rest) : Len(rest) - k \in fits}
  <2>1. left \subseteq Nat /\ Len(rest) \in left
    BY <1>1, <1>2
  <2>2. PICK k \in left : \A y \in left : ~(y < k)
    <3> HIDE DEF left
    <3> QED
      BY <2>1, LeastNumber
  <2>3. \A m \in fits : m \in 0..Len(rest) /\ Len(rest) - m \in 0..Len(rest) /\ Len(rest) - (Len(rest) - m) = m
    BY <1>1, <1>2
  <2>4. ASSUME NEW m \in fits PROVE m <= Len(rest) - k
    <3>1. Len(rest) - m \in left
      BY <2>3
    <3>2. ~(Len(rest) - m < k)
      BY <2>2, <3>1
    <3> HIDE DEF rest, left
    <3> QED
      BY <1>1, <2>1, <2>2, <2>3, <3>2
  <2> QED
    BY <2>2, <2>4
<1>4. most \in fits
  BY <1>3, Zenon
<1>5. PICK n : n = most
  OBVIOUS
<1>6. PageFrom(flat, after) = SubSeq(rest, 1, n)
  BY <1>5, Zenon DEF PageFrom, fits
<1>7. n \in 0..(Len(flat) - after) /\ n \in 0..Len(rest)
  BY <1>1, <1>2, <1>4, <1>5
<1>8. /\ SubSeq(rest, 1, n) \in Seq(SUBSET SourceIds) /\ Len(SubSeq(rest, 1, n)) = n
      /\ \A i \in 1..n : SubSeq(rest, 1, n)[i] = rest[i]
  <2> HIDE DEF rest
  <2>1. \A i \in 1..n : rest[i] \in SUBSET SourceIds
    BY <1>1, <1>7
  <2> QED
    BY <1>1, <1>7, <2>1, SubSeqProperties
<1>9. /\ SubSeq(flat, after + 1, after + n) \in Seq(SUBSET SourceIds) /\ Len(SubSeq(flat, after + 1, after + n)) = n
      /\ \A i \in 1..n : SubSeq(flat, after + 1, after + n)[i] = flat[after + i]
  BY <1>7, SubSeqProperties
<1>10. SubSeq(rest, 1, n) = SubSeq(flat, after + 1, after + n)
  <2> HIDE DEF rest
  <2>1. \A i \in 1..n : SubSeq(rest, 1, n)[i] = SubSeq(flat, after + 1, after + n)[i]
    BY <1>1, <1>7, <1>8, <1>9
  <2> QED
    BY <1>7, <1>8, <1>9, <2>1, SeqEqual
<1> QED
  BY <1>6, <1>7, <1>8, <1>10

\* The next page begins where the last one ended.
LEMMA PageStep == ASSUME PackagesInv, DeliveryPage PROVE PackagesInv'
<1>1. PICK p \in DOMAIN packages : p = reading.package
  BY DEF PackagesInv, PagesRead, DeliveryPage
<1>2. PICK flat \in Seq(SUBSET SourceIds) : flat = FlatItems(p)
  BY FlatAre
<1>3. Len(flat) \in Nat /\ Len(flat) <= Done /\ Done \in Nat
  <2>1. Len(Segments) \in Nat /\ Len(flat) \in 0..(2 * Len(Segments) + 1)
    BY <1>2, FlatAre, DocsAre
  <2> QED
    BY <2>1 DEF Done
<1>4. PICK after \in 0..Len(flat) : after = reading.after /\ reading.got = SubSeq(flat, 1, after)
  BY <1>1, <1>2 DEF PackagesInv, PagesRead, DeliveryPage, StoreTypes
<1>5. PICK page : page = PageFrom(flat, after)
  OBVIOUS
<1>6. PICK n \in 0..(Len(flat) - after) : page = SubSeq(flat, after + 1, after + n) /\ Len(page) = n
  BY <1>5, PageIs
<1>7. /\ reading' = [reading EXCEPT !.got = @ \o page,
                                   !.after = IF after + n >= Len(flat) THEN Done ELSE after + n]
      /\ UNCHANGED <<finals, packages, revisions, request>>
  BY <1>1, <1>2, <1>4, <1>5, <1>6, Zenon DEF DeliveryPage
<1>8. reading.got \o page = SubSeq(flat, 1, after + n) /\ SubSeq(flat, 1, after + n) \in Seq(SUBSET SourceIds)
  <2>1. 1 \in 1..(Len(flat) + 1) /\ after \in (1 - 1)..Len(flat) /\ after + n \in after..Len(flat)
    <3>1. PICK k \in Nat : k = Len(flat)
      BY <1>3
    <3>2. after \in 0..k /\ n \in 0..(k - after)
      BY <1>4, <1>6, <3>1
    <3>3. 1 \in 1..(k + 1) /\ after \in (1 - 1)..k /\ after + n \in after..k
      BY <3>1, <3>2
    <3> QED
      BY <3>1, <3>3
  <2>2. SubSeq(flat, 1, after) \o SubSeq(flat, after + 1, after + n) = SubSeq(flat, 1, after + n)
    BY <2>1, ConcatAdjacentSubSeq
  <2>3. \A i \in 1..(after + n) : flat[i] \in SUBSET SourceIds
    BY <1>3, <2>1
  <2>4. SubSeq(flat, 1, after + n) \in Seq(SUBSET SourceIds)
    BY <1>3, <2>1, <2>3, SubSeqProperties
  <2> QED
    BY <1>4, <1>6, <2>2, <2>4
<1>9. PICK got \in Seq(SUBSET SourceIds) : got = SubSeq(flat, 1, after + n)
  BY <1>8
<1>10. /\ reading' \in [package : Nat, after : Nat, got : Seq(SUBSET SourceIds)]
       /\ reading'.package = p /\ reading'.got = got
       /\ reading'.after = IF after + n >= Len(flat) THEN Done ELSE after + n
  <2>1. reading \in [package : Nat, after : Nat, got : Seq(SUBSET SourceIds)]
    BY DEF PackagesInv, StoreTypes
  <2>2. (IF after + n >= Len(flat) THEN Done ELSE after + n) \in Nat
    BY <1>3, <1>6
  <2>3. reading' = [reading EXCEPT !.got = got, !.after = IF after + n >= Len(flat) THEN Done ELSE after + n]
    BY <1>7, <1>8, <1>9
  <2> QED
    BY <1>1, <2>1, <2>2, <2>3
<1>11. StoreTypes'
  BY <1>7, <1>10 DEF PackagesInv, StoreTypes
<1>12. PackagesGrow /\ RevisionsGrow
  BY <1>7 DEF PackagesGrow, RevisionsGrow
<1>13. FlatItems(p)' = flat
  BY <1>2, <1>12, GrowthKeeps
<1>14. PagesRead'
  <2>1. CASE after + n >= Len(flat)
    <3>1. after + n = Len(flat)
      BY <1>3, <1>6, <2>1
    <3>2. got = flat
      BY <1>9, <3>1, SubSeqFull
    <3> QED
      BY <1>1, <1>7, <1>10, <1>13, <2>1, <3>2 DEF PagesRead, Done
  <2>2. CASE ~(after + n >= Len(flat))
    <3>1. after + n \in 0..Len(flat) /\ after + n # Done
      BY <1>3, <1>6, <2>2
    <3> QED
      BY <1>1, <1>7, <1>9, <1>10, <1>13, <2>2, <3>1 DEF PagesRead, Done
  <2> QED
    BY <2>1, <2>2
<1>15. NewestFrozen' /\ ApprovedOnce' /\ PackagesKept' /\ TranscriptsKept'
  BY <1>7 DEF PackagesInv, NewestFrozen, ApprovedOnce, ApprovedRevisions, PackagesKept, TranscriptsKept, Covers
<1> QED
  BY <1>7, <1>11, <1>12, <1>14, <1>15, GrowthKeeps DEF PackagesInv

\* Every request and every reader preserves the invariant.
LEMMA PackagesKeep == PackagesInv /\ [PackagesNext]_packageVars => PackagesInv'
<1> SUFFICES ASSUME PackagesInv, [PackagesNext]_packageVars PROVE PackagesInv'
  OBVIOUS
<1>1. CASE UNCHANGED packageVars
  <2>1. UNCHANGED <<finals, packages, revisions, request, reading>>
    BY <1>1 DEF packageVars
  <2>2. StoreTypes' /\ NewestFrozen' /\ ApprovedOnce' /\ PackagesKept' /\ TranscriptsKept'
    BY <2>1 DEF PackagesInv, StoreTypes, NewestFrozen, ApprovedOnce, ApprovedRevisions, PackagesKept, TranscriptsKept, Covers
  <2>3. PackagesGrow /\ RevisionsGrow
    BY <2>1 DEF PackagesGrow, RevisionsGrow
  <2> QED
    BY <2>1, <2>2, <2>3, GrowthKeeps DEF PackagesInv
<1>2. CASE PackagesNext
  BY <1>2, FinalStep, ReadSteps, BuildSteps, CreateStep, ApprovesStep, OpenStep, PageStep DEF PackagesNext
<1> QED
  BY <1>1, <1>2

\* build_baseline, build_from_revision, the revisions and their approval, delivery_page:
\* for any captions, any number of threads that race between reads and writes, and any
\* limits of a page, one result is current, no source segment is lost or added, and a
\* reader's pages are the Package.
THEOREM PackagesSafeHolds == PackagesSpec => []PackagesSafe
<1>1. PackagesSpec => []PackagesInv
  BY PackagesStart, PackagesKeep, PTL DEF PackagesSpec
<1> QED
  BY <1>1, PackagesInvSafe, PTL

-----------------------------------------------------------------------------
(* Notes and action candidates.                                            *)

CandidateFields == {"id", "content", "readiness", "revision", "status", "execution", "by"}

SupersededIn(rows) == {c \in DOMAIN rows : rows[c].status = "superseded"}

(* The depth of each row: how many successors follow it at most.           *)
Ranks(rank, rows) ==
  /\ rank \in [DOMAIN rows -> 0..Cardinality(SupersededIn(rows))]
  /\ \A c \in SupersededIn(rows) : rows[c].by \in DOMAIN rows /\ rank[rows[c].by] < rank[c]

(* A part that was split off has a superseded parent.                      *)
PartsHaveParents(rows) ==
  \A c \in DOMAIN rows : rows[c].id[1] # <<0, 0>> => rows[c].id[1][1] \in SupersededIn(rows)

Chained(rows) ==
  /\ IsSeq(rows) /\ \A c \in DOMAIN rows : DOMAIN rows[c] = CandidateFields
  /\ \E rank : Ranks(rank, rows)

RowsSound(rows) == Chained(rows) /\ PartsHaveParents(rows)

NotesFit ==
  /\ DOMAIN projecting \subseteq CaptionIds
  /\ \A n \in notes : DOMAIN n.at \subseteq CaptionIds

CandidatesInv == NotesFit /\ NotesCurrent /\ RowsSound(candidates)

\* The rows of a sequence are finitely many.
LEMMA RowsFinite ==
  ASSUME NEW rows, IsSeq(rows)
  PROVE  /\ DOMAIN rows = 1..Len(rows) /\ Len(rows) \in Nat
         /\ IsFiniteSet(SupersededIn(rows)) /\ Cardinality(SupersededIn(rows)) \in 0..Len(rows)
<1>1. PICK X : rows \in Seq(X)
  BY DEF IsSeq
<1>2. DOMAIN rows = 1..Len(rows) /\ Len(rows) \in Nat
  BY <1>1
<1>3. IsFiniteSet(1..Len(rows)) /\ Cardinality(1..Len(rows)) = Len(rows)
  <2>1. PICK n \in Nat : n = Len(rows)
    BY <1>2
  <2>2. IsFiniteSet(1..n) /\ Cardinality(1..n) = IF 1 > n THEN 0 ELSE n - 1 + 1
    BY FS_Interval
  <2> QED
    BY <2>1, <2>2
<1>4. SupersededIn(rows) \in SUBSET (1..Len(rows))
  BY <1>2 DEF SupersededIn
<1>5. IsFiniteSet(SupersededIn(rows)) /\ Cardinality(SupersededIn(rows)) <= Len(rows)
  BY <1>3, <1>4, FS_Subset
<1>6. Cardinality(SupersededIn(rows)) \in Nat
  BY <1>5, FS_CardinalityType
<1> QED
  BY <1>2, <1>5, <1>6

(* Rows that are revised, cancelled or marked: none is superseded by it.   *)
SameChains(old, new) ==
  /\ new = [c \in DOMAIN old |-> new[c]]
  /\ \A c \in DOMAIN old :
       /\ DOMAIN new[c] = CandidateFields /\ new[c].id = old[c].id /\ new[c].by = old[c].by
       /\ new[c].status = "superseded" <=> old[c].status = "superseded"

\* Such rows stay sound.
LEMMA SameChainsKeep == ASSUME NEW old, NEW new, RowsSound(old), SameChains(old, new) PROVE RowsSound(new)
<1>1. IsSeq(new) /\ DOMAIN new = DOMAIN old
  BY Replaced DEF RowsSound, Chained, SameChains
<1>2. SupersededIn(new) = SupersededIn(old)
  BY <1>1 DEF SupersededIn, SameChains
<1>3. PICK rank : Ranks(rank, old)
  BY DEF RowsSound, Chained
<1>4. Ranks(rank, new)
  <2>1. \A c \in SupersededIn(old) : c \in DOMAIN old
    BY DEF SupersededIn
  <2> QED
    BY <1>1, <1>2, <1>3, <2>1 DEF Ranks, SameChains
<1>5. PartsHaveParents(new)
  BY <1>1, <1>2 DEF RowsSound, Chained, PartsHaveParents, SameChains
<1> QED
  BY <1>1, <1>4, <1>5 DEF RowsSound, Chained, SameChains

\* A new candidate is active.
LEMMA AppendKeepsChained ==
  ASSUME NEW rows, Chained(rows), NEW e, DOMAIN e = CandidateFields, e.status = "active"
  PROVE  Chained(Append(rows, e)) /\ SupersededIn(Append(rows, e)) = SupersededIn(rows)
<1>1. PICK new : new = Append(rows, e)
  OBVIOUS
<1>2. /\ IsSeq(new) /\ Len(rows) \in Nat /\ Len(rows) + 1 \notin DOMAIN rows
      /\ DOMAIN new = DOMAIN rows \cup {Len(rows) + 1}
      /\ new[Len(rows) + 1] = e /\ \A i \in DOMAIN rows : new[i] = rows[i]
  BY <1>1, Appended DEF RowsSound, Chained
<1>3. SupersededIn(new) = SupersededIn(rows)
  BY <1>2 DEF SupersededIn
<1>4. PICK rank : Ranks(rank, rows)
  BY DEF RowsSound, Chained
<1>5. PICK longer : longer = [c \in DOMAIN new |-> IF c \in DOMAIN rows THEN rank[c] ELSE 0]
  OBVIOUS
<1>6. Cardinality(SupersededIn(rows)) \in Nat
  BY RowsFinite DEF RowsSound, Chained
<1>7. Ranks(longer, new)
  <2>1. longer \in [DOMAIN new -> 0..Cardinality(SupersededIn(new))]
    BY <1>2, <1>3, <1>4, <1>5, <1>6 DEF Ranks
  <2>2. \A c \in SupersededIn(rows) : c \in DOMAIN rows
    BY DEF SupersededIn
  <2>3. \A c \in SupersededIn(new) : new[c].by \in DOMAIN new /\ longer[new[c].by] < longer[c]
    BY <1>2, <1>3, <1>4, <1>5, <2>2 DEF Ranks
  <2> QED
    BY <2>1, <2>3 DEF Ranks
<1> QED
  BY <1>1, <1>2, <1>3, <1>7 DEF Chained

(* One row more is superseded, by a row that is not.                       *)
OneMore(old, new, d) ==
  /\ new = [c \in DOMAIN old |-> new[c]]
  /\ d \in DOMAIN old /\ d \notin SupersededIn(old)
  /\ \A c \in DOMAIN old :
       /\ DOMAIN new[c] = CandidateFields /\ new[c].id = old[c].id
       /\ c # d => new[c].by = old[c].by
       /\ new[c].status = "superseded" <=> (old[c].status = "superseded" \/ c = d)
  /\ new[d].by \in DOMAIN old /\ new[d].by # d /\ new[d].by \notin SupersededIn(old)

\* Its rank is one, and all that were superseded before get one more.
LEMMA OneMoreKeeps ==
  ASSUME NEW old, NEW new, NEW d, Chained(old), OneMore(old, new, d)
  PROVE  Chained(new) /\ SupersededIn(new) = SupersededIn(old) \cup {d}
<1>1. IsSeq(new) /\ DOMAIN new = DOMAIN old
  BY Replaced DEF RowsSound, Chained, OneMore
<1>2. SupersededIn(new) = SupersededIn(old) \cup {d} /\ d \notin SupersededIn(old)
  BY <1>1 DEF SupersededIn, OneMore
<1>3. PICK rank : Ranks(rank, old)
  BY DEF RowsSound, Chained
<1>4. PICK k \in Nat : k = Cardinality(SupersededIn(old)) /\ Cardinality(SupersededIn(new)) = k + 1
  <2>1. IsFiniteSet(SupersededIn(old)) /\ Cardinality(SupersededIn(old)) \in Nat
    BY RowsFinite DEF RowsSound, Chained
  <2> QED
    BY <1>2, <2>1, FS_AddElement
<1>5. PICK deeper : deeper = [c \in DOMAIN old |-> IF c = d THEN 1 ELSE IF c \in SupersededIn(old) THEN rank[c] + 1 ELSE 0]
  OBVIOUS
<1>6. \A c \in DOMAIN old : rank[c] \in 0..k
  BY <1>3, <1>4 DEF Ranks
<1>7. deeper \in [DOMAIN new -> 0..Cardinality(SupersededIn(new))]
  BY <1>1, <1>4, <1>5, <1>6
<1>8. ASSUME NEW c \in SupersededIn(new) PROVE new[c].by \in DOMAIN new /\ deeper[new[c].by] < deeper[c]
  <2>1. CASE c = d
    BY <1>1, <1>5, <2>1 DEF OneMore
  <2>2. CASE c # d
    <3>1. c \in SupersededIn(old) /\ c \in DOMAIN old /\ new[c].by = old[c].by
      BY <1>2, <2>2 DEF SupersededIn, OneMore
    <3>2. PICK y \in DOMAIN old : y = old[c].by /\ rank[y] < rank[c]
      BY <1>3, <3>1 DEF Ranks
    <3>3. deeper[c] = rank[c] + 1 /\ rank[c] \in 0..k /\ rank[y] \in 0..k
      BY <1>5, <1>6, <2>2, <3>1
    <3>4. deeper[y] \in {1, rank[y] + 1, 0}
      BY <1>5
    <3> QED
      BY <1>1, <3>1, <3>2, <3>3, <3>4
  <2> QED
    BY <2>1, <2>2
<1>9. Ranks(deeper, new)
  BY <1>7, <1>8 DEF Ranks
<1> QED
  BY <1>1, <1>2, <1>9 DEF Chained, OneMore

-----------------------------------------------------------------------------
\* A new candidate.
LEMMA CandidateIs ==
  ASSUME NEW origin, NEW content, NEW e, e = Candidate(origin, content)
  PROVE  /\ DOMAIN e = CandidateFields /\ e.status = "active"
         /\ e.id = Identity(origin, content) /\ e.id[1] = origin
BY DEF Candidate, CandidateFields, Identity

\* A revised row is the old one but for its content.
LEMMA RevisedIs ==
  ASSUME NEW row, DOMAIN row = CandidateFields, NEW content, NEW e, e = Revised(row, content)
  PROVE  DOMAIN e = CandidateFields /\ e.id = row.id /\ e.by = row.by /\ e.status = row.status
BY DEF Revised, CandidateFields

\* create: a candidate of its own.
LEMMA CreateKeeps == ASSUME RowsSound(candidates), NEW content PROVE RowsSound(Create(candidates, <<0, 0>>, content))
<1>1. PICK e : e = Candidate(<<0, 0>>, content)
  OBVIOUS
<1>2. RowsSound(Append(candidates, e))
  <2>1. e.id[1] = <<0, 0>> /\ DOMAIN e = CandidateFields /\ e.status = "active"
    BY <1>1, CandidateIs
  <2>2. PICK new : new = Append(candidates, e)
    OBVIOUS
  <2>3. Chained(new) /\ SupersededIn(new) = SupersededIn(candidates)
    BY <2>1, <2>2, AppendKeepsChained DEF RowsSound
  <2>4. PartsHaveParents(new)
    BY <2>1, <2>2, <2>3, Appended DEF RowsSound, Chained, PartsHaveParents
  <2> QED
    BY <2>2, <2>3, <2>4 DEF RowsSound
<1>3. Create(candidates, <<0, 0>>, content) = candidates \/ Create(candidates, <<0, 0>>, content) = Append(candidates, e)
  BY <1>1 DEF Create
<1> QED
  BY <1>2, <1>3

\* revise, and the cancellation of an active candidate.
LEMMA ReviseKeeps ==
  ASSUME RowsSound(candidates), NEW c \in DOMAIN candidates, candidates[c].status = "active", NEW content
  PROVE  RowsSound(Revise(c, content)) /\ RowsSound(Cancel(c))
<1>1. \A x \in DOMAIN candidates : DOMAIN candidates[x] = CandidateFields
  BY DEF RowsSound, Chained
<1>2. PICK e : e = Revised(candidates[c], content)
  OBVIOUS
<1>3. PICK f : f = [Revised(candidates[c], candidates[c].content) EXCEPT !.status = "cancelled"]
  OBVIOUS
<1>4. PICK new : new = Revise(c, content)
  OBVIOUS
<1>5. PICK gone : gone = Cancel(c)
  OBVIOUS
<1>6. new = [candidates EXCEPT ![c] = e] /\ gone = [candidates EXCEPT ![c] = f]
  BY <1>2, <1>3, <1>4, <1>5 DEF Revise, Cancel
<1>7. DOMAIN e = CandidateFields /\ e.id = candidates[c].id /\ e.by = candidates[c].by /\ e.status = "active"
  BY <1>1, <1>2, RevisedIs
<1>8. DOMAIN f = CandidateFields /\ f.id = candidates[c].id /\ f.by = candidates[c].by /\ f.status = "cancelled"
  BY <1>1, <1>3 DEF Revised, CandidateFields
<1>9. SameChains(candidates, new)
  BY <1>1, <1>6, <1>7 DEF SameChains
<1>10. SameChains(candidates, gone)
  BY <1>1, <1>6, <1>8 DEF SameChains
<1> QED
  BY <1>4, <1>5, <1>9, <1>10, SameChainsKeep

\* merge: the younger one is superseded by the older, which is active.
LEMMA MergeKeeps ==
  ASSUME RowsSound(candidates), NEW c \in DOMAIN candidates, NEW d \in DOMAIN candidates, c < d,
         MayReshape(c), MayReshape(d)
  PROVE  RowsSound(Merge(c, d))
<1>1. \A x \in DOMAIN candidates : DOMAIN candidates[x] = CandidateFields
  BY DEF RowsSound, Chained
<1>2. candidates[c].status = "active" /\ candidates[d].status = "active"
  BY DEF MayReshape
<1>3. PICK e : e = Revised(candidates[c], MergeContent(candidates[c].content, candidates[d].content))
  OBVIOUS
<1>4. PICK f : f = Superseded(candidates[d], c)
  OBVIOUS
<1>5. PICK new : new = Merge(c, d)
  OBVIOUS
<1>6. c # d
  BY RowsFinite DEF RowsSound, Chained
<1>7. new = [candidates EXCEPT ![c] = e, ![d] = f]
  BY <1>3, <1>4, <1>5, <1>6 DEF Merge
<1>8. DOMAIN e = CandidateFields /\ e.id = candidates[c].id /\ e.by = candidates[c].by /\ e.status = "active"
  BY <1>1, <1>2, <1>3, RevisedIs
<1>9. DOMAIN f = CandidateFields /\ f.id = candidates[d].id /\ f.by = c /\ f.status = "superseded"
  BY <1>1, <1>4 DEF Superseded, CandidateFields
<1>10. /\ new = [x \in DOMAIN candidates |-> new[x]] /\ new[c] = e /\ new[d] = f
       /\ \A x \in DOMAIN candidates \ {c, d} : new[x] = candidates[x]
  BY <1>6, <1>7
<1>11. OneMore(candidates, new, d)
  BY <1>1, <1>2, <1>6, <1>8, <1>9, <1>10 DEF OneMore, SupersededIn
<1>12. Chained(new) /\ SupersededIn(new) = SupersededIn(candidates) \cup {d}
  BY <1>11, OneMoreKeeps DEF RowsSound
<1>13. PartsHaveParents(new)
  BY <1>10, <1>11, <1>12 DEF RowsSound, PartsHaveParents, OneMore
<1> QED
  BY <1>5, <1>12, <1>13 DEF RowsSound

\* split: the parts are new rows, and the first of them succeeds their parent.
LEMMA SplitKeeps ==
  ASSUME RowsSound(candidates), NEW c \in DOMAIN candidates, MayReshape(c), NEW first, NEW second
  PROVE  RowsSound(Split(c, first, second))
<1>1. candidates[c].status = "active" /\ c \notin SupersededIn(candidates)
  BY DEF MayReshape, SupersededIn
<1>2. c \in Nat /\ c >= 1
  BY RowsFinite DEF RowsSound, Chained
<1>3. PICK e : e = Candidate(<<c, 1>>, first)
  OBVIOUS
<1>4. PICK f : f = Candidate(<<c, 2>>, second)
  OBVIOUS
<1>5. /\ DOMAIN e = CandidateFields /\ e.status = "active" /\ e.id = Identity(<<c, 1>>, first) /\ e.id[1] = <<c, 1>>
      /\ DOMAIN f = CandidateFields /\ f.status = "active" /\ f.id = Identity(<<c, 2>>, second) /\ f.id[1] = <<c, 2>>
  BY <1>3, <1>4, CandidateIs
<1>6. \A x \in DOMAIN candidates : candidates[x].id[1] # <<c, 1>> /\ candidates[x].id[1] # <<c, 2>>
  <2>1. \A x \in DOMAIN candidates : candidates[x].id[1] # <<0, 0>> => candidates[x].id[1][1] # c
    BY <1>1 DEF RowsSound, Chained, PartsHaveParents
  <2>2. <<c, 1>> # <<0, 0>> /\ <<c, 2>> # <<0, 0>> /\ <<c, 1>>[1] = c /\ <<c, 2>>[1] = c
    BY <1>2
  <2> QED
    BY <2>1, <2>2
<1>7. PICK one : one = Append(candidates, e)
  OBVIOUS
<1>8. PICK p : p = Len(candidates) + 1
  OBVIOUS
<1>9. /\ IsSeq(one) /\ DOMAIN one = DOMAIN candidates \cup {p} /\ p \notin DOMAIN candidates
      /\ one[p] = e /\ \A x \in DOMAIN candidates : one[x] = candidates[x]
  BY <1>7, <1>8, Appended DEF RowsSound, Chained
<1>10. Create(candidates, <<c, 1>>, first) = one
  <2>1. WithIdentity(candidates, Identity(<<c, 1>>, first)) = {}
    BY <1>5, <1>6 DEF WithIdentity
  <2> QED
    BY <1>3, <1>7, <2>1 DEF Create
<1>11. PICK two : two = Append(one, f)
  OBVIOUS
<1>12. PICK q : q = Len(one) + 1
  OBVIOUS
<1>13. /\ IsSeq(two) /\ DOMAIN two = DOMAIN one \cup {q} /\ q \notin DOMAIN one
       /\ two[q] = f /\ \A x \in DOMAIN one : two[x] = one[x]
  <2>1. IsSeq(one)
    BY <1>9
  <2> QED
    BY <1>11, <1>12, <2>1, Appended, SMTT(30)
<1>14. Create(one, <<c, 2>>, second) = two
  <2>1. \A x \in DOMAIN one : one[x].id[1] # <<c, 2>>
    BY <1>5, <1>6, <1>9
  <2>2. WithIdentity(one, Identity(<<c, 2>>, second)) = {}
    BY <1>5, <2>1 DEF WithIdentity
  <2> QED
    BY <1>4, <1>11, <2>2 DEF Create
<1>15. WithIdentity(two, Identity(<<c, 1>>, first)) = {p}
  <2>1. \A x \in DOMAIN two : two[x].id[1] = <<c, 1>> => x = p
    BY <1>5, <1>6, <1>9, <1>13
  <2>2. Identity(<<c, 1>>, first)[1] = <<c, 1>>
    BY <1>5
  <2>3. p \in DOMAIN two /\ two[p].id = Identity(<<c, 1>>, first)
    BY <1>5, <1>9, <1>13
  <2> QED
    BY <2>1, <2>2, <2>3 DEF WithIdentity
<1>16. PICK new : new = Split(c, first, second)
  OBVIOUS
<1>17. PICK g : g = Superseded(candidates[c], p)
  OBVIOUS
<1>18. new = [two EXCEPT ![c] = g]
  <2>1. (CHOOSE x \in {p} : TRUE) = p
    OBVIOUS
  <2>2. two[c] = candidates[c]
    BY <1>9, <1>13
  <2>3. Split(c, first, second) =
          [two EXCEPT ![c] = Superseded(two[c], CHOOSE x \in WithIdentity(two, Identity(<<c, 1>>, first)) : TRUE)]
    BY <1>10, <1>14 DEF Split
  <2> QED
    BY <1>15, <1>16, <1>17, <2>1, <2>2, <2>3
<1>19. DOMAIN g = CandidateFields /\ g.id = candidates[c].id /\ g.by = p /\ g.status = "superseded"
  BY <1>17 DEF RowsSound, Chained, Superseded, CandidateFields
<1>20. Chained(one) /\ SupersededIn(one) = SupersededIn(candidates)
  BY <1>5, <1>7, AppendKeepsChained DEF RowsSound
<1>21. Chained(two) /\ SupersededIn(two) = SupersededIn(candidates)
  BY <1>5, <1>11, <1>20, AppendKeepsChained
<1>22. /\ new = [x \in DOMAIN two |-> new[x]] /\ new[c] = g /\ \A x \in DOMAIN two \ {c} : new[x] = two[x]
       /\ c \in DOMAIN two /\ two[c] = candidates[c]
  BY <1>9, <1>13, <1>18
<1>23. OneMore(two, new, c)
  <2>1. p \in DOMAIN two /\ p # c /\ p \notin SupersededIn(two)
    BY <1>5, <1>9, <1>13 DEF SupersededIn
  <2>2. \A x \in DOMAIN two : DOMAIN two[x] = CandidateFields
    BY <1>21 DEF Chained
  <2> QED
    BY <1>1, <1>19, <1>21, <1>22, <2>1, <2>2 DEF OneMore, SupersededIn
<1>24. Chained(new) /\ SupersededIn(new) = SupersededIn(candidates) \cup {c}
  BY <1>21, <1>23, OneMoreKeeps
<1>25. PartsHaveParents(new)
  <2>1. \A x \in DOMAIN two : two[x].id[1] # <<0, 0>> => two[x].id[1][1] \in SupersededIn(candidates) \cup {c}
    <3>1. \A x \in DOMAIN candidates : two[x] = candidates[x]
      BY <1>9, <1>13
    <3>2. two[p].id[1] = <<c, 1>> /\ two[q].id[1] = <<c, 2>> /\ DOMAIN two = DOMAIN candidates \cup {p, q}
      BY <1>5, <1>9, <1>13
    <3>3. <<c, 1>>[1] = c /\ <<c, 2>>[1] = c
      OBVIOUS
    <3> QED
      BY <3>1, <3>2, <3>3 DEF RowsSound, PartsHaveParents
  <2>2. DOMAIN new = DOMAIN two /\ \A x \in DOMAIN two : new[x].id = two[x].id
    BY <1>23 DEF OneMore
  <2> QED
    BY <1>24, <2>1, <2>2 DEF PartsHaveParents
<1> QED
  BY <1>16, <1>24, <1>25 DEF RowsSound


-----------------------------------------------------------------------------
(* The rows that one more step along the successors reaches.               *)
Closer(x) == x \cup {c \in DOMAIN candidates : candidates[c].by \in x}

NotSuperseded == {c \in DOMAIN candidates : candidates[c].status # "superseded"}

\* With ranks, every chain of successors ends at a row that is not superseded.
LEMMA ChainsEnd == RowsSound(candidates) => SuccessorExists
<1> SUFFICES ASSUME RowsSound(candidates) PROVE SuccessorExists
  OBVIOUS
<1> DEFINE N == Len(candidates)
           D == DOMAIN candidates
           F(g) == [n \in 0..N |-> IF n = 0 THEN NotSuperseded ELSE Closer(g[n - 1])]
           reach == CHOOSE g : g = F(g)
<1>1. PICK rank : Ranks(rank, candidates)
  BY DEF RowsSound, Chained
<1>2. N \in Nat /\ \A c \in D : rank[c] \in 0..N
  BY <1>1, RowsFinite DEF RowsSound, Chained, Ranks
<1>3. NotSuperseded \in SUBSET D /\ \A x \in SUBSET D : Closer(x) \in SUBSET D
  BY DEF NotSuperseded, Closer
<1> HIDE DEF N, D
<1>4. PICK turn : turn = [p \in (1..N) \X SUBSET D |-> Closer(p[2])]
  OBVIOUS
<1>5. \A n \in 1..N, x \in SUBSET D : turn[<<n, x>>] = Closer(x)
  BY <1>4
<1>6. PICK f \in [0..N -> SUBSET D] : RunOf(f, N, NotSuperseded, turn)
  <2>1. TurnsOver(turn, N, SUBSET D)
    BY <1>3, <1>5 DEF TurnsOver
  <2> QED
    BY <1>2, <1>3, <2>1, LoopRuns
<1>7. \A n \in 0..N : f[n] = IF n = 0 THEN NotSuperseded ELSE Closer(f[n - 1])
  <2>1. ASSUME NEW n \in 1..N PROVE f[n] = Closer(f[n - 1])
    <3>1. f[n - 1] \in SUBSET D
      <4>1. n - 1 \in 0..N
        BY <1>2
      <4> QED
        BY <1>6, <4>1, Zenon
    <3> QED
      BY <1>5, <1>6, <3>1 DEF RunOf
  <2> QED
    BY <1>2, <1>6, <2>1 DEF RunOf
<1>8. f = F(f)
  BY <1>6, <1>7
<1>9. reach = F(reach)
  <2> HIDE DEF F
  <2> QED
    BY <1>8, Zenon
<1>10. reach[0] = NotSuperseded /\ \A n \in 1..N : reach[n] = Closer(reach[n - 1])
  <2> HIDE DEF reach
  <2>1. 0 \in 0..N /\ \A n \in 1..N : n \in 0..N /\ n # 0
    BY <1>2
  <2> QED
    BY <1>9, <2>1
<1> HIDE DEF reach
<1> DEFINE S == {n \in 0..N : reach[n] \subseteq D /\ \A c \in D : c \in NotSuperseded \/ rank[c] <= n => c \in reach[n]}
<1>11. \A c \in D : c \notin NotSuperseded => candidates[c].by \in D /\ rank[candidates[c].by] < rank[c]
  BY <1>1 DEF Ranks, NotSuperseded, SupersededIn, D
<1>12. 0 \in S
  <2>1. \A c \in D : rank[c] <= 0 => c \in NotSuperseded
    BY <1>2, <1>11
  <2> QED
    BY <1>2, <1>3, <1>10, <2>1
<1>13. ASSUME NEW n \in 1..N, n - 1 \in S PROVE n \in S
  <2>1. n \in 0..N /\ n - 1 \in 0..N
    BY <1>2
  <2>2. reach[n - 1] \subseteq D /\ \A c \in D : c \in NotSuperseded \/ rank[c] <= n - 1 => c \in reach[n - 1]
    BY <1>13
  <2>3. reach[n] = Closer(reach[n - 1]) /\ reach[n] \subseteq D
    BY <1>3, <1>10, <2>2
  <2>4. ASSUME NEW c \in D, c \in NotSuperseded \/ rank[c] <= n PROVE c \in reach[n]
    <3>1. CASE c \in NotSuperseded
      BY <2>2, <2>3, <3>1 DEF Closer
    <3>2. CASE c \notin NotSuperseded
      <4>1. candidates[c].by \in D /\ rank[candidates[c].by] <= n - 1
        BY <1>2, <1>11, <2>1, <2>4, <3>2
      <4>2. candidates[c].by \in reach[n - 1]
        BY <2>2, <4>1
      <4> QED
        BY <2>3, <4>2 DEF Closer, D
    <3> QED
      BY <3>1, <3>2
  <2> QED
    BY <2>1, <2>3, <2>4
<1>14. 0..N \subseteq S
  <2> HIDE DEF S
  <2> QED
    BY <1>2, <1>12, <1>13, LoopInduction
<1>15. reach[N] = D
  <2>1. N \in S
    BY <1>2, <1>14
  <2>2. reach[N] \subseteq D /\ \A c \in D : rank[c] <= N => c \in reach[N]
    BY <2>1
  <2>3. \A c \in D : rank[c] <= N
    BY <1>2
  <2> HIDE DEF S
  <2> QED
    BY <2>2, <2>3
<1> QED
  BY <1>15, Zenon DEF SuccessorExists, reach, F, NotSuperseded, Closer, N, D

\* What a proposed operation makes of the rows is sound.
LEMMA AppliedSound == ASSUME RowsSound(candidates), NEW rows \in Applied PROVE RowsSound(rows)
<1>1. \/ rows = candidates
      \/ \E p \in Proposals : rows = Create(candidates, <<0, 0>>, Proposed(p))
      \/ \E c \in DOMAIN candidates, p \in Proposals : MayRevise(c) /\ rows = Revise(c, Proposed(p))
      \/ \E c, d \in DOMAIN candidates : c < d /\ MayReshape(c) /\ MayReshape(d) /\ rows = Merge(c, d)
      \/ \E c \in DOMAIN candidates, p, q \in Proposals : MayReshape(c) /\ rows = Split(c, Proposed(p), Proposed(q))
      \/ \E c \in DOMAIN candidates : candidates[c].status = "active" /\ rows = Cancel(c)
  BY DEF Applied
<1>2. CASE \E p \in Proposals : rows = Create(candidates, <<0, 0>>, Proposed(p))
  <2>1. PICK content : rows = Create(candidates, <<0, 0>>, content)
    BY <1>2
  <2> QED
    BY <2>1, CreateKeeps
<1>3. CASE \E c \in DOMAIN candidates, p \in Proposals : MayRevise(c) /\ rows = Revise(c, Proposed(p))
  <2>1. PICK c \in DOMAIN candidates : MayRevise(c) /\ \E content : rows = Revise(c, content)
    BY <1>3
  <2>2. PICK content : rows = Revise(c, content)
    BY <2>1
  <2> QED
    BY <2>1, <2>2, ReviseKeeps DEF MayRevise
<1>4. CASE \E c, d \in DOMAIN candidates : c < d /\ MayReshape(c) /\ MayReshape(d) /\ rows = Merge(c, d)
  BY <1>4, MergeKeeps
<1>5. CASE \E c \in DOMAIN candidates, p, q \in Proposals : MayReshape(c) /\ rows = Split(c, Proposed(p), Proposed(q))
  <2>1. PICK c \in DOMAIN candidates : MayReshape(c) /\ \E first, second : rows = Split(c, first, second)
    BY <1>5
  <2>2. PICK first, second : rows = Split(c, first, second)
    BY <2>1
  <2> QED
    BY <2>1, <2>2, SplitKeeps
<1>6. CASE \E c \in DOMAIN candidates : candidates[c].status = "active" /\ rows = Cancel(c)
  BY <1>6, ReviseKeeps
<1> QED
  BY <1>1, <1>2, <1>3, <1>4, <1>5, <1>6

\* A batch is committed: candidates, notes and offsets together.
LEMMA AnswerStep ==
  ASSUME CandidatesInv, NEW rows \in Applied, NEW from \in SUBSET (SUBSET DOMAIN projecting \ {{}}),
         CommitBatch(rows, from)
  PROVE  CandidatesInv'
<1>1. /\ candidates' = rows /\ projecting' = NoBatch
      /\ notes' = Retained \cup {StateItem(f) : f \in from}
      /\ processed' = [s \in CaptionIds |-> IF s \in DOMAIN projecting THEN projecting[s] ELSE processed[s]]
  BY DEF CommitBatch, MergeMeetingState, Advanced
<1>2. RowsSound(candidates')
  BY <1>1, AppliedSound DEF CandidatesInv
<1>3. ASSUME NEW n \in notes' PROVE DOMAIN n.at \subseteq CaptionIds /\ \A s \in DOMAIN n.at : n.at[s] = processed'[s]
  <2>1. CASE n \in Retained
    BY <1>1, <2>1 DEF Retained, CandidatesInv, NotesFit, NotesCurrent
  <2>2. ASSUME NEW f \in from, n = StateItem(f) PROVE DOMAIN n.at \subseteq CaptionIds /\ \A s \in DOMAIN n.at : n.at[s] = processed'[s]
    <3>1. n.at = [s \in f |-> projecting[s]] /\ f \subseteq DOMAIN projecting /\ f \subseteq CaptionIds
      BY <2>2 DEF StateItem, CaptionEvidence, CandidatesInv, NotesFit
    <3> QED
      BY <1>1, <3>1
  <2> QED
    BY <1>1, <2>1, <2>2
<1>4. DOMAIN projecting' = {}
  BY <1>1 DEF NoBatch
<1>5. NotesFit' /\ NotesCurrent'
  BY <1>3, <1>4 DEF NotesFit, NotesCurrent
<1>6. RowsSound(candidates)'
  BY <1>2 DEF RowsSound, Chained, PartsHaveParents, Ranks, IsSeq, SupersededIn
<1> QED
  BY <1>5, <1>6 DEF CandidatesInv

\* A run marks its candidate: its execution, whatever has become of it meanwhile.
LEMMA MarkedKeeps ==
  ASSUME CandidatesInv, NEW c, NEW execution, Marked(c, execution), UNCHANGED <<notes, processed, projecting>>
  PROVE  CandidatesInv'
<1>1. candidates' = [candidates EXCEPT ![c].execution = execution]
  BY DEF Marked
<1>2. \A x \in DOMAIN candidates : DOMAIN candidates[x] = CandidateFields
  BY DEF CandidatesInv, RowsSound, Chained
<1>3. PICK new : new = candidates'
  OBVIOUS
<1>4. SameChains(candidates, new)
  BY <1>1, <1>2, <1>3 DEF SameChains, CandidateFields
<1>5. RowsSound(new)
  BY <1>4, SameChainsKeep DEF CandidatesInv
<1>6. RowsSound(candidates)'
  BY <1>3, <1>5 DEF RowsSound, Chained, PartsHaveParents, Ranks, IsSeq, SupersededIn
<1> QED
  BY <1>6 DEF CandidatesInv, NotesFit, NotesCurrent

\* Whatever leaves notes, offsets and candidates as they are.
LEMMA RowsStayKeep ==
  ASSUME CandidatesInv, UNCHANGED <<notes, processed, candidates>>, DOMAIN projecting' \subseteq CaptionIds
  PROVE  CandidatesInv'
BY DEF CandidatesInv, NotesFit, NotesCurrent, RowsSound, Chained, PartsHaveParents, Ranks, IsSeq, SupersededIn

\* Captions, projections and runs preserve the invariant.
LEMMA CandidatesKeep == CandidatesInv /\ [CandidatesNext]_candidateVars => CandidatesInv'
<1> SUFFICES ASSUME CandidatesInv, [CandidatesNext]_candidateVars PROVE CandidatesInv'
  OBVIOUS
<1>0. DOMAIN projecting \subseteq CaptionIds /\ DOMAIN NoBatch = {}
  BY DEF CandidatesInv, NotesFit, NoBatch
<1>1. CASE UNCHANGED candidateVars
  BY <1>0, <1>1, RowsStayKeep DEF candidateVars
<1>2. ASSUME NEW s \in CaptionIds, FinalizeCaption(s) PROVE CandidatesInv'
  BY <1>0, <1>2, RowsStayKeep DEF FinalizeCaption
<1>3. ASSUME NEW batch \in SUBSET CaptionIds, ReadBatch(batch) PROVE CandidatesInv'
  BY <1>3, RowsStayKeep DEF ReadBatch
<1>4. CASE BatchFailed
  BY <1>0, <1>4, RowsStayKeep DEF BatchFailed
<1>5. ASSUME NEW r \in TaskRuns, BeginCreate(r) \/ TaskRead(r) PROVE CandidatesInv'
  BY <1>5, MarkedKeeps DEF BeginCreate, TaskRead
<1>6. ASSUME NEW r \in TaskRuns,
             \/ ReuseTask(r) \/ AskAboutTask(r) \/ ReconcileTask(r)
             \/ \E c \in DOMAIN candidates : PrepareCandidate(r, c)
             \/ \E made, answered \in BOOLEAN : CreateTask(r, made, answered)
      PROVE  CandidatesInv'
  BY <1>0, <1>6, RowsStayKeep DEF ReuseTask, AskAboutTask, ReconcileTask, PrepareCandidate, CreateTask
<1> QED
  BY <1>1, <1>2, <1>3, <1>4, <1>5, <1>6, AnswerStep DEF CandidatesNext

\* No candidate and no note at first.
LEMMA CandidatesStart == CandidatesInit => CandidatesInv
<1> SUFFICES ASSUME CandidatesInit PROVE CandidatesInv
  OBVIOUS
<1>1. notes = {} /\ candidates = <<>> /\ DOMAIN projecting = {}
  BY DEF CandidatesInit, NoBatch
<1>2. IsSeq(candidates) /\ DOMAIN candidates = {}
  <2>1. <<>> \in Seq({}) /\ DOMAIN <<>> = {}
    OBVIOUS
  <2> QED
    BY <1>1, <2>1 DEF IsSeq
<1>3. PICK rank : rank = [c \in {} |-> 0]
  OBVIOUS
<1>4. Ranks(rank, candidates)
  BY <1>2, <1>3 DEF Ranks, SupersededIn
<1> QED
  BY <1>1, <1>2, <1>4 DEF CandidatesInv, NotesFit, NotesCurrent, RowsSound, Chained, PartsHaveParents

\* CandidateMergePolicy, merge_meeting_state and the Action Runs: for any captions,
\* proposals, failed batches and any number of candidates and runs, the items rest on what
\* was projected last, and every chain of successors ends at a candidate that stands.
THEOREM CandidatesSafeHolds == CandidatesSpec => []CandidatesSafe
<1>1. CandidatesInv => CandidatesSafe
  BY ChainsEnd DEF CandidatesInv, CandidatesSafe
<1>2. CandidatesSpec => []CandidatesInv
  BY CandidatesStart, CandidatesKeep, PTL DEF CandidatesSpec
<1> QED
  BY <1>1, <1>2, PTL

-----------------------------------------------------------------------------
(* The course organizer.                                                   *)

CourseStates ==
  [seq : 0..Len(CourseLog), pending : [Streams -> Nat], handled : [Streams -> Nat],
   taken : SUBSET DOMAIN CourseLog, status : {"ready", "processing", "degraded"}, view : Nat,
   due : BOOLEAN, job : CourseJobs, final : {"idle", "generating", "ready", "waiting_retry"}]

\* What a state may not lose: the captions it took, and the job of an ended session
\* unless a document is published.
Lasting(m, pub) ==
  /\ m \in CourseStates
  /\ Kept(m)
  /\ Ended(m) /\ ~m.due => \E j \in CourseJobs : pub[j] # 0

\* A state on its way to the Host loses nothing either.
PutLasts(put, pub) == put = NoPut \/ Lasting(put.value, pub)

Puts == {"locked", "command"}

CourseTypes ==
  /\ CourseTypeOK
  /\ DOMAIN window = {"pc", "snapshot", "left"} /\ window.snapshot \in [Streams -> Nat]
  /\ DOMAIN finish = {"pc", "left"}
  /\ DOMAIN putting = Puts
  /\ retryCommands \in 0..MaxRetryCommands

StatesLast ==
  /\ Lasting(mem, published) /\ Lasting(saved, published)
  /\ \A p \in Puts : PutLasts(putting[p], published)

\* The job is cleared only after the publish.
PublishedFirst == finish.pc = "recording" => \E j \in CourseJobs : published[j] # 0

CourseInv == CourseTypes /\ StatesLast /\ PublishedFirst

\* An event of the batch, newer than what the state has seen or not.
LEMMA TakenLasts ==
  ASSUME NEW pub, NEW m, Lasting(m, pub), NEW n \in 1..Len(CourseLog)
  PROVE  Lasting(TakeEvent(m, n), pub)
<1> USE CourseAssumption
<1>1. n \in DOMAIN CourseLog /\ CourseLog[n].stream \in Streams /\ CourseLog[n].revision \in Nat
  BY DEF Streams
<1>2. CASE n <= m.seq
  BY <1>2 DEF TakeEvent
<1>3. CASE ~(n <= m.seq)
  <2>1. PICK a : a = [m EXCEPT !.seq = n, !.taken = @ \cup {n}]
    OBVIOUS
  <2>2. a \in CourseStates /\ a.pending = m.pending /\ a.handled = m.handled /\ a.taken = m.taken \cup {n} /\ a.due = m.due
    <3>1. PICK t : t = m.taken \cup {n}
      OBVIOUS
    <3>2. m \in CourseStates /\ t \in SUBSET DOMAIN CourseLog /\ n \in 0..Len(CourseLog)
      BY <1>1, <3>1 DEF Lasting, CourseStates
    <3>3. a = [m EXCEPT !.seq = n, !.taken = t]
      BY <2>1, <3>1
    <3> QED
      BY <3>1, <3>2, <3>3 DEF CourseStates
  <2>3. PICK b : b = MergeCourse(a, n)
    OBVIOUS
  <2>4. /\ b \in CourseStates /\ b.handled = m.handled /\ b.taken = m.taken \cup {n} /\ b.due = m.due
        /\ \A s \in Streams : b.pending[s] >= m.pending[s]
        /\ CourseLog[n].kind = "final" => b.pending[CourseLog[n].stream] >= CourseLog[n].revision
    <3>1. a.pending \in [Streams -> Nat]
      BY <2>2 DEF CourseStates
    <3>2. CASE CourseLog[n].kind = "final" /\ CourseLog[n].revision > a.pending[CourseLog[n].stream]
      <4>1. b = [a EXCEPT !.pending = [a.pending EXCEPT ![CourseLog[n].stream] = CourseLog[n].revision]]
        BY <2>3, <3>2, Zenon DEF MergeCourse
      <4>2. PICK w : w = [a.pending EXCEPT ![CourseLog[n].stream] = CourseLog[n].revision]
        OBVIOUS
      <4>3. /\ w \in [Streams -> Nat] /\ (\A s \in Streams : w[s] >= a.pending[s])
            /\ w[CourseLog[n].stream] = CourseLog[n].revision
        BY <1>1, <3>1, <3>2, <4>2
      <4>4. b = [a EXCEPT !.pending = w]
        BY <4>1, <4>2
      <4>5. b \in CourseStates /\ b.pending = w /\ b.handled = a.handled /\ b.taken = a.taken /\ b.due = a.due
        BY <2>2, <4>3, <4>4 DEF CourseStates
      <4> QED
        BY <1>1, <2>2, <4>3, <4>5
    <3>3. CASE ~(CourseLog[n].kind = "final" /\ CourseLog[n].revision > a.pending[CourseLog[n].stream])
      <4>1. b = a
        BY <2>3, <3>3, Zenon DEF MergeCourse
      <4>2. a.pending[CourseLog[n].stream] \in Nat /\ \A s \in Streams : a.pending[s] \in Nat
        BY <1>1, <3>1
      <4> QED
        BY <1>1, <2>2, <3>3, <4>1, <4>2
    <3> QED
      BY <3>2, <3>3
  <2>5. Kept(b)
    <3> SUFFICES ASSUME NEW k \in b.taken, CourseLog[k].kind = "final"
                 PROVE  \/ b.pending[CourseLog[k].stream] >= CourseLog[k].revision
                        \/ b.handled[CourseLog[k].stream] >= CourseLog[k].revision
      BY DEF Kept
    <3>1. CASE k = n
      BY <2>4, <3>1
    <3>2. CASE k \in m.taken
      <4>1. k \in DOMAIN CourseLog /\ CourseLog[k].stream \in Streams /\ CourseLog[k].revision \in Nat
        BY <3>2 DEF Lasting, CourseStates, Streams
      <4>2. m.pending \in [Streams -> Nat] /\ b.pending \in [Streams -> Nat]
        BY <2>4 DEF Lasting, CourseStates
      <4>3. \/ m.pending[CourseLog[k].stream] >= CourseLog[k].revision
            \/ m.handled[CourseLog[k].stream] >= CourseLog[k].revision
        BY <3>2 DEF Lasting, Kept
      <4>4. b.pending[CourseLog[k].stream] >= m.pending[CourseLog[k].stream]
        BY <2>4, <4>1
      <4>5. m.pending[CourseLog[k].stream] \in Nat /\ b.pending[CourseLog[k].stream] \in Nat
        BY <4>1, <4>2
      <4>6. m.handled = b.handled
        BY <2>4
      <4>7. CASE m.pending[CourseLog[k].stream] >= CourseLog[k].revision
        BY <4>1, <4>4, <4>5, <4>7
      <4>8. CASE m.handled[CourseLog[k].stream] >= CourseLog[k].revision
        BY <4>6, <4>8
      <4> QED
        BY <4>3, <4>7, <4>8
    <3> QED
      BY <2>4, <3>1, <3>2
  <2>6. CASE CourseLog[n].kind = "end" /\ ~b.due
    <3>1. PICK c : c = [b EXCEPT !.due = TRUE, !.final = "generating"]
      OBVIOUS
    <3>2. c \in CourseStates /\ c.due /\ c.taken = b.taken /\ c.pending = b.pending /\ c.handled = b.handled
      BY <2>4, <3>1 DEF CourseStates
    <3>3. Lasting(c, pub)
      BY <2>5, <3>2 DEF Lasting, Kept
    <3>4. TakeEvent(m, n) = c
      BY <1>3, <2>1, <2>3, <2>6, <3>1, Zenon DEF TakeEvent
    <3> QED
      BY <3>3, <3>4
  <2>7. CASE ~(CourseLog[n].kind = "end" /\ ~b.due)
    <3>1. TakeEvent(m, n) = b
      BY <1>3, <2>1, <2>3, <2>7, Zenon DEF TakeEvent
    <3>2. Ended(b) /\ ~b.due => Ended(m) /\ ~m.due
      BY <2>4, <2>7 DEF Ended
    <3> QED
      BY <2>4, <2>5, <3>1, <3>2 DEF Lasting
  <2> QED
    BY <2>6, <2>7
<1> QED
  BY <1>2, <1>3

\* The loop of event_batch.
LEMMA BatchLasts ==
  ASSUME CourseInv, NEW through \in (acked + 1)..Len(CourseLog)
  PROVE  Lasting(TakeBatch(through), published)
<1> DEFINE X == {m \in CourseStates : Lasting(m, published)}
           N == through - acked
           F(g) == [n \in acked..through |-> IF n = acked THEN mem ELSE TakeEvent(g[n - 1], n)]
           taking == CHOOSE g : g = F(g)
<1>1. N \in Nat /\ acked \in Nat /\ Len(CourseLog) \in Nat /\ through \in Nat /\ through = acked + N /\ through <= Len(CourseLog)
  BY CourseAssumption DEF CourseInv, CourseTypes, CourseTypeOK
<1>2. mem \in X
  BY DEF CourseInv, StatesLast, Lasting
<1>3. \A n \in 1..N, x \in X : TakeEvent(x, acked + n) \in X
  <2> TAKE n \in 1..N, x \in X
  <2>1. acked + n \in 1..Len(CourseLog) /\ Lasting(x, published)
    BY <1>1
  <2>2. Lasting(TakeEvent(x, acked + n), published)
    BY <2>1, TakenLasts
  <2> QED
    BY <2>2 DEF Lasting
<1> HIDE DEF X, N
<1>4. PICK turn : turn = [p \in (1..N) \X X |-> TakeEvent(p[2], acked + p[1])]
  OBVIOUS
<1>5. \A n \in 1..N, x \in X : turn[<<n, x>>] = TakeEvent(x, acked + n)
  BY <1>4
<1>6. PICK f \in [0..N -> X] : RunOf(f, N, mem, turn)
  <2>1. TurnsOver(turn, N, X)
    BY <1>3, <1>5 DEF TurnsOver
  <2> QED
    BY <1>1, <1>2, <2>1, LoopRuns
<1>7. f[0] = mem /\ \A n \in 1..N : f[n] = TakeEvent(f[n - 1], acked + n)
  <2>1. ASSUME NEW n \in 1..N PROVE f[n] = TakeEvent(f[n - 1], acked + n)
    <3>1. n - 1 \in 0..N
      BY <1>1
    <3>2. f[n - 1] \in X
      BY <1>6, <3>1, Zenon
    <3> QED
      BY <1>5, <1>6, <3>2 DEF RunOf
  <2> QED
    BY <1>6, <2>1 DEF RunOf
<1>8. PICK g : g = [n \in acked..through |-> f[n - acked]]
  OBVIOUS
<1>9. \A n \in acked..through : g[n] = IF n = acked THEN mem ELSE TakeEvent(g[n - 1], n)
  <2> TAKE n \in acked..through
  <2>1. CASE n = acked
    BY <1>1, <1>7, <1>8, <2>1
  <2>2. CASE n # acked
    <3>1. n - acked \in 1..N /\ n - 1 \in acked..through /\ (n - 1) - acked = (n - acked) - 1 /\ acked + (n - acked) = n
      BY <1>1, <2>2
    <3>2. PICK k : k = n - acked
      OBVIOUS
    <3>3. f[k] = TakeEvent(f[k - 1], acked + k)
      BY <1>7, <3>1, <3>2
    <3>4. g[n] = f[k] /\ g[n - 1] = f[k - 1] /\ acked + k = n
      BY <1>8, <3>1, <3>2
    <3> QED
      BY <2>2, <3>3, <3>4, Zenon
  <2> QED
    BY <2>1, <2>2
<1>10. g = F(g)
  BY <1>8, <1>9
<1>11. taking = F(taking)
  <2> HIDE DEF F
  <2> QED
    BY <1>10, Zenon
<1>12. TakeBatch(through) = taking[through]
  BY Zenon DEF TakeBatch
<1>13. taking[acked] = mem /\ \A n \in 1..N : taking[acked + n] = TakeEvent(taking[acked + n - 1], acked + n)
  <2> HIDE DEF taking
  <2>1. acked \in acked..through /\ \A n \in 1..N : acked + n \in acked..through /\ acked + n # acked
    BY <1>1
  <2> QED
    BY <1>11, <2>1
<1> HIDE DEF taking, F
<1> DEFINE S == {n \in 0..N : taking[acked + n] \in X}
<1>14. 0 \in S
  BY <1>1, <1>2, <1>13
<1>15. ASSUME NEW n \in 1..N, n - 1 \in S PROVE n \in S
  <2>1. taking[acked + (n - 1)] \in X
    BY <1>15
  <2>2. acked + (n - 1) = acked + n - 1 /\ n \in 0..N
    BY <1>1
  <2>3. taking[acked + n] = TakeEvent(taking[acked + (n - 1)], acked + n)
    BY <1>13, <2>2
  <2>4. taking[acked + n] \in X
    BY <1>3, <2>1, <2>3
  <2> QED
    BY <2>2, <2>4
<1>16. 0..N \subseteq S
  <2> HIDE DEF S
  <2> QED
    BY <1>1, <1>14, <1>15, LoopInduction
<1>17. taking[through] \in X
  BY <1>1, <1>16
<1> QED
  BY <1>12, <1>17 DEF X

\* A window that is committed leaves what came meanwhile, and counts the rest as handled.
LEMMA WithoutLasts ==
  ASSUME NEW pub, NEW m, Lasting(m, pub), NEW snapshot \in [Streams -> Nat]
  PROVE  Lasting(Without(m, snapshot), pub)
<1>1. PICK w : w = [s \in Streams |-> IF m.pending[s] > snapshot[s] THEN m.pending[s] ELSE 0]
  OBVIOUS
<1>2. PICK h : h = [s \in Streams |-> IF snapshot[s] > m.handled[s] THEN snapshot[s] ELSE m.handled[s]]
  OBVIOUS
<1>3. m \in CourseStates /\ m.pending \in [Streams -> Nat] /\ m.handled \in [Streams -> Nat]
  BY DEF Lasting, CourseStates
<1>4. w \in [Streams -> Nat] /\ h \in [Streams -> Nat]
  BY <1>1, <1>2, <1>3
<1>5. PICK c : c = [m EXCEPT !.pending = w, !.handled = h]
  OBVIOUS
<1>6. c \in CourseStates /\ c.pending = w /\ c.handled = h /\ c.taken = m.taken /\ c.due = m.due
  BY <1>3, <1>4, <1>5 DEF CourseStates
<1>7. Without(m, snapshot) = c
  BY <1>1, <1>2, <1>5 DEF Without
<1>8. Kept(c)
  <2> SUFFICES ASSUME NEW k \in c.taken, CourseLog[k].kind = "final"
               PROVE  \/ c.pending[CourseLog[k].stream] >= CourseLog[k].revision
                      \/ c.handled[CourseLog[k].stream] >= CourseLog[k].revision
    BY DEF Kept
  <2>1. PICK s \in Streams : s = CourseLog[k].stream
    BY <1>3, <1>6 DEF CourseStates, Streams
  <2>2. PICK r \in Nat : r = CourseLog[k].revision
    BY <1>3, <1>6, CourseAssumption DEF CourseStates
  <2>3. m.pending[s] \in Nat /\ m.handled[s] \in Nat /\ snapshot[s] \in Nat
    BY <1>3
  <2>4. m.pending[s] >= r \/ m.handled[s] >= r
    BY <1>6, <2>1, <2>2 DEF Lasting, Kept
  <2>5. /\ w[s] = IF m.pending[s] > snapshot[s] THEN m.pending[s] ELSE 0
        /\ h[s] = IF snapshot[s] > m.handled[s] THEN snapshot[s] ELSE m.handled[s]
    BY <1>1, <1>2
  <2>6. w[s] >= r \/ h[s] >= r
    BY <2>3, <2>4, <2>5
  <2> QED
    BY <1>6, <2>1, <2>2, <2>6
<1> QED
  BY <1>6, <1>7, <1>8 DEF Lasting, Ended

\* A state that took the same events and dropped nothing lasts as long, when its job is
\* due as before or a document is published.
LEMMA LastsAs ==
  ASSUME NEW pub, NEW m, Lasting(m, pub), NEW c \in CourseStates,
         c.pending = m.pending, c.handled = m.handled, c.taken = m.taken,
         c.due = m.due \/ \E j \in CourseJobs : pub[j] # 0
  PROVE  Lasting(c, pub)
BY DEF Lasting, Kept, Ended

\* The state the Host holds now, when a put is committed.
LEMMA CommitLasts ==
  ASSUME CourseInv, NEW who \in Puts, StoredState(who)
  PROVE  Lasting(putting[who].value, published) /\ savedAt + 1 \in Nat
<1>1. savedAt \in Nat
  BY DEF CourseInv, CourseTypes, CourseTypeOK
<1>2. putting[who] # NoPut
  BY <1>1 DEF StoredState, NoPut
<1> QED
  BY <1>1, <1>2 DEF CourseInv, StatesLast, PutLasts

\* The step has the types and keeps the documents; what it changes of the states lasts.
LEMMA StatesStep ==
  ASSUME CourseInv, CourseTypes', published' = published,
         Lasting(mem', published), Lasting(saved', published),
         \A p \in Puts : PutLasts(putting'[p], published),
         finish'.pc = "recording" => \E j \in CourseJobs : published[j] # 0
  PROVE  CourseInv'
BY DEF CourseInv, StatesLast, PublishedFirst, Lasting, PutLasts, Kept, Ended, CourseStates, NoPut, Streams, CourseJobs

\* A put that is sent carries what is in memory.
LEMMA SendStep ==
  ASSUME CourseInv, NEW who \in Puts, Send(who, mem'), Lasting(mem', published)
  PROVE  DOMAIN putting' = Puts /\ \A p \in Puts : PutLasts(putting'[p], published)
<1>1. PICK put : put = [expected |-> base, value |-> mem']
  OBVIOUS
<1>2. putting' = [putting EXCEPT ![who] = put]
  BY <1>1 DEF Send
<1>3. put.value = mem'
  BY <1>1
<1> QED
  BY <1>2, <1>3 DEF CourseInv, CourseTypes, StatesLast, PutLasts

\* A put that ends leaves none.
LEMMA PutEnds ==
  ASSUME CourseInv, NEW who \in Puts, putting' = [putting EXCEPT ![who] = NoPut]
  PROVE  DOMAIN putting' = Puts /\ \A p \in Puts : PutLasts(putting'[p], published)
BY DEF CourseInv, CourseTypes, StatesLast, PutLasts

\* The first facts.
LEMMA CourseStart == CourseInit => CourseInv
<1> SUFFICES ASSUME CourseInit PROVE CourseInv
  OBVIOUS
<1>1. FreshState \in CourseStates
  <2>1. Len(CourseLog) \in Nat /\ 1 \in CourseJobs /\ [s \in Streams |-> 0] \in [Streams -> Nat]
    BY CourseAssumption DEF CourseJobs
  <2> QED
    BY <2>1 DEF FreshState, CourseStates
<1>2. FreshState.taken = {}
  BY DEF FreshState
<1>3. Lasting(FreshState, published)
  BY <1>1, <1>2 DEF Lasting, Kept, Ended
<1>4. CourseTypes
  <2>1. Len(CourseLog) \in Nat /\ MaxRetryCommands \in Nat
    BY CourseAssumption
  <2> QED
    BY <2>1 DEF CourseInit, CourseTypes, CourseTypeOK, NoWindow, Puts
<1>5. finish.pc # "recording" /\ mem = FreshState /\ saved = FreshState /\ \A p \in Puts : putting[p] = NoPut
  BY DEF CourseInit, Puts
<1> QED
  BY <1>3, <1>4, <1>5 DEF CourseInv, StatesLast, PublishedFirst, PutLasts

\* The opening of a session and the batches of events.
LEMMA CourseOpenStep == ASSUME CourseInv, Open PROVE CourseInv'
<1>1. PICK m : m = Restored
  OBVIOUS
<1>2. PICK q : q = IF acked > saved.seq THEN acked ELSE saved.seq
  OBVIOUS
<1>3. PICK z : z = IF saved.status = "processing" THEN "degraded" ELSE saved.status
  OBVIOUS
<1>4. saved \in CourseStates /\ acked \in 0..Len(CourseLog) /\ savedAt \in Nat
  BY DEF CourseInv, StatesLast, Lasting, CourseTypes, CourseTypeOK
<1>5. q \in 0..Len(CourseLog) /\ z \in {"ready", "processing", "degraded"}
  BY <1>2, <1>3, <1>4 DEF CourseStates
<1>6. m = [saved EXCEPT !.seq = q, !.status = z]
  BY <1>1, <1>2, <1>3 DEF Restored
<1>7. /\ m \in CourseStates /\ m.pending = saved.pending /\ m.handled = saved.handled
      /\ m.taken = saved.taken /\ m.due = saved.due
  BY <1>4, <1>5, <1>6 DEF CourseStates
<1>8. Lasting(m, published)
  BY <1>7, LastsAs DEF CourseInv, StatesLast
<1>9. PICK c : c = [m EXCEPT !.status = "processing"]
  OBVIOUS
<1>10. /\ c \in CourseStates /\ c.pending = m.pending /\ c.handled = m.handled /\ c.taken = m.taken /\ c.due = m.due
  BY <1>7, <1>9 DEF CourseStates
<1>11. Lasting(c, published)
  BY <1>8, <1>10, LastsAs
<1>12. \/ mem' = c /\ saved' = c /\ savedAt' = savedAt + 1 /\ window' = Window(m)
       \/ mem' = m /\ saved' = saved /\ savedAt' = savedAt /\ window' = window
  BY <1>1, <1>9, Zenon DEF Open
<1>13. /\ DOMAIN Window(m) = {"pc", "snapshot", "left"} /\ Window(m).snapshot \in [Streams -> Nat] /\ Window(m).pc = "model"
  BY <1>7 DEF Window, CourseStates
<1>14. /\ finish' = [pc |-> "wait", left |-> FinalRetries] \/ finish' = finish
       /\ course' = "open"
       /\ UNCHANGED <<acked, published, holder, putting, refused, retryCommands>>
  BY DEF Open, limits
<1>15. CourseTypes'
  BY <1>4, <1>12, <1>13, <1>14 DEF CourseInv, CourseTypes, CourseTypeOK, CourseJobs
<1>16. finish'.pc = "recording" => \E j \in CourseJobs : published[j] # 0
  BY <1>14 DEF CourseInv, PublishedFirst
<1>17. /\ Lasting(mem', published) /\ Lasting(saved', published)
       /\ \A p \in Puts : PutLasts(putting'[p], published)
  BY <1>8, <1>11, <1>12, <1>14 DEF CourseInv, StatesLast
<1> QED
  BY <1>14, <1>15, <1>16, <1>17, StatesStep

\* A batch.
LEMMA CourseBatchStep ==
  ASSUME CourseInv, NEW through \in DOMAIN CourseLog, EventBatch(through) \/ EventBatchKnown(through)
  PROVE  CourseInv'
<1>1. CASE EventBatch(through)
  <2>1. PICK taken : taken = TakeBatch(through)
    OBVIOUS
  <2>2. Lasting(taken, published)
    BY <1>1, <2>1, BatchLasts DEF EventBatch
  <2>3. PICK z \in {"ready", "processing", "degraded"} : mem' = [taken EXCEPT !.status = z]
    <3>1. taken.status \in {"ready", "processing", "degraded"}
      BY <2>2 DEF Lasting, CourseStates
    <3>2. \/ mem' = [taken EXCEPT !.status = "processing"]
          \/ mem' = [taken EXCEPT !.status = taken.status]
      BY <1>1, <2>1, Zenon DEF EventBatch
    <3> QED
      BY <3>1, <3>2
  <2>4. /\ mem' \in CourseStates /\ mem'.pending = taken.pending /\ mem'.handled = taken.handled
        /\ mem'.taken = taken.taken /\ mem'.due = taken.due
    BY <2>2, <2>3 DEF Lasting, CourseStates
  <2>5. Lasting(mem', published)
    BY <2>2, <2>4, LastsAs
  <2>6. holder' \in Batches /\ Send("locked", mem')
    BY <1>1, Zenon DEF EventBatch, Batches
  <2>7. UNCHANGED <<acked, saved, savedAt, courseView, published, course, window, finish, retryCommands>>
    BY <1>1 DEF EventBatch, hostSide, limits
  <2>8. DOMAIN putting' = Puts /\ \A p \in Puts : PutLasts(putting'[p], published)
    BY <2>5, <2>6, SendStep DEF Puts
  <2>9. CourseTypes'
    BY <2>6, <2>7, <2>8 DEF CourseInv, CourseTypes, CourseTypeOK, CourseJobs
  <2> QED
    BY <2>5, <2>7, <2>8, <2>9, StatesStep DEF CourseInv, StatesLast, PublishedFirst
<1>2. CASE EventBatchKnown(through)
  <2>1. /\ acked' = mem.seq
        /\ UNCHANGED <<saved, savedAt, courseView, published, course, mem, base, holder, putting, window, finish, retryCommands>>
    BY <1>2 DEF EventBatchKnown, taskVars, limits
  <2>2. mem.seq \in 0..Len(CourseLog)
    BY DEF CourseInv, StatesLast, Lasting, CourseStates
  <2>3. CourseTypes'
    BY <2>1, <2>2 DEF CourseInv, CourseTypes, CourseTypeOK, CourseJobs
  <2> QED
    BY <2>1, <2>3, StatesStep DEF CourseInv, StatesLast, PublishedFirst
<1> QED
  BY <1>1, <1>2

\* The ends of the puts.
LEMMA CourseCommitStep ==
  ASSUME CourseInv, BatchSaved \/ WindowSaved \/ Recorded \/ RetrySaved
  PROVE  CourseInv'
<1>1. PICK who \in Puts :
        /\ StoredState(who) /\ saved' = putting[who].value /\ savedAt' = savedAt + 1
        /\ putting' = [putting EXCEPT ![who] = NoPut]
  BY DEF BatchSaved, WindowSaved, Recorded, RetrySaved, Commit, Puts
<1>2. Lasting(saved', published) /\ savedAt' \in Nat
  BY <1>1, CommitLasts
<1>3. UNCHANGED <<published, course, mem, retryCommands>>
  BY DEF BatchSaved, WindowSaved, Recorded, RetrySaved, limits
<1>4. acked' \in {acked, mem.seq} /\ holder' \in {holder, "none"}
  BY DEF BatchSaved, WindowSaved, Recorded, RetrySaved
<1>5. mem.seq \in 0..Len(CourseLog)
  BY DEF CourseInv, StatesLast, Lasting, CourseStates
<1>6. DOMAIN putting' = Puts /\ \A p \in Puts : PutLasts(putting'[p], published)
  BY <1>1, PutEnds
<1>7. /\ DOMAIN finish' = {"pc", "left"}
      /\ finish'.pc \in {finish.pc, "wait", "publish", "done"}
  <2>1. DOMAIN finish = {"pc", "left"}
    BY DEF CourseInv, CourseTypes
  <2>2. \/ finish' = finish \/ finish' = [pc |-> "wait", left |-> FinalRetries]
        \/ finish' = [finish EXCEPT !.pc = "publish"]
        \/ finish' = [finish EXCEPT !.left = finish.left - 1] \/ finish' = [finish EXCEPT !.pc = "done"]
    <3>1. CASE BatchSaved
      BY <3>1, Zenon DEF BatchSaved
    <3>2. CASE WindowSaved
      BY <3>2, Zenon DEF WindowSaved, WindowEnds
    <3>3. CASE Recorded
      BY <3>3, Zenon DEF Recorded, AfterFailure
    <3>4. CASE RetrySaved
      BY <3>4, Zenon DEF RetrySaved
    <3> QED
      BY <3>1, <3>2, <3>3, <3>4
  <2> QED
    BY <2>1, <2>2
<1>8. DOMAIN window' = {"pc", "snapshot", "left"} /\ window'.snapshot \in [Streams -> Nat]
      /\ window'.pc \in {window.pc, "none", "retry", "model"}
  <2>1. DOMAIN window = {"pc", "snapshot", "left"} /\ window.snapshot \in [Streams -> Nat]
    BY DEF CourseInv, CourseTypes
  <2>2. \/ window' = window \/ window' = NoWindow \/ window' = [window EXCEPT !.pc = "retry"]
        \/ BatchSaved /\ window' = Window(putting["locked"].value)
    <3>1. CASE BatchSaved
      BY <3>1, Zenon DEF BatchSaved
    <3>2. CASE WindowSaved
      BY <3>2, Zenon DEF WindowSaved, WindowEnds
    <3>3. CASE Recorded \/ RetrySaved
      BY <3>3, Zenon DEF Recorded, RetrySaved
    <3> QED
      BY <3>1, <3>2, <3>3
  <2>3. CASE BatchSaved /\ window' = Window(putting["locked"].value)
    <3>1. Lasting(putting["locked"].value, published)
      BY <2>3, CommitLasts DEF BatchSaved, Commit, Puts
    <3> QED
      BY <2>3, <3>1 DEF Window, Lasting, CourseStates
  <2> QED
    BY <2>1, <2>2, <2>3 DEF NoWindow
<1>9. CourseTypes'
  BY <1>2, <1>3, <1>4, <1>5, <1>6, <1>7, <1>8 DEF CourseInv, CourseTypes, CourseTypeOK, CourseJobs
<1>10. finish'.pc = "recording" => \E j \in CourseJobs : published[j] # 0
  BY <1>7 DEF CourseInv, PublishedFirst
<1> QED
  BY <1>2, <1>3, <1>6, <1>9, <1>10, StatesStep DEF CourseInv, StatesLast


\* A put that is refused or fails changes no state, and its task may end.
LEMMA LostStep ==
  ASSUME CourseInv, BatchFails \/ WindowLost \/ RecordLost \/ RetryLost
  PROVE  CourseInv'
<1>1. PICK who \in Puts : putting' = [putting EXCEPT ![who] = NoPut]
  BY DEF BatchFails, WindowLost, RecordLost, RetryLost, PutLost, Puts
<1>2. /\ UNCHANGED <<acked, saved, savedAt, courseView, published, course, mem, retryCommands>>
      /\ holder' \in {holder, "none"} /\ window' \in {window, NoWindow}
  BY DEF BatchFails, WindowLost, RecordLost, RetryLost, hostSide
<1>3. finish' = finish \/ finish' = [finish EXCEPT !.pc = "done"]
  <2>1. CASE BatchFails \/ RetryLost
    BY <2>1 DEF BatchFails, RetryLost
  <2>2. CASE WindowLost
    BY <2>2, Zenon DEF WindowLost
  <2>3. CASE RecordLost
    BY <2>3, Zenon DEF RecordLost
  <2> QED
    BY <2>1, <2>2, <2>3
<1>4. DOMAIN finish' = {"pc", "left"} /\ finish'.pc \in {finish.pc, "done"}
  BY <1>3 DEF CourseInv, CourseTypes
<1>5. DOMAIN putting' = Puts /\ \A p \in Puts : PutLasts(putting'[p], published)
  BY <1>1, PutEnds
<1>6. CourseTypes'
  BY <1>2, <1>4, <1>5 DEF CourseInv, CourseTypes, CourseTypeOK, CourseJobs, NoWindow
<1> QED
  BY <1>2, <1>4, <1>5, <1>6, StatesStep DEF CourseInv, StatesLast, PublishedFirst

\* The window's steps that send or end it.
LEMMA WindowStep ==
  ASSUME CourseInv, NEW then \in {"commit", "fallback", "repair"}, WindowCommit(then)
  PROVE  CourseInv'
<1>1. PICK a : a = IF then = "repair" THEN mem ELSE Without(mem, window.snapshot)
  OBVIOUS
<1>2. Lasting(a, published)
  <2>1. Lasting(Without(mem, window.snapshot), published)
    BY WithoutLasts DEF CourseInv, CourseTypes, StatesLast
  <2> QED
    BY <1>1, <2>1 DEF CourseInv, StatesLast
<1>3. PICK z : z = IF then = "fallback" THEN "degraded" ELSE "ready"
  OBVIOUS
<1>4. mem' = [a EXCEPT !.status = z, !.view = a.view + 1]
  BY <1>1, <1>3, Zenon DEF WindowCommit
<1>5. /\ mem' \in CourseStates /\ mem'.pending = a.pending /\ mem'.handled = a.handled
      /\ mem'.taken = a.taken /\ mem'.due = a.due
  <2>1. a \in CourseStates /\ a.view + 1 \in Nat
    BY <1>2 DEF Lasting, CourseStates
  <2> QED
    BY <1>3, <1>4, <2>1 DEF CourseStates
<1>6. Lasting(mem', published)
  BY <1>2, <1>5, LastsAs
<1>7. /\ Send("locked", mem') /\ holder' = "window" /\ window' = [window EXCEPT !.pc = then]
      /\ UNCHANGED <<acked, saved, savedAt, courseView, published, course, finish, retryCommands>>
  BY DEF WindowCommit, hostSide, limits
<1>8. DOMAIN putting' = Puts /\ \A p \in Puts : PutLasts(putting'[p], published)
  BY <1>6, <1>7, SendStep DEF Puts
<1>9. /\ DOMAIN window' = {"pc", "snapshot", "left"} /\ window'.snapshot \in [Streams -> Nat]
      /\ window'.pc = then
  BY <1>7 DEF CourseInv, CourseTypes
<1>10. CourseTypes'
  BY <1>7, <1>8, <1>9 DEF CourseInv, CourseTypes, CourseTypeOK, CourseJobs
<1> QED
  BY <1>6, <1>7, <1>8, <1>10, StatesStep DEF CourseInv, StatesLast, PublishedFirst

\* The steps of the tasks that touch no state.
LEMMA TaskStep ==
  ASSUME CourseInv, RepairFails \/ TerminalBegins \/ OpenRefused
  PROVE  CourseInv'
<1>1. UNCHANGED <<acked, saved, savedAt, courseView, published, course, mem, base, holder, putting, retryCommands>>
  BY DEF RepairFails, TerminalBegins, OpenRefused, hostSide, taskVars, limits
<1>2. mem.pending \in [Streams -> Nat]
  BY DEF CourseInv, StatesLast, Lasting, CourseStates
<1>3. \/ window' = window \/ window' = NoWindow \/ window' = Window(mem)
      \/ window' = [window EXCEPT !.left = window.left - 1]
  <2>1. CASE RepairFails
    BY <2>1, Zenon DEF RepairFails, WindowEnds
  <2>2. CASE TerminalBegins
    BY <2>2, Zenon DEF TerminalBegins
  <2>3. CASE OpenRefused
    BY <2>3 DEF OpenRefused, taskVars
  <2> QED
    BY <2>1, <2>2, <2>3
<1>4. /\ DOMAIN window' = {"pc", "snapshot", "left"} /\ window'.snapshot \in [Streams -> Nat]
      /\ window'.pc \in {window.pc, "none", "model"}
  BY <1>2, <1>3 DEF CourseInv, CourseTypes, NoWindow, Window
<1>5. \/ finish' = finish \/ finish' = [finish EXCEPT !.pc = "publish"] \/ finish' = [finish EXCEPT !.pc = "window"]
  <2>1. CASE RepairFails
    BY <2>1, Zenon DEF RepairFails, WindowEnds
  <2>2. CASE TerminalBegins
    BY <2>2, Zenon DEF TerminalBegins
  <2>3. CASE OpenRefused
    BY <2>3 DEF OpenRefused, taskVars
  <2> QED
    BY <2>1, <2>2, <2>3
<1>6. DOMAIN finish' = {"pc", "left"} /\ finish'.pc \in {finish.pc, "publish", "window"}
  BY <1>5 DEF CourseInv, CourseTypes
<1>7. CourseTypes'
  BY <1>1, <1>4, <1>6 DEF CourseInv, CourseTypes, CourseTypeOK, CourseJobs
<1> QED
  BY <1>1, <1>6, <1>7, StatesStep DEF CourseInv, StatesLast, PublishedFirst

\* The document is published under the job's key.
LEMMA PublishStep ==
  ASSUME CourseInv, NEW draft \in Drafts, Publish(draft)
  PROVE  CourseInv'
<1>1. /\ published' = [published EXCEPT ![mem.job] = draft]
      /\ finish' = [finish EXCEPT !.pc = "recording"]
      /\ UNCHANGED <<acked, saved, savedAt, courseView, course, mem, base, holder, putting, window, retryCommands>>
  BY DEF Publish, limits
<1>2. mem.job \in CourseJobs /\ published \in [CourseJobs -> Drafts \cup {0}]
  BY DEF CourseInv, StatesLast, Lasting, CourseStates, CourseTypes, CourseTypeOK
<1>3. published' \in [CourseJobs -> Drafts \cup {0}] /\ \E j \in CourseJobs : published'[j] # 0
  BY <1>1, <1>2, CourseAssumption
<1>4. DOMAIN finish' = {"pc", "left"} /\ finish'.pc = "recording"
  BY <1>1 DEF CourseInv, CourseTypes
<1>5. CourseTypes'
  BY <1>1, <1>3, <1>4 DEF CourseInv, CourseTypes, CourseTypeOK, CourseJobs
<1>6. Lasting(mem, published') /\ Lasting(saved, published') /\ \A p \in Puts : PutLasts(putting[p], published')
  BY <1>3 DEF CourseInv, StatesLast, PutLasts, Lasting
<1>7. StatesLast'
  BY <1>1, <1>6 DEF StatesLast, PutLasts, Lasting, Kept, Ended, CourseStates, NoPut, Streams, CourseJobs
<1>8. PublishedFirst'
  BY <1>3 DEF PublishedFirst, CourseJobs
<1> QED
  BY <1>5, <1>7, <1>8 DEF CourseInv

\* A success, a failure or a new attempt is put down in memory and sent.
LEMMA RecordStep ==
  ASSUME CourseInv, RecordSuccess \/ RecordFailure \/ RetryFinal
  PROVE  CourseInv'
<1>1. mem \in CourseStates /\ mem.view + 1 \in Nat /\ Lasting(mem, published)
  BY DEF CourseInv, StatesLast, Lasting, CourseStates
<1>2. retryCommands \in 0..MaxRetryCommands /\ MaxRetryCommands \in Nat
  BY CourseAssumption DEF CourseInv, CourseTypes
<1>3. /\ mem' \in CourseStates /\ mem'.pending = mem.pending /\ mem'.handled = mem.handled
      /\ mem'.taken = mem.taken
      /\ mem'.due = mem.due \/ \E j \in CourseJobs : published[j] # 0
  <2>1. CASE RecordSuccess
    <3>1. mem' = [mem EXCEPT !.due = FALSE, !.final = "ready", !.view = mem.view + 1]
      BY <2>1 DEF RecordSuccess
    <3>2. \E j \in CourseJobs : published[j] # 0
      BY <2>1 DEF RecordSuccess, CourseInv, PublishedFirst
    <3> QED
      BY <1>1, <3>1, <3>2 DEF CourseStates
  <2>2. CASE RecordFailure
    <3>1. mem' = [mem EXCEPT !.final = "waiting_retry", !.view = mem.view + 1]
      BY <2>2 DEF RecordFailure
    <3> QED
      BY <1>1, <3>1 DEF CourseStates
  <2>3. CASE RetryFinal
    <3>1. PICK k : k = retryCommands + 2
      OBVIOUS
    <3>2. k \in CourseJobs
      BY <1>2, <2>3, <3>1 DEF RetryFinal, CourseJobs
    <3>3. mem' = [mem EXCEPT !.job = k, !.final = "generating", !.view = mem.view + 1]
      BY <2>3, <3>1 DEF RetryFinal
    <3> QED
      BY <1>1, <3>2, <3>3 DEF CourseStates
  <2> QED
    BY <2>1, <2>2, <2>3
<1>4. Lasting(mem', published)
  BY <1>1, <1>3, LastsAs
<1>5. PICK who \in Puts : Send(who, mem')
  BY DEF RecordSuccess, RecordFailure, RetryFinal, Puts
<1>6. /\ UNCHANGED <<acked, saved, savedAt, courseView, published, course, window>>
      /\ holder' \in {holder, "success", "failure"}
      /\ finish' = finish \/ finish' = [finish EXCEPT !.pc = "done"]
  BY DEF RecordSuccess, RecordFailure, RetryFinal, hostSide
<1>7. retryCommands' \in 0..MaxRetryCommands
  BY <1>2 DEF RecordSuccess, RecordFailure, RetryFinal, limits
<1>8. DOMAIN putting' = Puts /\ \A p \in Puts : PutLasts(putting'[p], published)
  BY <1>4, <1>5, SendStep
<1>9. DOMAIN finish' = {"pc", "left"} /\ finish'.pc \in {finish.pc, "done"}
  BY <1>6 DEF CourseInv, CourseTypes
<1>10. CourseTypes'
  BY <1>6, <1>7, <1>8, <1>9 DEF CourseInv, CourseTypes, CourseTypeOK, CourseJobs
<1> QED
  BY <1>4, <1>6, <1>8, <1>9, <1>10, StatesStep DEF CourseInv, StatesLast, PublishedFirst

\* The process dies: memory is lost, a put under way may have reached the Host.
LEMMA CourseDeathStep == ASSUME CourseInv, CourseDies PROVE CourseInv'
<1>1. /\ course' = "down" /\ mem' = FreshState /\ holder' = "none" /\ window' = NoWindow
      /\ putting' = [p \in {"locked", "command"} |-> NoPut]
      /\ finish' = [pc |-> "none", left |-> 0]
      /\ UNCHANGED <<acked, courseView, published, refused, retryCommands>>
  BY DEF CourseDies
<1>2. FreshState \in CourseStates
  <2>1. Len(CourseLog) \in Nat /\ 1 \in CourseJobs /\ [s \in Streams |-> 0] \in [Streams -> Nat]
    BY CourseAssumption DEF CourseJobs
  <2> QED
    BY <2>1 DEF FreshState, CourseStates
<1>3. Lasting(mem', published)
  BY <1>1, <1>2 DEF Lasting, Kept, Ended, FreshState
<1>4. Lasting(saved', published) /\ savedAt' \in Nat
  <2>1. CASE UNCHANGED <<saved, savedAt>>
    BY <2>1 DEF CourseInv, StatesLast, CourseTypes, CourseTypeOK
  <2>2. CASE \E p \in DOMAIN putting : putting[p] # NoPut /\ StoredState(p) /\ saved' = putting[p].value /\ savedAt' = savedAt + 1
    BY <2>2, CommitLasts DEF CourseInv, CourseTypes
  <2> QED
    BY <2>1, <2>2 DEF CourseDies
<1>5. DOMAIN putting' = Puts /\ \A p \in Puts : PutLasts(putting'[p], published)
  BY <1>1 DEF Puts, PutLasts
<1>6. /\ DOMAIN window' = {"pc", "snapshot", "left"} /\ window'.snapshot \in [Streams -> Nat]
      /\ window'.pc = "none" /\ DOMAIN finish' = {"pc", "left"} /\ finish'.pc = "none"
  BY <1>1 DEF NoWindow
<1>7. CourseTypes'
  BY <1>1, <1>4, <1>5, <1>6 DEF CourseInv, CourseTypes, CourseTypeOK, CourseJobs
<1> QED
  BY <1>1, <1>3, <1>4, <1>5, <1>6, <1>7, StatesStep

\* Every step.
LEMMA CourseKeep == CourseInv /\ [CourseNext]_courseVars => CourseInv'
<1> SUFFICES ASSUME CourseInv, [CourseNext]_courseVars PROVE CourseInv'
  OBVIOUS
<1>1. CASE UNCHANGED courseVars
  <2>1. CourseTypes'
    BY <1>1 DEF courseVars, hostSide, taskVars, limits, CourseInv, CourseTypes, CourseTypeOK
  <2>2. mem' = mem /\ saved' = saved /\ putting' = putting /\ published' = published /\ finish' = finish
    BY <1>1 DEF courseVars, hostSide, taskVars, limits
  <2>3. StatesLast' /\ PublishedFirst'
    BY <2>2 DEF CourseInv, StatesLast, PublishedFirst, Lasting, PutLasts, Kept, Ended
  <2> QED
    BY <2>1, <2>3 DEF CourseInv
<1>2. CASE CourseNext
  BY <1>2, CourseOpenStep, CourseBatchStep, CourseCommitStep, LostStep, WindowStep, TaskStep, PublishStep, RecordStep, CourseDeathStep
     DEF CourseNext
<1> QED
  BY <1>1, <1>2

\* CourseSession and CourseFinalizer: for every log of events, any refused saves, deaths and
\* retries, a caption revision that was taken is pending or in the notes, and the job of an
\* ended session lasts until its document is published.
THEOREM CourseSafeHolds == CourseSpec => []CourseSafe
<1>1. CourseInv => CourseSafe
  BY DEF CourseInv, CourseTypes, StatesLast, Lasting, CourseSafe, RevisionsKept, JobUntilPublished
<1>2. CourseSpec => []CourseInv
  BY CourseStart, CourseKeep, PTL DEF CourseSpec
<1> QED
  BY <1>1, <1>2, PTL


-----------------------------------------------------------------------------
(* The quota of a plugin's state: a sum over its items.                    *)

SizesOver(f, D) == DOMAIN f = D /\ IsFiniteSet(D) /\ \A i \in D : f[i].size \in Nat

SizesOf(f) == [i \in DOMAIN f |-> f[i].size]

\* Total is the sum over all of them.
LEMMA TotalIs ==
  ASSUME NEW f, NEW D, SizesOver(f, D)
  PROVE  Weights(SizesOf(f), D) /\ \E h : SumsOf(h, SizesOf(f), D) /\ Total(f) = h[D]
<1> DEFINE F(g) == [s \in SUBSET DOMAIN f |->
                      IF s = {} THEN 0 ELSE LET i == CHOOSE x \in s : TRUE IN f[i].size + g[s \ {i}]]
           sum == CHOOSE g : g = F(g)
<1>1. PICK w : w = SizesOf(f)
  OBVIOUS
<1>2. Weights(w, D) /\ \A i \in D : w[i] = f[i].size
  BY <1>1 DEF Weights, SizesOver, SizesOf
<1>3. \A s \in SUBSET D : s # {} => First(s) \in D
  BY <1>2, OneLess DEF Weights
<1>4. PICK h : SumsOf(h, w, D)
  BY <1>2, SumsExist
<1>5. h = F(h)
  <2>1. \A s \in SUBSET D : h[s] = IF s = {} THEN 0 ELSE f[First(s)].size + h[s \ {First(s)}]
    BY <1>2, <1>3, <1>4 DEF SumsOf
  <2> QED
    BY <1>4, <2>1 DEF SumsOf, SizesOver, First
<1>6. sum = F(sum)
  <2> HIDE DEF F
  <2> QED
    BY <1>5, Zenon
<1>7. Total(f) = sum[DOMAIN f]
  BY Zenon DEF Total
<1>8. \A s \in SUBSET D : sum[s] = IF s = {} THEN 0 ELSE f[First(s)].size + sum[s \ {First(s)}]
  <2> HIDE DEF sum
  <2> QED
    BY <1>6 DEF SizesOver, First
<1>9. DOMAIN sum = SUBSET D
  <2> HIDE DEF sum
  <2> QED
    BY <1>6 DEF SizesOver
<1>10. sum = [s \in SUBSET D |-> sum[s]]
  BY <1>6, <1>9 DEF F, SizesOver
<1> HIDE DEF sum, F
<1>11. sum[{}] = 0 /\ \A s \in SUBSET D : s # {} => sum[s] = w[First(s)] + sum[s \ {First(s)}]
  BY <1>2, <1>3, <1>8
<1>12. SumsOf(sum, w, D)
  BY <1>2, <1>9, <1>10, <1>11, SumsAre
<1> QED
  BY <1>1, <1>2, <1>7, <1>12 DEF SizesOver

\* What put_state adds up is the total after it.
LEMMA TotalChanges ==
  ASSUME NEW D, NEW f, SizesOver(f, D), NEW g, SizesOver(g, D),
         NEW i \in D, \A j \in D \ {i} : f[j] = g[j]
  PROVE  Total(g) = Total(f) - f[i].size + g[i].size
<1>1. PICK w : w = SizesOf(f)
  OBVIOUS
<1>2. PICK v : v = SizesOf(g)
  OBVIOUS
<1>3. Weights(w, D) /\ Weights(v, D)
  BY <1>1, <1>2, TotalIs
<1>4. PICK h : SumsOf(h, w, D) /\ Total(f) = h[D]
  BY <1>1, TotalIs
<1>5. PICK k : SumsOf(k, v, D) /\ Total(g) = k[D]
  BY <1>2, TotalIs
<1>6. D \in SUBSET D /\ D \ {i} \in SUBSET D
  OBVIOUS
<1>7. h[D] = w[i] + h[D \ {i}]
  BY <1>3, <1>4, <1>6, SumAny
<1>8. k[D] = v[i] + k[D \ {i}]
  BY <1>3, <1>5, <1>6, SumAny
<1>9. \A j \in D \ {i} : w[j] = v[j]
  BY <1>1, <1>2 DEF SizesOf, SizesOver
<1>10. h[D \ {i}] = k[D \ {i}]
  BY <1>3, <1>4, <1>5, <1>6, <1>9, SumsAgree
<1>11. h[D \ {i}] \in Nat /\ w[i] \in Nat /\ v[i] \in Nat /\ w[i] = f[i].size /\ v[i] = g[i].size
  BY <1>1, <1>2, <1>4, <1>6 DEF SumsOf, SizesOver, SizesOf
<1> QED
  BY <1>4, <1>5, <1>7, <1>8, <1>10, <1>11

\* Nothing adds up to nothing.
LEMMA TotalOfNone ==
  ASSUME NEW f, NEW D, SizesOver(f, D), \A i \in D : f[i].size = 0
  PROVE  Total(f) = 0
<1>1. PICK w : w = SizesOf(f)
  OBVIOUS
<1>2. Weights(w, D) /\ \A i \in D : w[i] = 0
  BY <1>1, TotalIs DEF SizesOf, SizesOver
<1>3. PICK h : SumsOf(h, w, D) /\ Total(f) = h[D]
  BY <1>1, TotalIs
<1>4. PICK zero : zero = [s \in SUBSET D |-> 0]
  OBVIOUS
<1>5. SumsOf(zero, w, D)
  <2>1. ASSUME NEW s \in SUBSET D, s # {} PROVE zero[s] = w[First(s)] + zero[s \ {First(s)}]
    <3>1. First(s) \in s /\ s \ {First(s)} \in SUBSET D
      BY <2>1, OneLess DEF SizesOver
    <3>2. w[First(s)] = 0
      BY <1>2, <3>1
    <3> QED
      BY <1>4, <3>1, <3>2
  <2>2. zero \in [SUBSET D -> Nat] /\ zero[{}] = 0
    BY <1>4
  <2> QED
    BY <2>1, <2>2 DEF SumsOf
<1>6. h[D] = zero[D]
  BY <1>2, <1>3, <1>5, SumsAgree
<1> QED
  BY <1>3, <1>4, <1>6

\* The items have sizes.
LEMMA ItemSizes == BrokerTypeOK => SizesOver(item, StateItems)
BY BrokerAssumption DEF BrokerTypeOK, SizesOver

\* The quota after a step.
LEMMA QuotaStep ==
  ASSUME BrokerInv, BrokerInv', QuotaHeld, [BrokerNext]_brokerVars
  PROVE  QuotaHeld'
<1>1. SizesOver(item, StateItems) /\ SizesOver(item', StateItems)
  <2>1. BrokerTypeOK /\ BrokerTypeOK'
    BY DEF BrokerInv, BrokerTypes
  <2>2. SizesOver(item, StateItems)
    BY <2>1, ItemSizes
  <2>3. SizesOver(item', StateItems)
    BY <2>1, BrokerAssumption DEF BrokerTypeOK, SizesOver
  <2> QED
    BY <2>2, <2>3
<1>2. CASE UNCHANGED item
  BY <1>2 DEF QuotaHeld
<1>3. ASSUME NEW i \in StateItems, NEW size \in Bodies, NEW expected, PutState(i, expected, size)
      PROVE  QuotaHeld'
  <2>1. item' = [item EXCEPT ![i] = [version |-> item[i].version + 1, size |-> size]]
    BY <1>3 DEF PutState
  <2>2. item'[i].size = size /\ \A j \in StateItems \ {i} : item[j] = item'[j]
    BY <1>1, <2>1 DEF SizesOver
  <2>3. Total(item') = Total(item) - item[i].size + item'[i].size
    <3>1. PICK f : f = item
      OBVIOUS
    <3>2. PICK g : g = item'
      OBVIOUS
    <3>3. Total(g) = Total(f) - f[i].size + g[i].size
      BY <1>1, <2>2, <3>1, <3>2, TotalChanges
    <3> QED
      BY <3>1, <3>2, <3>3
  <2>4. Total(item) - item[i].size + size <= StateQuota
    BY <1>3 DEF PutState
  <2> QED
    BY <2>2, <2>3, <2>4 DEF QuotaHeld
<1>4. UNCHANGED item \/ \E i \in StateItems, size \in Bodies : \E expected \in 0..item[i].version : PutState(i, expected, size)
  BY DEF BrokerNext, brokerVars, ResumeCall, PublishDocument, SubmitExecution, ModelBegin, ModelAnswers, RolledBack,
       PublishView, Fetch, ModelCall, ModelFails, AuthorityEnds, HostDies
<1> QED
  BY <1>2, <1>3, <1>4

\* The invariant with the quota.
QuotaInv == BrokerInv /\ QuotaHeld

\* It holds at first and after every step.
LEMMA QuotaKept == /\ BrokerInit => QuotaInv
                   /\ QuotaInv /\ [BrokerNext]_brokerVars => QuotaInv'
                   /\ QuotaInv => BrokerSafe
<1>1. ASSUME BrokerInit PROVE QuotaInv
  <2>1. BrokerInv
    BY <1>1, BrokerStarts
  <2>2. SizesOver(item, StateItems)
    BY <2>1, ItemSizes DEF BrokerInv, BrokerTypes
  <2>3. \A i \in StateItems : item[i].size = 0
    BY <1>1 DEF BrokerInit
  <2>4. Total(item) = 0
    BY <2>2, <2>3, TotalOfNone
  <2> QED
    BY <2>1, <2>4, BrokerAssumption DEF QuotaInv, QuotaHeld
<1>2. ASSUME QuotaInv, [BrokerNext]_brokerVars PROVE QuotaInv'
  BY <1>2, BrokerStep, QuotaStep DEF QuotaInv
<1>3. QuotaInv => BrokerSafe
  BY BrokerInvSafe DEF QuotaInv, KeysAndHosts, BrokerSafe
<1> QED
  BY <1>1, <1>2, <1>3

\* create_capability_invocation, _resume_existing, the local capabilities, put_state,
\* model.invoke with its released lock and _network_fetch: for any number of keys, requests,
\* items and deaths of the Host a key has one effect and one answer, the items stay within
\* the quota, and no hop of a fetch is contacted outside the grant or without having been
\* resolved to public addresses for it, whatever the names resolve to from time to time.
THEOREM BrokerSafeHolds == BrokerSpec => []BrokerSafe
<1>1. BrokerSpec => []QuotaInv
  BY QuotaKept, PTL DEF BrokerSpec
<1> QED
  BY <1>1, QuotaKept, PTL


-----------------------------------------------------------------------------
(* The invariants of the five services.                                    *)
RecordsInv == JobsInv /\ PackagesInv /\ CandidatesInv /\ CourseInv /\ QuotaInv

\* The invariants of the five services in the composition, in which each takes its turns.
LEMMA RecordsServices ==
  /\ RecordsInit => RecordsInv
  /\ RecordsInv /\ [RecordsNext]_recordVars => RecordsInv'
<1>1. RecordsInit => RecordsInv
  BY JobsStart, PackagesStart, CandidatesStart, CourseStart, QuotaKept DEF RecordsInit, RecordsInv
<1>2. [RecordsNext]_recordVars => [JobsNext]_jobVars /\ [PackagesNext]_packageVars /\ [CandidatesNext]_candidateVars
                                 /\ [CourseNext]_courseVars /\ [BrokerNext]_brokerVars
  BY DEF RecordsNext, JobsPart, PackagesPart, CandidatesPart, BrokerPart, UpdatePart, CoursePart, recordVars
<1> QED
  BY <1>1, <1>2, JobsKeep, PackagesKeep, CandidatesKeep, CourseKeep, QuotaKept DEF RecordsInv

\* Jobs, artifacts and reviews; Packages, transcripts and pages; notes and candidates;
\* a course session; the capability boundary: what the run checks of them holds in the
\* composition too.
THEOREM RecordsKeepServices == RecordsSpec => [](JobsSafe /\ PackagesSafe /\ CandidatesSafe /\ CourseSafe /\ BrokerSafe)
<1>1. RecordsInv =>
        JobsSafe /\ PackagesSafe /\ CandidatesSafe /\ CourseSafe /\ BrokerSafe
  BY PackagesInvSafe, ChainsEnd, QuotaKept DEF RecordsInv, JobsInv, JobsSafe, CandidatesInv, CandidatesSafe,
       CourseInv, CourseTypes, StatesLast, Lasting, CourseSafe, RevisionsKept, JobUntilPublished
<1>2. RecordsSpec => [](RecordsInv)
  BY RecordsServices, PTL DEF RecordsSpec, recordVars
<1> QED
  BY <1>1, <1>2, PTL

=============================================================================
