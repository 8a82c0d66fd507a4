---------------------------- MODULE PluginUpdate ----------------------------
(***************************************************************************)
(* Installation, update and removal of a plugin: the two-phase ticket of   *)
(* plugins/package_store.py and the activation of plugins/bootstrap.py.    *)
(* Confirming a ticket suspends while the image is imported, while the     *)
(* candidate container starts and while it migrates the state; in those    *)
(* windows other confirmations, the running version's writes, a disable,   *)
(* an uninstall or the death of the Host may come.  The supervisor's own   *)
(* protocol is PluginHost.                                                 *)
(***************************************************************************)
EXTENDS Integers, FiniteSets

CONSTANTS
  Versions,        \* versions of the plugin that can be offered
  NoVersion,       \* a model value
  Tickets,         \* inspections
  Confirmers,      \* concurrent confirmation requests
  MaxStateWrites,  \* bound: state.put calls per version
  MaxRemovals,     \* bound: disable and uninstall requests
  MaxUpdateDeaths  \* bound: deaths of the Host

ASSUME UpdateAssumption == NoVersion \notin Versions

VARIABLES
  ticket,     \* PluginStagingTicketRecord: "none", "live", "expired", "used", "gone"
  offers,     \* the version each ticket inspected
  staged,     \* tickets whose staging tree is on disk
  installed,  \* versions whose contents are on disk
  recorded,   \* versions with a PluginPackageRecord and base permissions
  trusted,    \* the publisher's fingerprint is pinned
  preferred,  \* preferred_package_id, or NoVersion when not installed
  enabled,    \* installation status
  pinned,     \* versions with an open session binding
  store,      \* PluginStateItemRecord per version: the writes it holds
  running,    \* versions whose container the supervisor holds (managed.process)
  orphans,    \* versions with a container that no managed.process refers to
  confirm,    \* each confirmation: pc, ticket, version and what it read
  removal,    \* "none", "disable" or "uninstall" while versions are stopped
  stopping,   \* the versions that request stops
  ready,      \* history: versions installed first or migrated
  installs,   \* history: packages recorded per ticket
  removals, updateDeaths

diskVars == <<staged, installed>>
rowVars == <<ticket, offers, recorded, trusted, preferred, enabled, pinned, store>>
containers == <<running, orphans>>
updateVars == <<diskVars, rowVars, containers, confirm, removal, stopping, ready, installs, removals,
                updateDeaths>>

NoConfirm == [pc |-> "idle", ticket |-> CHOOSE t \in Tickets : TRUE, version |-> NoVersion, previous |-> NoVersion,
              items |-> 0, enabled |-> FALSE]

UpdateTypeOK ==
  /\ ticket \in [Tickets -> {"none", "live", "expired", "used", "gone"}]
  /\ staged \subseteq Tickets /\ installed \subseteq Versions /\ recorded \subseteq Versions
  /\ preferred \in Versions \cup {NoVersion} /\ pinned \subseteq Versions
  /\ running \subseteq Versions /\ orphans \subseteq Versions
  /\ \A c \in Confirmers : confirm[c].pc \in {"idle", "importing", "starting", "migrating"}
  /\ removal \in {"none", "disable", "uninstall"}

UpdateInit ==
  /\ ticket = [t \in Tickets |-> "none"] /\ offers = [t \in Tickets |-> NoVersion]
  /\ staged = {} /\ installed = {} /\ recorded = {} /\ trusted = FALSE
  /\ preferred = NoVersion /\ enabled = FALSE /\ pinned = {}
  /\ store = [v \in Versions |-> 0] /\ running = {} /\ orphans = {}
  /\ confirm = [c \in Confirmers |-> NoConfirm] /\ removal = "none" /\ stopping = {}
  /\ ready = {} /\ installs = [t \in Tickets |-> 0] /\ removals = 0 /\ updateDeaths = 0

\* PackageStore.inspect, after cleanup_expired_authority.
Inspect(t, v) ==
  /\ ticket[t] = "none"
  /\ LET gone == {u \in Tickets : ticket[u] = "expired"}
     IN /\ ticket' = [u \in Tickets |-> IF u = t THEN "live" ELSE IF u \in gone THEN "gone" ELSE ticket[u]]
        /\ staged' = (staged \ gone) \cup {t}
  /\ offers' = [offers EXCEPT ![t] = v]
  /\ UNCHANGED <<installed, recorded, trusted, preferred, enabled, pinned, store, containers, confirm, removal,
                 stopping, ready, installs, removals, updateDeaths>>

TicketExpires(t) ==
  /\ ticket[t] = "live" /\ ticket' = [ticket EXCEPT ![t] = "expired"]
  /\ UNCHANGED <<diskVars, offers, recorded, trusted, preferred, enabled, pinned, store, containers, confirm,
                 removal, stopping, ready, installs, removals, updateDeaths>>

\* confirm_install up to import_image: the staged archive is verified again,
\* the permissions match, the publisher is pinned and the contents are copied.
ConfirmBegin(c, t) ==
  /\ confirm[c].pc = "idle" /\ ticket[t] = "live" /\ t \in staged
  /\ trusted' = TRUE /\ installed' = installed \cup {offers[t]}
  /\ confirm' = [confirm EXCEPT ![c] = [NoConfirm EXCEPT !.pc = "importing", !.ticket = t,
                                                         !.version = offers[t]]]
  /\ UNCHANGED <<staged, ticket, offers, recorded, preferred, enabled, pinned, store, containers, removal,
                 stopping, ready, installs, removals, updateDeaths>>

\* Any earlier refusal, and a failed import: the staging tree goes with it.
ConfirmRefused(t) ==
  /\ ticket[t] = "live" /\ t \in staged /\ staged' = staged \ {t}
  /\ UNCHANGED <<installed, rowVars, containers, confirm, removal, stopping, ready, installs, removals,
                 updateDeaths>>

ImportFails(c) ==
  /\ confirm[c].pc = "importing"
  /\ staged' = staged \ {confirm[c].ticket} /\ confirm' = [confirm EXCEPT ![c] = NoConfirm]
  /\ UNCHANGED <<installed, rowVars, containers, removal, stopping, ready, installs, removals, updateDeaths>>

\* Mutant: the ticket was looked at when the confirmation began.
ConsumableOnce(t) == ticket[t] \in {"live", "used"}

\* consume_staging_ticket at the end of the recording transaction.
Consumable(t) == ticket[t] = "live"

\* The recording transaction and, in the same breath, what
\* _activate_installed_package reads before it first suspends.
ImportDone(c) ==
  /\ confirm[c].pc = "importing"
  /\ staged' = staged \ {confirm[c].ticket}
  /\ LET v == confirm[c].version
     IN IF Consumable(confirm[c].ticket)
          THEN /\ ticket' = [ticket EXCEPT ![confirm[c].ticket] = "used"]
               /\ installs' = [installs EXCEPT ![confirm[c].ticket] = @ + 1]
               /\ recorded' = recorded \cup {v}
               /\ IF preferred \in {NoVersion, v}
                    THEN /\ preferred' = v /\ ready' = ready \cup {v}
                         /\ confirm' = [confirm EXCEPT ![c] = NoConfirm]
                    ELSE /\ confirm' = [confirm EXCEPT ![c].pc = "starting", ![c].previous = preferred,
                                                       ![c].items = store[preferred],
                                                       ![c].enabled = enabled]
                         /\ UNCHANGED <<preferred, ready>>
          ELSE /\ confirm' = [confirm EXCEPT ![c] = NoConfirm]
               /\ UNCHANGED <<ticket, installs, recorded, preferred, ready>>
  /\ UNCHANGED <<installed, offers, trusted, enabled, pinned, store, containers, removal, stopping, removals,
                 updateDeaths>>

\* _launch raises: no container was started or it was stopped as incompatible, or, when
\* plugin.initialize raised or timed out, it goes on and managed.process is still None.
LaunchFails(v) ==
  /\ v \notin running /\ UNCHANGED running
  /\ orphans' \in {orphans, orphans \cup {v}}

\* The candidate's container starts and plugin.initialize names it, or it runs already.
CandidateStarts(c) ==
  /\ confirm[c].pc = "starting"
  /\ running' = running \cup {confirm[c].version}
  /\ confirm' = [confirm EXCEPT ![c].pc = "migrating"]
  /\ UNCHANGED <<orphans, diskVars, rowVars, removal, stopping, ready, installs, removals, updateDeaths>>

\* The candidate does not start.  The disable that follows has no process to stop.
CandidateFails(c) ==
  /\ confirm[c].pc = "starting" /\ LaunchFails(confirm[c].version)
  /\ confirm' = [confirm EXCEPT ![c] = NoConfirm]
  /\ UNCHANGED <<diskVars, rowVars, removal, stopping, ready, installs, removals, updateDeaths>>

\* Mutant: a candidate that fails to migrate is left running.
UpdateFailsRunning(c) ==
  /\ confirm[c].pc \in {"starting", "migrating"}
  /\ confirm' = [confirm EXCEPT ![c] = NoConfirm]
  /\ UNCHANGED <<diskVars, rowVars, containers, removal, stopping, ready, installs, removals, updateDeaths>>

\* No container runtime, or a failed or invalid migration: a candidate that runs is stopped.
UpdateFails(c) ==
  /\ confirm[c].pc \in {"starting", "migrating"}
  /\ running' = running \ {confirm[c].version}
  /\ confirm' = [confirm EXCEPT ![c] = NoConfirm]
  /\ UNCHANGED <<orphans, diskVars, rowVars, removal, stopping, ready, installs, removals, updateDeaths>>

\* Mutant: the preferred version changes although the plugin was removed.
SwapRemoved(c) ==
  /\ confirm[c].pc = "migrating"
  /\ store' = [store EXCEPT ![confirm[c].version] = confirm[c].items]
  /\ preferred' = confirm[c].version /\ ready' = ready \cup {confirm[c].version}
  /\ running' = IF confirm[c].enabled THEN running ELSE running \ {confirm[c].version}
  /\ confirm' = [confirm EXCEPT ![c] = NoConfirm]
  /\ UNCHANGED <<diskVars, ticket, offers, recorded, trusted, enabled, pinned, orphans, removal, stopping,
                 installs, removals, updateDeaths>>

\* migrate_state answers and is valid: the snapshot and the preferred version
\* change in one transaction; a version that is not to run is stopped.
Swap(c) ==
  /\ confirm[c].pc = "migrating" /\ confirm[c].version \in running
  /\ confirm[c].version \in recorded /\ preferred # NoVersion
  /\ store' = [store EXCEPT ![confirm[c].version] = confirm[c].items]
  /\ preferred' = confirm[c].version /\ ready' = ready \cup {confirm[c].version}
  /\ running' = IF confirm[c].enabled THEN running ELSE running \ {confirm[c].version}
  /\ confirm' = [confirm EXCEPT ![c] = NoConfirm]
  /\ UNCHANGED <<diskVars, ticket, offers, recorded, trusted, enabled, pinned, orphans, removal, stopping,
                 installs, removals, updateDeaths>>

\* enable_plugin (PluginHost has its suspension points).
Enable ==
  /\ preferred # NoVersion /\ removal = "none" /\ (~enabled \/ preferred \notin running)
  /\ enabled' = TRUE
  /\ \/ running' = running \cup {preferred} /\ UNCHANGED orphans
     \/ LaunchFails(preferred)
  /\ UNCHANGED <<diskVars, ticket, offers, recorded, trusted, preferred, pinned, store, confirm, removal,
                 stopping, ready, installs, removals, updateDeaths>>

\* _open_ready_bindings: a new session goes to the preferred version.
BindSession ==
  /\ enabled /\ preferred \in running \ pinned /\ pinned' = pinned \cup {preferred}
  /\ UNCHANGED <<diskVars, ticket, offers, recorded, trusted, preferred, enabled, store, containers, confirm,
                 removal, stopping, ready, installs, removals, updateDeaths>>

\* A state.put of a version at work.
WriteState(v) ==
  /\ v \in running \cap pinned /\ store[v] < MaxStateWrites /\ store' = [store EXCEPT ![v] = @ + 1]
  /\ UNCHANGED <<diskVars, ticket, offers, recorded, trusted, preferred, enabled, pinned, containers, confirm,
                 removal, stopping, ready, installs, removals, updateDeaths>>

\* disable_plugin, alone or for uninstall_plugin: the row, then the versions
\* the supervisor knows at that moment.
RemovalBegins(kind) ==
  /\ preferred # NoVersion /\ removal = "none" /\ removals < MaxRemovals
  /\ removal' = kind /\ stopping' = running /\ enabled' = FALSE /\ removals' = removals + 1
  /\ UNCHANGED <<diskVars, ticket, offers, recorded, trusted, preferred, pinned, store, containers, confirm,
                 ready, installs, updateDeaths>>

DisableEnds ==
  /\ removal = "disable"
  /\ running' = running \ stopping /\ enabled' = FALSE /\ removal' = "none" /\ stopping' = {}
  /\ UNCHANGED <<diskVars, ticket, offers, recorded, trusted, preferred, pinned, store, orphans, confirm,
                 ready, installs, removals, updateDeaths>>

\* delete_plugin: every row of the plugin, then the recorded directories.  The
\* pinned publisher and the user's documents stay.
UninstallEnds ==
  /\ removal = "uninstall"
  /\ running' = running \ stopping /\ removal' = "none" /\ stopping' = {}
  /\ installed' = installed \ recorded
  /\ recorded' = {} /\ preferred' = NoVersion /\ enabled' = FALSE /\ pinned' = {}
  /\ store' = [v \in Versions |-> 0]
  /\ ticket' = [t \in Tickets |-> IF ticket[t] = "none" THEN "none" ELSE "gone"]
  /\ UNCHANGED <<staged, offers, trusted, orphans, confirm, ready, installs, removals, updateDeaths>>

\* The Host dies and starts again: containers end with their stdio, start() runs the
\* preferred version and the versions open sessions are bound to and gives up at the first
\* that does not start.
HostReboots ==
  /\ updateDeaths < MaxUpdateDeaths /\ updateDeaths' = updateDeaths + 1
  /\ confirm' = [c \in Confirmers |-> NoConfirm] /\ removal' = "none" /\ stopping' = {}
  /\ LET starts == IF enabled THEN {preferred} \cup pinned ELSE {}
     IN \/ running' = starts /\ orphans' = {}
        \/ \E v \in starts :
             /\ running' \in SUBSET (starts \ {v})
             /\ IF v = preferred THEN running' = {} ELSE preferred \in running'
             /\ orphans' \in {{}, {v}}
  /\ LET gone == {t \in Tickets : ticket[t] = "expired"}
     IN /\ ticket' = [t \in Tickets |-> IF t \in gone THEN "gone" ELSE ticket[t]]
        /\ staged' = staged \ gone
  /\ UNCHANGED <<installed, offers, recorded, trusted, preferred, enabled, pinned, store, ready, installs,
                 removals>>

UpdateNext ==
  \/ \E t \in Tickets :
       \/ \E v \in Versions : Inspect(t, v)
       \/ TicketExpires(t) \/ ConfirmRefused(t)
       \/ \E c \in Confirmers : ConfirmBegin(c, t)
  \/ \E c \in Confirmers : ImportFails(c) \/ ImportDone(c) \/ CandidateStarts(c) \/ CandidateFails(c)
                          \/ UpdateFails(c) \/ Swap(c)
  \/ Enable \/ BindSession \/ \E v \in Versions : WriteState(v)
  \/ \E kind \in {"disable", "uninstall"} : RemovalBegins(kind)
  \/ DisableEnds \/ UninstallEnds \/ HostReboots

UpdateSpec == UpdateInit /\ [][UpdateNext]_updateVars

-----------------------------------------------------------------------------

\* The preferred version is recorded and was installed first or finished its
\* migration, although updates are interrupted by failures, restarts, a second
\* confirmation or an uninstall ("a failed update rolls back to the previous
\* healthy version and state").
PreferredReady == preferred # NoVersion => preferred \in recorded \cap ready

\* A ticket installs at most one package, however its confirmations overlap.
TicketOnce == \A t \in Tickets : installs[t] <= 1

Settled == removal = "none" /\ \A c \in Confirmers : confirm[c].pc = "idle"

\* When nothing is under way the supervisor holds containers of versions that were preferred
\* alone: a candidate whose migration failed does not go on serving, whatever other
\* confirmation, removal or restart came in between.
NoStrayCandidate == Settled => running \subseteq ready

\* No container of a failed candidate runs on (docs/plugin-operations.md:199 says that it
\* stops).  Not so when plugin.initialize raised: nobody holds that container.
NoOrphanCandidate == Settled => orphans \subseteq ready

\* A disabled plugin has no process once nothing is under way.
DisabledIsStopped == Settled /\ ~enabled => running = {}

\* The swap hands on every write of the previous version.
NoWriteLost ==
  [][\A c \in Confirmers : preferred' # preferred /\ confirm[c].previous = preferred /\ preferred # NoVersion
       /\ preferred' # NoVersion => store'[preferred'] = store[preferred]]_updateVars

\* However confirmations, failures, removals and restarts fall, a ticket installs
\* once, the preferred version is a ready one and no failed candidate stays under supervision.
UpdateSafe == UpdateTypeOK /\ PreferredReady /\ TicketOnce /\ NoStrayCandidate

=============================================================================
