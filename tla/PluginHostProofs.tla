--------------------------- MODULE PluginHostProofs ---------------------------
(***************************************************************************)
(* HostSafe of PluginHost, for any number of sessions, events, restarts,   *)
(* faults and requests and any size of a batch.                            *)
(*                                                                         *)
(* The invariant has two halves.  LockInv and ScopesOwned say what is      *)
(* going on while the lock of the plugin is held, and whose scopes exist.  *)
(* SessionInv says of each session that whatever counts as acknowledged    *)
(* somewhere (its Marks) is within reach of the batch that is read from    *)
(* the durable cursor, and that the plugin has every event up to there.    *)
(***************************************************************************)
EXTENDS PluginHost, WellFoundedInduction, TLAPS

(* The types of what the Host and the supervisor keep.                     *)
Flags == enabling \in BOOLEAN /\ disabling \in BOOLEAN /\ want \in BOOLEAN /\ watched \in BOOLEAN

LifeTypes ==
  /\ inst \in {"enabled", "disabled"} /\ boot \in {"booting", "up", "failed"}
  /\ Flags
  /\ status \in Statuses /\ owned \in {"none", "up", "down"}
  /\ gen \in Nat /\ crashes \in Nat /\ loose \in Nat
  /\ op \in {"free", "start", "restore", "open", "backoff", "stop"}
  /\ at \in Sessions \cup {NoSession}
  /\ \A m \in DOMAIN sessions : sessions[m].gen \in 0..gen
  /\ scopes \subseteq Sessions \X (0..gen)
  /\ faults \in 0..MaxFaults /\ toggles \in 0..MaxToggles

(* The types of the rows, the bindings, the jobs and the plugin's state,   *)
(* which TypeOK leaves to the values it bounds.                            *)
HostTypes ==
  /\ row \in [DOMAIN row -> [delivered : Nat, ack : Nat]] /\ DOMAIN row \subseteq Sessions
  /\ log \in [Sessions -> Seq(BOOLEAN)]
  /\ seen \in [Sessions -> Nat] /\ kept \in [Sessions -> Nat] /\ got \in [Sessions -> SUBSET Nat]
  /\ job \in [Sessions -> [pc : {"idle", "send", "sent", "ack"}, fore : BOOLEAN, events : SUBSET Nat,
                           through : Nat, more : BOOLEAN]]
  /\ sessions \in [DOMAIN sessions -> [gen : Nat, ack : Nat]] /\ DOMAIN sessions \subseteq Sessions
  /\ todo \in [DOMAIN todo -> [gen : Nat, ack : Nat]] /\ DOMAIN todo \subseteq Sessions

(* Who holds the lock, what runs meanwhile and which scopes exist: the     *)
(* scopes of a running process are those of its bindings and of the        *)
(* session.open that is out, all of its generation.                        *)
ScopesOwned ==
  /\ owned = "none" => hostScopes = {}
  /\ owned # "none" =>
       /\ \A m \in DOMAIN sessions : sessions[m].gen = gen
       /\ hostScopes = {<<m, gen>> : m \in DOMAIN sessions \cup ({at} \ {NoSession})}
  /\ hostScopes \subseteq scopes
  /\ at \notin DOMAIN sessions

LockInv ==
  /\ op \in {"start", "backoff"} => owned = "none"
  /\ op \in {"restore", "open"} => owned # "none"
  /\ op = "open" => at # NoSession
  /\ op \notin {"restore", "open"} => at = NoSession
  /\ op = "restore" => (at = NoSession \/ at \in DOMAIN todo) /\ DOMAIN todo \cap DOMAIN sessions = {}
  /\ op # "restore" => DOMAIN todo = {}
  /\ op \in {"start", "restore"} => status = "starting"
  /\ status \in Live <=> watched
  /\ watched => owned # "none"
  /\ status \in {"disabled", "quarantined"} => owned = "none"

(* The plugin has every subscribed event up to n.                          *)
Complete(m, n) == n <= Len(log[m]) /\ \A i \in 1..n : log[m][i] => i \in got[m]

(* A batch read from cursor c of m reaches v; from the durable cursor.     *)
ReachedFrom(m, c, v) ==
  \/ v <= c
  \/ /\ v <= Len(log[m]) /\ v <= c + BatchSize
     /\ \/ \E i \in v..(c + BatchSize) : i <= Len(log[m]) /\ log[m][i]
        \/ \A i \in (c + 1)..(c + BatchSize) : i <= Len(log[m]) => ~log[m][i]

Reached(m, v) == ReachedFrom(m, row[m].ack, v)

(* What is taken for acknowledged somewhere: by the plugin, in memory and  *)
(* by a restore.                                                           *)
Marks(m) ==
  {seen[m], kept[m]} \cup {sessions[n].ack : n \in DOMAIN sessions \cap {m}}
                     \cup {todo[n].ack : n \in DOMAIN todo \cap {m}}

JobOk(m) ==
  /\ row[m].ack < job[m].through /\ job[m].through <= row[m].delivered
  /\ Reached(m, job[m].through)
  /\ \A v \in Marks(m) : v <= job[m].through
  /\ job[m].pc \in {"send", "sent"} =>
       /\ job[m].events = {i \in (row[m].ack + 1)..job[m].through : log[m][i]}
       /\ job[m].events # {} => job[m].through \in job[m].events
  /\ job[m].pc = "sent" => op = "free" /\ m \in DOMAIN sessions /\ job[m].events # {}
  /\ job[m].pc = "ack" => Complete(m, job[m].through)

SessionInv(m) ==
  /\ got[m] \subseteq 1..Len(log[m]) /\ Len(log[m]) <= MaxEvents[m]
  /\ IF m \in DOMAIN row
     THEN /\ row[m].ack <= row[m].delivered /\ row[m].delivered <= Len(log[m])
          /\ Complete(m, row[m].ack)
          /\ \A v \in Marks(m) : Reached(m, v) /\ Complete(m, v)
          /\ job[m].pc # "idle" => JobOk(m)
     ELSE Marks(m) = {0} /\ m \notin DOMAIN sessions \cup DOMAIN todo /\ job[m].pc = "idle"

HostInv ==
  /\ LifeTypes /\ HostTypes /\ ScopesOwned /\ LockInv
  /\ \A m \in Sessions : SessionInv(m)

-----------------------------------------------------------------------------
(* Maxima and bindings.                                                    *)

(* The greatest element of a set is its Max.                               *)
LEMMA MaxIs ==
  ASSUME NEW S \in SUBSET Nat, NEW x \in S, \A y \in S : y <= x
  PROVE Max(S) = x
<1>1. \E z \in S : \A y \in S : z >= y
  OBVIOUS
<1>2. Max(S) \in S /\ \A y \in S : Max(S) >= y
  BY <1>1, Zenon DEF Max
<1>3. Max(S) >= x /\ Max(S) <= x /\ Max(S) \in Nat /\ x \in Nat
  BY <1>2
<1> QED BY <1>3

(* A set of numbers below a bound has a greatest element.                  *)
LEMMA MaxExists ==
  ASSUME NEW k \in Nat, NEW S \in SUBSET (0..k), S # {}
  PROVE Max(S) \in S /\ \A y \in S : y <= Max(S)
<1> DEFINE T == {k - y : y \in S}
<1>1. T \subseteq Nat /\ T # {}
  <2>1. \A y \in S : k - y \in Nat
    OBVIOUS
  <2> QED BY <2>1
<1>2. PICK z \in T : \A y \in T : ~(<<y, z>> \in OpToRel(<, Nat))
  BY <1>1, WFMin, NatLessThanWellFounded
<1>3. \A y \in T : z <= y
  <2> SUFFICES ASSUME NEW y \in T, ~(z <= y) PROVE FALSE
    OBVIOUS
  <2>1. y \in Nat /\ z \in Nat /\ y < z
    BY <1>1
  <2>2. <<y, z>> \in OpToRel(<, Nat)
    BY <2>1 DEF OpToRel
  <2> QED BY <1>2, <2>2
<1>4. PICK x \in S : z = k - x
  BY <1>2
<1>5. \A y \in S : k - y \in T
  OBVIOUS
<1>6. \A y \in S : y <= x
  <2> SUFFICES ASSUME NEW y \in S PROVE y <= x
    OBVIOUS
  <2>1. k - x <= k - y
    BY <1>3, <1>4, <1>5
  <2>2. x \in 0..k /\ y \in 0..k
    OBVIOUS
  <2> QED BY <2>1, <2>2
<1> QED BY <1>6, MaxIs

(* The greater of two numbers.                                             *)
LEMMA MaxPair ==
  ASSUME NEW a \in Nat, NEW b \in Nat
  PROVE Max({a, b}) = IF a >= b THEN a ELSE b
<1>1. CASE a >= b
  <2>1. {a, b} \in SUBSET Nat /\ a \in {a, b} /\ \A y \in {a, b} : y <= a
    BY <1>1
  <2> QED BY <1>1, <2>1, MaxIs
<1>2. CASE ~(a >= b)
  <2>1. {a, b} \in SUBSET Nat /\ b \in {a, b} /\ \A y \in {a, b} : y <= b
    BY <1>2
  <2> QED BY <1>2, <2>1, MaxIs
<1> QED BY <1>1, <1>2

(* Without a binding there is nothing to look up.                          *)
LEMMA NothingBound ==
  ASSUME NEW T
  PROVE DOMAIN NoneBound = {} /\ NoneBound \in [DOMAIN NoneBound -> T]
<1>1. NoneBound \in Seq(T) /\ Len(NoneBound) = 0
  BY DEF NoneBound
<1>2. DOMAIN NoneBound = 1..0
  BY <1>1
<1>3. NoneBound \in [1..Len(NoneBound) -> T]
  BY <1>1
<1> QED BY <1>1, <1>2, <1>3

-----------------------------------------------------------------------------
(* The sessions, seen from steps that leave their cursors alone.           *)

(* A job is an idle one, or has all its fields.                            *)
LEMMA JobTypes ==
  ASSUME HostTypes, NEW m \in Sessions
  PROVE /\ job[m].events \subseteq Nat /\ job[m].through \in Nat /\ seen[m] \in Nat /\ kept[m] \in Nat
        /\ log[m] \in Seq(BOOLEAN) /\ Len(log[m]) \in Nat /\ got[m] \subseteq Nat
        /\ m \in DOMAIN row => row[m].ack \in Nat /\ row[m].delivered \in Nat
        /\ m \in DOMAIN sessions => sessions[m].ack \in Nat /\ sessions[m].gen \in Nat
        /\ m \in DOMAIN todo => todo[m].ack \in Nat
BY DEF HostTypes

(* Marks are numbers.                                                      *)
LEMMA MarksNat ==
  ASSUME HostTypes, NEW m \in Sessions
  PROVE Marks(m) \subseteq Nat
BY JobTypes DEF Marks

(* A session whose row, log and events stay as they are may lose its job   *)
(* and marks, begin again at 0 or be restored from its row.                *)
LEMMA SessionFrame ==
  ASSUME HostTypes, HostAssumption, NEW m \in Sessions, SessionInv(m),
         m \in DOMAIN row' <=> m \in DOMAIN row, m \in DOMAIN row => row'[m] = row[m],
         log'[m] = log[m], got'[m] = got[m], job'[m] = job[m] \/ job'[m].pc = "idle",
         \A v \in Marks(m)' : v \in Marks(m) \/ v = 0 \/ (m \in DOMAIN row /\ v = row[m].ack),
         m \in DOMAIN sessions' \cup DOMAIN todo' => m \in DOMAIN row,
         job'[m].pc = "sent" => op' = "free" /\ m \in DOMAIN sessions'
  PROVE SessionInv(m)'
<1> USE DEF SessionInv
<1>1. CASE m \notin DOMAIN row
  <2>1. seen'[m] \in Marks(m)'
    BY DEF Marks
  <2> QED BY <1>1, <2>1
<1>2. CASE m \in DOMAIN row
  <2>1. row[m].ack \in Nat /\ Len(log[m]) \in Nat /\ job[m].through \in Nat /\ BatchSize \in Nat
    BY <1>2, JobTypes DEF HostAssumption
  <2>2. \A v : /\ Complete(m, v)' <=> Complete(m, v)
               /\ Reached(m, v)' <=> Reached(m, v)
    BY <1>2 DEF Complete, Reached, ReachedFrom
  <2>3. Complete(m, 0) /\ Reached(m, 0) /\ Reached(m, row[m].ack)
    BY <1>2, <2>1 DEF Complete, Reached, ReachedFrom
  <2>4. \A v \in Marks(m)' : Reached(m, v)' /\ Complete(m, v)'
    BY <1>2, <2>2, <2>3
  <2>5. job'[m].pc # "idle" => JobOk(m)'
    <3> SUFFICES ASSUME job'[m].pc # "idle" PROVE JobOk(m)'
      OBVIOUS
    <3>1. JobOk(m) /\ row'[m] = row[m] /\ job'[m] = job[m]
      BY <1>2
    <3>2. \A v \in Marks(m)' : v <= job'[m].through
      BY <1>2, <2>1, <3>1 DEF JobOk
    <3>3. Reached(m, job[m].through)' /\ (job[m].pc = "ack" => Complete(m, job[m].through)')
      BY <2>2, <3>1 DEF JobOk
    <3> QED BY <3>1, <3>2, <3>3 DEF JobOk
  <2>6. Complete(m, row[m].ack)'
    BY <1>2, <2>2
  <2> QED BY <1>2, <2>4, <2>5, <2>6
<1> QED BY <1>1, <1>2

(* A delivery that is out holds the lock.                                  *)
LEMMA NoneSent ==
  ASSUME HostInv, LockFree \/ op # "free", NEW m \in Sessions
  PROVE job[m].pc # "sent"
BY DEF HostInv, SessionInv, JobOk, LockFree

(* A session with a binding, kept or to be restored, has a row.            *)
LEMMA BoundHasRow ==
  ASSUME HostInv
  PROVE DOMAIN sessions \cup DOMAIN todo \subseteq DOMAIN row
BY DEF HostInv, HostTypes, SessionInv

(* A step that moves bindings and leaves the deliveries alone.             *)
LEMMA LifeFrame ==
  ASSUME HostInv, HostAssumption, UNCHANGED <<row, log, got, job, seen, kept>>,
         sessions' \in [DOMAIN sessions' -> [gen : Nat, ack : Nat]],
         todo' \in [DOMAIN todo' -> [gen : Nat, ack : Nat]],
         LifeTypes', ScopesOwned', LockInv',
         DOMAIN sessions' \cup DOMAIN todo' \subseteq DOMAIN row,
         \A m \in DOMAIN sessions' : sessions'[m].ack \in Marks(m) \cup {row[m].ack},
         \A m \in DOMAIN todo' : todo'[m].ack \in Marks(m),
         \A m \in Sessions : job[m].pc = "sent" => op' = "free" /\ m \in DOMAIN sessions'
  PROVE HostInv'
<1>1. HostTypes'
  BY DEF HostInv, HostTypes
<1>2. ASSUME NEW m \in Sessions PROVE SessionInv(m)'
  <2>1. \A v \in Marks(m)' : v \in Marks(m) \/ (m \in DOMAIN row /\ v = row[m].ack)
    BY DEF Marks
  <2> QED BY <2>1, SessionFrame DEF HostInv
<1> QED BY <1>1, <1>2 DEF HostInv

(* A step that leaves the bindings alone as well.                          *)
LEMMA StatusFrame ==
  ASSUME HostInv, HostAssumption, UNCHANGED <<row, log, got, job, seen, kept, sessions, todo>>,
         LifeTypes', ScopesOwned', LockInv', LockFree \/ op # "free" \/ op' = op
  PROVE HostInv'
<1>1. \A m \in DOMAIN sessions' : sessions'[m].ack \in Marks(m) \cup {row[m].ack}
  BY DEF Marks
<1>2. \A m \in DOMAIN todo' : todo'[m].ack \in Marks(m)
  BY DEF Marks
<1>3. ASSUME NEW m \in Sessions, job[m].pc = "sent" PROVE op' = "free" /\ m \in DOMAIN sessions'
  <2>1. op' = op
    BY <1>3, NoneSent
  <2>2. SessionInv(m) /\ (m \in DOMAIN row => JobOk(m))
    BY <1>3 DEF HostInv, SessionInv
  <2> QED BY <1>3, <2>1, <2>2 DEF SessionInv, JobOk
<1>4. /\ sessions' \in [DOMAIN sessions' -> [gen : Nat, ack : Nat]]
      /\ todo' \in [DOMAIN todo' -> [gen : Nat, ack : Nat]]
  BY DEF HostInv, HostTypes
<1>5. DOMAIN sessions' \cup DOMAIN todo' \subseteq DOMAIN row
  BY BoundHasRow
<1> QED BY <1>1, <1>2, <1>3, <1>4, <1>5, LifeFrame

-----------------------------------------------------------------------------
(* The life of the plugin.                                                 *)

(* Requests, deaths, heartbeats and the ends of launches that failed.      *)
LEMMA StatusKeeps ==
  ASSUME HostInv, HostAssumption,
         \/ EnableRequest \/ EnableUnavailable \/ EnableNothing \/ StartRaises \/ InitializeRaises
         \/ InitializeRefused \/ LaunchDone \/ ProcessDies \/ BackoffEnds \/ Heartbeat
         \/ DisableRequest \/ DisableBegin
  PROVE HostInv'
<1> USE HostAssumption DEF dbVars, reqVars, supVars, lockVars, scopeVars, pluginVars, Fault, BootFails,
        LifeTypes, Flags, Statuses, Live
<1>1. CASE EnableRequest
  BY <1>1, StatusFrame, SMTT(30) DEF EnableRequest, HostInv, ScopesOwned, LockInv
<1>2. CASE EnableUnavailable
  <2>1. LifeTypes'
    <3>1. /\ enabling' = FALSE /\ boot' \in {boot, "up"} /\ faults < MaxFaults /\ faults' = faults + 1
          /\ UNCHANGED <<inst, want, disabling, watched, status, owned, gen, crashes, loose, op, at,
                         sessions, scopes, toggles>>
      BY <1>2 DEF EnableUnavailable
    <3>2. Flags'
      BY <3>1, Zenon DEF HostInv, Flags
    <3> HIDE DEF Flags
    <3> QED BY <3>1, <3>2 DEF HostInv
  <2>2. ScopesOwned'
    BY <1>2 DEF EnableUnavailable, HostInv, ScopesOwned, LockInv
  <2>3. LockInv'
    BY <1>2 DEF EnableUnavailable, HostInv, LockInv
  <2>4. /\ UNCHANGED <<row, log, got, job, seen, kept, sessions, todo>>
        /\ LockFree \/ op # "free" \/ op' = op
    BY <1>2 DEF EnableUnavailable
  <2> QED BY <2>1, <2>2, <2>3, <2>4, StatusFrame
<1>3. CASE EnableNothing
  <2>1. LifeTypes'
    <3>1. /\ enabling' = FALSE /\ want' = TRUE
          /\ UNCHANGED <<inst, boot, disabling, watched, status, owned, gen, crashes, loose, op, at,
                         sessions, scopes, faults, toggles>>
      BY <1>3 DEF EnableNothing
    <3>2. Flags'
      BY <3>1, Zenon DEF HostInv, Flags
    <3> HIDE DEF Flags
    <3> QED BY <3>1, <3>2 DEF HostInv
  <2>2. ScopesOwned'
    BY <1>3 DEF EnableNothing, HostInv, ScopesOwned, LockInv
  <2>3. LockInv'
    BY <1>3 DEF EnableNothing, HostInv, LockInv
  <2>4. /\ UNCHANGED <<row, log, got, job, seen, kept, sessions, todo>>
        /\ LockFree \/ op # "free" \/ op' = op
    BY <1>3 DEF EnableNothing
  <2> QED BY <2>1, <2>2, <2>3, <2>4, StatusFrame
<1>4. CASE StartRaises
  BY <1>4, StatusFrame DEF StartRaises, HostInv, ScopesOwned, LockInv
<1>5. CASE InitializeRaises
  BY <1>5, StatusFrame DEF InitializeRaises, HostInv, ScopesOwned, LockInv
<1>6. CASE InitializeRefused
  BY <1>6, StatusFrame DEF InitializeRefused, HostInv, ScopesOwned, LockInv
<1>7. CASE LaunchDone
  BY <1>7, StatusFrame, NothingBound DEF LaunchDone, HostInv, ScopesOwned, LockInv
<1>8. CASE ProcessDies
  BY <1>8, StatusFrame, SMTT(30) DEF ProcessDies, HostInv, ScopesOwned, LockInv
<1>9. CASE BackoffEnds
  BY <1>9, StatusFrame DEF BackoffEnds, HostInv, ScopesOwned, LockInv
<1>10. CASE Heartbeat
  <2>1. LifeTypes'
    BY <1>10 DEF Heartbeat, HostInv
  <2>2. ScopesOwned'
    BY <1>10 DEF Heartbeat, HostInv, ScopesOwned, LockInv
  <2>3. LockInv'
    BY <1>10 DEF Heartbeat, HostInv, LockInv
  <2>4. /\ UNCHANGED <<row, log, got, job, seen, kept, sessions, todo>>
        /\ LockFree \/ op # "free" \/ op' = op
    BY <1>10 DEF Heartbeat
  <2> QED BY <2>1, <2>2, <2>3, <2>4, StatusFrame
<1>11. CASE DisableRequest
  BY <1>11, StatusFrame, SMTT(30) DEF DisableRequest, HostInv, ScopesOwned, LockInv
<1>12. CASE DisableBegin
  <2>1. LifeTypes'
    BY <1>12, ZenonT(30) DEF DisableBegin, HostInv
  <2>2. ScopesOwned'
    BY <1>12 DEF DisableBegin, HostInv, ScopesOwned, LockInv
  <2>3. LockInv'
    BY <1>12 DEF DisableBegin, HostInv, LockInv, LockFree
  <2>4. /\ UNCHANGED <<row, log, got, job, seen, kept, sessions, todo>>
        /\ LockFree \/ op # "free" \/ op' = op
    BY <1>12 DEF DisableBegin
  <2> QED BY <2>1, <2>2, <2>3, <2>4, StatusFrame
<1> QED BY <1>1, <1>2, <1>3, <1>4, <1>5, <1>6, <1>7, <1>8, <1>9, <1>10, <1>11, <1>12

(* session.open goes out: its scope is the only one without a binding.     *)
LEMMA OpeningKeeps ==
  ASSUME HostInv, HostAssumption, NEW m \in Sessions, RestoreNext(m) \/ OpenSession(m)
  PROVE HostInv'
<1> USE HostAssumption DEF dbVars, reqVars, supVars, lockVars, pluginVars
<1>1. /\ UNCHANGED <<row, log, got, job, seen, kept, sessions, todo, inst, boot, enabling, disabling,
                      want, watched, status, owned, gen, crashes, loose, faults, toggles>>
      /\ LockFree \/ op # "free"
      /\ at' = m
      /\ scopes' = scopes \cup {<<m, gen>>} /\ hostScopes' = hostScopes \cup {<<m, gen>>}
      /\ \/ op = "restore" /\ op' = "restore" /\ m \in DOMAIN todo
         \/ op = "free" /\ op' = "open" /\ status \in Live
      /\ at = NoSession /\ m \notin DOMAIN sessions /\ owned # "none"
  BY DEF RestoreNext, OpenSession, Opening, LockFree, Bound, HostInv, LockInv, ScopesOwned
<1>2. LifeTypes'
  <2>1. Flags'
    BY <1>1 DEF HostInv, LifeTypes, Flags
  <2> QED BY <1>1, <2>1 DEF HostInv, LifeTypes
<1>3. ScopesOwned'
  BY <1>1 DEF HostInv, ScopesOwned, LifeTypes
<1>4. LockInv'
  BY <1>1 DEF HostInv, LockInv
<1> QED BY <1>1, <1>2, <1>3, <1>4, StatusFrame

(* The scopes of a process without a session.open are those of its         *)
(* bindings: _invalidate_scopes withdraws them all.                        *)
LEMMA AllInvalidated ==
  ASSUME HostInv, at = NoSession
  PROVE Invalidated(hostScopes) = {} /\ Invalidated(hostScopes) \subseteq Invalidated(scopes)
BY DEF HostInv, ScopesOwned, Invalidated, Bound

(* A crash and a disable leave no process and no scope.                    *)
LEMMA StoppedKeeps ==
  ASSUME HostInv, HostAssumption, CrashHandled \/ DisableEnd
  PROVE HostInv'
<1> USE HostAssumption DEF dbVars, reqVars, supVars, lockVars, pluginVars
<1>1. /\ UNCHANGED <<row, log, got, job, seen, kept, sessions, todo, boot, enabling,
                      want, gen, loose, faults, toggles, at>>
      /\ inst' = inst \/ inst' = "disabled"
      /\ disabling' = disabling \/ disabling' = FALSE
      /\ crashes' = crashes \/ (\E n \in 1..(crashes + 1) : crashes' = n)
      /\ at = NoSession /\ owned' = "none" /\ watched' = FALSE
      /\ scopes' = Invalidated(scopes) /\ hostScopes' = Invalidated(hostScopes)
      /\ \/ op = "free" /\ LockFree /\ op' = "free" /\ status' = "quarantined"
         \/ op = "free" /\ LockFree /\ op' = "backoff" /\ status' = "crashed"
         \/ op = "stop" /\ op' = "free" /\ status' = "disabled"
  BY DEF CrashHandled, DisableEnd, LockFree, HostInv, LockInv
<1>2. hostScopes' = {} /\ scopes' \subseteq scopes
  BY <1>1, AllInvalidated DEF Invalidated
<1>3. LifeTypes'
  <2>1. Flags'
    BY <1>1, Zenon DEF HostInv, LifeTypes, Flags
  <2> QED BY <1>1, <1>2, <2>1 DEF HostInv, LifeTypes, Statuses, Live
<1>4. ScopesOwned'
  BY <1>1, <1>2 DEF HostInv, ScopesOwned
<1>5. LockInv'
  BY <1>1 DEF HostInv, LockInv, Live
<1>6. LockFree \/ op # "free" \/ op' = op
  BY <1>1
<1> QED BY <1>1, <1>3, <1>4, <1>5, <1>6, StatusFrame

(* The first launch of a Host process takes the bindings from their rows.  *)
LEMMA LaunchKeeps ==
  ASSUME HostInv, HostAssumption, EnableLaunch
  PROVE HostInv'
<1> USE HostAssumption DEF dbVars, pluginVars
<1>1. /\ UNCHANGED <<row, log, got, job, seen, kept, inst, boot, disabling, toggles, gen, crashes,
                      owned, loose, watched, at, todo, scopes, hostScopes, faults>>
      /\ enabling' = FALSE /\ want' = TRUE /\ sessions' = Loaded /\ status' = "starting" /\ op' = "start"
      /\ LockFree /\ op = "free" /\ owned = "none"
  BY DEF EnableLaunch, LockFree
<1>2. /\ at = NoSession /\ DOMAIN todo = {} /\ ~watched /\ hostScopes = {}
  BY <1>1 DEF HostInv, LockInv, ScopesOwned
<1>3. /\ sessions' \in [DOMAIN sessions' -> [gen : Nat, ack : Nat]]
      /\ DOMAIN sessions' \subseteq DOMAIN row
      /\ \A m \in DOMAIN sessions' : sessions'[m].gen \in 0..gen
      /\ \A m \in DOMAIN sessions' : sessions'[m].ack \in Marks(m) \cup {row[m].ack}
  <2>1. CASE sessions' = sessions
    BY <2>1, BoundHasRow DEF HostInv, HostTypes, LifeTypes, Marks
  <2>2. CASE sessions' = [m \in DOMAIN row |-> [gen |-> 0, ack |-> row[m].ack]]
    <3>1. DOMAIN sessions' = DOMAIN row
      BY <2>2
    <3>2. \A m \in DOMAIN row : sessions'[m] = [gen |-> 0, ack |-> row[m].ack] /\ row[m].ack \in Nat
      BY <2>2, JobTypes DEF HostInv, HostTypes
    <3> QED BY <2>2, <3>1, <3>2 DEF HostInv, LifeTypes
  <2> QED BY <1>1, <2>1, <2>2 DEF Loaded, Bound
<1>4. LifeTypes'
  <2>1. Flags'
    BY <1>1, Zenon DEF HostInv, LifeTypes, Flags
  <2> QED BY <1>1, <1>3, <2>1 DEF HostInv, LifeTypes, Statuses
<1>5. ScopesOwned'
  BY <1>1, <1>2, <1>3 DEF HostInv, ScopesOwned, HostTypes
<1>6. LockInv'
  BY <1>1, <1>2 DEF HostInv, LockInv, Live
<1>7. todo' \in [DOMAIN todo' -> [gen : Nat, ack : Nat]] /\ DOMAIN todo' = {}
  BY <1>1, <1>2 DEF HostInv, HostTypes
<1>8. \A m \in Sessions : job[m].pc # "sent"
  BY <1>1, NoneSent
<1> QED BY <1>1, <1>3, <1>4, <1>5, <1>6, <1>7, <1>8, LifeFrame

(* A new process: all bindings are to be opened again.                     *)
LEMMA StartKeeps ==
  ASSUME HostInv, HostAssumption, StartOk
  PROVE HostInv'
<1> USE HostAssumption DEF dbVars, reqVars, pluginVars
<1>1. /\ UNCHANGED <<row, log, got, job, seen, kept, inst, boot, enabling, disabling, toggles, status,
                      want, crashes, loose, watched, at, scopes, faults>>
      /\ owned' = "up" /\ gen' = gen + 1 /\ hostScopes' = {} /\ todo' = sessions
      /\ sessions' = NoneBound /\ op = "start" /\ op' = "restore"
  BY DEF StartOk
<1>2. DOMAIN sessions' = {} /\ sessions' \in [DOMAIN sessions' -> [gen : Nat, ack : Nat]]
  BY <1>1, NothingBound
<1>3. LifeTypes'
  <2>1. Flags'
    BY <1>1 DEF HostInv, LifeTypes, Flags
  <2>2. scopes' \subseteq Sessions \X (0..gen')
    BY <1>1 DEF HostInv, LifeTypes
  <2> QED BY <1>1, <1>2, <2>1, <2>2 DEF HostInv, LifeTypes
<1>4. at = NoSession
  BY <1>1 DEF HostInv, LockInv
<1>5. ScopesOwned'
  BY <1>1, <1>2, <1>4 DEF HostInv, ScopesOwned
<1>6. LockInv'
  BY <1>1, <1>2, <1>4 DEF HostInv, LockInv, Live
<1>7. /\ todo' \in [DOMAIN todo' -> [gen : Nat, ack : Nat]] /\ DOMAIN todo' \subseteq DOMAIN row
      /\ \A m \in DOMAIN todo' : todo'[m].ack \in Marks(m)
  BY <1>1, BoundHasRow DEF HostInv, HostTypes, Marks
<1>8. \A m \in Sessions : job[m].pc # "sent"
  BY <1>1, NoneSent
<1> QED BY <1>1, <1>2, <1>3, <1>5, <1>6, <1>7, <1>8, LifeFrame

(* session.open fails: its scope goes, the bindings stay.                  *)
LEMMA OpenFailureKeeps ==
  ASSUME HostInv, HostAssumption, OpenFails
  PROVE HostInv'
<1> USE HostAssumption DEF dbVars, supVars, pluginVars
<1>1. /\ UNCHANGED <<row, log, got, job, seen, kept, inst, enabling, disabling, toggles, status, gen,
                      want, crashes, owned, loose, watched, sessions>>
      /\ boot' \in {boot, "failed"}
      /\ faults' = faults \/ (faults < MaxFaults /\ faults' = faults + 1)
      /\ scopes' = scopes \ {<<at, gen>>} /\ hostScopes' = hostScopes \ {<<at, gen>>}
      /\ todo' = NoneBound /\ op' = "free" /\ at' = NoSession /\ at # NoSession
  BY DEF OpenFails, Fault, BootFails
<1>2. DOMAIN todo' = {} /\ todo' \in [DOMAIN todo' -> [gen : Nat, ack : Nat]]
  BY <1>1, NothingBound
<1>3. op \in {"restore", "open"} /\ owned # "none"
  BY <1>1 DEF HostInv, LockInv, LifeTypes
<1>4. LifeTypes'
  <2>1. Flags'
    BY <1>1 DEF HostInv, LifeTypes, Flags
  <2> QED BY <1>1, <2>1 DEF HostInv, LifeTypes
<1>5. NoSession \notin DOMAIN sessions
  BY DEF HostInv, HostTypes
<1>6. hostScopes' = {<<m, gen>> : m \in DOMAIN sessions}
  BY <1>1, <1>3 DEF HostInv, ScopesOwned
<1>7. ScopesOwned'
  BY <1>1, <1>3, <1>5, <1>6 DEF HostInv, ScopesOwned
<1>8. LockInv'
  BY <1>1, <1>2, <1>3 DEF HostInv, LockInv, Live
<1>9. /\ sessions' \in [DOMAIN sessions' -> [gen : Nat, ack : Nat]] /\ DOMAIN sessions' \subseteq DOMAIN row
      /\ \A m \in DOMAIN sessions' : sessions'[m].ack \in Marks(m)
  BY <1>1, BoundHasRow DEF HostInv, HostTypes, Marks
<1>10. \A m \in Sessions : job[m].pc # "sent"
  BY <1>3, NoneSent
<1> QED BY <1>1, <1>2, <1>4, <1>7, <1>8, <1>9, <1>10, LifeFrame

(* session.open is answered: a binding, with a row if it had none, begins  *)
(* at 0 or goes on where memory had it.                                    *)
LEMMA OpenedKeeps ==
  ASSUME HostInv, HostAssumption, Opened
  PROVE HostInv'
<1> USE HostAssumption
<1>1. /\ UNCHANGED <<inst, log, boot, enabling, disabling, toggles, status, gen, want, crashes, owned,
                      loose, watched, scopes, hostScopes, kept, got, job, faults>>
      /\ at # NoSession /\ at' = NoSession /\ owned = "up"
      /\ op' = IF op = "open" THEN "free" ELSE op
  BY DEF Opened, reqVars, supVars
<1>2. op \in {"restore", "open"} /\ at \in Sessions /\ at \notin DOMAIN sessions
  BY <1>1 DEF HostInv, LockInv, LifeTypes, ScopesOwned
<1>3. /\ op = "restore" => at \in DOMAIN todo /\ DOMAIN todo \cap DOMAIN sessions = {}
      /\ op = "open" => DOMAIN todo = {}
  BY <1>1, <1>2 DEF HostInv, LockInv
<1>4. HostTypes
  BY DEF HostInv
<1>5. After \in Nat /\ (After = 0 \/ (op = "restore" /\ After = todo[at].ack /\ After \in Marks(at)))
  BY <1>2, <1>3, <1>4, JobTypes DEF After, Marks
<1>6. PICK n : n \in Resumes(at) /\ seen' = [seen EXCEPT ![at] = n]
  BY DEF Opened
<1>7. n \in {After, kept[at]} /\ n \in Nat /\ kept[at] \in Marks(at)
  <2>1. kept[at] \in Nat
    BY <1>2, <1>4, JobTypes
  <2> QED BY <1>5, <1>6, <2>1, MaxPair DEF Resumes, Marks
<1>8. /\ DOMAIN sessions' = DOMAIN sessions \cup {at} /\ sessions'[at] = [gen |-> gen, ack |-> After]
      /\ \A m \in DOMAIN sessions : sessions'[m] = sessions[m]
      /\ sessions' \in [DOMAIN sessions' -> [gen : Nat, ack : Nat]]
  <2>1. sessions' = [m \in DOMAIN sessions \cup {at} |->
                       IF m = at THEN [gen |-> gen, ack |-> After] ELSE sessions[m]]
    BY DEF Opened, Bind, Bound
  <2>2. gen \in Nat
    BY DEF HostInv, LifeTypes
  <2> QED BY <1>2, <1>4, <1>5, <2>1, <2>2 DEF HostTypes
<1>9. /\ DOMAIN row' = DOMAIN row \cup {at} /\ \A m \in DOMAIN row : row'[m] = row[m]
      /\ at \notin DOMAIN row => row'[at] = [delivered |-> 0, ack |-> 0]
      /\ row' \in [DOMAIN row' -> [delivered : Nat, ack : Nat]]
  <2>1. CASE at \in DOMAIN row
    <3>1. row' = row /\ DOMAIN row \cup {at} = DOMAIN row
      BY <2>1 DEF Opened, Bound
    <3> QED BY <1>4, <2>1, <3>1 DEF HostTypes
  <2>2. CASE at \notin DOMAIN row
    <3>1. row' = [m \in DOMAIN row \cup {at} |-> IF m = at THEN [delivered |-> 0, ack |-> 0] ELSE row[m]]
      BY <2>2 DEF Opened, Bind, Bound
    <3> QED BY <1>4, <2>2, <3>1 DEF HostTypes
  <2> QED BY <2>1, <2>2
<1>10. /\ DOMAIN todo' = DOMAIN todo \ {at} /\ \A m \in DOMAIN todo' : todo'[m] = todo[m]
       /\ todo' \in [DOMAIN todo' -> [gen : Nat, ack : Nat]]
  BY <1>4 DEF Opened, Restrict, Bound, HostTypes
<1>11. HostTypes'
  BY <1>1, <1>2, <1>4, <1>6, <1>7, <1>8, <1>9, <1>10 DEF HostTypes
<1>12. LifeTypes'
  <2>1. Flags'
    BY <1>1 DEF HostInv, LifeTypes, Flags
  <2>2. \A m \in DOMAIN sessions' : sessions'[m].gen \in 0..gen'
    BY <1>1, <1>8 DEF HostInv, LifeTypes
  <2>3. op' \in {"free", "restore"}
    BY <1>1, <1>2
  <2> QED BY <1>1, <2>1, <2>2, <2>3 DEF HostInv, LifeTypes
<1>13. ScopesOwned'
  <2>1. \A m \in DOMAIN sessions' : sessions'[m].gen = gen
    BY <1>1, <1>8 DEF HostInv, ScopesOwned
  <2>2. DOMAIN sessions' = DOMAIN sessions' \cup ({at'} \ {NoSession})
    BY <1>1
  <2>3. NoSession \notin DOMAIN sessions'
    BY <1>1, <1>4, <1>8 DEF HostTypes
  <2>4. hostScopes = {<<m, gen>> : m \in DOMAIN sessions'}
    BY <1>1, <1>8 DEF HostInv, ScopesOwned
  <2> QED BY <1>1, <2>1, <2>2, <2>3, <2>4 DEF HostInv, ScopesOwned
<1>14. LockInv'
  BY <1>1, <1>2, <1>3, <1>8, <1>10 DEF HostInv, LockInv, Live
<1>15. ASSUME NEW m \in Sessions PROVE SessionInv(m)'
  <2>1. job[m].pc # "sent"
    BY <1>2, NoneSent
  <2>2. SessionInv(m)
    BY DEF HostInv
  <2>3. CASE m # at
    <3>1. /\ m \in DOMAIN row' <=> m \in DOMAIN row
          /\ m \in DOMAIN sessions' <=> m \in DOMAIN sessions
          /\ m \in DOMAIN todo' <=> m \in DOMAIN todo
      BY <1>8, <1>9, <1>10, <2>3
    <3>2. Marks(m)' = Marks(m)
      BY <1>1, <1>4, <1>6, <1>8, <1>10, <2>3, <3>1 DEF Marks, HostTypes
    <3>3. m \in DOMAIN sessions' \cup DOMAIN todo' => m \in DOMAIN row
      BY <3>1, BoundHasRow
    <3> QED BY <1>1, <1>4, <1>9, <2>1, <2>2, <3>1, <3>2, <3>3, SessionFrame
  <2>4. CASE m = at
    <3>1. \A v \in Marks(m)' : v \in Marks(m) \/ v = 0
      BY <1>1, <1>2, <1>4, <1>5, <1>6, <1>7, <1>8, <1>10, <2>4 DEF Marks, HostTypes
    <3>2. CASE at \in DOMAIN row
      BY <1>1, <1>4, <1>9, <2>1, <2>2, <2>4, <3>1, <3>2, SessionFrame
    <3>3. CASE at \notin DOMAIN row
      <4>1. Marks(m) = {0} /\ job[m].pc = "idle"
        BY <2>2, <2>4, <3>3 DEF SessionInv
      <4>2. \A v \in Marks(m)' : v = 0
        BY <3>1, <4>1
      <4>3. m \in DOMAIN row' /\ row'[m].ack = 0 /\ row'[m].delivered = 0
        BY <1>9, <2>4, <3>3
      <4>4. Len(log[m]) \in Nat /\ log'[m] = log[m]
        BY <1>1, <1>4, JobTypes
      <4>5. Complete(m, 0)' /\ Reached(m, 0)'
        BY <4>3, <4>4 DEF Complete, Reached, ReachedFrom
      <4> QED BY <1>1, <2>2, <4>1, <4>2, <4>3, <4>4, <4>5 DEF SessionInv
    <3> QED BY <3>2, <3>3
  <2> QED BY <2>3, <2>4
<1> QED BY <1>11, <1>12, <1>13, <1>14, <1>15 DEF HostInv

(* The Host starts again: rows, logs and the plugin's state are left.      *)
LEMMA RestartKeeps ==
  ASSUME HostInv, HostAssumption, HostRestart
  PROVE HostInv'
<1> USE HostAssumption
<1>1. /\ UNCHANGED <<inst, row, log, toggles, seen, kept, got>>
      /\ boot' \in {"booting", "up"} /\ faults < MaxFaults /\ faults' = faults + 1
      /\ status' = "disabled" /\ gen' = 0 /\ crashes' = 0 /\ owned' = "none" /\ loose' = 0
      /\ op' = "free" /\ at' = NoSession /\ sessions' = NoneBound /\ todo' = NoneBound
      /\ scopes' = {} /\ hostScopes' = {} /\ job' = [m \in Sessions |-> NoJob]
  BY DEF HostRestart, Fault, dbVars, pluginVars
<1>2. enabling' = (inst = "enabled") /\ disabling' = FALSE /\ want' = TRUE /\ watched' = FALSE
  BY DEF HostRestart
<1>3. /\ DOMAIN sessions' = {} /\ sessions' \in [DOMAIN sessions' -> [gen : Nat, ack : Nat]]
      /\ DOMAIN todo' = {} /\ todo' \in [DOMAIN todo' -> [gen : Nat, ack : Nat]]
  BY <1>1, NothingBound
<1>4. HostTypes'
  BY <1>1, <1>3 DEF HostInv, HostTypes, NoJob
<1>5. LifeTypes'
  <2>1. enabling' \in BOOLEAN
    BY <1>2
  <2>2. Flags'
    BY <1>2, <2>1, Zenon DEF Flags
  <2> QED BY <1>1, <1>3, <2>2 DEF HostInv, LifeTypes, Statuses
<1>6. ScopesOwned' /\ LockInv'
  BY <1>1, <1>2, <1>3 DEF ScopesOwned, LockInv, Live
<1>7. ASSUME NEW m \in Sessions PROVE SessionInv(m)'
  <2>1. job'[m].pc = "idle"
    BY <1>1 DEF NoJob
  <2>2. \A v \in Marks(m)' : v \in Marks(m)
    BY <1>1, <1>3 DEF Marks
  <2> QED BY <1>1, <1>3, <2>1, <2>2, SessionFrame DEF HostInv
<1> QED BY <1>4, <1>5, <1>6, <1>7 DEF HostInv

-----------------------------------------------------------------------------
(* Deliveries.                                                             *)

(* A delivery to m changes nothing of the other sessions, and of the life  *)
(* of the plugin only what _scope_index says.                              *)
LEMMA DeliveryFrame ==
  ASSUME HostInv, HostAssumption, NEW m \in Sessions, HostTypes', SessionInv(m)',
         UNCHANGED <<inst, boot, enabling, disabling, toggles, status, gen, want, crashes, owned, loose,
                     watched, op, at, todo, hostScopes>>,
         faults' \in 0..MaxFaults,
         DOMAIN sessions' = DOMAIN sessions, \A n \in DOMAIN sessions : sessions'[n].gen = sessions[n].gen,
         \A n \in DOMAIN sessions \ {m} : sessions'[n] = sessions[n],
         scopes \subseteq scopes', scopes' \subseteq Sessions \X (0..gen),
         \A n \in Sessions \ {m} : /\ log'[n] = log[n] /\ got'[n] = got[n] /\ job'[n] = job[n]
                                    /\ seen'[n] = seen[n] /\ kept'[n] = kept[n],
         DOMAIN row' = DOMAIN row, \A n \in DOMAIN row \ {m} : row'[n] = row[n]
  PROVE HostInv'
<1>1. LifeTypes'
  <2>1. Flags'
    BY DEF HostInv, LifeTypes, Flags
  <2> QED BY <2>1 DEF HostInv, LifeTypes
<1>2. ScopesOwned'
  BY DEF HostInv, ScopesOwned
<1>3. LockInv'
  BY DEF HostInv, LockInv
<1>4. ASSUME NEW n \in Sessions \ {m} PROVE SessionInv(n)'
  <2>1. Marks(n)' = Marks(n)
    BY DEF Marks
  <2>2. n \in DOMAIN sessions' \cup DOMAIN todo' => n \in DOMAIN row
    BY BoundHasRow
  <2>3. job[n].pc = "sent" => op = "free" /\ n \in DOMAIN sessions
    BY DEF HostInv, SessionInv, JobOk
  <2> QED BY <2>1, <2>2, <2>3, SessionFrame DEF HostInv
<1> QED BY <1>1, <1>2, <1>3, <1>4 DEF HostInv

(* What a round reads from cursor c: the subscribed events up to the last  *)
(* one of them, or everything when none is subscribed.  It reaches         *)
(* whatever a batch from c reaches.                                        *)
LEMMA RoundReads ==
  ASSUME HostTypes, HostAssumption, NEW m \in Sessions, NEW c \in Nat, Raw(m, c) # {}
  PROVE LET t == Through(m, Raw(m, c))
            e == Subscribed(m, Raw(m, c))
        IN /\ t \in Nat /\ c < t /\ t <= Len(log[m]) /\ ReachedFrom(m, c, t)
           /\ e = {i \in (c + 1)..t : log[m][i]} /\ (e # {} => t \in e)
           /\ \A v \in Nat : ReachedFrom(m, c, v) => v <= t
<1> DEFINE raw == Raw(m, c)
           e == Subscribed(m, raw)
           t == Through(m, raw)
           L == Len(log[m])
<1>1. L \in Nat /\ BatchSize \in Nat
  BY JobTypes DEF HostAssumption
<1>2. raw = {i \in (c + 1)..(c + BatchSize) : i <= L}
  BY DEF Raw
<1>3. e = {i \in raw : log[m][i]}
  BY DEF Subscribed
<1>4. raw \in SUBSET (0..(c + BatchSize)) /\ e \in SUBSET (0..(c + BatchSize)) /\ c + BatchSize \in Nat
  BY <1>1, <1>2, <1>3
<1>5. t = Max(IF e # {} THEN e ELSE raw)
  BY DEF Through
<1> HIDE DEF raw, e, t, L
<1>6. /\ e # {} => t \in e /\ \A y \in e : y <= t
      /\ e = {} => t \in raw /\ \A y \in raw : y <= t
  BY <1>4, <1>5, MaxExists DEF raw
<1>7. t \in raw /\ t \in Nat /\ c < t /\ t <= L /\ t <= c + BatchSize
  BY <1>1, <1>2, <1>3, <1>6
<1>8. e = {i \in (c + 1)..t : log[m][i]}
  <2>1. \A i \in e : i \in (c + 1)..t /\ log[m][i]
    BY <1>1, <1>2, <1>3, <1>6, <1>7
  <2>2. \A i \in (c + 1)..t : i \in raw
    BY <1>1, <1>2, <1>7
  <2> QED BY <1>3, <2>1, <2>2
<1>9. CASE e # {}
  <2>1. log[m][t] /\ t \in t..(c + BatchSize)
    BY <1>1, <1>3, <1>6, <1>7, <1>9
  <2>2. ReachedFrom(m, c, t)
    BY <1>7, <2>1 DEF ReachedFrom, L
  <2>3. ASSUME NEW v \in Nat, ReachedFrom(m, c, v) PROVE v <= t
    <3>1. CASE v <= c
      BY <1>7, <3>1
    <3>2. CASE \E i \in v..(c + BatchSize) : i <= L /\ log[m][i]
      <4>1. PICK i \in v..(c + BatchSize) : i <= L /\ log[m][i]
        BY <3>2
      <4>2. CASE i > c
        <5>1. i \in e
          BY <1>1, <1>2, <1>3, <4>1, <4>2
        <5> QED BY <1>1, <1>6, <1>7, <1>9, <4>1, <5>1
      <4>3. CASE ~(i > c)
        BY <1>1, <1>7, <4>1, <4>3
      <4> QED BY <4>2, <4>3
    <3>3. CASE \A i \in (c + 1)..(c + BatchSize) : i <= L => ~log[m][i]
      BY <1>2, <1>3, <1>9, <3>3
    <3> QED BY <2>3, <3>1, <3>2, <3>3 DEF ReachedFrom, L
  <2> QED BY <1>6, <1>7, <1>8, <1>9, <2>2, <2>3 DEF t, e, raw, L
<1>10. CASE e = {}
  <2>1. \A i \in (c + 1)..(c + BatchSize) : i <= L => ~log[m][i]
    BY <1>2, <1>3, <1>10
  <2>2. ReachedFrom(m, c, t)
    BY <1>7, <2>1 DEF ReachedFrom, L
  <2>3. ASSUME NEW v \in Nat, ReachedFrom(m, c, v) PROVE v <= t
    <3>1. CASE v <= c
      BY <1>7, <3>1
    <3>2. CASE v > c /\ v <= L /\ v <= c + BatchSize
      <4>1. v \in raw
        BY <1>1, <1>2, <3>2
      <4> QED BY <1>6, <1>10, <4>1
    <3> QED BY <1>1, <2>3, <3>1, <3>2 DEF ReachedFrom, L
  <2> QED BY <1>6, <1>7, <1>8, <1>10, <2>2, <2>3 DEF t, e, raw, L
<1> QED BY <1>9, <1>10

(* A round has begun from cursor c: whatever was reached from c is within  *)
(* the batch.                                                              *)
LEMMA RoundBegins ==
  ASSUME HostInv, HostAssumption, NEW m \in Sessions, m \in DOMAIN row, NEW c \in Nat, Raw(m, c) # {},
         NEW fore \in BOOLEAN, job'[m] = Round(m, c, fore),
         UNCHANGED <<log, got, seen, kept, sessions, todo>>,
         m \in DOMAIN row', row'[m].ack = c, Complete(m, c),
         c <= row'[m].delivered, row'[m].delivered <= Len(log[m]),
         Through(m, Raw(m, c)) <= row'[m].delivered,
         \A v \in Marks(m) : ReachedFrom(m, c, v)
  PROVE SessionInv(m)' /\ job'[m] \in [pc : {"idle", "send", "sent", "ack"}, fore : BOOLEAN,
                                       events : SUBSET Nat, through : Nat, more : BOOLEAN]
<1> DEFINE t == Through(m, Raw(m, c))
           e == Subscribed(m, Raw(m, c))
           more == t < Max(Raw(m, c)) \/ Cardinality(Raw(m, c)) = BatchSize
<1>1. HostTypes /\ SessionInv(m)
  BY DEF HostInv
<1>2. /\ t \in Nat /\ c < t /\ t <= Len(log[m]) /\ ReachedFrom(m, c, t)
      /\ e = {i \in (c + 1)..t : log[m][i]} /\ (e # {} => t \in e)
      /\ \A v \in Nat : ReachedFrom(m, c, v) => v <= t
  BY <1>1, RoundReads
<1>3. job'[m] = [pc |-> "send", fore |-> fore, events |-> e, through |-> t, more |-> more]
  BY DEF Round
<1>4. more \in BOOLEAN
  BY Zenon
<1> HIDE DEF t, e, more
<1>5. e \subseteq Nat
  BY <1>2
<1>6. Marks(m) \subseteq Nat /\ Marks(m)' = Marks(m)
  BY <1>1, MarksNat DEF Marks
<1>7. /\ \A v : Complete(m, v)' <=> Complete(m, v)
      /\ \A v : Reached(m, v)' <=> ReachedFrom(m, c, v)
  BY DEF Complete, Reached, ReachedFrom
<1>8. JobOk(m)'
  BY <1>2, <1>3, <1>6, <1>7 DEF JobOk, t
<1>9. \A v \in Marks(m)' : Reached(m, v)' /\ Complete(m, v)'
  BY <1>1, <1>6, <1>7 DEF SessionInv
<1>10. SessionInv(m)'
  BY <1>1, <1>7, <1>8, <1>9 DEF SessionInv
<1> QED BY <1>3, <1>4, <1>5, <1>2, <1>10

(* The log of a session grows: what was within reach stays so.             *)
LEMMA NewEventKeeps ==
  ASSUME HostInv, HostAssumption, NEW m \in Sessions, NEW sub \in BOOLEAN, NewEvent(m, sub)
  PROVE HostInv'
<1> USE HostAssumption
<1>1. /\ UNCHANGED <<inst, boot, enabling, disabling, toggles, status, gen, want, crashes, owned, loose,
                      watched, op, at, todo, hostScopes, sessions, scopes, seen, kept, got, job, faults, row>>
      /\ log' = [log EXCEPT ![m] = Append(@, sub)] /\ Len(log[m]) < MaxEvents[m]
  BY DEF NewEvent, reqVars, supVars, lockVars, scopeVars, pluginVars
<1>2. HostTypes /\ SessionInv(m)
  BY DEF HostInv
<1>3. /\ log[m] \in Seq(BOOLEAN) /\ log'[m] = Append(log[m], sub)
      /\ \A n \in Sessions \ {m} : log'[n] = log[n]
      /\ log' \in [Sessions -> Seq(BOOLEAN)] /\ MaxEvents[m] \in Nat
  BY <1>1, <1>2 DEF HostTypes, HostAssumption
<1>4. Len(log[m]) \in Nat /\ Len(log'[m]) = Len(log[m]) + 1 /\ \A i \in 1..Len(log[m]) : log'[m][i] = log[m][i]
  BY <1>3
<1>5. HostTypes'
  BY <1>1, <1>2, <1>3 DEF HostTypes
<1>6. Marks(m)' = Marks(m)
  BY <1>1 DEF Marks
<1>7. \A v \in Nat : Complete(m, v) => Complete(m, v)'
  BY <1>1, <1>4 DEF Complete
<1>8. ASSUME NEW v \in Nat, m \in DOMAIN row, Reached(m, v) PROVE Reached(m, v)'
  <2> DEFINE c == row[m].ack
  <2>1. c \in Nat /\ BatchSize \in Nat /\ row' = row
    BY <1>1, <1>2, <1>8, JobTypes DEF HostAssumption
  <2> HIDE DEF c
  <2>2. CASE v <= c
    BY <2>1, <2>2 DEF Reached, ReachedFrom, c
  <2>3. CASE v <= Len(log[m]) /\ v <= c + BatchSize /\ \E i \in v..(c + BatchSize) : i <= Len(log[m]) /\ log[m][i]
    <3>1. CASE v = 0
      BY <2>1, <3>1 DEF Reached, ReachedFrom, c
    <3>2. CASE v > 0
      <4>1. PICK i \in v..(c + BatchSize) : i <= Len(log[m]) /\ log[m][i]
        BY <2>3
      <4>2. i <= Len(log'[m]) /\ log'[m][i]
        BY <1>4, <3>2, <4>1, SMTT(30)
      <4>3. v <= Len(log'[m]) /\ v <= c + BatchSize
        BY <1>4, <2>3
      <4>4. \E j \in v..(c + BatchSize) : j <= Len(log'[m]) /\ log'[m][j]
        BY <4>1, <4>2
      <4> QED BY <2>1, <4>3, <4>4 DEF Reached, ReachedFrom, c
    <3> QED BY <3>1, <3>2
  <2>4. CASE /\ v <= Len(log[m]) /\ v <= c + BatchSize
             /\ \A i \in (c + 1)..(c + BatchSize) : i <= Len(log[m]) => ~log[m][i]
    <3>1. CASE Len(log[m]) + 1 <= c + BatchSize /\ log'[m][Len(log[m]) + 1]
      <4>1. Len(log[m]) + 1 \in v..(c + BatchSize)
        BY <1>4, <2>1, <2>4, <3>1
      <4> QED BY <1>4, <2>1, <2>4, <3>1, <4>1, SMTT(30) DEF Reached, ReachedFrom, c
    <3>2. CASE ~(Len(log[m]) + 1 <= c + BatchSize /\ log'[m][Len(log[m]) + 1])
      <4>1. \A i \in (c + 1)..(c + BatchSize) : i <= Len(log'[m]) => ~log'[m][i]
        <5> SUFFICES ASSUME NEW i \in (c + 1)..(c + BatchSize), i <= Len(log'[m]) PROVE ~log'[m][i]
          OBVIOUS
        <5>1. CASE i <= Len(log[m])
          <6>1. i \in 1..Len(log[m])
            BY <1>4, <2>1, <5>1
          <6> QED BY <1>4, <2>4, <5>1, <6>1
        <5>2. CASE ~(i <= Len(log[m]))
          <6>1. i = Len(log[m]) + 1
            BY <1>4, <2>1, <5>2
          <6> QED BY <2>1, <3>2, <6>1
        <5> QED BY <5>1, <5>2
      <4> QED BY <1>4, <2>1, <2>4, <4>1 DEF Reached, ReachedFrom, c
    <3> QED BY <3>1, <3>2
  <2> QED BY <1>8, <2>2, <2>3, <2>4 DEF Reached, ReachedFrom, c
<1>9. SessionInv(m)'
  <2>1. got'[m] \subseteq 1..Len(log'[m]) /\ Len(log'[m]) <= MaxEvents[m]
    BY <1>1, <1>2, <1>3, <1>4 DEF SessionInv
  <2>2. CASE m \notin DOMAIN row
    BY <1>1, <1>2, <1>6, <2>1, <2>2 DEF SessionInv
  <2>3. CASE m \in DOMAIN row
    <3>1. row[m].ack \in Nat /\ row[m].delivered \in Nat /\ job[m].through \in Nat /\ Marks(m) \subseteq Nat
      BY <1>2, <2>3, JobTypes, MarksNat
    <3>2. row'[m].delivered <= Len(log'[m]) /\ Complete(m, row[m].ack)'
      BY <1>1, <1>2, <1>4, <1>7, <2>3, <3>1 DEF SessionInv
    <3>3. \A v \in Marks(m)' : Reached(m, v)' /\ Complete(m, v)'
      BY <1>2, <1>6, <1>7, <1>8, <2>3, <3>1 DEF SessionInv
    <3>4. ASSUME job[m].pc # "idle" PROVE JobOk(m)'
      <4>1. JobOk(m) /\ job[m].through <= Len(log[m])
        BY <1>2, <1>4, <2>3, <3>1, <3>4 DEF SessionInv, JobOk
      <4>2. Reached(m, job[m].through)' /\ (job[m].pc = "ack" => Complete(m, job[m].through)')
        BY <1>1, <1>7, <1>8, <2>3, <3>1, <4>1 DEF JobOk
      <4>3. {i \in (row[m].ack + 1)..job[m].through : log'[m][i]}
              = {i \in (row[m].ack + 1)..job[m].through : log[m][i]}
        <5>1. \A i \in (row[m].ack + 1)..job[m].through : i \in 1..Len(log[m])
          BY <1>4, <3>1, <4>1, SMTT(30)
        <5> QED BY <1>4, <5>1
      <4> QED BY <1>1, <1>6, <4>1, <4>2, <4>3 DEF JobOk
    <3> QED BY <1>1, <1>2, <2>1, <2>3, <3>2, <3>3, <3>4 DEF SessionInv
  <2> QED BY <2>2, <2>3
<1>10. faults \in 0..MaxFaults /\ scopes \subseteq Sessions \X (0..gen)
  BY DEF HostInv, LifeTypes
<1> QED BY <1>1, <1>3, <1>5, <1>9, <1>10, DeliveryFrame

(* A job that is under way has a row and a batch.                          *)
LEMMA Working ==
  ASSUME HostInv, NEW m \in Sessions, job[m].pc # "idle"
  PROVE /\ HostTypes /\ SessionInv(m) /\ m \in DOMAIN row /\ JobOk(m)
        /\ row[m].ack \in Nat /\ row[m].delivered \in Nat /\ job[m].through \in Nat /\ Len(log[m]) \in Nat
        /\ job[m].through <= Len(log[m]) /\ Marks(m) \subseteq Nat /\ seen[m] \in Nat /\ kept[m] \in Nat
        /\ seen[m] <= job[m].through /\ kept[m] <= job[m].through
        /\ m \in DOMAIN sessions => sessions[m].ack \in Nat /\ sessions[m].ack <= job[m].through
<1>1. HostTypes /\ SessionInv(m) /\ m \in DOMAIN row /\ JobOk(m)
  BY DEF HostInv, SessionInv
<1>2. /\ row[m].ack \in Nat /\ row[m].delivered \in Nat /\ job[m].through \in Nat /\ Len(log[m]) \in Nat
      /\ Marks(m) \subseteq Nat /\ seen[m] \in Nat /\ kept[m] \in Nat
      /\ m \in DOMAIN sessions => sessions[m].ack \in Nat
  BY <1>1, JobTypes, MarksNat
<1>3. job[m].through <= Len(log[m])
  BY <1>1, <1>2 DEF SessionInv, JobOk
<1>4. seen[m] \in Marks(m) /\ kept[m] \in Marks(m) /\ (m \in DOMAIN sessions => sessions[m].ack \in Marks(m))
  BY DEF Marks
<1> QED BY <1>1, <1>2, <1>3, <1>4 DEF JobOk

(* A job is over, or settled in memory: all that is taken for acknowledged *)
(* now is what was, or the whole batch, which the plugin has.              *)
LEMMA Settled ==
  ASSUME HostInv, HostAssumption, NEW m \in Sessions, job[m].pc # "idle", NEW t, t = job[m].through,
         UNCHANGED <<row, log>>, got[m] \subseteq got'[m], got'[m] \subseteq 1..Len(log[m]),
         \A v \in Marks(m)' : v \in Marks(m) \/ (v = t /\ Complete(m, t)'),
         job'[m].pc = "idle" \/ (job'[m].pc = "ack" /\ job'[m].through = t /\ Complete(m, t)')
  PROVE SessionInv(m)'
<1>1. SessionInv(m) /\ m \in DOMAIN row /\ JobOk(m)
  BY Working
<1>2. \A v \in Nat : /\ Complete(m, v) => Complete(m, v)'
                    /\ Reached(m, v)' <=> Reached(m, v)
  BY DEF Complete, Reached, ReachedFrom
<1>3. row[m].ack \in Nat /\ t \in Nat /\ Marks(m) \subseteq Nat /\ Reached(m, t)
  BY Working DEF JobOk
<1>4. \A v \in Marks(m)' : Reached(m, v)' /\ Complete(m, v)' /\ v <= t
  BY <1>1, <1>2, <1>3 DEF SessionInv, JobOk
<1>5. Complete(m, row[m].ack)'
  BY <1>1, <1>3 DEF SessionInv, Complete
<1>6. ASSUME job'[m].pc = "ack", job'[m].through = t, Complete(m, t)'
      PROVE JobOk(m)'
  <2>1. Reached(m, t)'
    BY <1>2, <1>3
  <2>2. Reached(m, job[m].through)' /\ Complete(m, job[m].through)'
    BY <1>6, <2>1 DEF Reached, ReachedFrom, Complete
  <2> QED BY <1>1, <1>4, <1>6, <2>2 DEF JobOk
<1> QED BY <1>1, <1>4, <1>5, <1>6 DEF SessionInv

(* The plugin takes a batch in: it has seen the last event of it, and has  *)
(* every event up to there.                                                *)
LEMMA ReceivedAll ==
  ASSUME HostInv, NEW m \in Sessions, job[m].pc = "sent", NEW t, t = job[m].through,
         Received(m), log' = log
  PROVE /\ seen' = [seen EXCEPT ![m] = t] /\ seen'[m] = t
        /\ kept' = [kept EXCEPT ![m] = t] /\ kept'[m] = t
        /\ Max(job[m].events) = t
        /\ got' \in [Sessions -> SUBSET Nat] /\ got[m] \subseteq got'[m] /\ got'[m] \subseteq 1..Len(log[m])
        /\ \A n \in Sessions \ {m} : got'[n] = got[n]
        /\ Complete(m, t)'
<1> DEFINE e == job[m].events
           c == row[m].ack
<1>1. /\ HostTypes /\ c \in Nat /\ t \in Nat /\ c < t /\ seen[m] \in Nat /\ kept[m] \in Nat
      /\ seen[m] <= t /\ kept[m] <= t /\ t <= Len(log[m]) /\ Len(log[m]) \in Nat
  BY Working DEF JobOk
<1>2. e = {i \in (c + 1)..t : log[m][i]} /\ t \in e
  BY Working DEF JobOk
<1>3. Complete(m, c) /\ Complete(m, seen[m]) /\ got[m] \subseteq 1..Len(log[m])
  BY Working DEF SessionInv, Marks
<1>x. e = job[m].events
  OBVIOUS
<1> HIDE DEF e, c
<1>4. Max({seen[m]} \cup e) = t
  <2>1. {seen[m]} \cup e \in SUBSET Nat /\ t \in {seen[m]} \cup e /\ \A y \in {seen[m]} \cup e : y <= t
    BY <1>1, <1>2
  <2> QED BY <2>1, MaxIs
<1>5. Max(e) = t
  <2>1. e \in SUBSET Nat /\ \A y \in e : y <= t
    BY <1>1, <1>2
  <2> QED BY <1>2, <2>1, MaxIs
<1>6. seen' = [seen EXCEPT ![m] = t] /\ seen'[m] = t
  BY <1>1, <1>4, <1>x DEF Received, HostTypes
<1>7. kept' = [kept EXCEPT ![m] = t] /\ kept'[m] = t
  <2>1. Max({kept[m], t}) = t
    BY <1>1, MaxPair
  <2> QED BY <1>1, <1>6, <2>1 DEF Received, HostTypes
<1>8. /\ got'[m] = got[m] \cup {i \in e : i > seen[m]} /\ \A n \in Sessions \ {m} : got'[n] = got[n]
      /\ got' \in [Sessions -> SUBSET Nat]
  BY <1>1, <1>2, <1>x DEF Received, HostTypes
<1>9. got'[m] \subseteq 1..Len(log[m])
  BY <1>1, <1>2, <1>3, <1>8
<1>10. Complete(m, t)'
  <2>0. ASSUME NEW i \in 1..t, log[m][i] PROVE i \in got'[m]
    <3>1. CASE i <= c
      BY <1>1, <1>3, <1>8, <2>0, <3>1 DEF Complete
    <3>2. CASE i <= seen[m]
      BY <1>1, <1>3, <1>8, <2>0, <3>2 DEF Complete
    <3>3. CASE i > c /\ i > seen[m]
      BY <1>1, <1>2, <1>8, <2>0, <3>3
    <3> QED BY <1>1, <3>1, <3>2, <3>3
  <2> QED BY <1>1, <2>0 DEF Complete
<1> QED BY <1>5, <1>6, <1>7, <1>8, <1>9, <1>10, <1>x

(* A job is settled in memory: it keeps its type.                          *)
LEMMA JobAcks ==
  ASSUME HostTypes, NEW m \in Sessions, NEW t \in Nat,
         job' = [job EXCEPT ![m].pc = "ack", ![m].through = t]
  PROVE /\ job' \in [Sessions -> [pc : {"idle", "send", "sent", "ack"}, fore : BOOLEAN, events : SUBSET Nat,
                                  through : Nat, more : BOOLEAN]]
        /\ \A n \in Sessions \ {m} : job'[n] = job[n]
        /\ job'[m].pc = "ack" /\ job'[m].through = t /\ job'[m].events = job[m].events
<1> DEFINE J == [pc : {"idle", "send", "sent", "ack"}, fore : BOOLEAN, events : SUBSET Nat, through : Nat,
                 more : BOOLEAN]
<1>1. job \in [Sessions -> J] /\ job[m] \in J
  BY DEF HostTypes
<1>2. \A j \in J : \A k : k = [j EXCEPT !.pc = "ack", !.through = t]
        => k \in J /\ k.pc = "ack" /\ k.through = t /\ k.events = j.events
  OBVIOUS
<1> HIDE DEF J
<1>3. PICK k : k = [job[m] EXCEPT !.pc = "ack", !.through = t]
  OBVIOUS
<1>4. job' = [job EXCEPT ![m] = k]
  <2>1. job' = [job EXCEPT ![m] = [job[m] EXCEPT !.pc = "ack", !.through = t]]
    BY <1>1
  <2> QED BY <1>3, <2>1, Zenon
<1>5. k \in J /\ k.pc = "ack" /\ k.through = t /\ k.events = job[m].events
  BY <1>1, <1>2, <1>3, Zenon
<1>6. job' \in [Sessions -> J] /\ job'[m] = k /\ \A n \in Sessions \ {m} : job'[n] = job[n]
  BY <1>1, <1>4, <1>5
<1> QED BY <1>5, <1>6 DEF J

(* A batch goes out: the job keeps its type and its batch.                 *)
LEMMA JobSends ==
  ASSUME HostTypes, NEW m \in Sessions, NEW t \in Nat, t = job[m].through,
         job' = [job EXCEPT ![m].pc = "sent"]
  PROVE /\ job' \in [Sessions -> [pc : {"idle", "send", "sent", "ack"}, fore : BOOLEAN, events : SUBSET Nat,
                                  through : Nat, more : BOOLEAN]]
        /\ \A n \in Sessions \ {m} : job'[n] = job[n]
        /\ job'[m].pc = "sent" /\ job'[m].through = t /\ job'[m].events = job[m].events
<1> DEFINE J == [pc : {"idle", "send", "sent", "ack"}, fore : BOOLEAN, events : SUBSET Nat, through : Nat,
                 more : BOOLEAN]
<1>1. job \in [Sessions -> J] /\ job[m] \in J
  BY DEF HostTypes
<1>2. \A j \in J : \A k : k = [j EXCEPT !.pc = "sent"]
        => k \in J /\ k.pc = "sent" /\ k.through = j.through /\ k.events = j.events
  OBVIOUS
<1> HIDE DEF J
<1>3. PICK k : k = [job[m] EXCEPT !.pc = "sent"]
  OBVIOUS
<1>4. job' = [job EXCEPT ![m] = k]
  <2>1. job' = [job EXCEPT ![m] = [job[m] EXCEPT !.pc = "sent"]]
    BY <1>1
  <2> QED BY <1>3, <2>1, Zenon
<1>5. k \in J /\ k.pc = "sent" /\ k.through = t /\ k.events = job[m].events
  BY <1>1, <1>2, <1>3, Zenon
<1>6. job' \in [Sessions -> J] /\ job'[m] = k /\ \A n \in Sessions \ {m} : job'[n] = job[n]
  BY <1>1, <1>4, <1>5
<1> QED BY <1>5, <1>6 DEF J

(* A delivery ends, with or without an acknowledgement in memory, whether  *)
(* or not the plugin took the batch in: the cursor of a retry is safe.     *)
LEMMA OutcomeKeeps ==
  ASSUME HostInv, HostAssumption, NEW m \in Sessions, job[m].pc # "idle", NEW t, t = job[m].through,
         UNCHANGED <<inst, row, log, boot, enabling, disabling, toggles, status, gen, want, crashes, owned,
                     loose, watched, op, at, todo, hostScopes>>,
         faults' \in 0..MaxFaults,
         UNCHANGED <<seen, kept, got>> \/ (job[m].pc = "sent" /\ Received(m)),
         \/ JobEnds(m) /\ UNCHANGED <<sessions, scopes>>
         \/ m \in DOMAIN sessions /\ AckMemory(m, t) /\ Complete(m, t)'
  PROVE HostInv'
<1>1. HostTypes /\ SessionInv(m) /\ t \in Nat /\ gen \in Nat /\ scopes \subseteq Sessions \X (0..gen)
  BY Working DEF HostInv, LifeTypes
<1>2. /\ seen' \in [Sessions -> Nat] /\ kept' \in [Sessions -> Nat] /\ got' \in [Sessions -> SUBSET Nat]
      /\ \A n \in Sessions \ {m} : seen'[n] = seen[n] /\ kept'[n] = kept[n] /\ got'[n] = got[n]
      /\ got[m] \subseteq got'[m] /\ got'[m] \subseteq 1..Len(log[m])
      /\ \/ seen'[m] = seen[m] /\ kept'[m] = kept[m]
         \/ seen'[m] = t /\ kept'[m] = t /\ Complete(m, t)'
  <2>1. CASE UNCHANGED <<seen, kept, got>>
    BY <1>1, <2>1 DEF HostTypes, SessionInv
  <2>2. CASE job[m].pc = "sent" /\ Received(m)
    <3>1. log' = log
      OBVIOUS
    <3>2. /\ seen' = [seen EXCEPT ![m] = t] /\ kept' = [kept EXCEPT ![m] = t]
          /\ got' \in [Sessions -> SUBSET Nat] /\ got[m] \subseteq got'[m] /\ got'[m] \subseteq 1..Len(log[m])
          /\ \A n \in Sessions \ {m} : got'[n] = got[n]
          /\ Complete(m, t)'
      BY <2>2, <3>1, ReceivedAll
    <3> QED BY <1>1, <3>2 DEF HostTypes
  <2> QED BY <2>1, <2>2
<1>3. /\ job' \in [Sessions -> [pc : {"idle", "send", "sent", "ack"}, fore : BOOLEAN, events : SUBSET Nat,
                                through : Nat, more : BOOLEAN]]
      /\ \A n \in Sessions \ {m} : job'[n] = job[n]
      /\ job'[m].pc = "idle" \/ (job'[m].pc = "ack" /\ job'[m].through = t /\ Complete(m, t)')
  <2>1. CASE JobEnds(m)
    BY <1>1, <2>1 DEF JobEnds, NoJob, HostTypes
  <2>2. CASE AckMemory(m, t) /\ Complete(m, t)'
    <3>1. job' = [job EXCEPT ![m].pc = "ack", ![m].through = t]
      BY <2>2 DEF AckMemory
    <3> QED BY <1>1, <2>2, <3>1, JobAcks
  <2> QED BY <2>1, <2>2
<1>4. /\ sessions' \in [DOMAIN sessions' -> [gen : Nat, ack : Nat]] /\ DOMAIN sessions' = DOMAIN sessions
      /\ \A n \in DOMAIN sessions : sessions'[n].gen = sessions[n].gen
      /\ \A n \in DOMAIN sessions \ {m} : sessions'[n] = sessions[n]
      /\ m \in DOMAIN sessions => sessions'[m].ack = sessions[m].ack \/ (sessions'[m].ack = t /\ Complete(m, t)')
      /\ scopes \subseteq scopes' /\ scopes' \subseteq Sessions \X (0..gen)
  <2>1. CASE UNCHANGED <<sessions, scopes>>
    BY <1>1, <2>1 DEF HostTypes
  <2>2. CASE m \in DOMAIN sessions /\ AckMemory(m, t) /\ Complete(m, t)'
    <3>1. sessions' = [sessions EXCEPT ![m].ack = t] /\ scopes' = scopes \cup {<<m, sessions[m].gen>>}
      BY <2>2 DEF AckMemory
    <3>2. sessions[m].gen \in 0..gen
      BY <2>2 DEF HostInv, LifeTypes
    <3>3. sessions'[m] = [sessions[m] EXCEPT !.ack = t] /\ DOMAIN sessions' = DOMAIN sessions
      BY <2>2, <3>1
    <3>4. sessions'[m].ack = t /\ sessions'[m].gen = sessions[m].gen
      BY <1>1, <2>2, <3>3 DEF HostTypes
    <3>5. \A n \in DOMAIN sessions \ {m} : sessions'[n] = sessions[n]
      BY <3>1
    <3>6. sessions' \in [DOMAIN sessions' -> [gen : Nat, ack : Nat]]
      <4>1. \A n \in DOMAIN sessions : sessions[n] \in [gen : Nat, ack : Nat]
        BY <1>1 DEF HostTypes
      <4>2. [sessions[m] EXCEPT !.ack = t] \in [gen : Nat, ack : Nat]
        BY <1>1, <2>2, <4>1
      <4> QED BY <3>1, <3>3, <3>5, <4>1, <4>2
    <3>7. scopes \subseteq scopes' /\ scopes' \subseteq Sessions \X (0..gen)
      BY <1>1, <3>1, <3>2
    <3> QED BY <2>2, <3>3, <3>4, <3>5, <3>6, <3>7
  <2> QED BY <2>1, <2>2
<1>5. \A v \in Marks(m)' : v \in Marks(m) \/ (v = t /\ Complete(m, t)')
  BY <1>2, <1>4 DEF Marks
<1>6. SessionInv(m)'
  BY <1>2, <1>3, <1>5, Settled
<1>7. HostTypes'
  BY <1>1, <1>2, <1>3, <1>4 DEF HostTypes
<1> QED BY <1>2, <1>3, <1>4, <1>6, <1>7, DeliveryFrame

(* JobSkip: a batch without subscribed events.                             *)
LEMMA SkipKeeps ==
  ASSUME HostInv, HostAssumption, NEW m \in Sessions, JobSkip(m)
  PROVE HostInv'
<1>1. /\ UNCHANGED <<inst, row, log, boot, enabling, disabling, toggles, status, gen, want, crashes, owned,
                      loose, watched, op, at, todo, hostScopes, seen, kept, got, faults>>
      /\ job[m].pc = "send" /\ job[m].events = {}
      /\ \/ JobEnds(m) /\ UNCHANGED <<sessions, scopes>>
         \/ m \in DOMAIN sessions /\ AckMemory(m, job[m].through)
  BY DEF JobSkip, dbVars, reqVars, supVars, lockVars, pluginVars, Bound
<1>2. faults' \in 0..MaxFaults
  BY <1>1 DEF HostInv, LifeTypes
<1>3. PICK t : t = job[m].through
  OBVIOUS
<1>4. Complete(m, t)'
  <2>1. /\ row[m].ack \in Nat /\ t \in Nat /\ t <= Len(log[m]) /\ Complete(m, row[m].ack)
        /\ {} = {i \in (row[m].ack + 1)..t : log[m][i]}
    BY <1>1, <1>3, Working DEF SessionInv, JobOk
  <2> QED BY <1>1, <2>1, SMTT(30) DEF Complete
<1>5. \/ JobEnds(m) /\ UNCHANGED <<sessions, scopes>>
      \/ m \in DOMAIN sessions /\ AckMemory(m, t) /\ Complete(m, t)'
  BY <1>1, <1>3, <1>4
<1>6. UNCHANGED <<seen, kept, got>> \/ (job[m].pc = "sent" /\ Received(m))
  BY <1>1
<1> QED BY <1>1, <1>2, <1>3, <1>5, <1>6, OutcomeKeeps

(* JobReply: the plugin answers with what it has seen, which fits.         *)
LEMMA ReplyKeeps ==
  ASSUME HostInv, HostAssumption, NEW m \in Sessions, JobReply(m)
  PROVE HostInv'
<1>1. /\ UNCHANGED <<inst, row, log, boot, enabling, disabling, toggles, status, gen, want, crashes, owned,
                      loose, watched, op, at, todo, hostScopes, faults>>
      /\ job[m].pc = "sent" /\ Received(m)
      /\ \/ JobEnds(m) /\ UNCHANGED <<sessions, scopes>>
         \/ AckMemory(m, seen'[m])
  BY DEF JobReply, dbVars, reqVars, supVars, lockVars
<1>2. faults' \in 0..MaxFaults
  BY <1>1 DEF HostInv, LifeTypes
<1>3. PICK t : t = job[m].through
  OBVIOUS
<1>4. seen'[m] = t /\ Complete(m, t)'
  BY <1>1, <1>3, ReceivedAll
<1>5. m \in DOMAIN sessions
  BY <1>1, Working DEF JobOk
<1>6. \/ JobEnds(m) /\ UNCHANGED <<sessions, scopes>>
      \/ m \in DOMAIN sessions /\ AckMemory(m, t) /\ Complete(m, t)'
  BY <1>1, <1>4, <1>5
<1> QED BY <1>1, <1>2, <1>3, <1>6, OutcomeKeeps

(* JobLost and JobCancel: no acknowledgement, whatever the plugin did.     *)
LEMMA LostKeeps ==
  ASSUME HostInv, HostAssumption, NEW m \in Sessions, JobLost(m) \/ JobCancel(m)
  PROVE HostInv'
<1>1. /\ UNCHANGED <<inst, row, log, boot, enabling, disabling, toggles, status, gen, want, crashes, owned,
                      loose, watched, op, at, todo, hostScopes, sessions, scopes>>
      /\ job[m].pc # "idle" /\ JobEnds(m)
      /\ UNCHANGED <<seen, kept, got>> \/ (job[m].pc = "sent" /\ Received(m))
      /\ faults' = faults \/ Fault
  BY DEF JobLost, JobCancel, dbVars, reqVars, supVars, lockVars, scopeVars, pluginVars
<1>2. faults' \in 0..MaxFaults
  BY <1>1, HostAssumption DEF HostInv, LifeTypes, Fault, HostAssumption
<1>3. PICK t : t = job[m].through
  OBVIOUS
<1> QED BY <1>1, <1>2, <1>3, OutcomeKeeps

(* JobSend: the batch goes out, or the session cannot take it.             *)
LEMMA SendKeeps ==
  ASSUME HostInv, HostAssumption, NEW m \in Sessions, JobSend(m)
  PROVE HostInv'
<1>1. /\ UNCHANGED <<inst, row, log, boot, enabling, disabling, toggles, status, gen, want, crashes, owned,
                      loose, watched, op, at, todo, hostScopes, seen, kept, got, faults, sessions, scopes>>
      /\ job[m].pc = "send" /\ job[m].events # {} /\ op = "free"
      /\ \/ m \in DOMAIN sessions /\ job' = [job EXCEPT ![m].pc = "sent"]
         \/ JobEnds(m)
  BY DEF JobSend, LockFree, CanDeliver, Bound, dbVars, reqVars, supVars, lockVars, scopeVars, pluginVars
<1>2. faults' \in 0..MaxFaults /\ scopes \subseteq Sessions \X (0..gen)
  BY <1>1 DEF HostInv, LifeTypes
<1>3. CASE JobEnds(m)
  <2>1. PICK t : t = job[m].through
    OBVIOUS
  <2> QED BY <1>1, <1>2, <1>3, <2>1, OutcomeKeeps
<1>4. CASE m \in DOMAIN sessions /\ job' = [job EXCEPT ![m].pc = "sent"]
  <2>1. HostTypes /\ SessionInv(m) /\ JobOk(m) /\ m \in DOMAIN row
    BY <1>1, Working
  <2>2. /\ job' \in [Sessions -> [pc : {"idle", "send", "sent", "ack"}, fore : BOOLEAN, events : SUBSET Nat,
                                  through : Nat, more : BOOLEAN]]
        /\ \A n \in Sessions \ {m} : job'[n] = job[n]
        /\ job'[m].pc = "sent" /\ job'[m].through = job[m].through /\ job'[m].events = job[m].events
    <3>1. job[m].through \in Nat
      BY <2>1, JobTypes
    <3> QED BY <1>4, <2>1, <3>1, JobSends
  <2>3. HostTypes' /\ Marks(m)' = Marks(m)
    BY <1>1, <2>1, <2>2, SMTT(30) DEF HostTypes, Marks
  <2>4. JobOk(m)'
    BY <1>1, <1>4, <2>1, <2>2, <2>3 DEF JobOk, Reached, ReachedFrom
  <2>5. SessionInv(m)'
    BY <1>1, <2>1, <2>3, <2>4 DEF SessionInv, Complete, Reached, ReachedFrom
  <2> QED BY <1>1, <1>2, <2>2, <2>3, <2>5, DeliveryFrame
<1> QED BY <1>1, <1>3, <1>4

(* The row and the job of one session change, nothing else.                *)
LEMMA RoundFrame ==
  ASSUME HostInv, HostAssumption, NEW m \in Sessions, m \in DOMAIN row, SessionInv(m)',
         UNCHANGED <<inst, log, boot, enabling, disabling, toggles, status, gen, want, crashes, owned, loose,
                     watched, op, at, todo, hostScopes, seen, kept, got, faults, sessions, scopes>>,
         NEW j \in [pc : {"idle", "send", "sent", "ack"}, fore : BOOLEAN, events : SUBSET Nat, through : Nat,
                    more : BOOLEAN], job' = [job EXCEPT ![m] = j],
         NEW r \in [delivered : Nat, ack : Nat], row' = [row EXCEPT ![m] = r]
  PROVE HostInv'
<1> DEFINE J == [pc : {"idle", "send", "sent", "ack"}, fore : BOOLEAN, events : SUBSET Nat, through : Nat,
                 more : BOOLEAN]
<1>1. HostTypes /\ faults \in 0..MaxFaults /\ scopes \subseteq Sessions \X (0..gen)
  BY DEF HostInv, LifeTypes
<1>2. job \in [Sessions -> J] /\ j \in J
  BY <1>1 DEF HostTypes
<1>3. job' \in [Sessions -> J] /\ \A n \in Sessions \ {m} : job'[n] = job[n]
  <2> HIDE DEF J
  <2> QED BY <1>2
<1>4. /\ row' \in [DOMAIN row' -> [delivered : Nat, ack : Nat]] /\ DOMAIN row' = DOMAIN row
      /\ \A n \in DOMAIN row \ {m} : row'[n] = row[n]
  BY <1>1 DEF HostTypes
<1>5. HostTypes'
  BY <1>1, <1>3, <1>4 DEF HostTypes
<1> QED BY <1>1, <1>3, <1>4, <1>5, DeliveryFrame

(* JobBegin reads a batch after the durable cursor.                        *)
LEMMA BeginKeeps ==
  ASSUME HostInv, HostAssumption, NEW m \in Sessions, NEW fore \in BOOLEAN, JobBegin(m, fore)
  PROVE HostInv'
<1> DEFINE c == row[m].ack
           t == Through(m, Raw(m, c))
<1>1. /\ UNCHANGED <<inst, log, boot, enabling, disabling, toggles, status, gen, want, crashes, owned, loose,
                      watched, op, at, todo, hostScopes, seen, kept, got, faults, sessions, scopes>>
      /\ m \in DOMAIN row /\ Raw(m, c) # {}
      /\ job' = [job EXCEPT ![m] = Round(m, c, fore)]
      /\ row' = [row EXCEPT ![m] = Advanced(row[m], job'[m].through)]
  BY DEF JobBegin, Bound, reqVars, supVars, lockVars, scopeVars, pluginVars
<1>2. HostTypes /\ SessionInv(m) /\ m \in DOMAIN job
  BY DEF HostInv, HostTypes
<1>3. /\ c \in Nat /\ row[m].delivered \in Nat /\ Len(log[m]) \in Nat /\ Complete(m, c)
      /\ c <= row[m].delivered /\ row[m].delivered <= Len(log[m])
      /\ \A v \in Marks(m) : ReachedFrom(m, c, v)
  BY <1>1, <1>2, JobTypes DEF SessionInv, Reached
<1>4. t \in Nat /\ t <= Len(log[m])
  BY <1>1, <1>2, <1>3, RoundReads
<1>5. job'[m] = Round(m, c, fore) /\ job'[m].through = t
  BY <1>1, <1>2 DEF Round
<1>6. row[m] \in [delivered : Nat, ack : Nat]
  BY <1>1, <1>2 DEF HostTypes
<1> HIDE DEF t
<1>7. PICK d \in Nat : d = Max({row[m].delivered, t}) /\ row[m].delivered <= d /\ t <= d /\ d <= Len(log[m])
  <2>1. Max({row[m].delivered, t}) = IF row[m].delivered >= t THEN row[m].delivered ELSE t
    BY <1>3, <1>4, MaxPair
  <2> QED BY <1>3, <1>4, <2>1
<1>8. PICK r : r = [row[m] EXCEPT !.delivered = d]
  OBVIOUS
<1>9. r \in [delivered : Nat, ack : Nat] /\ r.delivered = d /\ r.ack = c
  BY <1>6, <1>8
<1>10. row' = [row EXCEPT ![m] = r] /\ row'[m] = r /\ m \in DOMAIN row'
  BY <1>1, <1>5, <1>7, <1>8 DEF Advanced
<1>11. /\ row'[m].ack = c /\ c <= row'[m].delivered /\ row'[m].delivered <= Len(log[m])
       /\ Through(m, Raw(m, c)) <= row'[m].delivered
  BY <1>3, <1>4, <1>7, <1>9, <1>10 DEF t
<1> HIDE DEF c
<1>12. SessionInv(m)' /\ job'[m] \in [pc : {"idle", "send", "sent", "ack"}, fore : BOOLEAN,
                                      events : SUBSET Nat, through : Nat, more : BOOLEAN]
  BY <1>1, <1>3, <1>5, <1>10, <1>11, RoundBegins
<1>13. job' = [job EXCEPT ![m] = job'[m]]
  BY <1>1, <1>5
<1> QED BY <1>1, <1>9, <1>10, <1>12, <1>13, RoundFrame

(* JobAck moves the durable cursor to the end of the batch, and a catch-up *)
(* reads on from there.                                                    *)
LEMMA AckKeeps ==
  ASSUME HostInv, HostAssumption, NEW m \in Sessions, JobAck(m)
  PROVE HostInv'
<1> DEFINE c == job[m].through
           t == Through(m, Raw(m, c))
<1>1. /\ UNCHANGED <<inst, log, boot, enabling, disabling, toggles, status, gen, want, crashes, owned, loose,
                      watched, op, at, todo, hostScopes, seen, kept, got, faults, sessions, scopes>>
      /\ job[m].pc = "ack" /\ (Again(m) => Raw(m, c) # {})
      /\ job' = [job EXCEPT ![m] = IF Again(m) THEN Round(m, c, TRUE) ELSE NoJob]
      /\ row' = [row EXCEPT ![m] = IF Again(m) THEN Advanced(Acknowledged(row[m], c), job'[m].through)
                                               ELSE Acknowledged(row[m], c)]
  BY DEF JobAck, Again, reqVars, supVars, lockVars, scopeVars, pluginVars
<1>2. /\ HostTypes /\ SessionInv(m) /\ JobOk(m) /\ m \in DOMAIN row /\ m \in DOMAIN job
      /\ row[m].ack \in Nat /\ row[m].delivered \in Nat /\ c \in Nat /\ Len(log[m]) \in Nat
      /\ c <= Len(log[m]) /\ Marks(m) \subseteq Nat
  BY <1>1, Working DEF HostTypes
<1>3. /\ row[m].ack < c /\ c <= row[m].delivered /\ row[m].delivered <= Len(log[m]) /\ Complete(m, c)
      /\ \A v \in Marks(m) : v <= c
  BY <1>1, <1>2 DEF JobOk, SessionInv
<1>4. row[m] \in [delivered : Nat, ack : Nat]
  BY <1>2 DEF HostTypes
<1>5. PICK a : a = Acknowledged(row[m], c)
  OBVIOUS
<1>6. a \in [delivered : Nat, ack : Nat] /\ a.delivered = row[m].delivered /\ a.ack = c
  <2>1. Max({row[m].ack, c}) = c
    BY <1>2, <1>3, MaxPair
  <2>2. a = [row[m] EXCEPT !.ack = c]
    BY <1>2, <1>3, <1>5, <2>1 DEF Acknowledged
  <2> QED BY <1>2, <1>4, <2>2
<1>7. CASE Again(m)
  <2>1. Raw(m, c) # {} /\ job' = [job EXCEPT ![m] = Round(m, c, TRUE)]
        /\ row' = [row EXCEPT ![m] = Advanced(a, job'[m].through)]
    BY <1>1, <1>5, <1>7
  <2>2. t \in Nat /\ t <= Len(log[m])
    BY <1>2, <2>1, RoundReads
  <2>3. job'[m] = Round(m, c, TRUE) /\ job'[m].through = t
    BY <1>2, <2>1 DEF Round
  <2> HIDE DEF t
  <2>4. PICK d \in Nat : d = Max({a.delivered, t}) /\ a.delivered <= d /\ t <= d /\ d <= Len(log[m])
    <3>1. Max({a.delivered, t}) = IF a.delivered >= t THEN a.delivered ELSE t
      BY <1>2, <1>6, <2>2, MaxPair
    <3> QED BY <1>2, <1>3, <1>6, <2>2, <3>1
  <2>5. PICK r : r = [a EXCEPT !.delivered = d]
    OBVIOUS
  <2>6. r \in [delivered : Nat, ack : Nat] /\ r.delivered = d /\ r.ack = c
    BY <1>6, <2>5
  <2>7. row' = [row EXCEPT ![m] = r] /\ row'[m] = r /\ m \in DOMAIN row'
    BY <1>2, <2>1, <2>3, <2>4, <2>5 DEF Advanced
  <2>8. PICK e \in Nat : e = c
    BY <1>2
  <2>9. /\ Raw(m, e) # {} /\ job'[m] = Round(m, e, TRUE) /\ row'[m].ack = e /\ Complete(m, e)
        /\ e <= row'[m].delivered /\ row'[m].delivered <= Len(log[m])
        /\ Through(m, Raw(m, e)) <= row'[m].delivered
        /\ \A v \in Marks(m) : ReachedFrom(m, e, v)
    <3>1. Through(m, Raw(m, e)) = t
      BY <2>8 DEF t
    <3>2. Raw(m, e) # {} /\ job'[m] = Round(m, e, TRUE) /\ row'[m].ack = e /\ Complete(m, e)
      BY <1>3, <2>1, <2>3, <2>6, <2>7, <2>8
    <3>3. /\ e <= row'[m].delivered /\ row'[m].delivered <= Len(log[m])
          /\ Through(m, Raw(m, e)) <= row'[m].delivered
      BY <1>2, <1>3, <1>6, <2>2, <2>4, <2>6, <2>7, <2>8, <3>1
    <3>4. \A v \in Marks(m) : ReachedFrom(m, e, v)
      BY <1>3, <2>8 DEF ReachedFrom
    <3> QED BY <3>2, <3>3, <3>4
  <2>10. SessionInv(m)' /\ job'[m] \in [pc : {"idle", "send", "sent", "ack"}, fore : BOOLEAN,
                                        events : SUBSET Nat, through : Nat, more : BOOLEAN]
    <3>1. TRUE \in BOOLEAN
      OBVIOUS
    <3>2. UNCHANGED <<log, got, seen, kept, sessions, todo>>
      BY <1>1
    <3> QED BY <1>2, <2>7, <2>8, <2>9, <3>1, <3>2, RoundBegins
  <2>11. job' = [job EXCEPT ![m] = job'[m]]
    BY <2>1, <2>3
  <2> HIDE DEF c
  <2> QED BY <1>1, <1>2, <2>6, <2>7, <2>10, <2>11, RoundFrame
<1>8. CASE ~Again(m)
  <2>1. job' = [job EXCEPT ![m] = NoJob] /\ row' = [row EXCEPT ![m] = a]
    BY <1>1, <1>5, <1>8
  <2>2. NoJob \in [pc : {"idle", "send", "sent", "ack"}, fore : BOOLEAN, events : SUBSET Nat,
                   through : Nat, more : BOOLEAN]
    BY DEF NoJob
  <2>3. job'[m].pc = "idle" /\ row'[m] = a /\ m \in DOMAIN row' /\ Marks(m)' = Marks(m)
    <3>1. Marks(m)' = Marks(m)
      BY <1>1 DEF Marks
    <3>2. row'[m] = a /\ m \in DOMAIN row'
      BY <1>2, <2>1
    <3>3. job'[m] = NoJob
      BY <1>2, <2>1
    <3> QED BY <3>1, <3>2, <3>3 DEF NoJob
  <2>4. Complete(m, row[m].ack)' /\ \A v \in Marks(m)' : Reached(m, v)' /\ Complete(m, v)'
    <3>1. log' = log /\ got' = got /\ row'[m].ack = c
      BY <1>1, <1>6, <2>3
    <3>2. Complete(m, row[m].ack)'
      BY <1>3, <3>1 DEF Complete
    <3>3. \A v : Complete(m, v)' <=> Complete(m, v)
      BY <3>1 DEF Complete
    <3>4. \A v \in Marks(m) : Reached(m, v)'
      BY <1>3, <3>1 DEF Reached, ReachedFrom
    <3> QED BY <1>2, <2>3, <3>2, <3>3, <3>4 DEF SessionInv
  <2>5. SessionInv(m)'
    BY <1>1, <1>2, <1>3, <1>6, <2>3, <2>4 DEF SessionInv
  <2> QED BY <1>1, <1>2, <1>6, <2>1, <2>2, <2>5, RoundFrame
<1> QED BY <1>7, <1>8

-----------------------------------------------------------------------------
(* The theorem.                                                            *)

(* The Host before any plugin was enabled satisfies the invariant.         *)
LEMMA InitHolds ==
  ASSUME HostAssumption, Init
  PROVE HostInv
<1>1. DOMAIN row = {} /\ DOMAIN sessions = {} /\ DOMAIN todo = {}
  BY NothingBound DEF Init, NoneBound
<1>2. LifeTypes
  <2>1. Flags
    BY Zenon DEF Init, Flags
  <2> QED BY <1>1, <2>1 DEF Init, LifeTypes, Statuses, Live, HostAssumption
<1>3. HostTypes
  <2>1. /\ row \in [DOMAIN row -> [delivered : Nat, ack : Nat]]
        /\ sessions \in [DOMAIN sessions -> [gen : Nat, ack : Nat]]
        /\ todo \in [DOMAIN todo -> [gen : Nat, ack : Nat]]
    BY <1>1, NothingBound DEF Init, NoneBound
  <2>2. log \in [Sessions -> Seq(BOOLEAN)] /\ seen \in [Sessions -> Nat] /\ kept \in [Sessions -> Nat]
        /\ got \in [Sessions -> SUBSET Nat]
    BY DEF Init
  <2>3. NoJob \in [pc : {"idle", "send", "sent", "ack"}, fore : BOOLEAN, events : SUBSET Nat,
                   through : Nat, more : BOOLEAN]
    BY DEF NoJob
  <2> QED BY <1>1, <2>1, <2>2, <2>3 DEF Init, HostTypes
<1>4. ScopesOwned /\ LockInv
  BY <1>1 DEF Init, ScopesOwned, LockInv, Live
<1>5. ASSUME NEW m \in Sessions PROVE SessionInv(m)
  <2>1. Marks(m) = {0}
    BY <1>1 DEF Init, Marks
  <2>2. job[m].pc = "idle" /\ got[m] = {} /\ Len(log[m]) = 0 /\ MaxEvents[m] \in Nat
    BY DEF Init, NoJob, HostAssumption
  <2> QED BY <1>1, <2>1, <2>2 DEF SessionInv
<1> QED BY <1>2, <1>3, <1>4, <1>5 DEF HostInv

(* Nothing happens.                                                        *)
LEMMA StutterKeeps ==
  ASSUME HostInv, UNCHANGED vars
  PROVE HostInv'
<1>1. UNCHANGED <<inst, row, log, boot, enabling, disabling, toggles, status, gen, want, crashes, owned, loose,
                   watched, op, at, todo, sessions, scopes, hostScopes, seen, kept, got, job, faults>>
  BY DEF vars, dbVars, reqVars, supVars, lockVars, scopeVars, pluginVars
<1>2. LifeTypes'
  <2>1. Flags'
    BY <1>1 DEF HostInv, LifeTypes, Flags
  <2> QED BY <1>1, <2>1 DEF HostInv, LifeTypes
<1>3. HostTypes'
  BY <1>1 DEF HostInv, HostTypes
<1>4. ScopesOwned' /\ LockInv'
  BY <1>1 DEF HostInv, ScopesOwned, LockInv
<1>5. ASSUME NEW m \in Sessions PROVE SessionInv(m)'
  <2>1. Marks(m)' = Marks(m) /\ (JobOk(m)' <=> JobOk(m))
    BY <1>1 DEF Marks, JobOk, Complete, Reached, ReachedFrom
  <2> QED BY <1>1, <2>1 DEF HostInv, SessionInv, Complete, Reached, ReachedFrom
<1> QED BY <1>2, <1>3, <1>4, <1>5 DEF HostInv

(* Every step of the Host keeps the invariant.                             *)
LEMMA StepKeeps ==
  ASSUME HostAssumption, HostInv, [Next]_vars
  PROVE HostInv'
<1>1. CASE Lifecycle
  BY <1>1, StatusKeeps, StoppedKeeps, LaunchKeeps, StartKeeps, OpenFailureKeeps, OpenedKeeps, RestartKeeps
     DEF Lifecycle
<1>2. ASSUME NEW m \in Sessions, RestoreNext(m) \/ OpenSession(m) PROVE HostInv'
  BY <1>2, OpeningKeeps
<1>3. ASSUME NEW m \in Sessions, Delivery(m) PROVE HostInv'
  BY <1>3, SendKeeps, SkipKeeps, ReplyKeeps, LostKeeps, AckKeeps DEF Delivery
<1>4. ASSUME NEW m \in Sessions, NEW b \in BOOLEAN, NewEvent(m, b) \/ JobBegin(m, b) PROVE HostInv'
  BY <1>4, NewEventKeeps, BeginKeeps
<1> QED BY <1>1, <1>2, <1>3, <1>4, StutterKeeps DEF Next

(* The invariant implies what HostSafe promises.                           *)
LEMMA InvSafe ==
  ASSUME HostAssumption, HostInv
  PROVE HostSafe
<1>1. HostTypes /\ LifeTypes /\ ScopesOwned /\ LockInv /\ \A m \in Sessions : SessionInv(m)
  BY DEF HostInv
<1>2. ASSUME NEW m \in Sessions, NEW v \in Marks(m) PROVE v \in 0..Len(log[m])
  <2>1. v \in Nat /\ Len(log[m]) \in Nat
    BY <1>1, MarksNat, JobTypes
  <2>2. m \in DOMAIN row => v <= Len(log[m])
    BY <1>1 DEF SessionInv, Complete
  <2>3. m \notin DOMAIN row => v = 0
    BY <1>1 DEF SessionInv
  <2> QED BY <2>1, <2>2, <2>3
<1>3. TypeOK
  <2>1. Bound(row) \subseteq Sessions /\ Bound(sessions) \subseteq Sessions /\ Bound(todo) \subseteq Sessions
    BY <1>1 DEF HostTypes, Bound
  <2>2. ASSUME NEW m \in Bound(row)
        PROVE row[m].ack \in 0..Len(log[m]) /\ row[m].delivered \in 0..Len(log[m])
    <3>1. m \in Sessions /\ m \in DOMAIN row
      BY <2>1, <2>2 DEF Bound
    <3>2. row[m].ack \in Nat /\ row[m].delivered \in Nat /\ Len(log[m]) \in Nat
      BY <1>1, <3>1, JobTypes
    <3> QED BY <1>1, <3>1, <3>2 DEF SessionInv
  <2>3. ASSUME NEW m \in Bound(sessions)
        PROVE sessions[m].ack \in 0..Len(log[m]) /\ sessions[m].gen \in 0..gen
    <3>1. m \in Sessions /\ m \in DOMAIN sessions
      BY <2>1, <2>3 DEF Bound
    <3>2. sessions[m].ack \in Marks(m)
      BY <3>1 DEF Marks
    <3> QED BY <1>1, <1>2, <3>1, <3>2 DEF LifeTypes
  <2>4. {enabling, disabling, want, watched} \subseteq BOOLEAN
    BY <1>1, Zenon DEF LifeTypes, Flags
  <2>5. {gen, crashes, loose} \subseteq Nat
    BY <1>1 DEF LifeTypes
  <2>6. {scopes, hostScopes} \subseteq SUBSET (Sessions \X (0..gen))
    BY <1>1 DEF LifeTypes, ScopesOwned
  <2>7. \A m \in Sessions : job[m].pc \in {"idle", "send", "sent", "ack"}
    BY <1>1 DEF HostTypes
  <2>8. \A m \in Sessions : Len(log[m]) <= MaxEvents[m] /\ got[m] \subseteq 1..Len(log[m])
    BY <1>1 DEF SessionInv
  <2> QED BY <1>1, <2>1, <2>2, <2>3, <2>4, <2>5, <2>6, <2>7, <2>8 DEF TypeOK, LifeTypes
<1>4. NoEventLost
  BY <1>1 DEF NoEventLost, SessionInv, Complete, HostTypes, Bound
<1>5. RetryAccepted
  <2>1. ASSUME NEW m \in Sessions, job[m].pc = "sent", owned = "up"
        PROVE Fits(m, Max({seen[m]} \cup job[m].events))
    <3>1. /\ job[m].through \in Nat /\ job[m].events \subseteq Nat /\ seen[m] \in Nat
          /\ seen[m] <= job[m].through /\ row[m].ack \in Nat
          /\ m \in DOMAIN sessions /\ sessions[m].ack <= job[m].through
      BY <1>1, <2>1, Working, JobTypes DEF JobOk
    <3>2. /\ job[m].through \in job[m].events
          /\ job[m].events = {i \in (row[m].ack + 1)..job[m].through : log[m][i]}
      BY <2>1, Working DEF JobOk
    <3>3. PICK e : e = job[m].events
      OBVIOUS
    <3>4. PICK t \in Nat : t = job[m].through
      BY <3>1
    <3>5. e \subseteq Nat /\ t \in e /\ \A y \in e : y <= t
      BY <3>1, <3>2, <3>3, <3>4
    <3>6. Max(e) = t
      BY <3>5, MaxIs
    <3>7. Max({seen[m]} \cup e) = t
      <4>1. {seen[m]} \cup e \in SUBSET Nat /\ t \in {seen[m]} \cup e /\ \A y \in {seen[m]} \cup e : y <= t
        BY <3>1, <3>4, <3>5
      <4> QED BY <4>1, MaxIs
    <3> QED BY <3>1, <3>3, <3>4, <3>6, <3>7 DEF Fits
  <2>2. ASSUME NEW m \in Sessions, job[m].pc = "send", m \in Bound(sessions)
        PROVE sessions[m].ack <= job[m].through
    BY <2>2, Working DEF Bound
  <2>3. ASSUME NEW m \in Sessions, job[m].pc = "ack" PROVE job[m].through <= row[m].delivered
    BY <2>3, Working DEF JobOk
  <2> QED BY <2>1, <2>2, <2>3 DEF RetryAccepted
<1>6. ScopesCurrent
  <2>1. \A s \in hostScopes : s[2] = gen
    BY <1>1 DEF ScopesOwned, LifeTypes
  <2>2. ASSUME op = "free", status \in Live
        PROVE /\ hostScopes = {<<m, gen>> : m \in DOMAIN sessions}
              /\ hostScopes \subseteq scopes
              /\ \A m \in DOMAIN sessions : sessions[m].gen = gen
    BY <1>1, <2>2 DEF ScopesOwned, LockInv, LifeTypes
  <2> QED BY <2>1, <2>2 DEF ScopesCurrent, Bound
<1>7. QuietWhenStopped
  <2>1. ASSUME status \in {"disabled", "quarantined"} PROVE owned = "none" /\ ~watched /\ hostScopes = {}
    BY <1>1, <2>1 DEF ScopesOwned, LockInv, Live
  <2> QED BY <2>1 DEF QuietWhenStopped
<1> QED BY <1>3, <1>4, <1>5, <1>6, <1>7 DEF HostSafe

(* Across crashes, restarts, lost answers and cancelled passes, for any    *)
(* number of sessions and events and any batch size: no subscribed event   *)
(* is acknowledged that the plugin does not have, no retry is refused, no  *)
(* scope outlives its generation and a stopped plugin keeps no process     *)
(* (PluginSupervisor, PluginHostRuntime._deliver_event_batches).           *)
THEOREM HostSafeHolds == Spec => []HostSafe
<1>1. Init => HostInv
  BY HostAssumption, InitHolds
<1>2. HostInv /\ [Next]_vars => HostInv'
  BY HostAssumption, StepKeeps
<1>3. HostInv => HostSafe
  BY HostAssumption, InvSafe
<1> QED BY <1>1, <1>2, <1>3, PTL DEF Spec

=============================================================================
