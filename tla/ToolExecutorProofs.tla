------------------------- MODULE ToolExecutorProofs -------------------------
(***************************************************************************)
(* For every set of executions, grants and keys: the safety properties of  *)
(* ToolExecutor and its refinement of OneShotAction.                       *)
(***************************************************************************)
EXTENDS ToolExecutor, FiniteSetTheorems, TLAPS

\* The claim of a key and the only ToolCall that may exist for it.
HolderInv ==
  /\ \A k \in Keys : claim[k] = "none" <=> holder[k] = NoGrant
  /\ \A g \in Grants, k \in Keys : call[g][k] # "none" <=> holder[k] = g

\* What a coroutine that awaits the adapter can rely on.
StepInv ==
  \A g \in Grants, k \in Keys :
    /\ step[g][k] \in {"search", "classify"} =>
         call[g][k] = "requesting" /\ wire[g][k] = "none"
    /\ step[g][k] = "create" => call[g][k] = "requesting"
    /\ step[g][k] = "reconcile" =>
         call[g][k] = "reconciling" /\ expected[g][k] = claim[k]

\* The claim follows the status of its ToolCall.
ClaimInv ==
  \A g \in Grants, k \in Keys :
    /\ call[g][k] = "requesting" => claim[k] = "requesting"
    /\ call[g][k] \in {"unknown", "reconciling"} => claim[k] \in {"requesting", "unknown"}
    /\ call[g][k] = "succeeded" => claim[k] = "succeeded"
    /\ call[g][k] = "failed" => claim[k] = "failed_safe" /\ k \in free[g]

\* The task system as the ToolCall knows it.
WireInv ==
  /\ \A g \in Grants, k \in Keys :
       /\ wire[g][k] # "none" => call[g][k] # "none"
       /\ k \in free[g] => call[g][k] \in {"succeeded", "failed"} /\ wire[g][k] = "none"
       /\ call[g][k] = "succeeded" /\ k \notin free[g] => wire[g][k] = "applied"
  /\ \A k \in Keys :
       /\ holder[k] = NoGrant => issues[k] = 0
       /\ \A g \in Grants : holder[k] = g =>
            issues[k] = IF wire[g][k] = "applied" THEN 1 ELSE 0

\* The keys that hold a slot of the grant.
Charged(g) == {k \in Keys : call[g][k] # "none" /\ k \notin free[g]}

GrantInv ==
  /\ \A e \in Execs : grantOf[e] # NoGrant =>
       GrantExec[grantOf[e]] = e /\ gstat[grantOf[e]] # "none"
  /\ \A g \in Grants :
       /\ gstat[g] = "none" => \A k \in Keys : call[g][k] = "none"
       /\ \A k \in Keys : call[g][k] # "none" => k \in covers[g]
       /\ used[g] = Cardinality(Charged(g))

\* One write of an execution at a time, under the grant the execution has.
WriterInv ==
  \A g \in Grants, k \in Keys : step[g][k] \in ExecuteSteps =>
    /\ grantOf[GrantExec[g]] = g
    /\ gstat[g] \in {"active", "consumed"}
    /\ \A l \in Keys : step[g][l] \in ExecuteSteps => l = k

IInv ==
  /\ TypeOK /\ HolderInv /\ StepInv /\ ClaimInv /\ WireInv /\ GrantInv /\ WriterInv

-----------------------------------------------------------------------------
\* release_grant_side_effect keeps the counter a natural number.
LEMMA ReleaseTyping ==
  ASSUME TypeOK, NEW h, ReleaseGrant(h)
  PROVE  used' \in [Grants -> Nat] /\ gstat' \in [Grants -> GrantStatus]
<1>1. CASE h \in Grants
  BY <1>1 DEF TypeOK, ReleaseGrant, GrantStatus
<1>2. CASE h \notin Grants
  BY <1>2 DEF TypeOK, ReleaseGrant, GrantStatus
<1> QED BY <1>1, <1>2

\* One step of Next keeps the types.
LEMMA TypeStep == TypeOK /\ [Next]_vars => TypeOK'
<1> USE GrantAssumption DEF TypeOK, GrantStatus, ClaimStatus, CallStatus, Steps, Wire
<1> SUFFICES ASSUME TypeOK, [Next]_vars PROVE TypeOK'
  OBVIOUS
<1> USE DEF grantVars, worldVars
<1>1. ASSUME NEW e \in Execs, NEW g \in Grants, NEW C \in SUBSET Keys,
             IssueGrant(e, g, C)
      PROVE  TypeOK'
  BY <1>1 DEF IssueGrant
<1>2. ASSUME NEW e \in Execs, NEW k \in Keys, Request(e, k)
      PROVE  TypeOK'
  BY <1>2 DEF Request, Authorized, ConsumeGrant
<1>3. ASSUME NEW g \in Grants, NEW k \in Keys, ExecuteStep(g, k)
      PROVE  TypeOK'
  <2>1. CASE SearchMiss(g, k)
    BY <2>1 DEF SearchMiss
  <2>2. CASE SendCreate(g, k)
    BY <2>2 DEF SendCreate
  <2>3. CASE ReturnsRefused(g, k)
    BY <2>3, ReleaseTyping DEF ReturnsRefused, ReturnsFree, PersistCall
  <2>4. CASE ReturnsReused(g, k)
    BY <2>4, ReleaseTyping DEF ReturnsReused, ReturnsFree, PersistCall
  <2>5. CASE ReturnsCreated(g, k)
    BY <2>5 DEF ReturnsCreated, PersistCall
  <2>6. CASE ReturnsUnknown(g, k)
    BY <2>6 DEF ReturnsUnknown, PersistCall
  <2> QED BY <1>3, <2>1, <2>2, <2>3, <2>4, <2>5, <2>6 DEF ExecuteStep
<1>4. ASSUME NEW g \in Grants, NEW k \in Keys, ReconcileStep(g, k)
      PROVE  TypeOK'
  <2>1. CASE BeginReconcile(g, k)
    BY <2>1 DEF BeginReconcile
  <2>2. CASE ReconcileFound(g, k)
    BY <2>2 DEF ReconcileFound, PersistCall
  <2>3. CASE ReconcileUnknown(g, k)
    BY <2>3 DEF ReconcileUnknown, PersistCall
  <2> QED BY <1>4, <2>1, <2>2, <2>3 DEF ReconcileStep
<1>5. ASSUME NEW e \in Execs, Interrupt(e)
      PROVE  TypeOK'
  BY <1>5 DEF Interrupt
<1>6. ASSUME NEW E \in SUBSET Execs, Recover(E)
      PROVE  TypeOK'
  BY <1>6 DEF Recover
<1>7. ASSUME NEW g \in Grants, NEW k \in Keys, Apply(g, k)
      PROVE  TypeOK'
  BY <1>7 DEF Apply
<1>8. ASSUME NEW g \in Grants, NEW k \in Keys, Lose(g, k)
      PROVE  TypeOK'
  BY <1>8 DEF Lose
<1>9. ASSUME NEW g \in Grants, Expire(g)
      PROVE  TypeOK'
  BY <1>9 DEF Expire
<1>10. CASE Crash
  BY <1>10 DEF Crash
<1>11. CASE UNCHANGED vars
  BY <1>11 DEF vars
<1> QED
  BY <1>1, <1>2, <1>3, <1>4, <1>5, <1>6, <1>7, <1>8, <1>9, <1>10, <1>11 DEF Next

\* The rows, coroutine positions and external state always have their types.
THEOREM Typing == Spec => []TypeOK
<1>1. Init => TypeOK
  BY GrantAssumption DEF Init, TypeOK, GrantStatus, ClaimStatus, CallStatus, Steps, Wire
<1>2. QED
  BY <1>1, TypeStep, PTL DEF Spec

-----------------------------------------------------------------------------
\* Slots are counted by a finite set.
LEMMA ChargedFinite ==
  ASSUME NEW g \in Grants
  PROVE  /\ IsFiniteSet(Charged(g))
         /\ Cardinality(Charged(g)) \in Nat
BY KeysAssumption, FS_Subset, FS_CardinalityType DEF Charged

\* A step that leaves the grants alone and neither adds nor frees a ToolCall.
LEMMA GrantKept ==
  ASSUME TypeOK, GrantInv, UNCHANGED grantVars, UNCHANGED free,
         \A g \in Grants, k \in Keys : call'[g][k] = "none" <=> call[g][k] = "none"
  PROVE  GrantInv'
<1>1. \A g \in Grants : Charged(g)' = Charged(g)
  BY DEF Charged
<1> QED BY <1>1 DEF GrantInv, grantVars

\* The initial states satisfy the inductive invariant.
LEMMA InitIInv == Init => IInv
<1> SUFFICES ASSUME Init PROVE IInv
  OBVIOUS
<1>1. TypeOK
  BY GrantAssumption DEF Init, TypeOK, GrantStatus, ClaimStatus, CallStatus, Steps, Wire
<1>2. HolderInv /\ StepInv /\ ClaimInv /\ WireInv /\ WriterInv
  BY GrantAssumption DEF Init, HolderInv, StepInv, ClaimInv, WireInv, WriterInv, ExecuteSteps
<1>3. \A g \in Grants : Charged(g) = {}
  BY DEF Init, Charged
<1>4. GrantInv
  BY <1>3, FS_EmptySet DEF Init, GrantInv
<1> QED BY <1>1, <1>2, <1>4 DEF IInv

\* Binding an execution to a new grant: no write of it is in flight.
LEMMA IssueGrantStep ==
  ASSUME IInv, TypeOK', NEW e \in Execs, NEW g \in Grants, NEW C \in SUBSET Keys,
         IssueGrant(e, g, C)
  PROVE  IInv'
<1> USE GrantAssumption DEF IInv, IssueGrant, TypeOK, worldVars
<1>1. HolderInv' /\ StepInv' /\ ClaimInv' /\ WireInv'
  BY DEF HolderInv, StepInv, ClaimInv, WireInv
<1>2. \A h \in Grants : Charged(h)' = Charged(h)
  BY DEF Charged
<1>3. GrantInv'
  BY <1>2 DEF GrantInv
<1>4. WriterInv'
  BY DEF WriterInv, Executing
<1> QED BY <1>1, <1>3, <1>4

\* The transaction that commits budget, claim and ToolCall.
LEMMA RequestStep ==
  ASSUME IInv, TypeOK', NEW e \in Execs, NEW k \in Keys, Request(e, k)
  PROVE  IInv'
<1> DEFINE g == grantOf[e]
<1> USE GrantAssumption DEF IInv, TypeOK, worldVars
<1>1. g \in Grants /\ GrantExec[g] = e /\ holder[k] = NoGrant
  BY DEF Request, Authorized, GrantInv, HolderInv
<1>2. \A h \in Grants : call[h][k] = "none" /\ wire[h][k] = "none" /\ k \notin free[h]
  <2>1. \A h \in Grants : call[h][k] = "none"
    BY <1>1 DEF HolderInv
  <2> QED BY <2>1 DEF WireInv
<1>3. HolderInv'
  BY <1>1, <1>2 DEF Request, HolderInv
<1>4. StepInv'
  BY <1>1, <1>2 DEF Request, StepInv, ClaimInv
<1>5. ClaimInv'
  BY <1>1, <1>2 DEF Request, ClaimInv
<1>6. WireInv'
  BY <1>1, <1>2 DEF Request, WireInv, HolderInv
<1>7. GrantInv'
  <2>1. Charged(g)' = Charged(g) \cup {k} /\ k \notin Charged(g)
    BY <1>1, <1>2 DEF Request, Charged
  <2>2. Cardinality(Charged(g) \cup {k}) = Cardinality(Charged(g)) + 1
    <3> HIDE DEF g
    <3> QED BY ONLY <1>1, <2>1, ChargedFinite, FS_AddElement
  <2>4. Cardinality(Charged(g)') = used[g] + 1
    BY <1>1, <2>1, <2>2 DEF GrantInv
  <2>3. \A h \in Grants \ {g} : Charged(h)' = Charged(h)
    BY <1>1 DEF Request, Charged
  <2> QED BY <1>1, <2>3, <2>4 DEF Request, Authorized, ConsumeGrant, GrantInv
<1>8. WriterInv'
  BY <1>1 DEF Request, Authorized, ConsumeGrant, WriterInv, Executing
<1> QED BY <1>3, <1>4, <1>5, <1>6, <1>7, <1>8

\* The adapter's search for the key.
LEMMA SearchMissStep ==
  ASSUME IInv, TypeOK', NEW g \in Grants, NEW k \in Keys, SearchMiss(g, k)
  PROVE  IInv'
<1> USE GrantAssumption DEF IInv, TypeOK, SearchMiss, worldVars
<1>1. HolderInv' /\ ClaimInv' /\ WireInv'
  BY DEF HolderInv, ClaimInv, WireInv
<1>2. StepInv'
  BY DEF StepInv
<1>3. GrantInv'
  BY GrantKept
<1>4. WriterInv'
  BY DEF WriterInv, grantVars, ExecuteSteps
<1> QED BY <1>1, <1>2, <1>3, <1>4

\* The adapter posts its mutation.
LEMMA SendCreateStep ==
  ASSUME IInv, TypeOK', NEW g \in Grants, NEW k \in Keys, SendCreate(g, k)
  PROVE  IInv'
<1> USE GrantAssumption DEF IInv, TypeOK, SendCreate
<1>1. HolderInv' /\ ClaimInv'
  BY DEF HolderInv, ClaimInv
<1>2. StepInv'
  BY DEF StepInv
<1>3. call[g][k] = "requesting" /\ wire[g][k] = "none" /\ k \notin free[g]
  BY DEF StepInv, WireInv
<1>4. WireInv'
  BY <1>3 DEF WireInv
<1>5. GrantInv'
  BY GrantKept
<1>6. WriterInv'
  BY DEF WriterInv, grantVars, ExecuteSteps
<1> QED BY <1>1, <1>2, <1>4, <1>5, <1>6

\* An answer that confirms that nothing was created gives the slot back.
LEMMA ReturnsFreeStep ==
  ASSUME IInv, TypeOK', NEW g \in Grants, NEW k \in Keys,
         ReturnsRefused(g, k) \/ ReturnsReused(g, k)
  PROVE  IInv'
<1>1. PICK callTo \in {"succeeded", "failed"}, claimTo \in {"succeeded", "failed_safe"} :
        /\ ReturnsFree(g, k, callTo, claimTo)
        /\ callTo = "succeeded" <=> claimTo = "succeeded"
  BY DEF ReturnsRefused, ReturnsReused
<1> USE GrantAssumption DEF IInv, TypeOK, worldVars
<1>2. /\ step[g][k] \in {"search", "classify"} /\ call[g][k] = "requesting"
      /\ wire[g][k] = "none" /\ grantOf[GrantExec[g]] = g
  BY <1>1 DEF ReturnsFree, StepInv, WriterInv, ExecuteSteps
<1>3. HolderInv'
  BY <1>1, <1>2 DEF ReturnsFree, PersistCall, HolderInv
<1>4. StepInv'
  BY <1>1, <1>2 DEF ReturnsFree, PersistCall, StepInv, HolderInv
<1>5. ClaimInv'
  BY <1>1, <1>2 DEF ReturnsFree, PersistCall, ClaimInv, HolderInv
<1>6. WireInv'
  BY <1>1, <1>2 DEF ReturnsFree, PersistCall, WireInv
<1>7. GrantInv'
  <2>1. Charged(g)' = Charged(g) \ {k} /\ k \in Charged(g)
    <3>1. k \notin free[g]
      BY <1>2 DEF WireInv
    <3>2. /\ call' = [call EXCEPT ![g][k] = callTo]
          /\ free' = [free EXCEPT ![g] = @ \cup {k}]
      BY <1>1 DEF ReturnsFree, PersistCall
    <3> QED BY <1>2, <3>1, <3>2 DEF Charged
  <2>2. Cardinality(Charged(g) \ {k}) = Cardinality(Charged(g)) - 1
    BY ONLY <2>1, ChargedFinite, FS_RemoveElement, g \in Grants
  <2>4. Cardinality(Charged(g)') = used[g] - 1
    BY <2>1, <2>2 DEF GrantInv
  <2>3. \A h \in Grants \ {g} : Charged(h)' = Charged(h)
    BY <1>1 DEF ReturnsFree, PersistCall, Charged
  <2> QED
    BY <1>1, <1>2, <2>3, <2>4 DEF ReturnsFree, ReleaseGrant, PersistCall, GrantInv
<1>8. WriterInv'
  BY <1>1, <1>2 DEF ReturnsFree, ReleaseGrant, PersistCall, WriterInv, ExecuteSteps
<1> QED BY <1>3, <1>4, <1>5, <1>6, <1>7, <1>8

\* The answer that the task was created and read back.
LEMMA ReturnsCreatedStep ==
  ASSUME IInv, TypeOK', NEW g \in Grants, NEW k \in Keys, ReturnsCreated(g, k)
  PROVE  IInv'
<1> USE GrantAssumption DEF IInv, TypeOK, ReturnsCreated, PersistCall, worldVars
<1>1. call[g][k] \in {"requesting", "reconciling"} /\ k \notin free[g]
  BY DEF StepInv, WireInv, HolderInv, ExecuteSteps
<1>2. HolderInv'
  BY <1>1 DEF HolderInv
<1>3. StepInv'
  BY <1>1 DEF StepInv, HolderInv
<1>4. ClaimInv'
  BY <1>1 DEF ClaimInv, HolderInv
<1>5. WireInv'
  BY <1>1 DEF WireInv
<1>6. GrantInv'
  BY <1>1, GrantKept DEF grantVars
<1>7. WriterInv'
  BY DEF WriterInv, ExecuteSteps
<1> QED BY <1>2, <1>3, <1>4, <1>5, <1>6, <1>7

\* A timeout or an exception: the ToolCall is unknown and keeps its slot.
LEMMA ReturnsUnknownStep ==
  ASSUME IInv, TypeOK', NEW g \in Grants, NEW k \in Keys, ReturnsUnknown(g, k)
  PROVE  IInv'
<1> USE GrantAssumption DEF IInv, TypeOK, ReturnsUnknown, PersistCall, worldVars
<1>1. call[g][k] \in {"requesting", "reconciling"} /\ k \notin free[g]
  BY DEF StepInv, WireInv, HolderInv, ExecuteSteps
<1>2. HolderInv'
  BY <1>1 DEF HolderInv
<1>3. StepInv'
  BY <1>1 DEF StepInv, HolderInv
<1>4. ClaimInv'
  BY <1>1 DEF ClaimInv, HolderInv
<1>5. WireInv'
  BY <1>1 DEF WireInv
<1>6. GrantInv'
  BY <1>1, GrantKept DEF grantVars
<1>7. WriterInv'
  BY DEF WriterInv, ExecuteSteps
<1> QED BY <1>2, <1>3, <1>4, <1>5, <1>6, <1>7

\* Reconciliation finds the one issue of the key.
LEMMA ReconcileFoundStep ==
  ASSUME IInv, TypeOK', NEW g \in Grants, NEW k \in Keys, ReconcileFound(g, k)
  PROVE  IInv'
<1> USE GrantAssumption DEF IInv, TypeOK, ReconcileFound, PersistCall, worldVars
<1>1. call[g][k] \in {"requesting", "reconciling"} /\ k \notin free[g] /\ wire[g][k] = "applied"
  BY DEF StepInv, WireInv, HolderInv, ExecuteSteps
<1>2. HolderInv'
  BY <1>1 DEF HolderInv
<1>3. StepInv'
  BY <1>1 DEF StepInv, HolderInv
<1>4. ClaimInv'
  BY <1>1 DEF ClaimInv, HolderInv
<1>5. WireInv'
  BY <1>1 DEF WireInv
<1>6. GrantInv'
  BY <1>1, GrantKept DEF grantVars
<1>7. WriterInv'
  BY DEF WriterInv, ExecuteSteps
<1> QED BY <1>2, <1>3, <1>4, <1>5, <1>6, <1>7

\* Reconciliation confirms nothing.
LEMMA ReconcileUnknownStep ==
  ASSUME IInv, TypeOK', NEW g \in Grants, NEW k \in Keys, ReconcileUnknown(g, k)
  PROVE  IInv'
<1> USE GrantAssumption DEF IInv, TypeOK, ReconcileUnknown, PersistCall, worldVars
<1>1. call[g][k] \in {"requesting", "reconciling"} /\ k \notin free[g]
  BY DEF StepInv, WireInv, HolderInv, ExecuteSteps
<1>2. HolderInv'
  BY <1>1 DEF HolderInv
<1>3. StepInv'
  BY <1>1 DEF StepInv, HolderInv
<1>4. ClaimInv'
  BY <1>1 DEF ClaimInv, HolderInv
<1>5. WireInv'
  BY <1>1 DEF WireInv
<1>6. GrantInv'
  BY <1>1, GrantKept DEF grantVars
<1>7. WriterInv'
  BY DEF WriterInv, ExecuteSteps
<1> QED BY <1>2, <1>3, <1>4, <1>5, <1>6, <1>7

\* The transaction that starts a reconciliation.
LEMMA BeginReconcileStep ==
  ASSUME IInv, TypeOK', NEW g \in Grants, NEW k \in Keys, BeginReconcile(g, k)
  PROVE  IInv'
<1> USE GrantAssumption DEF IInv, TypeOK, BeginReconcile, worldVars
<1>1. HolderInv' /\ StepInv' /\ ClaimInv' /\ WireInv'
  BY DEF HolderInv, StepInv, ClaimInv, WireInv
<1>2. GrantInv'
  BY GrantKept
<1>3. WriterInv'
  BY DEF WriterInv, grantVars, ExecuteSteps
<1> QED BY <1>1, <1>2, <1>3

\* Unresolved ToolCalls that no coroutine serves may become unknown or reconciling.
LEMMA CallsMoved ==
  ASSUME IInv, TypeOK',
         UNCHANGED <<grantVars, claim, holder, free, step, expected, wire, issues>>,
         \A g \in Grants, k \in Keys :
           \/ call'[g][k] = call[g][k]
           \/ /\ call[g][k] \in Unresolved /\ call'[g][k] \in {"unknown", "reconciling"}
              /\ step[g][k] = "idle"
  PROVE  IInv'
<1> USE DEF Unresolved
<1>1. HolderInv'
  BY DEF HolderInv, IInv
<1>2. StepInv'
  BY DEF StepInv, IInv
<1>3. ClaimInv'
  BY DEF ClaimInv, IInv
<1>4. WireInv'
  BY DEF WireInv, IInv
<1>5. GrantInv'
  BY GrantKept DEF IInv
<1>6. WriterInv'
  BY DEF WriterInv, grantVars, IInv
<1> QED BY <1>1, <1>2, <1>3, <1>4, <1>5, <1>6 DEF IInv

\* An interrupted ToolCall becomes unknown.
LEMMA InterruptStep ==
  ASSUME IInv, TypeOK', NEW e \in Execs, Interrupt(e)
  PROVE  IInv'
BY CallsMoved DEF IInv, TypeOK, Interrupt, Quiet, Unresolved, worldVars

\* Startup recovery turns the unresolved ToolCalls it readmits to reconciling.
LEMMA RecoverStep ==
  ASSUME IInv, TypeOK', NEW E \in SUBSET Execs, Recover(E)
  PROVE  IInv'
BY CallsMoved, GrantAssumption DEF IInv, TypeOK, Recover, Quiet, Unresolved, worldVars

\* The task system applies or drops a posted mutation.
LEMMA WorldStep ==
  ASSUME IInv, TypeOK', NEW g \in Grants, NEW k \in Keys, Apply(g, k) \/ Lose(g, k)
  PROVE  IInv'
<1> USE GrantAssumption DEF IInv, TypeOK
<1>1. UNCHANGED <<grantVars, claim, holder, call, free, step, expected>>
      /\ wire[g][k] = "sent"
      /\ \/ /\ wire' = [wire EXCEPT ![g][k] = "applied"]
            /\ issues' = [issues EXCEPT ![k] = @ + 1]
         \/ wire' = [wire EXCEPT ![g][k] = "lost"] /\ UNCHANGED issues
  BY DEF Apply, Lose
<1>2. HolderInv' /\ ClaimInv'
  BY <1>1 DEF HolderInv, ClaimInv
<1>3. StepInv'
  <2>1. step[g][k] \notin {"search", "classify"}
    BY <1>1 DEF StepInv
  <2>2. \A h \in Grants, l \in Keys : h # g \/ l # k => wire'[h][l] = wire[h][l]
    BY <1>1
  <2> QED BY ONLY StepInv, g \in Grants, k \in Keys, <1>1, <2>1, <2>2 DEF StepInv
<1>4. holder[k] = g /\ k \notin free[g] /\ call[g][k] # "succeeded" /\ issues[k] = 0
  BY <1>1 DEF WireInv, HolderInv
<1>5. WireInv'
  <2>1. CASE Apply(g, k)
    BY <1>1, <1>4, <2>1 DEF WireInv, Apply
  <2>2. CASE Lose(g, k)
    BY <1>1, <1>4, <2>2 DEF WireInv, Lose
  <2> QED BY <2>1, <2>2
<1>6. GrantInv'
  BY <1>1, GrantKept
<1>7. WriterInv'
  BY <1>1 DEF WriterInv, grantVars
<1> QED BY <1>2, <1>3, <1>5, <1>6, <1>7

\* Time passes a grant's expiry.
LEMMA ExpireStep ==
  ASSUME IInv, TypeOK', NEW g \in Grants, Expire(g)
  PROVE  IInv'
<1> USE DEF IInv, Expire, worldVars
<1>1. HolderInv' /\ StepInv' /\ ClaimInv' /\ WireInv' /\ WriterInv'
  BY DEF HolderInv, StepInv, ClaimInv, WireInv, WriterInv
<1>2. \A h \in Grants : Charged(h)' = Charged(h)
  BY DEF Charged
<1>3. GrantInv'
  BY <1>2 DEF GrantInv
<1> QED BY <1>1, <1>3

\* The process dies.
LEMMA CrashStep ==
  ASSUME IInv, TypeOK', Crash
  PROVE  IInv'
<1> USE DEF IInv, TypeOK, Crash, worldVars
<1>1. HolderInv' /\ StepInv' /\ ClaimInv' /\ WireInv' /\ WriterInv'
  BY DEF HolderInv, StepInv, ClaimInv, WireInv, WriterInv, ExecuteSteps
<1>2. GrantInv'
  BY GrantKept
<1> QED BY <1>1, <1>2

\* A step that changes nothing.
LEMMA StutterStep ==
  ASSUME IInv, UNCHANGED vars
  PROVE  IInv'
<1>1. \A h \in Grants : Charged(h)' = Charged(h)
  BY DEF Charged, vars
<1> QED
  BY <1>1 DEF IInv, TypeOK, HolderInv, StepInv, ClaimInv, WireInv, GrantInv, WriterInv, vars

\* IInv is inductive.
LEMMA NextIInv == IInv /\ [Next]_vars => IInv'
<1> SUFFICES ASSUME IInv, [Next]_vars PROVE IInv'
  OBVIOUS
<1>1. TypeOK'
  BY TypeStep DEF IInv
<1>2. ASSUME NEW g \in Grants, NEW k \in Keys, ExecuteStep(g, k)
      PROVE  IInv'
  BY <1>1, <1>2, SearchMissStep, SendCreateStep, ReturnsFreeStep, ReturnsCreatedStep,
     ReturnsUnknownStep DEF ExecuteStep
<1>3. ASSUME NEW g \in Grants, NEW k \in Keys, ReconcileStep(g, k)
      PROVE  IInv'
  BY <1>1, <1>3, BeginReconcileStep, ReconcileFoundStep, ReconcileUnknownStep
     DEF ReconcileStep
<1> QED
  BY <1>1, <1>2, <1>3, IssueGrantStep, RequestStep, InterruptStep, RecoverStep, WorldStep,
     ExpireStep, CrashStep, StutterStep DEF Next

\* Every reachable state satisfies IInv.
THEOREM Invariance == Spec => []IInv
BY InitIInv, NextIInv, PTL DEF Spec

\* For any number of executions, grants and keys, a key gets at most one create
\* mutation and one issue (the claim row of ToolExecutor.execute).
THEOREM OneIssueHolds == Spec => []OneIssue
<1>1. IInv => OneIssue
  <2> SUFFICES ASSUME IInv, NEW k \in Keys
               PROVE  /\ issues[k] <= 1
                      /\ \A g, h \in Grants :
                           wire[g][k] # "none" /\ wire[h][k] # "none" => g = h
    BY DEF OneIssue
  <2>1. issues[k] \in {0, 1}
    BY DEF IInv, TypeOK, WireInv
  <2>2. \A g \in Grants : wire[g][k] # "none" => holder[k] = g
    BY DEF IInv, WireInv, HolderInv
  <2> QED BY <2>1, <2>2
<1> QED BY <1>1, Invariance, PTL

\* The mutations posted under a grant never exceed the slots it has given out, and
\* these never exceed its candidates (consume_grant, release_grant_side_effect).
THEOREM BudgetHolds == Spec => []BudgetRespected
<1>1. IInv => BudgetRespected
  <2> SUFFICES ASSUME IInv, NEW g \in Grants
               PROVE  /\ Cardinality({k \in Keys : wire[g][k] # "none"}) <= used[g]
                      /\ used[g] <= Budget(g)
    BY DEF BudgetRespected
  <2> DEFINE Posted == {k \in Keys : wire[g][k] # "none"}
  <2>1. Posted \subseteq Charged(g)
    BY DEF IInv, WireInv, Charged
  <2>2. Charged(g) \subseteq covers[g] /\ covers[g] \subseteq Keys
    BY DEF IInv, TypeOK, GrantInv, Charged
  <2>3. IsFiniteSet(covers[g]) /\ IsFiniteSet(Charged(g))
    BY <2>2, KeysAssumption, FS_Subset
  <2>4. Cardinality(Posted) <= Cardinality(Charged(g))
    BY <2>1, <2>3, FS_Subset
  <2>5. Cardinality(Charged(g)) <= Cardinality(covers[g])
    BY <2>2, <2>3, FS_Subset
  <2> QED BY <2>4, <2>5 DEF IInv, GrantInv, Budget
<1> QED BY <1>1, Invariance, PTL

\* A failed_safe claim never had a mutation and a succeeded one that counts as a side
\* effect has its issue (_persist_result).
THEOREM ClaimTruth == Spec => []ClaimTellsTruth
<1>1. IInv => ClaimTellsTruth
  <2> SUFFICES ASSUME IInv, NEW k \in Keys, claim[k] # "none"
               PROVE  /\ claim[k] = "failed_safe" => wire[holder[k]][k] = "none"
                      /\ claim[k] = "succeeded" /\ k \notin free[holder[k]] => issues[k] = 1
    BY DEF ClaimTellsTruth
  <2>1. holder[k] \in Grants /\ call[holder[k]][k] # "none"
    BY DEF IInv, TypeOK, HolderInv
  <2> DEFINE c == call[holder[k]][k]
  <2>2. c \in CallStatus /\ c # "none"
    BY <2>1 DEF IInv, TypeOK
  <2>3. /\ c = "requesting" => claim[k] = "requesting"
        /\ c \in {"unknown", "reconciling"} => claim[k] \in {"requesting", "unknown"}
        /\ c = "succeeded" => claim[k] = "succeeded"
        /\ c = "failed" => claim[k] = "failed_safe" /\ k \in free[holder[k]]
    BY <2>1 DEF IInv, ClaimInv
  <2>4. /\ claim[k] = "failed_safe" => c = "failed" /\ k \in free[holder[k]]
        /\ claim[k] = "succeeded" => c = "succeeded"
    <3> HIDE DEF c
    <3> QED BY <2>2, <2>3 DEF CallStatus
  <2>5. /\ k \in free[holder[k]] => wire[holder[k]][k] = "none"
        /\ c = "succeeded" /\ k \notin free[holder[k]] => wire[holder[k]][k] = "applied"
        /\ issues[k] = IF wire[holder[k]][k] = "applied" THEN 1 ELSE 0
    BY <2>1 DEF IInv, WireInv
  <2> QED BY <2>4, <2>5
<1> QED BY <1>1, Invariance, PTL

\* _persist_result always finds the claim as it was read and the grant able to take
\* its slot back, so no answer of the adapter is dropped.
THEOREM PersistUnblocked == Spec => []PersistNeverBlocked
<1>1. IInv => PersistNeverBlocked
  <2> SUFFICES ASSUME IInv, NEW g \in Grants, NEW k \in Keys
               PROVE  /\ step[g][k] \in ExecuteSteps =>
                           /\ claim[k] = "requesting" /\ holder[k] = g
                           /\ grantOf[GrantExec[g]] = g
                           /\ gstat[g] \in {"active", "consumed"} /\ used[g] > 0
                      /\ step[g][k] = "reconcile" =>
                           claim[k] = expected[g][k] /\ holder[k] = g
    BY DEF PersistNeverBlocked
  <2>1. ASSUME step[g][k] \in ExecuteSteps
        PROVE  used[g] > 0
    <3>1. k \in Charged(g)
      BY <2>1 DEF IInv, StepInv, WireInv, Charged, ExecuteSteps
    <3>2. Cardinality(Charged(g)) # 0
      BY <3>1, ChargedFinite, FS_EmptySet
    <3> QED BY <3>2, ChargedFinite DEF IInv, GrantInv
  <2> QED BY <2>1 DEF IInv, StepInv, ClaimInv, HolderInv, WriterInv, ExecuteSteps
<1> QED BY <1>1, Invariance, PTL

-----------------------------------------------------------------------------
\* A settled claim has no coroutine, and no mutation under way.
LEMMA SettledFacts ==
  ASSUME IInv, NEW k \in Keys, claim[k] \in {"succeeded", "failed_safe"}
  PROVE  /\ holder[k] \in Grants
         /\ call[holder[k]][k] \in {"succeeded", "failed"}
         /\ \A g \in Grants : step[g][k] = "idle" /\ wire[g][k] # "sent"
<1>1. holder[k] \in Grants /\ call[holder[k]][k] # "none"
  BY DEF IInv, TypeOK, HolderInv
<1>2. call[holder[k]][k] \in {"succeeded", "failed"}
  <2>1. call[holder[k]][k] \in CallStatus \ {"none"}
    BY <1>1 DEF IInv, TypeOK
  <2>2. call[holder[k]][k] \notin {"requesting", "unknown", "reconciling"}
    BY <1>1 DEF IInv, ClaimInv
  <2> QED BY <2>1, <2>2 DEF CallStatus
<1>3. ASSUME NEW g \in Grants
      PROVE  step[g][k] = "idle"
  <2>1. step[g][k] \in Steps
    BY DEF IInv, TypeOK
  <2>2. call[g][k] \notin {"requesting", "reconciling"}
    BY DEF IInv, ClaimInv
  <2>3. step[g][k] \notin {"search", "classify", "create", "reconcile"}
    BY <2>2 DEF IInv, StepInv
  <2> QED BY <2>1, <2>3 DEF Steps
<1>4. ASSUME NEW g \in Grants
      PROVE  wire[g][k] # "sent"
  BY <1>1, <1>2, <1>4 DEF IInv, HolderInv, WireInv, ClaimInv
<1> QED BY <1>1, <1>2, <1>3, <1>4

\* One step leaves a settled key alone.
LEMMA SettledStep ==
  ASSUME IInv, [Next]_vars, NEW k \in Keys, claim[k] \in {"succeeded", "failed_safe"}
  PROVE  /\ claim'[k] = claim[k] /\ holder'[k] = holder[k] /\ issues'[k] = issues[k]
         /\ call'[holder[k]][k] = call[holder[k]][k]
<1> DEFINE Kept == /\ claim'[k] = claim[k] /\ holder'[k] = holder[k]
                   /\ issues'[k] = issues[k]
                   /\ call'[holder[k]][k] = call[holder[k]][k]
<1>0. /\ holder[k] \in Grants
      /\ call[holder[k]][k] \in {"succeeded", "failed"}
      /\ \A g \in Grants : step[g][k] = "idle" /\ wire[g][k] # "sent"
      /\ TypeOK
  BY SettledFacts DEF IInv
<1> USE <1>0 DEF TypeOK, worldVars
<1>1. ASSUME NEW e \in Execs, NEW g \in Grants, NEW C \in SUBSET Keys,
             IssueGrant(e, g, C)
      PROVE  Kept
  BY <1>1 DEF IssueGrant
<1>2. ASSUME NEW e \in Execs, NEW l \in Keys, Request(e, l)
      PROVE  Kept
  BY <1>2 DEF Request, Authorized
<1>3. ASSUME NEW g \in Grants, NEW l \in Keys, ExecuteStep(g, l)
      PROVE  Kept
  <2>1. l # k
    BY <1>3 DEF ExecuteStep, SearchMiss, SendCreate, ReturnsRefused, ReturnsReused,
       ReturnsFree, ReturnsCreated, ReturnsUnknown, ExecuteSteps
  <2>2. CASE SearchMiss(g, l) \/ SendCreate(g, l)
    BY <2>2 DEF SearchMiss, SendCreate
  <2>3. ASSUME NEW was, NEW callTo, NEW claimTo, PersistCall(g, l, was, callTo, claimTo)
        PROVE  Kept
    BY <2>1, <2>3 DEF PersistCall
  <2> QED
    BY <1>3, <2>2, <2>3 DEF ExecuteStep, ReturnsRefused, ReturnsReused, ReturnsFree,
       ReturnsCreated, ReturnsUnknown
<1>4. ASSUME NEW g \in Grants, NEW l \in Keys, ReconcileStep(g, l)
      PROVE  Kept
  <2>1. l # k
    BY <1>4 DEF ReconcileStep, BeginReconcile, ReconcileFound, ReconcileUnknown, IInv, ClaimInv
  <2>2. CASE BeginReconcile(g, l)
    BY <2>1, <2>2 DEF BeginReconcile
  <2>3. ASSUME NEW was, NEW callTo, NEW claimTo, PersistCall(g, l, was, callTo, claimTo)
        PROVE  Kept
    BY <2>1, <2>3 DEF PersistCall
  <2> QED
    BY <1>4, <2>2, <2>3 DEF ReconcileStep, ReconcileFound, ReconcileUnknown
<1>5. ASSUME NEW e \in Execs, Interrupt(e)
      PROVE  Kept
  BY <1>5 DEF Interrupt
<1>6. ASSUME NEW E \in SUBSET Execs, Recover(E)
      PROVE  Kept
  BY <1>6 DEF Recover, Unresolved
<1>7. ASSUME NEW g \in Grants, NEW l \in Keys, Apply(g, l) \/ Lose(g, l)
      PROVE  Kept
  BY <1>7 DEF Apply, Lose
<1>8. ASSUME NEW g \in Grants, Expire(g)
      PROVE  Kept
  BY <1>8 DEF Expire
<1>9. CASE Crash
  BY <1>9 DEF Crash
<1>10. CASE UNCHANGED vars
  BY <1>10 DEF vars
<1> QED
  BY <1>1, <1>2, <1>3, <1>4, <1>5, <1>6, <1>7, <1>8, <1>9, <1>10 DEF Next

\* A settled claim, its ToolCall and its issue count never change again.
THEOREM SettledHolds == Spec => SettledForever
<1> DEFINE Kept == \A k \in Keys : claim[k] \in {"succeeded", "failed_safe"} =>
             /\ claim'[k] = claim[k] /\ holder'[k] = holder[k] /\ issues'[k] = issues[k]
             /\ call'[holder[k]][k] = call[holder[k]][k]
<1>1. IInv /\ [Next]_vars => [Kept]_vars
  BY SettledStep
<1> HIDE DEF Kept
<1>2. Spec => [][Kept]_vars
  BY <1>1, Invariance, PTL DEF Spec
<1> QED BY <1>2 DEF Kept, SettledForever

-----------------------------------------------------------------------------
\* The phase of one key changes with its claim.
LEMMA PhaseUpdate ==
  ASSUME TypeOK, NEW k \in Keys, NEW c, claim' = [claim EXCEPT ![k] = c]
  PROVE  [l \in Keys |-> PhaseOf(claim'[l])]
           = [[l \in Keys |-> PhaseOf(claim[l])] EXCEPT ![k] = PhaseOf(c)]
BY DEF TypeOK

\* What each claim status shows of the one-shot action.
LEMMA PhaseValues ==
  /\ PhaseOf("none") = "idle" /\ PhaseOf("requesting") = "open"
  /\ PhaseOf("unknown") = "open" /\ PhaseOf("succeeded") = "confirmed"
  /\ PhaseOf("failed_safe") = "refused"
BY DEF PhaseOf

\* Steps of ToolExecutor are steps of OneShotAction or leave it alone.
LEMMA SimulationStep ==
  ASSUME IInv, IInv', [Next]_vars
  PROVE  [Promise!Next]_(Promise!avars)
<1> DEFINE Phase == [k \in Keys |-> PhaseOf(claim[k])]
<1> DEFINE Same == Phase' = Phase /\ issues' = issues
<1> USE GrantAssumption DEF IInv, TypeOK, worldVars
<1>1. ASSUME NEW e \in Execs, NEW k \in Keys, Request(e, k)
      PROVE  Promise!Open(k)
  <2>1. Phase' = [Phase EXCEPT ![k] = "open"]
    BY <1>1, PhaseUpdate, PhaseValues DEF Request
  <2> QED BY <1>1, <2>1, PhaseValues DEF Request, Promise!Open
<1>0. ASSUME NEW g \in Grants, NEW k \in Keys, NEW was \in {"requesting", "unknown"},
             NEW callTo, NEW claimTo \in {"unknown", "succeeded", "failed_safe"},
             PersistCall(g, k, was, callTo, claimTo)
      PROVE  /\ claimTo = "unknown" => Same
             /\ claimTo = "succeeded" => Promise!Confirm(k)
             /\ claimTo = "failed_safe" /\ issues[k] = 0 => Promise!Refuse(k)
  <2>1. Phase' = [Phase EXCEPT ![k] = PhaseOf(claimTo)]
    BY <1>0, PhaseUpdate DEF PersistCall
  <2>2. Phase[k] = "open" /\ issues' = issues
    BY <1>0, PhaseValues DEF PersistCall
  <2>3. CASE claimTo = "unknown"
    <3>1. \A l \in Keys : PhaseOf(claim'[l]) = PhaseOf(claim[l])
      BY <1>0, <2>3, PhaseValues DEF PersistCall
    <3> QED BY <2>2, <2>3, <3>1
  <2>4. CASE claimTo = "succeeded"
    BY <2>1, <2>2, <2>4, PhaseValues DEF Promise!Confirm
  <2>5. CASE claimTo = "failed_safe"
    BY <2>1, <2>2, <2>5, PhaseValues DEF Promise!Refuse
  <2> QED BY <2>3, <2>4, <2>5
<1>2. ASSUME NEW g \in Grants, NEW k \in Keys, ExecuteStep(g, k)
      PROVE  Same \/ Promise!Confirm(k) \/ Promise!Refuse(k)
  <2>1. CASE SearchMiss(g, k) \/ SendCreate(g, k)
    BY <2>1 DEF SearchMiss, SendCreate
  <2>2. CASE ReturnsRefused(g, k)
    <3>1. holder[k] = g /\ wire[g][k] = "none"
      BY <2>2 DEF ReturnsRefused, ReturnsFree, PersistCall, StepInv
    <3>2. issues[k] = 0
      BY <3>1 DEF WireInv
    <3> QED BY <1>0, <2>2, <3>2 DEF ReturnsRefused, ReturnsFree
  <2>3. CASE ReturnsReused(g, k)
    BY <1>0, <2>3 DEF ReturnsReused, ReturnsFree
  <2>4. CASE ReturnsCreated(g, k)
    BY <1>0, <2>4 DEF ReturnsCreated
  <2>5. CASE ReturnsUnknown(g, k)
    BY <1>0, <2>5 DEF ReturnsUnknown
  <2> QED BY <1>2, <2>1, <2>2, <2>3, <2>4, <2>5 DEF ExecuteStep
<1>3. ASSUME NEW g \in Grants, NEW k \in Keys, ReconcileStep(g, k)
      PROVE  Same \/ Promise!Confirm(k)
  <2>1. CASE BeginReconcile(g, k)
    BY <2>1 DEF BeginReconcile
  <2>2. step[g][k] = "reconcile" => expected[g][k] \in {"requesting", "unknown"}
    BY DEF StepInv, ClaimInv
  <2>3. CASE ReconcileFound(g, k)
    BY <1>0, <2>2, <2>3 DEF ReconcileFound
  <2>4. CASE ReconcileUnknown(g, k)
    BY <1>0, <2>2, <2>4 DEF ReconcileUnknown
  <2> QED BY <1>3, <2>1, <2>3, <2>4 DEF ReconcileStep
<1>4. ASSUME NEW g \in Grants, NEW k \in Keys, Apply(g, k)
      PROVE  Promise!Make(k)
  <2>1. /\ holder[k] = g /\ issues[k] = 0
        /\ call[g][k] \in {"requesting", "unknown", "reconciling"}
    BY <1>4 DEF Apply, WireInv, HolderInv, ClaimInv, CallStatus
  <2>2. claim[k] \in {"requesting", "unknown"}
    BY <2>1 DEF ClaimInv
  <2> QED BY <1>4, <2>1, <2>2, PhaseValues DEF Apply, Promise!Make
<1>5. ASSUME \/ \E e \in Execs, g \in Grants, C \in SUBSET Keys : IssueGrant(e, g, C)
             \/ \E e \in Execs : Interrupt(e)
             \/ \E E \in SUBSET Execs : Recover(E)
             \/ \E g \in Grants, k \in Keys : Lose(g, k)
             \/ \E g \in Grants : Expire(g)
             \/ Crash
             \/ UNCHANGED vars
      PROVE  Same
  BY <1>5 DEF IssueGrant, Interrupt, Recover, Lose, Expire, Crash, vars
<1> QED
  BY <1>1, <1>2, <1>3, <1>4, <1>5 DEF Next, Promise!Next, Promise!avars

\* The executor, its coroutines, its crashes and the task system implement the one-shot
\* action of OneShotAction.
THEOREM Refinement == Spec => KeepsPromise
<1>1. Init => Promise!Init
  BY DEF Init, Promise!Init, PhaseOf
<1>2. IInv /\ IInv' /\ [Next]_vars => [Promise!Next]_(Promise!avars)
  BY SimulationStep
<1> QED BY <1>1, <1>2, Invariance, PTL DEF Spec, KeepsPromise, Promise!Spec

=============================================================================
