-------------------------- MODULE CapabilityBroker --------------------------
(***************************************************************************)
(* The capability boundary between a plugin process and the Host:          *)
(* plugins/broker.py, the `invoke` handler of plugins/bootstrap.py and the *)
(* adapters they reach.  The handler holds one write lock and one          *)
(* transaction, so every capability but model.invoke is a single step that *)
(* commits on success and rolls back on failure; model.invoke commits its  *)
(* pending row, gives the lock up for the remote call and takes it back.   *)
(***************************************************************************)
EXTENDS Integers, Sequences, FiniteSets

CONSTANTS
  CallKeys,      \* idempotency keys the plugin uses
  Bodies,        \* request payloads; a Nat, the size of the value for state.put
  StateItems,    \* keys of the plugin's state
  StateQuota,    \* state_quota_bytes
  Hosts,         \* network destinations
  Resolves,      \* what each of them may resolve to, from one resolution to the next
  GrantedHosts,  \* "destinations" of the session's network grant
  FetchCalls,    \* "max_calls" of that grant
  MaxRedirects,  \* max_redirects
  ModelSlots,    \* model_concurrency
  MaxRequests,   \* bound: requests the plugin makes
  MaxHostDeaths  \* bound: times the Host process dies

\* The result of a resolution: "private" when an address of it is not global.
Addresses == {"public", "private"}

ASSUME BrokerAssumption ==
  /\ Bodies \subseteq Nat /\ StateQuota \in Nat /\ MaxRedirects \in Nat
  /\ Resolves \in [Hosts -> SUBSET Addresses] /\ GrantedHosts \subseteq Hosts
  /\ IsFiniteSet(StateItems)

VARIABLES
  invocation,  \* PluginCapabilityInvocationRecord by key
  fetches,     \* rows of network.fetch, which has no key: they spend the grant
  item,        \* PluginStateItemRecord by state key
  shownView,   \* PluginUIViewRecord of the session
  documents,   \* PluginDocumentRecord contents, one per document_version
  accepted,    \* requests with a MeetingPluginOperationRecord
  authority,   \* whether the session's grants are active
  remote,      \* the model calls under way: "none", "queued" or "calling"
  effects,     \* history: effects of each key (rows written, model calls made)
  answers,     \* history: what the plugin was told, <<key, call, result>>
  contacted,   \* history: the hops network.fetch connected to
  requests, deaths

brokerVars == <<invocation, fetches, item, shownView, documents, accepted, authority, remote, effects,
                answers, contacted, requests, deaths>>

NoRow == [call |-> "none", body |-> 0, status |-> "none", result |-> 0]

Keyed == {"model.invoke", "document.publish", "meeting.execution.submit"}

BrokerTypeOK ==
  /\ invocation \in [CallKeys -> [call : Keyed \cup {"none"}, body : Bodies \cup {0},
                                  status : {"none", "pending", "completed", "failed"}, result : Nat]]
  /\ item \in [StateItems -> [version : Nat, size : Nat]]
  /\ remote \in [CallKeys -> {"none", "queued", "calling"}]
  /\ shownView \in [version : Nat, body : Nat] /\ documents \in Seq(Bodies)
  /\ accepted \subseteq Bodies /\ authority \in BOOLEAN

BrokerInit ==
  /\ invocation = [k \in CallKeys |-> NoRow] /\ fetches = 0
  /\ item = [i \in StateItems |-> [version |-> 0, size |-> 0]]
  /\ shownView = [version |-> 0, body |-> 0] /\ documents = <<>> /\ accepted = {}
  /\ authority = TRUE
  /\ remote = [k \in CallKeys |-> "none"]
  /\ effects = [k \in CallKeys |-> 0] /\ answers = {} /\ contacted = {}
  /\ requests = 0 /\ deaths = 0

Asked == requests < MaxRequests /\ requests' = requests + 1

\* create_capability_invocation on a key that has a row: the same capability
\* and the same request hash, or the request is refused.
SameRequest(k, call, body) == invocation[k].call = call /\ invocation[k].body = body

Answered(k, call, result) == answers' = answers \cup {<<k, call, result>>}

\* Mutant: the stored request is not compared.
ResumeAny(k, call, body) ==
  /\ Asked /\ invocation[k] # NoRow
  /\ IF invocation[k].status = "completed" THEN Answered(k, call, invocation[k].result) ELSE UNCHANGED answers
  /\ UNCHANGED <<invocation, fetches, item, shownView, documents, accepted, authority, remote, effects,
                 contacted, deaths>>

\* invoke and _resume_existing for a key that has a row.  Only a completed row
\* answers; a row that is pending, failed or of another request raises.
ResumeCall(k, call, body) ==
  /\ Asked /\ invocation[k] # NoRow
  /\ IF SameRequest(k, call, body) /\ invocation[k].status = "completed"
       THEN Answered(k, call, invocation[k].result)
       ELSE UNCHANGED answers
  /\ UNCHANGED <<invocation, fetches, item, shownView, documents, accepted, authority, remote, effects,
                 contacted, deaths>>

Effect(k) == effects' = [effects EXCEPT ![k] = @ + 1]

\* The row, the effect and the answer of a local capability are one commit.
CompletedCall(k, call, body, result) ==
  /\ invocation' = [invocation EXCEPT ![k] = [call |-> call, body |-> body, status |-> "completed",
                                              result |-> result]]
  /\ Effect(k) /\ Answered(k, call, result)

\* Any exception before that commit: the handler rolls the row back.
RolledBack ==
  /\ Asked
  /\ UNCHANGED <<invocation, fetches, item, shownView, documents, accepted, authority, remote, effects,
                 answers, contacted, deaths>>

\* PluginDocumentRepository.publish: a version is appended unless the newest
\* has the same content hash; its number is the answer.
Published(body) ==
  IF documents # <<>> /\ documents[Len(documents)] = body THEN documents ELSE Append(documents, body)

PublishDocument(k, body) ==
  /\ Asked /\ invocation[k] = NoRow
  /\ documents' = Published(body)
  /\ CompletedCall(k, "document.publish", body, Len(Published(body)))
  /\ UNCHANGED <<fetches, item, shownView, accepted, authority, remote, contacted, deaths>>

\* MeetingCapabilityAdapter.invoke: preflight, the matching grant and admit,
\* which returns the operation the request already has.
SubmitExecution(k, body) ==
  /\ Asked /\ invocation[k] = NoRow /\ authority
  /\ accepted' = accepted \cup {body}
  /\ CompletedCall(k, "meeting.execution.submit", body, body)
  /\ UNCHANGED <<fetches, item, shownView, documents, authority, remote, contacted, deaths>>

Total(f) ==
  LET sum[s \in SUBSET DOMAIN f] ==
        IF s = {} THEN 0 ELSE LET i == CHOOSE x \in s : TRUE IN f[i].size + sum[s \ {i}]
  IN sum[DOMAIN f]

\* Mutant: the quota looks at the other items only.
PutStateOthers(i, expected, size) ==
  /\ Asked
  /\ item[i].version = expected
  /\ Total(item) - item[i].size <= StateQuota
  /\ item' = [item EXCEPT ![i] = [version |-> @.version + 1, size |-> size]]
  /\ UNCHANGED <<invocation, fetches, shownView, documents, accepted, authority, remote, effects, answers,
                 contacted, deaths>>

\* put_state: optimistic version and quota.  No key is required.
PutState(i, expected, size) ==
  /\ Asked
  /\ item[i].version = expected
  /\ Total(item) - item[i].size + size <= StateQuota
  /\ item' = [item EXCEPT ![i] = [version |-> @.version + 1, size |-> size]]
  /\ UNCHANGED <<invocation, fetches, shownView, documents, accepted, authority, remote, effects, answers,
                 contacted, deaths>>

\* publish_view: a repeated version with the same body is accepted, an older
\* or a reused one is refused.
PublishView(version, body) ==
  /\ Asked
  /\ \/ version > shownView.version
     \/ version = shownView.version /\ body = shownView.body
  /\ shownView' = [version |-> version, body |-> body]
  /\ UNCHANGED <<invocation, fetches, item, documents, accepted, authority, remote, effects, answers,
                 contacted, deaths>>

\* A hop of a fetch: its host is resolved by _validate_network_target (checked) and, after an
\* await, once more by the HTTP client that connects (reached).
Hops ==
  {hop \in [host : Hosts, checked : Addresses, reached : Addresses] :
     {hop.checked, hop.reached} \subseteq Resolves[hop.host]}

\* _network_fetch: what was resolved and the grant are checked before the client is called;
\* what the client resolves is not.  A redirect goes round again, at most MaxRedirects times.
Contactable(hop) == hop.checked = "public" /\ hop.host \in GrantedHosts

\* Mutant: only the requested URL is checked.
ReachedFirst(chain) ==
  {chain[n] : n \in {m \in 1..Len(chain) : m <= MaxRedirects + 1 /\ Contactable(chain[1])}}

\* The hops of a chain that are contacted, up to the first one refused.
Reached(chain) ==
  {chain[n] : n \in {m \in 1..Len(chain) : m <= MaxRedirects + 1 /\ \A j \in 1..m : Contactable(chain[j])}}

\* PermissionEvaluator.authorize: what leaves the Host needs an active grant of the session
\* with calls left, counted in the rows that were kept; what it was installed for needs none.
NeedsGrant == {"network.fetch"}

Authorize(call, made) == call \in NeedsGrant => authority /\ made < FetchCalls

\* The row is kept when the last hop answers acceptably (fine); otherwise the
\* exception rolls it back although the hops were contacted.
Fetch(chain, fine) ==
  /\ Asked /\ Authorize("network.fetch", fetches)
  /\ contacted' = contacted \cup Reached(chain)
  /\ fetches' = IF fine /\ Len(chain) <= MaxRedirects + 1 /\ \A n \in DOMAIN chain : Contactable(chain[n])
                  THEN fetches + 1 ELSE fetches
  /\ UNCHANGED <<invocation, item, shownView, documents, accepted, authority, remote, effects, answers,
                 deaths>>

\* Mutant: a pending row does not stop a repetition.
ModelBeginAgain(k, body) ==
  /\ Asked /\ invocation[k].status \in {"none", "pending"} /\ remote[k] = "none"
  /\ invocation' = [invocation EXCEPT ![k] = [call |-> "model.invoke", body |-> body, status |-> "pending",
                                              result |-> 0]]
  /\ remote' = [remote EXCEPT ![k] = "queued"]
  /\ UNCHANGED <<fetches, item, shownView, documents, accepted, authority, effects, answers, contacted,
                 deaths>>

\* model.invoke up to model_call_scope: the pending row is committed.
ModelBegin(k, body) ==
  /\ Asked /\ invocation[k] = NoRow
  /\ invocation' = [invocation EXCEPT ![k] = [call |-> "model.invoke", body |-> body, status |-> "pending",
                                              result |-> 0]]
  /\ remote' = [remote EXCEPT ![k] = "queued"]
  /\ UNCHANGED <<fetches, item, shownView, documents, accepted, authority, effects, answers, contacted,
                 deaths>>

Calling == {k \in CallKeys : remote[k] = "calling"}

\* The model semaphore and the start of the remote call.
ModelCall(k) ==
  /\ remote[k] = "queued" /\ Cardinality(Calling) < ModelSlots
  /\ remote' = [remote EXCEPT ![k] = "calling"] /\ Effect(k)
  /\ UNCHANGED <<invocation, fetches, item, shownView, documents, accepted, authority, answers, contacted,
                 requests, deaths>>

\* A valid completion of the adapter, with the lock taken back.
ModelAnswers(k, result) ==
  /\ remote[k] = "calling"
  /\ remote' = [remote EXCEPT ![k] = "none"]
  /\ invocation' = [invocation EXCEPT ![k].status = "completed", ![k].result = result]
  /\ Answered(k, "model.invoke", result)
  /\ UNCHANGED <<fetches, item, shownView, documents, accepted, authority, effects, contacted, requests,
                 deaths>>

\* The timeout, a provider error or an output the adapter refuses.
ModelFails(k) ==
  /\ remote[k] = "calling"
  /\ remote' = [remote EXCEPT ![k] = "none"]
  /\ invocation' = [invocation EXCEPT ![k].status = "failed"]
  /\ UNCHANGED <<fetches, item, shownView, documents, accepted, authority, effects, answers, contacted,
                 requests, deaths>>

\* revoke on disable and the expiry of cleanup_expired_authority.
AuthorityEnds ==
  /\ authority /\ authority' = FALSE
  /\ UNCHANGED <<invocation, fetches, item, shownView, documents, accepted, remote, effects, answers,
                 contacted, requests, deaths>>

\* The Host dies: model calls are lost, their rows stay pending.
HostDies ==
  /\ deaths < MaxHostDeaths /\ deaths' = deaths + 1
  /\ remote' = [k \in CallKeys |-> "none"]
  /\ UNCHANGED <<invocation, fetches, item, shownView, documents, accepted, authority, effects, answers,
                 contacted, requests>>

BrokerNext ==
  \/ \E k \in CallKeys, body \in Bodies :
       \/ \E call \in Keyed : ResumeCall(k, call, body)
       \/ PublishDocument(k, body)
       \/ SubmitExecution(k, body)
       \/ ModelBegin(k, body)
       \/ ModelAnswers(k, body)
  \/ RolledBack
  \/ \E i \in StateItems, size \in Bodies : \E expected \in 0..item[i].version : PutState(i, expected, size)
  \/ \E version \in 1..2, body \in Bodies : PublishView(version, body)
  \/ \E first \in Hops, fine \in BOOLEAN : \E then \in {<<>>} \cup {<<hop>> : hop \in Hops} :
       Fetch(<<first>> \o then, fine)
  \/ \E k \in CallKeys : ModelCall(k) \/ ModelFails(k)
  \/ AuthorityEnds
  \/ HostDies

BrokerSpec == BrokerInit /\ [][BrokerNext]_brokerVars

-----------------------------------------------------------------------------

\* A key has at most one effect (a document, an admitted operation, a remote
\* model call), however often, with whatever request, and after whichever death
\* of the Host it is used again; and every answer to it is the same.
KeyedOnce ==
  /\ \A k \in CallKeys : effects[k] <= 1
  /\ \A a, b \in answers : a[1] = b[1] => a = b

\* The state of a plugin never exceeds its quota, in whatever order its items
\* grow, shrink and are replaced.
QuotaHeld == Total(item) <= StateQuota

\* No hop of a redirect chain is contacted unless its host is in the grant and was resolved,
\* for this hop, to public addresses: a redirect is checked like the requested URL.
FetchConfined == \A hop \in contacted : Contactable(hop)

\* No private address is contacted (docs/plugin-security.md:40).  Not so: the client resolves
\* the name again, and the name may by then resolve to something else.
PublicReached == \A hop \in contacted : hop.reached = "public"

\* Keys, the quota of state and the checks of a fetch hold through retries, changed
\* requests, redirects, concurrent model calls and deaths of the Host.
BrokerSafe == BrokerTypeOK /\ KeyedOnce /\ QuotaHeld /\ FetchConfined

=============================================================================
