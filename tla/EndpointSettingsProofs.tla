----------------------- MODULE EndpointSettingsProofs -----------------------
(***************************************************************************)
(* Proofs about what the pages show and ask for.  The settings: whatever   *)
(* is saved, cancelled, restored, deployed or resolved, and for every set  *)
(* of presets, addresses and deployments, the snapshot service is only     *)
(* asked about the cluster the pages read from.  After them the client of  *)
(* that service, the status and the actions of a proposal, what is known   *)
(* of the connected wallet, when phases end, and the tables of voters.     *)
(***************************************************************************)
EXTENDS EndpointSettings, Integers, Sequences, TLAPS, FiniteSetTheorems, SequenceTheorems

\* An endpoint that can be in force: a preset with an address of its cluster,
\* or an address the user typed.
Usable(e) ==
    /\ e.type # "custom" => e.type \in Presets /\ ClusterOf[e.url] = e.type
    /\ e.type = "custom" => e.url \in CustomUrls

\* What storage restores is usable, what the form holds can be saved, and an answer
\* about the network is one about the address in force.
SettingsInv ==
    /\ loaded \in Deployments /\ deployed \in Deployments
    /\ Usable(endpoint)
    /\ stored.rpc \in {None, Garbage} \/ Usable(stored.rpc)
    /\ form.selected \in Types /\ form.custom \in CustomUrls \cup {Invalid}
    /\ genesis.data \in {None, ClusterOf[endpoint.url]}

\* A preset with its address, of whichever deployment, is usable.
LEMMA PresetIsUsable ==
    ASSUME NEW d \in Deployments, NEW p \in Presets
    PROVE  Usable([type |-> p, url |-> RPC_URLS[d][p]])
BY SettingsAssumption DEF Usable

\* What a load of the page puts in force is usable.
LEMMA RestoredIsUsable ==
    ASSUME NEW d \in Deployments, stored.rpc \in {None, Garbage} \/ Usable(stored.rpc)
    PROVE  Usable(getStoredValues(d))
BY PresetIsUsable, SettingsAssumption DEF getStoredValues, DefaultEndpoint

\* The invariant holds when the page is first loaded, whatever storage holds.
LEMMA InitialSettings == Init => SettingsInv
<1> SUFFICES ASSUME Init PROVE SettingsInv
  OBVIOUS
<1>1. stored.rpc \in {None, Garbage} \/ Usable(stored.rpc)
  <2>1. stored.rpc \in {None, Garbage} \cup SavedEndpoints
    BY DEF Init
  <2>2. ASSUME NEW e \in SavedEndpoints PROVE Usable(e)
    <3>1. CASE e.type = "custom"
      BY <3>1 DEF SavedEndpoints, Usable
    <3>2. CASE e.type # "custom"
      <4>1. e.type \in Presets
        BY <3>2 DEF SavedEndpoints, Endpoint, Types
      <4>2. PICK d \in Deployments : e.url = RPC_URLS[d][e.type]
        BY <3>2 DEF SavedEndpoints
      <4>3. QED
        BY <3>2, <4>1, <4>2, SettingsAssumption DEF Usable
    <3>3. QED
      BY <3>1, <3>2
  <2>3. QED
    BY <2>1, <2>2
<1>2. loaded \in Deployments /\ deployed \in Deployments
  BY DEF Init
<1>3. Usable(endpoint)
  BY <1>1, <1>2, RestoredIsUsable DEF Init
<1>4. form.selected \in Types /\ form.custom \in CustomUrls \cup {Invalid}
  BY <1>3 DEF Init, Usable, Types
<1>5. genesis.data \in {None, ClusterOf[endpoint.url]}
  BY DEF Init, NoAnswer
<1>6. QED
  BY <1>1, <1>2, <1>3, <1>4, <1>5 DEF SettingsInv

\* The address of a form that can be saved is usable with the selected type.
LEMMA SavedIsUsable ==
    ASSUME SettingsInv, canSave
    PROVE  Usable([type |-> form.selected, url |-> SelectedUrl])
<1>1. CASE form.selected = "custom"
  BY <1>1 DEF SettingsInv, canSave, SelectedUrl, Usable
<1>2. CASE form.selected # "custom"
  <2>1. form.selected \in Presets
    BY <1>2 DEF SettingsInv, Types
  <2>2. QED
    BY <1>2, <2>1, PresetIsUsable DEF SettingsInv, SelectedUrl
<1>3. QED
  BY <1>1, <1>2

\* Every step keeps the invariant.
LEMMA SettingsStep == SettingsInv /\ [Next]_vars => SettingsInv'
<1> SUFFICES ASSUME SettingsInv, [Next]_vars PROVE SettingsInv'
  OBVIOUS
<1> USE DEF SettingsInv
<1>1. CASE Open
  BY <1>1 DEF Open, Usable, Types
<1>2. CASE handleSave
  <2>1. /\ endpoint' = [type |-> form.selected, url |-> SelectedUrl]
        /\ stored'.rpc = endpoint' /\ genesis'.data = None /\ canSave
        /\ UNCHANGED <<deployed, loaded, form>>
    BY <1>2 DEF handleSave, NoAnswer
  <2>2. Usable(endpoint') /\ Usable(stored'.rpc)
    BY <2>1, SavedIsUsable
  <2>3. QED
    BY <2>1, <2>2 DEF Usable
<1>3. CASE handleClose
  BY <1>3, SettingsAssumption DEF handleClose, Types, Usable
<1>4. ASSUME NEW t \in Types, Select(t) PROVE SettingsInv'
  BY <1>4 DEF Select, Edit, Usable
<1>5. ASSUME NEW u \in CustomUrls \cup {Invalid}, TypeCustom(u) PROVE SettingsInv'
  BY <1>5 DEF TypeCustom, Edit, Usable
<1>6. ASSUME NEW u \in ApiUrls \cup {Invalid}, TypeApi(u) PROVE SettingsInv'
  BY <1>6 DEF TypeApi, Edit, Usable
<1>7. CASE resolveSnapshotNetwork
  BY <1>7 DEF resolveSnapshotNetwork, Usable
<1>8. CASE GenesisHash
  BY <1>8 DEF GenesisHash, networkFromGenesisHash, Usable
<1>9. CASE GenesisHashFails
  BY <1>9 DEF GenesisHashFails, Usable
<1>10. CASE Reload
  <2>1. /\ loaded' = deployed /\ endpoint' = getStoredValues(deployed)
        /\ form'.selected = endpoint'.type /\ form'.custom = Invalid
        /\ genesis'.data = None
        /\ UNCHANGED <<deployed, stored>>
    BY <1>10 DEF Reload, Load, NoAnswer
  <2>2. Usable(endpoint')
    BY <2>1, RestoredIsUsable
  <2>3. QED
    BY <2>1, <2>2 DEF Usable, Types
<1>11. CASE Deploy
  BY <1>11 DEF Deploy, Usable
<1>12. CASE UNCHANGED vars
  BY <1>12 DEF vars, Usable
<1>13. QED
  BY <1>1, <1>2, <1>3, <1>4, <1>5, <1>6, <1>7, <1>8, <1>9, <1>10, <1>11, <1>12 DEF Next

\* A request to the snapshot service is about the cluster the pages read from, for
\* every set of presets, addresses and deployments.
THEOREM NetworkIsAlwaysOfTheEndpoint == Spec => []NetworkIsOfTheEndpoint
<1>1. SettingsInv => NetworkIsOfTheEndpoint
  <2> SUFFICES ASSUME SettingsInv, requireKnownSnapshotNetwork(network)
               PROVE  ClusterOf[endpoint.url] = network
    BY DEF NetworkIsOfTheEndpoint
  <2>1. CASE endpoint.type = "custom"
    BY <2>1, SettingsAssumption
       DEF SettingsInv, requireKnownSnapshotNetwork, network, Networks
  <2>2. CASE endpoint.type # "custom"
    BY <2>2 DEF SettingsInv, network, Usable
  <2>3. QED
    BY <2>1, <2>2
<1>2. QED
  BY InitialSettings, SettingsStep, <1>1, PTL DEF Spec

-----------------------------------------------------------------------------
(* Reloads: what is in force is always what storage would restore. *)

\* Storage and the contexts agree, and every address is one.
StoredIsInForce ==
    /\ loaded \in Deployments /\ deployed \in Deployments
    /\ endpoint \in Endpoint /\ ncnApiUrl \in ApiUrls
    /\ form.selected \in Types
    /\ form.custom \in PresetUrls \cup CustomUrls \cup {Invalid}
    /\ form.api \in ApiUrls \cup {Invalid}
    /\ stored.rpc \in {None, Garbage} \cup Endpoint /\ stored.api \in {None} \cup ApiUrls
    /\ stored.rpc \in {None, Garbage} =>
          \E d \in Deployments : endpoint = DefaultEndpoint(d)
    /\ stored.rpc \notin {None, Garbage} => endpoint = stored.rpc
    /\ ncnApiUrl.host = IF stored.api = None THEN DEFAULT_NCN_API_URL.host
                        ELSE stored.api.host

\* Stripping a slash leaves the host.
LEMMA NormalizedUrl ==
    ASSUME NEW u \in ApiUrls
    PROVE  normalizeUrl(u) \in ApiUrls /\ normalizeUrl(u).host = u.host
BY SettingsAssumption DEF ApiUrls, normalizeUrl

\* The default of every deployment is an endpoint.
LEMMA DefaultIsAnEndpoint ==
    ASSUME NEW d \in Deployments
    PROVE  DefaultEndpoint(d) \in Endpoint
BY SettingsAssumption DEF DefaultEndpoint, Endpoint, Types, PresetUrls

\* What a load puts in force is of its type and agrees with storage.
LEMMA RestoredAgrees ==
    ASSUME NEW d \in Deployments,
           stored.rpc \in {None, Garbage} \cup Endpoint, stored.api \in {None} \cup ApiUrls
    PROVE  /\ getStoredValues(d) \in Endpoint /\ getStoredApi \in ApiUrls
           /\ stored.rpc \in {None, Garbage} => getStoredValues(d) = DefaultEndpoint(d)
           /\ stored.rpc \notin {None, Garbage} => getStoredValues(d) = stored.rpc
           /\ getStoredApi.host = IF stored.api = None THEN DEFAULT_NCN_API_URL.host
                                  ELSE stored.api.host
BY NormalizedUrl, DefaultIsAnEndpoint, SettingsAssumption DEF getStoredValues, getStoredApi

\* Storage and the contexts agree when the page is first loaded.
LEMMA InitiallyInForce == Init => StoredIsInForce
<1> SUFFICES ASSUME Init PROVE StoredIsInForce
  OBVIOUS
<1>1. /\ loaded \in Deployments /\ deployed \in Deployments
      /\ endpoint = getStoredValues(loaded) /\ ncnApiUrl = getStoredApi
      /\ form.selected = endpoint.type /\ form.custom = Invalid /\ form.api = ncnApiUrl
  BY DEF Init
<1>2. stored.rpc \in {None, Garbage} \cup Endpoint /\ stored.api \in {None} \cup ApiUrls
  BY DEF Init, SavedEndpoints
<1>3. form.selected \in Types
  BY <1>1, <1>2, RestoredAgrees DEF Endpoint
<1>4. QED
  BY <1>1, <1>2, <1>3, RestoredAgrees DEF StoredIsInForce

\* A form that can be saved makes an endpoint.
LEMMA SavedIsAnEndpoint ==
    ASSUME StoredIsInForce, canSave
    PROVE  [type |-> form.selected, url |-> SelectedUrl] \in Endpoint
<1>1. CASE form.selected = "custom"
  BY <1>1 DEF StoredIsInForce, canSave, SelectedUrl, Endpoint
<1>2. CASE form.selected # "custom"
  <2>1. form.selected \in Presets
    BY <1>2 DEF StoredIsInForce, Types
  <2>2. RPC_URLS[loaded][form.selected] \in PresetUrls
    BY <2>1 DEF StoredIsInForce, PresetUrls
  <2>3. QED
    BY <1>2, <2>1, <2>2 DEF SelectedUrl, Endpoint, Types
<1>3. QED
  BY <1>1, <1>2

\* Every step keeps storage and contexts together.
LEMMA InForceStep == StoredIsInForce /\ [Next]_vars => StoredIsInForce'
<1> SUFFICES ASSUME StoredIsInForce, [Next]_vars PROVE StoredIsInForce'
  OBVIOUS
<1> USE DEF StoredIsInForce
<1>a. ASSUME UNCHANGED <<endpoint, ncnApiUrl, stored, loaded>>, deployed' \in Deployments,
             form'.selected \in Types,
             form'.custom \in PresetUrls \cup CustomUrls \cup {Invalid},
             form'.api \in ApiUrls \cup {Invalid}
      PROVE  StoredIsInForce'
  BY <1>a DEF DefaultEndpoint
<1>1. CASE Open
  BY <1>1, <1>a, SettingsAssumption DEF Open, Endpoint
<1>2. CASE handleSave
  <2>1. /\ endpoint' = [type |-> form.selected, url |-> SelectedUrl]
        /\ ncnApiUrl' = normalizeUrl(normalizeUrl(form.api))
        /\ stored'.rpc = endpoint' /\ stored'.api = ncnApiUrl' /\ canSave
        /\ UNCHANGED <<deployed, loaded, form>>
    BY <1>2 DEF handleSave
  <2>2. endpoint' \in Endpoint
    BY <2>1, SavedIsAnEndpoint
  <2>3. ncnApiUrl' \in ApiUrls
    BY <2>1, NormalizedUrl DEF canSave
  <2>4. stored'.rpc \notin {None, Garbage} /\ stored'.api # None
    BY <2>1, <2>2, <2>3, SettingsAssumption
  <2>5. QED
    BY <2>1, <2>2, <2>3, <2>4
<1>3. CASE handleClose
  BY <1>3, <1>a, SettingsAssumption DEF handleClose, Types
<1>4. ASSUME NEW t \in Types, Select(t) PROVE StoredIsInForce'
  <2>1. form' = [form EXCEPT !.selected = t] /\ UNCHANGED <<deployed, loaded, stored, endpoint, ncnApiUrl>>
    BY <1>4 DEF Select, Edit
  <2>2. QED
    BY <2>1, <1>a
<1>5. ASSUME NEW u \in CustomUrls \cup {Invalid}, TypeCustom(u) PROVE StoredIsInForce'
  BY <1>5, <1>a DEF TypeCustom, Edit
<1>6. ASSUME NEW u \in ApiUrls \cup {Invalid}, TypeApi(u) PROVE StoredIsInForce'
  BY <1>6, <1>a DEF TypeApi, Edit
<1>7. CASE resolveSnapshotNetwork
  BY <1>7, <1>a DEF resolveSnapshotNetwork
<1>8. CASE GenesisHash
  BY <1>8, <1>a DEF GenesisHash
<1>9. CASE GenesisHashFails
  BY <1>9, <1>a DEF GenesisHashFails
<1>10. CASE Reload
  <2>1. /\ loaded' = deployed /\ endpoint' = getStoredValues(deployed)
        /\ ncnApiUrl' = getStoredApi
        /\ form'.selected = endpoint'.type /\ form'.custom = Invalid /\ form'.api = ncnApiUrl'
        /\ UNCHANGED <<deployed, stored>>
    BY <1>10 DEF Reload, Load
  <2>2. endpoint' \in Endpoint /\ ncnApiUrl' \in ApiUrls
    BY <2>1, RestoredAgrees
  <2>3. form'.selected \in Types
    BY <2>1, <2>2 DEF Endpoint
  <2>4. /\ stored'.rpc \in {None, Garbage} => \E d \in Deployments : endpoint' = DefaultEndpoint(d)
        /\ stored'.rpc \notin {None, Garbage} => endpoint' = stored'.rpc
        /\ ncnApiUrl'.host = IF stored'.api = None THEN DEFAULT_NCN_API_URL.host
                             ELSE stored'.api.host
    BY <2>1, RestoredAgrees
  <2>5. QED
    BY <2>1, <2>2, <2>3, <2>4 DEF DefaultEndpoint
<1>11. CASE Deploy
  BY <1>11, <1>a DEF Deploy
<1>12. CASE UNCHANGED vars
  BY <1>12, <1>a DEF vars
<1>13. QED
  BY <1>1, <1>2, <1>3, <1>4, <1>5, <1>6, <1>7, <1>8, <1>9, <1>10, <1>11, <1>12 DEF Next

\* A reload brings back the endpoint and the snapshot service that were in force,
\* whatever has been deployed since.
THEOREM ReloadAlwaysKeepsTheEndpoint == Spec => ReloadKeepsTheEndpoint
<1> DEFINE Kept ==
      /\ endpoint'.type = endpoint.type
      /\ ClusterOf[endpoint'.url] = ClusterOf[endpoint.url]
      /\ stored.rpc \in Endpoint => endpoint' = endpoint
      /\ ncnApiUrl'.host = ncnApiUrl.host
<1>1. StoredIsInForce /\ [Next]_vars => [loads' # loads => Kept]_vars
  <2> SUFFICES ASSUME StoredIsInForce, Next, loads' # loads PROVE Kept
    BY DEF vars
  <2>1. Reload
    BY DEF Next, Open, handleSave, handleClose, Select, TypeCustom, TypeApi, Edit,
           resolveSnapshotNetwork, GenesisHash, GenesisHashFails, Deploy
  <2>2. endpoint' = getStoredValues(deployed) /\ ncnApiUrl' = getStoredApi
    BY <2>1 DEF Reload, Load
  <2>3. ncnApiUrl'.host = ncnApiUrl.host
    BY <2>2, RestoredAgrees DEF StoredIsInForce
  <2>4. CASE stored.rpc \in {None, Garbage}
    <3>1. PICK d \in Deployments : endpoint = DefaultEndpoint(d)
      BY <2>4 DEF StoredIsInForce
    <3>2. endpoint' = DefaultEndpoint(deployed)
      BY <2>2, <2>4, RestoredAgrees DEF StoredIsInForce
    <3>3. stored.rpc \notin Endpoint
      BY <2>4, SettingsAssumption
    <3>4. QED
      BY <2>3, <3>1, <3>2, <3>3, SettingsAssumption DEF DefaultEndpoint, StoredIsInForce
  <2>5. CASE stored.rpc \notin {None, Garbage}
    BY <2>2, <2>3, <2>5, RestoredAgrees DEF StoredIsInForce
  <2>6. QED
    BY <2>4, <2>5
<1>2. QED
  BY InitiallyInForce, InForceStep, <1>1, PTL DEF Spec, ReloadKeepsTheEndpoint

-----------------------------------------------------------------------------
(* Types of what is in force, and saving without an edit.                  *)

\* A preset's address is one of the presets', no service in force or in storage
\* has more slashes than two strippings leave, and the fields of a dialog nobody
\* has edited are those Open filled in.
UneditedInv ==
    /\ endpoint.type # "custom" => endpoint.url \in PresetUrls
    /\ stored.api # None => stored.api.slashes <= Stripped(MaxSlashes)
    /\ ncnApiUrl.slashes <= Stripped(MaxSlashes)
    /\ loads \in Nat
    /\ open /\ ~touched =>
          /\ form.selected = endpoint.type
          /\ endpoint.type = "custom" => form.custom = endpoint.url
          /\ form.api = ncnApiUrl

\* The default of a deployment has a preset's address.
LEMMA DefaultIsPreset ==
    ASSUME NEW d \in Deployments
    PROVE  DefaultEndpoint(d).url \in PresetUrls
BY SettingsAssumption DEF DefaultEndpoint, PresetUrls

\* One stripping never adds a slash; two leave at most what two can leave.
LEMMA SlashesAreStripped ==
    ASSUME NEW u \in ApiUrls
    PROVE  /\ normalizeUrl(u).slashes <= u.slashes
           /\ normalizeUrl(normalizeUrl(u)).slashes <= Stripped(MaxSlashes)
<1>1. MaxSlashes \in Nat /\ u.slashes \in 0 .. MaxSlashes
  BY SettingsAssumption DEF ApiUrls
<1>2. normalizeUrl(u).slashes = IF u.slashes = 0 THEN 0 ELSE u.slashes - 1
  BY DEF normalizeUrl, ApiUrls
<1>3. normalizeUrl(u) \in ApiUrls
  BY NormalizedUrl
<1>4. normalizeUrl(normalizeUrl(u)).slashes =
        IF normalizeUrl(u).slashes = 0 THEN 0 ELSE normalizeUrl(u).slashes - 1
  BY <1>3 DEF normalizeUrl, ApiUrls
<1> HIDE DEF normalizeUrl
<1> QED
  BY <1>1, <1>2, <1>4 DEF Stripped

\* A restored service has no more slashes than the stored one or the default.
LEMMA RestoredIsStripped ==
    ASSUME stored.api \in {None} \cup ApiUrls,
           stored.api # None => stored.api.slashes <= Stripped(MaxSlashes)
    PROVE  getStoredApi.slashes <= Stripped(MaxSlashes)
<1>1. MaxSlashes \in Nat /\ DEFAULT_NCN_API_URL.slashes = 0
  BY SettingsAssumption
<1>2. 0 <= Stripped(MaxSlashes) /\ Stripped(MaxSlashes) \in Nat
  BY <1>1 DEF Stripped
<1>3. CASE stored.api = None
  BY <1>1, <1>2, <1>3 DEF getStoredApi
<1>4. CASE stored.api # None
  <2>1. stored.api \in ApiUrls
    BY <1>4
  <2>2. normalizeUrl(stored.api).slashes <= stored.api.slashes
        /\ normalizeUrl(stored.api) \in ApiUrls
    BY <2>1, SlashesAreStripped, NormalizedUrl
  <2>3. /\ stored.api.slashes \in 0 .. MaxSlashes
        /\ normalizeUrl(stored.api).slashes \in 0 .. MaxSlashes
    BY <2>1, <2>2 DEF ApiUrls
  <2>4. getStoredApi = normalizeUrl(stored.api)
    BY <1>4 DEF getStoredApi
  <2> HIDE DEF normalizeUrl
  <2> QED
    BY <1>1, <1>2, <1>4, <2>2, <2>3, <2>4
<1> QED
  BY <1>3, <1>4

\* The first load satisfies it, whatever storage holds.
LEMMA InitiallyUnedited == Init => UneditedInv
<1> SUFFICES ASSUME Init PROVE UneditedInv
  OBVIOUS
<1>1. /\ stored.rpc \in {None, Garbage} \cup SavedEndpoints
      /\ stored.api \in {None} \cup {u \in ApiUrls : u.slashes <= Stripped(MaxSlashes)}
      /\ loaded \in Deployments
      /\ endpoint = getStoredValues(loaded) /\ ncnApiUrl = getStoredApi
      /\ ~open /\ loads = 0
  BY DEF Init
<1>2. endpoint.type # "custom" => endpoint.url \in PresetUrls
  <2>1. CASE stored.rpc \in {None, Garbage}
    BY <1>1, <2>1, DefaultIsPreset DEF getStoredValues
  <2>2. ASSUME stored.rpc \notin {None, Garbage}, endpoint.type # "custom"
        PROVE  endpoint.url \in PresetUrls
    <3>1. endpoint \in SavedEndpoints
      BY <1>1, <2>2 DEF getStoredValues
    <3>2. endpoint.type \in Presets
      BY <2>2, <3>1 DEF SavedEndpoints, Endpoint, Types
    <3>3. PICK d \in Deployments : endpoint.url = RPC_URLS[d][endpoint.type]
      BY <2>2, <3>1 DEF SavedEndpoints
    <3> QED
      BY <3>2, <3>3 DEF PresetUrls
  <2> QED
    BY <2>1, <2>2
<1>3. ncnApiUrl.slashes <= Stripped(MaxSlashes)
  BY <1>1, RestoredIsStripped
<1> QED
  BY <1>1, <1>2, <1>3 DEF UneditedInv

\* Every step keeps it.
LEMMA UneditedStep ==
    StoredIsInForce /\ UneditedInv /\ [Next]_vars => UneditedInv'
<1> SUFFICES ASSUME StoredIsInForce, UneditedInv, [Next]_vars PROVE UneditedInv'
  OBVIOUS
<1>a. ASSUME UNCHANGED <<endpoint, ncnApiUrl, stored, loads>>,
             open' /\ ~touched' =>
                /\ form'.selected = endpoint.type
                /\ endpoint.type = "custom" => form'.custom = endpoint.url
                /\ form'.api = ncnApiUrl
      PROVE  UneditedInv'
  BY <1>a DEF UneditedInv
<1>b. ASSUME UNCHANGED <<endpoint, ncnApiUrl, stored, loads, open, touched, form>>
      PROVE  UneditedInv'
  BY <1>b, <1>a DEF UneditedInv
<1>1. CASE Open
  BY <1>1, <1>a DEF Open
<1>2. CASE handleSave
  <2>1. /\ endpoint'.type = form.selected /\ endpoint'.url = SelectedUrl
        /\ ncnApiUrl' = normalizeUrl(normalizeUrl(form.api))
        /\ stored'.api = ncnApiUrl' /\ canSave /\ ~open' /\ loads' = loads
    BY <1>2 DEF handleSave
  <2>2. form.api \in ApiUrls
    BY <2>1 DEF canSave, StoredIsInForce
  <2>3. ncnApiUrl'.slashes <= Stripped(MaxSlashes)
    BY <2>1, <2>2, SlashesAreStripped
  <2>4. ASSUME endpoint'.type # "custom" PROVE endpoint'.url \in PresetUrls
    BY <2>1, <2>4 DEF SelectedUrl, StoredIsInForce, Types, PresetUrls
  <2> QED
    BY <2>1, <2>3, <2>4 DEF UneditedInv
<1>3. CASE handleClose
  BY <1>3, <1>a DEF handleClose
<1>4. ASSUME NEW f, Edit(f) PROVE UneditedInv'
  BY <1>4, <1>a DEF Edit
<1>5. CASE \E t \in Types : Select(t)
  BY <1>5, <1>4 DEF Select
<1>6. CASE \E u \in CustomUrls \cup {Invalid} : TypeCustom(u)
  BY <1>6, <1>4 DEF TypeCustom
<1>7. CASE \E u \in ApiUrls \cup {Invalid} : TypeApi(u)
  BY <1>7, <1>4 DEF TypeApi
<1>8. CASE resolveSnapshotNetwork \/ GenesisHash \/ GenesisHashFails \/ Deploy
  BY <1>8, <1>b DEF resolveSnapshotNetwork, GenesisHash, GenesisHashFails, Deploy
<1>9. CASE Reload
  <2>1. /\ endpoint' = getStoredValues(deployed) /\ ncnApiUrl' = getStoredApi
        /\ ~open' /\ loads' = loads + 1 /\ stored' = stored /\ deployed \in Deployments
    BY <1>9 DEF Reload, Load, StoredIsInForce
  <2>2. endpoint'.type # "custom" => endpoint'.url \in PresetUrls
    <3>1. CASE stored.rpc \in {None, Garbage}
      BY <2>1, <3>1, DefaultIsPreset DEF getStoredValues
    <3>2. CASE stored.rpc \notin {None, Garbage}
      BY <2>1, <3>2 DEF getStoredValues, StoredIsInForce, UneditedInv
    <3> QED
      BY <3>1, <3>2
  <2>3. ncnApiUrl'.slashes <= Stripped(MaxSlashes)
    BY <2>1, RestoredIsStripped DEF StoredIsInForce, UneditedInv
  <2> QED
    BY <2>1, <2>2, <2>3 DEF UneditedInv
<1>10. CASE UNCHANGED vars
  BY <1>10, <1>b DEF vars
<1> QED
  BY <1>1, <1>2, <1>3, <1>5, <1>6, <1>7, <1>8, <1>9, <1>10 DEF Next

\* What is in force has its type at all times: a usable address and a service
\* from whose address the slashes were stripped.
THEOREM SettingsAreTyped == Spec => []SettingsTypeOK
<1>1. SettingsInv /\ StoredIsInForce /\ UneditedInv => SettingsTypeOK
  BY DEF SettingsInv, Usable, StoredIsInForce, UneditedInv, SettingsTypeOK
<1> QED
  BY InitialSettings, SettingsStep, InitiallyInForce, InForceStep, InitiallyUnedited,
     UneditedStep, <1>1, PTL DEF Spec

\* Opening the settings and saving them without an edit changes neither the kind
\* of endpoint nor its cluster nor the service, also after a Cancel and after a
\* deployment that gave the presets other addresses.
THEOREM UneditedSavesKeep == Spec => [][UneditedSaveKeeps]_vars
<1>1. SettingsInv /\ StoredIsInForce /\ UneditedInv /\ [Next]_vars
         => [UneditedSaveKeeps]_vars
  <2> SUFFICES ASSUME SettingsInv, StoredIsInForce, UneditedInv, Next,
                      open, ~open', ~touched, loads' = loads
               PROVE  /\ endpoint'.type = endpoint.type
                      /\ ClusterOf[endpoint'.url] = ClusterOf[endpoint.url]
                      /\ ncnApiUrl'.host = ncnApiUrl.host
    BY DEF UneditedSaveKeeps
  <2>1. handleSave \/ handleClose \/ Reload
    BY DEF Next, Open, Select, TypeCustom, TypeApi, Edit, resolveSnapshotNetwork,
       GenesisHash, GenesisHashFails, Deploy
  <2>2. ~ Reload
    BY DEF Reload, UneditedInv
  <2>3. CASE handleClose
    BY <2>3 DEF handleClose
  <2>4. CASE handleSave
    <3>1. /\ endpoint'.type = form.selected /\ endpoint'.url = SelectedUrl
          /\ ncnApiUrl' = normalizeUrl(normalizeUrl(form.api))
          /\ form.selected = endpoint.type /\ form.api = ncnApiUrl
          /\ endpoint.type = "custom" => form.custom = endpoint.url
      BY <2>4 DEF handleSave, UneditedInv
    <3>2. ncnApiUrl'.host = ncnApiUrl.host
      BY <3>1, NormalizedUrl DEF StoredIsInForce
    <3>3. CASE endpoint.type = "custom"
      BY <3>1, <3>2, <3>3 DEF SelectedUrl
    <3>4. CASE endpoint.type # "custom"
      <4>1. endpoint.type \in Presets /\ ClusterOf[endpoint.url] = endpoint.type
        BY <3>4 DEF SettingsInv, Usable
      <4>2. endpoint'.url = RPC_URLS[loaded][endpoint.type] /\ loaded \in Deployments
        BY <3>1, <3>4 DEF SelectedUrl, StoredIsInForce
      <4>3. ClusterOf[endpoint'.url] = endpoint.type
        BY <4>1, <4>2, SettingsAssumption
      <4> QED
        BY <3>1, <3>2, <4>1, <4>3
    <3> QED
      BY <3>3, <3>4
  <2> QED
    BY <2>1, <2>2, <2>3, <2>4
<1> QED
  BY InitialSettings, SettingsStep, InitiallyInForce, InForceStep, InitiallyUnedited,
     UneditedStep, <1>1, PTL DEF Spec

-----------------------------------------------------------------------------
(***************************************************************************)
(* How the snapshot service is asked (NcnApiClient), for any number of     *)
(* retries of the call and of the query client.                            *)
(***************************************************************************)
CONSTANTS MaxRetries, MaxQueryRetries, MaxFetches
VARIABLES pc, kind, status, error, retry, failures, aborted, report, fetches,
          requests, seen, transient

Api == INSTANCE NcnApiClient

Attempting == {"send", "fetch", "body", "errorBody"}

\* One attempt more has failed than there were retries, if it failed for a while.
Counted == transient = retry + (IF Api!IsTransient(error) THEN 1 ELSE 0)

\* The attempts of a call are counted; what it throws is what an attempt ended
\* with, and only after the last attempt if another might have helped.
ApiInv ==
    /\ Api!ApiTypeOK
    /\ pc \in Attempting => transient = retry
    /\ pc = "errorBody" => status \in {"missing", "refused"}
    /\ pc = "body" => status \in {"ok", "garbled"}
    /\ pc \in {"caught", "backoff"} => Counted
    /\ pc = "backoff" => Api!IsTransient(error) /\ retry < MaxRetries
    /\ pc \in {"caught", "thrown"} /\ ~ aborted => error \in seen /\ error # "abort"
    /\ pc \in {"thrown", "settled"} /\ ~ aborted /\ "ok" \notin seen /\ seen # {}
          /\ Api!IsTransient(error) => transient = MaxRetries + 1
    /\ pc = "settled" /\ kind = "query" /\ ~ aborted /\ seen # {} /\ "ok" \notin seen
          => error \in seen /\ report = Api!onError(error)
    /\ pc = "queryBackoff" => kind = "query" /\ "syntax" \in seen
    /\ kind = "mutation" \/ "syntax" \notin seen =>
          requests <= retry + (IF pc = "send" THEN 0 ELSE 1)

\* What is retried: no answer, and a refusal by the operator.
LEMMA TransientErrors ==
    \A e \in Api!Errors \cup {"ok"} :
        /\ Api!IsTransient(e) <=> e \in {"network", "refused"}
        /\ Api!classifyNcnFailure(e) = "undefined" <=> e \in {"syntax", "abort", "ok"}
<1> SUFFICES ASSUME NEW e \in Api!Errors \cup {"ok"}
             PROVE  /\ Api!IsTransient(e) <=> e \in {"network", "refused"}
                    /\ Api!classifyNcnFailure(e) = "undefined"
                          <=> e \in {"syntax", "abort", "ok"}
  OBVIOUS
<1>1. e \in {"missing", "refused", "syntax", "network", "abort", "ok"}
  BY DEF Api!Errors
<1> QED
  BY <1>1 DEF Api!IsTransient, Api!classifyNcnFailure

\* Before anything is fetched.
LEMMA ApiInit == ASSUME Api!ApiAssumption, Api!Init PROVE ApiInv
<1>0. {0} \subseteq (0 .. MaxRetries) \cap (0 .. MaxQueryRetries) \cap (0 .. MaxFetches)
                     \cap (0 .. MaxRetries + 1) \cap Nat
  BY DEF Api!ApiAssumption
<1>1. Api!ApiTypeOK
  BY <1>0, Zenon DEF Api!Init, Api!ApiTypeOK, Api!Statuses, Api!Errors
<1>2. pc = "idle" /\ requests = 0 /\ retry = 0
  BY DEF Api!Init
<1>3. requests <= retry + (IF pc = "send" THEN 0 ELSE 1)
  BY <1>2
<1> QED
  BY <1>1, <1>2, <1>3, Zenon DEF ApiInv, Attempting

\* A new fetch starts its counts anew.
LEMMA StartStep ==
    ASSUME Api!ApiAssumption, ApiInv, NEW k \in {"query", "mutation"}, Api!Start(k)
    PROVE  ApiInv'
<1>1. /\ pc' = "send" /\ kind' = k /\ retry' = 0 /\ failures' = 0 /\ aborted' = FALSE
      /\ report' = "none" /\ requests' = 0 /\ seen' = {} /\ transient' = 0
      /\ fetches < MaxFetches /\ fetches' = fetches + 1 /\ UNCHANGED <<status, error>>
  BY DEF Api!Start
<1>2. Api!ApiTypeOK'
  <2>1. {0} \subseteq (0 .. MaxRetries) \cap (0 .. MaxQueryRetries)
                       \cap (0 .. MaxRetries + 1) \cap Nat
    BY DEF Api!ApiAssumption
  <2>2. fetches' \in 0 .. MaxFetches
    BY <1>1 DEF ApiInv, Api!ApiTypeOK, Api!ApiAssumption
  <2>3. status' \in Api!Statuses /\ error' \in Api!Errors /\ aborted' \in BOOLEAN
        /\ seen' \subseteq Api!Errors \cup {"ok"}
    BY <1>1 DEF ApiInv, Api!ApiTypeOK
  <2> QED
    BY <1>1, <2>1, <2>2, <2>3, Zenon DEF Api!ApiTypeOK
<1>3. requests' <= retry' + (IF pc' = "send" THEN 0 ELSE 1)
  BY <1>1
<1> QED
  BY <1>1, <1>2, <1>3, Zenon DEF ApiInv, Attempting

\* A request is one more, unless the signal was aborted before.
LEMMA AskStep == ASSUME Api!ApiAssumption, ApiInv, Api!Send PROVE ApiInv'
BY DEF Api!ApiAssumption, ApiInv, Api!Send, Api!ApiTypeOK, Attempting, Counted

\* An answer's status decides which body is read.
LEMMA RespondStep ==
    ASSUME Api!ApiAssumption, ApiInv, NEW s \in Api!Statuses, Api!Respond(s)
    PROVE  ApiInv'
<1>1. s \in {"ok", "garbled", "missing", "refused"}
  BY DEF Api!Statuses
<1> QED
  BY <1>1 DEF Api!ApiAssumption, ApiInv, Api!Respond, Api!ApiTypeOK, Attempting, Counted

\* An attempt that ends with an exception is counted if it may be retried.
LEMMA CatchStep ==
    ASSUME Api!ApiAssumption, ApiInv, NEW e \in Api!Errors, Api!Catch(e), status' = status,
           pc \in Attempting \ {"send"}, aborted \/ e # "abort"
    PROVE  ApiInv'
<1>1. transient = retry /\ retry \in 0 .. MaxRetries /\ MaxRetries \in Nat
  BY DEF ApiInv, Api!ApiTypeOK, Api!ApiAssumption
<1>2. /\ pc' = "caught" /\ error' = e /\ seen' = seen \cup {e}
      /\ transient' = IF Api!IsTransient(e) THEN transient + 1 ELSE transient
      /\ UNCHANGED <<kind, status, retry, failures, aborted, report, fetches, requests>>
  BY DEF Api!Catch
<1>3. Api!ApiTypeOK'
  BY <1>1, <1>2 DEF ApiInv, Api!ApiTypeOK
<1>4. Counted'
  <2>1. Api!IsTransient(error)' <=> Api!IsTransient(e)
    BY <1>2 DEF Api!IsTransient, Api!classifyNcnFailure
  <2> QED
    BY <1>1, <1>2, <2>1 DEF Counted
<1>5. (kind = "mutation" \/ "syntax" \notin seen)' => requests' <= retry' + 1
  <2>1. pc # "send"
    BY DEF Attempting
  <2> QED
    BY <1>2, <2>1 DEF ApiInv
<1> QED
  BY <1>2, <1>3, <1>4, <1>5 DEF ApiInv, Attempting

\* A call throws only when nothing is left to try, or its caller is gone.
LEMMA RetryStep == ASSUME Api!ApiAssumption, ApiInv, Api!RetryOrThrow PROVE ApiInv'
<1>1. /\ pc = "caught" /\ pc' \in {"backoff", "thrown"}
      /\ pc' = "backoff" => Api!IsTransient(error) /\ retry < MaxRetries /\ ~ aborted
      /\ pc' = "thrown" => ~ (Api!IsTransient(error) /\ retry < MaxRetries) \/ aborted
      /\ UNCHANGED <<kind, status, error, retry, failures, aborted, report, fetches,
                     requests, seen, transient>>
  BY DEF Api!RetryOrThrow, Api!Move, Api!shouldRetry
<1>2. Api!IsTransient(error)' <=> Api!IsTransient(error)
  BY <1>1 DEF Api!IsTransient, Api!classifyNcnFailure
<1>3. /\ retry \in 0 .. MaxRetries /\ MaxRetries \in Nat
      /\ transient = retry + (IF Api!IsTransient(error) THEN 1 ELSE 0)
      /\ ~ aborted => error \in seen /\ error # "abort"
  BY <1>1 DEF ApiInv, Api!ApiTypeOK, Api!ApiAssumption, Counted
<1>4. Api!ApiTypeOK'
  BY <1>1 DEF ApiInv, Api!ApiTypeOK
<1>5. Counted'
  BY <1>1, <1>2, <1>3 DEF Counted
<1>6. (kind = "mutation" \/ "syntax" \notin seen)' => requests' <= retry' + 1
  BY <1>1 DEF ApiInv
<1>7. pc' = "thrown" /\ ~ aborted' /\ Api!IsTransient(error)'
        => transient' = MaxRetries + 1
  BY <1>1, <1>2, <1>3
<1> QED
  BY <1>1, <1>2, <1>3, <1>4, <1>5, <1>6, <1>7 DEF ApiInv, Attempting

\* After the back-off the next attempt starts with as many counted as retried.
LEMMA WaitStep == ASSUME Api!ApiAssumption, ApiInv, Api!waitForRetry PROVE ApiInv'
<1>1. /\ pc = "backoff" /\ retry < MaxRetries /\ transient = retry + 1
      /\ retry \in 0 .. MaxRetries /\ MaxRetries \in Nat
  BY DEF Api!waitForRetry, ApiInv, Api!ApiTypeOK, Api!ApiAssumption, Counted
<1>2. CASE aborted
  BY <1>1, <1>2 DEF Api!waitForRetry, Api!Move, ApiInv, Api!ApiTypeOK, Attempting,
     Api!Errors
<1>3. CASE ~ aborted
  BY <1>1, <1>3 DEF Api!waitForRetry, Api!Move, ApiInv, Api!ApiTypeOK, Attempting
<1> QED
  BY <1>2, <1>3

\* The query client only repeats calls that failed on a body it could not parse.
LEMMA ThrownStep == ASSUME Api!ApiAssumption, ApiInv, Api!Thrown PROVE ApiInv'
<1>1. /\ pc = "thrown" /\ error \in Api!Errors
      /\ ~ aborted => error \in seen /\ error # "abort"
      /\ UNCHANGED <<kind, status, error, retry, aborted, fetches, requests, seen, transient>>
  BY DEF Api!Thrown, ApiInv, Api!ApiTypeOK
<1>2. Api!IsTransient(error)' <=> Api!IsTransient(error)
  BY <1>1 DEF Api!IsTransient, Api!classifyNcnFailure
<1>3. Api!onError(error)' = Api!onError(error) /\ Api!onError(error) \in {"warning", "error"}
  BY <1>1, <1>2 DEF Api!onError
<1>4. CASE kind = "query" /\ ~ aborted /\ Api!retryQuery
           /\ pc' = "queryBackoff" /\ failures' = failures + 1 /\ report' = report
  <2>1. error = "syntax" /\ failures < MaxQueryRetries
    BY <1>1, <1>4 DEF Api!retryQuery, Api!classifyNcnFailure, Api!Errors
  <2>2. Api!ApiTypeOK'
    BY <1>1, <1>4, <2>1 DEF ApiInv, Api!ApiTypeOK, Api!ApiAssumption
  <2> QED
    BY <1>1, <1>4, <2>1, <2>2 DEF ApiInv, Attempting
<1>5. CASE pc' = "settled" /\ failures' = failures
           /\ report' = IF kind = "query" /\ ~ aborted THEN Api!onError(error) ELSE report
  <2>1. Api!ApiTypeOK'
    BY <1>1, <1>3, <1>5 DEF ApiInv, Api!ApiTypeOK
  <2>2. (kind = "mutation" \/ "syntax" \notin seen)' => requests' <= retry' + 1
    BY <1>1 DEF ApiInv
  <2>3. pc' = "settled" /\ ~ aborted' /\ "ok" \notin seen' /\ seen' # {}
          /\ Api!IsTransient(error)' => transient' = MaxRetries + 1
    BY <1>1, <1>2 DEF ApiInv
  <2> QED
    BY <1>1, <1>3, <1>5, <2>1, <2>2, <2>3 DEF ApiInv, Attempting
<1> QED
  BY <1>4, <1>5 DEF Api!Thrown

\* Every step keeps the invariant.
LEMMA ApiStep ==
    ASSUME Api!ApiAssumption, ApiInv, [Api!Next]_(Api!vars)
    PROVE  ApiInv'
<1>e. {"network", "syntax", "abort", "missing", "refused"} \subseteq Api!Errors
  BY DEF Api!Errors
<1>1. CASE \E k \in {"query", "mutation"} : Api!Start(k)
  BY <1>1, StartStep
<1>2. CASE \E s \in Api!Statuses : Api!Respond(s)
  BY <1>2, RespondStep
<1>3. CASE Api!Unreachable \/ Api!TimerFires
  BY <1>e, <1>3, CatchStep DEF Api!Unreachable, Api!TimerFires, Attempting
<1>4. CASE Api!readBodySnippet
  <2>1. status \in {"missing", "refused"}
    BY <1>4 DEF Api!readBodySnippet, ApiInv
  <2> QED
    BY <1>e, <1>4, <2>1, CatchStep DEF Api!readBodySnippet, Attempting
<1>5. CASE Api!ReadBody
  <2>1. CASE status = "ok"
    BY <1>5, <2>1 DEF Api!ReadBody, ApiInv, Api!ApiTypeOK, Attempting, Api!ApiAssumption
  <2>2. CASE status # "ok"
    BY <1>e, <1>5, <2>2, CatchStep DEF Api!ReadBody, Attempting
  <2> QED
    BY <2>1, <2>2
<1>6. CASE Api!AbortReaches
  <2>1. pc = "errorBody" => status \in {"missing", "refused"}
    BY DEF ApiInv
  <2>2. PICK e \in Api!Errors : e = IF pc = "errorBody" THEN status ELSE "abort"
    BY <1>e, <2>1
  <2>3. Api!Catch(e) /\ status' = status /\ aborted /\ pc \in {"fetch", "body", "errorBody"}
    BY <1>6, <2>2 DEF Api!AbortReaches
  <2> QED
    BY <2>3, CatchStep DEF Attempting
<1>7. CASE Api!Send \/ Api!RetryOrThrow \/ Api!waitForRetry \/ Api!Thrown
  BY <1>7, AskStep, RetryStep, WaitStep, ThrownStep
<1>8. CASE Api!QueryRetries
  BY <1>8 DEF Api!QueryRetries, Api!Move, ApiInv, Api!ApiTypeOK, Attempting,
     Api!ApiAssumption
<1>9. CASE Api!Cancel
  BY <1>9 DEF Api!Cancel, ApiInv, Api!ApiTypeOK, Attempting, Counted, Api!IsTransient,
     Api!classifyNcnFailure
<1>10. CASE UNCHANGED Api!vars
  BY <1>10 DEF Api!vars, ApiInv, Api!ApiTypeOK, Attempting, Counted, Api!IsTransient,
     Api!classifyNcnFailure, Api!onError
<1> QED
  BY <1>1, <1>2, <1>3, <1>4, <1>5, <1>6, <1>7, <1>8, <1>9, <1>10
     DEF Api!Next, Api!Answer, Api!EventLoop

\* ApiInv holds at all times.
THEOREM ApiInvAlways == ASSUME Api!ApiAssumption PROVE Api!Spec => []ApiInv
BY ApiInit, ApiStep, PTL DEF Api!Spec

\* Every variable of the client keeps its type: no call makes more attempts and
\* no query more calls than configured.
THEOREM FetchesAreTyped == ASSUME Api!ApiAssumption PROVE Api!Spec => []Api!ApiTypeOK
<1>1. ApiInv => Api!ApiTypeOK
  BY DEF ApiInv
<1> QED
  BY <1>1, ApiInvAlways, PTL

\* A fetch that fails because operators were down, refused or timed out has used
\* up all its attempts (fetchNcnJson), however its failures were mixed.
THEOREM FailuresAreRetried ==
    ASSUME Api!ApiAssumption PROVE Api!Spec => []Api!TransientFailuresAreRetried
<1>1. ApiInv => Api!TransientFailuresAreRetried
  BY DEF ApiInv, Api!TransientFailuresAreRetried
<1> QED
  BY <1>1, ApiInvAlways, PTL

\* An outage of operators is reported as a warning, never as a fault of the
\* application (QueryCache.onError).
THEOREM OutagesAreWarnings ==
    ASSUME Api!ApiAssumption PROVE Api!Spec => []Api!OutageIsAWarning
<1>1. ApiInv => Api!OutageIsAWarning
  <2> SUFFICES ASSUME ApiInv, pc = "settled", kind = "query", ~ aborted, seen # {},
                      \A e \in seen : Api!IsTransient(e)
               PROVE  report = "warning"
    BY DEF Api!OutageIsAWarning
  <2>1. "ok" \notin seen
    BY TransientErrors
  <2>2. error \in seen /\ report = Api!onError(error)
    BY <2>1 DEF ApiInv
  <2> QED
    BY <2>2 DEF Api!onError
<1> QED
  BY <1>1, ApiInvAlways, PTL

\* The query client's retries never multiply those of the call, unless a body
\* could not be parsed.
THEOREM RequestsAreBounded ==
    ASSUME Api!ApiAssumption PROVE Api!Spec => []Api!NoMultiplication
<1>1. ApiInv => Api!NoMultiplication
  <2> SUFFICES ASSUME ApiInv, kind = "mutation" \/ "syntax" \notin seen
               PROVE  requests <= MaxRetries + 1
    BY DEF Api!NoMultiplication
  <2>1. retry \in 0 .. MaxRetries /\ MaxRetries \in Nat /\ requests \in Nat
    BY DEF ApiInv, Api!ApiTypeOK, Api!ApiAssumption
  <2> QED
    BY <2>1 DEF ApiInv
<1> QED
  BY <1>1, ApiInvAlways, PTL

\* What holds of every fetch and query together (NcnApiClient), for any number of
\* retries, fetches and cancellations: no call makes more attempts than configured
\* nor gives up on a transient failure before it has made them, the retries of the
\* two layers do not multiply, and an outage is told from a fault.
THEOREM FetchesAreSound ==
    ASSUME Api!ApiAssumption
    PROVE  Api!Spec => [](/\ Api!ApiTypeOK /\ Api!TransientFailuresAreRetried
                          /\ Api!OutageIsAWarning /\ Api!NoMultiplication)
BY FetchesAreTyped, FailuresAreRetried, OutagesAreWarnings, RequestsAreBounded, PTL

\* A cancelled fetch sends and reports nothing any more, whatever the
\* cancellation raced with.
THEOREM NothingFollowsACancel == Api!Spec => [][Api!NothingAfterCancel]_(Api!vars)
<1>1. [Api!Next]_(Api!vars) => [Api!NothingAfterCancel]_(Api!vars)
  BY DEF Api!Next, Api!Answer, Api!EventLoop, Api!Start, Api!Send, Api!Catch, Api!Respond,
     Api!Unreachable, Api!readBodySnippet, Api!ReadBody, Api!TimerFires,
     Api!AbortReaches, Api!Move, Api!RetryOrThrow, Api!waitForRetry, Api!Thrown,
     Api!QueryRetries, Api!Cancel, Api!NothingAfterCancel, Api!vars
<1> QED
  BY <1>1, PTL DEF Api!Spec

-----------------------------------------------------------------------------
(***************************************************************************)
(* What the pages say of a proposal (ProposalPages), for any               *)
(* configurations, stakes and tallies, however late each query is.         *)
(***************************************************************************)
CONSTANTS Configs, Stakes, Tallies, MaxEpoch, MaxChanges
VARIABLES epoch, config, stake, account, root, changes,
          epochSeen, stakeSeen, configSeen, asked, record

Pages == INSTANCE ProposalPages

\* Voting has a window after the creation; without it there is neither window nor
\* result, and only what had its vote is finalized.
AccountInv ==
    /\ account \in [creationEpoch : {1}, startEpoch : Nat, endEpoch : Nat,
                    clusterSupportLamports : Nat, voting : BOOLEAN, finalized : BOOLEAN,
                    consensusResult : BOOLEAN]
    /\ account.consensusResult = account.voting
    /\ account.voting => 1 < account.startEpoch /\ account.startEpoch < account.endEpoch
    /\ ~ account.voting => /\ account.startEpoch = 0 /\ account.endEpoch = 0
                           /\ ~ account.finalized
    /\ account.finalized => account.endEpoch <= epoch

\* The browser has read an epoch not before this one.
Reached(e) == epochSeen # None /\ e <= epochSeen

\* What the browser has read is no younger than the chain, a fetch and a record
\* are of the epoch last read, and a page that said that voting had begun or ended
\* had read an epoch in which the account's schedule can no longer change.
PagesInv ==
    /\ epoch \in Nat /\ 1 <= epoch /\ config \in Configs /\ stake \in Stakes
    /\ AccountInv
    /\ epochSeen \in {None} \cup 0 .. epoch
    /\ stakeSeen \in {None} \cup {s.current : s \in Stakes}
    /\ configSeen \in {None} \cup Configs
    /\ asked # None => /\ epochSeen # None /\ asked.epoch = epochSeen
                       /\ asked.stake \in {s.current : s \in Stakes}
                       /\ asked.config \in Configs
    /\ record # None => record.status \in Pages!Statuses /\ record.inputs.epoch = epochSeen
    /\ seen \in {None} \cup Pages!Statuses
    /\ seen = "voting" => account.voting /\ Reached(account.startEpoch)
    /\ seen = "finalized" => account.voting /\ (account.finalized \/ Reached(account.endEpoch))

\* The status of an account at an epoch after its creation.
LEMMA StatusOf ==
    ASSUME AccountInv, NEW e \in Nat, 1 <= e, NEW total, NEW c,
           c \in Pages!GlobalConfig
    PROVE  LET s == Pages!getProposalStatus(account, e, total, c)
               end == 1 + c.maxSupportEpochs + 1
           IN /\ s \in Pages!Statuses
              /\ s = "supporting" <=> ~ account.voting /\ e < end
              /\ s = "voting" <=> /\ account.voting /\ ~ account.finalized
                                  /\ account.startEpoch <= e /\ e < account.endEpoch
              /\ s = "finalized" <=> account.voting /\
                                     (account.finalized \/ account.endEpoch <= e)
              /\ account.voting =>
                    (s = "discussion" <=> ~ account.finalized /\ e < account.startEpoch)
<1> DEFINE p == account
           st == Pages!getProposalStatus(p, e, total, c)
           end == 1 + c.maxSupportEpochs + 1
<1>1. /\ p.creationEpoch = 1 /\ p.startEpoch \in Nat /\ p.endEpoch \in Nat
      /\ p.voting \in BOOLEAN /\ p.finalized \in BOOLEAN /\ p.consensusResult = p.voting
      /\ p.voting => 1 < p.startEpoch /\ p.startEpoch < p.endEpoch
      /\ ~ p.voting => p.startEpoch = 0 /\ p.endEpoch = 0 /\ ~ p.finalized
      /\ c.maxSupportEpochs \in Nat
  BY DEF AccountInv, Pages!GlobalConfig
<1>2. Pages!getProposalPhaseEpochs(p.creationEpoch, c, FALSE, 0).supportEndEpoch = end
  BY <1>1 DEF Pages!getProposalPhaseEpochs
<1>3. CASE p.finalized
  <2>1. st = "finalized"
    BY <1>3 DEF Pages!getProposalStatus
  <2>2. QED
    BY <1>1, <1>3, <2>1 DEF Pages!Statuses
<1>4. CASE ~ p.finalized /\ p.voting
  <2>1. CASE e >= p.endEpoch
    <3>1. st = "finalized"
      BY <1>1, <1>4, <2>1 DEF Pages!getProposalStatus
    <3>2. QED
      BY <1>1, <1>4, <2>1, <3>1 DEF Pages!Statuses
  <2>2. CASE e < p.endEpoch
    <3>1. st = IF e >= p.startEpoch THEN "voting" ELSE "discussion"
      BY <1>1, <1>4, <2>2 DEF Pages!getProposalStatus
    <3>2. QED
      BY <1>1, <1>4, <2>2, <3>1 DEF Pages!Statuses
  <2>3. QED
    BY <1>1, <2>1, <2>2
<1>5. CASE ~ p.finalized /\ ~ p.voting
  <2>1. CASE e < end
    <3>1. st = "supporting"
      BY <1>1, <1>2, <1>5, <2>1 DEF Pages!getProposalStatus
    <3>2. QED
      BY <1>1, <1>5, <2>1, <3>1 DEF Pages!Statuses
  <2>2. CASE e >= end
    <3> DEFINE last == Pages!getProposalPhaseEpochs(p.creationEpoch, c, FALSE, 0).supportEndEpoch
    <3>a. ~ (e < last)
      <4> HIDE DEF last, end
      <4>1. last = end
        BY <1>2 DEF last
      <4> QED
        BY <4>1, <2>2, <1>1 DEF end
    <3>b. e >= p.creationEpoch /\ ~ (e < p.creationEpoch) /\ ~ p.finalized /\ ~ p.voting /\ p.endEpoch = 0
      BY <1>1, <1>5
    <3> DEFINE met == p.clusterSupportLamports * Pages!BASIS_POINTS_MAX
                        >= total * c.clusterSupportPctMinBps
    <3>c. st = IF e = last /\ met THEN "discussion" ELSE "failed"
      <4> HIDE DEF last, met, p
      <4> QED
        BY <3>a, <3>b DEF Pages!getProposalStatus, last, met
    <3>1. st \in {"discussion", "failed"}
      <4> HIDE DEF st, last, met
      <4> QED
        BY <3>c
    <3>2. QED
      BY <1>1, <1>5, <2>2, <3>1 DEF Pages!Statuses
  <2>3. QED
    BY <1>1, <2>1, <2>2
<1>6. QED
  BY <1>1, <1>3, <1>4, <1>5

\* A page open since the epoch before the creation.
LEMMA StatusBefore ==
    ASSUME AccountInv, NEW total, NEW c
    PROVE  Pages!getProposalStatus(account, 0, total, c) =
              IF account.finalized THEN "finalized" ELSE "supporting"
<1>1. /\ account.creationEpoch = 1 /\ account.finalized \in BOOLEAN
      /\ ~ (account.endEpoch # 0 /\ 0 >= account.endEpoch)
  BY DEF AccountInv
<1>2. 0 < account.creationEpoch
  BY <1>1
<1>3. QED
  BY <1>1, <1>2 DEF Pages!getProposalStatus

LEMMA PagesInit == ASSUME Pages!PagesAssumption, Pages!Init PROVE PagesInv
<1>1. /\ config \in Configs /\ stake \in Stakes /\ epoch = 1
      /\ epochSeen \in {None, 0} /\ stakeSeen = None /\ configSeen = None
      /\ asked = None /\ record = None /\ seen = None
  BY DEF Pages!Init
<1>2. AccountInv
  BY DEF Pages!Init, AccountInv
<1>3. None \notin {"voting", "finalized"}
  BY DEF Pages!PagesAssumption, Pages!Statuses
<1>4. QED
  BY <1>1, <1>2, <1>3 DEF PagesInv

\* A schedule lies after the epoch it is made in, and is a window.
LEMMA ScheduleInv ==
    ASSUME Pages!PagesAssumption, AccountInv, config \in Configs, ~ account.finalized,
           NEW target \in Nat, 1 <= target, NEW tally \in Nat,
           account' = Pages!Scheduled([account EXCEPT !.clusterSupportLamports = tally], target)
    PROVE  AccountInv'
<1>1. config.votingEpochs \in Nat /\ config.votingEpochs > 0
  BY DEF Pages!PagesAssumption, Pages!GlobalConfig
<1>2. account' = [account EXCEPT !.clusterSupportLamports = tally,
                    !.startEpoch = target + 1, !.endEpoch = target + 1 + config.votingEpochs,
                    !.consensusResult = TRUE, !.voting = TRUE]
  BY DEF Pages!Scheduled, AccountInv
<1>3. target + 1 \in Nat /\ target + 1 + config.votingEpochs \in Nat
      /\ 1 < target + 1 /\ target + 1 < target + 1 + config.votingEpochs
  BY <1>1
<1>4. QED
  BY <1>2, <1>3 DEF AccountInv

\* What the chain does leaves the browser behind, but not the phases it has shown.
LEMMA ChainKeepsPages ==
    ASSUME Pages!PagesAssumption, PagesInv, Pages!ChainStep PROVE PagesInv'
<1> USE DEF Pages!queries
<1>1. ASSUME /\ epoch' \in Nat /\ epoch <= epoch' /\ config' \in Configs /\ stake' \in Stakes
             /\ AccountInv' /\ UNCHANGED Pages!queries
             /\ account.voting /\ account.startEpoch <= epoch
                   => /\ account'.voting /\ account'.startEpoch = account.startEpoch
                      /\ account'.endEpoch = account.endEpoch
                      /\ account.finalized => account'.finalized
      PROVE  PagesInv'
  <2>1. epochSeen' \in {None} \cup 0 .. epoch'
    BY <1>1 DEF PagesInv
  <2>2. ASSUME seen \in {"voting", "finalized"}
        PROVE  account.voting /\ account.startEpoch <= epoch
    BY <2>2 DEF PagesInv, AccountInv, Reached
  <2>3. QED
    BY <1>1, <2>1, <2>2 DEF PagesInv, Reached
<1>2. /\ epoch \in Nat /\ 1 <= epoch /\ config \in Configs /\ stake \in Stakes /\ AccountInv
      /\ config.discussionEpochs \in Nat /\ config.snapshotEpochExtension \in Nat
  BY DEF PagesInv, Pages!PagesAssumption, Pages!GlobalConfig
<1>3. ASSUME NEW t \in Tallies, Pages!Measure(t) PROVE PagesInv'
  <2>1. t \in Nat /\ ~ account.finalized /\ ~ account.voting
        /\ UNCHANGED <<epoch, config, stake, Pages!queries>>
    BY <1>3 DEF Pages!Measure, Pages!AcceptsSupport, Pages!PagesAssumption
  <2> DEFINE target == epoch + config.discussionEpochs + config.snapshotEpochExtension
             p == [account EXCEPT !.clusterSupportLamports = t]
  <2>2. account' \in {Pages!Scheduled(p, target), p}
    BY <1>3 DEF Pages!Measure
  <2>3. CASE account' = Pages!Scheduled(p, target)
    <3>1. target \in Nat /\ 1 <= target
      BY <1>2
    <3> HIDE DEF target
    <3>2. AccountInv'
      BY <1>2, <2>1, <2>3, <3>1, ScheduleInv
    <3>3. QED
      BY <1>1, <1>2, <2>1, <3>2
  <2>4. CASE account' = p
    <3>1. AccountInv'
      BY <1>2, <2>1, <2>4 DEF AccountInv
    <3>2. QED
      BY <1>1, <1>2, <2>1, <3>1
  <2>5. QED
    BY <2>2, <2>3, <2>4
<1>4. ASSUME Pages!FlushMerkleRoot PROVE PagesInv'
  <2>1. /\ account.voting /\ epoch < account.startEpoch
        /\ UNCHANGED <<epoch, config, stake, Pages!queries>>
    BY <1>2, <1>4 DEF Pages!FlushMerkleRoot, AccountInv
  <2>2. ~ account.finalized /\ ~ (account.startEpoch <= epoch)
    BY <1>2, <2>1 DEF AccountInv
  <2> DEFINE target == epoch + config.snapshotEpochExtension
  <2>3. target \in Nat /\ 1 <= target
    BY <1>2
  <2>4. account' = Pages!Scheduled([account EXCEPT !.clusterSupportLamports =
                                       account.clusterSupportLamports], target)
    <3>1. account = [account EXCEPT !.clusterSupportLamports = account.clusterSupportLamports]
      BY <1>2 DEF AccountInv
    <3>2. QED
      BY <1>4, <3>1 DEF Pages!FlushMerkleRoot
  <2>5. account.clusterSupportLamports \in Nat
    BY <1>2 DEF AccountInv
  <2> HIDE DEF target
  <2>6. AccountInv'
    BY <1>2, <2>2, <2>3, <2>4, <2>5, ScheduleInv
  <2>7. QED
    BY <1>1, <1>2, <2>1, <2>2, <2>6
<1>5. ASSUME Pages!FinalizeProposal PROVE PagesInv'
  <2>1. /\ account.voting /\ account.endEpoch <= epoch
        /\ account' = [account EXCEPT !.finalized = TRUE]
        /\ UNCHANGED <<epoch, config, stake, Pages!queries>>
    BY <1>2, <1>5 DEF Pages!FinalizeProposal, AccountInv
  <2>2. AccountInv'
    BY <1>2, <2>1 DEF AccountInv
  <2>3. QED
    BY <1>1, <1>2, <2>1, <2>2 DEF AccountInv
<1>6. ASSUME Pages!PublishRoot \/ (\E c \in Configs : Pages!UpdateConfig(c))
             \/ (\E s \in Stakes : Pages!AdvanceEpoch(s) \/ Pages!DelinquencyChanges(s))
      PROVE  PagesInv'
  <2>1. /\ config' \in Configs /\ stake' \in Stakes /\ epoch' \in {epoch, epoch + 1}
        /\ UNCHANGED <<account, Pages!queries>>
    BY <1>2, <1>6 DEF Pages!PublishRoot, Pages!UpdateConfig, Pages!AdvanceEpoch,
                      Pages!DelinquencyChanges
  <2>2. epoch' \in Nat /\ epoch <= epoch'
    BY <1>2, <2>1
  <2>3. AccountInv'
    BY <1>2, <2>1, <2>2 DEF AccountInv
  <2>4. QED
    BY <1>1, <2>1, <2>2, <2>3
<1>7. QED
  BY <1>3, <1>4, <1>5, <1>6 DEF Pages!ChainStep

\* A query reads the chain of the moment, and an answer shows the account with the
\* status it has in the epoch its fetch was made for.
LEMMA BrowserKeepsPages ==
    ASSUME Pages!PagesAssumption, PagesInv, Pages!BrowserStep PROVE PagesInv'
<1> USE DEF Pages!chain
<1>1. AccountInv /\ epoch \in Nat /\ epoch # None /\ config # None
  BY DEF PagesInv, Pages!PagesAssumption
<1>2. UNCHANGED Pages!chain => AccountInv'
  BY <1>1 DEF AccountInv
<1>3. ASSUME Pages!RefetchEpochInfo PROVE PagesInv'
  <2>1. epochSeen' = epoch /\ record' = None /\ asked' = None
        /\ UNCHANGED <<Pages!chain, stakeSeen, configSeen, seen>>
    BY <1>3 DEF Pages!RefetchEpochInfo, Pages!Rekey
  <2>2. ASSUME NEW e \in Nat, Reached(e) PROVE Reached(e)'
    BY <1>1, <2>1, <2>2 DEF PagesInv, Reached
  <2>3. account.startEpoch \in Nat /\ account.endEpoch \in Nat
    BY <1>1 DEF AccountInv
  <2>4. epochSeen' \in {None} \cup 0 .. epoch
    BY <1>1, <2>1
  <2>5. QED
    BY <1>1, <1>2, <2>1, <2>2, <2>3, <2>4 DEF PagesInv
<1>4. ASSUME Pages!RefetchConfig \/ (\E b \in BOOLEAN : Pages!RefetchVoteAccounts(b))
      PROVE  PagesInv'
  <2>1. /\ record' \in {record, None} /\ asked' \in {asked, None}
        /\ configSeen' \in {configSeen, config} /\ stakeSeen' \in {stakeSeen, stake.current}
        /\ UNCHANGED <<Pages!chain, epochSeen, seen>>
    BY <1>4 DEF Pages!RefetchConfig, Pages!RefetchVoteAccounts, Pages!Rekey
  <2>2. QED
    BY <1>2, <2>1 DEF PagesInv, Reached
<1>5. ASSUME Pages!AskProposals PROVE PagesInv'
  <2>1. /\ epochSeen # None /\ stakeSeen # None /\ configSeen # None
        /\ asked' = [epoch |-> epochSeen, stake |-> stakeSeen, config |-> configSeen]
        /\ UNCHANGED <<Pages!chain, epochSeen, stakeSeen, configSeen, record, seen>>
    BY <1>5 DEF Pages!AskProposals
  <2>2. QED
    BY <1>2, <2>1 DEF PagesInv, Reached
<1>6. ASSUME Pages!ProposalsAnswer PROVE PagesInv'
  <2>1. /\ asked # None /\ asked' = None /\ record' = Pages!mapProposalDto(account, asked)
        /\ seen' = record'.status
        /\ UNCHANGED <<Pages!chain, epochSeen, stakeSeen, configSeen>>
    BY <1>6 DEF Pages!ProposalsAnswer
  <2>2. /\ epochSeen # None /\ asked.epoch = epochSeen /\ epochSeen \in Nat
        /\ asked.config \in Pages!GlobalConfig
    BY <1>1, <2>1 DEF PagesInv, Pages!PagesAssumption
  <2> DEFINE s == Pages!getProposalStatus(account, epochSeen, asked.stake, asked.config)
  <2>3. record'.status = s /\ seen' = s /\ record'.inputs.epoch = epochSeen
    BY <2>1, <2>2 DEF Pages!mapProposalDto
  <2>4. /\ s \in Pages!Statuses
        /\ s = "voting" => account.voting /\ account.startEpoch <= epochSeen
        /\ s = "finalized" => account.voting /\ (account.finalized \/ account.endEpoch <= epochSeen)
    <3>1. CASE 1 <= epochSeen
      BY <1>1, <2>2, <3>1, StatusOf
    <3>2. CASE epochSeen = 0
      <4>1. s = IF account.finalized THEN "finalized" ELSE "supporting"
        BY <1>1, <3>2, StatusBefore
      <4>2. account.finalized => account.voting
        BY <1>1 DEF AccountInv
      <4> HIDE DEF s
      <4>3. QED
        BY <4>1, <4>2 DEF Pages!Statuses
    <3>3. QED
      BY <2>2, <3>1, <3>2
  <2>5. QED
    BY <1>1, <1>2, <2>1, <2>2, <2>3, <2>4 DEF PagesInv, Reached
<1>7. QED
  BY <1>3, <1>4, <1>5, <1>6 DEF Pages!BrowserStep

LEMMA PagesStep ==
    ASSUME Pages!PagesAssumption, PagesInv, [Pages!Next]_(Pages!vars) PROVE PagesInv'
<1>1. CASE UNCHANGED Pages!vars
  BY <1>1 DEF PagesInv, AccountInv, Reached, Pages!vars, Pages!chain, Pages!queries
<1>2. QED
  BY <1>1, ChainKeepsPages, BrowserKeepsPages DEF Pages!Next

\* The inductive invariant of the pages' status.
THEOREM PagesInvAlways == ASSUME Pages!PagesAssumption PROVE Pages!Spec => []PagesInv
BY PagesInit, PagesStep, PTL DEF Pages!Spec

\* Up to date, the status shown is the phase the program is in.
LEMMA StatusIsThePhase ==
    ASSUME Pages!PagesAssumption, PagesInv, Pages!UpToDate
    PROVE  /\ record.account = account
           /\ record.status \in Pages!Statuses
           /\ record.status = Pages!getProposalStatus(account, epoch, stakeSeen, configSeen)
           /\ configSeen \in Pages!GlobalConfig /\ configSeen = config
           /\ record.status = "supporting" <=> Pages!AcceptsSupport
           /\ record.status = "voting" <=> Pages!AcceptsVote
<1>1. /\ record = Pages!mapProposalDto(account,
                     [epoch |-> epoch, stake |-> stakeSeen, config |-> configSeen])
      /\ configSeen = config
  BY DEF Pages!UpToDate
<1>2. /\ record.account = account
      /\ record.status = Pages!getProposalStatus(account, epoch, stakeSeen, configSeen)
  BY <1>1 DEF Pages!mapProposalDto
<1>3. /\ epoch \in Nat /\ 1 <= epoch /\ AccountInv /\ configSeen \in Pages!GlobalConfig
      /\ config.maxSupportEpochs \in Nat
  BY <1>1 DEF PagesInv, Pages!PagesAssumption, Pages!GlobalConfig
<1>4. /\ record.status \in Pages!Statuses
      /\ record.status = "supporting" <=>
            ~ account.voting /\ epoch < 1 + config.maxSupportEpochs + 1
      /\ record.status = "voting" <=>
            /\ account.voting /\ ~ account.finalized
            /\ account.startEpoch <= epoch /\ epoch < account.endEpoch
  BY <1>1, <1>2, <1>3, StatusOf
<1>5. Pages!AcceptsSupport <=> ~ account.voting /\ epoch < 1 + config.maxSupportEpochs + 1
  BY <1>3 DEF Pages!AcceptsSupport, Pages!InSupportWindow, AccountInv
<1>6. Pages!AcceptsVote <=> /\ account.voting /\ ~ account.finalized
                            /\ account.startEpoch <= epoch /\ epoch < account.endEpoch
  BY <1>3 DEF Pages!AcceptsVote, AccountInv
<1>7. QED
  BY <1>1, <1>2, <1>3, <1>4, <1>5, <1>6

LEMMA Offers ==
    ASSUME Pages!PagesAssumption, PagesInv PROVE Pages!OfferedIffAccepted
<1> SUFFICES ASSUME Pages!UpToDate, NEW w \in Pages!Wallets,
                    NEW o \in {Pages!ProposalCard(w, record), Pages!VotingPanel(w, record),
                               Pages!ProposalDetailView(w, record, TRUE)}
             PROVE  /\ "support" \in o => Pages!AcceptsSupport
                    /\ "cast-vote" \in o => Pages!AcceptsVote
                    /\ w.connected /\ ~ w.loading /\ Pages!IsValidator(w) =>
                          /\ Pages!AcceptsSupport /\ w.supported = "no" => "support" \in o
                          /\ Pages!AcceptsVote /\ w.voted = "no" => "cast-vote" \in o
  BY DEF Pages!OfferedIffAccepted
<1>1. /\ record.account = account /\ record.status \in Pages!Statuses
      /\ record.status = "supporting" <=> Pages!AcceptsSupport
      /\ record.status = "voting" <=> Pages!AcceptsVote
  BY StatusIsThePhase
<1>2. Pages!AcceptsVote => record.account.consensusResult
  BY <1>1 DEF Pages!AcceptsVote
<1> DEFINE ready == w.connected /\ ~ w.loading /\ Pages!IsValidator(w)
           Fits(x) == /\ "support" \in x => record.status = "supporting"
                      /\ "cast-vote" \in x => record.status = "voting"
                      /\ ready => /\ record.status = "supporting" /\ w.supported = "no"
                                        => "support" \in x
                                  /\ record.status = "voting" /\ w.voted = "no"
                                        => "cast-vote" \in x
<1>a. ready => w.role # "staker"
  BY DEF Pages!IsValidator
<1>b. record.status = "voting" => record.account.consensusResult
  BY <1>1, <1>2
<1>3. Fits(Pages!ProposalCard(w, record))
  BY <1>1, <1>b, <1>a DEF Pages!ProposalCard, Pages!getProposalAction,
       Pages!disabledActionButtons, Pages!Statuses
<1>4. Fits(Pages!VotingPanel(w, record))
  BY <1>1, <1>b DEF Pages!VotingPanel, Pages!VoteActions, Pages!SupportButton
<1>5. Fits(Pages!ProposalDetailView(w, record, TRUE))
  BY <1>1, <1>b DEF Pages!ProposalDetailView, Pages!SupportProposalSection,
       Pages!SupportButton, Pages!CastVote, Pages!Statuses
<1>6. QED
  BY <1>1, <1>3, <1>4, <1>5

LEMMA EndsAsAnnounced ==
    ASSUME Pages!PagesAssumption, PagesInv PROVE Pages!PhaseEndsAsAnnounced
<1> SUFFICES ASSUME Pages!UpToDate, record.status \in {"supporting", "discussion", "voting"},
                    record.status = "discussion" => account.voting,
                    NEW e \in epoch .. MaxEpoch + 4
             PROVE  (Pages!getProposalStatus(account, e, stakeSeen, configSeen) = record.status)
                      <=> e < Pages!ActivePhaseEndEpoch(record, configSeen)
  BY DEF Pages!PhaseEndsAsAnnounced
<1> DEFINE later == Pages!getProposalStatus(account, e, stakeSeen, configSeen)
           now == Pages!getProposalStatus(account, epoch, stakeSeen, configSeen)
           c == configSeen
<1>1. /\ AccountInv /\ epoch \in Nat /\ 1 <= epoch
      /\ e \in Nat /\ 1 <= e /\ epoch <= e
      /\ record.account = account /\ record.status = now /\ configSeen \in Pages!GlobalConfig
  BY StatusIsThePhase DEF PagesInv, Pages!PagesAssumption
<1>2. /\ account.creationEpoch = 1 /\ account.startEpoch \in Nat /\ account.endEpoch \in Nat
      /\ account.voting => 1 < account.startEpoch /\ account.startEpoch < account.endEpoch
      /\ account.voting \in BOOLEAN /\ c.maxSupportEpochs \in Nat
  BY <1>1 DEF AccountInv, Pages!GlobalConfig
<1>3. /\ later = "supporting" <=> ~ account.voting /\ e < 1 + c.maxSupportEpochs + 1
      /\ later = "voting" <=> /\ account.voting /\ ~ account.finalized
                              /\ account.startEpoch <= e /\ e < account.endEpoch
      /\ account.voting =>
            (later = "discussion" <=> ~ account.finalized /\ e < account.startEpoch)
  BY <1>1, StatusOf
<1>4. /\ now = "supporting" <=> ~ account.voting /\ epoch < 1 + c.maxSupportEpochs + 1
      /\ now = "voting" <=> /\ account.voting /\ ~ account.finalized
                            /\ account.startEpoch <= epoch /\ epoch < account.endEpoch
      /\ account.voting =>
            (now = "discussion" <=> ~ account.finalized /\ epoch < account.startEpoch)
  BY <1>1, StatusOf
<1> HIDE DEF later, now
<1>5. CASE record.status = "supporting"
  <2>1. Pages!ActivePhaseEndEpoch(record, c) = 1 + c.maxSupportEpochs + 1
    BY <1>1, <1>2, <1>5 DEF Pages!ActivePhaseEndEpoch, Pages!getProposalPhaseEpochs
  <2>2. QED
    BY <1>1, <1>2, <1>3, <1>4, <1>5, <2>1 DEF later
<1>6. CASE record.status = "discussion"
  <2>1. Pages!ActivePhaseEndEpoch(record, c) = account.startEpoch
    BY <1>1, <1>2, <1>6 DEF Pages!ActivePhaseEndEpoch, Pages!getProposalPhaseEpochs
  <2>2. QED
    BY <1>1, <1>2, <1>3, <1>4, <1>6, <2>1 DEF later
<1>7. CASE record.status = "voting"
  <2>1. Pages!ActivePhaseEndEpoch(record, c) = account.endEpoch
    BY <1>1, <1>2, <1>4, <1>7 DEF Pages!ActivePhaseEndEpoch
  <2>2. QED
    BY <1>1, <1>2, <1>3, <1>4, <1>7, <2>1 DEF later
<1>8. QED
  BY <1>5, <1>6, <1>7

\* Whatever is late, failed or changed by the admin: up to date, the pages offer
\* what the program accepts, count down to the end of the phase they show and
\* announce the last epoch of voting; and however late they are, they take back
\* neither the opening of the vote nor its end.
THEOREM StatusIsSound ==
    ASSUME Pages!PagesAssumption
    PROVE  Pages!Spec => /\ [](/\ Pages!PagesTypeOK /\ Pages!OfferedIffAccepted
                               /\ Pages!PhaseEndsAsAnnounced /\ Pages!ThroughIsTheLastEpoch)
                         /\ [][Pages!NeverTakenBack]_(Pages!vars)
<1>1. PagesInv => Pages!PagesTypeOK
  BY DEF PagesInv, Pages!PagesTypeOK
<1>2. PagesInv => Pages!OfferedIffAccepted /\ Pages!PhaseEndsAsAnnounced
  BY Offers, EndsAsAnnounced
<1>3. PagesInv => Pages!ThroughIsTheLastEpoch
  <2> SUFFICES ASSUME PagesInv, Pages!UpToDate, Pages!AcceptsVote
               PROVE  Pages!VotingThrough(record) + 1 = account.endEpoch
    BY DEF Pages!ThroughIsTheLastEpoch
  <2>1. record.account = account /\ record.status = "voting"
    BY StatusIsThePhase
  <2>2. account.endEpoch \in Nat /\ account.endEpoch > 0
    BY DEF PagesInv, AccountInv, Pages!AcceptsVote
  <2>3. Pages!VotingThrough(record) = account.endEpoch - 1
    BY <2>1, <2>2 DEF Pages!VotingThrough
  <2>4. QED
    BY <2>2, <2>3
<1>4. ASSUME PagesInv, Pages!Next PROVE Pages!NeverTakenBack
  <2>1. CASE seen' = seen
    BY <2>1 DEF Pages!NeverTakenBack
  <2>2. CASE Pages!ProposalsAnswer
    <3>1. seen' = Pages!getProposalStatus(account, asked.epoch, asked.stake, asked.config)
      BY <2>2 DEF Pages!ProposalsAnswer, Pages!mapProposalDto
    <3>2. /\ asked.epoch = epochSeen /\ epochSeen # None /\ asked.config \in Pages!GlobalConfig
          /\ AccountInv /\ epochSeen \in Nat
      BY <1>4, <2>2 DEF PagesInv, Pages!ProposalsAnswer, Pages!PagesAssumption
    <3>3. /\ account.startEpoch \in Nat /\ account.endEpoch \in Nat
          /\ account.voting => 1 < account.startEpoch /\ account.startEpoch < account.endEpoch
          /\ account.finalized \in BOOLEAN
      BY <3>2 DEF AccountInv
    <3>4. CASE seen = "voting"
      <4>1. account.voting /\ account.startEpoch <= epochSeen
        BY <1>4, <3>4 DEF PagesInv, Reached
      <4>2. QED
        BY <3>1, <3>2, <3>3, <3>4, <4>1, StatusOf DEF Pages!NeverTakenBack
    <3>5. CASE seen = "finalized"
      <4>1. account.voting /\ (account.finalized \/ account.endEpoch <= epochSeen)
        BY <1>4, <3>5 DEF PagesInv, Reached
      <4>2. CASE 1 <= epochSeen
        BY <3>1, <3>2, <3>3, <3>5, <4>1, <4>2, StatusOf DEF Pages!NeverTakenBack
      <4>3. CASE epochSeen = 0
        BY <3>1, <3>2, <3>3, <3>5, <4>1, <4>3, StatusBefore DEF Pages!NeverTakenBack
      <4>4. QED
        BY <3>2, <4>2, <4>3
    <3>6. QED
      BY <3>4, <3>5 DEF Pages!NeverTakenBack
  <2>3. QED
    BY <1>4, <2>1, <2>2 DEF Pages!Next, Pages!ChainStep, Pages!BrowserStep, Pages!queries,
       Pages!Measure, Pages!FlushMerkleRoot, Pages!FinalizeProposal, Pages!PublishRoot,
       Pages!UpdateConfig, Pages!AdvanceEpoch, Pages!DelinquencyChanges,
       Pages!RefetchEpochInfo, Pages!RefetchConfig, Pages!RefetchVoteAccounts,
       Pages!AskProposals
<1>5. QED
  BY PagesInvAlways, <1>1, <1>2, <1>3, <1>4, PTL DEF Pages!Spec

-----------------------------------------------------------------------------
(***************************************************************************)
(* What the pages know of the connected wallet (WalletAnswers), for any    *)
(* wallets, stake accounts, endpoints and orders of the queries.           *)
(***************************************************************************)
CONSTANTS Endpoints, Wallets, Validators, StakeAccounts, Owner, Mounted, InitialChains,
          MaxMoves, MaxCasts, MaxQueryFailures, MaxWaits
VARIABLES chain, rpc, wallet, role, cache, moves, casts, waits, queryFailures

Answers == INSTANCE WalletAnswers WITH
    endpoint <- rpc, failures <- queryFailures, MaxFailures <- MaxQueryFailures,
    Stakes <- StakeAccounts

Roles == {"staker", "validator", "both"}

\* Keys that name a wallet, or nobody; of them, those that read the proposal's accounts.
ChainKinds == {"overrides", "vote", "validatorVoted", "supports"}
WalletKeys == {<<t, rpc, w>> : t \in ChainKinds \cup {"role"}, w \in Wallets \cup {None}}
AnswerKeys == {<<"hasVoted", rpc, <<n, b>>>> : n \in Nat, b \in BOOLEAN}
                 \cup {<<"hasSupported", rpc, n>> : n \in Nat}
StakeKeys == {<<"stakeOverrides", rpc, s>> : s \in StakeAccounts}
                 \cup {<<"voteProposals", s>> : s \in StakeAccounts}
Keys == UNION {WalletKeys, AnswerKeys, StakeKeys}

\* What an answer d to the key k says is true, if perhaps not all there is by now.
HoldsOf(k, d) ==
    /\ k[1] = "role" => d = Answers!RoleOf(k[3])
    /\ k[1] = "overrides" => d \subseteq Answers!getVoteOverrideAccounts(rpc, k[3])
    /\ k[1] \in {"vote", "validatorVoted"} =>
          d \in BOOLEAN /\ (d => k[3] \in chain[rpc].votes)
    /\ k[1] = "supports" => d \subseteq Answers!getSupportAccounts(rpc, k[3])
    /\ k[1] = "hasVoted" => d = Answers!getUserHasVoted(k[3][1], k[3][2])
    /\ k[1] = "hasSupported" => d = Answers!getUserHasSupported(k[3])
    /\ k[1] = "stakeOverrides" => d \subseteq Answers!getStakeOverrides(rpc, k[3])
    /\ k[1] = "voteProposals" => d \subseteq chain[rpc].overrides

\* What the chain says now.
Now(k) ==
    IF k[1] = "overrides" THEN Answers!getVoteOverrideAccounts(rpc, k[3])
    ELSE IF k[1] = "supports" THEN Answers!getSupportAccounts(rpc, k[3])
    ELSE Answers!getValidatorProposalVoteAccount(rpc, k[3])

\* An entry holds what was true when it was asked for, and still is; what the local
\* queries close over follows from their keys; only requests fail.
EntryInv(k) ==
    LET e == cache[k]
    IN /\ \E s, d, c : e = [state |-> s, data |-> d, closure |-> c]
       /\ e.data # None => HoldsOf(k, e.data)
       /\ e.data # None /\ casts = 0 /\ k[1] \in ChainKinds => e.data = Now(k)
       /\ e.state \in {"fetching", "ok", "failed"}
       /\ e.state = "ok" => e.data # None
       /\ e.state = "failed" => k[1] \notin Answers!Local /\ queryFailures > 0
       /\ e.state = "fetching" /\ k[1] \in Answers!Local
             => e.closure # None /\ HoldsOf(k, e.closure)

AnswersInv ==
    /\ chain \in [Endpoints -> [votes : SUBSET Validators, overrides : SUBSET StakeAccounts,
                                supports : SUBSET Validators]]
    /\ rpc \in Endpoints /\ wallet \in Wallets \cup {None} /\ role \in Roles
    /\ casts \in Nat /\ queryFailures \in Nat
    /\ cache = [k \in DOMAIN cache |-> cache[k]]
    /\ \A k \in DOMAIN cache : k \in Keys /\ EntryInv(k)

\* None is no answer.
LEMMA NoneIsNoAnswer ==
    ASSUME Answers!AnswersAssumption
    PROVE  /\ \A x \in BOOLEAN : x # None
           /\ \A x \in SUBSET StakeAccounts : x # None
           /\ \A x \in SUBSET Validators : x # None
           /\ \A x \in Roles : x # None
           /\ None \notin Wallets
BY DEF Answers!AnswersAssumption, Roles

\* Lengths of lists of accounts.
LEMMA CountOf ==
    ASSUME Answers!AnswersAssumption, NEW S \in (SUBSET StakeAccounts) \cup (SUBSET Validators)
    PROVE  /\ Answers!Cardinality(S) \in Nat
           /\ Answers!Cardinality(S) > 0 <=> S # {}
<1>1. IsFiniteSet(StakeAccounts) /\ IsFiniteSet(Validators)
  BY DEF Answers!AnswersAssumption, Answers!IsFiniteSet, IsFiniteSet
<1>2. IsFiniteSet(S)
  BY <1>1, FS_Subset
<1>3. Answers!Cardinality(S) = Cardinality(S)
  BY DEF Answers!Cardinality, Cardinality
<1>4. QED
  BY <1>2, <1>3, FS_CardinalityType, FS_EmptySet

LEMMA AnswersInit == ASSUME Answers!AnswersAssumption, Answers!Init PROVE AnswersInv
<1>1. /\ chain \in InitialChains /\ rpc \in Endpoints /\ wallet = None /\ role = "staker"
      /\ cache = [k \in {} |-> None] /\ casts = 0 /\ queryFailures = 0
  BY DEF Answers!Init
<1>2. DOMAIN cache = {}
  BY <1>1
<1>3. cache = [k \in DOMAIN cache |-> cache[k]]
  BY <1>1
<1>4. QED
  BY <1>1, <1>2, <1>3 DEF Answers!AnswersAssumption, AnswersInv, Roles

\* Accounts are only added, requests fail once more.
Grows ==
    /\ rpc' = rpc
    /\ chain' \in [Endpoints -> [votes : SUBSET Validators, overrides : SUBSET StakeAccounts,
                                 supports : SUBSET Validators]]
    /\ chain[rpc].votes \subseteq chain'[rpc].votes
    /\ chain[rpc].overrides \subseteq chain'[rpc].overrides
    /\ chain[rpc].supports \subseteq chain'[rpc].supports
    /\ casts' \in Nat /\ (casts' = 0 => casts = 0 /\ chain' = chain)
    /\ queryFailures' \in Nat /\ queryFailures <= queryFailures'

\* What was true stays so.
LEMMA HoldsOn ==
    ASSUME NEW k, NEW d, HoldsOf(k, d), Grows
    PROVE  HoldsOf(k, d)'
BY DEF Grows, HoldsOf, Answers!RoleOf, Answers!getVoteOverrideAccounts, Answers!getSupportAccounts,
       Answers!getStakeOverrides, Answers!getUserHasVoted, Answers!getUserHasSupported

LEMMA KeysStay == ASSUME rpc' = rpc PROVE Keys' = Keys
BY DEF Keys, WalletKeys, AnswerKeys, StakeKeys

LEMMA NowStays == ASSUME rpc' = rpc, chain' = chain, NEW k PROVE Now(k)' = Now(k)
BY DEF Now, Answers!getVoteOverrideAccounts, Answers!getSupportAccounts,
       Answers!getValidatorProposalVoteAccount

\* An entry that is left alone.
LEMMA EntryStays ==
    ASSUME AnswersInv, Grows, NEW k \in DOMAIN cache, cache'[k] = cache[k]
    PROVE  EntryInv(k)'
<1>1. EntryInv(k) /\ queryFailures \in Nat
  BY DEF AnswersInv
<1>2. cache[k].data # None => HoldsOf(k, cache[k].data)'
  BY <1>1, HoldsOn DEF EntryInv
<1>3. cache[k].state = "fetching" /\ k[1] \in Answers!Local => HoldsOf(k, cache[k].closure)'
  BY <1>1, HoldsOn DEF EntryInv
<1>4. casts' = 0 => casts = 0 /\ Now(k)' = Now(k)
  BY NowStays DEF Grows
<1>5. queryFailures > 0 => queryFailures' > 0
  BY <1>1 DEF Grows
<1>6. QED
  BY <1>1, <1>2, <1>3, <1>4, <1>5 DEF EntryInv

\* A step that changes one entry at most, or drops some.
LEMMA EntriesStay ==
    ASSUME AnswersInv, Grows, wallet' \in Wallets \cup {None}, role' \in Roles,
           cache' = [k \in DOMAIN cache' |-> cache'[k]],
           \A k \in DOMAIN cache' : \/ k \in DOMAIN cache /\ cache'[k] = cache[k]
                                    \/ k \in Keys /\ EntryInv(k)'
    PROVE  AnswersInv'
<1>1. Keys' = Keys
  BY KeysStay DEF Grows
<1>2. ASSUME NEW k \in DOMAIN cache' PROVE k \in Keys' /\ EntryInv(k)'
  <2>1. CASE k \in DOMAIN cache /\ cache'[k] = cache[k]
    BY <1>1, <2>1, EntryStays DEF AnswersInv
  <2>2. CASE k \in Keys /\ EntryInv(k)'
    BY <1>1, <2>2
  <2>3. QED
    BY <2>1, <2>2
<1>3. rpc' \in Endpoints
  BY DEF AnswersInv, Grows
<1>4. QED
  BY <1>2, <1>3 DEF AnswersInv, Grows

\* What is read off an entry.
LEMMA DataOf ==
    ASSUME AnswersInv, NEW k
    PROVE  /\ Answers!Data(k) # None => /\ k \in DOMAIN cache /\ k \in Keys
                                        /\ Answers!Data(k) = cache[k].data
                                        /\ HoldsOf(k, Answers!Data(k))
           /\ k \in DOMAIN cache => Answers!Data(k) = cache[k].data
BY DEF Answers!Data, AnswersInv, EntryInv

\* How many accounts were read.
LEMMA LengthOf ==
    ASSUME Answers!AnswersAssumption, AnswersInv, NEW w \in Wallets \cup {None},
           NEW t \in {"overrides", "supports"}
    PROVE  LET k == <<t, rpc, w>>
           IN /\ Answers!Length(k) \in Nat
              /\ Answers!Length(k) > 0 <=> Answers!Data(k) # None /\ Answers!Data(k) # {}
<1> DEFINE k == <<t, rpc, w>>
           d == Answers!Data(k)
<1>1. CASE d = None
  BY <1>1 DEF Answers!Length
<1>2. CASE d # None
  <2>1. HoldsOf(k, d) /\ k[1] = t /\ k[3] = w /\ chain[rpc] \in [votes : SUBSET Validators,
             overrides : SUBSET StakeAccounts, supports : SUBSET Validators]
    BY <1>2, DataOf DEF AnswersInv
  <2>2. d \in (SUBSET StakeAccounts) \cup (SUBSET Validators)
    <3> HIDE DEF k, d
    <3> QED
      BY <2>1 DEF HoldsOf, Answers!getVoteOverrideAccounts, Answers!getSupportAccounts
  <2>3. Answers!Length(k) = Answers!Cardinality(d)
    BY <1>2 DEF Answers!Length
  <2> HIDE DEF d
  <2>4. QED
    BY <1>2, <2>2, <2>3, CountOf DEF d
<1>3. QED
  BY <1>1, <1>2

\* Keys in use.
LEMMA SubscribedKeys ==
    ASSUME Answers!AnswersAssumption, AnswersInv, NEW k \in Answers!Subscribed
    PROVE  k \in Keys
<1>1. wallet \in Wallets \cup {None} /\ rpc \in Endpoints
  BY DEF AnswersInv
<1>2. ASSUME NEW t \in ChainKinds \cup {"role"} PROVE <<t, rpc, wallet>> \in Keys
  BY <1>1 DEF Keys, WalletKeys
<1>3. Answers!HasVotedKey \in Keys
  <2>1. Answers!Length(<<"overrides", rpc, wallet>>) \in Nat
    BY <1>1, LengthOf
  <2>2. ASSUME NEW n \in Nat, NEW b \in BOOLEAN PROVE <<"hasVoted", rpc, <<n, b>>>> \in Keys
    BY DEF Keys, AnswerKeys
  <2>3. (Answers!Data(Answers!VoteAccountKey) = TRUE) \in BOOLEAN
    OBVIOUS
  <2>4. QED
    BY <2>1, <2>2, <2>3 DEF Answers!HasVotedKey, Answers!buildVoteOverrideFilters
<1>4. Answers!HasSupportedKey \in Keys
  <2>1. Answers!Length(<<"supports", rpc, wallet>>) \in Nat
    BY <1>1, LengthOf
  <2>2. QED
    BY <2>1 DEF Answers!HasSupportedKey, Answers!buildSupportFilters, Keys, AnswerKeys
<1>5. ASSUME NEW s \in StakeAccounts
      PROVE  Answers!StakeOverridesKey(s) \in Keys /\ Answers!VoteProposalsKey(s) \in Keys
  BY DEF Answers!StakeOverridesKey, Answers!VoteProposalsKey, Keys, StakeKeys
<1>6. \/ k \in {Answers!RoleKey, Answers!buildVoteOverrideFilters, Answers!VoteAccountKey,
               Answers!ValidatorVotedKey, Answers!buildSupportFilters}
      \/ k \in {Answers!HasVotedKey, Answers!HasSupportedKey}
      \/ \E s \in StakeAccounts : k \in {Answers!StakeOverridesKey(s), Answers!VoteProposalsKey(s)}
  BY DEF Answers!Subscribed
<1>7. QED
  BY <1>2, <1>3, <1>4, <1>5, <1>6 DEF Answers!RoleKey, Answers!buildVoteOverrideFilters,
       Answers!VoteAccountKey, Answers!ValidatorVotedKey, Answers!buildSupportFilters, ChainKinds

\* The keys of the local queries are those of the answers, and of lists of votes.
LEMMA LocalKeys ==
    ASSUME Answers!AnswersAssumption, AnswersInv, NEW k \in Answers!Subscribed,
           k[1] \in Answers!Local
    PROVE  \/ k = Answers!HasVotedKey
           \/ k = Answers!HasSupportedKey
           \/ \E s \in StakeAccounts : k = Answers!VoteProposalsKey(s)
BY DEF Answers!Subscribed, Answers!Local, Answers!RoleKey, Answers!buildVoteOverrideFilters,
       Answers!VoteAccountKey, Answers!ValidatorVotedKey, Answers!buildSupportFilters,
       Answers!StakeOverridesKey

\* What a local query closes over is said by its key.
LEMMA ClosureHolds ==
    ASSUME Answers!AnswersAssumption, AnswersInv, NEW k \in Answers!Subscribed,
           Answers!Enabled(k), k[1] \in Answers!Local
    PROVE  Answers!Closure(k) # None /\ HoldsOf(k, Answers!Closure(k))
<1>0. wallet \in Wallets \cup {None} /\ \A x \in BOOLEAN : x # None
  BY NoneIsNoAnswer DEF AnswersInv
<1>1. CASE k = Answers!HasVotedKey
  <2> DEFINE n == Answers!Length(Answers!buildVoteOverrideFilters)
             b == Answers!Data(Answers!VoteAccountKey) = TRUE
  <2>1. k[1] = "hasVoted" /\ k[3][1] = n /\ k[3][2] = b
    BY <1>1 DEF Answers!HasVotedKey
  <2> HIDE DEF n, b
  <2>2. Answers!Closure(k) = Answers!getUserHasVoted(n, b)
    BY <2>1 DEF Answers!Closure, n, b
  <2>3. Answers!getUserHasVoted(n, b) \in BOOLEAN
    BY DEF Answers!getUserHasVoted
  <2>4. QED
    BY <1>0, <2>1, <2>2, <2>3 DEF HoldsOf
<1>2. CASE k = Answers!HasSupportedKey
  <2> DEFINE n == Answers!Length(Answers!buildSupportFilters)
  <2>1. k[1] = "hasSupported" /\ k[3] = n
    BY <1>2 DEF Answers!HasSupportedKey
  <2> HIDE DEF n
  <2>2. Answers!Closure(k) = Answers!getUserHasSupported(n)
    BY <2>1 DEF Answers!Closure, n
  <2>3. Answers!getUserHasSupported(n) \in BOOLEAN
    BY DEF Answers!getUserHasSupported
  <2>4. QED
    BY <1>0, <2>1, <2>2, <2>3 DEF HoldsOf
<1>3. ASSUME NEW s \in StakeAccounts, k = Answers!VoteProposalsKey(s)
      PROVE  Answers!Closure(k) # None /\ HoldsOf(k, Answers!Closure(k))
  <2> DEFINE j == Answers!StakeOverridesKey(s)
  <2>1. k[1] = "voteProposals" /\ k[2] = s
    BY <1>3 DEF Answers!VoteProposalsKey
  <2>2. Answers!Closure(k) = Answers!Data(j) /\ Answers!Data(j) # None
    BY <2>1 DEF Answers!Closure, Answers!Enabled, Answers!dependenciesReady
  <2>3. HoldsOf(j, Answers!Data(j)) /\ j[1] = "stakeOverrides"
    BY <2>2, DataOf DEF Answers!StakeOverridesKey
  <2>4. Answers!Data(j) \subseteq chain[rpc].overrides
    BY <2>3 DEF HoldsOf, Answers!getStakeOverrides
  <2>5. QED
    BY <2>1, <2>2, <2>4 DEF HoldsOf
<1>4. QED
  BY <1>1, <1>2, <1>3, LocalKeys

\* What is answered is what the chain says, or what was closed over.
LEMMA AnswerHolds ==
    ASSUME Answers!AnswersAssumption, AnswersInv, NEW k \in DOMAIN cache, Answers!Is(k, "fetching")
    PROVE  /\ Answers!Answer(k) # None /\ HoldsOf(k, Answers!Answer(k))
           /\ k[1] \in ChainKinds => Answers!Answer(k) = Now(k)
<1>0. /\ k \in Keys /\ EntryInv(k) /\ cache[k].state = "fetching"
      /\ chain[rpc] \in [votes : SUBSET Validators, overrides : SUBSET StakeAccounts,
                         supports : SUBSET Validators]
  BY DEF AnswersInv, Answers!Is
<1>1. CASE k[1] \in Answers!Local
  <2>1. Answers!Answer(k) = cache[k].closure
    BY <1>1 DEF Answers!Answer, Answers!Local
  <2>2. k[1] \notin ChainKinds
    BY <1>1 DEF Answers!Local, ChainKinds
  <2>3. QED
    BY <1>0, <1>1, <2>1, <2>2 DEF EntryInv
<1>2. CASE k \in WalletKeys
  <2>1. PICK t \in ChainKinds \cup {"role"}, w \in Wallets \cup {None} : k = <<t, rpc, w>>
    BY <1>2 DEF WalletKeys
  <2>2. k[1] = t /\ k[2] = rpc /\ k[3] = w
    BY <2>1
  <2>3. CASE t = "role"
    <3>1. Answers!Answer(k) = Answers!RoleOf(k[3])
      BY <2>2, <2>3 DEF Answers!Answer
    <3>2. Answers!RoleOf(k[3]) \in Roles
      BY DEF Answers!RoleOf, Roles
    <3>3. QED
      BY <2>2, <2>3, <3>1, <3>2, NoneIsNoAnswer DEF HoldsOf, ChainKinds
  <2>4. CASE t = "overrides"
    <3>1. Answers!Answer(k) = Answers!getVoteOverrideAccounts(rpc, k[3])
      BY <2>2, <2>4 DEF Answers!Answer
    <3>2. Answers!getVoteOverrideAccounts(rpc, k[3]) \in SUBSET StakeAccounts
      BY <1>0 DEF Answers!getVoteOverrideAccounts
    <3>3. QED
      BY <2>2, <2>4, <3>1, <3>2, NoneIsNoAnswer DEF HoldsOf, Now
  <2>5. CASE t = "supports"
    <3>1. Answers!Answer(k) = Answers!getSupportAccounts(rpc, k[3])
      BY <2>2, <2>5 DEF Answers!Answer
    <3>2. Answers!getSupportAccounts(rpc, k[3]) \in SUBSET Validators
      BY <1>0 DEF Answers!getSupportAccounts
    <3>3. QED
      BY <2>2, <2>5, <3>1, <3>2, NoneIsNoAnswer DEF HoldsOf, Now
  <2>6. CASE t \in {"vote", "validatorVoted"}
    <3>1. Answers!Answer(k) = Answers!getValidatorProposalVoteAccount(rpc, k[3])
      BY <2>2, <2>6 DEF Answers!Answer
    <3>2. /\ Answers!getValidatorProposalVoteAccount(rpc, k[3]) \in BOOLEAN
          /\ Answers!getValidatorProposalVoteAccount(rpc, k[3]) => k[3] \in chain[rpc].votes
      BY DEF Answers!getValidatorProposalVoteAccount
    <3>3. Answers!Answer(k) \in BOOLEAN /\ (Answers!Answer(k) => k[3] \in chain[rpc].votes)
      BY <3>1, <3>2
    <3>4. Answers!Answer(k) # None
      BY <3>3, NoneIsNoAnswer
    <3>5. HoldsOf(k, Answers!Answer(k))
      BY <2>2, <2>6, <3>3 DEF HoldsOf
    <3>6. Now(k) = Answers!getValidatorProposalVoteAccount(rpc, k[3])
      BY <2>2, <2>6 DEF Now
    <3>7. QED
      BY <3>1, <3>4, <3>5, <3>6
  <2>7. QED
    BY <2>1, <2>3, <2>4, <2>5, <2>6 DEF ChainKinds
<1>3. CASE k \in {<<"stakeOverrides", rpc, s>> : s \in StakeAccounts}
  <2>1. k[1] = "stakeOverrides" /\ k[2] = rpc
    BY <1>3
  <2>2. Answers!Answer(k) = Answers!getStakeOverrides(rpc, k[3])
    BY <2>1 DEF Answers!Answer
  <2>3. Answers!getStakeOverrides(rpc, k[3]) \in SUBSET StakeAccounts
    BY <1>0 DEF Answers!getStakeOverrides
  <2>4. QED
    BY <2>1, <2>2, <2>3, NoneIsNoAnswer DEF HoldsOf, ChainKinds
<1>4. QED
  BY <1>0, <1>1, <1>2, <1>3 DEF Keys, AnswerKeys, StakeKeys, Answers!Local

LEMMA FetchStep ==
    ASSUME Answers!AnswersAssumption, AnswersInv, NEW k \in Answers!Subscribed,
           Answers!Fetch(k) \/ Answers!Refetch(k)
    PROVE  AnswersInv'
<1>1. /\ Answers!Enabled(k) /\ UNCHANGED <<chain, rpc, wallet, role, casts, queryFailures>>
      /\ cache' = [x \in DOMAIN cache \cup {k} |-> IF x = k THEN Answers!Fetched(k) ELSE cache[x]]
  <2>1. CASE Answers!Fetch(k)
    BY <2>1 DEF Answers!Fetch, Answers!bounds
  <2>2. CASE Answers!Refetch(k)
    <3>1. k \in DOMAIN cache /\ cache' = [cache EXCEPT ![k] = Answers!Fetched(k)]
          /\ cache = [x \in DOMAIN cache |-> cache[x]]
      BY <2>2 DEF Answers!Refetch, AnswersInv
    <3>2. cache' = [x \in DOMAIN cache \cup {k} |-> IF x = k THEN Answers!Fetched(k) ELSE cache[x]]
      BY <3>1
    <3>3. QED
      BY <2>2, <3>2 DEF Answers!Refetch
  <2>3. QED
    BY <2>1, <2>2
<1>2. Grows /\ k \in Keys
  BY <1>1, SubscribedKeys DEF Grows, AnswersInv
<1>a. PICK d : d = Answers!Data(k)
  OBVIOUS
<1>b. PICK c : c = Answers!Closure(k)
  OBVIOUS
<1>3. cache'[k] = [state |-> "fetching", data |-> d, closure |-> c]
  BY <1>1, <1>a, <1>b DEF Answers!Fetched
<1>4. d # None => HoldsOf(k, d)' /\ (casts = 0 /\ k[1] \in ChainKinds => d = Now(k)')
  <2>1. d # None => HoldsOf(k, d) /\ (casts = 0 /\ k[1] \in ChainKinds => d = Now(k))
    BY <1>a, DataOf DEF AnswersInv, EntryInv
  <2>2. Now(k)' = Now(k)
    BY <1>1, NowStays
  <2>3. QED
    BY <1>2, <2>1, <2>2, HoldsOn
<1>5. k[1] \in Answers!Local => c # None /\ HoldsOf(k, c)'
  BY <1>1, <1>2, <1>b, ClosureHolds, HoldsOn
<1>6. EntryInv(k)'
  BY <1>1, <1>3, <1>4, <1>5 DEF EntryInv
<1>7. \A x \in DOMAIN cache' : \/ x \in DOMAIN cache /\ cache'[x] = cache[x]
                               \/ x \in Keys /\ EntryInv(x)'
  BY <1>1, <1>2, <1>6
<1>8. cache' = [x \in DOMAIN cache' |-> cache'[x]]
  BY <1>1
<1>9. wallet' \in Wallets \cup {None} /\ role' \in Roles
  BY <1>1 DEF AnswersInv
<1>10. QED
  BY <1>2, <1>7, <1>8, <1>9, EntriesStay

LEMMA ArriveStep ==
    ASSUME Answers!AnswersAssumption, AnswersInv, NEW k \in DOMAIN cache,
           Answers!Arrive(k) \/ Answers!Fail(k)
    PROVE  AnswersInv'
<1>0. /\ cache = [x \in DOMAIN cache |-> cache[x]] /\ k \in Keys /\ EntryInv(k)
      /\ casts \in Nat /\ queryFailures \in Nat /\ wallet \in Wallets \cup {None} /\ role \in Roles
  BY DEF AnswersInv
<1>1. CASE Answers!Arrive(k)
  <2>a. PICK d : d = Answers!Answer(k)
    OBVIOUS
  <2>1. /\ cache' = [cache EXCEPT ![k] = [state |-> "ok", data |-> d, closure |-> None]]
        /\ Answers!Is(k, "fetching")
        /\ UNCHANGED <<chain, rpc, wallet, role, casts, queryFailures>>
    BY <1>1, <2>a DEF Answers!Arrive, Answers!bounds
  <2>2. Grows
    BY <1>0, <2>1 DEF Grows, AnswersInv
  <2>3. d # None /\ HoldsOf(k, d) /\ (k[1] \in ChainKinds => d = Now(k))
    BY <2>1, <2>a, AnswerHolds
  <2>4. HoldsOf(k, d)' /\ (k[1] \in ChainKinds => d = Now(k)')
    BY <2>1, <2>2, <2>3, HoldsOn, NowStays
  <2>5. cache'[k] = [state |-> "ok", data |-> d, closure |-> None]
    BY <1>0, <2>1
  <2>b. cache'[k].data = d /\ cache'[k].state = "ok"
    BY <2>5
  <2>6. EntryInv(k)'
    BY <2>3, <2>4, <2>5, <2>b DEF EntryInv
  <2>7. \A x \in DOMAIN cache' : \/ x \in DOMAIN cache /\ cache'[x] = cache[x]
                                 \/ x \in Keys /\ EntryInv(x)'
    BY <1>0, <2>1, <2>6
  <2>8. cache' = [x \in DOMAIN cache' |-> cache'[x]]
    BY <1>0, <2>1
  <2>9. QED
    BY <1>0, <2>1, <2>2, <2>7, <2>8, EntriesStay
<1>2. CASE Answers!Fail(k)
  <2>1. /\ cache' = [cache EXCEPT ![k].state = "failed", ![k].closure = None]
        /\ k[1] \notin Answers!Local /\ queryFailures' = queryFailures + 1
        /\ UNCHANGED <<chain, rpc, wallet, role, casts>>
    BY <1>2 DEF Answers!Fail
  <2>2. Grows
    BY <1>0, <2>1 DEF Grows, AnswersInv
  <2>3. PICK s, d, c : cache[k] = [state |-> s, data |-> d, closure |-> c]
    BY <1>0 DEF EntryInv
  <2>4. cache'[k] = [state |-> "failed", data |-> d, closure |-> None] /\ DOMAIN cache' = DOMAIN cache
        /\ \A x \in DOMAIN cache : x # k => cache'[x] = cache[x]
    <3> DEFINE failed == [cache EXCEPT ![k].state = "failed"]
    <3>1. /\ failed[k] = [state |-> "failed", data |-> d, closure |-> c]
          /\ DOMAIN failed = DOMAIN cache
          /\ \A x \in DOMAIN cache : x # k => failed[x] = cache[x]
      BY <2>3
    <3>2. cache' = [failed EXCEPT ![k].closure = None]
      BY <2>1
    <3> HIDE DEF failed
    <3>3. QED
      BY <3>1, <3>2
  <2>a. cache[k].data = d
    BY <2>3
  <2>b. d # None => HoldsOf(k, d) /\ (casts = 0 /\ k[1] \in ChainKinds => d = Now(k))
    BY <1>0, <2>a DEF EntryInv
  <2>5. d # None => HoldsOf(k, d)' /\ (casts = 0 /\ k[1] \in ChainKinds => d = Now(k)')
    BY <2>1, <2>2, <2>b, HoldsOn, NowStays
  <2>c. /\ cache'[k].data = d /\ cache'[k].state = "failed"
        /\ casts' = casts /\ queryFailures' > 0
    <3>1. queryFailures \in Nat /\ queryFailures' = queryFailures + 1
      BY <1>0, <2>1
    <3>2. queryFailures' > 0
      BY <3>1
    <3>3. QED
      BY <2>1, <2>4, <3>2
  <2>6. EntryInv(k)'
    BY <2>1, <2>4, <2>5, <2>c DEF EntryInv
  <2>7. \A x \in DOMAIN cache' : \/ x \in DOMAIN cache /\ cache'[x] = cache[x]
                                 \/ x \in Keys /\ EntryInv(x)'
    BY <1>0, <2>4, <2>6
  <2>8. cache' = [x \in DOMAIN cache' |-> cache'[x]]
    BY <1>0, <2>1
  <2>9. QED
    BY <1>0, <2>1, <2>2, <2>7, <2>8, EntriesStay
<1>3. QED
  BY <1>1, <1>2

LEMMA AnswersStep ==
    ASSUME Answers!AnswersAssumption, AnswersInv, [Answers!Next]_(Answers!vars)
    PROVE  AnswersInv'
<1>0. /\ cache = [x \in DOMAIN cache |-> cache[x]] /\ casts \in Nat /\ queryFailures \in Nat
      /\ wallet \in Wallets \cup {None} /\ role \in Roles /\ rpc \in Endpoints
      /\ chain \in [Endpoints -> [votes : SUBSET Validators, overrides : SUBSET StakeAccounts,
                                  supports : SUBSET Validators]]
  BY DEF AnswersInv
<1>1. ASSUME NEW k \in DOMAIN cache, Answers!Collect(k) PROVE AnswersInv'
  <2>1. /\ cache' = [x \in DOMAIN cache \ {k} |-> cache[x]]
        /\ UNCHANGED <<chain, rpc, wallet, role, casts, queryFailures>>
    BY <1>1 DEF Answers!Collect
  <2>2. Grows
    BY <1>0, <2>1 DEF Grows
  <2>3. QED
    BY <1>0, <2>1, <2>2, EntriesStay
<1>2. CASE Answers!useWalletRole
  <2>1. /\ role' = Answers!Data(Answers!RoleKey) /\ role' # None
        /\ UNCHANGED <<chain, rpc, wallet, cache, casts, queryFailures>>
    BY <1>2 DEF Answers!useWalletRole, Answers!bounds
  <2>2. Grows
    BY <1>0, <2>1 DEF Grows
  <2>3. HoldsOf(Answers!RoleKey, role')
    BY <2>1, DataOf
  <2>4. role' \in Roles
    BY <2>3 DEF HoldsOf, Answers!RoleKey, Answers!RoleOf, Roles
  <2>5. QED
    BY <1>0, <2>1, <2>2, <2>4, EntriesStay
<1>3. ASSUME NEW w \in Wallets \cup {None}, Answers!SwitchWallet(w) PROVE AnswersInv'
  <2>1. wallet' = w /\ UNCHANGED <<chain, rpc, role, cache, casts, queryFailures>>
    BY <1>3 DEF Answers!SwitchWallet
  <2>2. Grows
    BY <1>0, <2>1 DEF Grows
  <2>3. QED
    BY <1>0, <2>1, <2>2, EntriesStay
<1>4. ASSUME NEW e \in Endpoints, Answers!setEndpoint(e) PROVE AnswersInv'
  <2>1. /\ rpc' = e /\ cache' = [k \in {} |-> None]
        /\ UNCHANGED <<chain, wallet, role, casts, queryFailures>>
    BY <1>4 DEF Answers!setEndpoint
  <2>2. DOMAIN cache' = {} /\ cache' = [k \in DOMAIN cache' |-> cache'[k]]
    BY <2>1
  <2>3. QED
    BY <1>0, <2>1, <2>2 DEF AnswersInv
<1>5. ASSUME NEW e \in Endpoints, NEW field \in {"votes", "supports", "overrides"}, NEW x,
             x \in (IF field = "overrides" THEN StakeAccounts ELSE Validators),
             Answers!Add(e, field, x)
      PROVE  AnswersInv'
  <2>1. /\ chain' = [chain EXCEPT ![e][field] = @ \cup {x}] /\ casts' = casts + 1
        /\ UNCHANGED <<rpc, wallet, role, cache, queryFailures>>
    BY <1>5 DEF Answers!Add
  <2>2. /\ chain' \in [Endpoints -> [votes : SUBSET Validators, overrides : SUBSET StakeAccounts,
                                     supports : SUBSET Validators]]
        /\ chain[rpc].votes \subseteq chain'[rpc].votes
        /\ chain[rpc].overrides \subseteq chain'[rpc].overrides
        /\ chain[rpc].supports \subseteq chain'[rpc].supports
    <3>1. CASE field = "votes"
      BY <1>0, <1>5, <2>1, <3>1
    <3>2. CASE field = "supports"
      BY <1>0, <1>5, <2>1, <3>2
    <3>3. CASE field = "overrides"
      BY <1>0, <1>5, <2>1, <3>3
    <3>4. QED
      BY <1>5, <3>1, <3>2, <3>3
  <2>3. Grows
    BY <1>0, <2>1, <2>2 DEF Grows
  <2>4. QED
    BY <1>0, <2>1, <2>3, EntriesStay
<1>6. CASE UNCHANGED Answers!vars
  <2>1. UNCHANGED <<chain, rpc, wallet, role, cache, casts, queryFailures>>
    BY <1>6 DEF Answers!vars
  <2>2. Grows
    BY <1>0, <2>1 DEF Grows
  <2>3. QED
    BY <1>0, <2>1, <2>2, EntriesStay
<1>7. QED
  BY <1>1, <1>2, <1>3, <1>4, <1>5, <1>6, FetchStep, ArriveStep DEF Answers!Next

\* The inductive invariant of what is known of a wallet.
THEOREM AnswersInvAlways ==
    ASSUME Answers!AnswersAssumption PROVE Answers!Spec => []AnswersInv
BY AnswersInit, AnswersStep, PTL DEF Answers!Spec

\* The answers to the local queries follow from their keys.
LEMMA VotedMeans ==
    ASSUME Answers!AnswersAssumption, AnswersInv
    PROVE  /\ Answers!Data(Answers!HasVotedKey) # None =>
                 (Answers!hasUserVoted <=>
                    \/ Answers!Length(Answers!buildVoteOverrideFilters) > 0
                    \/ Answers!Data(Answers!VoteAccountKey) = TRUE)
           /\ Answers!Data(Answers!HasSupportedKey) # None =>
                 (Answers!hasUserSupported <=>
                    Answers!Length(Answers!buildSupportFilters) > 0)
<1>1. PICK n : n = Answers!Length(Answers!buildVoteOverrideFilters)
  OBVIOUS
<1>2. PICK b : b = (Answers!Data(Answers!VoteAccountKey) = TRUE)
  OBVIOUS
<1>3. PICK m : m = Answers!Length(Answers!buildSupportFilters)
  OBVIOUS
<1>4. ASSUME Answers!Data(Answers!HasVotedKey) # None
      PROVE  Answers!hasUserVoted <=> n > 0 \/ b
  <2>1. PICK k : k = Answers!HasVotedKey
    OBVIOUS
  <2>2. k[1] = "hasVoted" /\ k[3][1] = n /\ k[3][2] = b
    BY <1>1, <1>2, <2>1 DEF Answers!HasVotedKey
  <2>3. HoldsOf(k, Answers!Data(k))
    BY <1>4, <2>1, DataOf
  <2>4. Answers!Data(k) = Answers!getUserHasVoted(n, b)
    BY <2>2, <2>3 DEF HoldsOf
  <2>5. QED
    BY <1>2, <2>1, <2>4 DEF Answers!hasUserVoted, Answers!getUserHasVoted
<1>5. ASSUME Answers!Data(Answers!HasSupportedKey) # None
      PROVE  Answers!hasUserSupported <=> m > 0
  <2>1. PICK k : k = Answers!HasSupportedKey
    OBVIOUS
  <2>2. k[1] = "hasSupported" /\ k[3] = m
    BY <1>3, <2>1 DEF Answers!HasSupportedKey
  <2>3. HoldsOf(k, Answers!Data(k))
    BY <1>5, <2>1, DataOf
  <2>4. Answers!Data(k) = Answers!getUserHasSupported(m)
    BY <2>2, <2>3 DEF HoldsOf
  <2>5. QED
    BY <2>1, <2>4 DEF Answers!hasUserSupported, Answers!getUserHasSupported
<1>6. QED
  BY <1>1, <1>2, <1>3, <1>4, <1>5

\* What was read of a wallet is on chain.
LEMMA ReadMeans ==
    ASSUME Answers!AnswersAssumption, AnswersInv, wallet # None
    PROVE  /\ Answers!Length(Answers!buildVoteOverrideFilters) > 0 =>
                 \E s \in chain[rpc].overrides : Owner[s] = wallet
           /\ Answers!Data(Answers!VoteAccountKey) = TRUE => wallet \in chain[rpc].votes
           /\ Answers!Data(Answers!ValidatorVotedKey) = TRUE => wallet \in chain[rpc].votes
           /\ Answers!Length(Answers!buildSupportFilters) > 0 => wallet \in chain[rpc].supports
<1>0. wallet \in Wallets /\ chain[rpc] \in [votes : SUBSET Validators,
         overrides : SUBSET StakeAccounts, supports : SUBSET Validators]
  BY DEF AnswersInv
<1>1. ASSUME Answers!Length(Answers!buildVoteOverrideFilters) > 0
      PROVE  \E s \in chain[rpc].overrides : Owner[s] = wallet
  <2>1. PICK k : k = Answers!buildVoteOverrideFilters
    OBVIOUS
  <2>2. k[1] = "overrides" /\ k[3] = wallet
    BY <2>1 DEF Answers!buildVoteOverrideFilters
  <2>3. Answers!Data(k) # None /\ Answers!Data(k) # {}
    BY <1>0, <1>1, <2>1, LengthOf DEF Answers!buildVoteOverrideFilters
  <2>4. HoldsOf(k, Answers!Data(k))
    BY <2>3, DataOf
  <2>5. Answers!Data(k) \subseteq Answers!getVoteOverrideAccounts(rpc, wallet)
    BY <2>2, <2>4 DEF HoldsOf
  <2>6. QED
    BY <2>3, <2>5 DEF Answers!getVoteOverrideAccounts
<1>2. ASSUME NEW k, k \in {Answers!VoteAccountKey, Answers!ValidatorVotedKey},
             Answers!Data(k) = TRUE
      PROVE  wallet \in chain[rpc].votes
  <2>1. k[1] \in {"vote", "validatorVoted"} /\ k[3] = wallet
    BY <1>2 DEF Answers!VoteAccountKey, Answers!ValidatorVotedKey
  <2>2. HoldsOf(k, TRUE)
    BY <1>2, DataOf, NoneIsNoAnswer
  <2>3. QED
    BY <2>1, <2>2 DEF HoldsOf
<1>3. ASSUME Answers!Length(Answers!buildSupportFilters) > 0
      PROVE  wallet \in chain[rpc].supports
  <2>1. PICK k : k = Answers!buildSupportFilters
    OBVIOUS
  <2>2. k[1] = "supports" /\ k[3] = wallet
    BY <2>1 DEF Answers!buildSupportFilters
  <2>3. Answers!Data(k) # None /\ Answers!Data(k) # {}
    BY <1>0, <1>3, <2>1, LengthOf DEF Answers!buildSupportFilters
  <2>4. HoldsOf(k, Answers!Data(k))
    BY <2>3, DataOf
  <2>5. Answers!Data(k) \subseteq Answers!getSupportAccounts(rpc, wallet)
    BY <2>2, <2>4 DEF HoldsOf
  <2>6. QED
    BY <2>3, <2>5 DEF Answers!getSupportAccounts
<1>4. QED
  BY <1>1, <1>2, <1>3

LEMMA OfTheWallet ==
    ASSUME Answers!AnswersAssumption, AnswersInv PROVE Answers!AnswersAreOfTheWallet
<1> SUFFICES ASSUME wallet # None
             PROVE  /\ Answers!hasUserVoted => \/ wallet \in chain[rpc].votes
                                               \/ \E s \in chain[rpc].overrides : Owner[s] = wallet
                    /\ Answers!Data(Answers!ValidatorVotedKey) = TRUE
                          => wallet \in chain[rpc].votes
                    /\ Answers!hasUserSupported => wallet \in chain[rpc].supports
  BY DEF Answers!AnswersAreOfTheWallet
<1>1. /\ Answers!hasUserVoted => Answers!Data(Answers!HasVotedKey) # None
      /\ Answers!hasUserSupported => Answers!Data(Answers!HasSupportedKey) # None
  BY NoneIsNoAnswer DEF Answers!hasUserVoted, Answers!hasUserSupported
<1>2. QED
  BY <1>1, VotedMeans, ReadMeans

LEMMA NothingElsewhere == ASSUME AnswersInv PROVE Answers!NothingOfAnotherEndpoint
<1> SUFFICES ASSUME NEW s \in StakeAccounts
             PROVE  Answers!StakeAccountVoteProposals(s) \subseteq chain[rpc].overrides
  BY DEF Answers!NothingOfAnotherEndpoint
<1>1. PICK k : k = Answers!VoteProposalsKey(s)
  OBVIOUS
<1>2. CASE Answers!Data(k) = None
  BY <1>1, <1>2 DEF Answers!StakeAccountVoteProposals
<1>3. CASE Answers!Data(k) # None
  <2>1. HoldsOf(k, Answers!Data(k)) /\ k[1] = "voteProposals"
    BY <1>1, <1>3, DataOf DEF Answers!VoteProposalsKey
  <2>2. QED
    BY <1>1, <1>3, <2>1 DEF HoldsOf, Answers!StakeAccountVoteProposals
<1>4. QED
  BY <1>2, <1>3

LEMMA AnswersTyped == ASSUME Answers!AnswersAssumption, AnswersInv PROVE Answers!AnswersTypeOK
<1>1. \A k \in DOMAIN cache : /\ cache[k].state = "ok" => cache[k].data # None
                              /\ k[1] \in Answers!Local => cache[k].state # "failed"
  BY DEF AnswersInv, EntryInv
<1>2. QED
  BY <1>1 DEF AnswersInv, Answers!AnswersTypeOK, Roles

\* While nobody votes and nothing fails, a query of the wallet that is enabled and
\* not loading has been answered with what is on chain.
LEMMA ReadExactly ==
    ASSUME Answers!AnswersAssumption, AnswersInv, casts = 0, queryFailures = 0, NEW k,
           NEW enabled \in BOOLEAN, ~ Answers!isLoading(k, enabled)
    PROVE  /\ enabled => Answers!Data(k) # None
           /\ k[1] \in ChainKinds /\ Answers!Data(k) # None => Answers!Data(k) = Now(k)
<1>1. ASSUME enabled PROVE Answers!Data(k) # None
  <2>1. CASE k \notin DOMAIN cache
    BY <1>1, <2>1 DEF Answers!isLoading, Answers!Data
  <2>2. CASE k \in DOMAIN cache
    <3>1. EntryInv(k) /\ Answers!Data(k) = cache[k].data
      BY <2>2, DataOf DEF AnswersInv
    <3>2. cache[k].state # "failed"
      BY <3>1 DEF EntryInv
    <3>3. QED
      BY <2>2, <3>1, <3>2 DEF Answers!isLoading, Answers!Is, EntryInv
  <2>3. QED
    BY <2>1, <2>2
<1>2. ASSUME k[1] \in ChainKinds, Answers!Data(k) # None PROVE Answers!Data(k) = Now(k)
  <2>1. k \in DOMAIN cache /\ EntryInv(k) /\ Answers!Data(k) = cache[k].data
    BY <1>2, DataOf DEF AnswersInv
  <2>2. QED
    BY <1>2, <2>1 DEF EntryInv
<1>3. QED
  BY <1>1, <1>2

\* A wallet with a settled role has read what concerns it.
LEMMA SettledReads ==
    ASSUME Answers!AnswersAssumption, AnswersInv, Answers!Settled
    PROVE  /\ Answers!AccountsRead =>
                 /\ wallet \in chain[rpc].votes => Answers!Data(Answers!VoteAccountKey) = TRUE
                 /\ (\E s \in chain[rpc].overrides : Owner[s] = wallet) =>
                       Answers!Length(Answers!buildVoteOverrideFilters) > 0
           /\ ~ Answers!isLoadingSupportAccounts /\ wallet \in chain[rpc].supports =>
                 Answers!Length(Answers!buildSupportFilters) > 0
           /\ wallet \in Validators <=> role \in {"both", "validator"}
<1>1. /\ wallet # None /\ wallet \in Wallets /\ role = Answers!RoleOf(wallet)
      /\ casts = 0 /\ queryFailures = 0
      /\ chain[rpc] \in [votes : SUBSET Validators, overrides : SUBSET StakeAccounts,
                         supports : SUBSET Validators]
  BY DEF Answers!Settled, AnswersInv
<1>2. /\ wallet \in Validators <=> role \in {"both", "validator"}
      /\ (\E s \in StakeAccounts : Owner[s] = wallet) => role \in {"both", "staker"}
  BY <1>1 DEF Answers!RoleOf
<1>3. ASSUME Answers!AccountsRead, wallet \in chain[rpc].votes
      PROVE  Answers!Data(Answers!VoteAccountKey) = TRUE
  <2>1. PICK k : k = Answers!VoteAccountKey
    OBVIOUS
  <2>2. k[1] = "vote" /\ k[3] = wallet
    BY <2>1 DEF Answers!VoteAccountKey
  <2>3. Answers!fetchVoteAccountsEnabled /\ Answers!fetchVoteAccountsEnabled \in BOOLEAN
    BY <1>1, <1>2, <1>3 DEF Answers!fetchVoteAccountsEnabled
  <2>4. ~ Answers!isLoading(k, Answers!fetchVoteAccountsEnabled)
    BY <1>3, <2>1 DEF Answers!AccountsRead, Answers!isLoadingVoteAccount
  <2>5. Answers!Data(k) = Now(k)
    BY <1>1, <2>2, <2>3, <2>4, ReadExactly DEF ChainKinds
  <2>6. Now(k) = TRUE
    BY <1>3, <2>2 DEF Now, Answers!getValidatorProposalVoteAccount
  <2>7. QED
    BY <2>1, <2>5, <2>6
<1>4. ASSUME Answers!AccountsRead, NEW s \in chain[rpc].overrides, Owner[s] = wallet
      PROVE  Answers!Length(Answers!buildVoteOverrideFilters) > 0
  <2>1. PICK k : k = Answers!buildVoteOverrideFilters
    OBVIOUS
  <2>2. k[1] = "overrides" /\ k[3] = wallet /\ k = <<"overrides", rpc, wallet>>
    BY <2>1 DEF Answers!buildVoteOverrideFilters
  <2>3. Answers!fetchVoteOverrideEnabled /\ Answers!fetchVoteOverrideEnabled \in BOOLEAN
    BY <1>1, <1>2, <1>4 DEF Answers!fetchVoteOverrideEnabled
  <2>4. ~ Answers!isLoading(k, Answers!fetchVoteOverrideEnabled)
    BY <1>4, <2>1 DEF Answers!AccountsRead, Answers!isLoadingVoteOverrideAccounts
  <2>5. Answers!Data(k) # None /\ Answers!Data(k) = Now(k)
    BY <1>1, <2>2, <2>3, <2>4, ReadExactly DEF ChainKinds
  <2>6. s \in Now(k)
    BY <1>4, <2>2 DEF Now, Answers!getVoteOverrideAccounts
  <2>7. Answers!Length(k) > 0
    BY <1>1, <2>2, <2>5, <2>6, LengthOf
  <2>8. QED
    BY <2>1, <2>7
<1>5. ASSUME ~ Answers!isLoadingSupportAccounts, wallet \in chain[rpc].supports
      PROVE  Answers!Length(Answers!buildSupportFilters) > 0
  <2>1. PICK k : k = Answers!buildSupportFilters
    OBVIOUS
  <2>2. k[1] = "supports" /\ k[3] = wallet /\ k = <<"supports", rpc, wallet>>
    BY <2>1 DEF Answers!buildSupportFilters
  <2>3. Answers!fetchSupportEnabled /\ Answers!fetchSupportEnabled \in BOOLEAN
    BY <1>1, <1>2, <1>5 DEF Answers!fetchSupportEnabled
  <2>4. ~ Answers!isLoading(k, Answers!fetchSupportEnabled)
    BY <1>5, <2>1 DEF Answers!isLoadingSupportAccounts
  <2>5. Answers!Data(k) # None /\ Answers!Data(k) = Now(k)
    BY <1>1, <2>2, <2>3, <2>4, ReadExactly DEF ChainKinds
  <2>6. wallet \in Now(k)
    BY <1>1, <1>5, <2>2 DEF Now, Answers!getSupportAccounts
  <2>7. Answers!Length(k) > 0
    BY <1>1, <2>2, <2>5, <2>6, LengthOf
  <2>8. QED
    BY <2>1, <2>7
<1>6. QED
  BY <1>2, <1>3, <1>4, <1>5

LEMMA ToTheRightWallets ==
    ASSUME Answers!AnswersAssumption, AnswersInv PROVE Answers!OfferedToTheRightWallets
<1> SUFFICES ASSUME Answers!Settled
             PROVE  /\ Answers!AccountsRead /\ Answers!Data(Answers!HasVotedKey) # None =>
                          (Answers!CastVoteEnabled <=>
                              /\ wallet \notin chain[rpc].votes
                              /\ \A s \in chain[rpc].overrides : Owner[s] # wallet)
                    /\ "support" \in Mounted /\ ~ Answers!isLoadingHasUserSupported =>
                          (Answers!SupportEnabled <=>
                              wallet \in Validators /\ wallet \notin chain[rpc].supports)
                    /\ "modify" \in Mounted =>
                          (Answers!ModifyVoteSubmit => wallet \in chain[rpc].votes)
  BY DEF Answers!OfferedToTheRightWallets
<1>1. /\ wallet # None /\ casts = 0 /\ queryFailures = 0
      /\ Answers!Data(Answers!RoleKey) # None
  BY DEF Answers!Settled
<1>2. ASSUME Answers!AccountsRead, Answers!Data(Answers!HasVotedKey) # None
      PROVE  Answers!CastVoteEnabled <=>
                /\ wallet \notin chain[rpc].votes
                /\ \A s \in chain[rpc].overrides : Owner[s] # wallet
  <2>1. ~ Answers!isLoadingWalletRole /\ ~ Answers!isLoadingHasUserVoted
    BY <1>1, <1>2 DEF Answers!isLoadingWalletRole, Answers!isLoading,
         Answers!isLoadingHasUserVoted, Answers!AccountsRead
  <2>2. Answers!CastVoteEnabled <=> ~ Answers!hasUserVoted
    BY <1>1, <2>1 DEF Answers!CastVoteEnabled
  <2>3. QED
    BY <1>1, <1>2, <2>2, VotedMeans, ReadMeans, SettledReads
<1>3. ASSUME ~ Answers!isLoadingHasUserSupported
      PROVE  Answers!SupportEnabled <=>
                wallet \in Validators /\ wallet \notin chain[rpc].supports
  <2>1. ~ Answers!isLoadingSupportAccounts
        /\ ~ Answers!isLoading(Answers!HasSupportedKey, Answers!hasSupportedEnabled)
    BY <1>3 DEF Answers!isLoadingHasUserSupported
  <2>2. Answers!hasSupportedEnabled /\ Answers!hasSupportedEnabled \in BOOLEAN
    BY <1>1, <2>1 DEF Answers!hasSupportedEnabled
  <2>3. Answers!Data(Answers!HasSupportedKey) # None
    BY <1>1, <2>1, <2>2, ReadExactly
  <2>4. Answers!SupportEnabled <=> ~ Answers!hasUserSupported /\ wallet \in Validators
    BY <1>1, <1>3, SettledReads DEF Answers!SupportEnabled
  <2>5. QED
    BY <1>1, <2>1, <2>3, <2>4, VotedMeans, ReadMeans, SettledReads
<1>4. ASSUME Answers!ModifyVoteSubmit PROVE wallet \in chain[rpc].votes
  <2>1. PICK k : k = Answers!ValidatorVotedKey
    OBVIOUS
  <2>2. Answers!Data(k) # FALSE /\ (Answers!Data(k) # None \/ Answers!Is(k, "failed"))
    BY <1>4, <2>1 DEF Answers!ModifyVoteSubmit, Answers!isPending
  <2>3. ~ Answers!Is(k, "failed")
    BY <1>1 DEF Answers!Is, AnswersInv, EntryInv
  <2>4. HoldsOf(k, Answers!Data(k)) /\ k[1] = "validatorVoted"
    BY <2>1, <2>2, <2>3, DataOf DEF Answers!ValidatorVotedKey
  <2>5. Answers!Data(k) = TRUE
    BY <2>2, <2>4 DEF HoldsOf
  <2>6. QED
    BY <1>1, <2>1, <2>5, ReadMeans
<1>5. QED
  BY <1>2, <1>3, <1>4

\* What the page knows of the wallet's accounts.
KnownVote == Answers!Data(Answers!VoteAccountKey) = TRUE
KnownOverrides ==
    /\ Answers!Data(Answers!buildVoteOverrideFilters) # None
    /\ Answers!Data(Answers!buildVoteOverrideFilters) # {}

\* "Voted" is said of what is known, and a vote is offered when nothing is.
LEMMA KnownMeans ==
    ASSUME Answers!AnswersAssumption
    PROVE  AnswersInv =>
              /\ Answers!hasUserVoted => KnownVote \/ KnownOverrides
              /\ Answers!CastVoteEnabled /\ ~ Answers!isLoadingVoteAccount =>
                    ~ KnownVote /\ ~ KnownOverrides
<1> SUFFICES ASSUME AnswersInv
             PROVE  /\ Answers!hasUserVoted => KnownVote \/ KnownOverrides
                    /\ Answers!CastVoteEnabled /\ ~ Answers!isLoadingVoteAccount =>
                          ~ KnownVote /\ ~ KnownOverrides
  OBVIOUS
<1>1. Answers!Length(Answers!buildVoteOverrideFilters) > 0 <=> KnownOverrides
  BY LengthOf DEF KnownOverrides, Answers!buildVoteOverrideFilters, AnswersInv
<1>2. Answers!hasUserVoted => Answers!Data(Answers!HasVotedKey) # None
  BY NoneIsNoAnswer DEF Answers!hasUserVoted
<1>3. ASSUME Answers!CastVoteEnabled, ~ Answers!isLoadingVoteAccount
      PROVE  Answers!Data(Answers!HasVotedKey) # None /\ ~ Answers!hasUserVoted
  <2>1. PICK k : k = Answers!HasVotedKey
    OBVIOUS
  <2>2. /\ wallet # None /\ ~ Answers!hasUserVoted
        /\ ~ Answers!isLoadingVoteOverrideAccounts
        /\ ~ Answers!isLoading(k, Answers!hasVotedEnabled)
    BY <1>3, <2>1 DEF Answers!CastVoteEnabled, Answers!isLoadingHasUserVoted
  <2>3. Answers!hasVotedEnabled
    BY <1>3, <2>2 DEF Answers!hasVotedEnabled
  <2>4. k[1] \in Answers!Local
    BY <2>1 DEF Answers!HasVotedKey, Answers!Local
  <2>5. ASSUME Answers!Data(k) = None PROVE FALSE
    <3>1. k \in DOMAIN cache /\ ~ Answers!Is(k, "fetching")
      BY <2>2, <2>3, <2>5 DEF Answers!isLoading
    <3>2. EntryInv(k) /\ cache[k].data = None
      BY <2>5, <3>1, DataOf DEF AnswersInv
    <3>3. QED
      BY <2>4, <3>1, <3>2 DEF EntryInv, Answers!Is
  <2>6. QED
    BY <2>1, <2>2, <2>5
<1>4. QED
  BY <1>1, <1>2, <1>3, VotedMeans DEF KnownVote

\* What is known stays known, unless the settings are saved or the wallet changes.
LEMMA KnownStays ==
    ASSUME Answers!AnswersAssumption, AnswersInv, Answers!Next, "cast" \in Mounted,
           wallet # None, wallet' = wallet,
           \A e \in Endpoints : ~ Answers!setEndpoint(e)
    PROVE  (KnownVote => KnownVote') /\ (KnownOverrides => KnownOverrides')
<1>0. /\ cache = [x \in DOMAIN cache |-> cache[x]]
      /\ chain[rpc] \in [votes : SUBSET Validators, overrides : SUBSET StakeAccounts,
                         supports : SUBSET Validators]
  BY DEF AnswersInv
<1>1. rpc' = rpc
  BY DEF Answers!Next, Answers!Fetch, Answers!Refetch, Answers!Arrive, Answers!Fail,
         Answers!Collect, Answers!useWalletRole, Answers!SwitchWallet, Answers!Add
<1>2. ASSUME NEW k \in Answers!Subscribed, k[1] \in ChainKinds, k \in DOMAIN cache,
             cache[k].data # None
      PROVE  k \in DOMAIN cache' /\ cache'[k].data \in {cache[k].data, Now(k)}
  <2>1. ASSUME NEW j \in Answers!Subscribed, Answers!Fetch(j) \/ Answers!Refetch(j)
        PROVE  k \in DOMAIN cache' /\ cache'[k].data = cache[k].data
    <3>1. Answers!Fetched(j).data = Answers!Data(j)
      BY DEF Answers!Fetched
    <3>2. CASE Answers!Fetch(j)
      BY <1>2, <3>2 DEF Answers!Fetch
    <3>3. CASE Answers!Refetch(j)
      <4>1. cache' = [cache EXCEPT ![j] = Answers!Fetched(j)] /\ j \in DOMAIN cache
        BY <3>3 DEF Answers!Refetch
      <4>2. Answers!Data(j) = cache[j].data
        BY <4>1 DEF Answers!Data
      <4>3. QED
        BY <1>0, <1>2, <3>1, <4>1, <4>2
    <3>4. QED
      BY <2>1, <3>2, <3>3
  <2>2. ASSUME NEW j \in DOMAIN cache, Answers!Arrive(j)
        PROVE  k \in DOMAIN cache' /\ cache'[k].data \in {cache[k].data, Now(k)}
    <3>1. /\ cache' = [cache EXCEPT ![j] = [state |-> "ok", data |-> Answers!Answer(j),
                                            closure |-> None]]
          /\ Answers!Is(j, "fetching")
      BY <2>2 DEF Answers!Arrive
    <3>2. CASE j = k
      <4>1. Answers!Answer(k) = Now(k)
        BY <1>2, <3>1, <3>2, AnswerHolds
      <4>2. QED
        BY <1>2, <3>1, <3>2, <4>1
    <3>3. CASE j # k
      BY <1>2, <3>1, <3>3
    <3>4. QED
      BY <3>2, <3>3
  <2>3. ASSUME NEW j \in DOMAIN cache, Answers!Fail(j)
        PROVE  k \in DOMAIN cache' /\ cache'[k].data = cache[k].data
    <3> DEFINE failed == [cache EXCEPT ![j].state = "failed"]
    <3>1. PICK s, d, c : cache[j] = [state |-> s, data |-> d, closure |-> c]
      BY DEF AnswersInv, EntryInv
    <3>2. cache' = [failed EXCEPT ![j].closure = None]
      BY <2>3 DEF Answers!Fail
    <3>3. /\ failed[j] = [state |-> "failed", data |-> d, closure |-> c]
          /\ DOMAIN failed = DOMAIN cache
          /\ \A x \in DOMAIN cache : x # j => failed[x] = cache[x]
      BY <3>1
    <3> HIDE DEF failed
    <3>4. cache'[j].data = d /\ cache[j].data = d /\ DOMAIN cache' = DOMAIN cache
          /\ \A x \in DOMAIN cache : x # j => cache'[x] = cache[x]
      BY <3>1, <3>2, <3>3
    <3>5. QED
      BY <1>2, <3>4
  <2>4. ASSUME NEW j \in DOMAIN cache, Answers!Collect(j)
        PROVE  k \in DOMAIN cache' /\ cache'[k].data = cache[k].data
    BY <1>2, <2>4 DEF Answers!Collect
  <2>5. ASSUME UNCHANGED cache
        PROVE  k \in DOMAIN cache' /\ cache'[k].data = cache[k].data
    BY <1>2, <2>5
  <2>6. QED
    BY <2>1, <2>2, <2>3, <2>4, <2>5 DEF Answers!Next, Answers!useWalletRole,
       Answers!SwitchWallet, Answers!Add, Answers!bounds
<1>3. PICK kv : kv = Answers!VoteAccountKey
  OBVIOUS
<1>4. PICK ko : ko = Answers!buildVoteOverrideFilters
  OBVIOUS
<1>5. /\ kv \in Answers!Subscribed /\ kv = Answers!VoteAccountKey'
      /\ kv[1] = "vote" /\ kv[3] = wallet
  BY <1>1, <1>3 DEF Answers!Subscribed, Answers!VoteAccountKey
<1>6. /\ ko \in Answers!Subscribed /\ ko = Answers!buildVoteOverrideFilters'
      /\ ko[1] = "overrides" /\ ko[3] = wallet
  BY <1>1, <1>4 DEF Answers!Subscribed, Answers!buildVoteOverrideFilters
<1>7. ASSUME KnownVote PROVE KnownVote'
  <2>1. kv \in DOMAIN cache /\ cache[kv].data = TRUE /\ HoldsOf(kv, TRUE)
    BY <1>3, <1>7, DataOf, NoneIsNoAnswer DEF KnownVote
  <2>2. Now(kv) = TRUE
    BY <1>5, <2>1 DEF HoldsOf, Now, Answers!getValidatorProposalVoteAccount
  <2>3. kv \in DOMAIN cache' /\ cache'[kv].data = TRUE
    BY <1>2, <1>5, <2>1, <2>2, NoneIsNoAnswer DEF ChainKinds
  <2>4. QED
    BY <1>5, <2>3 DEF KnownVote, Answers!Data
<1>8. ASSUME KnownOverrides PROVE KnownOverrides'
  <2>1. PICK d : d = Answers!Data(ko)
    OBVIOUS
  <2>2. d # None /\ d # {} /\ ko \in DOMAIN cache /\ cache[ko].data = d /\ HoldsOf(ko, d)
    BY <1>4, <1>8, <2>1, DataOf DEF KnownOverrides
  <2>3. d \subseteq Now(ko) /\ Now(ko) \in SUBSET StakeAccounts
    BY <1>0, <1>6, <2>2 DEF HoldsOf, Now, Answers!getVoteOverrideAccounts
  <2>4. ko \in DOMAIN cache' /\ cache'[ko].data \in {d, Now(ko)}
    BY <1>2, <1>6, <2>2 DEF ChainKinds
  <2>5. cache'[ko].data # None /\ cache'[ko].data # {}
    BY <2>2, <2>3, <2>4, NoneIsNoAnswer
  <2>6. QED
    BY <1>6, <2>4, <2>5 DEF KnownOverrides, Answers!Data
<1>9. QED
  BY <1>7, <1>8

\* Saving the settings asks for the role again.
LEMMA ResetDisables ==
    ASSUME Answers!AnswersAssumption, NEW e \in Endpoints, Answers!setEndpoint(e)
    PROVE  ~ Answers!CastVoteEnabled'
<1>1. DOMAIN cache' = {}
  BY DEF Answers!setEndpoint
<1>2. wallet' # None => Answers!isLoadingWalletRole'
  BY <1>1 DEF Answers!isLoadingWalletRole, Answers!isLoading, Answers!Data
<1>3. QED
  BY <1>2 DEF Answers!CastVoteEnabled

\* Whichever wallets were connected, however roles, requests and answers came late
\* and whatever was voted meanwhile: what a page says of a wallet is true of it, no
\* list is of another endpoint, a settled page offers a vote, a support or a change
\* to just those who can use it, and a vote once shown is not offered again.
THEOREM AnswersAreSound ==
    ASSUME Answers!AnswersAssumption
    PROVE  Answers!Spec =>
              /\ [](/\ Answers!AnswersTypeOK /\ Answers!AnswersAreOfTheWallet
                    /\ Answers!OfferedToTheRightWallets /\ Answers!NothingOfAnotherEndpoint)
              /\ [][Answers!VotedStaysVoted]_(Answers!vars)
<1>1. AnswersInv => /\ Answers!AnswersTypeOK /\ Answers!AnswersAreOfTheWallet
                    /\ Answers!OfferedToTheRightWallets /\ Answers!NothingOfAnotherEndpoint
  BY AnswersTyped, OfTheWallet, ToTheRightWallets, NothingElsewhere
<1>2. AnswersInv' => (Answers!CastVoteEnabled' /\ ~ Answers!isLoadingVoteAccount'
                        => ~ KnownVote' /\ ~ KnownOverrides')
  BY KnownMeans, PTL
<1>3. ASSUME AnswersInv, AnswersInv', Answers!Next PROVE Answers!VotedStaysVoted
  <2>1. CASE \E e \in Endpoints : Answers!setEndpoint(e)
    BY <2>1, ResetDisables DEF Answers!VotedStaysVoted
  <2>2. CASE \A e \in Endpoints : ~ Answers!setEndpoint(e)
    BY <1>2, <1>3, <2>2, KnownMeans, KnownStays DEF Answers!VotedStaysVoted
  <2>3. QED
    BY <2>1, <2>2
<1>4. QED
  BY AnswersInvAlways, <1>1, <1>3, PTL DEF Answers!Spec

-----------------------------------------------------------------------------
(***************************************************************************)
(* When phases end, as the pages show it (PhaseTimeline), for any pace,    *)
(* length of epochs and samples, and whatever of the requests fails.       *)
(***************************************************************************)
CONSTANTS SlotsInEpoch, Pace, SampleLists, SupportEnd, DiscussionEnd, VotingEnd, Step, MaxTime
VARIABLES clock, fails, slotSeen, asking, date, nowShown, activeIndex, prevStage, showMessage

Timeline == INSTANCE PhaseTimeline

\* Bounds of a quotient.
LEMMA QuotientBounds ==
    ASSUME NEW n \in Int, NEW d \in Nat \ {0}
    PROVE  n \div d \in Int /\ d * (n \div d) <= n /\ n < d * (n \div d) + d
BY SMT

\* A multiple is divided without a rest.
LEMMA Multiples ==
    ASSUME NEW n \in Int, NEW d \in Nat \ {0}
    PROVE  (n * d) \div d = n
<1> DEFINE q == (n * d) \div d
<1>1. n * d \in Int
  OBVIOUS
<1>2. q \in Int /\ d * q <= n * d /\ n * d < d * q + d
  BY <1>1, QuotientBounds
<1> HIDE DEF q
<1>3. CASE q = n
  BY <1>3 DEF q
<1>4. CASE q <= n - 1
  <2>1. d * q <= d * (n - 1)
    BY <1>2, <1>4
  <2>2. d * (n - 1) = n * d - d
    OBVIOUS
  <2>3. QED
    BY <1>2, <2>1, <2>2
<1>5. CASE q >= n + 1
  <2>1. d * q >= d * (n + 1)
    BY <1>2, <1>5
  <2>2. d * (n + 1) = n * d + d
    OBVIOUS
  <2>3. QED
    BY <1>2, <2>1, <2>2
<1>6. QED
  BY <1>2, <1>3, <1>4, <1>5

\* The quotient of nothing or less is nothing or less.
LEMMA NoMoreThanZero ==
    ASSUME NEW n \in Int, n <= 0, NEW d \in Nat \ {0}
    PROVE  n \div d \in Int /\ n \div d <= 0
<1> DEFINE q == n \div d
<1>1. q \in Int /\ d * q <= n
  BY QuotientBounds
<1> HIDE DEF q
<1>2. CASE q >= 1
  <2>1. d * q >= d
    BY <1>1, <1>2
  <2>2. QED
    BY <1>1, <2>1
<1>3. QED
  BY <1>1, <1>2 DEF q

\* Time is lost only below a second.
LEMMA BlockTimes ==
    ASSUME Timeline!TimelineAssumption, NEW s \in Nat
    PROVE  /\ s * Pace \in Nat
           /\ Timeline!BlockTime(s) \in Nat
           /\ Timeline!BlockTime(s) <= s * Pace /\ s * Pace < Timeline!BlockTime(s) + 1000
<1>1. s * Pace \in Nat
  BY DEF Timeline!TimelineAssumption
<1> DEFINE t == s * Pace
<1> HIDE DEF t
<1>2. t \in Nat
  BY <1>1 DEF t
<1>3. (t \div 1000) * 1000 \in Nat /\ (t \div 1000) * 1000 <= t /\ t < (t \div 1000) * 1000 + 1000
  BY <1>2, SMT
<1>4. Timeline!BlockTime(s) = (t \div 1000) * 1000
  BY DEF Timeline!BlockTime, t
<1>5. QED
  BY <1>2, <1>3, <1>4 DEF t

\* The slots of epochs.
LEMMA SlotsOfEpochs ==
    ASSUME Timeline!TimelineAssumption, NEW s \in Nat
    PROVE  /\ Timeline!EpochOf(s) \in Nat
           /\ \A e \in Nat : /\ Timeline!FirstSlot(e) \in Nat
                             /\ e <= Timeline!EpochOf(s) => Timeline!FirstSlot(e) <= s
<1> DEFINE q == s \div SlotsInEpoch
<1>1. SlotsInEpoch \in Nat \ {0}
  BY DEF Timeline!TimelineAssumption
<1>2. q \in Int /\ SlotsInEpoch * q <= s /\ s < SlotsInEpoch * q + SlotsInEpoch
  BY <1>1, QuotientBounds
<1> HIDE DEF q
<1>3. q >= 0
  <2>1. CASE q <= -1
    <3>1. SlotsInEpoch * q <= - SlotsInEpoch
      BY <1>1, <1>2, <2>1
    <3>2. QED
      BY <1>1, <1>2, <3>1
  <2>2. QED
    BY <1>2, <2>1
<1>4. ASSUME NEW e \in Nat
      PROVE  e * SlotsInEpoch \in Nat /\ (e <= q => e * SlotsInEpoch <= s)
  <2>1. e * SlotsInEpoch \in Nat /\ e * SlotsInEpoch = SlotsInEpoch * e
    BY <1>1
  <2>2. ASSUME e <= q PROVE SlotsInEpoch * e <= SlotsInEpoch * q
    BY <1>1, <1>2, <2>2
  <2>3. QED
    BY <1>1, <1>2, <2>1, <2>2
<1>5. QED
  BY <1>2, <1>3, <1>4 DEF Timeline!EpochOf, Timeline!FirstSlot, q

\* The slot the clock is at has begun.
LEMMA SlotsOfTimes ==
    ASSUME Timeline!TimelineAssumption, NEW t \in Nat
    PROVE  /\ Timeline!SlotAt(t) \in Nat
           /\ \A s \in 0 .. Timeline!SlotAt(t) : s * Pace \in Nat /\ s * Pace <= t
<1> DEFINE q == t \div Pace
<1>1. Pace \in Nat \ {0}
  BY DEF Timeline!TimelineAssumption
<1>2. q \in Int /\ Pace * q <= t /\ t < Pace * q + Pace
  BY <1>1, QuotientBounds
<1> HIDE DEF q
<1>3. q >= 0
  <2>1. CASE q <= -1
    <3>1. Pace * q <= - Pace
      BY <1>1, <1>2, <2>1
    <3>2. QED
      BY <1>1, <1>2, <3>1
  <2>2. QED
    BY <1>2, <2>1
<1>4. ASSUME NEW s \in 0 .. q PROVE s * Pace \in Nat /\ s * Pace <= t
  <2>1. Pace * s <= Pace * q /\ s * Pace = Pace * s /\ s * Pace \in Nat
    BY <1>1, <1>2
  <2>2. QED
    BY <1>1, <1>2, <2>1
<1>5. QED
  BY <1>2, <1>3, <1>4 DEF Timeline!SlotAt, q

\* The clock only makes more slots.
LEMMA SlotsGrow ==
    ASSUME Timeline!TimelineAssumption, NEW t \in Nat, NEW u \in Nat, t <= u
    PROVE  Timeline!SlotAt(t) <= Timeline!SlotAt(u)
<1> DEFINE p == t \div Pace
           q == u \div Pace
<1>1. Pace \in Nat \ {0}
  BY DEF Timeline!TimelineAssumption
<1>2. /\ p \in Int /\ Pace * p <= t
      /\ q \in Int /\ u < Pace * q + Pace
  BY <1>1, QuotientBounds
<1> HIDE DEF p, q
<1>3. CASE q + 1 <= p
  <2>1. Pace * (q + 1) <= Pace * p /\ Pace * (q + 1) = Pace * q + Pace
    BY <1>1, <1>2, <1>3
  <2>2. QED
    BY <1>1, <1>2, <2>1
<1>4. QED
  BY <1>2, <1>3 DEF Timeline!SlotAt, p, q

\* The pace of a slot is a fraction, whatever was sampled.
LEMMA RateIsAFraction ==
    ASSUME Timeline!TimelineAssumption, NEW samples \in SampleLists
    PROVE  LET rate == IF samples = "rejected" THEN Timeline!estimateSlotTimeMs(<<>>)
                       ELSE Timeline!estimateSlotTimeMs(samples)
           IN rate.millis \in Nat /\ rate.slots \in Nat \ {0}
<1>1. ASSUME NEW list, Timeline!TotalsAreNumbers(list)
      PROVE  /\ Timeline!estimateSlotTimeMs(list).millis \in Nat
             /\ Timeline!estimateSlotTimeMs(list).slots \in Nat \ {0}
  <2> DEFINE slots == Timeline!TotalOf(Timeline!Usable(list), "numSlots")
             secs == Timeline!TotalOf(Timeline!Usable(list), "samplePeriodSecs")
  <2>1. slots \in Nat /\ secs \in Nat
    BY <1>1 DEF Timeline!TotalsAreNumbers
  <2>2. Timeline!estimateSlotTimeMs(list) =
           IF slots # 0 /\ 100 * slots <= secs * 1000 /\ secs * 1000 <= 1000 * slots
           THEN [millis |-> secs * 1000, slots |-> slots]
           ELSE [millis |-> 350, slots |-> 1]
    BY DEF Timeline!estimateSlotTimeMs, Timeline!DEFAULT_SLOT_TIME_MS
  <2> HIDE DEF slots, secs
  <2>3. QED
    BY <2>1, <2>2
<1>2. /\ Timeline!TotalsAreNumbers(<<>>)
      /\ samples = "rejected" \/ Timeline!TotalsAreNumbers(samples)
  BY DEF Timeline!TimelineAssumption
<1>3. CASE samples = "rejected"
  BY <1>1, <1>2, <1>3
<1>4. CASE samples # "rejected"
  BY <1>1, <1>2, <1>4
<1>5. QED
  BY <1>3, <1>4

\* What a date says: it is of what was asked for; of an epoch that has begun it is
\* not in the future; and at the true pace it is close.
LEMMA DateOf ==
    ASSUME Timeline!TimelineAssumption, NEW target \in Nat, NEW slot \in Nat, NEW now \in Nat,
           slot * Pace <= now, NEW atTarget \in Timeline!Outcomes, NEW atSlot \in Timeline!Outcomes,
           NEW samples \in SampleLists
    PROVE  LET d == Timeline!epochToDate(target, slot, atTarget, atSlot, samples, now)
               off == d.at - Timeline!TrueStart(target)
           IN /\ d.at \in Int /\ d.now = now /\ d.target = target /\ d.slot = slot
              /\ target <= Timeline!EpochOf(slot) => d.at <= now
              /\ d.rate.millis = Pace * d.rate.slots =>
                    \/ d.how \in {"block", "anchored"} /\ -1000 < off /\ off <= 0
                    \/ d.how = "unanchored" /\ 0 <= off /\ off <= now - slot * Pace
                    \/ d.how = "now" /\ target <= Timeline!EpochOf(slot)
<1> DEFINE d == Timeline!epochToDate(target, slot, atTarget, atSlot, samples, now)
           rate == IF samples = "rejected" THEN Timeline!estimateSlotTimeMs(<<>>)
                   ELSE Timeline!estimateSlotTimeMs(samples)
           base == IF atSlot = "ok" THEN Timeline!BlockTime(slot) ELSE now
           past == target <= Timeline!EpochOf(slot)
           first == Timeline!FirstSlot(target)
           ahead == first - slot
           way == (ahead * rate.millis) \div rate.slots
           from(at, how) == [at |-> at, how |-> how, now |-> now, target |-> target,
                             slot |-> slot, rate |-> rate]
<1>1. rate.millis \in Nat /\ rate.slots \in Nat \ {0}
  BY RateIsAFraction
<1>2. first \in Nat /\ (past => first <= slot)
  BY SlotsOfEpochs
<1>3. /\ slot * Pace \in Nat /\ first * Pace \in Nat /\ Pace \in Nat
      /\ Timeline!BlockTime(slot) \in Nat /\ Timeline!BlockTime(slot) <= slot * Pace
      /\ slot * Pace < Timeline!BlockTime(slot) + 1000
      /\ Timeline!BlockTime(first) \in Nat /\ Timeline!BlockTime(first) <= first * Pace
      /\ first * Pace < Timeline!BlockTime(first) + 1000
  BY <1>2, BlockTimes DEF Timeline!TimelineAssumption
<1>4. Timeline!TrueStart(target) = first * Pace
  BY DEF Timeline!TrueStart
<1>5. d = IF past /\ atTarget = "ok" THEN from(Timeline!BlockTime(first), "block")
          ELSE IF past /\ atTarget = "rejected" THEN from(now, "now")
          ELSE from(base + way, IF atSlot = "ok" THEN "anchored" ELSE "unanchored")
  BY Zenon DEF Timeline!epochToDate
<1>6. past => first * Pace <= slot * Pace
  BY <1>2, <1>3
<1> HIDE DEF rate, first, d, past
<1>7. way \in Int /\ (past => way <= 0)
  <2>1. ahead * rate.millis \in Int
    BY <1>1, <1>2
  <2>2. ASSUME past PROVE ahead * rate.millis <= 0
    <3>1. ahead \in Int /\ ahead <= 0
      BY <1>2, <2>2
    <3> HIDE DEF ahead
    <3>2. QED
      BY <1>1, <3>1
  <2>3. QED
    BY <1>1, <2>1, <2>2, QuotientBounds, NoMoreThanZero
<1>8. rate.millis = Pace * rate.slots => way = first * Pace - slot * Pace
  <2> SUFFICES ASSUME rate.millis = Pace * rate.slots PROVE way = first * Pace - slot * Pace
    OBVIOUS
  <2>1. ahead \in Int /\ ahead * Pace = first * Pace - slot * Pace
    BY <1>2, <1>3
  <2> HIDE DEF ahead
  <2>2. ahead * Pace \in Int /\ ahead * rate.millis = (ahead * Pace) * rate.slots
    BY <1>1, <1>3, <2>1
  <2>3. way = ahead * Pace
    BY <1>1, <2>2, Multiples
  <2>4. QED
    BY <2>1, <2>3
<1> HIDE DEF way
<1>9. CASE past /\ atTarget = "ok"
  <2>1. d.at = Timeline!BlockTime(first) /\ d.how = "block" /\ d.now = now /\ d.target = target
        /\ d.slot = slot /\ d.rate = rate
    BY <1>5, <1>9
  <2>2. QED
    BY <1>3, <1>4, <1>6, <1>9, <2>1 DEF d, past
<1>10. CASE past /\ atTarget = "rejected"
  <2>1. d.at = now /\ d.how = "now" /\ d.now = now /\ d.target = target
        /\ d.slot = slot /\ d.rate = rate
    BY <1>5, <1>10
  <2>2. QED
    BY <1>10, <2>1 DEF d, past
<1>11. CASE ~ (past /\ atTarget = "ok") /\ ~ (past /\ atTarget = "rejected")
  <2>1. /\ d.at = base + way /\ d.how = (IF atSlot = "ok" THEN "anchored" ELSE "unanchored")
        /\ d.now = now /\ d.target = target /\ d.slot = slot /\ d.rate = rate
    BY <1>5, <1>11
  <2>2. base \in Nat /\ base <= now
    BY <1>3
  <2>3. d.at \in Int /\ (past => d.at <= now)
    BY <1>7, <2>1, <2>2
  <2>4. ASSUME rate.millis = Pace * rate.slots
        PROVE  \/ d.how = "anchored" /\ -1000 < d.at - first * Pace /\ d.at - first * Pace <= 0
               \/ d.how = "unanchored" /\ 0 <= d.at - first * Pace
                  /\ d.at - first * Pace <= now - slot * Pace
    <3>1. d.at - first * Pace = base - slot * Pace
      BY <1>3, <1>8, <2>1, <2>2, <2>4
    <3>2. QED
      BY <1>3, <2>1, <3>1
  <2>5. QED
    BY <1>4, <2>1, <2>3, <2>4 DEF d, past
<1>12. QED
  BY <1>9, <1>10, <1>11
\* A date is of the slot and the phase the page shows, and was found as epochToDate
\* finds it when its requests were answered.
DateInv ==
    date # None =>
       \E atTarget, atSlot \in Timeline!Outcomes, samples \in SampleLists, now \in 0 .. clock :
          /\ Timeline!PhaseEnd \in Nat /\ slotSeen * Pace <= now
          /\ date = Timeline!epochToDate(Timeline!PhaseEnd, slotSeen, atTarget, atSlot, samples, now)

\* A date is asked for the end of the phase shown; the carousel has seen the stage.
TimelineInv ==
    /\ clock \in 0 .. MaxTime
    /\ slotSeen \in 0 .. Timeline!SlotAt(clock)
    /\ nowShown \in {None} \cup 0 .. clock
    /\ asking # None => asking = Timeline!PhaseEnd
    /\ DateInv
    /\ activeIndex \in 1 .. 2 /\ prevStage = Timeline!Status

\* The end of a phase is an epoch.
LEMMA EndsAreEpochs ==
    ASSUME Timeline!TimelineAssumption
    PROVE  /\ Timeline!Status \in {"supporting", "discussion", "voting", "finalized", "failed"}
           /\ Timeline!PhaseEnd \in Nat \cup {None}
<1>1. Timeline!Status \in {"supporting", "discussion", "voting", "finalized", "failed"}
  BY DEF Timeline!Status
<1>2. SupportEnd \in Nat /\ DiscussionEnd \in Nat /\ VotingEnd \in Nat
  BY DEF Timeline!TimelineAssumption
<1>3. QED
  BY <1>1, <1>2 DEF Timeline!PhaseEnd

\* At first the page knows of slot 0 only.
LEMMA TimelineInit ==
    ASSUME Timeline!TimelineAssumption PROVE Timeline!Init => TimelineInv
<1> SUFFICES ASSUME Timeline!Init PROVE TimelineInv
  OBVIOUS
<1>1. clock = 0 /\ slotSeen = 0 /\ nowShown = None /\ asking = None /\ date = None
      /\ activeIndex = 1 /\ prevStage = "supporting"
  BY DEF Timeline!Init
<1>2. Timeline!SlotAt(0) \in Nat /\ MaxTime \in Nat
  BY SlotsOfTimes DEF Timeline!TimelineAssumption
<1>3. Timeline!EpochOf(0) = 0
  <2>1. SlotsInEpoch \in Nat \ {0} /\ 0 \in Int /\ 0 \in Nat
    BY DEF Timeline!TimelineAssumption
  <2>2. 0 \div SlotsInEpoch <= 0
    BY <2>1, NoMoreThanZero
  <2>3. Timeline!EpochOf(0) \in Nat
    BY <2>1, SlotsOfEpochs
  <2>4. QED
    BY <2>2, <2>3 DEF Timeline!EpochOf
<1>4. Timeline!Status = "supporting"
  BY <1>1, <1>3 DEF Timeline!Status, Timeline!TimelineAssumption
<1>5. QED
  BY <1>1, <1>2, <1>4 DEF TimelineInv, DateInv

\* What shows the stage depends on slot and failure alone.
LEMMA SameStage ==
    ASSUME UNCHANGED <<fails, slotSeen>>
    PROVE  Timeline!Status' = Timeline!Status /\ Timeline!PhaseEnd' = Timeline!PhaseEnd
BY DEF Timeline!Status, Timeline!PhaseEnd, Timeline!EpochOf

\* Every step keeps the invariant.
LEMMA TimelineStep ==
    ASSUME Timeline!TimelineAssumption
    PROVE  TimelineInv /\ [Timeline!Next]_(Timeline!vars) => TimelineInv'
<1> SUFFICES ASSUME TimelineInv, [Timeline!Next]_(Timeline!vars) PROVE TimelineInv'
  OBVIOUS
<1>1. clock \in Nat /\ Timeline!SlotAt(clock) \in Nat /\ slotSeen \in Nat /\ slotSeen * Pace <= clock
  <2>1. clock \in Nat /\ slotSeen \in 0 .. Timeline!SlotAt(clock)
    BY DEF TimelineInv, Timeline!TimelineAssumption
  <2>2. QED
    BY <2>1, SlotsOfTimes
<1>2. ASSUME UNCHANGED <<fails, slotSeen, date>>, clock' \in clock .. MaxTime,
             nowShown' \in {None, clock'} \cup 0 .. clock,
             asking' # None => asking' = Timeline!PhaseEnd,
             activeIndex' \in 1 .. 2, prevStage' = prevStage
      PROVE  TimelineInv'
  <2>1. Timeline!Status' = Timeline!Status /\ Timeline!PhaseEnd' = Timeline!PhaseEnd
    BY <1>2, SameStage
  <2>2. clock' \in Nat /\ clock <= clock' /\ clock' \in 0 .. MaxTime
    BY <1>1, <1>2 DEF Timeline!TimelineAssumption
  <2>3. slotSeen' \in 0 .. Timeline!SlotAt(clock)' 
    <3>1. Timeline!SlotAt(clock) <= Timeline!SlotAt(clock') /\ Timeline!SlotAt(clock') \in Nat
      BY <1>1, <2>2, SlotsGrow, SlotsOfTimes
    <3>2. slotSeen \in 0 .. Timeline!SlotAt(clock')
      BY <1>1, <3>1 DEF TimelineInv
    <3>3. QED
      BY <1>2, <3>2 DEF Timeline!SlotAt
  <2>4. nowShown' \in {None} \cup 0 .. clock'
    BY <1>1, <1>2, <2>2
  <2>5. ASSUME date' # None
        PROVE  \E atTarget, atSlot \in Timeline!Outcomes, samples \in SampleLists,
                  now \in 0 .. clock' :
                 /\ Timeline!PhaseEnd' \in Nat /\ slotSeen' * Pace <= now
                 /\ date' = Timeline!epochToDate(Timeline!PhaseEnd', slotSeen', atTarget,
                                                atSlot, samples, now)
    <3>1. PICK atTarget \in Timeline!Outcomes, atSlot \in Timeline!Outcomes, samples \in SampleLists,
               now \in 0 .. clock :
                 /\ Timeline!PhaseEnd \in Nat /\ slotSeen * Pace <= now
                 /\ date = Timeline!epochToDate(Timeline!PhaseEnd, slotSeen, atTarget, atSlot,
                                               samples, now)
      BY <1>2, <2>5 DEF TimelineInv, DateInv
    <3>2. now \in 0 .. clock'
      BY <1>1, <2>2
    <3>3. UNCHANGED <<date, slotSeen>>
      BY <1>2
    <3>4. QED
      BY <2>1, <3>1, <3>2, <3>3, Zenon
  <2>6. DateInv'
    BY <2>5, Zenon DEF DateInv, Timeline!epochToDate, Timeline!estimateSlotTimeMs,
       Timeline!BlockTime, Timeline!EpochOf, Timeline!FirstSlot, Timeline!Outcomes
  <2>7. QED
    BY <1>2, <2>1, <2>2, <2>3, <2>4, <2>6 DEF TimelineInv
<1>3. /\ nowShown \in {None} \cup 0 .. clock
      /\ asking # None => asking = Timeline!PhaseEnd
      /\ clock \in clock .. MaxTime
      /\ activeIndex \in 1 .. 2
  BY <1>1 DEF TimelineInv
<1>4. CASE Timeline!TimePasses
  BY <1>1, <1>2, <1>3, <1>4 DEF Timeline!TimePasses, Timeline!TimelineAssumption
<1>5. CASE Timeline!UpdateNow
  BY <1>2, <1>3, <1>5 DEF Timeline!UpdateNow
<1>6. CASE Timeline!EpochInfoArrives
  <2>1. /\ slotSeen' = Timeline!SlotAt(clock) /\ UNCHANGED <<clock, fails, nowShown>>
        /\ date' = None /\ asking' = None /\ prevStage' = Timeline!Status'
        /\ activeIndex' = IF Timeline!Status' # prevStage
                          THEN Timeline!InitialIndex(Timeline!Status') ELSE activeIndex
    BY <1>6 DEF Timeline!EpochInfoArrives, Timeline!RenderCarousel, Timeline!InitialIndex,
       Timeline!Status, Timeline!EpochOf
  <2>2. activeIndex' \in 1 .. 2
    BY <1>3, <2>1 DEF Timeline!InitialIndex
  <2>3. slotSeen' \in 0 .. Timeline!SlotAt(clock)'
    BY <1>1, <2>1 DEF Timeline!SlotAt
  <2>4. QED
    BY <1>3, <2>1, <2>2, <2>3 DEF TimelineInv, DateInv
<1>7. CASE Timeline!AskDate
  BY <1>2, <1>3, <1>7 DEF Timeline!AskDate
<1>8. CASE Timeline!DateArrives
  <2>1. PICK atTarget \in Timeline!Outcomes, atSlot \in Timeline!Outcomes, samples \in SampleLists :
           date' = Timeline!epochToDate(asking, slotSeen, atTarget, atSlot, samples, clock)
    BY <1>8 DEF Timeline!DateArrives
  <2>2. /\ asking # None /\ asking' = None
        /\ UNCHANGED <<clock, fails, slotSeen, nowShown, activeIndex, prevStage>>
    BY <1>8 DEF Timeline!DateArrives
  <2>3. Timeline!Status' = Timeline!Status /\ Timeline!PhaseEnd' = Timeline!PhaseEnd
    BY <2>2, SameStage
  <2>4. asking = Timeline!PhaseEnd /\ Timeline!PhaseEnd \in Nat
    BY <1>3, <2>2, EndsAreEpochs
  <2>5. clock \in 0 .. clock
    BY <1>1
  <2>6. Timeline!SlotAt(clock)' = Timeline!SlotAt(clock)
    BY <2>2 DEF Timeline!SlotAt
  <2>7. \E t, s \in Timeline!Outcomes, l \in SampleLists, now \in 0 .. clock' :
           /\ Timeline!PhaseEnd' \in Nat /\ slotSeen' * Pace <= now
           /\ date' = Timeline!epochToDate(Timeline!PhaseEnd', slotSeen', t, s, l, now)
    BY <1>1, <2>1, <2>2, <2>3, <2>4, <2>5, Zenon
  <2>8. DateInv'
    BY <2>7, Zenon DEF DateInv, Timeline!epochToDate, Timeline!estimateSlotTimeMs,
       Timeline!BlockTime, Timeline!EpochOf, Timeline!FirstSlot, Timeline!Outcomes
  <2>9. QED
    BY <2>2, <2>3, <2>6, <2>8 DEF TimelineInv
<1>9. ASSUME NEW i \in 1 .. 2, Timeline!GoTo(i) PROVE TimelineInv'
  BY <1>2, <1>3, <1>9 DEF Timeline!GoTo
<1>10. CASE Timeline!ToggleMessage \/ Timeline!MessageTimer
  BY <1>2, <1>3, <1>10 DEF Timeline!ToggleMessage, Timeline!MessageTimer
<1>11. CASE UNCHANGED Timeline!vars
  BY <1>2, <1>3, <1>11 DEF Timeline!vars
<1>12. QED
  BY <1>4, <1>5, <1>6, <1>7, <1>8, <1>9, <1>10, <1>11 DEF Timeline!Next
\* Where in the list of phases a status is.
LEMMA IndexOfPhases ==
    /\ Timeline!currentPhaseIndex("supporting") = 1 /\ Timeline!currentPhaseIndex("discussion") = 2
    /\ Timeline!currentPhaseIndex("voting") = 3 /\ Timeline!currentPhaseIndex("finalized") = 4
    /\ Timeline!currentPhaseIndex("failed") = 0 /\ Timeline!LastPhase = 4
<1> DEFINE P == <<"supporting", "discussion", "voting", "finalized">>
<1>1. /\ Timeline!PHASES = P /\ DOMAIN P = 1 .. 4 /\ Len(P) = 4
      /\ P[1] = "supporting" /\ P[2] = "discussion" /\ P[3] = "voting" /\ P[4] = "finalized"
  BY DEF Timeline!PHASES
<1> HIDE DEF P
<1>2. ASSUME NEW k \in 1 .. 4 PROVE Timeline!currentPhaseIndex(P[k]) = k
  <2>1. \A i \in 1 .. 4 : P[i] = P[k] <=> i = k
    BY <1>1
  <2>2. Timeline!Contains(P, P[k])
    BY <1>1 DEF Timeline!Contains
  <2>3. (CHOOSE i \in DOMAIN P : P[i] = P[k]) = k
    BY <1>1, <2>1
  <2>4. QED
    BY <1>1, <2>2, <2>3 DEF Timeline!currentPhaseIndex
<1>3. ~ Timeline!Contains(P, "failed")
  <2>1. \A i \in 1 .. 4 : P[i] # "failed"
    BY <1>1
  <2>2. QED
    BY <1>1, <2>1 DEF Timeline!Contains
<1>4. /\ Timeline!currentPhaseIndex("failed") = 0 /\ Timeline!LastPhase = 4
  BY <1>1, <1>3 DEF Timeline!currentPhaseIndex, Timeline!LastPhase
<1>5. QED
  BY <1>1, <1>2, <1>4

\* The state of each node.
LEMMA StatesOfNodes ==
    ASSUME NEW i \in 1 .. 4, NEW c \in 0 .. 4, NEW stage
    PROVE  Timeline!resolvePhaseState(i, c, stage) =
              IF stage = "failed" THEN IF i = 1 THEN "failed" ELSE "upcoming"
              ELSE IF i < c THEN "passed" ELSE IF i = c THEN "current" ELSE "upcoming"
BY DEF Timeline!resolvePhaseState

\* One node and four more.
LEMMA OneAndFour ==
    ASSUME NEW S, NEW a \in Seq(S), Len(a) = 1, NEW b \in Seq(S), Len(b) = 4
    PROVE  /\ a \o b \in Seq(S) /\ Len(a \o b) = 5 /\ (a \o b)[1] = a[1]
           /\ \A i \in 1 .. 4 : (a \o b)[i + 1] = b[i]
<1>1. /\ a \o b \in Seq(S) /\ Len(a \o b) = Len(a) + Len(b)
      /\ \A i \in 1 .. Len(a) + Len(b) :
            (a \o b)[i] = IF i <= Len(a) THEN a[i] ELSE b[i - Len(a)]
  BY ConcatProperties
<1>2. /\ 1 \in 1 .. Len(a) + Len(b) /\ Len(a) + Len(b) = 5 /\ 1 <= Len(a)
      /\ \A i \in 1 .. 4 : /\ i + 1 \in 1 .. Len(a) + Len(b)
                            /\ ~ (i + 1 <= Len(a)) /\ (i + 1) - Len(a) = i
  OBVIOUS
<1>3. ASSUME NEW i \in 1 .. 4 PROVE (a \o b)[i + 1] = b[i]
  <2>1. (a \o b)[i + 1] = IF i + 1 <= Len(a) THEN a[i + 1] ELSE b[(i + 1) - Len(a)]
    BY <1>1, <1>2
  <2>2. QED
    BY <1>2, <2>1
<1>4. (a \o b)[1] = a[1]
  BY <1>1, <1>2
<1>5. QED
  BY <1>1, <1>2, <1>3, <1>4

\* The wide timeline, node by node.
LEMMA WideNodes ==
    ASSUME NEW stage
    PROVE  LET all == Timeline!DesktopNodes(stage)
           IN /\ Len(all) = 5 /\ \E T : all \in Seq(T)
              /\ all[1] = Timeline!Node(0, "passed")
              /\ \A i \in 1 .. 4 : all[i + 1] = Timeline!Node(i,
                    Timeline!resolvePhaseState(i, Timeline!currentPhaseIndex(stage), stage))
<1> DEFINE N(i) == Timeline!Node(i,
                    Timeline!resolvePhaseState(i, Timeline!currentPhaseIndex(stage), stage))
           rest == [i \in 1 .. 4 |-> N(i)]
           one == <<Timeline!Node(0, "passed")>>
<1>1. Timeline!DesktopNodes(stage) = one \o rest
  BY IndexOfPhases DEF Timeline!DesktopNodes
<1> DEFINE T == {N(i) : i \in 1 .. 4} \cup {Timeline!Node(0, "passed")}
<1> HIDE DEF N
<1>2. /\ rest \in Seq(T) /\ Len(rest) = 4
      /\ \A i \in 1 .. 4 : rest[i] = N(i)
  OBVIOUS
<1>3. one \in Seq(T) /\ Len(one) = 1 /\ one[1] = Timeline!Node(0, "passed")
  OBVIOUS
<1> HIDE DEF T, one, rest
<1>4. /\ one \o rest \in Seq(T) /\ Len(one \o rest) = 5 /\ (one \o rest)[1] = one[1]
      /\ \A i \in 1 .. 4 : (one \o rest)[i + 1] = rest[i]
  <2>1. one \in Seq(T) /\ Len(one) = 1 /\ rest \in Seq(T) /\ Len(rest) = 4
    BY <1>2, <1>3
  <2>2. QED
    BY <2>1, OneAndFour
<1>5. QED
  BY <1>1, <1>2, <1>3, <1>4 DEF N
\* Three nodes.
LEMMA TwoAndOne == ASSUME NEW x, NEW y, NEW z PROVE <<x, y>> \o <<z>> = <<x, y, z>>
<1> DEFINE S == {x, y, z}
           a == <<x, y>>
           b == <<z>>
           c == <<x, y, z>>
<1>1. /\ a \in Seq(S) /\ b \in Seq(S) /\ c \in Seq(S)
      /\ Len(a) = 2 /\ Len(b) = 1 /\ Len(c) = 3
      /\ a[1] = x /\ a[2] = y /\ b[1] = z /\ c[1] = x /\ c[2] = y /\ c[3] = z
  OBVIOUS
<1> HIDE DEF S, a, b, c
<1>2. /\ a \o b \in Seq(S) /\ Len(a \o b) = Len(a) + Len(b)
      /\ \A i \in 1 .. Len(a) + Len(b) :
            (a \o b)[i] = IF i <= Len(a) THEN a[i] ELSE b[i - Len(a)]
  BY <1>1, ConcatProperties
<1>3. Len(a \o b) = Len(c)
  BY <1>1, <1>2
<1>4. ASSUME NEW i \in 1 .. Len(c) PROVE (a \o b)[i] = c[i]
  <2>1. /\ i \in 1 .. Len(a) + Len(b) /\ i \in {1, 2, 3}
        /\ i <= Len(a) <=> i \in {1, 2} /\ (i = 3 => i - Len(a) = 1)
    BY <1>1
  <2>2. (a \o b)[i] = IF i <= Len(a) THEN a[i] ELSE b[i - Len(a)]
    BY <1>2, <2>1
  <2>3. QED
    BY <1>1, <2>1, <2>2
<1>5. a \o b = c
  BY <1>1, <1>2, <1>3, <1>4, SeqEqual
<1>6. QED
  BY <1>5 DEF a, b, c

\* The place of the window on the wide timeline.
Offset(stage) ==
    IF stage \in {"supporting", "failed"} THEN 0 ELSE IF stage = "discussion" THEN 1 ELSE 2

\* What the narrow timeline shows.
StatesShown(stage) ==
    IF stage \in {"supporting", "discussion", "voting"} THEN <<"passed", "current", "upcoming">>
    ELSE IF stage = "finalized" THEN <<"passed", "passed", "current">>
    ELSE <<"passed", "failed", "upcoming">>

Stages == {"supporting", "discussion", "voting", "finalized", "failed"}

\* The narrow timeline, node by node.
LEMMA NarrowNodes ==
    ASSUME NEW stage \in Stages
    PROVE  Timeline!calculateMobileVisibleNodes(stage) =
              <<Timeline!Node(Offset(stage), StatesShown(stage)[1]),
                Timeline!Node(Offset(stage) + 1, StatesShown(stage)[2]),
                Timeline!Node(Offset(stage) + 2, StatesShown(stage)[3])>>
<1> DEFINE node(i, c) == IF i = 0 THEN Timeline!Node(0, "passed")
                         ELSE Timeline!Node(i, Timeline!resolvePhaseState(i, c, stage))
<1>1. ASSUME NEW c \in 1 .. 3, stage \in {"supporting", "discussion", "voting"},
             Timeline!currentPhaseIndex(stage) = c
      PROVE  Timeline!calculateMobileVisibleNodes(stage) =
                <<Timeline!Node(c - 1, "passed"), Timeline!Node(c, "current"),
                  Timeline!Node(c + 1, "upcoming")>>
  <2>1. Timeline!calculateMobileVisibleNodes(stage) =
           <<node(c - 1, c), node(c, c)>> \o <<node(c + 1, c)>>
    BY <1>1, IndexOfPhases DEF Timeline!calculateMobileVisibleNodes
  <2>2. /\ c \in 1 .. 4 /\ c + 1 \in 1 .. 4 /\ c \in 0 .. 4 /\ c - 1 \in 0 .. 2
        /\ ~ (c < c) /\ ~ (c + 1 < c) /\ c + 1 # c /\ c - 1 < c
    OBVIOUS
  <2>3. node(c, c) = Timeline!Node(c, "current")
    BY <1>1, <2>2, StatesOfNodes
  <2>4. node(c + 1, c) = Timeline!Node(c + 1, "upcoming")
    BY <1>1, <2>2, StatesOfNodes
  <2>5. node(c - 1, c) = Timeline!Node(c - 1, "passed")
    <3>1. CASE c = 1
      BY <3>1
    <3>2. CASE c # 1
      <4>1. c - 1 \in 1 .. 4
        BY <3>2
      <4>2. QED
        BY <1>1, <2>2, <4>1, StatesOfNodes
    <3>3. QED
      BY <3>1, <3>2
  <2> HIDE DEF node
  <2>6. QED
    BY <2>1, <2>3, <2>4, <2>5, TwoAndOne
<1>2. CASE stage = "supporting"
  BY <1>1, <1>2, IndexOfPhases DEF Offset, StatesShown
<1>3. CASE stage = "discussion"
  BY <1>1, <1>3, IndexOfPhases DEF Offset, StatesShown
<1>4. CASE stage = "voting"
  BY <1>1, <1>4, IndexOfPhases DEF Offset, StatesShown
<1>5. CASE stage = "finalized"
  <2>1. Timeline!calculateMobileVisibleNodes(stage) =
           <<Timeline!Node(2, "passed"), Timeline!Node(3, "passed"), Timeline!Node(4, "current")>>
    BY <1>5, IndexOfPhases DEF Timeline!calculateMobileVisibleNodes
  <2>2. QED
    BY <1>5, <2>1 DEF Offset, StatesShown
<1>6. CASE stage = "failed"
  <2>1. Timeline!calculateMobileVisibleNodes(stage) =
           <<Timeline!Node(0, "passed"), Timeline!Node(1, "failed"), Timeline!Node(2, "upcoming")>>
    BY <1>6, IndexOfPhases DEF Timeline!calculateMobileVisibleNodes
  <2>2. QED
    BY <1>6, <2>1 DEF Offset, StatesShown
<1>7. QED
  BY <1>2, <1>3, <1>4, <1>5, <1>6 DEF Stages
\* The state of the node i of the wide timeline.
StateAt(i, stage) ==
    IF i = 0 THEN "passed"
    ELSE Timeline!resolvePhaseState(i, Timeline!currentPhaseIndex(stage), stage)

\* The window shows the states of the wide timeline.
LEMMA ShownIsThere ==
    ASSUME NEW stage \in Stages
    PROVE  /\ Offset(stage) \in 0 .. 2
           /\ StatesShown(stage)[1] = StateAt(Offset(stage), stage)
           /\ StatesShown(stage)[2] = StateAt(Offset(stage) + 1, stage)
           /\ StatesShown(stage)[3] = StateAt(Offset(stage) + 2, stage)
<1>1. \A i \in 1 .. 4, c \in 0 .. 4 : Timeline!resolvePhaseState(i, c, stage) =
              IF stage = "failed" THEN IF i = 1 THEN "failed" ELSE "upcoming"
              ELSE IF i < c THEN "passed" ELSE IF i = c THEN "current" ELSE "upcoming"
  BY StatesOfNodes
<1>2. CASE stage = "supporting"
  <2>1. /\ Timeline!resolvePhaseState(1, 1, stage) = "current"
        /\ Timeline!resolvePhaseState(2, 1, stage) = "upcoming"
    BY <1>1, <1>2
  <2>2. QED
    BY <1>2, <2>1, IndexOfPhases DEF Offset, StatesShown, StateAt
<1>3. CASE stage = "discussion"
  <2>1. /\ Timeline!resolvePhaseState(1, 2, stage) = "passed"
        /\ Timeline!resolvePhaseState(2, 2, stage) = "current"
        /\ Timeline!resolvePhaseState(3, 2, stage) = "upcoming"
    BY <1>1, <1>3
  <2>2. QED
    BY <1>3, <2>1, IndexOfPhases DEF Offset, StatesShown, StateAt
<1>4. CASE stage = "voting"
  <2>1. /\ Timeline!resolvePhaseState(2, 3, stage) = "passed"
        /\ Timeline!resolvePhaseState(3, 3, stage) = "current"
        /\ Timeline!resolvePhaseState(4, 3, stage) = "upcoming"
    BY <1>1, <1>4
  <2>2. QED
    BY <1>4, <2>1, IndexOfPhases DEF Offset, StatesShown, StateAt
<1>5. CASE stage = "finalized"
  <2>1. /\ Timeline!resolvePhaseState(2, 4, stage) = "passed"
        /\ Timeline!resolvePhaseState(3, 4, stage) = "passed"
        /\ Timeline!resolvePhaseState(4, 4, stage) = "current"
    BY <1>1, <1>5
  <2>2. QED
    BY <1>5, <2>1, IndexOfPhases DEF Offset, StatesShown, StateAt
<1>6. CASE stage = "failed"
  <2>1. /\ Timeline!resolvePhaseState(1, 0, stage) = "failed"
        /\ Timeline!resolvePhaseState(2, 0, stage) = "upcoming"
    BY <1>1, <1>6
  <2>2. QED
    BY <1>6, <2>1, IndexOfPhases DEF Offset, StatesShown, StateAt
<1>7. QED
  BY <1>2, <1>3, <1>4, <1>5, <1>6 DEF Stages

\* The narrow timeline is a part of the wide one.
LEMMA WindowOnNodes ==
    ASSUME NEW stage \in Stages
    PROVE  LET visible == Timeline!calculateMobileVisibleNodes(stage)
               all == Timeline!DesktopNodes(stage)
               n == Offset(stage)
           IN /\ Len(visible) = 3 /\ Len(all) = 5 /\ n \in 0 .. 2 /\ DOMAIN visible = 1 .. 3
              /\ \A k \in 1 .. 3 : visible[k] = Timeline!Node(n + k - 1, StatesShown(stage)[k])
              /\ visible = SubSeq(all, n + 1, n + 3)
<1> DEFINE visible == Timeline!calculateMobileVisibleNodes(stage)
           all == Timeline!DesktopNodes(stage)
           n == Offset(stage)
           v1 == Timeline!Node(n, StatesShown(stage)[1])
           v2 == Timeline!Node(n + 1, StatesShown(stage)[2])
           v3 == Timeline!Node(n + 2, StatesShown(stage)[3])
<1>1. visible = <<v1, v2, v3>>
  BY NarrowNodes
<1>2. n \in 0 .. 2
  BY ShownIsThere
<1>3. /\ Len(visible) = 3 /\ DOMAIN visible = 1 .. 3
      /\ visible[1] = v1 /\ visible[2] = v2 /\ visible[3] = v3
  <2> HIDE DEF v1, v2, v3, visible
  <2>1. QED
    BY <1>1
<1>4. PICK T : all \in Seq(T)
  BY WideNodes
<1>5. Len(all) = 5 /\ \A i \in 0 .. 4 : all[i + 1] = Timeline!Node(i, StateAt(i, stage))
  <2>1. /\ Len(all) = 5 /\ all[1] = Timeline!Node(0, "passed")
        /\ \A i \in 1 .. 4 : all[i + 1] = Timeline!Node(i,
              Timeline!resolvePhaseState(i, Timeline!currentPhaseIndex(stage), stage))
    BY WideNodes
  <2> HIDE DEF all
  <2>2. ASSUME NEW i \in 0 .. 4 PROVE all[i + 1] = Timeline!Node(i, StateAt(i, stage))
    <3>1. CASE i = 0
      BY <2>1, <3>1 DEF StateAt
    <3>2. CASE i # 0
      <4>1. i \in 1 .. 4
        BY <3>2
      <4>2. QED
        BY <2>1, <3>2, <4>1 DEF StateAt
    <3>3. QED
      BY <3>1, <3>2
  <2>3. QED
    BY <2>1, <2>2
<1>6. all[n + 1] = v1 /\ all[n + 2] = v2 /\ all[n + 3] = v3
  <2>1. n \in 0 .. 4 /\ n + 1 \in 0 .. 4 /\ n + 2 \in 0 .. 4 /\ (n + 1) + 1 = n + 2 /\ (n + 2) + 1 = n + 3
    BY <1>2
  <2> HIDE DEF all, n
  <2>2. /\ all[n + 1] = Timeline!Node(n, StateAt(n, stage))
        /\ all[(n + 1) + 1] = Timeline!Node(n + 1, StateAt(n + 1, stage))
        /\ all[(n + 2) + 1] = Timeline!Node(n + 2, StateAt(n + 2, stage))
    BY <1>5, <2>1
  <2>3. QED
    BY <2>1, <2>2, ShownIsThere DEF n
<1>7. visible = SubSeq(all, n + 1, n + 3)
  <2> DEFINE part == SubSeq(all, n + 1, n + 3)
             V == {v1, v2, v3}
  <2> HIDE DEF visible, all, n, v1, v2, v3
  <2>1. n + 1 \in Int /\ n + 3 \in Int /\ \A i \in n + 1 .. n + 3 : i \in {n + 1, n + 2, n + 3}
    BY <1>2
  <2>2. \A i \in n + 1 .. n + 3 : all[i] \in V
    BY <1>6, <2>1
  <2>3. /\ part \in Seq(V) /\ Len(part) = IF n + 1 <= n + 3 THEN (n + 3) - (n + 1) + 1 ELSE 0
        /\ \A i \in 1 .. (n + 3) - (n + 1) + 1 : part[i] = all[(n + 1) + i - 1]
    BY <2>1, <2>2, SubSeqProperties
  <2>4. n + 1 <= n + 3 /\ (n + 3) - (n + 1) + 1 = 3
    BY <1>2
  <2> HIDE DEF part, V
  <2>5. Len(part) = 3 /\ part[1] = all[n + 1] /\ part[2] = all[n + 2] /\ part[3] = all[n + 3]
    <3>1. \A i \in 1 .. 3 : part[i] = all[(n + 1) + i - 1]
      BY <2>3, <2>4
    <3>2. (n + 1) + 1 - 1 = n + 1 /\ (n + 1) + 2 - 1 = n + 2 /\ (n + 1) + 3 - 1 = n + 3
      BY <1>2
    <3>3. part[1] = all[(n + 1) + 1 - 1] /\ part[2] = all[(n + 1) + 2 - 1]
          /\ part[3] = all[(n + 1) + 3 - 1]
      BY <3>1
    <3>4. QED
      BY <2>3, <2>4, <3>2, <3>3
  <2>6. visible \in Seq(V)
    <3>1. v1 \in V /\ v2 \in V /\ v3 \in V
      BY DEF V
    <3>2. QED
      BY <1>1, <3>1
  <2>7. \A i \in 1 .. Len(visible) : visible[i] = part[i]
    BY <1>3, <1>6, <2>5
  <2>8. visible = part
    BY <1>3, <2>3, <2>5, <2>6, <2>7, SeqEqual
  <2>9. QED
    BY <2>8 DEF part
<1>8. \A k \in 1 .. 3 : visible[k] = Timeline!Node(n + k - 1, StatesShown(stage)[k])
  <2>1. n + 1 - 1 = n /\ n + 2 - 1 = n + 1 /\ n + 3 - 1 = n + 2
    BY <1>2
  <2> HIDE DEF visible, n
  <2>2. QED
    BY <1>3, <2>1
<1>9. QED
  BY <1>2, <1>3, <1>5, <1>7, <1>8
\* Lines over the edges.
LEMMA Edges ==
    ASSUME NEW stage \in Stages
    PROVE  Timeline!shouldShowEdgeConnectors(stage) =
              [left |-> Offset(stage) > 0, right |-> Offset(stage) + 3 < 5]
<1> DEFINE c == Timeline!currentPhaseIndex(stage)
           l == Timeline!Len(Timeline!calculateMobileVisibleNodes(stage))
<1>1. l = 3
  BY WindowOnNodes
<1>2. Timeline!shouldShowEdgeConnectors(stage) =
         LET rightmost == IF stage = "finalized" THEN 4 ELSE IF stage = "failed" THEN 2
                          ELSE IF c + 1 < 4 THEN c + 1 ELSE 4
         IN [left |-> c > 1 /\ stage # "failed", right |-> l = 3 /\ rightmost < 4]
  BY IndexOfPhases DEF Timeline!shouldShowEdgeConnectors
<1> HIDE DEF l
<1>3. /\ stage = "supporting" => c = 1 /\ Offset(stage) = 0
      /\ stage = "discussion" => c = 2 /\ Offset(stage) = 1
      /\ stage = "voting" => c = 3 /\ Offset(stage) = 2
      /\ stage = "finalized" => c = 4 /\ Offset(stage) = 2
      /\ stage = "failed" => c = 0 /\ Offset(stage) = 0
  BY IndexOfPhases DEF Offset
<1> HIDE DEF c
<1>4. QED
  BY <1>1, <1>2, <1>3 DEF Stages

\* The narrow connectors move as the wide ones do.
LEMMA SameMoves ==
    ASSUME NEW stage \in Stages, NEW k \in 1 .. 2
    PROVE  Timeline!MobileMoves(k, stage) <=>
              Timeline!DesktopMoves(Timeline!calculateMobileVisibleNodes(stage)[k].phase, stage)
<1> DEFINE n == Offset(stage)
           i == n + k - 1
           c == Timeline!currentPhaseIndex(stage)
           steps(a, b) == Timeline!shouldAnimateConnector(
                             Timeline!resolveConnectorVariant(a, b), i, stage, c)
<1>1. /\ k \in 1 .. 3 /\ k + 1 \in 1 .. 3 /\ n \in 0 .. 2 /\ i \in 0 .. 3
      /\ n + (k + 1) - 1 = i + 1 /\ i + 1 # 0
  BY ShownIsThere
<1>2. /\ Timeline!calculateMobileVisibleNodes(stage)[k] = Timeline!Node(i, StatesShown(stage)[k])
      /\ Timeline!calculateMobileVisibleNodes(stage)[k + 1] =
            Timeline!Node(n + (k + 1) - 1, StatesShown(stage)[k + 1])
  BY <1>1, WindowOnNodes
<1>3. StatesShown(stage)[k] = StateAt(i, stage) /\ StatesShown(stage)[k + 1] = StateAt(i + 1, stage)
  <2>1. CASE k = 1
    <3>1. i = n /\ k + 1 = 2
      BY <1>1, <2>1
    <3> HIDE DEF i, n
    <3>2. QED
      BY <2>1, <3>1, ShownIsThere DEF n
  <2>2. CASE k = 2
    <3>1. i = n + 1 /\ k + 1 = 3 /\ i + 1 = n + 2
      BY <1>1, <2>2
    <3> HIDE DEF i, n
    <3>2. QED
      BY <2>2, <3>1, ShownIsThere DEF n
  <2>3. QED
    BY <2>1, <2>2
<1>4. Timeline!MobileMoves(k, stage) <=>
         stage # "failed" /\ steps(StateAt(i, stage), StateAt(i + 1, stage))
  <2> HIDE DEF i, n
  <2>1. /\ Timeline!calculateMobileVisibleNodes(stage)[k].state = StateAt(i, stage)
        /\ Timeline!calculateMobileVisibleNodes(stage)[k].phase = i
        /\ Timeline!calculateMobileVisibleNodes(stage)[k + 1].state = StateAt(i + 1, stage)
    BY <1>2, <1>3 DEF Timeline!Node
  <2>2. QED
    BY <2>1, Zenon DEF Timeline!MobileMoves
<1>5. Timeline!calculateMobileVisibleNodes(stage)[k].phase = i
  BY <1>2 DEF Timeline!Node
<1>6. Timeline!DesktopMoves(i, stage) <=>
         IF i = 0 THEN stage \notin {"finalized", "failed"}
         ELSE stage # "failed" /\ steps(StateAt(i, stage), StateAt(i + 1, stage))
  <2>1. StateAt(i + 1, stage) = Timeline!resolvePhaseState(i + 1, c, stage)
    BY <1>1 DEF StateAt
  <2>2. i # 0 => StateAt(i, stage) = Timeline!resolvePhaseState(i, c, stage)
    BY DEF StateAt
  <2> HIDE DEF i
  <2>3. QED
    BY <2>1, <2>2, Zenon DEF Timeline!DesktopMoves
<1>7. CASE i = 0
  <2>1. n = 0 /\ k = 1
    BY <1>1, <1>7
  <2>2. stage \in {"supporting", "failed"}
    BY <2>1 DEF Offset
  <2>3. CASE stage = "supporting"
    <3>1. StateAt(i, stage) = "passed" /\ StateAt(i + 1, stage) = "current"
      BY <1>3, <2>1, <2>3 DEF StatesShown
    <3>2. c = 1
      BY <2>3, IndexOfPhases
    <3>3. steps(StateAt(i, stage), StateAt(i + 1, stage))
      BY <1>7, <2>3, <3>1, <3>2
         DEF Timeline!shouldAnimateConnector, Timeline!resolveConnectorVariant
    <3> HIDE DEF i, steps
    <3>4. QED
      BY <1>4, <1>5, <1>6, <1>7, <2>3, <3>3
  <2>4. CASE stage = "failed"
    <3> HIDE DEF i, steps
    <3>1. QED
      BY <1>4, <1>5, <1>6, <1>7, <2>4
  <2>5. QED
    BY <2>2, <2>3, <2>4
<1>8. CASE i # 0
  <2> HIDE DEF i, steps
  <2>1. QED
    BY <1>4, <1>5, <1>6, <1>8
<1>9. QED
  BY <1>7, <1>8

\* What stands out is the phase the proposal is in or failed in.
LEMMA Emphasis ==
    ASSUME NEW stage \in Stages, NEW k \in 1 .. 3
    PROVE  Timeline!isHighlighted(k, stage) <=>
              Timeline!calculateMobileVisibleNodes(stage)[k].state \in {"current", "failed"}
<1> DEFINE i == Offset(stage) + k - 1
           st == StatesShown(stage)[k]
<1>1. Timeline!calculateMobileVisibleNodes(stage)[k] = Timeline!Node(i, st)
  BY WindowOnNodes
<1>2. /\ Timeline!calculateMobileVisibleNodes(stage)[k].state = st
      /\ Timeline!calculateMobileVisibleNodes(stage)[k].phase = i
  BY <1>1 DEF Timeline!Node
<1> DEFINE final == st = "current" /\ i = 4
<1>3. Timeline!isHighlighted(k, stage) <=>
         \/ k = 2 /\ ~ final /\ ~ (st = "passed" /\ stage = "finalized") /\ st # "failed"
         \/ final \/ st = "failed"
  <2> HIDE DEF i, st
  <2>1. QED
    BY <1>2, IndexOfPhases DEF Timeline!isHighlighted
<1>4. CASE stage \in {"supporting", "discussion", "voting"}
  <2>1. st = IF k = 1 THEN "passed" ELSE IF k = 2 THEN "current" ELSE "upcoming"
    BY <1>4 DEF StatesShown
  <2> HIDE DEF i, st
  <2>2. QED
    BY <1>2, <1>3, <1>4, <2>1
<1>5. CASE stage = "finalized"
  <2>1. /\ st = IF k = 3 THEN "current" ELSE "passed"
        /\ k = 3 => i = 4
    BY <1>5 DEF StatesShown, Offset
  <2> HIDE DEF i, st
  <2>2. QED
    BY <1>2, <1>3, <1>5, <2>1
<1>6. CASE stage = "failed"
  <2>1. st = IF k = 1 THEN "passed" ELSE IF k = 2 THEN "failed" ELSE "upcoming"
    BY <1>6 DEF StatesShown
  <2> HIDE DEF i, st
  <2>2. QED
    BY <1>2, <1>3, <1>6, <2>1
<1>7. QED
  BY <1>4, <1>5, <1>6 DEF Stages
\* The narrow timeline shows what the wide one shows, in every phase.
LEMMA NarrowIsWide == ASSUME Timeline!TimelineAssumption PROVE Timeline!MobileShowsTheSame
<1> DEFINE stage == Timeline!Status
           visible == Timeline!calculateMobileVisibleNodes(stage)
           all == Timeline!DesktopNodes(stage)
           n == Offset(stage)
<1>1. stage \in Stages
  BY EndsAreEpochs DEF Stages
<1>2. /\ Timeline!Len(visible) = 3 /\ Timeline!Len(all) = 5 /\ n \in 0 .. 2 /\ DOMAIN visible = 1 .. 3
      /\ visible = Timeline!SubSeq(all, n + 1, n + 3)
  BY <1>1, WindowOnNodes
<1>3. Timeline!shouldShowEdgeConnectors(stage) = [left |-> n > 0, right |-> n + 3 < 5]
  BY <1>1, Edges
<1>4. \A k \in 1 .. 2 : Timeline!MobileMoves(k, stage) <=> Timeline!DesktopMoves(visible[k].phase, stage)
  BY <1>1, SameMoves
<1>5. \A k \in 1 .. 3 : Timeline!isHighlighted(k, stage) <=> visible[k].state \in {"current", "failed"}
  BY <1>1, Emphasis
<1> HIDE DEF visible, all, n, stage
<1>6. \E m \in 0 .. Timeline!Len(all) - Timeline!Len(visible) :
         /\ visible = Timeline!SubSeq(all, m + 1, m + Timeline!Len(visible))
         /\ Timeline!shouldShowEdgeConnectors(stage) =
               [left |-> m > 0, right |-> m + Timeline!Len(visible) < Timeline!Len(all)]
  <2>1. n \in 0 .. Timeline!Len(all) - Timeline!Len(visible)
    BY <1>2
  <2>2. n + Timeline!Len(visible) = n + 3
    BY <1>2
  <2>3. QED
    BY <1>2, <1>3, <2>1, <2>2
<1>7. 1 .. Timeline!Len(visible) - 1 = 1 .. 2
  BY <1>2
<1>8. QED
  BY <1>2, <1>4, <1>5, <1>6, <1>7 DEF Timeline!MobileShowsTheSame, visible, all, stage

\* What is known of a date that has been found.
LEMMA DateFound ==
    ASSUME Timeline!TimelineAssumption, TimelineInv, date # None
    PROVE  LET off == date.at - Timeline!TrueStart(date.target)
           IN /\ date.at \in Int /\ date.now \in 0 .. clock
              /\ date.target = Timeline!PhaseEnd /\ date.slot = slotSeen
              /\ date.target <= Timeline!EpochOf(slotSeen) => date.at <= date.now
              /\ date.rate.millis = Pace * date.rate.slots =>
                    \/ date.how \in {"block", "anchored"} /\ -1000 < off /\ off <= 0
                    \/ date.how = "unanchored" /\ 0 <= off /\ off <= date.now - date.slot * Pace
                    \/ date.how = "now" /\ date.target <= Timeline!EpochOf(date.slot)
<1>1. PICK atTarget \in Timeline!Outcomes, atSlot \in Timeline!Outcomes, samples \in SampleLists,
           now \in 0 .. clock :
             /\ Timeline!PhaseEnd \in Nat /\ slotSeen * Pace <= now
             /\ date = Timeline!epochToDate(Timeline!PhaseEnd, slotSeen, atTarget, atSlot, samples, now)
  BY DEF TimelineInv, DateInv
<1>2. now \in Nat /\ slotSeen \in Nat
  <2>1. clock \in Nat
    BY DEF TimelineInv, Timeline!TimelineAssumption
  <2>2. Timeline!SlotAt(clock) \in Nat
    BY <2>1, SlotsOfTimes
  <2>3. QED
    BY <2>1, <2>2 DEF TimelineInv
<1> DEFINE end == Timeline!PhaseEnd
<1> HIDE DEF end
<1>3. end \in Nat /\ end = Timeline!PhaseEnd
  BY <1>1 DEF end
<1>4. LET d == Timeline!epochToDate(end, slotSeen, atTarget, atSlot, samples, now)
          off == d.at - Timeline!TrueStart(end)
      IN /\ d.at \in Int /\ d.now = now /\ d.target = end /\ d.slot = slotSeen
         /\ end <= Timeline!EpochOf(slotSeen) => d.at <= now
         /\ d.rate.millis = Pace * d.rate.slots =>
               \/ d.how \in {"block", "anchored"} /\ -1000 < off /\ off <= 0
               \/ d.how = "unanchored" /\ 0 <= off /\ off <= now - slotSeen * Pace
               \/ d.how = "now" /\ end <= Timeline!EpochOf(slotSeen)
  BY <1>1, <1>2, <1>3, DateOf
<1>5. date = Timeline!epochToDate(end, slotSeen, atTarget, atSlot, samples, now)
  BY <1>1, <1>3
<1>6. QED
  BY <1>3, <1>4, <1>5

\* The card in view is one of the stage.
LEMMA CardsOfStages ==
    ASSUME TimelineInv
    PROVE  /\ Timeline!Status = "supporting" => Timeline!CurrentCard = "supporting"
           /\ Timeline!CurrentCard \in {"supporting", "discussion"}
           /\ Timeline!Status # "supporting" =>
                 Timeline!CurrentCard = IF activeIndex = 2 THEN "discussion" ELSE "supporting"
<1>1. activeIndex \in {1, 2}
  BY DEF TimelineInv
<1>2. CASE Timeline!Status = "supporting"
  <2>1. Timeline!Cards(Timeline!Status) = <<"supporting">>
    BY <1>2 DEF Timeline!Cards
  <2>2. Timeline!CurrentCard = <<"supporting">>[1]
    BY <1>1, <2>1 DEF Timeline!CurrentCard
  <2>3. QED
    BY <1>2, <2>2
<1>3. CASE Timeline!Status # "supporting"
  <2>1. Timeline!Cards(Timeline!Status) = <<"supporting", "discussion">>
    BY <1>3 DEF Timeline!Cards
  <2>2. Timeline!CurrentCard = <<"supporting", "discussion">>[activeIndex]
    BY <1>1, <2>1 DEF Timeline!CurrentCard
  <2>3. QED
    BY <1>1, <1>3, <2>2
<1>4. QED
  BY <1>2, <1>3

\* For any pace, length of epochs and samples, and whatever of the requests fails:
\* the narrow timeline is a window on the wide one, dates are as close as what they
\* were projected from allows, a phase that is over counts no further, only the
\* phase the proposal is in is counted down, and a new stage turns the carousel.
THEOREM TimelineIsSound ==
    ASSUME Timeline!TimelineAssumption
    PROVE  Timeline!Spec =>
              /\ [](/\ Timeline!TimelineTypeOK /\ Timeline!MobileShowsTheSame
                    /\ Timeline!DateIsClose /\ Timeline!OverReadsEnded
                    /\ Timeline!OnlyTheCurrentPhaseRuns)
              /\ [][Timeline!StageChangeTurnsTheCard]_(Timeline!vars)
<1>1. TimelineInv => Timeline!TimelineTypeOK
  BY DateFound DEF TimelineInv, Timeline!TimelineTypeOK
<1>2. TimelineInv => Timeline!DateIsClose
  <2> SUFFICES ASSUME TimelineInv, date # None, date.rate.millis = Pace * date.rate.slots
               PROVE  LET off == date.at - Timeline!TrueStart(date.target)
                          age == date.now - date.slot * Pace
                      IN CASE date.how \in {"block", "anchored"} -> -1000 < off /\ off <= 0
                           [] date.how = "unanchored" -> 0 <= off /\ off <= age
                           [] date.how = "now" -> date.target <= Timeline!EpochOf(date.slot)
    BY DEF Timeline!DateIsClose
  <2>1. LET off == date.at - Timeline!TrueStart(date.target)
        IN \/ date.how \in {"block", "anchored"} /\ -1000 < off /\ off <= 0
           \/ date.how = "unanchored" /\ 0 <= off /\ off <= date.now - date.slot * Pace
           \/ date.how = "now" /\ date.target <= Timeline!EpochOf(date.slot)
    BY DateFound
  <2>2. QED
    BY <2>1
<1>3. TimelineInv => Timeline!OverReadsEnded
  <2> SUFFICES ASSUME TimelineInv, date # None, nowShown # None,
                      date.target <= Timeline!EpochOf(slotSeen), nowShown >= date.now
               PROVE  Timeline!RemainingTime = <<"Ended">>
    BY DEF Timeline!OverReadsEnded
  <2>1. date.at \in Int /\ date.now \in 0 .. clock /\ date.at <= date.now /\ nowShown \in 0 .. clock
        /\ clock \in Int
    BY DateFound DEF TimelineInv
  <2>2. date.at - nowShown <= 0
    BY <2>1
  <2>3. Timeline!calculateVotingEndsIn(date.at, nowShown) = <<"Ended">>
    BY <2>2 DEF Timeline!calculateVotingEndsIn
  <2>4. QED
    BY <2>3 DEF Timeline!RemainingTime
<1>4. TimelineInv => Timeline!OnlyTheCurrentPhaseRuns
  <2> SUFFICES ASSUME TimelineInv, NEW end \in {0, MaxTime + 1}, ~ Timeline!isCardEnded(end)
               PROVE  Timeline!CurrentCard = Timeline!Status
    BY DEF Timeline!OnlyTheCurrentPhaseRuns
  <2>1. /\ Timeline!Status \in {"supporting", "discussion", "voting"}
        /\ ~ (Timeline!CurrentCard = "supporting" /\ Timeline!Status # "supporting")
        /\ ~ (Timeline!CurrentCard = "discussion" /\ Timeline!Status \in {"voting", "finalized"})
    BY EndsAreEpochs DEF Timeline!isCardEnded
  <2>2. QED
    BY <2>1, CardsOfStages
<1>5. TimelineInv /\ TimelineInv' /\ [Timeline!Next]_(Timeline!vars)
         => [Timeline!StageChangeTurnsTheCard]_(Timeline!vars)
  <2> SUFFICES ASSUME TimelineInv, TimelineInv', [Timeline!Next]_(Timeline!vars),
                      Timeline!Status' # Timeline!Status
               PROVE  Timeline!CurrentCard' = IF Timeline!Status' = "discussion"
                                              THEN "discussion" ELSE "supporting"
    BY DEF Timeline!StageChangeTurnsTheCard
  <2>1. Timeline!EpochInfoArrives
    BY SameStage DEF Timeline!Next, Timeline!vars, Timeline!TimePasses, Timeline!UpdateNow,
       Timeline!AskDate, Timeline!DateArrives, Timeline!GoTo, Timeline!ToggleMessage,
       Timeline!MessageTimer
  <2>2. activeIndex' = IF Timeline!Status' # prevStage THEN Timeline!InitialIndex(Timeline!Status')
                       ELSE activeIndex
    BY <2>1 DEF Timeline!EpochInfoArrives, Timeline!RenderCarousel, Timeline!InitialIndex,
       Timeline!Status, Timeline!EpochOf
  <2>3. activeIndex' = IF Timeline!Status' = "discussion" THEN 2 ELSE 1
    BY <2>2 DEF TimelineInv, Timeline!InitialIndex
  <2>4. /\ Timeline!Status' = "supporting" => Timeline!CurrentCard' = "supporting"
        /\ Timeline!Status' # "supporting" =>
               Timeline!CurrentCard' = IF activeIndex' = 2 THEN "discussion" ELSE "supporting"
    <3>1. activeIndex' \in {1, 2}
      BY DEF TimelineInv
    <3>2. CASE Timeline!Status' = "supporting"
      <4>1. Timeline!CurrentCard' = <<"supporting">>[1]
        BY <3>1, <3>2 DEF Timeline!CurrentCard, Timeline!Cards
      <4>2. QED
        BY <3>2, <4>1
    <3>3. CASE Timeline!Status' # "supporting"
      <4>1. Timeline!CurrentCard' = <<"supporting", "discussion">>[activeIndex']
        BY <3>1, <3>3 DEF Timeline!CurrentCard, Timeline!Cards
      <4>2. QED
        BY <3>1, <3>3, <4>1
    <3>4. QED
      BY <3>2, <3>3
  <2>5. QED
    BY <2>3, <2>4
<1>6. QED
  BY <1>1, <1>2, <1>3, <1>4, <1>5, NarrowIsWide, TimelineInit, TimelineStep, PTL DEF Timeline!Spec

-----------------------------------------------------------------------------
(***************************************************************************)
(* The tables of voters and supporters (VoterTables), for any validators,  *)
(* stakers, accounts on chain, lists and orders of the answers.            *)
(***************************************************************************)
CONSTANTS VoteAccounts, IdentityOf, DelegatedTo, Proposals, Subject, StakeOf, Known, NameOf,
          Names, SearchTerms, PageSizes, DefaultPageSize, Unset, InitialAccounts, MaxNew
VARIABLES accounts, voting, online, list, listing, votes, supports, new, view

Tables == INSTANCE VoterTables WITH Shown <- Subject

\* A list that was loaded, if any: its validators have names and stakes, and what
\* leads to one of them is its vote account or its identity.
IsList(l) ==
    l # Unset =>
        /\ DOMAIN l.entries \subseteq VoteAccounts
        /\ \A v \in DOMAIN l.entries : /\ l.entries[v].name # "unknown"
                                      /\ l.entries[v].stake # Unset
        /\ \A x \in DOMAIN l.map : /\ l.map[x] \in DOMAIN l.entries
                                  /\ x \in {l.map[x], IdentityOf[l.map[x]]}

ShownVotes == {Tables!Vote(v, Subject) : v \in VoteAccounts}
ShownOverrides == {Tables!Override(s, Subject) : s \in StakeAccounts}
ShownSupports == {Tables!Support(v, Subject) : v \in VoteAccounts}
VotesIn(S) == {a \in S : a.kind = "vote" /\ a.fields[2] = Subject}
OverridesIn(S) == {a \in S : a.kind = "override" /\ a.fields[4] = Subject}
SupportsIn(S) == {a \in S : a.kind = "support" /\ a.fields[1] = Subject}
RowsOf(A, l) == {Tables!VoterRow(a, l) : a \in A}

\* A request under a key, while S is on chain.
RequestOK(r, k, S) ==
    /\ DOMAIN r = {"list", "votes", "overrides", "since"}
    /\ Tables!VotesKey(r.list) = k /\ IsList(r.list)
    /\ r.since \subseteq S
    /\ r.votes # Unset => /\ r.votes \subseteq ShownVotes /\ IsFiniteSet(r.votes)
                          /\ VotesIn(r.since) \subseteq r.votes
    /\ r.overrides # Unset => /\ r.overrides \subseteq ShownOverrides /\ IsFiniteSet(r.overrides)
                              /\ OverridesIn(r.since) \subseteq r.overrides

EntryOK(e, k, S) ==
    /\ DOMAIN e = {"data", "built", "request"}
    /\ e.request # None => RequestOK(e.request, k, S)
    /\ e.data # Unset =>
          /\ Tables!VotesKey(e.built) = k /\ IsList(e.built)
          /\ \E A \in SUBSET (ShownVotes \cup ShownOverrides) :
                IsFiniteSet(A) /\ e.data = RowsOf(A, e.built)

EntriesOK(e, S) == DOMAIN e = Tables!Keys /\ \A k \in Tables!Keys : EntryOK(e[k], k, S)

AccountsInv == IsFiniteSet(accounts) /\ \A a \in accounts : Tables!IsAccount(a)
ClusterInv ==
    /\ online \subseteq VoteAccounts /\ changes \in 0 .. MaxChanges /\ fetches \in 0 .. MaxFetches
    /\ listing \in BOOLEAN /\ voting \in BOOLEAN /\ IsList(list)
SupportsInv ==
    /\ DOMAIN supports = {"data", "request"}
    /\ supports.data # Unset => supports.data \subseteq ShownSupports /\ IsFiniteSet(supports.data)
ViewInv ==
    /\ DOMAIN view = {"tab", "search", "sort", "page", "size"}
    /\ view.page \in Nat /\ view.size \in PageSizes
    /\ view.tab \in {"voters", "supporters"} /\ (view.tab = "voters" => voting)

RowsInv == AccountsInv /\ ClusterInv /\ EntriesOK(votes, accounts) /\ SupportsInv /\ ViewInv

\* The page that was chosen still has a row.
PageHolds ==
    Tables!Filtered # {} => view.page * view.size < Cardinality(Tables!Filtered)

TablesInv == RowsInv /\ PageHolds

\* The fields of an account.
LEMMA AccountFields ==
    /\ \A v, p : LET a == Tables!Vote(v, p)
                IN a.kind = "vote" /\ a.seed = v /\ a.fields = <<IdentityOf[v], p>>
    /\ \A v, p : LET a == Tables!Support(v, p)
                IN a.kind = "support" /\ a.seed = v /\ a.fields = <<p, IdentityOf[v]>>
    /\ \A s, p : LET a == Tables!Override(s, p)
                IN a.kind = "override" /\ a.fields = <<"delegator", s, DelegatedTo[s], p>>
BY DEF Tables!Vote, Tables!Support, Tables!Override

\* What the RPC node filters.
LEMMA Filters ==
    ASSUME AccountsInv
    PROVE  /\ Tables!getProposalVotes(Subject) = VotesIn(accounts)
           /\ Tables!getProposalVoteOverrides(Subject) = OverridesIn(accounts)
           /\ Tables!getSupportAccounts(Subject) = SupportsIn(accounts)
           /\ VotesIn(accounts) \subseteq ShownVotes /\ IsFiniteSet(VotesIn(accounts))
           /\ OverridesIn(accounts) \subseteq ShownOverrides /\ IsFiniteSet(OverridesIn(accounts))
           /\ SupportsIn(accounts) \subseteq ShownSupports /\ IsFiniteSet(SupportsIn(accounts))
<1>1. (40 - 8) \div 32 + 1 = 2 /\ (104 - 8) \div 32 + 1 = 4 /\ (8 - 8) \div 32 + 1 = 1
  OBVIOUS
<1>2. /\ Tables!getProposalVotes(Subject) = VotesIn(accounts)
      /\ Tables!getProposalVoteOverrides(Subject) = OverridesIn(accounts)
      /\ Tables!getSupportAccounts(Subject) = SupportsIn(accounts)
  BY <1>1 DEF Tables!getProposalVotes, Tables!getProposalVoteOverrides, Tables!getSupportAccounts,
              Tables!memcmp, VotesIn, OverridesIn, SupportsIn
<1>3. /\ IsFiniteSet(VotesIn(accounts)) /\ IsFiniteSet(OverridesIn(accounts))
      /\ IsFiniteSet(SupportsIn(accounts))
  BY FS_Subset DEF AccountsInv, VotesIn, OverridesIn, SupportsIn
<1>4. ASSUME NEW a \in accounts
      PROVE  /\ a.kind = "vote" /\ a.fields[2] = Subject => a \in ShownVotes
             /\ a.kind = "override" /\ a.fields[4] = Subject => a \in ShownOverrides
             /\ a.kind = "support" /\ a.fields[1] = Subject => a \in ShownSupports
  <2>1. Tables!IsAccount(a) BY DEF AccountsInv
  <2>2. ASSUME NEW v \in VoteAccounts, NEW p, a = Tables!Vote(v, p)
        PROVE  a.kind = "vote" /\ (a.fields[2] = Subject => a \in ShownVotes)
    <3>1. a.kind = "vote" /\ a.fields[2] = p BY <2>2, AccountFields
    <3>2. QED BY <2>2, <3>1 DEF ShownVotes
  <2>3. ASSUME NEW v \in VoteAccounts, NEW p, a = Tables!Support(v, p)
        PROVE  a.kind = "support" /\ (a.fields[1] = Subject => a \in ShownSupports)
    <3>1. a.kind = "support" /\ a.fields = <<p, IdentityOf[v]>> BY <2>3, AccountFields
    <3>2. QED BY <2>3, <3>1 DEF ShownSupports
  <2>4. ASSUME NEW s \in StakeAccounts, NEW p, a = Tables!Override(s, p)
        PROVE  a.kind = "override" /\ (a.fields[4] = Subject => a \in ShownOverrides)
    <3>1. a.kind = "override" /\ a.fields[4] = p BY <2>4, AccountFields
    <3>2. QED BY <2>4, <3>1 DEF ShownOverrides
  <2>5. QED BY <2>1, <2>2, <2>3, <2>4 DEF Tables!IsAccount
<1>5. QED BY <1>2, <1>3, <1>4 DEF VotesIn, OverridesIn, SupportsIn

LEMMA LoadedIsList ==
    ASSUME Tables!TablesAssumption, online \subseteq VoteAccounts, NEW named \in {Known, {}},
           NEW l \in Tables!getValidators(named)
    PROVE  IsList(l)
<1>1. PICK m \in Tables!validatorMaps :
          l = [entries |-> [v \in online |->
                               [name |-> IF v \in named THEN NameOf[v] ELSE "placeholder",
                                stake |-> StakeOf[v]]],
               map |-> m]
  BY DEF Tables!getValidators
<1>2. /\ DOMAIN l.entries = online /\ l.map = m
      /\ \A v \in online :
            /\ l.entries[v].name = IF v \in named THEN NameOf[v] ELSE "placeholder"
            /\ l.entries[v].stake = StakeOf[v]
  BY <1>1
<1>3. \A v \in Known : NameOf[v] # "unknown" BY DEF Tables!TablesAssumption
<1>4. (\A v \in VoteAccounts : StakeOf[v] \in Nat) /\ Unset \notin Nat
  BY DEF Tables!TablesAssumption
<1>5. ASSUME NEW v \in online
      PROVE  l.entries[v].name # "unknown" /\ l.entries[v].stake # Unset
  <2>1. l.entries[v].stake # Unset BY <1>2, <1>4
  <2>2. v \in named => v \in Known OBVIOUS
  <2>3. l.entries[v].name # "unknown" BY <1>2, <1>3, <2>2
  <2>4. QED BY <2>1, <2>3
<1>6. /\ m \in [online \cup {IdentityOf[v] : v \in online} -> online]
      /\ \A v \in online : m[v] = v /\ IdentityOf[m[IdentityOf[v]]] = IdentityOf[v]
  BY DEF Tables!validatorMaps
<1>7. ASSUME NEW x \in DOMAIN m PROVE m[x] \in online /\ x \in {m[x], IdentityOf[m[x]]}
  BY <1>6
<1>8. QED BY <1>2, <1>5, <1>7 DEF IsList

\* The key of a list; only without a list it is null.
LEMMA KeyOf ==
    ASSUME Tables!TablesAssumption, NEW l, IsList(l)
    PROVE  Tables!VotesKey(l) \in Tables!Keys /\ (l # Unset => Tables!VotesKey(l) # None)
<1>1. CASE l = Unset BY <1>1 DEF Tables!VotesKey, Tables!Keys
<1>2. CASE l # Unset
  <2>1. /\ Tables!Cardinality(DOMAIN l.entries) = Cardinality(DOMAIN l.entries)
        /\ Tables!Cardinality(VoteAccounts) = Cardinality(VoteAccounts)
    BY DEF Tables!Cardinality, Cardinality
  <2>2. Tables!IsFiniteSet(VoteAccounts) <=> IsFiniteSet(VoteAccounts)
    BY DEF Tables!IsFiniteSet, IsFiniteSet
  <2>3. Tables!IsFiniteSet(VoteAccounts) /\ None \notin Nat BY DEF Tables!TablesAssumption
  <2>4. DOMAIN l.entries \subseteq VoteAccounts BY <1>2 DEF IsList
  <2>5. /\ Cardinality(DOMAIN l.entries) \in Nat /\ Cardinality(VoteAccounts) \in Nat
        /\ Cardinality(DOMAIN l.entries) <= Cardinality(VoteAccounts)
    BY <2>2, <2>3, <2>4, FS_Subset, FS_CardinalityType
  <2>6. Tables!VotesKey(l) = Cardinality(DOMAIN l.entries)
        /\ Tables!Keys = {None} \cup 0 .. Cardinality(VoteAccounts)
    BY <1>2, <2>1 DEF Tables!VotesKey, Tables!Keys
  <2>7. QED BY <2>3, <2>5, <2>6
<1>3. QED BY <1>1, <1>2

LEMMA RequestIsOK ==
    ASSUME NEW l, IsList(l)
    PROVE  RequestOK(Tables!NewRequest(l), Tables!VotesKey(l), accounts)
BY DEF RequestOK, Tables!NewRequest

\* An entry with another request.
WithRequest(e, k, r) == [e EXCEPT ![k].request = r]

LEMMA EntryAsked ==
    ASSUME NEW e, NEW S, EntriesOK(e, S), NEW k \in Tables!Keys, NEW r,
           r # None => RequestOK(r, k, S)
    PROVE  LET f == WithRequest(e, k, r)
           IN /\ EntriesOK(f, S)
              /\ \A j \in Tables!Keys : f[j].data = e[j].data /\ f[j].built = e[j].built
              /\ f[k].request = r
<1> DEFINE f == WithRequest(e, k, r)
           entry == [e[k] EXCEPT !.request = r]
<1>1. DOMAIN e = Tables!Keys /\ EntryOK(e[k], k, S) BY DEF EntriesOK
<1>2. /\ DOMAIN f = Tables!Keys
      /\ \A j \in Tables!Keys : f[j] = IF j = k THEN entry ELSE e[j]
  BY <1>1 DEF WithRequest
<1>3. /\ DOMAIN entry = {"data", "built", "request"} /\ entry.request = r
      /\ entry.data = e[k].data /\ entry.built = e[k].built
  BY <1>1 DEF EntryOK
<1> HIDE DEF entry, f
<1>4. EntryOK(entry, k, S) BY <1>1, <1>3 DEF EntryOK
<1>5. EntriesOK(f, S) BY <1>2, <1>4 DEF EntriesOK
<1>6. QED BY <1>2, <1>3, <1>5 DEF f

LEMMA ObserveAsks ==
    ASSUME Tables!TablesAssumption, NEW e, EntriesOK(e, accounts), NEW l, IsList(l)
    PROVE  /\ EntriesOK(Tables!Observe(e, l), accounts)
           /\ \A k \in Tables!Keys : /\ Tables!Observe(e, l)[k].data = e[k].data
                                     /\ Tables!Observe(e, l)[k].built = e[k].built
<1> DEFINE k == Tables!VotesKey(l)
           r == Tables!NewRequest(l)
<1>1. RequestOK(r, k, accounts) /\ k \in Tables!Keys BY RequestIsOK, KeyOf
<1>2. \/ Tables!Observe(e, l) = e \/ Tables!Observe(e, l) = WithRequest(e, k, r)
  BY DEF Tables!Observe, WithRequest
<1> HIDE DEF r, k
<1>3. QED BY <1>1, <1>2, EntryAsked

\* More accounts on chain make no request wrong.
LEMMA EntriesHold ==
    ASSUME NEW e, NEW S, NEW T, S \subseteq T, EntriesOK(e, S)
    PROVE  EntriesOK(e, T)
<1>1. ASSUME NEW r, NEW k, RequestOK(r, k, S) PROVE RequestOK(r, k, T)
  BY <1>1 DEF RequestOK
<1>2. QED BY <1>1 DEF EntriesOK, EntryOK

\* What is on chain about the proposal of the page, and where a row comes from.
LEMMA ShownFields ==
    ASSUME Tables!TablesAssumption
    PROVE  /\ \A a \in ShownVotes : /\ a.kind = "vote" /\ a.seed \in VoteAccounts
                                    /\ a.fields[1] = IdentityOf[a.seed]
                                    /\ a = Tables!Vote(a.seed, Subject)
                                    /\ Subject \in Tables!Range(a.fields)
           /\ \A a \in ShownOverrides : /\ a.kind = "override" /\ a.fields[2] \in StakeAccounts
                                        /\ a = Tables!Override(a.fields[2], Subject)
                                        /\ Subject \in Tables!Range(a.fields)
           /\ \A a \in ShownSupports : /\ a.seed \in VoteAccounts
                                       /\ a.fields[2] = IdentityOf[a.seed]
                                       /\ Subject \in Tables!Range(a.fields)
<1>1. ASSUME NEW v, NEW s
      PROVE  /\ Subject \in Tables!Range(<<v, Subject>>)
             /\ Subject \in Tables!Range(<<Subject, v>>)
             /\ Subject \in Tables!Range(<<"delegator", s, v, Subject>>)
  <2>1. Subject = <<v, Subject>>[2] /\ 2 \in DOMAIN <<v, Subject>>
    OBVIOUS
  <2>2. Subject = <<Subject, v>>[1] /\ 1 \in DOMAIN <<Subject, v>>
    OBVIOUS
  <2>3. /\ Subject = <<"delegator", s, v, Subject>>[4]
        /\ 4 \in DOMAIN <<"delegator", s, v, Subject>>
    OBVIOUS
  <2>4. QED BY <2>1, <2>2, <2>3 DEF Tables!Range
<1>2. ASSUME NEW a \in ShownVotes
      PROVE  /\ a.kind = "vote" /\ a.seed \in VoteAccounts /\ a.fields[1] = IdentityOf[a.seed]
             /\ a = Tables!Vote(a.seed, Subject) /\ Subject \in Tables!Range(a.fields)
  <2>1. PICK v \in VoteAccounts : a = Tables!Vote(v, Subject) BY DEF ShownVotes
  <2>2. a.kind = "vote" /\ a.seed = v /\ a.fields = <<IdentityOf[v], Subject>>
    BY <2>1, AccountFields
  <2>3. a.fields[1] = IdentityOf[v] BY <2>2
  <2>4. QED BY <1>1, <2>1, <2>2, <2>3
<1>3. ASSUME NEW a \in ShownOverrides
      PROVE  /\ a.kind = "override" /\ a.fields[2] \in StakeAccounts
             /\ a = Tables!Override(a.fields[2], Subject) /\ Subject \in Tables!Range(a.fields)
  <2>1. PICK s \in StakeAccounts : a = Tables!Override(s, Subject) BY DEF ShownOverrides
  <2>2. a.kind = "override" /\ a.fields = <<"delegator", s, DelegatedTo[s], Subject>>
    BY <2>1, AccountFields
  <2>3. a.fields[2] = s BY <2>2
  <2>4. QED BY <1>1, <2>1, <2>2, <2>3
<1>4. ASSUME NEW a \in ShownSupports
      PROVE  /\ a.seed \in VoteAccounts /\ a.fields[2] = IdentityOf[a.seed]
             /\ Subject \in Tables!Range(a.fields)
  <2>1. PICK v \in VoteAccounts : a = Tables!Support(v, Subject) BY DEF ShownSupports
  <2>2. a.seed = v /\ a.fields = <<Subject, IdentityOf[v]>> BY <2>1, AccountFields
  <2>3. a.fields[2] = IdentityOf[v] BY <2>2
  <2>4. QED BY <1>1, <2>1, <2>2, <2>3
<1>5. QED BY <1>2, <1>3, <1>4

\* An account on chain that mentions the proposal is found by one of the filters.
LEMMA NothingElseMentions ==
    ASSUME Tables!TablesAssumption, NEW a, Tables!IsAccount(a), a.kind # "support",
           Subject \in Tables!Range(a.fields)
    PROVE  \/ a.kind = "vote" /\ a.fields[2] = Subject
           \/ a.kind = "override" /\ a.fields[4] = Subject
<1>1. /\ \A v \in VoteAccounts : Subject # IdentityOf[v]
      /\ Subject \notin VoteAccounts /\ Subject \notin StakeAccounts /\ Subject # "delegator"
      /\ \A s \in StakeAccounts : DelegatedTo[s] \in VoteAccounts
  BY DEF Tables!TablesAssumption, Tables!Identities
<1>2. PICK i \in DOMAIN a.fields : Subject = a.fields[i] BY DEF Tables!Range
<1>3. ASSUME NEW v \in VoteAccounts, NEW p, a = Tables!Vote(v, p)
      PROVE  a.kind = "vote" /\ a.fields[2] = Subject
  <2>1. a.kind = "vote" /\ a.fields = <<IdentityOf[v], p>> BY <1>3, AccountFields
  <2>2. i \in {1, 2} /\ a.fields[1] = IdentityOf[v] /\ a.fields[2] = p BY <1>2, <2>1
  <2>3. QED BY <1>1, <1>2, <2>1, <2>2
<1>4. ASSUME NEW v \in VoteAccounts, NEW p, a = Tables!Support(v, p)
      PROVE  FALSE
  BY <1>4, AccountFields
<1>5. ASSUME NEW s \in StakeAccounts, NEW p, a = Tables!Override(s, p)
      PROVE  a.kind = "override" /\ a.fields[4] = Subject
  <2>1. a.kind = "override" /\ a.fields = <<"delegator", s, DelegatedTo[s], p>>
    BY <1>5, AccountFields
  <2>2. /\ i \in {1, 2, 3, 4} /\ a.fields[1] = "delegator" /\ a.fields[2] = s
        /\ a.fields[3] = DelegatedTo[s] /\ a.fields[4] = p
    BY <1>2, <2>1
  <2>3. QED BY <1>1, <1>2, <2>1, <2>2
<1>6. QED BY <1>3, <1>4, <1>5 DEF Tables!IsAccount

\* The fields of a voter's row.
LEMMA RowFields ==
    ASSUME NEW a, NEW l
    PROVE  LET row == Tables!VoterRow(a, l)
               v == IF a.kind = "override" THEN a.fields[3] ELSE a.fields[1]
           IN /\ row.account = a /\ row.identity = v
              /\ row.stakeAccount = IF a.kind = "override" THEN a.fields[2] ELSE None
              /\ row.walletType = IF a.kind = "override" THEN "staker" ELSE "validator"
              /\ row.name = IF Tables!Listed(l, v) THEN Tables!Validator(l, v).name ELSE "unknown"
BY DEF Tables!VoterRow

\* Rows of the voters' table that share a key are votes of one identity.
SameIdentity(x, y) ==
    \E v, w \in VoteAccounts :
       /\ v # w /\ IdentityOf[v] = IdentityOf[w]
       /\ x.account = Tables!Vote(v, Subject) /\ y.account = Tables!Vote(w, Subject)

\* Rows of the voters' table: of the proposal, told apart by their keys but for the
\* votes of one identity, and nobody in the list is unknown.
LEMMA RowsApart ==
    ASSUME Tables!TablesAssumption, NEW A \in SUBSET (ShownVotes \cup ShownOverrides), NEW l,
           IsList(l), view.tab = "voters"
    PROVE  /\ \A row \in RowsOf(A, l) :
                 /\ Subject \in Tables!Range(row.account.fields)
                 /\ row.name = "unknown" => ~Tables!Listed(l, row.identity)
           /\ \A x, y \in RowsOf(A, l) :
                 x # y /\ Tables!getRowId(x) = Tables!getRowId(y) => SameIdentity(x, y)
<1>1. ASSUME NEW row \in RowsOf(A, l)
      PROVE  /\ row.account \in A /\ row = Tables!VoterRow(row.account, l)
             /\ Subject \in Tables!Range(row.account.fields)
             /\ row.name = "unknown" => ~Tables!Listed(l, row.identity)
  <2>1. PICK a \in A : row = Tables!VoterRow(a, l) BY DEF RowsOf
  <2> DEFINE v == IF a.kind = "override" THEN a.fields[3] ELSE a.fields[1]
  <2>2. /\ row.account = a /\ row.identity = v
        /\ row.name = IF Tables!Listed(l, v) THEN Tables!Validator(l, v).name ELSE "unknown"
    BY <2>1, RowFields
  <2>3. Subject \in Tables!Range(a.fields) BY ShownFields
  <2> HIDE DEF v
  <2>4. Tables!Listed(l, v) => Tables!Validator(l, v).name # "unknown"
    BY DEF IsList, Tables!Listed, Tables!Validator
  <2>5. QED BY <2>1, <2>2, <2>3, <2>4
<1>2. ASSUME NEW x \in RowsOf(A, l), NEW y \in RowsOf(A, l), x # y,
             Tables!getRowId(x) = Tables!getRowId(y)
      PROVE  SameIdentity(x, y)
  <2> DEFINE a == x.account
             b == y.account
  <2>1. a \in A /\ b \in A /\ x = Tables!VoterRow(a, l) /\ y = Tables!VoterRow(b, l)
    BY <1>1
  <2> HIDE DEF a, b
  <2>2. /\ Tables!getRowId(x) = <<x.identity, IF x.stakeAccount = None THEN x.walletType
                                               ELSE x.stakeAccount>>
        /\ Tables!getRowId(y) = <<y.identity, IF y.stakeAccount = None THEN y.walletType
                                               ELSE y.stakeAccount>>
    BY DEF Tables!getRowId
  <2>3. None \notin StakeAccounts /\ "validator" \notin StakeAccounts
    BY DEF Tables!TablesAssumption
  <2>4. ASSUME NEW c \in A, NEW row, row = Tables!VoterRow(c, l)
        PROVE  \/ /\ c \in ShownVotes /\ row.identity = c.fields[1]
                  /\ row.stakeAccount = None /\ row.walletType = "validator"
               \/ /\ c \in ShownOverrides /\ row.stakeAccount = c.fields[2]
                  /\ row.stakeAccount \in StakeAccounts
    <3>1. CASE c \in ShownVotes
      <4>1. c.kind = "vote" BY <3>1, ShownFields
      <4>2. QED BY <2>4, <3>1, <4>1, RowFields
    <3>2. CASE c \in ShownOverrides
      <4>1. c.kind = "override" /\ c.fields[2] \in StakeAccounts BY <3>2, ShownFields
      <4>2. QED BY <2>4, <3>2, <4>1, RowFields
    <3>3. QED BY <3>1, <3>2
  <2>5. a # b BY <1>2, <2>1
  <2>6. ~(a \in ShownOverrides /\ b \in ShownOverrides /\ a.fields[2] = b.fields[2])
    BY <2>5, ShownFields
  <2>7. a \in ShownVotes /\ b \in ShownVotes /\ a.fields[1] = b.fields[1]
    BY <1>2, <2>1, <2>2, <2>3, <2>4, <2>6
  <2>8. /\ a.seed \in VoteAccounts /\ a = Tables!Vote(a.seed, Subject)
        /\ b.seed \in VoteAccounts /\ b = Tables!Vote(b.seed, Subject)
        /\ IdentityOf[a.seed] = IdentityOf[b.seed] /\ a.seed # b.seed
    BY <2>5, <2>7, ShownFields
  <2>9. QED BY <2>8 DEF SameIdentity, a, b
<1>3. QED BY <1>1, <1>2

\* Rows of finitely many accounts are finitely many.
LEMMA RowsAreFinite ==
    ASSUME NEW A, IsFiniteSet(A), NEW l
    PROVE  IsFiniteSet(RowsOf(A, l))
<1> DEFINE f == [a \in A |-> Tables!VoterRow(a, l)]
<1>1. f \in Surjection(A, RowsOf(A, l))
  BY DEF Surjection, RowsOf
<1>2. QED BY <1>1, FS_Surjection

\* The rows that match are finitely many.
RowsAreFinitelyMany ==
    /\ IsFiniteSet(Tables!Filtered) /\ Cardinality(Tables!Filtered) \in Nat
    /\ Tables!Filtered # {} => Cardinality(Tables!Filtered) > 0

LEMMA RowsAreCounted ==
    ASSUME Tables!TablesAssumption
    PROVE  RowsInv => RowsAreFinitelyMany
<1> SUFFICES ASSUME RowsInv PROVE RowsAreFinitelyMany
  OBVIOUS
<1>1. Tables!VotesKey(list) \in Tables!Keys BY KeyOf DEF RowsInv, ClusterInv
<1>2. EntryOK(Tables!Entry, Tables!VotesKey(list), accounts)
  BY <1>1 DEF RowsInv, EntriesOK, Tables!Entry
<1>3. Tables!Entry.data # Unset => IsFiniteSet(Tables!Entry.data)
  BY <1>2, RowsAreFinite DEF EntryOK
<1>4. supports.data # Unset =>
          IsFiniteSet({Tables!SupporterRow(a, list) : a \in supports.data})
  <2> SUFFICES ASSUME supports.data # Unset
               PROVE  IsFiniteSet({Tables!SupporterRow(a, list) : a \in supports.data})
    OBVIOUS
  <2> DEFINE f == [a \in supports.data |-> Tables!SupporterRow(a, list)]
             R == {Tables!SupporterRow(a, list) : a \in supports.data}
  <2>1. IsFiniteSet(supports.data) BY DEF RowsInv, SupportsInv
  <2>2. f \in Surjection(supports.data, R) BY DEF Surjection
  <2> HIDE DEF f, R
  <2>3. IsFiniteSet(R) BY <2>1, <2>2, FS_Surjection
  <2>4. QED BY <2>3 DEF R
<1>5. IsFiniteSet(Tables!Data)
  <2>1. CASE Tables!Data = {} BY <2>1, FS_EmptySet
  <2>2. CASE Tables!Data # {} BY <1>3, <1>4, <2>2 DEF Tables!Data
  <2>3. QED BY <2>1, <2>2
<1>6. Tables!Filtered \subseteq Tables!Data BY DEF Tables!Filtered
<1>7. IsFiniteSet(Tables!Filtered) BY <1>5, <1>6, FS_Subset
<1>8. QED BY <1>7, FS_CardinalityType, FS_EmptySet DEF RowsAreFinitelyMany

LEMMA RowsAreCountedNext ==
    ASSUME Tables!TablesAssumption
    PROVE  RowsInv' => RowsAreFinitelyMany'
BY RowsAreCounted, PTL

\* The first page has a row when there is any.
LEMMA FirstPage ==
    ASSUME Tables!TablesAssumption, RowsInv', view'.page = 0
    PROVE  PageHolds'
<1>1. RowsAreFinitelyMany' BY RowsAreCountedNext
<1>2. view'.size \in Nat
  BY DEF RowsInv, ViewInv, Tables!TablesAssumption
<1>3. view'.page * view'.size = 0 BY <1>2
<1>4. QED BY <1>1, <1>3 DEF RowsAreFinitelyMany, PageHolds

\* The rows that match depend on what the table shows alone.
LEMMA FilteredStays ==
    ASSUME view'.tab = view.tab, view'.search = view.search,
           view.tab = "voters" => Tables!Entry'.data = Tables!Entry.data,
           view.tab # "voters" => supports'.data = supports.data /\ list' = list
    PROVE  Tables!Filtered' = Tables!Filtered
<1>1. Tables!Data' = Tables!Data
  <2>1. CASE view.tab = "voters" BY <2>1 DEF Tables!Data
  <2>2. CASE view.tab # "voters"
    <3>1. {Tables!SupporterRow(a, list) : a \in supports.data}' =
          {Tables!SupporterRow(a, list) : a \in supports.data}
      BY <2>2
    <3>2. QED BY <2>2, <3>1 DEF Tables!Data
  <2>3. QED BY <2>1, <2>2
<1>2. ASSUME NEW row
      PROVE  row \in Tables!Filtered' <=> row \in Tables!Filtered
  BY <1>1 DEF Tables!Filtered, Tables!VoterMatches, Tables!SupporterMatches
<1>3. QED BY <1>2

LEMMA PageStays ==
    ASSUME PageHolds, view' = view,
           view.tab = "voters" => Tables!Entry'.data = Tables!Entry.data,
           view.tab # "voters" => supports'.data = supports.data /\ list' = list
    PROVE  PageHolds'
<1>1. Tables!Filtered' = Tables!Filtered BY FilteredStays
<1>2. Cardinality(Tables!Filtered)' = Cardinality(Tables!Filtered) BY <1>1
<1>3. QED BY <1>1, <1>2 DEF PageHolds

\* Nothing arrives, the size is as before.
Quiet ==
    /\ \A k \in Tables!Keys : votes'[k].data = votes[k].data
    /\ view'.tab = view.tab => view'.size = view.size

LEMMA QuietSteps ==
    ASSUME Quiet PROVE Tables!NothingIsMissed /\ Tables!ResizeKeepsTheRow
BY DEF Quiet, Tables!NothingIsMissed, Tables!ResizeKeepsTheRow

\* A step of the invariant, and what the step may not do.
TablesStep == TablesInv' /\ Tables!NothingIsMissed /\ Tables!ResizeKeepsTheRow

\* A click leaves everything but the view alone.
LEMMA ClicksKeepTheRows ==
    ASSUME RowsInv, ViewInv', UNCHANGED <<Tables!chain, Tables!cluster, Tables!queries>>
    PROVE  /\ RowsInv' /\ Tables!NothingIsMissed
           /\ Tables!Entry'.data = Tables!Entry.data /\ supports' = supports /\ list' = list
<1>1. /\ accounts' = accounts /\ voting' = voting /\ online' = online /\ changes' = changes
      /\ list' = list /\ listing' = listing /\ votes' = votes /\ supports' = supports
      /\ fetches' = fetches
  BY DEF Tables!chain, Tables!cluster, Tables!queries
<1>2. AccountsInv' /\ ClusterInv' /\ SupportsInv' /\ EntriesOK(votes', accounts')
  BY <1>1 DEF RowsInv, AccountsInv, ClusterInv, SupportsInv
<1>3. Tables!Entry' = Tables!Entry BY <1>1 DEF Tables!Entry
<1>4. QED BY <1>1, <1>2, <1>3 DEF RowsInv, Tables!NothingIsMissed

\* What is searched for and how rows are sorted puts the first page in front.
LEMMA TablesSearch ==
    ASSUME Tables!TablesAssumption, TablesInv,
           \/ \E t \in {None} \cup SearchTerms : Tables!Search(t)
           \/ \E c \in {"stake", "name"} : Tables!toggleSorting(c)
           \/ Tables!handleReset
    PROVE  TablesStep
<1>1. DOMAIN view = {"tab", "search", "sort", "page", "size"} /\ ViewInv /\ RowsInv
  BY DEF TablesInv, RowsInv, ViewInv
<1>2. /\ UNCHANGED <<Tables!chain, Tables!cluster, Tables!queries>>
      /\ \E x, y : view' = [view EXCEPT !.page = 0, !.search = x, !.sort = y]
  <2>1. CASE Tables!handleReset
    <3>1. view' = [view EXCEPT !.page = 0, !.search = None, !.sort = Tables!DefaultSort]
      BY <1>1, <2>1 DEF Tables!handleReset
    <3>2. QED BY <2>1, <3>1 DEF Tables!handleReset
  <2>2. ASSUME NEW t \in {None} \cup SearchTerms, Tables!Search(t)
        PROVE  /\ UNCHANGED <<Tables!chain, Tables!cluster, Tables!queries>>
               /\ \E x, y : view' = [view EXCEPT !.page = 0, !.search = x, !.sort = y]
    <3>1. view' = [view EXCEPT !.page = 0, !.search = t, !.sort = view.sort]
      BY <1>1, <2>2 DEF Tables!Search
    <3>2. QED BY <2>2, <3>1 DEF Tables!Search
  <2>3. ASSUME NEW c \in {"stake", "name"}, Tables!toggleSorting(c)
        PROVE  /\ UNCHANGED <<Tables!chain, Tables!cluster, Tables!queries>>
               /\ \E x, y : view' = [view EXCEPT !.page = 0, !.search = x, !.sort = y]
    <3> DEFINE o == [column |-> c, desc |-> view.sort.column = c /\ ~view.sort.desc]
    <3>1. view' = [view EXCEPT !.page = 0, !.sort = o]
      BY <2>3 DEF Tables!toggleSorting
    <3> HIDE DEF o
    <3>2. view' = [view EXCEPT !.page = 0, !.search = view.search, !.sort = o]
      BY <1>1, <3>1
    <3>3. QED BY <2>3, <3>2 DEF Tables!toggleSorting
  <2>4. QED BY <2>1, <2>2, <2>3
<1>3. /\ DOMAIN view' = {"tab", "search", "sort", "page", "size"} /\ view'.page = 0
      /\ view'.size = view.size /\ view'.tab = view.tab /\ voting' = voting
  BY <1>1, <1>2 DEF Tables!chain
<1>4. ViewInv' BY <1>1, <1>3 DEF ViewInv
<1>5. RowsInv' /\ Tables!NothingIsMissed BY <1>1, <1>2, <1>4, ClicksKeepTheRows
<1>6. PageHolds' BY <1>3, <1>5, FirstPage
<1>7. QED BY <1>3, <1>5, <1>6 DEF TablesStep, TablesInv, Tables!ResizeKeepsTheRow

\* The page of a row under another size.
LEMMA RowsPage ==
    ASSUME NEW p \in Nat, NEW m \in Nat \ {0}, NEW n \in Nat \ {0}
    PROVE  LET q == (p * m) \div n
           IN /\ q \in Nat /\ q * n <= p * m /\ p * m < (q + 1) * n
<1> DEFINE r == p * m
           q == r \div n
<1>1. r \in Nat OBVIOUS
<1> HIDE DEF r
<1>2. q \in Int /\ n * q <= r /\ r < n * q + n BY <1>1, QuotientBounds
<1> HIDE DEF q
<1>3. q >= 0
  <2>1. CASE q <= -1
    <3>1. n * q <= n * (-1) BY <1>2, <2>1
    <3>2. n * (-1) = -n OBVIOUS
    <3>3. QED BY <1>1, <1>2, <3>1, <3>2
  <2>2. QED BY <1>2, <2>1
<1>4. n * q = q * n /\ (q + 1) * n = q * n + n BY <1>2
<1>5. QED BY <1>2, <1>3, <1>4 DEF q, r

LEMMA TablesResize ==
    ASSUME Tables!TablesAssumption, TablesInv, NEW n \in PageSizes, Tables!setPageSize(n)
    PROVE  TablesStep
<1>1. /\ DOMAIN view = {"tab", "search", "sort", "page", "size"} /\ ViewInv /\ RowsInv
      /\ PageHolds /\ view.page \in Nat
  BY DEF TablesInv, RowsInv, ViewInv
<1>2. n \in Nat \ {0} /\ view.size \in Nat \ {0}
  BY <1>1 DEF Tables!TablesAssumption, ViewInv
<1> DEFINE q == (view.page * view.size) \div n
<1>3. /\ UNCHANGED <<Tables!chain, Tables!cluster, Tables!queries>>
      /\ view' = [view EXCEPT !.size = n, !.page = q]
  BY DEF Tables!setPageSize, Tables!Resized
<1>4. /\ q \in Nat /\ q * n <= view.page * view.size
      /\ view.page * view.size < (q + 1) * n
  BY <1>1, <1>2, RowsPage
<1> HIDE DEF q
<1>5. /\ DOMAIN view' = {"tab", "search", "sort", "page", "size"} /\ view'.page = q
      /\ view'.size = n /\ view'.tab = view.tab /\ view'.search = view.search
      /\ voting' = voting
  BY <1>1, <1>3 DEF Tables!chain
<1>6. ViewInv' BY <1>1, <1>4, <1>5 DEF ViewInv
<1>7. /\ RowsInv' /\ Tables!NothingIsMissed /\ Tables!Entry'.data = Tables!Entry.data
      /\ supports' = supports /\ list' = list
  BY <1>1, <1>3, <1>6, ClicksKeepTheRows
<1>8. Tables!Filtered' = Tables!Filtered BY <1>5, <1>7, FilteredStays
<1>9. Cardinality(Tables!Filtered)' = Cardinality(Tables!Filtered) BY <1>8
<1> DEFINE r == view.page * view.size
           s == q * n
<1>10. r \in Nat /\ s \in Nat /\ (q + 1) * n \in Nat BY <1>1, <1>2, <1>4
<1>11. RowsAreFinitelyMany BY <1>1, RowsAreCounted
<1>12. PageHolds'
  <2>1. SUFFICES ASSUME Tables!Filtered # {} PROVE s < Cardinality(Tables!Filtered)
    BY <1>5, <1>8, <1>9 DEF PageHolds
  <2>2. r < Cardinality(Tables!Filtered) BY <1>1, <2>1 DEF PageHolds
  <2>3. QED BY <1>4, <1>10, <1>11, <2>2 DEF RowsAreFinitelyMany
<1>13. Tables!ResizeKeepsTheRow
  BY <1>4, <1>5, <1>10 DEF Tables!ResizeKeepsTheRow
<1>14. QED BY <1>7, <1>12, <1>13 DEF TablesStep, TablesInv

\* Pages that rows fill.
LEMMA LastPage ==
    ASSUME NEW c \in Nat, NEW n \in Nat \ {0}, NEW p \in Int,
           p <= (c + n - 1) \div n - 1
    PROVE  p * n < c
<1> DEFINE q == (c + n - 1) \div n
<1>1. q \in Int /\ n * q <= c + n - 1 BY QuotientBounds
<1> HIDE DEF q
<1>2. p <= q - 1 BY DEF q
<1>3. p * n <= (q - 1) * n BY <1>1, <1>2
<1>4. (q - 1) * n = n * q - n BY <1>1
<1>5. p * n \in Int /\ n * q \in Int BY <1>1
<1>6. QED BY <1>1, <1>3, <1>4, <1>5

LEMMA TablesTurnPage ==
    ASSUME Tables!TablesAssumption, TablesInv, Tables!setPageIndex
    PROVE  TablesStep
<1>1. /\ DOMAIN view = {"tab", "search", "sort", "page", "size"} /\ ViewInv /\ RowsInv
      /\ PageHolds /\ view.page \in Nat
  BY DEF TablesInv, RowsInv, ViewInv
<1>2. view.size \in Nat \ {0}
  BY <1>1 DEF Tables!TablesAssumption, ViewInv
<1> DEFINE c == Cardinality(Tables!Filtered)
           n == view.size
<1>3. c \in Nat BY <1>1, RowsAreCounted DEF RowsAreFinitelyMany
<1>4. Tables!PageCount = (c + n - 1) \div n
  BY DEF Tables!PageCount, Tables!Cardinality, Cardinality
<1>5. Tables!PageCount \in Int BY <1>2, <1>3, <1>4, QuotientBounds
<1>6. PICK p \in Nat : /\ view' = [view EXCEPT !.page = p]
                       /\ p <= view.page \/ p <= Tables!PageCount - 1
  <2>1. CASE view.page > 0 /\ \E p \in {0, view.page - 1} : view' = [view EXCEPT !.page = p]
    BY <1>1, <2>1
  <2>2. CASE /\ view.page < Tables!PageCount - 1
             /\ \E p \in {view.page + 1, Tables!PageCount - 1} : view' = [view EXCEPT !.page = p]
    BY <1>1, <1>5, <2>2
  <2>3. QED BY <2>1, <2>2 DEF Tables!setPageIndex
<1>7. UNCHANGED <<Tables!chain, Tables!cluster, Tables!queries>>
  BY DEF Tables!setPageIndex
<1>8. /\ DOMAIN view' = {"tab", "search", "sort", "page", "size"} /\ view'.page = p
      /\ view'.size = view.size /\ view'.tab = view.tab /\ view'.search = view.search
      /\ voting' = voting
  BY <1>1, <1>6, <1>7 DEF Tables!chain
<1>9. ViewInv' BY <1>1, <1>8 DEF ViewInv
<1>10. /\ RowsInv' /\ Tables!NothingIsMissed /\ Tables!Entry'.data = Tables!Entry.data
       /\ supports' = supports /\ list' = list
  BY <1>1, <1>7, <1>9, ClicksKeepTheRows
<1>11. Tables!Filtered' = Tables!Filtered BY <1>8, <1>10, FilteredStays
<1>12. Cardinality(Tables!Filtered)' = c BY <1>11
<1>13. PageHolds'
  <2>1. SUFFICES ASSUME Tables!Filtered # {} PROVE p * n < c
    BY <1>8, <1>11, <1>12 DEF PageHolds
  <2>2. CASE p <= Tables!PageCount - 1 BY <1>2, <1>3, <1>4, <2>2, LastPage
  <2>3. CASE p <= view.page
    <3>1. view.page * n < c BY <1>1, <2>1 DEF PageHolds
    <3>2. p * n <= view.page * n BY <1>1, <1>2, <2>3
    <3>3. p * n \in Nat /\ view.page * n \in Nat BY <1>1, <1>2
    <3>4. QED BY <1>3, <3>1, <3>2, <3>3
  <2>4. QED BY <1>6, <2>2, <2>3
<1>14. Tables!ResizeKeepsTheRow BY <1>8 DEF Tables!ResizeKeepsTheRow
<1>15. QED BY <1>10, <1>13, <1>14 DEF TablesStep, TablesInv

\* What an answered or failed request leaves alone.
LEMMA TablesQuiet ==
    ASSUME Tables!TablesAssumption, TablesInv, RowsInv', Quiet,
           \/ view' = view /\ list' = list /\ supports'.data = supports.data
           \/ view'.page = 0
    PROVE  TablesStep
<1>1. Tables!NothingIsMissed /\ Tables!ResizeKeepsTheRow BY QuietSteps
<1>2. PageHolds'
  <2>1. CASE view'.page = 0 BY <2>1, FirstPage
  <2>2. CASE view' = view /\ list' = list /\ supports'.data = supports.data
    <3>1. Tables!VotesKey(list) \in Tables!Keys BY KeyOf DEF TablesInv, RowsInv, ClusterInv
    <3>2. Tables!Entry'.data = Tables!Entry.data
      BY <2>2, <3>1 DEF Quiet, Tables!Entry
    <3>3. QED BY <2>2, <3>2, PageStays DEF TablesInv
  <2>3. QED BY <2>1, <2>2
<1>3. QED BY <1>1, <1>2 DEF TablesStep, TablesInv

LEMMA TablesFail ==
    ASSUME Tables!TablesAssumption, TablesInv, NEW k \in Tables!Keys, Tables!VotesFail(k)
    PROVE  TablesStep
<1>1. /\ votes' = WithRequest(votes, k, None)
      /\ UNCHANGED <<moves, Tables!chain, Tables!cluster, list, listing, supports, fetches, view>>
  BY DEF Tables!VotesFail, WithRequest
<1>2. /\ EntriesOK(votes', accounts)
      /\ \A j \in Tables!Keys : votes'[j].data = votes[j].data
  BY <1>1, EntryAsked DEF TablesInv, RowsInv
<1>3. accounts' = accounts /\ voting' = voting /\ online' = online /\ changes' = changes
  BY <1>1 DEF Tables!chain, Tables!cluster
<1>4. RowsInv'
  BY <1>1, <1>2, <1>3 DEF TablesInv, RowsInv, AccountsInv, ClusterInv, SupportsInv, ViewInv
<1>5. QED BY <1>1, <1>2, <1>4, TablesQuiet DEF Quiet

LEMMA TablesRefetchList ==
    ASSUME Tables!TablesAssumption, TablesInv, Tables!RefetchList
    PROVE  TablesStep
<1>1. /\ UNCHANGED <<moves, Tables!chain, Tables!cluster, list, votes, supports, view>>
      /\ fetches < MaxFetches /\ fetches' = fetches + 1 /\ listing' = TRUE
  BY DEF Tables!RefetchList
<1>2. accounts' = accounts /\ voting' = voting /\ online' = online /\ changes' = changes
  BY <1>1 DEF Tables!chain, Tables!cluster
<1>3. fetches' \in 0 .. MaxFetches
  BY <1>1 DEF TablesInv, RowsInv, ClusterInv, Tables!TablesAssumption
<1>4. EntriesOK(votes', accounts') BY <1>1, <1>2 DEF TablesInv, RowsInv
<1>5. RowsInv'
  BY <1>1, <1>2, <1>3, <1>4
     DEF TablesInv, RowsInv, AccountsInv, ClusterInv, SupportsInv, ViewInv
<1>6. QED BY <1>1, <1>5, TablesQuiet DEF Quiet

LEMMA TablesRefetchRows ==
    ASSUME Tables!TablesAssumption, TablesInv, Tables!RefetchRows
    PROVE  TablesStep
<1>1. /\ UNCHANGED <<moves, Tables!chain, Tables!cluster, list, listing, view>>
      /\ fetches < MaxFetches /\ fetches' = fetches + 1
  BY DEF Tables!RefetchRows
<1>2. accounts' = accounts /\ voting' = voting /\ online' = online /\ changes' = changes
  BY <1>1 DEF Tables!chain, Tables!cluster
<1>3. fetches' \in 0 .. MaxFetches
  BY <1>1 DEF TablesInv, RowsInv, ClusterInv, Tables!TablesAssumption
<1> DEFINE k == Tables!VotesKey(list)
           r == Tables!NewRequest(list)
<1>4. k \in Tables!Keys /\ RequestOK(r, k, accounts)
  BY KeyOf, RequestIsOK DEF TablesInv, RowsInv, ClusterInv
<1>5. \/ votes' = WithRequest(votes, k, r) \/ votes' = votes
  BY DEF Tables!RefetchRows, WithRequest
<1> HIDE DEF k, r
<1>6. /\ EntriesOK(votes', accounts')
      /\ \A j \in Tables!Keys : votes'[j].data = votes[j].data
  BY <1>2, <1>4, <1>5, EntryAsked DEF TablesInv, RowsInv
<1>7. SupportsInv' /\ supports'.data = supports.data
  BY DEF TablesInv, RowsInv, SupportsInv, Tables!RefetchRows
<1>8. RowsInv'
  BY <1>1, <1>2, <1>3, <1>6, <1>7
     DEF TablesInv, RowsInv, AccountsInv, ClusterInv, ViewInv
<1>9. QED BY <1>1, <1>6, <1>7, <1>8, TablesQuiet DEF Quiet

LEMMA TablesSupports ==
    ASSUME Tables!TablesAssumption, TablesInv, Tables!SupportsArrive
    PROVE  TablesStep
<1>1. UNCHANGED <<moves, Tables!chain, Tables!cluster, list, listing, votes, fetches>>
  BY DEF Tables!SupportsArrive
<1>2. accounts' = accounts /\ voting' = voting /\ online' = online /\ changes' = changes
  BY <1>1 DEF Tables!chain, Tables!cluster
<1>3. AccountsInv /\ SupportsInv /\ ViewInv BY DEF TablesInv, RowsInv
<1>4. /\ SupportsInv'
      /\ \/ view' = [view EXCEPT !.page = 0]
         \/ view' = view /\ (supports'.data = supports.data \/ view.tab # "supporters")
  <2>1. CASE supports' = [supports EXCEPT !.request = None] /\ view' = view
    BY <1>3, <2>1 DEF SupportsInv
  <2>2. CASE /\ supports' = [data |-> Tables!getSupportAccounts(Subject), request |-> None]
             /\ IF view.tab = "supporters" THEN Tables!autoResetPageIndex ELSE view' = view
    BY <1>3, <2>2, Filters DEF SupportsInv, Tables!autoResetPageIndex
  <2>3. QED BY <2>1, <2>2 DEF Tables!SupportsArrive
<1>5. /\ ViewInv' /\ view'.size = view.size /\ view'.tab = view.tab
      /\ view' = view \/ view'.page = 0
  BY <1>2, <1>3, <1>4 DEF ViewInv
<1>6. EntriesOK(votes', accounts') BY <1>1, <1>2 DEF TablesInv, RowsInv
<1>7. RowsInv'
  BY <1>1, <1>2, <1>4, <1>5, <1>6 DEF TablesInv, RowsInv, AccountsInv, ClusterInv
<1>8. Quiet BY <1>1, <1>5 DEF Quiet
<1>9. Tables!Entry' = Tables!Entry BY <1>1 DEF Tables!Entry
<1>10. CASE view'.page = 0 BY <1>7, <1>8, <1>10, TablesQuiet
<1>11. CASE view' = view /\ (supports'.data = supports.data \/ view.tab = "voters")
  <2>1. PageHolds' BY <1>1, <1>9, <1>11, PageStays DEF TablesInv
  <2>2. QED BY <1>7, <1>8, <2>1, QuietSteps DEF TablesStep, TablesInv
<1>12. QED BY <1>3, <1>4, <1>5, <1>10, <1>11 DEF ViewInv

LEMMA TablesList ==
    ASSUME Tables!TablesAssumption, TablesInv, Tables!ListArrives
    PROVE  TablesStep
<1>1. /\ UNCHANGED <<moves, Tables!chain, Tables!cluster, supports, fetches>>
      /\ listing' = FALSE
  BY DEF Tables!ListArrives
<1>2. accounts' = accounts /\ voting' = voting /\ online' = online /\ changes' = changes
  BY <1>1 DEF Tables!chain, Tables!cluster
<1>3. ClusterInv /\ ViewInv /\ EntriesOK(votes, accounts) BY DEF TablesInv, RowsInv
<1>4. PICK l \in {list} \cup Tables!getValidators(Known) \cup Tables!getValidators({}) :
          /\ list' = l
          /\ votes' = IF view.tab = "voters" THEN Tables!Observe(votes, l) ELSE votes
          /\ IF l = list THEN view' = view ELSE Tables!autoResetPageIndex
  BY DEF Tables!ListArrives
<1>5. IsList(l) BY <1>3, LoadedIsList DEF ClusterInv
<1>6. /\ EntriesOK(votes', accounts')
      /\ \A k \in Tables!Keys : votes'[k].data = votes[k].data
  BY <1>2, <1>3, <1>4, <1>5, ObserveAsks
<1>7. /\ ViewInv' /\ view'.size = view.size /\ view'.tab = view.tab
      /\ view'.page = 0 \/ (view' = view /\ list' = list)
  BY <1>2, <1>3, <1>4 DEF ViewInv, Tables!autoResetPageIndex
<1>8. ClusterInv' BY <1>1, <1>2, <1>3, <1>4, <1>5 DEF ClusterInv
<1>9. RowsInv'
  BY <1>1, <1>2, <1>6, <1>7, <1>8 DEF TablesInv, RowsInv, AccountsInv, SupportsInv
<1>10. Quiet BY <1>6, <1>7 DEF Quiet
<1>11. QED BY <1>1, <1>7, <1>9, <1>10, TablesQuiet

LEMMA TablesOpen ==
    ASSUME Tables!TablesAssumption, TablesInv, Tables!ShowVoters
    PROVE  TablesStep
<1>1. /\ UNCHANGED <<moves, Tables!chain, Tables!cluster, list, listing, supports, fetches>>
      /\ voting /\ view.tab = "supporters" /\ view' = Tables!Opened("voters")
      /\ votes' = Tables!Observe(votes, list)
  BY DEF Tables!ShowVoters
<1>2. accounts' = accounts /\ voting' = voting /\ online' = online /\ changes' = changes
  BY <1>1 DEF Tables!chain, Tables!cluster
<1>3. ClusterInv /\ EntriesOK(votes, accounts) BY DEF TablesInv, RowsInv
<1>4. /\ EntriesOK(votes', accounts')
      /\ \A k \in Tables!Keys : votes'[k].data = votes[k].data
  BY <1>1, <1>2, <1>3, ObserveAsks DEF ClusterInv
<1>5. /\ DOMAIN view' = {"tab", "search", "sort", "page", "size"} /\ view'.tab = "voters"
      /\ view'.page = 0 /\ view'.size = DefaultPageSize
  BY <1>1 DEF Tables!Opened
<1>6. ViewInv' BY <1>1, <1>2, <1>5 DEF ViewInv, Tables!TablesAssumption
<1>7. RowsInv'
  BY <1>1, <1>2, <1>4, <1>6 DEF TablesInv, RowsInv, AccountsInv, ClusterInv, SupportsInv
<1>8. Quiet BY <1>1, <1>4, <1>5 DEF Quiet
<1>9. QED BY <1>5, <1>7, <1>8, TablesQuiet

LEMMA TablesChain ==
    ASSUME Tables!TablesAssumption, TablesInv,
           \/ Tables!SupportOnChain \/ Tables!VoteOnChain \/ Tables!StartVoting
           \/ Tables!ClusterChanges
    PROVE  TablesStep
<1>1. RowsInv /\ AccountsInv /\ ClusterInv /\ EntriesOK(votes, accounts) /\ ViewInv
  BY DEF TablesInv, RowsInv
<1>2. ASSUME NEW a, Tables!IsAccount(a), Tables!Add(a)
      PROVE  TablesStep
  <2>1. /\ UNCHANGED <<moves, voting, Tables!cluster, Tables!queries, view>>
        /\ accounts' = accounts \cup {a}
    BY <1>2 DEF Tables!Add
  <2>2. IsFiniteSet(accounts \cup {a}) BY <1>1, FS_AddElement DEF AccountsInv
  <2>3. /\ online' = online /\ changes' = changes /\ list' = list /\ listing' = listing
        /\ votes' = votes /\ supports' = supports /\ fetches' = fetches
    BY <2>1 DEF Tables!cluster, Tables!queries
  <2>4. AccountsInv' BY <1>1, <1>2, <2>1, <2>2 DEF AccountsInv
  <2>5. EntriesOK(votes', accounts')
    <3>1. EntriesOK(votes, accounts \cup {a}) BY <1>1, EntriesHold
    <3>2. QED BY <2>1, <2>3, <3>1
  <2>6. RowsInv'
    BY <1>1, <2>1, <2>3, <2>4, <2>5 DEF RowsInv, ClusterInv, SupportsInv, ViewInv
  <2>7. QED BY <2>1, <2>3, <2>6, TablesQuiet DEF Quiet
<1>3. CASE Tables!SupportOnChain
  BY <1>2, <1>3 DEF Tables!SupportOnChain, Tables!IsAccount
<1>4. CASE Tables!VoteOnChain
  BY <1>2, <1>4 DEF Tables!VoteOnChain, Tables!IsAccount
<1>5. CASE Tables!StartVoting \/ Tables!ClusterChanges
  <2>1. /\ UNCHANGED <<accounts, list, listing, votes, supports, fetches, view>>
        /\ (voting => voting') /\ voting' \in BOOLEAN
        /\ online' \subseteq VoteAccounts /\ changes' \in 0 .. MaxChanges
    <3>1. CASE Tables!StartVoting
      BY <1>1, <3>1 DEF Tables!StartVoting, Tables!cluster, Tables!queries, ClusterInv
    <3>2. CASE Tables!ClusterChanges
      BY <1>1, <3>2
         DEF Tables!ClusterChanges, Tables!chain, Tables!queries, ClusterInv,
             Tables!TablesAssumption
    <3>3. QED BY <1>5, <3>1, <3>2
  <2>2. AccountsInv' /\ SupportsInv' /\ EntriesOK(votes', accounts')
    BY <1>1, <2>1 DEF RowsInv, AccountsInv, SupportsInv
  <2>3. ClusterInv' BY <1>1, <2>1 DEF ClusterInv
  <2>4. ViewInv' BY <1>1, <2>1 DEF ViewInv
  <2>5. RowsInv' BY <2>2, <2>3, <2>4 DEF RowsInv
  <2>6. QED BY <2>1, <2>5, TablesQuiet DEF Quiet
<1>6. QED BY <1>3, <1>4, <1>5

\* The answer of one part of a request, and of the last one.
LEMMA PartIsOK ==
    ASSUME AccountsInv, NEW k, NEW r, RequestOK(r, k, accounts),
           NEW done \in {[r EXCEPT !.votes = Tables!getProposalVotes(Subject)],
                         [r EXCEPT !.overrides = Tables!getProposalVoteOverrides(Subject)]}
    PROVE  RequestOK(done, k, accounts) /\ done.list = r.list /\ done.since = r.since
<1>1. DOMAIN r = {"list", "votes", "overrides", "since"} /\ r.since \subseteq accounts
  BY DEF RequestOK
<1>2. VotesIn(r.since) \subseteq VotesIn(accounts) /\ OverridesIn(r.since) \subseteq OverridesIn(accounts)
  BY <1>1 DEF VotesIn, OverridesIn
<1>3. CASE done = [r EXCEPT !.votes = Tables!getProposalVotes(Subject)]
  <2> DEFINE S == Tables!getProposalVotes(Subject)
  <2>1. S \subseteq ShownVotes /\ IsFiniteSet(S) /\ VotesIn(r.since) \subseteq S
    BY <1>2, Filters
  <2> HIDE DEF S
  <2>2. /\ DOMAIN done = {"list", "votes", "overrides", "since"} /\ done.votes = S
        /\ done.overrides = r.overrides /\ done.list = r.list /\ done.since = r.since
    BY <1>1, <1>3 DEF S
  <2>3. QED BY <2>1, <2>2 DEF RequestOK
<1>4. CASE done = [r EXCEPT !.overrides = Tables!getProposalVoteOverrides(Subject)]
  <2> DEFINE S == Tables!getProposalVoteOverrides(Subject)
  <2>1. S \subseteq ShownOverrides /\ IsFiniteSet(S) /\ OverridesIn(r.since) \subseteq S
    BY <1>2, Filters
  <2> HIDE DEF S
  <2>2. /\ DOMAIN done = {"list", "votes", "overrides", "since"} /\ done.overrides = S
        /\ done.votes = r.votes /\ done.list = r.list /\ done.since = r.since
    BY <1>1, <1>4 DEF S
  <2>3. QED BY <2>1, <2>2 DEF RequestOK
<1>5. QED BY <1>3, <1>4

LEMMA TablesPart ==
    ASSUME Tables!TablesAssumption, TablesInv, NEW k \in Tables!Keys, Tables!PartArrives(k)
    PROVE  TablesStep
<1>1. /\ AccountsInv /\ ClusterInv /\ SupportsInv /\ ViewInv /\ EntriesOK(votes, accounts)
      /\ PageHolds
  BY DEF TablesInv, RowsInv
<1> DEFINE r == votes[k].request
<1>2. PICK done \in {[r EXCEPT !.votes = Tables!getProposalVotes(Subject)],
                     [r EXCEPT !.overrides = Tables!getProposalVoteOverrides(Subject)]} :
          /\ r # None
          /\ IF Unset \in {done.votes, done.overrides}
             THEN /\ votes' = [votes EXCEPT ![k].request = done]
                  /\ view' = view
             ELSE /\ votes' = [votes EXCEPT ![k] =
                         [data |-> {Tables!VoterRow(a, r.list) : a \in done.votes \cup done.overrides},
                          built |-> r.list, request |-> None]]
                  /\ IF k = Tables!VotesKey(list) /\ view.tab = "voters"
                     THEN Tables!autoResetPageIndex ELSE view' = view
  BY DEF Tables!PartArrives
<1>3. UNCHANGED <<Tables!chain, Tables!cluster, list, listing, supports, fetches, moves>>
  BY DEF Tables!PartArrives
<1>4. accounts' = accounts /\ voting' = voting /\ online' = online /\ changes' = changes
  BY <1>3 DEF Tables!chain, Tables!cluster
<1>5. RequestOK(r, k, accounts) BY <1>1, <1>2 DEF EntriesOK, EntryOK
<1>6. RequestOK(done, k, accounts) /\ done.list = r.list /\ done.since = r.since
  BY <1>1, <1>5, PartIsOK
<1>7. AccountsInv' /\ ClusterInv' /\ SupportsInv'
  BY <1>1, <1>3, <1>4 DEF AccountsInv, ClusterInv, SupportsInv
<1>8. DOMAIN votes = Tables!Keys BY <1>1 DEF EntriesOK
<1>9. CASE Unset \in {done.votes, done.overrides}
  <2>1. votes' = WithRequest(votes, k, done) /\ view' = view
    BY <1>2, <1>9 DEF WithRequest
  <2>2. /\ EntriesOK(votes', accounts')
        /\ \A j \in Tables!Keys : votes'[j].data = votes[j].data
    BY <1>1, <1>4, <1>6, <2>1, EntryAsked
  <2>3. ViewInv' BY <1>1, <1>4, <2>1 DEF ViewInv
  <2>4. RowsInv' BY <1>7, <2>2, <2>3 DEF RowsInv
  <2>5. QED BY <1>3, <2>1, <2>2, <2>4, TablesQuiet DEF Quiet
<1>10. CASE Unset \notin {done.votes, done.overrides}
  <2> DEFINE A == done.votes \cup done.overrides
             entry == [data |-> RowsOf(A, r.list), built |-> r.list, request |-> None]
  <2>1. /\ votes' = [votes EXCEPT ![k] = entry]
        /\ IF k = Tables!VotesKey(list) /\ view.tab = "voters"
           THEN Tables!autoResetPageIndex ELSE view' = view
    BY <1>2, <1>10 DEF RowsOf
  <2>2. /\ A \in SUBSET (ShownVotes \cup ShownOverrides) /\ IsFiniteSet(A)
        /\ VotesIn(r.since) \subseteq A /\ OverridesIn(r.since) \subseteq A
        /\ Tables!VotesKey(r.list) = k /\ IsList(r.list) /\ r.since \subseteq accounts
    BY <1>6, <1>10, FS_Union DEF RequestOK
  <2>3. /\ DOMAIN entry = {"data", "built", "request"} /\ entry.data = RowsOf(A, r.list)
        /\ entry.built = r.list /\ entry.request = None
    OBVIOUS
  <2> HIDE DEF A, entry
  <2>4. EntryOK(entry, k, accounts) BY <2>2, <2>3 DEF EntryOK
  <2>5. /\ DOMAIN votes' = Tables!Keys /\ votes'[k] = entry
        /\ \A j \in Tables!Keys : j # k => votes'[j] = votes[j]
    BY <1>8, <2>1
  <2>6. EntriesOK(votes', accounts')
    BY <1>1, <1>4, <2>4, <2>5 DEF EntriesOK
  <2>7. /\ ViewInv' /\ view'.size = view.size /\ view'.tab = view.tab
        /\ \/ view'.page = 0
           \/ view' = view /\ (view.tab = "voters" => k # Tables!VotesKey(list))
    BY <1>1, <1>4, <2>1 DEF ViewInv, Tables!autoResetPageIndex
  <2>8. RowsInv' BY <1>7, <2>6, <2>7 DEF RowsInv
  <2>9. PageHolds'
    <3>1. CASE view'.page = 0 BY <2>8, <3>1, FirstPage
    <3>2. CASE view' = view /\ (view.tab = "voters" => k # Tables!VotesKey(list))
      <4>1. Tables!VotesKey(list) \in Tables!Keys BY <1>1, KeyOf DEF ClusterInv
      <4>2. view.tab = "voters" => Tables!Entry'.data = Tables!Entry.data
        BY <1>3, <2>5, <3>2, <4>1 DEF Tables!Entry
      <4>3. QED BY <1>1, <1>3, <3>2, <4>2, PageStays
    <3>3. QED BY <2>7, <3>1, <3>2
  <2>10. Tables!ResizeKeepsTheRow BY <2>7 DEF Tables!ResizeKeepsTheRow
  <2>11. ASSUME NEW a \in r.since, a.kind # "support", Subject \in Tables!Range(a.fields)
         PROVE  a \in {row.account : row \in votes'[k].data}
    <3>1. Tables!IsAccount(a) BY <1>1, <2>2 DEF AccountsInv
    <3>2. a \in VotesIn(r.since) \cup OverridesIn(r.since)
      BY <2>11, <3>1, NothingElseMentions DEF VotesIn, OverridesIn
    <3>3. Tables!VoterRow(a, r.list) \in votes'[k].data BY <2>2, <2>3, <2>5, <3>2 DEF RowsOf
    <3>4. Tables!VoterRow(a, r.list).account = a BY RowFields
    <3>5. QED BY <3>3, <3>4
  <2>12. Tables!NothingIsMissed
    <3> SUFFICES ASSUME NEW j \in Tables!Keys, votes[j].request # None,
                        votes'[j].data # votes[j].data
                 PROVE  {a \in votes[j].request.since :
                            a.kind # "support" /\ Subject \in Tables!Range(a.fields)}
                        \subseteq {row.account : row \in votes'[j].data}
      BY DEF Tables!NothingIsMissed
    <3>1. j = k BY <2>5
    <3>2. QED BY <2>11, <3>1
  <2>13. QED BY <2>8, <2>9, <2>10, <2>12 DEF TablesStep, TablesInv
<1>11. QED BY <1>9, <1>10

LEMMA TablesInit ==
    ASSUME Tables!TablesAssumption, Tables!Init
    PROVE  TablesInv
<1>1. AccountsInv
  <2>1. Tables!IsFiniteSet(accounts) /\ \A a \in accounts : Tables!IsAccount(a)
    BY DEF Tables!Init, Tables!TablesAssumption
  <2>2. IsFiniteSet(accounts) BY <2>1 DEF Tables!IsFiniteSet, IsFiniteSet
  <2>3. QED BY <2>1, <2>2 DEF AccountsInv
<1>2. ClusterInv
  BY DEF Tables!Init, ClusterInv, IsList, Tables!TablesAssumption
<1>3. SupportsInv BY DEF Tables!Init, SupportsInv
<1>4. ViewInv /\ view.page = 0 /\ view.size \in Nat
  BY DEF Tables!Init, ViewInv, Tables!Opened, Tables!TablesAssumption
<1> DEFINE e == [k \in Tables!Keys |-> [data |-> Unset, built |-> Unset, request |-> None]]
<1>5. EntriesOK(e, accounts) BY DEF EntriesOK, EntryOK
<1>6. IsList(Unset) BY DEF IsList
<1>7. votes = IF voting THEN Tables!Observe(e, Unset) ELSE e BY DEF Tables!Init
<1>8. /\ \A k \in Tables!Keys : votes[k].data = Unset
      /\ EntriesOK(votes, accounts)
  <2> HIDE DEF e
  <2>1. \A k \in Tables!Keys : e[k].data = Unset BY DEF e
  <2>2. QED BY <1>5, <1>6, <1>7, <2>1, ObserveAsks
<1>9. RowsInv BY <1>1, <1>2, <1>3, <1>4, <1>8 DEF RowsInv
<1>10. RowsAreFinitelyMany BY <1>9, RowsAreCounted
<1>11. PageHolds
  <2>1. view.page * view.size = 0 BY <1>4
  <2>2. QED BY <1>10, <2>1 DEF PageHolds, RowsAreFinitelyMany
<1>12. QED BY <1>9, <1>11 DEF TablesInv

LEMMA TablesStutter ==
    ASSUME Tables!TablesAssumption, TablesInv, UNCHANGED Tables!vars
    PROVE  TablesStep
<1>1. /\ accounts' = accounts /\ voting' = voting /\ online' = online /\ changes' = changes
      /\ list' = list /\ listing' = listing /\ votes' = votes /\ supports' = supports
      /\ fetches' = fetches /\ view' = view
  BY DEF Tables!vars
<1>2. RowsInv'
  BY <1>1 DEF TablesInv, RowsInv, AccountsInv, ClusterInv, SupportsInv, ViewInv
<1>3. QED BY <1>1, <1>2, TablesQuiet DEF Quiet

LEMMA TablesNext ==
    ASSUME Tables!TablesAssumption, TablesInv, [Tables!Next]_Tables!vars
    PROVE  TablesStep
<1>1. CASE Tables!Next
  <2>1. ASSUME NEW n \in PageSizes, Tables!setPageSize(n) PROVE TablesStep
    BY <2>1, TablesResize
  <2>2. ASSUME NEW k \in Tables!Keys, Tables!PartArrives(k) \/ Tables!VotesFail(k)
        PROVE  TablesStep
    BY <2>2, TablesPart, TablesFail
  <2>3. QED
    BY <1>1, <2>1, <2>2, TablesSearch, TablesTurnPage, TablesList, TablesSupports,
       TablesRefetchList, TablesRefetchRows, TablesOpen, TablesChain
       DEF Tables!Next
<1>2. CASE UNCHANGED Tables!vars BY <1>2, TablesStutter
<1>3. QED BY <1>1, <1>2

LEMMA CutOfSequence ==
    ASSUME NEW t, NEW i \in Nat, NEW j \in Nat
    PROVE  DOMAIN SubSeq(t, i, j) = 1 .. (1 + j - i)
<1>1. SubSeq(t, i, j) = [x \in 1 .. (1 + j - i) |-> t[x + i - 1]] BY DEF SubSeq
<1>2. QED BY <1>1

\* A page that begins within the rows has rows.
LEMMA PageOfRows ==
    ASSUME NEW s, NEW m \in Nat \ {0}, NEW n \in Nat, NEW c \in Nat, m <= n, m <= c
    PROVE  SubSeq(s, m, Tables!Min({n, c})) # <<>>
<1> DEFINE u == IF n <= c THEN n ELSE c
<1>1. u \in Nat /\ m <= u OBVIOUS
<1>2. u \in {n, c} /\ \A y \in {n, c} : u <= y OBVIOUS
<1>3. \A x \in {n, c} : (\A y \in {n, c} : x <= y) => x = u OBVIOUS
<1> HIDE DEF u
<1>4. Tables!Min({n, c}) = CHOOSE x \in {n, c} : \A y \in {n, c} : x <= y
  BY DEF Tables!Min
<1>5. Tables!Min({n, c}) = u BY <1>2, <1>3, <1>4
<1>6. 1 \in 1 .. (1 + u - m) BY <1>1
<1>7. 1 \in DOMAIN SubSeq(s, m, u) BY <1>1, <1>6, CutOfSequence
<1>8. DOMAIN <<>> = {} OBVIOUS
<1>9. QED BY <1>5, <1>7, <1>8

LEMMA TablesShowRows ==
    ASSUME Tables!TablesAssumption, TablesInv
    PROVE  Tables!PageIsNotEmpty
<1> SUFFICES ASSUME Tables!Filtered # {}, ~Tables!IsLoading
             PROVE  Tables!PageRows(view.page) # <<>>
  BY DEF Tables!PageIsNotEmpty, Tables!Body
<1> DEFINE c == Cardinality(Tables!Filtered)
           m == view.page * view.size
<1>1. view.page \in Nat /\ view.size \in Nat \ {0}
  BY DEF TablesInv, RowsInv, ViewInv, Tables!TablesAssumption
<1>2. c \in Nat BY RowsAreCounted DEF TablesInv, RowsAreFinitelyMany
<1>3. m \in Nat /\ m < c BY <1>1 DEF TablesInv, PageHolds
<1>4. Tables!Cardinality(Tables!Filtered) = c BY DEF Tables!Cardinality, Cardinality
<1>5. Tables!PageRows(view.page) =
          SubSeq(Tables!SortedRows(Tables!Filtered), m + 1, Tables!Min({m + 1 + view.size - 1, c}))
  BY <1>4 DEF Tables!PageRows
<1> HIDE DEF m, c
<1>6. m + 1 \in Nat \ {0} /\ m + 1 + view.size - 1 \in Nat /\ m + 1 <= m + 1 + view.size - 1
      /\ m + 1 <= c
  BY <1>1, <1>2, <1>3
<1>7. QED BY <1>2, <1>5, <1>6, PageOfRows

LEMMA TablesAreRight ==
    ASSUME Tables!TablesAssumption, TablesInv
    PROVE  /\ Tables!TablesTypeOK /\ Tables!RowsAreToldApart /\ Tables!NamesResolve
           /\ Tables!SupportersFollowTheList
<1>1. AccountsInv /\ ClusterInv /\ SupportsInv /\ ViewInv /\ EntriesOK(votes, accounts)
  BY DEF TablesInv, RowsInv
<1> DEFINE k == Tables!VotesKey(list)
           e == Tables!Entry
<1>2. k \in Tables!Keys /\ (list # Unset => k # None) BY <1>1, KeyOf DEF ClusterInv
<1>3. EntryOK(e, k, accounts) BY <1>1, <1>2 DEF EntriesOK, Tables!Entry
<1>4. view.tab = "voters" \/ view.tab = "supporters" BY <1>1 DEF ViewInv
<1>5. Tables!TablesTypeOK BY <1>1 DEF Tables!TablesTypeOK, ClusterInv, ViewInv
<1> HIDE DEF k, e
<1>6. ASSUME view.tab = "voters", e.data # Unset
      PROVE  /\ Tables!Data = e.data /\ Tables!VotesKey(e.built) = k
             /\ \A row \in e.data : /\ Subject \in Tables!Range(row.account.fields)
                                    /\ row.name = "unknown" => ~Tables!Listed(e.built, row.identity)
             /\ \A x, y \in e.data :
                   x # y /\ Tables!getRowId(x) = Tables!getRowId(y) => SameIdentity(x, y)
  <2>1. Tables!Data = e.data BY <1>6 DEF Tables!Data, e
  <2>2. Tables!VotesKey(e.built) = k /\ IsList(e.built) BY <1>3, <1>6 DEF EntryOK
  <2>3. PICK A \in SUBSET (ShownVotes \cup ShownOverrides) : e.data = RowsOf(A, e.built)
    BY <1>3, <1>6 DEF EntryOK
  <2>4. QED BY <1>6, <2>1, <2>2, <2>3, RowsApart
<1>7. ASSUME view.tab = "supporters", NEW row \in Tables!Data
      PROVE  /\ row.account \in supports.data /\ supports.data # Unset
             /\ row = Tables!SupporterRow(row.account, list)
  <2>1. PICK a \in supports.data : row = Tables!SupporterRow(a, list) /\ supports.data # Unset
    BY <1>7 DEF Tables!Data
  <2>2. row.account = a BY <2>1 DEF Tables!SupporterRow
  <2>3. QED BY <2>1, <2>2
<1>8. Tables!RowsAreToldApart
  <2>1. CASE view.tab = "voters" /\ e.data # Unset
    BY <1>6, <2>1 DEF Tables!RowsAreToldApart, SameIdentity
  <2>2. CASE view.tab = "voters" /\ e.data = Unset
    <3>1. Tables!Data = {} BY <2>2 DEF Tables!Data, e
    <3>2. QED BY <3>1 DEF Tables!RowsAreToldApart
  <2>3. CASE view.tab = "supporters"
    <3>1. ASSUME NEW row \in Tables!Data PROVE Subject \in Tables!Range(row.account.fields)
      BY <1>1, <1>7, <2>3, ShownFields DEF SupportsInv
    <3>2. ASSUME NEW x \in Tables!Data, NEW y \in Tables!Data,
                 Tables!getRowId(x) = Tables!getRowId(y)
          PROVE  x = y
      <4>1. x.account = y.account BY <2>3, <3>2 DEF Tables!getRowId
      <4>2. QED BY <1>7, <2>3, <4>1
    <3>3. QED BY <3>1, <3>2 DEF Tables!RowsAreToldApart
  <2>4. QED BY <1>4, <2>1, <2>2, <2>3
<1>9. Tables!NamesResolve
  <2> SUFFICES ASSUME view.tab = "voters", list # Unset, e.data # Unset
               PROVE  /\ e.built # Unset
                      /\ DOMAIN e.built.map = DOMAIN list.map =>
                            \A row \in Tables!Data :
                               row.name = "unknown" => ~Tables!Listed(list, row.identity)
    BY DEF Tables!NamesResolve, e
  <2>1. e.built # Unset
    BY <1>2, <1>6 DEF Tables!VotesKey
  <2>2. QED BY <1>6, <2>1 DEF Tables!Listed
<1>10. Tables!SupportersFollowTheList
  <2> SUFFICES ASSUME view.tab = "supporters", NEW row \in Tables!Data
               PROVE  LET cells == Tables!topSupporterColumns(row)
                      IN IF Tables!Listed(list, row.identity)
                         THEN \E v \in DOMAIN list.entries :
                                 /\ IdentityOf[v] = IdentityOf[row.account.seed]
                                 /\ cells.staked = list.entries[v].stake
                                 /\ cells.supporter = list.entries[v].name
                         ELSE cells.staked = None /\ cells.percentage = None
    BY DEF Tables!SupportersFollowTheList
  <2> DEFINE a == row.account
             i == a.fields[2]
             u == list.map[i]
  <2>1. row = Tables!SupporterRow(a, list) /\ a \in ShownSupports
    BY <1>1, <1>7 DEF SupportsInv
  <2>2. a.seed \in VoteAccounts /\ i = IdentityOf[a.seed] BY <2>1, ShownFields
  <2>3. i \notin VoteAccounts
    BY <2>2 DEF Tables!TablesAssumption, Tables!Identities
  <2> HIDE DEF a
  <2>4. /\ row.identity = i
        /\ row.name = IF Tables!Listed(list, i) THEN Tables!Validator(list, i).name ELSE "unknown"
        /\ row.stake = IF Tables!Listed(list, i) THEN Tables!Validator(list, i).stake ELSE Unset
        /\ ~Tables!Listed(list, i) => row.percent = Unset
    BY <2>1 DEF Tables!SupporterRow
  <2> HIDE DEF i
  <2>5. /\ Tables!topSupporterColumns(row).supporter = row.name
        /\ Tables!topSupporterColumns(row).staked = Tables!UnknownOr(row.stake)
        /\ Tables!topSupporterColumns(row).percentage = Tables!UnknownOr(row.percent)
    BY DEF Tables!topSupporterColumns
  <2>6. CASE Tables!Listed(list, i)
    <3>1. list # Unset /\ i \in DOMAIN list.map BY <2>6 DEF Tables!Listed
    <3>2. /\ u \in DOMAIN list.entries /\ u \in VoteAccounts
          /\ i \in {u, IdentityOf[u]} /\ list.entries[u].stake # Unset
      BY <1>1, <3>1 DEF ClusterInv, IsList
    <3>3. IdentityOf[u] = IdentityOf[a.seed] BY <2>2, <2>3, <3>2
    <3>4. Tables!Validator(list, i) = list.entries[u] BY DEF Tables!Validator
    <3>5. row.stake = list.entries[u].stake /\ row.name = list.entries[u].name
      BY <2>4, <2>6, <3>4
    <3> HIDE DEF u
    <3>6. /\ Tables!topSupporterColumns(row).staked = list.entries[u].stake
          /\ Tables!topSupporterColumns(row).supporter = list.entries[u].name
      BY <2>5, <3>2, <3>5 DEF Tables!UnknownOr
    <3>7. QED BY <2>4, <2>6, <3>2, <3>3, <3>6 DEF a
  <2>7. CASE ~Tables!Listed(list, i) BY <2>4, <2>5, <2>7 DEF Tables!UnknownOr
  <2>8. QED BY <2>6, <2>7
<1>11. QED BY <1>5, <1>8, <1>9, <1>10

\* The tables of voters and supporters, in every order of answers, failures, clicks
\* and changes on chain: rows are those of accounts of the proposal, told apart by
\* their keys but for votes of one identity through several vote accounts; nothing that was on chain when a request began is missed; names and
\* stakes follow the list of validators; a page shows rows while any match, and
\* another page size keeps the first of them (TopVotersTable, TopSupportersTable,
\* useProposalVotes, useProposalSupporters, TablePagination).
THEOREM TablesAreSound ==
    ASSUME Tables!TablesAssumption
    PROVE  Tables!Spec =>
               /\ [](/\ Tables!TablesTypeOK /\ Tables!RowsAreToldApart /\ Tables!NamesResolve
                     /\ Tables!SupportersFollowTheList /\ Tables!PageIsNotEmpty)
               /\ [][Tables!NothingIsMissed]_Tables!vars
               /\ [][Tables!ResizeKeepsTheRow]_Tables!vars
<1>1. Tables!Init => TablesInv BY TablesInit
<1>2. TablesInv /\ [Tables!Next]_Tables!vars => TablesStep BY TablesNext
<1>3. TablesInv /\ [Tables!Next]_Tables!vars =>
          /\ TablesInv' /\ [Tables!NothingIsMissed]_Tables!vars
          /\ [Tables!ResizeKeepsTheRow]_Tables!vars
  BY <1>2 DEF TablesStep
<1>4. TablesInv => /\ Tables!TablesTypeOK /\ Tables!RowsAreToldApart /\ Tables!NamesResolve
                   /\ Tables!SupportersFollowTheList /\ Tables!PageIsNotEmpty
  BY TablesAreRight, TablesShowRows
<1>5. QED BY <1>1, <1>3, <1>4, PTL DEF Tables!Spec
=============================================================================
