-------------------------- MODULE EndpointSettings --------------------------
(***************************************************************************)
(* The settings of a browser tab: which RPC endpoint the pages talk to,    *)
(* which network the snapshot service is asked about, and where that       *)
(* service is.  They are edited in a dialog, kept in localStorage and      *)
(* restored when the page is loaded, possibly by a newer deployment whose  *)
(* preset endpoints have other addresses.                                  *)
(***************************************************************************)
EXTENDS Naturals

CONSTANTS
    Presets, DEFAULT_TYPE, DEVNET,
    Deployments, RPC_URLS,  \* addresses of the presets, by deployment
    CustomUrls,             \* addresses a user may type
    ClusterOf,              \* the network behind an address, None for any other
    Hosts, DEFAULT_NCN_API_URL,     \* snapshot services: [host, slashes]
    Invalid,                \* whatever new URL() refuses, the empty text included
    None, Garbage,
    MaxSlashes, MaxEdits, MaxLoads  \* bounds

Networks == Presets
Types == Presets \cup {"custom"}
PresetUrls == {RPC_URLS[d][p] : d \in Deployments, p \in Presets}
ApiUrls == [host : Hosts, slashes : 0 .. MaxSlashes]
Endpoint == [type : Types, url : PresetUrls \cup CustomUrls]

ASSUME SettingsAssumption ==
    /\ MaxSlashes \in Nat
    /\ "custom" \notin Presets /\ None \notin Presets
    /\ None \notin Endpoint /\ Garbage \notin Endpoint /\ None \notin ApiUrls
    /\ DEFAULT_TYPE \in Presets /\ DEVNET \in Presets
    /\ DEFAULT_NCN_API_URL \in ApiUrls /\ DEFAULT_NCN_API_URL.slashes = 0
    \* getRpcUrls: whatever the environment says, an address of that cluster
    /\ \A d \in Deployments, p \in Presets : ClusterOf[RPC_URLS[d][p]] = p

VARIABLES
    deployed,       \* the deployment that is served
    loaded,         \* the one the tab runs
    stored,         \* localStorage: [rpc, api]
    endpoint, ncnApiUrl,    \* state of the two contexts
    form, open,     \* the dialog: [selected, custom, api], kept while it is closed
    genesis,        \* networkQuery: [state, data]
    touched,        \* whether a field was edited since the dialog opened
    edits, loads

vars == <<deployed, loaded, stored, endpoint, ncnApiUrl, form, open, genesis, touched, edits, loads>>

-----------------------------------------------------------------------------
normalizeUrl(u) == [u EXCEPT !.slashes = IF @ = 0 THEN 0 ELSE @ - 1]

Stripped(n) == IF n < 2 THEN 0 ELSE n - 2

DefaultEndpoint(d) == [type |-> DEFAULT_TYPE, url |-> RPC_URLS[d][DEFAULT_TYPE]]

getStoredValues(d) ==
    IF stored.rpc \in {None, Garbage} THEN DefaultEndpoint(d) ELSE stored.rpc

getStoredApi == IF stored.api = None THEN DEFAULT_NCN_API_URL ELSE normalizeUrl(stored.api)

\* Slip: an unknown cluster is taken for the default one.
UnknownIsDefault(url) == IF ClusterOf[url] = None THEN DEFAULT_TYPE ELSE ClusterOf[url]

networkFromGenesisHash(url) == ClusterOf[url]

NoAnswer == [state |-> "idle", data |-> None]

\* Slip: the condition is turned round.
EnabledForPresets == endpoint.type # "custom"

networkEnabled == endpoint.type = "custom"

network == IF endpoint.type = "custom" THEN genesis.data ELSE endpoint.type

\* A request to the snapshot service names a network, or is not made.
requireKnownSnapshotNetwork(n) == n \in Networks

-----------------------------------------------------------------------------
(* The dialog *)

canSave ==
    /\ form.selected # "custom" \/ form.custom # Invalid
    /\ form.api # Invalid

\* Slip: the fields keep what they were left with.
OpenAsLeft ==
    /\ ~open /\ open' = TRUE /\ touched' = FALSE
    /\ UNCHANGED <<deployed, loaded, stored, endpoint, ncnApiUrl, form, genesis, edits, loads>>

\* Opening fills the fields from the contexts.
Open ==
    /\ ~open /\ open' = TRUE
    /\ form' = [selected |-> endpoint.type,
                custom |-> IF endpoint.type = "custom" THEN endpoint.url ELSE Invalid,
                api |-> ncnApiUrl]
    /\ touched' = FALSE
    /\ UNCHANGED <<deployed, loaded, stored, endpoint, ncnApiUrl, genesis, edits, loads>>

Edit(f) ==
    /\ open /\ edits < MaxEdits /\ f # form
    /\ form' = f
    /\ edits' = edits + 1 /\ touched' = TRUE
    /\ UNCHANGED <<deployed, loaded, stored, endpoint, ncnApiUrl, open, genesis, loads>>

Select(t) == Edit([form EXCEPT !.selected = t])
TypeCustom(u) == form.selected = "custom" /\ Edit([form EXCEPT !.custom = u])
TypeApi(u) == Edit([form EXCEPT !.api = u])

SelectedUrl == IF form.selected = "custom" THEN form.custom ELSE RPC_URLS[loaded][form.selected]

\* Slip: the address is put in force but not in storage.
SaveForThisVisit ==
    /\ open /\ canSave
    /\ endpoint' = [type |-> form.selected, url |-> SelectedUrl]
    /\ ncnApiUrl' = normalizeUrl(normalizeUrl(form.api))
    /\ stored' = [stored EXCEPT !.api = ncnApiUrl']
    /\ genesis' = NoAnswer
    /\ open' = FALSE
    /\ UNCHANGED <<deployed, loaded, form, touched, edits, loads>>

\* Both contexts and their keys in storage; every query is removed.  The dialog and
\* the context each strip a slash.
handleSave ==
    /\ open /\ canSave
    /\ endpoint' = [type |-> form.selected, url |-> SelectedUrl]
    /\ ncnApiUrl' = normalizeUrl(normalizeUrl(form.api))
    /\ stored' = [rpc |-> endpoint', api |-> ncnApiUrl']
    /\ genesis' = NoAnswer
    /\ open' = FALSE
    /\ UNCHANGED <<deployed, loaded, form, touched, edits, loads>>

\* Cancel leaves other values in the fields than the ones in force.
handleClose ==
    /\ open /\ open' = FALSE
    /\ form' = [selected |-> DEVNET, custom |-> Invalid, api |-> ncnApiUrl]
    /\ UNCHANGED <<deployed, loaded, stored, endpoint, ncnApiUrl, genesis, touched, edits, loads>>

-----------------------------------------------------------------------------
(* networkQuery: asked once for an address. *)

resolveSnapshotNetwork ==
    /\ networkEnabled /\ genesis.state = "idle"
    /\ genesis' = [state |-> "fetching", data |-> None]
    /\ UNCHANGED <<deployed, loaded, stored, endpoint, ncnApiUrl, form, open, touched, edits, loads>>

GenesisHash ==
    /\ genesis.state = "fetching"
    /\ genesis' = [state |-> "ok", data |-> networkFromGenesisHash(endpoint.url)]
    /\ UNCHANGED <<deployed, loaded, stored, endpoint, ncnApiUrl, form, open, touched, edits, loads>>

GenesisHashFails ==
    /\ genesis.state = "fetching"
    /\ genesis' = [state |-> "failed", data |-> None]
    /\ UNCHANGED <<deployed, loaded, stored, endpoint, ncnApiUrl, form, open, touched, edits, loads>>

-----------------------------------------------------------------------------
(* Page loads *)

Load(d) ==
    /\ loaded' = d
    /\ endpoint' = getStoredValues(d)
    /\ ncnApiUrl' = getStoredApi
    /\ form' = [selected |-> endpoint'.type, custom |-> Invalid, api |-> ncnApiUrl']
    /\ open' = FALSE
    /\ genesis' = NoAnswer

Reload ==
    /\ loads < MaxLoads /\ loads' = loads + 1
    /\ Load(deployed)
    /\ UNCHANGED <<deployed, stored, touched, edits>>

SavedEndpoints ==
    {e \in Endpoint : IF e.type = "custom" THEN e.url \in CustomUrls
                      ELSE \E d \in Deployments : e.url = RPC_URLS[d][e.type]}

\* Storage of an earlier visit, or something else under its key.
Init ==
    /\ deployed \in Deployments /\ loaded = deployed
    /\ stored \in [rpc : {None, Garbage} \cup SavedEndpoints,
                   api : {None} \cup {u \in ApiUrls : u.slashes <= Stripped(MaxSlashes)}]
    /\ endpoint = getStoredValues(loaded) /\ ncnApiUrl = getStoredApi
    /\ form = [selected |-> endpoint.type, custom |-> Invalid, api |-> ncnApiUrl]
    /\ open = FALSE /\ genesis = NoAnswer
    /\ touched = FALSE /\ edits = 0 /\ loads = 0

Deploy ==
    /\ \E d \in Deployments : d # deployed /\ deployed' = d
    /\ UNCHANGED <<loaded, stored, endpoint, ncnApiUrl, form, open, genesis, touched, edits, loads>>

Next ==
    \/ Open \/ handleSave \/ handleClose
    \/ \E t \in Types : Select(t)
    \/ \E u \in CustomUrls \cup {Invalid} : TypeCustom(u)
    \/ \E u \in ApiUrls \cup {Invalid} : TypeApi(u)
    \/ resolveSnapshotNetwork \/ GenesisHash \/ GenesisHashFails
    \/ Reload \/ Deploy

\* Rendering starts the request, and the request ends.
Spec ==
    /\ Init /\ [][Next]_vars
    /\ WF_vars(resolveSnapshotNetwork) /\ WF_vars(GenesisHash \/ GenesisHashFails)

-----------------------------------------------------------------------------
(* Properties *)

\* What is in force can be used: an address, and a service without a slash that
\* would double the one of the path, unless the user typed more than two.
SettingsTypeOK ==
    /\ endpoint \in Endpoint /\ ncnApiUrl \in ApiUrls
    /\ endpoint.type = "custom" => endpoint.url \in CustomUrls
    /\ endpoint.type # "custom" => endpoint.url \in PresetUrls
    /\ ncnApiUrl.slashes <= Stripped(MaxSlashes)

\* A request to the snapshot service is about the cluster the pages read from,
\* whatever was saved, resolved or restored before; an address of no known
\* cluster is never routed to one.
NetworkIsOfTheEndpoint ==
    requireKnownSnapshotNetwork(network) => ClusterOf[endpoint.url] = network

\* Opening the settings and saving them without an edit changes no endpoint, also
\* after they were cancelled (Cancel leaves devnet in the fields).
UneditedSaveKeeps ==
    open /\ ~open' /\ ~touched /\ loads' = loads =>
       /\ endpoint'.type = endpoint.type
       /\ ClusterOf[endpoint'.url] = ClusterOf[endpoint.url]
       /\ ncnApiUrl'.host = ncnApiUrl.host

\* A reload brings back what was in force: the same kind of endpoint, the same
\* cluster, and for a saved endpoint the same address, whatever is deployed by now.
ReloadKeepsTheEndpoint ==
    [][loads' # loads =>
          /\ endpoint'.type = endpoint.type
          /\ ClusterOf[endpoint'.url] = ClusterOf[endpoint.url]
          /\ stored.rpc \in Endpoint => endpoint' = endpoint
          /\ ncnApiUrl'.host = ncnApiUrl.host]_vars

\* A custom endpoint's network is known in the end, unless it is none of the known
\* ones, its request fails or the settings are opened and saved again.
NetworkResolves ==
    \A u \in {v \in CustomUrls : ClusterOf[v] # None} :
        endpoint.type = "custom" /\ endpoint.url = u ~>
            network = ClusterOf[u] \/ genesis.state = "failed" \/ open \/ endpoint.url # u
=============================================================================
