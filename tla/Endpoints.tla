----------------------------- MODULE Endpoints -----------------------------
(***************************************************************************)
(* How a client gets its endpoint URLs: the options of NewClient in the    *)
(* order the caller gives them, the region they name or imply, the URLs    *)
(* generated from it, and the service catalog of every login, entry by     *)
(* entry.                                                                  *)
(*                                                                         *)
(* A URL is a record of its host's labels, its path's segments and whether *)
(* slashes follow.  "https://identity.c3j1.conoha.io/v3/" is               *)
(*   [host  |-> <<"identity", "c3j1", "conoha", "io">>,                    *)
(*    path  |-> <<"v3">>, slash |-> TRUE]                                  *)
(* A segment "AUTH" stands for "AUTH_" followed by a tenant ID.            *)
(***************************************************************************)
EXTENDS Integers, Sequences, SequencesExt

CONSTANTS
  Services,       (* the services the model has, by the keys of explicitURLs *)
  DefaultRegion,
  Strings,        (* what can be a label, a segment or a region              *)
  Options,        (* the options the caller can give                         *)
  Catalogs,       (* the catalogs a login can return                         *)
  MaxOptions,     (* bound: options given to NewClient                       *)
  MaxLogins       (* bound: logins                                           *)

ASSUME EndpointsAssumption ==
  /\ "identity" \in Services
  /\ Services \subseteq {"identity", "compute", "block-storage", "image",
                          "network", "load-balancer", "object-store", "dns"}
  /\ DefaultRegion \in Strings
  /\ MaxOptions \in Nat /\ MaxLogins \in Nat

ASSUME StringsAssumption ==
  {"", "v1", "v2", "v2.0", "v2.1", "v3", "conoha", "io", "identity", "compute",
   "block-storage", "image-service", "networking", "lbaas", "object-storage",
   "dns-service"} \subseteq Strings

NoURL == [host |-> <<>>, path |-> <<>>, slash |-> FALSE]
NotGiven == <<"not given">>

\* What a string that the code takes for a URL can be; NotGiven is no host.
URLs == [host: Seq(Strings) \ {NotGiven}, path: Seq(Strings), slash: BOOLEAN]

ASSUME OptionsAssumption ==
  \A o \in Options :
    \/ o.kind = "region" /\ o.region \in Strings
    \/ o.kind = "url" /\ o.svc \in Services /\ o.url \in URLs
    \/ o.kind = "endpoints" /\ o.urls \in [Services -> URLs]

CatalogEndpoints ==
  [interface: Strings, region: Strings, regionID: Strings, url: URLs]

Entries == UNION {{catalog[i] : i \in DOMAIN catalog} : catalog \in Catalogs}

ASSUME CatalogsAssumption ==
  /\ Catalogs \subseteq Seq(Entries)
  /\ Entries \subseteq [type: Strings, endpoints: Seq(CatalogEndpoints)]

VARIABLES
  urls,            (* Client.IdentityURL, Client.ComputeURL, ...       *)
  region,          (* Client.Region                                    *)
  explicit,        (* Client.explicitURLs                              *)
  explicitRegion,  (* Client.explicitRegion                            *)
  phase,           (* "options" inside NewClient, "installing" while a *)
                   (*   login holds the lock, else "ready"             *)
  pending,         (* the catalog entries a login has not come to yet  *)
  steps,           (* options, then logins, so far                     *)
  given,           (* history: the host each service's URL was last    *)
                   (*   set to by an option                            *)
  found,           (* history: the host its catalogs last gave         *)
  heard            (* history: the catalog entries of all logins       *)

vars ==
  <<urls, region, explicit, explicitRegion, phase, pending, steps, given, found, heard>>

(* URLs *)

Version(s) ==
  CASE s \in {"identity", "block-storage"} -> "v3"
    [] s = "compute" -> "v2.1"
    [] s = "image" -> "v2"
    [] s \in {"network", "load-balancer"} -> "v2.0"
    [] s \in {"object-store", "dns"} -> "v1"

\* strings.TrimRight(url, "/")
Trim(u) == [u EXCEPT !.slash = FALSE]

\* strings.Contains(url, "/" + version): "/v2" is also found in "/v2.1", and the
\* host's first label follows a slash like every segment.
HasVersion(u, version) ==
  \E segment \in ToSet(u.path) \cup {u.host[i] : i \in DOMAIN u.host \cap {1}} :
    \/ segment = version
    \/ version = "v2" /\ segment \in {"v2.0", "v2.1"}

EnsureVersionPath(u, version) ==
  IF HasVersion(u, version) THEN u ELSE [u EXCEPT !.path = Append(@, version)]

\* {service} in https://{service}.{region}.conoha.io
Label(s) ==
  CASE s = "image" -> "image-service"
    [] s = "network" -> "networking"
    [] s = "load-balancer" -> "lbaas"
    [] s = "object-store" -> "object-storage"
    [] s = "dns" -> "dns-service"
    [] OTHER -> s

Generated(s, r) ==
  [host |-> <<Label(s), r, "conoha", "io">>, path |-> <<Version(s)>>, slash |-> FALSE]

\* The region label of a ConoHa host, "" if there is none.
ExtractRegion(u) ==
  IF Len(u.host) >= 4 /\ u.host[Len(u.host) - 1] = "conoha" /\ u.host[Len(u.host)] = "io"
    THEN u.host[2] ELSE ""
\* The field that a type of a catalog entry is for
ServiceOf(type) == IF type = "volumev3" THEN "block-storage" ELSE type

(* What the service promises about the paths of its catalogs *)

Advertised(entry) ==
  {endpoint \in ToSet(entry.endpoints) :
     endpoint.interface = "public" /\ Trim(endpoint.url) # NoURL}

\* No host is named for a version, and a path is the service's version or nothing,
\* then whatever is a tenant's.
ASSUME PathsAssumption ==
  \A entry \in Entries : \A endpoint \in Advertised(entry) :
    LET host == endpoint.url.host
        path == endpoint.url.path
    IN /\ host # <<>> => host[1] \notin {"v1", "v2", "v2.0", "v2.1", "v3"}
       /\ CASE ServiceOf(entry.type) = "block-storage" ->
                 path # <<>> => path[1] = "v3"
            [] ServiceOf(entry.type) = "object-store" ->
                 \/ path \in {<<>>, <<"v1">>}
                 \/ Len(path) >= 1 /\ path[1] = "AUTH"
                 \/ Len(path) >= 2 /\ path[1] = "v1" /\ path[2] = "AUTH"
            [] ServiceOf(entry.type) \in Services \ {"block-storage", "object-store"} ->
                 path \in {<<>>, <<Version(ServiceOf(entry.type))>>}
            [] OTHER -> TRUE
-----------------------------------------------------------------------------
(* NewClient *)

Init ==
  /\ urls = [s \in Services |-> NoURL]
  /\ region = DefaultRegion
  /\ explicit = {}
  /\ explicitRegion = FALSE
  /\ phase = "options"
  /\ pending = <<>>
  /\ steps = 0
  /\ given = [s \in Services |-> NotGiven]
  /\ found = [s \in Services |-> NotGiven]
  /\ heard = {}

WithRegion(r) ==
  /\ region' = r
  /\ explicitRegion' = TRUE
  /\ UNCHANGED <<urls, explicit, given>>

\* With*URL, which makes even "" explicit
WithURL(s, u) ==
  /\ urls' = [urls EXCEPT ![s] = u]
  /\ explicit' = explicit \cup {s}
  /\ given' = [given EXCEPT ![s] = u.host]
  /\ UNCHANGED <<region, explicitRegion>>

\* WithEndpoints, which ignores ""
WithEndpoints(eps) ==
  LET set == {s \in Services : eps[s] # NoURL} IN
  /\ urls' = [s \in Services |-> IF s \in set THEN eps[s] ELSE urls[s]]
  /\ explicit' = explicit \cup set
  /\ given' = [s \in Services |-> IF s \in set THEN eps[s].host ELSE given[s]]
  /\ UNCHANGED <<region, explicitRegion>>

ApplyOption ==
  /\ phase = "options"
  /\ steps < MaxOptions
  /\ steps' = steps + 1
  /\ \E o \in Options :
       \/ o.kind = "region" /\ WithRegion(o.region)
       \/ o.kind = "url" /\ WithURL(o.svc, o.url)
       \/ o.kind = "endpoints" /\ WithEndpoints(o.urls)
  /\ UNCHANGED <<phase, pending, found, heard>>

\* The region after the identity URL has been looked at
InferredRegion ==
  IF /\ ~explicitRegion
     /\ "identity" \in explicit
     /\ ExtractRegion(urls["identity"]) # ""
    THEN ExtractRegion(urls["identity"]) ELSE region

\* normalizeExplicitURLs for one service
Normalized(s) == EnsureVersionPath(Trim(urls[s]), Version(s))

\* Mutant: only the identity URL is generated, the rest is left to the catalog.
Bug_FillsIdentityOnly(s, r) ==
  IF s \in explicit THEN Normalized(s)
  ELSE IF s = "identity" THEN Generated(s, r) ELSE urls[s]

\* fillURLsFromRegion for one service, after normalizeExplicitURLs
Filled(s, r) ==
  IF s \in explicit THEN Normalized(s)
  ELSE IF urls[s] = NoURL THEN Generated(s, r) ELSE urls[s]

Build ==
  /\ phase = "options"
  /\ phase' = "ready"
  /\ region' = InferredRegion
  /\ urls' = [s \in Services |-> Filled(s, InferredRegion)]
  /\ steps' = 0
  /\ UNCHANGED <<explicit, explicitRegion, pending, given, found, heard>>
-----------------------------------------------------------------------------
(* A login's catalog *)

\* Mutant: any public endpoint will do.
Bug_AnyRegion(r, ep) == ep.interface = "public"

Eligible(r, ep) ==
  /\ ep.interface = "public"
  /\ r = "" \/ r \in {ep.region, ep.regionID}

\* The first eligible endpoint of an entry, even if it has no URL.
PublicURL(endpoints) ==
  LET i == SelectInSeq(endpoints, LAMBDA ep : Eligible(region, ep))
  IN IF i = 0 THEN NoURL ELSE Trim(endpoints[i].url)

\* strings.Index for a segment
FirstIndex(path, name) == SelectInSeq(path, LAMBDA segment : segment = name)

UpTo(u, i) == [u EXCEPT !.path = SubSeq(@, 1, i)]

\* Mutant: the catalog's path is kept.
Bug_PathKept(s, u) == EnsureVersionPath(u, Version(s))

\* The URL field's new value: block storage is cut after "/v3", object storage
\* before "/AUTH_", because the methods append the tenant ID themselves.
CatalogURL(s, u) ==
  CASE s = "block-storage" ->
         LET v == EnsureVersionPath(u, "v3")
             i == FirstIndex(v.path, "v3")
         IN IF i = 0 THEN v ELSE UpTo(v, i)
    [] s = "object-store" ->
         LET i == FirstIndex(u.path, "AUTH")
         IN EnsureVersionPath(IF i = 0 THEN u ELSE UpTo(u, i - 1), "v1")
    [] OTHER -> EnsureVersionPath(u, Version(s))

\* What the catalog says of a service in region r, without the loop: its last entry
\* for the service whose first eligible endpoint has a URL.
Offers(r, catalog, s) ==
  {i \in DOMAIN catalog :
     /\ ServiceOf(catalog[i].type) = s
     /\ \E j \in DOMAIN catalog[i].endpoints :
          /\ Eligible(r, catalog[i].endpoints[j])
          /\ Trim(catalog[i].endpoints[j].url) # NoURL
          /\ \A k \in 1..(j - 1) : ~Eligible(r, catalog[i].endpoints[k])}

Offered(r, catalog, s) ==
  LET i == CHOOSE i \in Offers(r, catalog, s) : \A k \in Offers(r, catalog, s) : k <= i
      endpoints == catalog[i].endpoints
  IN endpoints[CHOOSE j \in DOMAIN endpoints :
                 /\ Eligible(r, endpoints[j])
                 /\ \A k \in 1..(j - 1) : ~Eligible(r, endpoints[k])].url.host

\* An answer with a good status; a catalog may be empty.
Login ==
  /\ phase = "ready"
  /\ steps < MaxLogins
  /\ steps' = steps + 1
  /\ phase' = "installing"
  /\ \E catalog \in Catalogs :
       /\ pending' = catalog
       /\ found' = [s \in Services |->
                      IF Offers(region, catalog, s) = {} THEN found[s]
                      ELSE Offered(region, catalog, s)]
       /\ heard' = heard \cup ToSet(catalog)
  /\ UNCHANGED <<urls, region, explicit, explicitRegion, given>>

\* Mutant: explicitURLs is not looked at.
Bug_OverridesExplicit ==
  /\ phase = "installing"
  /\ pending # <<>>
  /\ pending' = Tail(pending)
  /\ LET s == ServiceOf(Head(pending).type)
         u == PublicURL(Head(pending).endpoints)
     IN urls' = IF u = NoURL \/ s \notin Services
                  THEN urls ELSE [urls EXCEPT ![s] = CatalogURL(s, u)]
  /\ UNCHANGED <<region, explicit, explicitRegion, phase, steps, given, found, heard>>

\* Mutant: the loop ends at an entry without a usable URL.
Bug_ReturnsEarly ==
  /\ phase = "installing"
  /\ pending # <<>>
  /\ LET s == ServiceOf(Head(pending).type)
         u == PublicURL(Head(pending).endpoints)
     IN /\ pending' = IF u = NoURL THEN <<>> ELSE Tail(pending)
        /\ urls' = IF u = NoURL \/ s \notin Services \ explicit
                     THEN urls ELSE [urls EXCEPT ![s] = CatalogURL(s, u)]
  /\ UNCHANGED <<region, explicit, explicitRegion, phase, steps, given, found, heard>>

\* One turn of the loop in updateEndpointsFromCatalog
Discover ==
  /\ phase = "installing"
  /\ pending # <<>>
  /\ pending' = Tail(pending)
  /\ LET s == ServiceOf(Head(pending).type)
         u == PublicURL(Head(pending).endpoints)
     IN urls' = IF u = NoURL \/ s \notin Services \ explicit
                  THEN urls ELSE [urls EXCEPT ![s] = CatalogURL(s, u)]
  /\ UNCHANGED <<region, explicit, explicitRegion, phase, steps, given, found, heard>>

Installed ==
  /\ phase = "installing"
  /\ pending = <<>>
  /\ phase' = "ready"
  /\ UNCHANGED <<urls, region, explicit, explicitRegion, pending, steps, given, found, heard>>
-----------------------------------------------------------------------------
Next == ApplyOption \/ Build \/ Login \/ Discover \/ Installed

Spec == Init /\ [][Next]_vars
-----------------------------------------------------------------------------
TypeOK ==
  /\ urls \in [Services -> URLs]
  /\ region \in Strings
  /\ explicit \subseteq Services
  /\ explicitRegion \in BOOLEAN
  /\ phase \in {"options", "installing", "ready"}
  /\ pending \in Seq(Entries)
  /\ phase # "installing" => pending = <<>>
  /\ phase # "options" => \A s \in Services : urls[s] # NoURL
  /\ given \in [Services -> Seq(Strings) \cup {NotGiven}]
  /\ found \in [Services -> Seq(Strings) \cup {NotGiven}]
  /\ heard \subseteq Entries

\* The documented resolution order, whatever the order of the options and however
\* many logins: what an option set, else what the catalogs last gave for the
\* client's region, else the host generated from the region.
PriorityOrder ==
  phase = "ready" =>
    \A s \in Services :
      urls[s].host = IF given[s] # NotGiven THEN given[s]
                     ELSE IF found[s] # NotGiven THEN found[s]
                     ELSE Generated(s, region).host

\* The hosts that catalog entries name, in public, for service s in region r.
NamedHosts(entries, r, s) ==
  LET endpoints == UNION {ToSet(entry.endpoints) :
                            entry \in {e \in entries : ServiceOf(e.type) = s}}
  IN {endpoint.url.host :
        endpoint \in {ep \in endpoints :
                        /\ ep.interface = "public"
                        /\ r = "" \/ ep.region = r \/ ep.regionID = r}}

\* The client is in one region, the one that its services' URLs are for: every URL
\* that the user did not set was generated for it or named for it by a catalog, and an
\* identity URL that the user did set is in it, unless the user chose the region too.
RegionAgreement ==
  phase = "ready" =>
    /\ \A s \in Services \ explicit :
         urls[s].host \in {Generated(s, region).host} \cup NamedHosts(heard, region, s)
    /\ ~explicitRegion /\ "identity" \in explicit =>
         ExtractRegion(urls["identity"]) \in {"", region}

\* Methods append "/servers", or "/" and a tenant ID, to these URLs: none ends in a
\* slash, and one that the user did not set is a host and the API's version and
\* nothing else, whatever path and slashes the catalog gave.
RootedURLs ==
  phase = "ready" =>
    \A s \in Services :
      /\ ~urls[s].slash
      /\ s \notin explicit => urls[s].path = <<Version(s)>>

\* The host that the methods will use once the login in progress, if there is one,
\* has gone through its catalog.
Outcome(s) ==
  IF s \notin explicit /\ Offers(region, pending, s) # {}
    THEN Offered(region, pending, s) ELSE urls[s].host

DefaultHost(s, r) == Generated(s, r).host
CatalogHosts(catalog, r, s) == NamedHosts(ToSet(catalog), r, s)

\* NewClient's work is one step, and so is a login's, however its catalog is ordered.
Decided == INSTANCE Resolution WITH
  Hosts <- Seq(Strings) \ {NotGiven},
  NoHost <- NotGiven,
  Regions <- Strings,
  Default <- DefaultHost,
  Named <- CatalogHosts,
  hosts <- [s \in Services |-> IF phase = "options" THEN NotGiven ELSE Outcome(s)],
  fixed <- IF phase = "options" THEN {} ELSE explicit,
  region <- IF phase = "options" THEN "" ELSE region,
  made <- (phase # "options"),
  logins <- IF phase = "options" THEN 0 ELSE steps

\* The host of a service is decided when NewClient returns and when a login's answer
\* arrives, by nothing else, and by a login only for a service that the user did not
\* set, and then to a host that this login's catalog names for the client's region.
ImplementsResolution == Decided!Spec

(* What comments say that the code does not do *)

\* "Returns "" if the URL does not match the expected pattern", which is
\* {service}.{region}.conoha.io: NewClient then keeps the default region.
RegionOnlyFromPattern ==
  phase = "ready" /\ ~explicitRegion /\ Len(urls["identity"].host) # 4 =>
    region = DefaultRegion
=============================================================================
