------------------------------ MODULE Handlers ------------------------------
(***************************************************************************)
(* What the API methods of *conoha.Client have in common.  About 180       *)
(* methods are written by hand in eight files and each of them repeats the *)
(* same skeleton: read an endpoint URL field of the client, perhaps read   *)
(* the tenant ID for the path, build a request, put the token in it, send  *)
(* it, read and perhaps decode the answer.  They differ in five choices,   *)
(* and a method is modelled by the choices it makes, its shape:            *)
(*                                                                         *)
(*   svc     the endpoint URL field it starts from                         *)
(*   tenant  TRUE if the path also holds c.tenantID()                      *)
(*   token   "locked": newRequest reads the token under the read lock      *)
(*           "raw":    the method reads c.Token itself, without the lock   *)
(*           "none":   no request is sent (GenerateTempURL)                *)
(*   exec    "do":     Client.do reads the whole body and checks the status*)
(*           "inline": the method checks the status and reads the body     *)
(*                     only of an error                                    *)
(*           "head":   as "inline", and an error's body is not read        *)
(*           "stream": as "inline", and a good answer's body is handed to  *)
(*                     the caller                                          *)
(*           "none":   nothing is sent                                     *)
(*   decode  TRUE if do() is given a place to decode the body into         *)
(*                                                                         *)
(* Every definition is the set of the shapes of one stretch of one file.   *)
(***************************************************************************)

AllServices == {"identity", "compute", "block-storage", "image", "network",
                "load-balancer", "object-store", "dns"}

TokenReads == {"locked", "raw", "none"}
Execs == {"do", "inline", "head", "stream", "none"}

Shape == [svc: AllServices, tenant: BOOLEAN, token: TokenReads,
          exec: Execs, decode: BOOLEAN]

\* The skeleton of most methods: URL field + path, newRequest, do.
Plain(s, decodes) ==
  [svc: {s}, tenant: {FALSE}, token: {"locked"}, exec: {"do"}, decode: decodes]

\* The same with the tenant ID in the path.
Scoped(s, decodes) ==
  [svc: {s}, tenant: {TRUE}, token: {"locked"}, exec: {"do"}, decode: decodes]

\* Object storage methods that build the request themselves.
Raw(execs) ==
  [svc: {"object-store"}, tenant: {TRUE}, token: {"raw"}, exec: execs, decode: {FALSE}]

(* compute.go *)
ServerHandlers     == Plain("compute", {TRUE, FALSE})
ActionHandlers     == Plain("compute", {TRUE, FALSE})
ConsoleHandlers    == Plain("compute", {TRUE})
FlavorHandlers     == Plain("compute", {TRUE})
KeypairHandlers    == Plain("compute", {TRUE, FALSE})
AttachmentHandlers == Plain("compute", {TRUE, FALSE})
GraphHandlers      == Plain("compute", {TRUE})

ComputeHandlers ==
  UNION {ServerHandlers, ActionHandlers, ConsoleHandlers, FlavorHandlers,
         KeypairHandlers, AttachmentHandlers, GraphHandlers}

(* identity.go, except Authenticate and AuthenticateByName *)
CredentialHandlers == Plain("identity", {TRUE, FALSE})
SubUserHandlers    == Plain("identity", {TRUE, FALSE})
RoleHandlers       == Plain("identity", {TRUE, FALSE})

IdentityHandlers == CredentialHandlers \cup SubUserHandlers \cup RoleHandlers

(* network.go *)
SubnetHandlers        == Plain("network", {TRUE, FALSE})
SecurityGroupHandlers == Plain("network", {TRUE, FALSE})
NetworkHandlers       == Plain("network", {TRUE, FALSE})
PortHandlers          == Plain("network", {TRUE, FALSE})

NetworkingHandlers ==
  UNION {SubnetHandlers, SecurityGroupHandlers, NetworkHandlers, PortHandlers}

(* loadbalancer.go *)
BalancerHandlers == Plain("load-balancer", {TRUE, FALSE})
ListenerHandlers == Plain("load-balancer", {TRUE, FALSE})
PoolHandlers     == Plain("load-balancer", {TRUE, FALSE})
MemberHandlers   == Plain("load-balancer", {TRUE, FALSE})
MonitorHandlers  == Plain("load-balancer", {TRUE, FALSE})

LBaaSHandlers ==
  UNION {BalancerHandlers, ListenerHandlers, PoolHandlers, MemberHandlers,
         MonitorHandlers}

(* dns.go *)
DomainHandlers == Plain("dns", {TRUE, FALSE})
RecordHandlers == Plain("dns", {TRUE, FALSE})

(* image.go: UploadISOImage sends a stream, so it builds its own request *)
ImageHandlers  == Plain("image", {TRUE, FALSE})
UploadISOImage == [svc: {"image"}, tenant: {FALSE}, token: {"raw"},
                   exec: {"inline"}, decode: {FALSE}]

(* volume.go *)
VolumeHandlers == Scoped("block-storage", {TRUE, FALSE})
VolumeTypeHandlers == Scoped("block-storage", {TRUE})
BackupHandlers == Scoped("block-storage", {TRUE, FALSE})

(* objectstorage.go: the listings go through newRequest and do, the SLO     *)
(* manifest through newRequest only, the temporary URL is computed locally *)
AccountHandlers   == Raw({"inline", "head"})
ContainerHandlers == Scoped("object-store", {TRUE}) \cup Raw({"inline"})
ListObjects       == Scoped("object-store", {TRUE})
ObjectHandlers    == Raw({"inline", "stream"})
SettingHandlers   == Raw({"inline"})
ManifestHandlers  == [svc: {"object-store"}, tenant: {TRUE},
                      token: {"raw", "locked"}, exec: {"inline"}, decode: {FALSE}]
GenerateTempURL   == [svc: {"object-store"}, tenant: {TRUE}, token: {"none"},
                      exec: {"none"}, decode: {FALSE}]

ObjectStorageHandlers ==
  UNION {AccountHandlers, ContainerHandlers, ListObjects, ObjectHandlers,
         SettingHandlers, ManifestHandlers, GenerateTempURL}

AllHandlers ==
  UNION {ComputeHandlers, IdentityHandlers, NetworkingHandlers, LBaaSHandlers,
         DomainHandlers, RecordHandlers, ImageHandlers, UploadISOImage,
         VolumeHandlers, VolumeTypeHandlers, BackupHandlers,
         ObjectStorageHandlers}

=============================================================================
