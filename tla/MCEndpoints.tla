---------------------------- MODULE MCEndpoints ----------------------------
(***************************************************************************)
(* Options and catalogs for model checking Endpoints: the forms of URLs    *)
(* and of catalogs that the tests, the README and the comments of the      *)
(* client mention, and a few that combine them.                            *)
(***************************************************************************)
EXTENDS Endpoints

MCStrings == STRING

At(host, path) == [host |-> host, path |-> path, slash |-> FALSE]
Slashed(u) == [u EXCEPT !.slash = TRUE]
ConoHa(s, r) == <<s, r, "conoha", "io">>
Custom == <<"cloud", "example">>

MCOptions ==
  [kind: {"region"}, region: {"c3j2", ""}]
  \cup [kind: {"url"}, svc: {"identity"},
        url: {Slashed(At(ConoHa("identity", "c3j2"), <<>>)), At(Custom, <<"v3">>),
              At(<<"www">> \o ConoHa("identity", "c3j2"), <<>>),
              At(<<"v3">> \o Custom, <<>>), NoURL}]
  \cup [kind: {"url"}, svc: {"image", "object-store"},
        url: {Slashed(At(Custom, <<>>)), NoURL}]
  \cup [kind: {"endpoints"},
        urls: {[s \in Services |-> IF s = "identity" THEN At(ConoHa(s, "c3j2"), <<"v3">>)
                                                     ELSE NoURL],
               [s \in Services |-> IF s = "dns" THEN At(Custom, <<"v1">>)
                                   ELSE IF s = "block-storage" THEN Slashed(At(Custom, <<"v3">>))
                                   ELSE NoURL]}]

Public(r, u) == [interface |-> "public", region |-> r, regionID |-> "", url |-> u]
ByID(r, u) == [interface |-> "public", region |-> "", regionID |-> r, url |-> u]
Internal(r, u) == [interface |-> "internal", region |-> r, regionID |-> r, url |-> u]
Entry(type, endpoints) == [type |-> type, endpoints |-> endpoints]

\* Hosts of the region, other than the generated ones.
New(s, r) == <<s \o "-new", r, "conoha", "io">>

\* A host that names no region: what region it is for, only its catalog says.
Example(name) == <<name, "example", "com">>

MCCatalogs ==
  {<<>>,
   \* the catalogs of client_test.go:255-269 and 355-361, one with a part of
   \* identity_test.go:140-148
   <<Entry("compute", <<Public("c3j1", At(Example("catalog-compute"), <<"v2.1">>))>>),
     Entry("block-storage", <<Public("c3j1", Slashed(At(Example("catalog-bs"), <<"v3">>)))>>)>>,
   <<Entry("compute", <<ByID("c3j1", At(Example("by-region-id"), <<"v2.1">>))>>),
     Entry("identity", <<Public("c3j1", At(Example("discovered-identity"), <<"v3">>))>>)>>,
   \* base URLs, the other region and an internal endpoint first, tenant IDs in paths
   <<Entry("identity", <<Internal("c3j2", At(<<"inside">>, <<"v3">>)),
                         Public("c3j1", At(New("identity", "c3j1"), <<>>)),
                         Public("c3j2", At(New("identity", "c3j2"), <<"v3">>))>>),
     Entry("object-store",
           <<ByID("c3j2", At(New("object-storage", "c3j2"), <<"v1", "AUTH">>)),
             ByID("c3j1", Slashed(At(New("object-storage", "c3j1"), <<"v1", "AUTH">>)))>>),
     Entry("network", <<Public("c3j1", At(New("networking", "c3j1"), <<>>))>>)>>,
   \* block storage twice, under both of its names
   <<Entry("block-storage", <<Public("c3j1", Slashed(At(ConoHa("bs", "c3j1"), <<>>))),
                              Public("c3j2", At(ConoHa("bs", "c3j2"), <<>>))>>),
     Entry("volumev3", <<Public("c3j1", At(New("bs", "c3j1"), <<"v3", "tenant">>))>>),
     Entry("compute", <<Public("c3j2", At(New("compute", "c3j2"), <<"v2.1">>))>>),
     Entry("dns", <<Public("c3j2", At(New("dns", "c3j2"), <<"v1">>))>>)>>,
   \* an endpoint without URL hides the one behind it; a service the SDK has not
   <<Entry("image", <<Public("c3j1", NoURL),
                      Public("c3j1", At(New("image", "c3j1"), <<"v2">>))>>),
     Entry("metering", <<Public("c3j2", At(ConoHa("metering", "c3j2"), <<>>))>>),
     Entry("load-balancer", <<Public("c3j2", At(New("lbaas", "c3j2"), <<>>))>>),
     Entry("object-store", <<Public("c3j2", At(ConoHa("os", "c3j2"), <<"v1">>)),
                             Public("c3j2", At(New("os", "c3j2"), <<"v1">>))>>)>>}
=============================================================================
