-------------------------- MODULE EndpointsProofs --------------------------
(***************************************************************************)
(* The properties of Endpoints, for any options and any catalogs that the  *)
(* assumptions admit, however many.                                        *)
(***************************************************************************)
EXTENDS Endpoints, SequenceTheorems, FiniteSetTheorems,
  WellFoundedInduction, TLAPS

(* Numbers *)

\* A nonempty set of natural numbers has a least element.
LEMMA LeastExists ==
  ASSUME NEW T, T \subseteq Nat, T # {}
  PROVE  \E x \in T : \A y \in T : x <= y
  <1> DEFINE Below == {0..x : x \in T}
             R == StrictSubsetOrdering(Nat)
  <1>1. Below \subseteq FiniteSubsetsOf(Nat) /\ Below # {}
    <2>1. \A x \in T : 0..x \in SUBSET Nat /\ IsFiniteSet(0..x)
      BY FS_Interval
    <2> QED BY <2>1 DEF FiniteSubsetsOf
  <1>2. IsWellFoundedOn(R, FiniteSubsetsOf(Nat))
    BY FS_StrictSubsetOrderingWellFounded
  <1>3. PICK b \in Below : \A a \in Below : ~(<<a, b>> \in R)
    <2> HIDE DEF Below, R
    <2> QED BY <1>1, <1>2, WFMin
  <1>4. PICK x \in T : b = 0..x
    BY <1>3
  <1>5. \A y \in T : x <= y
    <2> SUFFICES ASSUME NEW y \in T, y < x PROVE FALSE
      OBVIOUS
    <2>1. 0..y \subseteq 0..x /\ x \in 0..x /\ x \notin 0..y
      OBVIOUS
    <2>2. <<0..y, b>> \in R
      BY <1>4, <2>1 DEF StrictSubsetOrdering
    <2> QED BY <1>3, <2>2
  <1> QED BY <1>5

\* Min finds it.
LEMMA MinIsLeast ==
  ASSUME NEW T, T \subseteq Nat, T # {}
  PROVE  Min(T) \in T /\ \A y \in T : Min(T) <= y
  BY LeastExists DEF Min

\* A nonempty set of numbers up to n has a greatest element.
LEMMA GreatestExists ==
  ASSUME NEW n \in Nat, NEW T, T \subseteq 1..n, T # {}
  PROVE  \E x \in T : \A y \in T : y <= x
  <1> DEFINE U == {n - x : x \in T}
  <1>1. U \subseteq Nat /\ U # {}
    <2>1. \A x \in T : n - x \in Nat
      OBVIOUS
    <2> QED BY <2>1
  <1>2. PICK u \in U : \A y \in U : u <= y
    BY <1>1, LeastExists
  <1>3. PICK x \in T : u = n - x
    BY <1>2
  <1>4. \A y \in T : y <= x
    <2> TAKE y \in T
    <2>1. n - y \in U
      OBVIOUS
    <2>2. u <= n - y
      BY <1>2, <2>1
    <2> QED BY <1>3, <2>2
  <1> QED BY <1>4
-----------------------------------------------------------------------------
(* URLs *)

\* Every service has a version.
LEMMA VersionTyped ==
  ASSUME NEW s \in Services
  PROVE  Version(s) \in Strings
  BY EndpointsAssumption, StringsAssumption DEF Version

\* Trimming leaves host and path.
LEMMA TrimKeeps ==
  ASSUME NEW u \in URLs
  PROVE  /\ Trim(u) \in URLs
         /\ Trim(u).host = u.host /\ Trim(u).path = u.path /\ ~Trim(u).slash
  BY DEF Trim, URLs

\* A version is added to the path or it is in the URL; nothing else changes.
LEMMA VersionEnsured ==
  ASSUME NEW u \in URLs, NEW v \in Strings
  PROVE  /\ EnsureVersionPath(u, v) \in URLs
         /\ EnsureVersionPath(u, v) # NoURL
         /\ EnsureVersionPath(u, v).host = u.host
         /\ EnsureVersionPath(u, v).slash = u.slash
         /\ HasVersion(u, v) => EnsureVersionPath(u, v) = u
         /\ ~HasVersion(u, v) => EnsureVersionPath(u, v).path = Append(u.path, v)
  <1>1. CASE HasVersion(u, v)
    <2>1. u.host # <<>> \/ u.path # <<>>
      BY <1>1 DEF HasVersion, ToSet, URLs
    <2> QED BY <1>1, <2>1 DEF EnsureVersionPath, NoURL
  <1>2. CASE ~HasVersion(u, v)
    <2>1. Append(u.path, v) \in Seq(Strings) /\ Append(u.path, v) # <<>>
      BY AppendProperties DEF URLs
    <2> QED BY <1>2, <2>1 DEF EnsureVersionPath, NoURL, URLs
  <1> QED BY <1>1, <1>2

\* The region is in the host.
LEMMA RegionInHost ==
  ASSUME NEW u, NEW w, u.host = w.host
  PROVE  ExtractRegion(u) = ExtractRegion(w)
  BY DEF ExtractRegion

\* A generated URL is one, with its version for a path.
LEMMA GeneratedURL ==
  ASSUME NEW s \in Services, NEW r \in Strings
  PROVE  /\ Generated(s, r) \in URLs
         /\ Generated(s, r) # NoURL
         /\ Generated(s, r).path = <<Version(s)>> /\ ~Generated(s, r).slash
  <1> DEFINE h == <<Label(s), r, "conoha", "io">>
  <1>1. Label(s) \in Strings
    BY EndpointsAssumption, StringsAssumption DEF Label
  <1>2. h \in Seq(Strings) /\ Len(h) = 4
    <2>1. "conoha" \in Strings /\ "io" \in Strings
      BY StringsAssumption
    <2>2. h \in Seq(Strings)
      BY <1>1, <2>1
    <2> QED BY <2>2
  <1>3. h # NotGiven /\ h # <<>>
    BY <1>2 DEF NotGiven
  <1>5. Generated(s, r) = [host |-> h, path |-> <<Version(s)>>, slash |-> FALSE]
    BY DEF Generated
  <1> HIDE DEF h
  <1>7. <<Version(s)>> \in Seq(Strings)
    BY VersionTyped
  <1> QED BY <1>2, <1>3, <1>5, <1>7 DEF URLs, NoURL

\* The first element of a sequence by itself.
LEMMA FirstAlone ==
  ASSUME NEW S, NEW p \in Seq(S), p # <<>>
  PROVE  SubSeq(p, 1, 1) = <<p[1]>>
  <1>1. Len(p) >= 1 /\ p[1] \in S
    OBVIOUS
  <1>2. /\ SubSeq(p, 1, 1) \in Seq(S) /\ Len(SubSeq(p, 1, 1)) = 1
        /\ SubSeq(p, 1, 1)[1] = p[1]
    BY <1>1, SubSeqProperties
  <1>3. <<p[1]>> \in Seq(S) /\ Len(<<p[1]>>) = 1 /\ <<p[1]>>[1] = p[1]
    BY <1>1
  <1>4. \A k \in 1..1 : k = 1
    OBVIOUS
  <1> QED BY <1>2, <1>3, <1>4, SeqEqual

\* Cutting a path leaves the host.
LEMMA UpToKeeps ==
  ASSUME NEW u \in URLs, NEW i \in Nat, i <= Len(u.path)
  PROVE  /\ UpTo(u, i) \in URLs
         /\ UpTo(u, i).host = u.host /\ UpTo(u, i).slash = u.slash
         /\ UpTo(u, i).path = SubSeq(u.path, 1, i)
         /\ Len(UpTo(u, i).path) = i
  <1>1. u.path \in Seq(Strings)
    BY DEF URLs
  <1>2. SubSeq(u.path, 1, i) \in Seq(Strings) /\ Len(SubSeq(u.path, 1, i)) = i
    BY <1>1, SubSeqProperties
  <1> QED BY <1>2 DEF UpTo, URLs

\* FirstIndex is the first index of a name, 0 if there is none.
LEMMA SegmentFound ==
  ASSUME NEW path \in Seq(Strings), NEW name
  PROVE  LET i == FirstIndex(path, name)
         IN \/ i = 0 /\ \A k \in DOMAIN path : path[k] # name
            \/ /\ i \in DOMAIN path /\ i > 0 /\ path[i] = name
               /\ \A k \in 1..(i - 1) : path[k] # name
  <1> DEFINE I == {k \in 1..Len(path) : path[k] = name}
  <1>1. FirstIndex(path, name) = IF I # {} THEN Min(I) ELSE 0
    BY DEF FirstIndex, SelectInSeq
  <1>2. CASE I = {}
    BY <1>1, <1>2
  <1>3. CASE I # {}
    <2>1. Min(I) \in I /\ \A k \in I : Min(I) <= k
      <3>1. I \subseteq Nat
        OBVIOUS
      <3> HIDE DEF I
      <3> QED BY <1>3, <3>1, MinIsLeast
    <2>2. Min(I) \in DOMAIN path /\ Min(I) > 0 /\ path[Min(I)] = name
      BY <2>1
    <2>3. \A k \in 1..(Min(I) - 1) : path[k] # name
      BY <2>1, <2>2
    <2> HIDE DEF I
    <2> QED BY <1>1, <1>3, <2>2, <2>3
  <1> QED BY <1>2, <1>3

\* A URL from the catalog keeps its host and is not empty.
LEMMA CatalogURLKeeps ==
  ASSUME NEW s \in Services, NEW u \in URLs
  PROVE  /\ CatalogURL(s, u) \in URLs
         /\ CatalogURL(s, u) # NoURL
         /\ CatalogURL(s, u).host = u.host
         /\ CatalogURL(s, u).slash = u.slash
  <1>1. CASE s = "block-storage"
    <2> DEFINE v == EnsureVersionPath(u, "v3")
               i == FirstIndex(v.path, "v3")
    <2>1. v \in URLs /\ v # NoURL /\ v.host = u.host /\ v.slash = u.slash
      BY VersionEnsured, StringsAssumption
    <2>2. v.path \in Seq(Strings)
      BY <2>1 DEF URLs
    <2>3. i = 0 \/ (i \in DOMAIN v.path /\ i > 0)
      BY <2>2, SegmentFound
    <2>4. CatalogURL(s, u) = IF i = 0 THEN v ELSE UpTo(v, i)
      BY <1>1 DEF CatalogURL
    <2> HIDE DEF v, i
    <2>5. CASE i = 0
      BY <2>1, <2>4, <2>5
    <2>6. CASE i # 0
      <3>1. i \in Nat /\ i <= Len(v.path) /\ i > 0
        BY <2>2, <2>3, <2>6
      <3>2. /\ UpTo(v, i) \in URLs /\ UpTo(v, i).host = v.host
            /\ UpTo(v, i).slash = v.slash /\ Len(UpTo(v, i).path) = i
        BY <2>1, <3>1, UpToKeeps
      <3>3. UpTo(v, i) # NoURL
        BY <3>1, <3>2 DEF NoURL
      <3> QED BY <2>1, <2>4, <2>6, <3>2, <3>3
    <2> QED BY <2>5, <2>6
  <1>2. CASE s = "object-store"
    <2> DEFINE i == FirstIndex(u.path, "AUTH")
               w == IF i = 0 THEN u ELSE UpTo(u, i - 1)
    <2>1. u.path \in Seq(Strings)
      BY DEF URLs
    <2>2. i = 0 \/ (i \in DOMAIN u.path /\ i > 0)
      BY <2>1, SegmentFound
    <2>3. CatalogURL(s, u) = EnsureVersionPath(w, "v1")
      BY <1>2 DEF CatalogURL
    <2> HIDE DEF i
    <2>4. w \in URLs /\ w.host = u.host /\ w.slash = u.slash
      <3>1. CASE i = 0
        BY <3>1
      <3>2. CASE i # 0
        <4>1. i - 1 \in Nat /\ i - 1 <= Len(u.path)
          BY <2>1, <2>2, <3>2
        <4> QED BY <3>2, <4>1, UpToKeeps
      <3> QED BY <3>1, <3>2
    <2> HIDE DEF w
    <2>5. "v1" \in Strings
      BY StringsAssumption
    <2> QED BY <2>3, <2>4, <2>5, VersionEnsured
  <1>3. CASE s \notin {"block-storage", "object-store"}
    <2>1. CatalogURL(s, u) = EnsureVersionPath(u, Version(s))
      BY <1>3 DEF CatalogURL
    <2> QED BY <2>1, VersionTyped, VersionEnsured
  <1> QED BY <1>1, <1>2, <1>3
-----------------------------------------------------------------------------
(* Catalogs *)

\* The places of the eligible endpoints that no eligible one precedes: at most one.
Firsts(endpoints) ==
  {j \in DOMAIN endpoints :
     Eligible(region, endpoints[j]) /\ \A k \in 1..(j - 1) : ~Eligible(region, endpoints[k])}

\* An entry has at most one first eligible endpoint.
LEMMA FirstIsOne ==
  ASSUME NEW endpoints \in Seq(CatalogEndpoints),
         NEW j \in Firsts(endpoints), NEW k \in Firsts(endpoints)
  PROVE  j = k
  <1>1. j \in 1..Len(endpoints) /\ k \in 1..Len(endpoints)
    BY DEF Firsts
  <1>2. ~(j < k) /\ ~(k < j)
    BY <1>1 DEF Firsts
  <1> QED BY <1>1, <1>2

\* PublicURL is the URL at that place.
LEMMA PublicURLFound ==
  ASSUME NEW endpoints \in Seq(CatalogEndpoints)
  PROVE  /\ Firsts(endpoints) = {} => PublicURL(endpoints) = NoURL
         /\ \A j \in Firsts(endpoints) : PublicURL(endpoints) = Trim(endpoints[j].url)
  <1> DEFINE I == {k \in 1..Len(endpoints) : Eligible(region, endpoints[k])}
             i == IF I # {} THEN Min(I) ELSE 0
  <1>1. PublicURL(endpoints) = IF i = 0 THEN NoURL ELSE Trim(endpoints[i].url)
    BY DEF PublicURL, SelectInSeq
  <1>2. CASE I = {}
    <2>1. Firsts(endpoints) = {}
      BY <1>2 DEF Firsts
    <2> QED BY <1>1, <1>2, <2>1
  <1>3. CASE I # {}
    <2>1. Min(I) \in I /\ \A k \in I : Min(I) <= k
      <3>1. I \subseteq Nat
        OBVIOUS
      <3> HIDE DEF I
      <3> QED BY <1>3, <3>1, MinIsLeast
    <2>2. Min(I) \in DOMAIN endpoints /\ Min(I) > 0 /\ Eligible(region, endpoints[Min(I)])
      BY <2>1
    <2>3. \A k \in 1..(Min(I) - 1) : ~Eligible(region, endpoints[k])
      BY <2>1, <2>2
    <2>4. Min(I) \in Firsts(endpoints)
      BY <2>2, <2>3 DEF Firsts
    <2> HIDE DEF I
    <2>5. PublicURL(endpoints) = Trim(endpoints[Min(I)].url)
      BY <1>1, <1>3, <2>2
    <2> QED BY <2>4, <2>5, FirstIsOne
  <1> QED BY <1>2, <1>3

\* A URL that is taken from an entry is one that the entry advertises, eligible.
LEMMA PublicURLAdvertised ==
  ASSUME NEW entry \in Entries, PublicURL(entry.endpoints) # NoURL
  PROVE  \E endpoint \in Advertised(entry) :
           /\ Eligible(region, endpoint)
           /\ endpoint.url \in URLs
           /\ PublicURL(entry.endpoints) = Trim(endpoint.url)
  <1>1. entry.endpoints \in Seq(CatalogEndpoints)
    BY CatalogsAssumption
  <1>2. PICK j \in Firsts(entry.endpoints) : TRUE
    BY <1>1, PublicURLFound
  <1> DEFINE endpoint == entry.endpoints[j]
  <1>3. PublicURL(entry.endpoints) = Trim(endpoint.url)
    BY <1>1, <1>2, PublicURLFound
  <1>4. j \in DOMAIN entry.endpoints /\ Eligible(region, endpoint)
    BY <1>2 DEF Firsts
  <1>5. endpoint \in CatalogEndpoints
    BY <1>1, <1>4
  <1>6. endpoint \in Advertised(entry)
    BY <1>3, <1>4 DEF Advertised, Eligible, ToSet
  <1> QED BY <1>3, <1>4, <1>5, <1>6 DEF CatalogEndpoints

\* What a catalog offers is what PublicURL finds in its entries.
LEMMA OffersFound ==
  ASSUME NEW catalog \in Seq(Entries), NEW s, NEW i \in DOMAIN catalog
  PROVE  i \in Offers(region, catalog, s) <=>
           ServiceOf(catalog[i].type) = s /\ PublicURL(catalog[i].endpoints) # NoURL
  <1> DEFINE endpoints == catalog[i].endpoints
  <1>1. endpoints \in Seq(CatalogEndpoints)
    BY CatalogsAssumption
  <1>2. i \in Offers(region, catalog, s) <=>
          /\ ServiceOf(catalog[i].type) = s
          /\ \E j \in Firsts(endpoints) : Trim(endpoints[j].url) # NoURL
    BY DEF Offers, Firsts
  <1> HIDE DEF endpoints
  <1>3. (\E j \in Firsts(endpoints) : Trim(endpoints[j].url) # NoURL)
          <=> PublicURL(endpoints) # NoURL
    BY <1>1, PublicURLFound
  <1> QED BY <1>2, <1>3 DEF endpoints

\* The last offer is the one that counts.
LEMMA LastOffered ==
  ASSUME NEW catalog \in Seq(Entries), NEW s,
         NEW i \in Offers(region, catalog, s), \A k \in Offers(region, catalog, s) : k <= i
  PROVE  Offered(region, catalog, s) = PublicURL(catalog[i].endpoints).host
  <1> DEFINE endpoints == catalog[i].endpoints
             Final(m) == m \in Offers(region, catalog, s) /\ \A k \in Offers(region, catalog, s) : k <= m
  <1>1. \A m : Final(m) => m = i
    BY DEF Offers
  <1>2. (CHOOSE m \in Offers(region, catalog, s) : \A k \in Offers(region, catalog, s) : k <= m) = i
    BY <1>1
  <1>3. i \in DOMAIN catalog /\ endpoints \in Seq(CatalogEndpoints)
    BY CatalogsAssumption DEF Offers
  <1>4. PICK j \in Firsts(endpoints) : TRUE
    BY DEF Offers, Firsts
  <1>5. (CHOOSE j0 \in DOMAIN endpoints :
           Eligible(region, endpoints[j0]) /\ \A k \in 1..(j0 - 1) : ~Eligible(region, endpoints[k])) = j
    <2>1. \A j0 \in DOMAIN endpoints :
            (Eligible(region, endpoints[j0]) /\ \A k \in 1..(j0 - 1) : ~Eligible(region, endpoints[k]))
              <=> j0 \in Firsts(endpoints)
      BY DEF Firsts
    <2>2. \A j0 \in Firsts(endpoints) : j0 = j
      BY <1>3, <1>4, FirstIsOne
    <2>3. j \in DOMAIN endpoints
      BY <1>4 DEF Firsts
    <2> HIDE DEF endpoints
    <2> QED BY <1>4, <2>1, <2>2, <2>3
  <1>6. Offered(region, catalog, s) = endpoints[j].url.host
    BY <1>2, <1>5 DEF Offered
  <1>7. endpoints[j].url \in URLs
    <2>1. j \in DOMAIN endpoints
      BY <1>4 DEF Firsts
    <2>2. endpoints[j] \in CatalogEndpoints
      BY <1>3, <2>1
    <2> QED BY <2>2 DEF CatalogEndpoints
  <1> QED BY <1>3, <1>4, <1>6, <1>7, PublicURLFound, TrimKeeps

\* There is a last offer if there is any.
LEMMA LastOfferExists ==
  ASSUME NEW catalog \in Seq(Entries), NEW s, Offers(region, catalog, s) # {}
  PROVE  \E i \in Offers(region, catalog, s) : \A k \in Offers(region, catalog, s) : k <= i
  <1>1. Len(catalog) \in Nat /\ Offers(region, catalog, s) \subseteq 1..Len(catalog)
    BY DEF Offers
  <1> QED BY <1>1, GreatestExists

\* The offers of what is left of a catalog after its head.
LEMMA OffersOfTail ==
  ASSUME NEW catalog \in Seq(Entries), catalog # <<>>, NEW s
  PROVE  /\ Tail(catalog) \in Seq(Entries)
         /\ \A i \in Offers(region, Tail(catalog), s) : i + 1 \in Offers(region, catalog, s)
         /\ \A i \in Offers(region, catalog, s) : i = 1 \/ i - 1 \in Offers(region, Tail(catalog), s)
         /\ 1 \in Offers(region, catalog, s) <=>
              /\ ServiceOf(Head(catalog).type) = s
              /\ PublicURL(Head(catalog).endpoints) # NoURL
  <1>1. /\ Tail(catalog) \in Seq(Entries) /\ Len(Tail(catalog)) = Len(catalog) - 1
        /\ \A i \in 1..Len(Tail(catalog)) : Tail(catalog)[i] = catalog[i + 1]
        /\ Head(catalog) = catalog[1] /\ Len(catalog) \in Nat \ {0}
    BY HeadTailProperties
  <1>2. ASSUME NEW i \in Offers(region, Tail(catalog), s)
        PROVE  i + 1 \in Offers(region, catalog, s)
    <2>1. i \in 1..Len(Tail(catalog))
      BY <1>1, <1>2 DEF Offers
    <2>2. i \in DOMAIN Tail(catalog) /\ i + 1 \in DOMAIN catalog
      BY <1>1, <2>1
    <2>3. /\ ServiceOf(Tail(catalog)[i].type) = s
          /\ PublicURL(Tail(catalog)[i].endpoints) # NoURL
      BY <1>1, <1>2, <2>2, OffersFound
    <2>4. Tail(catalog)[i] = catalog[i + 1]
      BY <1>1, <2>1
    <2> QED BY <2>2, <2>3, <2>4, OffersFound
  <1>3. ASSUME NEW i \in Offers(region, catalog, s), i # 1
        PROVE  i - 1 \in Offers(region, Tail(catalog), s)
    <2>1. i \in DOMAIN catalog /\ i - 1 \in 1..Len(Tail(catalog))
      BY <1>1, <1>3 DEF Offers
    <2>2. i - 1 \in DOMAIN Tail(catalog)
      BY <1>1, <2>1
    <2>3. Tail(catalog)[i - 1] = catalog[i]
      <3>1. i - 1 + 1 = i
        BY <1>1, <2>1
      <3> QED BY <1>1, <2>1, <3>1
    <2>4. ServiceOf(catalog[i].type) = s /\ PublicURL(catalog[i].endpoints) # NoURL
      BY <1>3, <2>1, OffersFound
    <2> QED BY <1>1, <2>2, <2>3, <2>4, OffersFound
  <1>4. 1 \in DOMAIN catalog
    BY <1>1
  <1> QED BY <1>1, <1>2, <1>3, <1>4, OffersFound

\* Its last offer is the catalog's, unless that was the head.
LEMMA OfferedByTail ==
  ASSUME NEW catalog \in Seq(Entries), catalog # <<>>, NEW s
  PROVE  /\ Offers(region, Tail(catalog), s) # {} =>
               /\ Offers(region, catalog, s) # {}
               /\ Offered(region, Tail(catalog), s) = Offered(region, catalog, s)
         /\ Offers(region, Tail(catalog), s) = {} /\ Offers(region, catalog, s) # {} =>
               /\ ServiceOf(Head(catalog).type) = s
               /\ PublicURL(Head(catalog).endpoints) # NoURL
               /\ Offered(region, catalog, s) = PublicURL(Head(catalog).endpoints).host
  <1>1. Tail(catalog) \in Seq(Entries) /\ Head(catalog) = catalog[1]
    BY HeadTailProperties
  <1>2. ASSUME Offers(region, Tail(catalog), s) # {}
        PROVE  Offers(region, catalog, s) # {} /\ Offered(region, Tail(catalog), s) = Offered(region, catalog, s)
    <2>1. PICK i \in Offers(region, Tail(catalog), s) : \A k \in Offers(region, Tail(catalog), s) : k <= i
      BY <1>1, <1>2, LastOfferExists
    <2>2. i \in 1..Len(Tail(catalog)) /\ Tail(catalog)[i] = catalog[i + 1]
      <3>1. i \in 1..Len(Tail(catalog))
        BY <1>1, <2>1 DEF Offers
      <3> QED BY <3>1, HeadTailProperties
    <2>3. i + 1 \in Offers(region, catalog, s)
      BY <2>1, OffersOfTail
    <2>4. \A k \in Offers(region, catalog, s) : k <= i + 1
      <3> SUFFICES ASSUME NEW k \in Offers(region, catalog, s) PROVE k <= i + 1
        OBVIOUS
      <3>1. k \in 1..Len(catalog)
        BY DEF Offers
      <3>2. k = 1 \/ k - 1 <= i
        BY <2>1, OffersOfTail
      <3> QED BY <2>2, <3>1, <3>2
    <2>5. Offered(region, catalog, s) = PublicURL(catalog[i + 1].endpoints).host
      BY <2>3, <2>4, LastOffered
    <2>6. Offered(region, Tail(catalog), s) = PublicURL(Tail(catalog)[i].endpoints).host
      BY <1>1, <2>1, LastOffered
    <2> QED BY <2>2, <2>3, <2>5, <2>6
  <1>3. ASSUME Offers(region, Tail(catalog), s) = {}, Offers(region, catalog, s) # {}
        PROVE  /\ ServiceOf(Head(catalog).type) = s
               /\ PublicURL(Head(catalog).endpoints) # NoURL
               /\ Offered(region, catalog, s) = PublicURL(Head(catalog).endpoints).host
    <2>1. \A k \in Offers(region, catalog, s) : k = 1
      BY <1>3, OffersOfTail
    <2>2. 1 \in Offers(region, catalog, s) /\ \A k \in Offers(region, catalog, s) : k <= 1
      BY <1>3, <2>1
    <2> QED BY <1>1, <2>2, LastOffered, OffersOfTail
  <1> QED BY <1>2, <1>3

\* Whatever path a catalog gives, the one that is left is the version.
LEMMA CatalogPath ==
  ASSUME NEW entry \in Entries, NEW endpoint \in Advertised(entry),
         endpoint.url \in URLs, ServiceOf(entry.type) \in Services
  PROVE  LET s == ServiceOf(entry.type)
         IN CatalogURL(s, Trim(endpoint.url)).path = <<Version(s)>>
  <1> DEFINE s == ServiceOf(entry.type)
             u == Trim(endpoint.url)
             versions == {"v1", "v2", "v2.0", "v2.1", "v3"}
  <1>1. u \in URLs /\ u.host = endpoint.url.host /\ u.path = endpoint.url.path
    BY TrimKeeps
  <1>2. u.path \in Seq(Strings) /\ u.host \in Seq(Strings)
    BY <1>1 DEF URLs
  <1>3. u.host # <<>> => u.host[1] \notin versions
    BY <1>1, PathsAssumption
  <1>4. \A w \in URLs, v \in versions :
          w.host = u.host =>
            /\ v \in ToSet(w.path) => HasVersion(w, v)
            /\ w.path = <<>> => ~HasVersion(w, v)
    <2> SUFFICES ASSUME NEW w \in URLs, NEW v \in versions, w.host = u.host
                 PROVE  /\ v \in ToSet(w.path) => HasVersion(w, v)
                        /\ w.path = <<>> => ~HasVersion(w, v)
      OBVIOUS
    <2>1. v \in ToSet(w.path) => HasVersion(w, v)
      BY DEF HasVersion
    <2>2. ASSUME w.path = <<>> PROVE ~HasVersion(w, v)
      <3>1. ToSet(w.path) = {}
        BY <2>2 DEF ToSet
      <3>2. \A i \in DOMAIN w.host \cap {1} : w.host[i] \notin versions
        BY <1>2, <1>3
      <3> QED BY <3>1, <3>2 DEF HasVersion
    <2> QED BY <2>1, <2>2
  <1>5. CASE s = "block-storage"
    <2> DEFINE v == EnsureVersionPath(u, "v3")
               i == FirstIndex(v.path, "v3")
    <2>1. "v3" \in Strings
      BY StringsAssumption
    <2>2. v \in URLs /\ v.path \in Seq(Strings)
      BY <1>1, <2>1, VersionEnsured DEF URLs
    <2>3. u.path # <<>> => u.path[1] = "v3"
      BY <1>1, <1>5, PathsAssumption
    <2>4. v.path # <<>> /\ v.path[1] = "v3"
      <3>1. CASE u.path = <<>>
        <4>1. v.path = Append(<<>>, "v3")
          BY <1>1, <1>4, <2>1, <3>1, VersionEnsured
        <4> QED BY <4>1
      <3>2. CASE u.path # <<>>
        <4>1. 1 \in DOMAIN u.path
          BY <1>2, <3>2
        <4>2. "v3" \in ToSet(u.path)
          BY <2>3, <3>2, <4>1 DEF ToSet
        <4>3. v = u
          BY <1>1, <1>4, <2>1, <4>2, VersionEnsured
        <4> QED BY <2>3, <3>2, <4>3
      <3> QED BY <3>1, <3>2
    <2> HIDE DEF v
    <2>5. i = 1
      <3>1. 1 \in DOMAIN v.path
        BY <2>2, <2>4
      <3>2. \/ i = 0 /\ \A k \in DOMAIN v.path : v.path[k] # "v3"
            \/ /\ i \in DOMAIN v.path /\ i > 0 /\ v.path[i] = "v3"
               /\ \A k \in 1..(i - 1) : v.path[k] # "v3"
        BY <2>2, SegmentFound
      <3> HIDE DEF i
      <3>3. i \in DOMAIN v.path /\ i > 0 /\ \A k \in 1..(i - 1) : v.path[k] # "v3"
        BY <2>4, <3>1, <3>2
      <3>4. ~(i > 1)
        BY <2>2, <2>4, <3>3
      <3> QED BY <2>2, <3>3, <3>4
    <2>6. CatalogURL(s, u) = UpTo(v, 1)
      BY <1>5, <2>5 DEF CatalogURL, v
    <2>7. UpTo(v, 1).path = SubSeq(v.path, 1, 1)
      BY <2>2 DEF UpTo, URLs
    <2>8. SubSeq(v.path, 1, 1) = <<v.path[1]>>
      BY <2>2, <2>4, FirstAlone
    <2> QED BY <1>5, <2>4, <2>6, <2>7, <2>8 DEF Version
  <1>6. CASE s = "object-store"
    <2> DEFINE i == FirstIndex(u.path, "AUTH")
               w == IF i = 0 THEN u ELSE UpTo(u, i - 1)
    <2>1. "v1" \in Strings
      BY StringsAssumption
    <2>2. \/ u.path \in {<<>>, <<"v1">>}
          \/ Len(u.path) >= 1 /\ u.path[1] = "AUTH"
          \/ Len(u.path) >= 2 /\ u.path[1] = "v1" /\ u.path[2] = "AUTH"
      BY <1>1, <1>6, PathsAssumption
    <2>3. \/ i = 0 /\ \A k \in DOMAIN u.path : u.path[k] # "AUTH"
          \/ /\ i \in DOMAIN u.path /\ i > 0 /\ u.path[i] = "AUTH"
             /\ \A k \in 1..(i - 1) : u.path[k] # "AUTH"
      BY <1>2, SegmentFound
    <2>4. CatalogURL(s, u) = EnsureVersionPath(w, "v1")
      BY <1>6 DEF CatalogURL
    <2> HIDE DEF i
    <2>5. w \in URLs /\ w.host = u.host /\ w.path \in {<<>>, <<"v1">>}
      <3>1. CASE i = 0
        <4>1. u.path # <<>> => u.path[1] # "AUTH"
          BY <1>2, <2>3, <3>1
        <4>2. ~(Len(u.path) >= 2 /\ u.path[2] = "AUTH")
          BY <1>2, <2>3, <3>1
        <4> QED BY <1>1, <2>2, <3>1, <4>1, <4>2
      <3>2. CASE i # 0
        <4>1. i \in Nat \ {0} /\ i <= Len(u.path) /\ u.path # <<>>
          BY <1>2, <2>3, <3>2
        <4>2. u.path # <<"v1">>
          BY <2>3, <3>2
        <4>3. \/ i = 1
              \/ i = 2 /\ u.path[1] = "v1"
          BY <1>2, <2>2, <2>3, <3>2, <4>1, <4>2
        <4>4. i - 1 \in Nat /\ i - 1 <= Len(u.path)
          BY <1>2, <4>1
        <4>5. w \in URLs /\ w.host = u.host /\ w.path = SubSeq(u.path, 1, i - 1)
          BY <1>1, <3>2, <4>4, UpToKeeps
        <4>6. i = 2 => SubSeq(u.path, 1, i - 1) = <<u.path[1]>>
          BY <1>2, <4>1, FirstAlone
        <4>7. i = 1 => SubSeq(u.path, 1, i - 1) = <<>>
          BY <1>2, <4>1, SubSeqEmpty
        <4> QED BY <4>3, <4>5, <4>6, <4>7
      <3> QED BY <3>1, <3>2
    <2> HIDE DEF w
    <2>6. EnsureVersionPath(w, "v1").path = <<"v1">>
      <3>1. CASE w.path = <<>>
        <4>1. EnsureVersionPath(w, "v1").path = Append(<<>>, "v1")
          BY <1>4, <2>1, <2>5, <3>1, VersionEnsured
        <4> QED BY <4>1
      <3>2. CASE w.path = <<"v1">>
        <4>1. "v1" \in ToSet(w.path)
          BY <3>2 DEF ToSet
        <4> QED BY <1>4, <2>1, <2>5, <3>2, <4>1, VersionEnsured
      <3> QED BY <2>5, <3>1, <3>2
    <2> QED BY <1>6, <2>4, <2>6 DEF Version
  <1>7. CASE s \notin {"block-storage", "object-store"}
    <2>1. u.path \in {<<>>, <<Version(s)>>}
      BY <1>1, <1>7, PathsAssumption
    <2>2. CatalogURL(s, u) = EnsureVersionPath(u, Version(s))
      BY <1>7 DEF CatalogURL
    <2>3. Version(s) \in Strings /\ Version(s) \in versions
      BY EndpointsAssumption, VersionTyped DEF Version
    <2>4. CASE u.path = <<>>
      <3>1. EnsureVersionPath(u, Version(s)).path = Append(<<>>, Version(s))
        BY <1>1, <1>4, <2>3, <2>4, VersionEnsured
      <3> QED BY <2>2, <3>1
    <2>5. CASE u.path = <<Version(s)>>
      <3>1. Version(s) \in ToSet(u.path)
        BY <2>5 DEF ToSet
      <3> QED BY <1>1, <1>4, <2>2, <2>3, <2>5, <3>1, VersionEnsured
    <2> QED BY <2>1, <2>4, <2>5
  <1> QED BY <1>5, <1>6, <1>7

\* A public endpoint for the client's region names its host.
LEMMA EligibleNamed ==
  ASSUME NEW entries, NEW entry \in entries, NEW endpoint \in Advertised(entry),
         Eligible(region, endpoint)
  PROVE  endpoint.url.host \in NamedHosts(entries, region, ServiceOf(entry.type))
  <1> DEFINE s == ServiceOf(entry.type)
             endpoints == UNION {ToSet(e.endpoints) : e \in {e \in entries : ServiceOf(e.type) = s}}
  <1>1. endpoint \in endpoints
    BY DEF Advertised
  <1>2. /\ endpoint.interface = "public"
        /\ region = "" \/ endpoint.region = region \/ endpoint.regionID = region
    BY DEF Eligible
  <1> QED BY <1>1, <1>2 DEF NamedHosts

\* What more entries name, they name too.
LEMMA NamedByMore ==
  ASSUME NEW A, NEW B, A \subseteq B, NEW r, NEW s
  PROVE  NamedHosts(A, r, s) \subseteq NamedHosts(B, r, s)
  BY DEF NamedHosts

\* What a catalog offers is a host, and one that it names for the client's region.
LEMMA OfferedHost ==
  ASSUME NEW catalog \in Seq(Entries), NEW s, Offers(region, catalog, s) # {}
  PROVE  /\ Offered(region, catalog, s) \in Seq(Strings) \ {NotGiven}
         /\ Offered(region, catalog, s) \in NamedHosts(ToSet(catalog), region, s)
  <1>1. PICK i \in Offers(region, catalog, s) : \A k \in Offers(region, catalog, s) : k <= i
    BY LastOfferExists
  <1> DEFINE entry == catalog[i]
  <1>2. /\ entry \in Entries /\ entry \in ToSet(catalog)
        /\ PublicURL(entry.endpoints) # NoURL /\ ServiceOf(entry.type) = s
    <2>1. i \in DOMAIN catalog
      BY <1>1 DEF Offers
    <2> QED BY <1>1, <2>1, OffersFound DEF ToSet
  <1>3. Offered(region, catalog, s) = PublicURL(entry.endpoints).host
    BY <1>1, LastOffered
  <1> HIDE DEF entry
  <1>4. PICK endpoint \in Advertised(entry) :
          /\ Eligible(region, endpoint) /\ endpoint.url \in URLs
          /\ PublicURL(entry.endpoints) = Trim(endpoint.url)
    BY <1>2, PublicURLAdvertised
  <1>5. /\ Offered(region, catalog, s) = endpoint.url.host
        /\ endpoint.url.host \in Seq(Strings) \ {NotGiven}
    BY <1>3, <1>4, TrimKeeps DEF URLs
  <1>6. endpoint.url.host \in NamedHosts(ToSet(catalog), region, s)
    BY <1>2, <1>4, EligibleNamed
  <1> QED BY <1>5, <1>6

\* A sequence is one of its own elements.
LEMMA SeqOfItself ==
  ASSUME NEW S, NEW q \in Seq(S), NEW T, ToSet(q) \subseteq T
  PROVE  q \in Seq(T)
  <1>1. PICK n \in Nat : q \in [1..n -> S]
    BY SeqDef
  <1>2. q \in [1..n -> T]
    BY <1>1 DEF ToSet
  <1> QED BY <1>2, SeqDef
-----------------------------------------------------------------------------
(* The invariant *)

\* The history of the options is right.
GivenInv ==
  \A s \in Services :
    given[s] = IF s \in explicit THEN urls[s].host ELSE NotGiven

\* Inside NewClient nothing is set but by an option.
UnsetInv ==
  phase = "options" =>
    \A s \in Services : found[s] = NotGiven /\ (s \notin explicit => urls[s] = NoURL)

Latest(s) == IF found[s] # NotGiven THEN found[s] ELSE Generated(s, region).host

\* What the rest of the catalog has no offer for is as it will be; the offer that is
\* to come is the one that counts.
CatalogInv ==
  phase # "options" =>
    \A s \in Services \ explicit :
      IF Offers(region, pending, s) = {} THEN urls[s].host = Latest(s)
      ELSE found[s] = Offered(region, pending, s)

\* What is still to be installed has been heard.
HeardInv == pending \in Seq(heard)

\* RegionAgreement and RootedURLs also hold in the middle of a login.
RegionInv ==
  phase # "options" =>
    /\ \A s \in Services \ explicit :
         urls[s].host \in {Generated(s, region).host} \cup NamedHosts(heard, region, s)
    /\ ~explicitRegion /\ "identity" \in explicit =>
         ExtractRegion(urls["identity"]) \in {"", region}

PathInv ==
  phase # "options" =>
    \A s \in Services :
      /\ ~urls[s].slash
      /\ s \notin explicit => urls[s].path = <<Version(s)>>

IInv == TypeOK /\ GivenInv /\ UnsetInv /\ CatalogInv /\ HeardInv /\ RegionInv /\ PathInv

\* The invariant holds at first.
LEMMA InitInv == Init => IInv
  <1> SUFFICES ASSUME Init PROVE IInv
    OBVIOUS
  <1> USE DEF Init
  <1>1. NoURL \in URLs
    <2>1. Len(<<>>) = 0 /\ Len(NotGiven) = 1
      BY DEF NotGiven
    <2>2. <<>> # NotGiven
      BY <2>1
    <2> QED BY <2>2 DEF NoURL, URLs
  <1>2. TypeOK
    <2>1. region \in Strings
      BY EndpointsAssumption
    <2>2. urls \in [Services -> URLs]
      BY <1>1
    <2>3. /\ given \in [Services -> Seq(Strings) \cup {NotGiven}]
          /\ found \in [Services -> Seq(Strings) \cup {NotGiven}]
      OBVIOUS
    <2>4. pending \in Seq(Entries)
      OBVIOUS
    <2> QED BY <2>1, <2>2, <2>3, <2>4 DEF TypeOK
  <1> QED BY <1>2 DEF IInv, GivenInv, UnsetInv, CatalogInv, HeardInv, RegionInv, PathInv

\* An option keeps it.
LEMMA OptionStep ==
  ASSUME IInv, ApplyOption
  PROVE  IInv'
  <1> USE DEF IInv
  <1>1. PICK o \in Options :
          \/ o.kind = "region" /\ WithRegion(o.region)
          \/ o.kind = "url" /\ WithURL(o.svc, o.url)
          \/ o.kind = "endpoints" /\ WithEndpoints(o.urls)
    BY DEF ApplyOption
  <1>2. /\ phase = "options" /\ phase' = phase /\ pending' = pending
        /\ UNCHANGED <<found, heard>>
    BY DEF ApplyOption
  <1>3. TypeOK' /\ GivenInv' /\ UnsetInv'
    <2>1. CASE o.kind = "region" /\ WithRegion(o.region)
      <3>1. o.region \in Strings
        BY <2>1, OptionsAssumption
      <3> QED BY <1>2, <2>1, <3>1 DEF WithRegion, TypeOK, GivenInv, UnsetInv
    <2>2. CASE o.kind = "url" /\ WithURL(o.svc, o.url)
      <3>1. o.svc \in Services /\ o.url \in URLs /\ o.url.host \in Seq(Strings)
        BY <2>2, OptionsAssumption DEF URLs
      <3> QED BY <1>2, <2>2, <3>1 DEF WithURL, TypeOK, GivenInv, UnsetInv
    <2>3. CASE o.kind = "endpoints" /\ WithEndpoints(o.urls)
      <3>1. o.urls \in [Services -> URLs]
        BY <2>3, OptionsAssumption
      <3>2. \A s \in Services : o.urls[s] \in URLs /\ o.urls[s].host \in Seq(Strings)
        BY <3>1 DEF URLs
      <3> QED BY <1>2, <2>3, <3>2 DEF WithEndpoints, TypeOK, GivenInv, UnsetInv
    <2> QED BY <1>1, <2>1, <2>2, <2>3, OptionsAssumption
  <1> QED BY <1>2, <1>3 DEF CatalogInv, HeardInv, RegionInv, PathInv

\* The region that NewClient decides on is a string.
LEMMA RegionTyped ==
  ASSUME TypeOK
  PROVE  InferredRegion \in Strings
  <1>1. urls["identity"] \in URLs
    BY EndpointsAssumption DEF TypeOK
  <1>2. ExtractRegion(urls["identity"]) # "" => ExtractRegion(urls["identity"]) \in Strings
    <2>1. urls["identity"].host \in Seq(Strings)
      BY <1>1 DEF URLs
    <2>2. Len(urls["identity"].host) >= 4 => urls["identity"].host[2] \in Strings
      BY <2>1
    <2> QED BY <2>2 DEF ExtractRegion
  <1> QED BY <1>2 DEF InferredRegion, TypeOK

\* What NewClient makes of a URL.
LEMMA FilledURL ==
  ASSUME TypeOK, UnsetInv, phase = "options", NEW s \in Services, NEW r \in Strings
  PROVE  /\ Filled(s, r) \in URLs /\ Filled(s, r) # NoURL /\ ~Filled(s, r).slash
         /\ s \in explicit => Filled(s, r).host = urls[s].host
         /\ s \notin explicit => Filled(s, r) = Generated(s, r)
  <1>1. CASE s \in explicit
    <2>1. urls[s] \in URLs
      BY DEF TypeOK
    <2> QED BY <1>1, <2>1, TrimKeeps, VersionTyped, VersionEnsured DEF Filled, Normalized
  <1>2. CASE s \notin explicit
    <2>1. Filled(s, r) = Generated(s, r)
      BY <1>2 DEF Filled, UnsetInv
    <2> QED BY <1>2, <2>1, GeneratedURL
  <1> QED BY <1>1, <1>2

\* The rest of NewClient establishes what the invariant says of a client.
LEMMA BuildStep ==
  ASSUME IInv, Build
  PROVE  IInv'
  <1> USE DEF IInv
  <1> DEFINE r == InferredRegion
  <1>1. /\ phase = "options" /\ phase' = "ready" /\ pending' = pending /\ pending = <<>>
        /\ region' = r /\ urls' = [s \in Services |-> Filled(s, r)]
        /\ UNCHANGED <<explicit, explicitRegion, given, found, heard>>
    BY DEF Build, TypeOK
  <1>2. r \in Strings
    BY RegionTyped
  <1> HIDE DEF r
  <1>3. \A s \in Services :
          /\ urls'[s] \in URLs /\ urls'[s] # NoURL /\ ~urls'[s].slash
          /\ s \in explicit => urls'[s].host = urls[s].host
          /\ s \notin explicit => urls'[s] = Generated(s, r)
    BY <1>1, <1>2, FilledURL
  <1>4. TypeOK'
    BY <1>1, <1>2, <1>3 DEF TypeOK
  <1>5. GivenInv' /\ UnsetInv'
    BY <1>1, <1>3 DEF GivenInv, UnsetInv
  <1>6. CatalogInv'
    <2> SUFFICES ASSUME NEW s \in Services \ explicit
                 PROVE  /\ Offers(r, <<>>, s) = {}
                        /\ urls'[s].host = IF found[s] # NotGiven THEN found[s]
                                           ELSE Generated(s, r).host
      BY <1>1 DEF CatalogInv, Latest
    <2>1. Offers(r, <<>>, s) = {}
      BY DEF Offers
    <2> QED BY <1>1, <1>3, <2>1 DEF UnsetInv
  <1>7. ASSUME ~explicitRegion, "identity" \in explicit
        PROVE  ExtractRegion(urls'["identity"]) \in {"", r}
    <2>1. ExtractRegion(urls["identity"]) \in {"", r}
      BY <1>7 DEF r, InferredRegion
    <2>2. urls'["identity"].host = urls["identity"].host
      BY <1>3, <1>7, EndpointsAssumption
    <2> QED BY <2>1, <2>2, RegionInHost
  <1>8. RegionInv' /\ PathInv' /\ HeardInv'
    BY <1>1, <1>2, <1>3, <1>7, GeneratedURL DEF RegionInv, PathInv, HeardInv
  <1> QED BY <1>4, <1>5, <1>6, <1>8

\* A login takes its catalog; nothing is installed yet.
LEMMA LoginStep ==
  ASSUME IInv, Login
  PROVE  IInv'
  <1> USE DEF IInv
  <1>1. PICK catalog \in Catalogs :
          /\ pending' = catalog
          /\ found' = [s \in Services |->
                         IF Offers(region, catalog, s) = {} THEN found[s]
                         ELSE Offered(region, catalog, s)]
          /\ heard' = heard \cup ToSet(catalog)
    BY DEF Login
  <1>2. /\ phase = "ready" /\ phase' = "installing" /\ pending = <<>>
        /\ UNCHANGED <<urls, region, explicit, explicitRegion, given>>
    BY DEF Login, TypeOK
  <1>3. catalog \in Seq(Entries)
    BY CatalogsAssumption
  <1>4. \A s \in Services :
          Offers(region, catalog, s) # {} => Offered(region, catalog, s) \in Seq(Strings)
    BY <1>3, OfferedHost
  <1>5. TypeOK'
    <2>1. ToSet(catalog) \subseteq Entries
      BY <1>3 DEF ToSet
    <2> QED BY <1>1, <1>2, <1>3, <1>4, <2>1 DEF TypeOK
  <1>6. CatalogInv'
    <2> SUFFICES ASSUME NEW s \in Services \ explicit
                 PROVE  IF Offers(region, catalog, s) = {}
                          THEN urls[s].host = IF found'[s] # NotGiven THEN found'[s]
                                              ELSE Generated(s, region).host
                          ELSE found'[s] = Offered(region, catalog, s)
      BY <1>1, <1>2 DEF CatalogInv, Latest
    <2>1. Offers(region, pending, s) = {}
      BY <1>2 DEF Offers
    <2> QED BY <1>1, <1>2, <2>1 DEF CatalogInv, Latest
  <1>7. RegionInv' /\ HeardInv'
    <2>1. \A s \in Services : NamedHosts(heard, region, s) \subseteq NamedHosts(heard', region, s)
      BY <1>1, NamedByMore
    <2>2. pending' \in Seq(heard')
      BY <1>1, <1>3, SeqOfItself
    <2> QED BY <1>2, <2>1, <2>2 DEF RegionInv, HeardInv
  <1> QED BY <1>2, <1>5, <1>6, <1>7 DEF GivenInv, UnsetInv, PathInv

\* A turn of the loop settles the entry's service, if this was its last offer.
LEMMA DiscoverStep ==
  ASSUME IInv, Discover
  PROVE  IInv'
  <1> USE DEF IInv
  <1> DEFINE entry == Head(pending)
             t == ServiceOf(entry.type)
             u == PublicURL(entry.endpoints)
  <1>1. /\ phase = "installing" /\ pending # <<>> /\ pending' = Tail(pending)
        /\ urls' = IF u = NoURL \/ t \notin Services \ explicit
                     THEN urls ELSE [urls EXCEPT ![t] = CatalogURL(t, u)]
        /\ UNCHANGED <<region, explicit, explicitRegion, phase, given, found, heard>>
    BY DEF Discover
  <1>2. /\ pending \in Seq(Entries) /\ entry \in Entries /\ Tail(pending) \in Seq(Entries)
        /\ entry \in heard /\ Tail(pending) \in Seq(heard)
    BY <1>1, HeadTailProperties DEF TypeOK, HeardInv
  <1>3. ASSUME u # NoURL, t \in Services
        PROVE  /\ u \in URLs /\ CatalogURL(t, u) \in URLs /\ CatalogURL(t, u) # NoURL
               /\ CatalogURL(t, u).host = u.host /\ u.host # NotGiven
               /\ ~CatalogURL(t, u).slash
               /\ CatalogURL(t, u).path = <<Version(t)>>
               /\ CatalogURL(t, u).host \in NamedHosts(heard, region, t)
    <2>1. PICK endpoint \in Advertised(entry) :
            /\ Eligible(region, endpoint) /\ endpoint.url \in URLs
            /\ u = Trim(endpoint.url)
      BY <1>2, <1>3, PublicURLAdvertised
    <2>2. u \in URLs /\ ~u.slash /\ u.host = endpoint.url.host /\ u.host # NotGiven
      BY <2>1, TrimKeeps DEF URLs
    <2> HIDE DEF u, t, entry
    <2>3. /\ CatalogURL(t, u) \in URLs /\ CatalogURL(t, u) # NoURL
          /\ CatalogURL(t, u).host = u.host /\ CatalogURL(t, u).slash = u.slash
      BY <1>3, <2>2, CatalogURLKeeps
    <2>4. CatalogURL(t, u).path = <<Version(t)>>
      BY <1>2, <1>3, <2>1, CatalogPath DEF t
    <2>5. endpoint.url.host \in NamedHosts(heard, region, t)
      BY <1>2, <2>1, EligibleNamed DEF t
    <2> QED BY <2>2, <2>3, <2>4, <2>5
  <1>4. \A s \in Services :
          \/ urls'[s] = urls[s]
          \/ /\ s = t /\ s \notin explicit /\ u # NoURL
             /\ urls'[s] = CatalogURL(t, u)
    BY <1>1 DEF TypeOK
  <1>5. \A s \in Services \ explicit : s = t /\ u # NoURL => urls'[s] = CatalogURL(t, u)
    BY <1>1 DEF TypeOK
  <1>6. CatalogInv'
    <2> SUFFICES ASSUME NEW s \in Services \ explicit
                 PROVE  IF Offers(region, Tail(pending), s) = {} THEN urls'[s].host = Latest(s)
                        ELSE found[s] = Offered(region, Tail(pending), s)
      BY <1>1 DEF CatalogInv, Latest
    <2>1. CASE Offers(region, Tail(pending), s) # {}
      BY <1>1, <1>2, <2>1, OfferedByTail DEF CatalogInv
    <2>2. CASE Offers(region, Tail(pending), s) = {} /\ Offers(region, pending, s) # {}
      <3>1. /\ t = s /\ u # NoURL
            /\ Offered(region, pending, s) = u.host
        BY <1>1, <1>2, <2>2, OfferedByTail
      <3>2. urls'[s].host = u.host /\ u.host # NotGiven
        BY <1>3, <1>5, <3>1
      <3>3. found[s] = Offered(region, pending, s)
        BY <1>1, <2>2 DEF CatalogInv
      <3> QED BY <2>2, <3>1, <3>2, <3>3 DEF Latest
    <2>3. CASE Offers(region, Tail(pending), s) = {} /\ Offers(region, pending, s) = {}
      <3>1. ~(t = s /\ u # NoURL)
        BY <1>1, <1>2, <2>3, OffersOfTail
      <3>2. urls'[s] = urls[s]
        BY <1>4, <3>1
      <3> QED BY <1>1, <2>3, <3>2 DEF CatalogInv
    <2> QED BY <2>1, <2>2, <2>3
  <1>7. \A s \in Services :
          /\ urls'[s] \in URLs /\ urls'[s] # NoURL /\ ~urls'[s].slash
          /\ s \in explicit => urls'[s] = urls[s]
          /\ s \notin explicit =>
               /\ urls'[s].path = <<Version(s)>>
               /\ urls'[s].host \in {Generated(s, region).host} \cup NamedHosts(heard, region, s)
    <2> HIDE DEF t, u
    <2> TAKE s \in Services
    <2>1. /\ urls[s] \in URLs /\ urls[s] # NoURL /\ ~urls[s].slash
          /\ s \notin explicit =>
               /\ urls[s].path = <<Version(s)>>
               /\ urls[s].host \in {Generated(s, region).host} \cup NamedHosts(heard, region, s)
      BY <1>1 DEF TypeOK, PathInv, RegionInv
    <2> QED BY <1>3, <1>4, <2>1
  <1> HIDE DEF t, u, entry
  <1>8. urls' \in [Services -> URLs]
    <2>1. DOMAIN urls' = Services /\ urls' = [s \in Services |-> urls'[s]]
      BY <1>1 DEF TypeOK
    <2> QED BY <1>7, <2>1
  <1>9. TypeOK'
    BY <1>1, <1>2, <1>7, <1>8 DEF TypeOK
  <1>10. GivenInv' /\ UnsetInv'
    BY <1>1, <1>7 DEF GivenInv, UnsetInv
  <1>11. RegionInv' /\ PathInv' /\ HeardInv'
    <2>1. "identity" \in explicit => urls'["identity"] = urls["identity"]
      BY <1>7, EndpointsAssumption
    <2>2. RegionInv'
      BY <1>1, <1>7, <2>1 DEF RegionInv
    <2> QED BY <1>1, <1>2, <1>7, <2>2 DEF PathInv, HeardInv
  <1> QED BY <1>6, <1>9, <1>10, <1>11

\* The end of the loop changes nothing that the invariant speaks of.
LEMMA InstalledStep ==
  ASSUME IInv, Installed
  PROVE  IInv'
  BY DEF Installed, IInv, TypeOK, GivenInv, UnsetInv, CatalogInv, HeardInv, RegionInv, PathInv,
         Latest

\* Every step keeps the invariant.
LEMMA StepInv == IInv /\ [Next]_vars => IInv'
  <1> SUFFICES ASSUME IInv, [Next]_vars PROVE IInv'
    OBVIOUS
  <1>1. CASE UNCHANGED vars
    BY <1>1 DEF vars, IInv, TypeOK, GivenInv, UnsetInv, CatalogInv, HeardInv, RegionInv, PathInv,
                Latest
  <1> QED BY <1>1, OptionStep, BuildStep, LoginStep, DiscoverStep, InstalledStep DEF Next
-----------------------------------------------------------------------------
\* The client's fields are well typed and every URL is set once NewClient returned.
THEOREM TypeCorrect == Spec => []TypeOK
  <1>1. IInv => TypeOK
    BY DEF IInv
  <1> QED BY <1>1, InitInv, StepInv, PTL DEF Spec

\* Options, catalogs and the region pattern take effect in the documented order.
THEOREM OrderKept == Spec => []PriorityOrder
  <1>1. IInv => PriorityOrder
    <2> SUFFICES ASSUME IInv, phase = "ready", NEW s \in Services
                 PROVE  urls[s].host = IF given[s] # NotGiven THEN given[s]
                                       ELSE IF found[s] # NotGiven THEN found[s]
                                       ELSE Generated(s, region).host
      BY DEF PriorityOrder
    <2>1. CASE s \in explicit
      <3>1. urls[s].host # NotGiven
        BY DEF IInv, TypeOK, URLs
      <3> QED BY <2>1, <3>1 DEF IInv, GivenInv
    <2>2. CASE s \notin explicit
      <3>1. Offers(region, pending, s) = {}
        BY DEF IInv, TypeOK, Offers
      <3> QED BY <2>2, <3>1 DEF IInv, GivenInv, CatalogInv, Latest
    <2> QED BY <2>1, <2>2
  <1> QED BY <1>1, InitInv, StepInv, PTL DEF Spec

\* Every URL is for the region that the user chose or that the identity URL names, by
\* its pattern or by the word of a catalog, however the catalogs name their hosts.
THEOREM OneRegion == Spec => []RegionAgreement
  <1>1. IInv => RegionAgreement
    BY DEF IInv, RegionInv, RegionAgreement
  <1> QED BY <1>1, InitInv, StepInv, PTL DEF Spec

\* The methods can append their paths to every URL.
THEOREM PathsAreVersions == Spec => []RootedURLs
  <1>1. IInv => RootedURLs
    BY DEF IInv, PathInv, RootedURLs
  <1> QED BY <1>1, InitInv, StepInv, PTL DEF Spec
-----------------------------------------------------------------------------
(* The abstract specification *)

\* What is decided of a host is what an option gave, else what the catalogs gave last,
\* else generated, and it is known before the loop over the catalog comes to it.
OutcomeInv ==
  phase # "options" =>
    \A s \in Services :
      /\ Outcome(s) = IF s \in explicit THEN given[s] ELSE Latest(s)
      /\ Outcome(s) \in Seq(Strings) \ {NotGiven}

\* OutcomeInv needs no induction of its own: the invariant of the loop implies it.
LEMMA OutcomesDecided == IInv => OutcomeInv
  <1> SUFFICES ASSUME IInv, phase # "options", NEW s \in Services
               PROVE  /\ Outcome(s) = IF s \in explicit THEN given[s] ELSE Latest(s)
                      /\ Outcome(s) \in Seq(Strings) \ {NotGiven}
    BY DEF OutcomeInv
  <1>1. pending \in Seq(Entries) /\ urls[s] \in URLs
    BY DEF IInv, TypeOK
  <1>2. urls[s].host \in Seq(Strings) \ {NotGiven}
    BY <1>1 DEF URLs
  <1>3. CASE s \in explicit
    BY <1>2, <1>3 DEF Outcome, IInv, GivenInv
  <1>4. CASE s \notin explicit /\ Offers(region, pending, s) = {}
    <2>1. Outcome(s) = urls[s].host /\ urls[s].host = Latest(s)
      BY <1>4 DEF Outcome, IInv, CatalogInv
    <2> QED BY <1>2, <1>4, <2>1
  <1>5. CASE s \notin explicit /\ Offers(region, pending, s) # {}
    <2>1. Outcome(s) = Offered(region, pending, s) /\ found[s] = Offered(region, pending, s)
      BY <1>5 DEF Outcome, IInv, CatalogInv
    <2>2. Offered(region, pending, s) \in Seq(Strings) \ {NotGiven}
      BY <1>1, <1>5, OfferedHost
    <2> QED BY <1>5, <2>1, <2>2 DEF Latest
  <1> QED BY <1>3, <1>4, <1>5

\* Endpoints implements Resolution: NewClient decides every host at once, a login all
\* of those that it moves, and the loop over the catalog, turn by turn, decides none.
THEOREM ResolutionImplemented == Spec => ImplementsResolution
  <1> DEFINE H == [s \in Services |-> IF phase = "options" THEN NotGiven ELSE Outcome(s)]
             F == IF phase = "options" THEN {} ELSE explicit
             R == IF phase = "options" THEN "" ELSE region
             L == IF phase = "options" THEN 0 ELSE steps
             Kept == UNCHANGED <<H, F, R, phase # "options", L>>
  <1>1. Init => Decided!Init
    BY DEF Init, Decided!Init
  <1>2. IInv /\ IInv' /\ OutcomeInv /\ OutcomeInv' /\ [Next]_vars
          => [Decided!Next]_(Decided!resolutionVars)
    <2> SUFFICES ASSUME IInv, IInv', OutcomeInv, OutcomeInv', [Next]_vars
                 PROVE  Decided!Next \/ Kept
      BY DEF Decided!resolutionVars
    <2>1. phase' # "options" => H' \in [Services -> Seq(Strings) \ {NotGiven}]
      BY DEF OutcomeInv
    <2>2. ASSUME phase # "options", phase' # "options",
                 UNCHANGED <<explicit, given, found, region>>
          PROVE  H' = H
      BY <2>2 DEF OutcomeInv, Latest
    <2>3. CASE ApplyOption
      BY <2>3 DEF ApplyOption
    <2>4. CASE Build
      <3>1. /\ phase = "options" /\ phase' = "ready" /\ steps' = 0
            /\ explicit' \in SUBSET Services /\ region' \in Strings
            /\ found' = found /\ \A s \in Services : found[s] = NotGiven
        BY <2>4 DEF Build, IInv, TypeOK, UnsetInv
      <3>2. \A s \in Services \ explicit' : H'[s] = DefaultHost(s, region')
        BY <3>1 DEF OutcomeInv, Latest, DefaultHost
      <3> QED BY <2>1, <3>1, <3>2 DEF Decided!Create, Decided!Next
    <2>5. CASE Login
      <3>1. /\ phase = "ready" /\ phase' = "installing" /\ steps' = steps + 1
            /\ UNCHANGED <<explicit, given, region>>
        BY <2>5 DEF Login
      <3>2. PICK catalog \in Catalogs :
              found' = [s \in Services |->
                          IF Offers(region, catalog, s) = {} THEN found[s]
                          ELSE Offered(region, catalog, s)]
        BY <2>5 DEF Login
      <3>3. catalog \in Seq(Entries)
        BY CatalogsAssumption
      <3>4. ASSUME NEW s \in Services
            PROVE  \/ H'[s] = H[s]
                   \/ s \notin explicit /\ H'[s] \in CatalogHosts(catalog, region, s)
        <4>1. CASE s \in explicit \/ Offers(region, catalog, s) = {}
          BY <3>1, <3>2, <4>1 DEF OutcomeInv, Latest
        <4>2. CASE s \notin explicit /\ Offers(region, catalog, s) # {}
          <5>1. /\ Offered(region, catalog, s) # NotGiven
                /\ Offered(region, catalog, s) \in CatalogHosts(catalog, region, s)
            BY <3>3, <4>2, OfferedHost DEF CatalogHosts
          <5> QED BY <3>1, <3>2, <4>2, <5>1 DEF OutcomeInv, Latest
        <4> QED BY <4>1, <4>2
      <3> QED BY <2>1, <3>1, <3>4 DEF Decided!LogIn, Decided!Next
    <2>6. CASE Discover \/ Installed
      <3>1. /\ phase # "options" /\ phase' # "options"
            /\ UNCHANGED <<explicit, given, found, region, steps>>
        BY <2>6 DEF Discover, Installed
      <3> QED BY <2>2, <3>1
    <2>7. CASE UNCHANGED vars
      BY <2>7 DEF vars, Outcome
    <2> QED BY <2>3, <2>4, <2>5, <2>6, <2>7 DEF Next
  <1> QED BY <1>1, <1>2, OutcomesDecided, InitInv, StepInv, PTL
          DEF Spec, ImplementsResolution, Decided!Spec
=============================================================================
