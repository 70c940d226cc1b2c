-------------------------- MODULE OnboardingProofs --------------------------
(***************************************************************************)
(* The parts that set a shop and its tenant up, for any tenants, rows,     *)
(* requests, documents, reviews, accounts and faults; and the accounts and *)
(* sessions of people, for any people, tokens and calls.                   *)
(***************************************************************************)
EXTENDS MCOnboarding, Sessions, SumTheorems

-----------------------------------------------------------------------------
(* Tenancy: requests and rows                                              *)

Owners == Tenants \cup {NoTenant}

VisitRows ==
  [step : {"idle", "intercept", "handle"}, role : Roles, own : Owners, ctx : Owners]

\* A request of a user with a tenant is handled in that tenant.
VisitInv ==
  /\ visit \in [Visitors -> VisitRows]
  /\ \A v \in Visitors :
       /\ visit[v].role = "guest" => visit[v].own = NoTenant
       /\ (visit[v].step = "handle" /\ visit[v].own # NoTenant /\ visit[v].role # "SUPER_ADMIN")
            => visit[v].ctx = visit[v].own

RowInv ==
  /\ domain \in [Tenants -> Hosts] /\ created \subseteq Tenants
  /\ rowTenant \in [Rows -> TenantRows]
  /\ DOMAIN seen = Visitors /\ StaysInTenant

RequestInv == VisitInv /\ RowInv

\* A request ends.
LEMMA LeaveEffect ==
  ASSUME VisitInv, NEW v \in Visitors, Leave(v)
  PROVE  VisitInv'
<1>1. NoVisit \in VisitRows /\ NoVisit.own = NoTenant
  BY DEF NoVisit, VisitRows, Roles, Owners, NoTenant
<1>2. visit'[v] = NoVisit /\ \A w \in Visitors : w # v => visit'[w] = visit[w]
  BY DEF Leave, VisitInv
<1>3. visit' \in [Visitors -> VisitRows]
  BY <1>1 DEF Leave, VisitInv
<1> QED BY <1>1, <1>2, <1>3 DEF VisitInv

\* What the middleware and the interceptor make of a request.
LEMMA ArriveStep ==
  ASSUME RequestInv, NEW v \in Visitors, NEW role \in Roles, NEW own \in {NoTenant} \cup created,
         NEW header \in {NoTenant} \cup Tenants, NEW host \in Hosts,
         role \in {"guest", "SUPER_ADMIN"} => own = NoTenant, Arrive(v, role, own, header, host)
  PROVE  RequestInv'
<1> USE DEF RequestInv
<1> DEFINE ctx == IF header # NoTenant THEN header
                  ELSE IF TenantOfHost(host) # {} THEN CHOOSE t \in TenantOfHost(host) : TRUE ELSE NoTenant
           new == [step |-> "intercept", role |-> role, own |-> own, ctx |-> ctx]
<1>1. ctx \in Owners /\ own \in Owners
  BY DEF Owners, TenantOfHost, RowInv
<1>2. visit' = [visit EXCEPT ![v] = new]
  BY DEF Arrive
<1> HIDE DEF ctx
<1>3. new \in VisitRows
  BY <1>1 DEF VisitRows
<1>4. visit'[v] = new /\ \A w \in Visitors : w # v => visit'[w] = visit[w]
  BY <1>2 DEF VisitInv
<1>5. visit' \in [Visitors -> VisitRows]
  BY <1>2, <1>3 DEF VisitInv
<1>6. VisitInv'
  BY <1>4, <1>5 DEF VisitInv
<1>7. RowInv'
  BY DEF Arrive, RowInv, StaysInTenant
<1> QED BY <1>6, <1>7

LEMMA InterceptStep ==
  ASSUME RequestInv, NEW v \in Visitors, Intercept(v)
  PROVE  RequestInv'
<1> USE DEF RequestInv
<1> DEFINE ctx  == IF Trusted(v) \/ visit[v].ctx # NoTenant THEN visit[v].ctx ELSE visit[v].own
           same == visit[v].ctx = NoTenant \/ visit[v].own = NoTenant \/ visit[v].ctx = visit[v].own
<1>1. visit[v] \in VisitRows
  BY DEF VisitInv
<1>2. CASE Trusted(v) \/ (same /\ ctx # NoTenant)
  <2>1. visit' = [visit EXCEPT ![v] = [@ EXCEPT !.step = "handle", !.ctx = ctx]]
    BY <1>2 DEF Intercept
  <2>2. ctx \in Owners
    BY <1>1 DEF VisitRows
  <2>3. (visit[v].own # NoTenant /\ visit[v].role # "SUPER_ADMIN") => ctx = visit[v].own
    BY <1>2 DEF Trusted, VisitInv
  <2> HIDE DEF ctx, same
  <2>4. visit'[v] = [visit[v] EXCEPT !.step = "handle", !.ctx = ctx]
    BY <2>1 DEF VisitInv
  <2>5. /\ visit'[v] \in VisitRows /\ visit'[v].role = visit[v].role
        /\ visit'[v].own = visit[v].own /\ visit'[v].ctx = ctx
    BY <1>1, <2>2, <2>4 DEF VisitRows
  <2>6. \A w \in Visitors : w # v => visit'[w] = visit[w]
    BY <2>1 DEF VisitInv
  <2>7. visit' \in [Visitors -> VisitRows]
    BY <2>1, <2>4, <2>5, <2>6 DEF VisitInv
  <2>8. VisitInv'
    BY <2>3, <2>5, <2>6, <2>7 DEF VisitInv
  <2> QED BY <2>8 DEF Intercept, RowInv, StaysInTenant
<1>3. CASE ~(Trusted(v) \/ (same /\ ctx # NoTenant))
  <2>1. Leave(v)
    BY <1>3 DEF Intercept, Leave
  <2> QED BY <2>1, LeaveEffect DEF Intercept, RowInv, StaysInTenant
<1> QED BY <1>2, <1>3

\* What a request in a tenant finds is of the tenant of its user.
LEMMA FoundInTenant ==
  ASSUME RequestInv, NEW v \in Visitors, visit[v].step = "handle", visit[v].own # NoTenant,
         visit[v].role # "SUPER_ADMIN"
  PROVE  /\ \A r \in Rows : WithTenantWhere(v, r) \/ WithTenantUniqueWhere(v, r) => rowTenant[r] = visit[v].own
         /\ ResolveTenantId(v, NoTenant) = visit[v].own
  BY DEF RequestInv, VisitInv, WithTenantWhere, WithTenantUniqueWhere, ResolveTenantId

\* What one request is given: a set of tenants.
LEMMA SeenStep ==
  ASSUME RequestInv, NEW v \in Visitors, NEW S,
         seen' = [seen EXCEPT ![v] = {<<visit[v].own, visit[v].role, t>> : t \in S}],
         (visit[v].own # NoTenant /\ visit[v].role # "SUPER_ADMIN") => \A t \in S : t = visit[v].own
  PROVE  DOMAIN seen' = Visitors /\ StaysInTenant'
<1>1. DOMAIN seen' = Visitors /\ \A w \in Visitors : w # v => seen'[w] = seen[w]
  BY DEF RequestInv, RowInv
<1>2. seen'[v] = {<<visit[v].own, visit[v].role, t>> : t \in S}
  BY DEF RequestInv, RowInv
<1>3. \A x \in seen'[v] : x[1] # NoTenant /\ x[2] # "SUPER_ADMIN" => x[3] = x[1]
  BY <1>2
<1> QED BY <1>1, <1>3 DEF StaysInTenant, RequestInv, RowInv

LEMMA FindManyStep ==
  ASSUME RequestInv, NEW v \in Visitors, FindMany(v)
  PROVE  RequestInv'
<1> USE DEF RequestInv
<1> DEFINE S == {rowTenant[r] : r \in {q \in Rows : WithTenantWhere(v, q)}}
<1>1. seen' = [seen EXCEPT ![v] = {<<visit[v].own, visit[v].role, t>> : t \in S}]
  <2>1. {<<visit[v].own, visit[v].role, rowTenant[r]>> : r \in {q \in Rows : WithTenantWhere(v, q)}}
          = {<<visit[v].own, visit[v].role, t>> : t \in S}
    OBVIOUS
  <2> QED BY <2>1 DEF FindMany
<1>2. (visit[v].own # NoTenant /\ visit[v].role # "SUPER_ADMIN") => \A t \in S : t = visit[v].own
  BY FoundInTenant DEF FindMany, Handling
<1> HIDE DEF S
<1>3. DOMAIN seen' = Visitors /\ StaysInTenant'
  BY <1>1, <1>2, SeenStep
<1>4. VisitInv'
  BY LeaveEffect DEF FindMany
<1> QED BY <1>3, <1>4 DEF FindMany, Handling, RowInv

\* The queries that change one row.
LEMMA RowStep ==
  ASSUME RequestInv, NEW v \in Visitors, NEW r \in Rows,
         CreateRowOf(v, r) \/ UpdateRowOf(v, r) \/ DeleteRowOf(v, r)
  PROVE  RequestInv'
<1> USE DEF RequestInv
<1>1. visit[v] \in VisitRows /\ rowTenant[r] \in TenantRows
  BY DEF VisitInv, RowInv
<1>2. rowTenant' \in [Rows -> TenantRows]
  <2>1. WithTenantData(v, NoTenant) \in TenantRows /\ WithTenantData(v, rowTenant[r]) \in TenantRows
    BY <1>1 DEF WithTenantData, VisitRows, Owners, TenantRows
  <2> QED BY <2>1 DEF CreateRowOf, UpdateRowOf, DeleteRowOf, RowInv, TenantRows
<1>3. VisitInv'
  BY LeaveEffect DEF CreateRowOf, UpdateRowOf, DeleteRowOf
<1>4. DOMAIN seen' = Visitors /\ StaysInTenant'
  <2>1. CASE UpdateRowOf(v, r)
    <3> DEFINE S == {rowTenant[r]}
    <3>1. seen' = [seen EXCEPT ![v] = {<<visit[v].own, visit[v].role, t>> : t \in S}]
      BY <2>1 DEF UpdateRowOf
    <3>2. (visit[v].own # NoTenant /\ visit[v].role # "SUPER_ADMIN") => \A t \in S : t = visit[v].own
      BY <2>1, FoundInTenant DEF UpdateRowOf, Handling
    <3> HIDE DEF S
    <3> QED BY <3>1, <3>2, SeenStep
  <2>2. CASE UNCHANGED seen
    BY <2>2 DEF RowInv, StaysInTenant
  <2> QED BY <2>1, <2>2 DEF CreateRowOf, DeleteRowOf
<1>5. UNCHANGED <<domain, created>>
  BY DEF CreateRowOf, UpdateRowOf, DeleteRowOf, Handling
<1> QED BY <1>2, <1>3, <1>4, <1>5 DEF RowInv

\* The routes of the tenants themselves.
LEMMA BrandingStep ==
  ASSUME RequestInv, NEW v \in Visitors, NEW t \in Owners, NEW h \in Hosts, UpdateTenantBranding(v, t, h)
  PROVE  RequestInv'
<1> USE DEF RequestInv
<1>1. VisitInv'
  BY LeaveEffect DEF UpdateTenantBranding
<1>2. domain' \in [Tenants -> Hosts]
  BY DEF UpdateTenantBranding, RowInv
<1> QED BY <1>1, <1>2 DEF UpdateTenantBranding, RowInv, StaysInTenant

LEMMA ReadTenantsStep ==
  ASSUME RequestInv, NEW v \in Visitors, ReadTenants(v)
  PROVE  RequestInv'
<1> USE DEF RequestInv
<1>1. PICK S \in SUBSET created :
        /\ \/ visit[v].role = "guest" /\ S = GetCurrentTenant(v)
           \/ visit[v].role # "guest" /\ S = GetMine(v)
           \/ /\ visit[v].role \in {"ADMIN", "SUPER_ADMIN"}
              /\ S = ListInvites(v) \/ \E t \in Tenants : S = GetOne(v, t)
           \/ visit[v].role = "SUPER_ADMIN" /\ S = created
        /\ seen' = [seen EXCEPT ![v] = {<<visit[v].own, visit[v].role, t>> : t \in S}]
  BY DEF ReadTenants
<1>2. (visit[v].own # NoTenant /\ visit[v].role # "SUPER_ADMIN") => \A t \in S : t = visit[v].own
  <2> SUFFICES ASSUME visit[v].own # NoTenant, visit[v].role # "SUPER_ADMIN"
               PROVE  \A t \in S : t = visit[v].own
    OBVIOUS
  <2>1. visit[v].role # "guest"
    BY DEF VisitInv
  <2>2. ResolveTenantId(v, NoTenant) = visit[v].own
    BY FoundInTenant DEF ReadTenants, Handling
  <2>3. \A t \in Tenants : GetOne(v, t) \subseteq {visit[v].own}
    BY DEF GetOne
  <2> QED BY <1>1, <2>1, <2>2, <2>3 DEF GetMine, ListInvites
<1>3. DOMAIN seen' = Visitors /\ StaysInTenant'
  BY <1>1, <1>2, SeenStep
<1>4. VisitInv'
  BY LeaveEffect DEF ReadTenants
<1> QED BY <1>3, <1>4 DEF ReadTenants, Handling, RowInv

\* Nothing that is done about documents concerns requests or rows.
LEMMA DocumentsApart ==
  ASSUME NEW v \in Visitors, DocumentRoutes(v)
  PROVE  UNCHANGED <<domain, created, rowTenant, visit, seen>>
  BY DEF DocumentRoutes, GenerateNumber, CreateDocument

LEMMA RequestInvInit == TenancyInit => RequestInv
<1> SUFFICES ASSUME TenancyInit PROVE RequestInv
  OBVIOUS
<1>1. NoVisit \in VisitRows /\ NoVisit.own = NoTenant
  BY DEF NoVisit, VisitRows, Roles, Owners, NoTenant
<1>2. VisitInv
  BY <1>1 DEF TenancyInit, VisitInv
<1>3. RowInv
  BY DEF TenancyInit, RowInv, StaysInTenant, Hosts, TenantRows
<1> QED BY <1>2, <1>3 DEF RequestInv

LEMMA RequestInvStep == RequestInv /\ [TenancyNext]_tenancyVars => RequestInv'
<1> SUFFICES ASSUME RequestInv, [TenancyNext]_tenancyVars PROVE RequestInv'
  OBVIOUS
<1>1. CASE UNCHANGED <<domain, created, rowTenant, visit, seen>>
  BY <1>1 DEF RequestInv, VisitInv, RowInv, StaysInTenant
<1>2. ASSUME NEW t \in Tenants, CreateTenant(t) PROVE RequestInv'
  BY <1>2 DEF CreateTenant, RequestInv, VisitInv, RowInv, StaysInTenant
<1>3. ASSUME NEW v \in Visitors, TenantRoutes(v) PROVE RequestInv'
  <2>1. ASSUME NEW role \in Roles, NEW own \in {NoTenant} \cup created, NEW header \in {NoTenant} \cup Tenants,
               NEW host \in Hosts, role \in {"guest", "SUPER_ADMIN"} => own = NoTenant,
               Arrive(v, role, own, header, host)
        PROVE  RequestInv'
    BY <2>1, ArriveStep
  <2>2. ASSUME NEW h \in Hosts, NEW t \in Owners, UpdateCurrentBranding(v, t, h) \/ UpdateBranding(v, t, h)
        PROVE  RequestInv'
    <3>1. ResolveTenantId(v, t) \in Owners
      BY DEF ResolveTenantId, RequestInv, VisitInv, VisitRows
    <3> QED BY <2>2, <3>1, BrandingStep DEF UpdateCurrentBranding, UpdateBranding
  <2>3. Tenants \subseteq Owners
    BY DEF Owners
  <2> QED BY <1>3, <2>1, <2>2, <2>3, FindManyStep, RowStep, ReadTenantsStep DEF TenantRoutes, Owners
<1>4. ASSUME NEW v \in Visitors, Intercept(v) PROVE RequestInv'
  BY <1>4, InterceptStep
<1>5. ASSUME NEW v \in Visitors, DocumentRoutes(v) PROVE RequestInv'
  BY <1>1, <1>5, DocumentsApart
<1> QED BY <1>1, <1>2, <1>3, <1>4, <1>5 DEF TenancyNext, tenancyVars

\* No update takes a row from one tenant to another: the query found it in the tenant that
\* the data gives it.
LEMMA RowsKeptStep ==
  ASSUME RequestInv, [TenancyNext]_tenancyVars, NEW r \in Rows, rowTenant[r] # -1, rowTenant'[r] # -1
  PROVE  rowTenant'[r] = rowTenant[r]
<1>1. CASE UNCHANGED rowTenant
  BY <1>1
<1>2. ASSUME NEW v \in Visitors, NEW q \in Rows, CreateRowOf(v, q) \/ UpdateRowOf(v, q) \/ DeleteRowOf(v, q)
      PROVE  rowTenant'[r] = rowTenant[r]
  <2>1. q # r => rowTenant'[r] = rowTenant[r]
    BY <1>2 DEF CreateRowOf, UpdateRowOf, DeleteRowOf, RequestInv, RowInv
  <2>2. CASE q = r
    <3>1. UpdateRowOf(v, r)
      BY <1>2, <2>2 DEF CreateRowOf, DeleteRowOf, RequestInv, RowInv
    <3> QED BY <3>1 DEF UpdateRowOf, WithTenantUniqueWhere, WithTenantData, RequestInv, RowInv
  <2> QED BY <2>1, <2>2
<1>3. \/ UNCHANGED rowTenant
      \/ \E v \in Visitors, q \in Rows : CreateRowOf(v, q) \/ UpdateRowOf(v, q) \/ DeleteRowOf(v, q)
  BY ZenonT(60) DEF TenancyNext, tenancyVars, CreateTenant, TenantRoutes, Arrive, FindMany, UpdateCurrentBranding,
         UpdateBranding, UpdateTenantBranding, ReadTenants, Intercept, DocumentRoutes, GenerateNumber, CreateDocument
<1> QED BY <1>1, <1>2, <1>3

\* No step takes a row from one tenant into another, for any tenants and requests.
THEOREM RowsStay == TenancySpec => RowsKeepTenant
<1>1. TenancyInit => RequestInv
  BY RequestInvInit
<1>2. RequestInv /\ [TenancyNext]_tenancyVars => RequestInv'
  BY RequestInvStep
<1>3. RequestInv /\ [TenancyNext]_tenancyVars =>
        [\A r \in Rows : rowTenant[r] # -1 /\ rowTenant'[r] # -1 => rowTenant'[r] = rowTenant[r]]_rowTenant
  BY RowsKeptStep
<1> QED BY <1>1, <1>2, <1>3, PTL DEF TenancySpec, RowsKeepTenant

-----------------------------------------------------------------------------
(* Tenancy: the numbers of documents                                       *)

DocumentRows == [tenant : Owners, number : 1 .. Limit + 1, id : Nat]

IssuingRows == [step : {"idle", "create"}, tenant : Owners, number : 0 .. Limit + 1]

DocumentsOf(t) == {d \in issued : d.tenant = t}

Issuing(v) == issuing[v].step = "create"

Untenanted(v) == Issuing(v) /\ issuing[v].tenant = NoTenant

NumbersType ==
  /\ issued \subseteq DocumentRows /\ IsFiniteSet(issued)
  /\ issuing \in [Visitors -> IssuingRows] /\ together \in BOOLEAN

\* Some number is of the padded width, so the last one of them is defined.
SomeNumber == \E d \in issued : d.number <= Limit

\* A number that was drawn for a tenant is one of those given, or the next.
DrawnInv ==
  /\ issued # {} => SomeNumber
  /\ \A v \in Visitors : Issuing(v) =>
       /\ issuing[v].number >= 1
       /\ issuing[v].number # 1 => SomeNumber
       /\ issuing[v].tenant # NoTenant => issuing[v].number <= Cardinality(DocumentsOf(issuing[v].tenant)) + 1

GapInv == \A t \in Tenants : {d.number : d \in DocumentsOf(t)} = 1 .. Cardinality(DocumentsOf(t))

\* Without a tenant one document is issued at a time, and its number is new.
OnceInv ==
  ~together =>
    /\ \A d, e \in issued :
         d.tenant = NoTenant /\ e.tenant = NoTenant /\ d.number = e.number /\ d.number <= Limit => d = e
    /\ \A v \in Visitors : Untenanted(v) =>
         \A d \in issued : d.tenant = NoTenant /\ d.number <= Limit => d.number < issuing[v].number
    /\ \A v, w \in Visitors : Untenanted(v) /\ Untenanted(w) => v = w

NumberInv == NumbersType /\ DrawnInv /\ GapInv /\ OnceInv

\* The documents of a tenant are a finite set.
LEMMA DocumentsFinite ==
  ASSUME NumberInv, NEW t
  PROVE  IsFiniteSet(DocumentsOf(t)) /\ Cardinality(DocumentsOf(t)) \in Nat
<1>1. DocumentsOf(t) \subseteq issued /\ IsFiniteSet(issued)
  BY DEF DocumentsOf, NumberInv, NumbersType
<1>2. IsFiniteSet(DocumentsOf(t))
  BY <1>1, FS_Subset
<1> QED BY <1>2, FS_CardinalityType

\* The number after the last: at least 1, within the width or one above it, the next one or
\* less for a tenant, and above all numbers of the width that were looked at.
LEMMA LastNumberNext ==
  ASSUME NumberInv, NEW t \in Owners
  PROVE  /\ LastNumber(t) \in 0 .. Limit
         /\ LastNumber(t) # 0 => SomeNumber
         /\ t # NoTenant => LastNumber(t) <= Cardinality(DocumentsOf(t))
         /\ \A d \in issued : (t = NoTenant \/ d.tenant = t) /\ d.number <= Limit => d.number <= LastNumber(t)
<1> USE DEF NumberInv
<1> DEFINE S == Numbers(t)
           B == {n \in S : n <= Limit}
<1>1. Limit \in Nat /\ Limit >= 1 /\ Tenants \subseteq Nat \ {0}
  BY TenancyAssumption
<1>2. S = {d.number : d \in {e \in issued : t = NoTenant \/ e.tenant = t}}
  BY DEF Numbers
<1>3. S \subseteq 1 .. Limit + 1
  BY <1>2 DEF NumbersType, DocumentRows
<1>4. \A d \in issued : (t = NoTenant \/ d.tenant = t) => d.number \in S
  BY <1>2
<1>5. t # NoTenant => S = 1 .. Cardinality(DocumentsOf(t)) /\ t \in Tenants
  BY <1>2 DEF GapInv, DocumentsOf, Owners
<1>6. Cardinality(DocumentsOf(t)) \in Nat
  BY DocumentsFinite
<1>7. CASE S = {}
  <2>1. LastNumber(t) = 0
    BY <1>7 DEF LastNumber
  <2> QED BY <1>1, <1>4, <1>6, <1>7, <2>1
<1>8. CASE S # {}
  <2>1. B # {}
    <3>1. CASE t = NoTenant
      <4>1. issued # {}
        BY <1>2, <1>8
      <4>2. PICK d \in issued : d.number <= Limit
        BY <4>1 DEF DrawnInv, SomeNumber
      <4> QED BY <1>4, <3>1, <4>2
    <3>2. CASE t # NoTenant
      <4>1. 1 \in S
        BY <1>5, <1>6, <1>8, <3>2
      <4> QED BY <1>1, <4>1
    <3> QED BY <3>1, <3>2
  <2>2. B \subseteq Nat /\ \A n \in B : n <= Limit
    BY <1>3
  <2>3. LastNumber(t) = Max(B)
    BY <1>8 DEF LastNumber
  <2> HIDE DEF B
  <2>4. \E n \in B : \A m \in B : m <= n
    BY <1>1, <2>1, <2>2, NatGreatest
  <2>5. \E n \in B : \A m \in B : n >= m
    BY <2>2, <2>4
  <2>6. Max(B) \in B /\ \A m \in B : Max(B) >= m
    BY <2>5 DEF Max
  <2>7. LastNumber(t) \in S /\ LastNumber(t) <= Limit
    BY <2>3, <2>6 DEF B
  <2>8. PICK d \in issued : (t = NoTenant \/ d.tenant = t) /\ d.number = LastNumber(t)
    BY <1>2, <2>7
  <2>9. \A d1 \in issued : (t = NoTenant \/ d1.tenant = t) /\ d1.number <= Limit => d1.number <= LastNumber(t)
    <3> SUFFICES ASSUME NEW d1 \in issued, t = NoTenant \/ d1.tenant = t, d1.number <= Limit
                 PROVE  d1.number <= LastNumber(t)
      OBVIOUS
    <3>1. d1.number \in B
      BY <1>4 DEF B
    <3> QED BY <2>2, <2>3, <2>6, <3>1
  <2>10. SomeNumber
    BY <2>7, <2>8 DEF SomeNumber
  <2>11. t # NoTenant => LastNumber(t) <= Cardinality(DocumentsOf(t))
    <3> HIDE DEF S
    <3> QED BY <1>5, <1>6, <2>7
  <2>12. LastNumber(t) \in 0 .. Limit
    <3>1. LastNumber(t) \in 1 .. Limit + 1
      BY <1>3, <2>7
    <3> QED BY <1>1, <2>7, <3>1
  <2> QED BY <2>9, <2>10, <2>11, <2>12
<1> QED BY <1>7, <1>8

\* A number is drawn (generateNumber).
LEMMA GenerateStep ==
  ASSUME NumberInv, NEW v \in Visitors, NEW t \in Owners, GenerateNumber(v, t)
  PROVE  NumberInv'
<1> USE DEF NumberInv
<1> DEFINE n == LastNumber(t) + 1
           new == [step |-> "create", tenant |-> t, number |-> n]
<1>1. /\ UNCHANGED issued
      /\ issuing' = [issuing EXCEPT ![v] = new]
      /\ together' = (together \/ (t = NoTenant /\ \E w \in Visitors : issuing[w] # NotIssuing))
      /\ issuing[v] = NotIssuing
  BY DEF GenerateNumber
<1>2. /\ n \in 1 .. Limit + 1
      /\ n # 1 => SomeNumber
      /\ t # NoTenant => n <= Cardinality(DocumentsOf(t)) + 1
      /\ \A d \in issued : (t = NoTenant \/ d.tenant = t) /\ d.number <= Limit => d.number < n
  <2>1. LastNumber(t) \in 0 .. Limit /\ Limit \in Nat /\ Cardinality(DocumentsOf(t)) \in Nat
    BY LastNumberNext, TenancyAssumption, DocumentsFinite
  <2>2. \A d \in issued : d.number \in 1 .. Limit + 1
    BY DEF NumbersType, DocumentRows
  <2> QED BY <2>1, <2>2, LastNumberNext
<1> HIDE DEF n
<1>3. issuing'[v] = new /\ \A w \in Visitors : w # v => issuing'[w] = issuing[w]
  BY <1>1 DEF NumbersType
<1>4. new \in IssuingRows
  BY <1>2 DEF IssuingRows
<1>5. NumbersType'
  BY <1>1, <1>4 DEF NumbersType
<1>6. SomeNumber' = SomeNumber /\ \A s : DocumentsOf(s)' = DocumentsOf(s)
  BY <1>1 DEF SomeNumber, DocumentsOf
<1>7. DrawnInv'
  <2> SUFFICES ASSUME NEW w \in Visitors, Issuing(w)'
               PROVE  /\ issuing'[w].number >= 1
                      /\ issuing'[w].number # 1 => SomeNumber
                      /\ issuing'[w].tenant # NoTenant =>
                           issuing'[w].number <= Cardinality(DocumentsOf(issuing'[w].tenant)) + 1
    BY <1>1, <1>6 DEF DrawnInv, DocumentsOf
  <2>1. CASE w = v
    BY <1>2, <1>3, <2>1
  <2>2. CASE w # v
    BY <1>3, <2>2 DEF DrawnInv, Issuing
  <2> QED BY <2>1, <2>2
<1>8. GapInv'
  BY <1>6 DEF GapInv
<1>9. OnceInv'
  <2> SUFFICES ASSUME ~together'
               PROVE  /\ \A d, e \in issued :
                           d.tenant = NoTenant /\ e.tenant = NoTenant /\ d.number = e.number /\ d.number <= Limit
                             => d = e
                      /\ \A w \in Visitors : Untenanted(w)' =>
                           \A d \in issued : d.tenant = NoTenant /\ d.number <= Limit => d.number < issuing'[w].number
                      /\ \A x, w \in Visitors : Untenanted(x)' /\ Untenanted(w)' => x = w
    BY <1>1 DEF OnceInv
  <2>1. ~together /\ (t = NoTenant => \A w \in Visitors : issuing[w] = NotIssuing)
    BY <1>1
  <2>2. t = NoTenant => \A w \in Visitors : ~Issuing(w)
    BY <2>1 DEF NotIssuing, Issuing
  <2>3. \A w \in Visitors : w # v => (Untenanted(w)' <=> Untenanted(w)) /\ issuing'[w] = issuing[w]
    BY <1>3 DEF Untenanted, Issuing
  <2>4. Untenanted(v)' => t = NoTenant
    BY <1>3 DEF Untenanted
  <2>5. \A w \in Visitors : Untenanted(w) => Issuing(w)
    BY DEF Untenanted
  <2>6. issuing'[v].number = n
    BY <1>3
  <2> QED BY <1>2, <2>1, <2>2, <2>3, <2>4, <2>5, <2>6 DEF OnceInv
<1> QED BY <1>5, <1>7, <1>8, <1>9

\* A document gets the next number of its tenant: one that was drawn and is not taken.
LEMMA CreateDocumentStep ==
  ASSUME NumberInv, NEW v \in Visitors, CreateDocument(v)
  PROVE  NumberInv'
<1> USE DEF NumberInv
<1> DEFINE t == issuing[v].tenant
           n == issuing[v].number
           new == [tenant |-> t, number |-> n, id |-> Cardinality(issued) + 1]
<1>1. /\ Issuing(v) /\ issuing' = [issuing EXCEPT ![v] = NotIssuing] /\ UNCHANGED together
      /\ issued' = IF Taken(v) THEN issued ELSE issued \cup {new}
  BY DEF CreateDocument, Issuing
<1>2. /\ issuing[v] \in IssuingRows /\ t \in Owners /\ n \in 1 .. Limit + 1
      /\ n # 1 => SomeNumber
      /\ t # NoTenant => n <= Cardinality(DocumentsOf(t)) + 1
  <2>1. issuing[v] \in IssuingRows /\ Limit \in Nat
    BY TenancyAssumption DEF NumbersType
  <2>2. n >= 1 /\ n \in 0 .. Limit + 1 /\ t \in Owners
    BY <1>1, <2>1 DEF DrawnInv, IssuingRows
  <2> QED BY <1>1, <2>1, <2>2 DEF DrawnInv
<1>3. NotIssuing \in IssuingRows /\ NotIssuing.step # "create"
  BY TenancyAssumption DEF NotIssuing, IssuingRows, Owners
<1>4. /\ issuing' \in [Visitors -> IssuingRows] /\ ~Issuing(v)'
      /\ \A w \in Visitors : w # v => issuing'[w] = issuing[w]
  BY <1>1, <1>3 DEF NumbersType, Issuing
<1>5. CASE Taken(v)
  <2>1. UNCHANGED issued
    BY <1>1, <1>5
  <2>2. SomeNumber' = SomeNumber /\ \A s : DocumentsOf(s)' = DocumentsOf(s)
    BY <2>1 DEF SomeNumber, DocumentsOf
  <2>3. NumbersType'
    BY <1>1, <1>4, <2>1 DEF NumbersType
  <2>4. DrawnInv'
    <3> SUFFICES ASSUME NEW w \in Visitors, Issuing(w)'
                 PROVE  /\ issuing'[w].number >= 1
                        /\ issuing'[w].number # 1 => SomeNumber
                        /\ issuing'[w].tenant # NoTenant =>
                             issuing'[w].number <= Cardinality(DocumentsOf(issuing'[w].tenant)) + 1
      BY <2>1, <2>2 DEF DrawnInv, DocumentsOf
    <3> QED BY <1>4 DEF DrawnInv, Issuing
  <2>5. GapInv'
    BY <2>2 DEF GapInv
  <2>6. OnceInv'
    BY <1>1, <1>4, <2>1 DEF OnceInv, Untenanted, Issuing
  <2> QED BY <2>3, <2>4, <2>5, <2>6
<1>6. CASE ~Taken(v)
  <2> DEFINE After(s) == {d \in issued' : d.tenant = s}
  <2> HIDE DEF t, n
  <2>1. issued' = issued \cup {new}
    BY <1>1, <1>6
  <2>2. /\ new \in DocumentRows /\ new.tenant = t /\ new.number = n
    <3>1. Cardinality(issued) + 1 \in Nat
      BY FS_CardinalityType DEF NumbersType
    <3> QED BY <1>2, <3>1 DEF DocumentRows
  <2> HIDE DEF new
  <2>3. NumbersType'
    BY <1>1, <1>4, <2>1, <2>2, FS_AddElement DEF NumbersType
  <2>4. SomeNumber'
    <3>1. CASE n = 1
      BY <2>1, <2>2, <3>1, TenancyAssumption DEF SomeNumber
    <3>2. CASE n # 1
      BY <1>2, <2>1, <3>2 DEF SomeNumber
    <3> QED BY <3>1, <3>2
  <2>5. /\ \A s : s # t => After(s) = DocumentsOf(s)
        /\ After(t) = DocumentsOf(t) \cup {new}
    BY <2>1, <2>2 DEF DocumentsOf
  <2> HIDE DEF After
  <2>6. \A s : IsFiniteSet(DocumentsOf(s)) /\ Cardinality(DocumentsOf(s)) \in Nat
    BY DocumentsFinite
  <2>7. t # NoTenant => /\ n = Cardinality(DocumentsOf(t)) + 1
                        /\ Cardinality(After(t)) = Cardinality(DocumentsOf(t)) + 1
                        /\ {d.number : d \in After(t)} = 1 .. Cardinality(After(t))
    <3> SUFFICES ASSUME t # NoTenant
                 PROVE  /\ n = Cardinality(DocumentsOf(t)) + 1
                        /\ Cardinality(After(t)) = Cardinality(DocumentsOf(t)) + 1
                        /\ {d.number : d \in After(t)} = 1 .. Cardinality(After(t))
      OBVIOUS
    <3> DEFINE m == Cardinality(DocumentsOf(t))
    <3>1. {d.number : d \in DocumentsOf(t)} = 1 .. m
      BY <1>2 DEF GapInv, Owners
    <3>2. \A d \in DocumentsOf(t) : d.number # n
      BY <1>6 DEF Taken, DocumentsOf, t, n
    <3>3. m \in Nat /\ n \in Nat /\ n >= 1 /\ n <= m + 1
      BY <1>2, <2>6, TenancyAssumption
    <3>4. n \notin 1 .. m
      BY <3>1, <3>2
    <3>5. n = m + 1
      <4> HIDE DEF m
      <4> QED BY <3>3, <3>4
    <3>6. new \notin DocumentsOf(t)
      BY <2>2, <3>2
    <3>7. Cardinality(After(t)) = m + 1
      BY <2>5, <2>6, <3>6, FS_AddElement
    <3>8. {d.number : d \in After(t)} = (1 .. m) \cup {n}
      BY <2>2, <2>5, <3>1
    <3> HIDE DEF m
    <3>9. (1 .. m) \cup {n} = 1 .. m + 1
      BY <3>3, <3>5
    <3>10. {d.number : d \in After(t)} = 1 .. Cardinality(After(t))
      BY <3>7, <3>8, <3>9
    <3> QED BY <3>5, <3>7, <3>10 DEF m
  <2>8. GapInv'
    <3> SUFFICES ASSUME NEW s \in Tenants
                 PROVE  {d.number : d \in After(s)} = 1 .. Cardinality(After(s))
      BY DEF GapInv, DocumentsOf, After
    <3>1. s # NoTenant
      BY TenancyAssumption DEF NoTenant
    <3>2. CASE s = t
      BY <2>7, <3>1, <3>2
    <3>3. CASE s # t
      BY <2>5, <3>3 DEF GapInv
    <3> QED BY <3>2, <3>3
  <2>9. DrawnInv'
    <3> SUFFICES ASSUME NEW w \in Visitors, Issuing(w)', issuing'[w].tenant # NoTenant
                 PROVE  issuing'[w].number <= Cardinality(After(issuing'[w].tenant)) + 1
      <4>1. \A w \in Visitors : Issuing(w)' => issuing'[w] = issuing[w] /\ Issuing(w)
        BY <1>4 DEF Issuing
      <4>2. \A w \in Visitors : Issuing(w)' => issuing'[w].number >= 1
        BY <4>1 DEF DrawnInv
      <4> QED BY <2>4, <4>2 DEF DrawnInv, DocumentsOf, After
    <3> DEFINE s == issuing[w].tenant
    <3>1. w # v /\ issuing'[w] = issuing[w] /\ Issuing(w)
      BY <1>4 DEF Issuing
    <3>2. issuing[w].number <= Cardinality(DocumentsOf(s)) + 1 /\ issuing[w].number \in 0 .. Limit + 1
      BY <3>1 DEF DrawnInv, NumbersType, IssuingRows
    <3> HIDE DEF s
    <3>3. CASE s = t
      BY <2>6, <2>7, <3>1, <3>2, <3>3 DEF s
    <3>4. CASE s # t
      BY <2>5, <3>1, <3>2, <3>4 DEF s
    <3> QED BY <3>3, <3>4
  <2>10. OnceInv'
    <3> SUFFICES ASSUME ~together'
                 PROVE  /\ \A d, e \in issued' :
                             d.tenant = NoTenant /\ e.tenant = NoTenant /\ d.number = e.number /\ d.number <= Limit
                               => d = e
                        /\ \A w \in Visitors : Untenanted(w)' =>
                             \A d \in issued' : d.tenant = NoTenant /\ d.number <= Limit => d.number < issuing'[w].number
                        /\ \A x, w \in Visitors : Untenanted(x)' /\ Untenanted(w)' => x = w
      BY DEF OnceInv
    <3>1. ~together
      BY <1>1
    <3>2. \A w \in Visitors : Untenanted(w)' => w # v /\ Untenanted(w) /\ issuing'[w] = issuing[w]
      BY <1>4 DEF Untenanted, Issuing
    <3>3. t = NoTenant => Untenanted(v) /\ issuing[v].number = n
      BY <1>1 DEF Untenanted, t, n
    <3>4. t = NoTenant => \A d \in issued : d.tenant = NoTenant /\ d.number <= Limit => d.number < n
      BY <3>1, <3>3 DEF OnceInv
    <3>5. \A d \in issued : d.number \in 1 .. Limit + 1
      BY DEF NumbersType, DocumentRows
    <3>6. \A d, e \in issued' :
             d.tenant = NoTenant /\ e.tenant = NoTenant /\ d.number = e.number /\ d.number <= Limit => d = e
      <4> SUFFICES ASSUME NEW d \in issued', NEW e \in issued', d.tenant = NoTenant, e.tenant = NoTenant,
                          d.number = e.number, d.number <= Limit, d # e
                   PROVE  FALSE
        OBVIOUS
      <4>1. CASE d \in issued /\ e \in issued
        BY <3>1, <4>1 DEF OnceInv
      <4>2. CASE d = new \/ e = new
        <5>1. t = NoTenant
          BY <2>2, <4>2
        <5>2. \E f \in issued : f.tenant = NoTenant /\ f.number = n /\ n <= Limit
          BY <2>1, <2>2, <4>2
        <5> QED BY <1>2, <3>4, <5>1, <5>2, TenancyAssumption
      <4> QED BY <2>1, <4>1, <4>2
    <3>7. \A w \in Visitors : Untenanted(w)' =>
             \A d \in issued' : d.tenant = NoTenant /\ d.number <= Limit => d.number < issuing'[w].number
      <4>1. \A w \in Visitors : Untenanted(w)' => t # NoTenant
        BY <3>1, <3>2, <3>3 DEF OnceInv
      <4> QED BY <2>1, <2>2, <3>1, <3>2, <4>1 DEF OnceInv
    <3> QED BY <3>1, <3>2, <3>6, <3>7 DEF OnceInv
  <2> QED BY <2>3, <2>8, <2>9, <2>10
<1> QED BY <1>5, <1>6

LEMMA NumberInvInit == TenancyInit => NumberInv
<1> SUFFICES ASSUME TenancyInit PROVE NumberInv
  OBVIOUS
<1>1. NotIssuing \in IssuingRows /\ NotIssuing.step # "create"
  BY TenancyAssumption DEF NotIssuing, IssuingRows, Owners
<1>2. issued = {} /\ \A t : DocumentsOf(t) = {}
  BY DEF TenancyInit, DocumentsOf
<1>3. NumbersType
  BY <1>1, <1>2, FS_EmptySet DEF TenancyInit, NumbersType
<1>4. DrawnInv /\ OnceInv
  BY <1>1, <1>2 DEF TenancyInit, DrawnInv, OnceInv, Untenanted, Issuing
<1>5. GapInv
  <2>1. Cardinality({}) = 0
    BY FS_EmptySet
  <2> QED BY <1>2, <2>1 DEF GapInv
<1> QED BY <1>3, <1>4, <1>5 DEF NumberInv

LEMMA NumberInvStep == NumberInv /\ [TenancyNext]_tenancyVars => NumberInv'
<1> SUFFICES ASSUME NumberInv, [TenancyNext]_tenancyVars PROVE NumberInv'
  OBVIOUS
<1>1. CASE UNCHANGED <<issued, issuing, together>>
  BY <1>1 DEF NumberInv, NumbersType, DrawnInv, GapInv, OnceInv, Untenanted, Issuing, SomeNumber, DocumentsOf
<1>2. ASSUME NEW v \in Visitors, DocumentRoutes(v) PROVE NumberInv'
  BY <1>2, GenerateStep, CreateDocumentStep DEF DocumentRoutes, Owners
<1>3. ASSUME NEW v \in Visitors, TenantRoutes(v) PROVE UNCHANGED <<issued, issuing, together>>
  <2>1. ASSUME NEW t, NEW h, UpdateCurrentBranding(v, t, h) \/ UpdateBranding(v, t, h)
        PROVE  UNCHANGED <<issued, issuing, together>>
    BY <2>1 DEF UpdateCurrentBranding, UpdateBranding, UpdateTenantBranding
  <2>2. ReadTenants(v) \/ FindMany(v) => UNCHANGED <<issued, issuing, together>>
    BY DEF ReadTenants, FindMany, Handling
  <2>3. ASSUME NEW r \in Rows, CreateRowOf(v, r) \/ UpdateRowOf(v, r) \/ DeleteRowOf(v, r)
        PROVE  UNCHANGED <<issued, issuing, together>>
    BY <2>3 DEF CreateRowOf, UpdateRowOf, DeleteRowOf, Handling
  <2>4. ASSUME NEW role, NEW own, NEW header, NEW host, Arrive(v, role, own, header, host)
        PROVE  UNCHANGED <<issued, issuing, together>>
    BY <2>4 DEF Arrive
  <2> QED BY <1>3, <2>1, <2>2, <2>3, <2>4 DEF TenantRoutes
<1>4. \/ UNCHANGED <<issued, issuing, together>>
      \/ \E v \in Visitors : DocumentRoutes(v)
  BY <1>3 DEF TenancyNext, tenancyVars, CreateTenant, Intercept
<1> QED BY <1>1, <1>2, <1>4

\* Users stay in their tenant and the numbers of a tenant have neither gaps nor repetitions,
\* for any tenants, requests, documents and bounds.
THEOREM TenantsStayApart == TenancySpec => []TenantsApart
<1> DEFINE Inv == RequestInv /\ NumberInv
<1>1. TenancyInit => Inv
  BY RequestInvInit, NumberInvInit
<1>2. Inv /\ [TenancyNext]_tenancyVars => Inv'
  BY RequestInvStep, NumberInvStep
<1>3. Inv => TenantsApart
  <2> SUFFICES ASSUME Inv PROVE TenantsApart
    OBVIOUS
  <2>1. StaysInTenant
    BY DEF RequestInv, RowInv
  <2>2. NumbersWithoutGaps
    <3> SUFFICES ASSUME NEW t \in created
                 PROVE  LET D == {d \in issued : d.tenant = t}
                        IN  /\ Cardinality({d.number : d \in D}) = Cardinality(D)
                            /\ {d.number : d \in D} = 1 .. Cardinality(D)
      BY DEF NumbersWithoutGaps
    <3> DEFINE m == Cardinality(DocumentsOf(t))
    <3>1. {d.number : d \in DocumentsOf(t)} = 1 .. m
      BY DEF RequestInv, RowInv, NumberInv, GapInv
    <3>2. m \in Nat
      BY DocumentsFinite
    <3>3. Cardinality(1 .. m) = m
      <4> HIDE DEF m
      <4>1. Cardinality(1 .. m) = IF 1 > m THEN 0 ELSE m - 1 + 1
        BY <3>2, FS_Interval
      <4> QED BY <3>2, <4>1
    <3> QED BY <3>1, <3>3 DEF DocumentsOf
  <2>3. NumbersOnce
    BY DEF NumberInv, OnceInv, NumbersOnce
  <2> QED BY <2>1, <2>2, <2>3 DEF TenantsApart
<1> QED BY <1>1, <1>2, <1>3, PTL DEF TenancySpec

-----------------------------------------------------------------------------
(* Leads                                                                   *)

\* What has become of the channels that were tried.
LeadInv ==
  /\ LeadTypeOK
  /\ leadStep # "database" /\ channel["database"] = "up" => "database" \in reached
  /\ leadStep \notin {"database", "ntfy"} /\ channel["ntfy"] = "up" => "ntfy" \in reached
  /\ leadStep \in {"smtp", "telegram", "done"} /\ channel["web3forms"] = "up" => "web3forms" \in reached
  /\ leadStep = "smtp" => channel["web3forms"] = "off"
  /\ leadStep \in {"telegram", "done"} /\ channel["smtp"] = "up" =>
       "smtp" \in reached \/ channel["web3forms"] # "off"
  /\ leadStep = "done" /\ channel["telegram"] = "up" => "telegram" \in reached

LEMMA LeadInvInit == LeadInit => LeadInv
  BY DEF LeadInit, LeadInv, LeadTypeOK, Channels, States

LEMMA LeadInvStep == LeadInv /\ [SubmitDemoRequest]_leadVars => LeadInv'
<1> SUFFICES ASSUME LeadInv, [SubmitDemoRequest]_leadVars PROVE LeadInv'
  OBVIOUS
<1> USE DEF LeadInv, LeadTypeOK, Tries, Channels, States
<1>1. CASE SaveAsTicket
  BY <1>1 DEF SaveAsTicket
<1>2. CASE SendViaNtfy
  BY <1>2 DEF SendViaNtfy
<1>3. CASE SendViaWeb3Forms
  BY <1>3 DEF SendViaWeb3Forms
<1>4. CASE SendViaSmtp
  BY <1>4 DEF SendViaSmtp
<1>5. CASE SendViaTelegram
  BY <1>5 DEF SendViaTelegram
<1>6. CASE UNCHANGED leadVars
  BY <1>6 DEF leadVars
<1> QED BY <1>1, <1>2, <1>3, <1>4, <1>5, <1>6 DEF SubmitDemoRequest

\* A lead reaches every channel that works, whatever the others do (submitDemoRequest).
THEOREM LeadsReach == LeadSpec => []LeadReaches
<1>1. LeadInv => LeadReaches
  BY DEF LeadInv, LeadTypeOK, LeadReaches, Channels, States
<1> QED BY <1>1, LeadInvInit, LeadInvStep, PTL DEF LeadSpec

-----------------------------------------------------------------------------
(* Connect                                                                 *)

RequestRows ==
  [step : {"idle", "create", "retrieve", "shop", "mirror"}, account : Accounts \cup {0},
   version : 0 .. MaxChanges + 1, event : {0} \cup (2 .. MaxChanges + 1), new : BOOLEAN]

\* A request that is not under way is none, and one that has an account to look after knows it.
Known(k) ==
  /\ k.step = "idle" => k = NoRequest
  /\ k.step \in {"retrieve", "shop", "mirror"} => k.account # 0

ConnectType ==
  /\ ConnectTypeOK
  /\ connecting \in [Connectors -> RequestRows]
  /\ \A c \in Connectors : Known(connecting[c])
  /\ changes \in 0 .. MaxChanges
  /\ crossed \in BOOLEAN /\ torn \in BOOLEAN

Busy(c) == connecting[c].step # "idle"

\* The shop's copy is behind the provider.
Stale == shopCopy.account # 0 /\ shopCopy.version # provider[shopCopy.account]

\* What a request knows, while it is the only one.
RequestFact(c) ==
  LET k == connecting[c]
  IN  /\ k.step = "create" => k.new
      /\ k.step = "retrieve" => ~k.new
      /\ k.new /\ k.step \in {"create", "shop"} => shopCopy.account = 0
      /\ k.step \in {"shop", "mirror"} => k.account # 0
      /\ ~k.new \/ k.step = "mirror" => shopCopy.account = k.account /\ k.account # 0
      /\ k.step = "shop" => k.version = provider[k.account] \/ events # {}
      /\ k.step = "mirror" => shopCopy.version = k.version

\* As long as no two requests overlap: whatever is stale has an event to come or in hand, and
\* the two copies differ only between their two writes.
SoleInv ==
  ~crossed =>
    /\ \A c, d \in Connectors : Busy(c) /\ Busy(d) => c = d
    /\ \A c \in Connectors : Busy(c) => RequestFact(c)
    /\ Stale => \/ events # {}
                \/ \E c \in Connectors : connecting[c].step \in {"retrieve", "shop"} /\ connecting[c].event # 0
    /\ mirror.account # 0 => mirror.account = shopCopy.account
    /\ ~torn /\ (\A c \in Connectors : connecting[c].step # "mirror") => mirror = shopCopy

ConnectInv == ConnectType /\ SoleInv

\* A request or an event starts when nothing else runs, or is counted as crossing.
LEMMA ConnectsEffect ==
  ASSUME ConnectInv, NEW c \in Connectors, NEW k \in RequestRows, k.step # "idle", Known(k), Connects(c, k)
  PROVE  /\ connecting' \in [Connectors -> RequestRows] /\ connecting'[c] = k /\ crossed' \in BOOLEAN
         /\ \A d \in Connectors : Known(connecting'[d])
         /\ ~crossed' => ~crossed /\ \A d \in Connectors : ~Busy(d) /\ (d # c => connecting'[d] = connecting[d])
<1>1. connecting' = [connecting EXCEPT ![c] = k]
  BY DEF Connects
<1>2. connecting' \in [Connectors -> RequestRows] /\ connecting'[c] = k
  BY <1>1 DEF ConnectInv, ConnectType
<1>3. \A d \in Connectors : d # c => connecting'[d] = connecting[d]
  BY <1>1 DEF ConnectInv, ConnectType
<1>4. crossed' = (crossed \/ \E d \in Connectors : connecting[d] # NoRequest)
  BY DEF Connects
<1>5. ~crossed' => ~crossed /\ \A d \in Connectors : ~Busy(d)
  <2>1. \A d \in Connectors : connecting[d] = NoRequest => ~Busy(d)
    BY DEF Busy, NoRequest, Request
  <2>2. ~crossed' => ~crossed /\ \A d \in Connectors : connecting[d] = NoRequest
    BY <1>4, Zenon
  <2> QED BY <2>1, <2>2, Zenon
<1>6. crossed' \in BOOLEAN
  BY <1>4
<1>7. \A d \in Connectors : Known(connecting'[d])
  BY <1>2, <1>3 DEF ConnectInv, ConnectType
<1> QED BY <1>2, <1>3, <1>5, <1>6, <1>7

\* A creation or a synchronisation starts.
LEMMA ConnectRoutesStep ==
  ASSUME ConnectInv, NEW c \in Connectors, ConnectRoutes(c)
  PROVE  ConnectInv'
<1> USE DEF ConnectInv
<1>1. UNCHANGED <<provider, shopCopy, mirror, events, changes, torn>>
  BY DEF ConnectRoutes, CreateConnectedAccount, SyncAccountStatus
<1>2. PICK k \in RequestRows :
        /\ Connects(c, k)
        /\ \/ k.step = "create" /\ k.new /\ shopCopy.account = 0
           \/ k.step = "retrieve" /\ ~k.new /\ shopCopy.account # 0 /\ k.account = shopCopy.account
  <2>1. CASE CreateConnectedAccount(c)
    <3> DEFINE k == Request("create", 0, 0, TRUE)
    <3>1. 0 \in 0 .. MaxChanges + 1
      BY ConnectAssumption
    <3>2. k \in RequestRows
      BY <3>1 DEF RequestRows, Request
    <3>3. k.step = "create" /\ k.new
      BY DEF Request
    <3> QED BY <2>1, <3>2, <3>3 DEF CreateConnectedAccount
  <2>2. CASE SyncAccountStatus(c)
    <3> DEFINE k == Request("retrieve", shopCopy.account, 0, FALSE)
    <3>1. shopCopy.account \in Accounts \cup {0}
      BY DEF ConnectType, ConnectTypeOK, StripeAccounts
    <3>2. 0 \in 0 .. MaxChanges + 1
      BY ConnectAssumption
    <3>3. k \in RequestRows
      BY <3>1, <3>2 DEF RequestRows, Request
    <3>4. k.step = "retrieve" /\ ~k.new /\ k.account = shopCopy.account
      BY DEF Request
    <3> QED BY <2>2, <3>3, <3>4 DEF SyncAccountStatus
  <2> QED BY <2>1, <2>2 DEF ConnectRoutes
<1>3. /\ connecting' \in [Connectors -> RequestRows] /\ connecting'[c] = k /\ crossed' \in BOOLEAN
      /\ \A d \in Connectors : Known(connecting'[d])
      /\ ~crossed' => ~crossed /\ \A d \in Connectors : ~Busy(d) /\ (d # c => connecting'[d] = connecting[d])
  BY <1>2, ConnectsEffect DEF Known
<1>4. ConnectType'
  BY <1>1, <1>3 DEF ConnectType, ConnectTypeOK
<1>5. SoleInv'
  <2> SUFFICES ASSUME ~crossed' PROVE SoleInv'
    BY DEF SoleInv
  <2>1. ~crossed /\ \A d \in Connectors : d # c => ~Busy(d)'
    BY <1>3 DEF Busy
  <2>2. RequestFact(c)'
    BY <1>1, <1>2, <1>3 DEF RequestFact
  <2>3. Stale' => events' # {}
    BY <1>1, <1>3 DEF SoleInv, Stale, Busy
  <2>4. mirror = shopCopy \/ torn
    BY <1>3, <2>1 DEF SoleInv, Busy
  <2>5. mirror.account # 0 => mirror.account = shopCopy.account
    BY <2>1 DEF SoleInv
  <2> QED BY <1>1, <2>1, <2>2, <2>3, <2>4, <2>5 DEF SoleInv
<1> QED BY <1>4, <1>5

\* An event is taken in hand, or dropped while the shop has no account.
LEMMA EventStep ==
  ASSUME ConnectInv, NEW c \in Connectors, NEW e \in events, HandleConnectAccountUpdated(c, e)
  PROVE  ConnectInv'
<1> USE DEF ConnectInv
<1>1. UNCHANGED <<provider, shopCopy, mirror, changes, torn>> /\ events' = events \ {e}
  BY DEF HandleConnectAccountUpdated
<1>2. e \in 2 .. MaxChanges + 1 /\ events' \subseteq 2 .. MaxChanges + 1
  BY <1>1 DEF ConnectType, ConnectTypeOK
<1>3. CASE shopCopy.account = 0
  <2>1. /\ UNCHANGED connecting
        /\ crossed' = (crossed \/ \E d \in Connectors : connecting[d] # NoRequest)
    BY <1>3 DEF HandleConnectAccountUpdated
  <2>2. ConnectType'
    BY <1>1, <1>2, <2>1 DEF ConnectType, ConnectTypeOK
  <2>3. ~crossed' => ~crossed /\ \A d \in Connectors : ~Busy(d)
    <3>1. \A d \in Connectors : connecting[d] = NoRequest => ~Busy(d)
      BY DEF Busy, NoRequest, Request
    <3>2. ~crossed' => ~crossed /\ \A d \in Connectors : connecting[d] = NoRequest
      BY <2>1, Zenon
    <3> QED BY <3>1, <3>2, Zenon
  <2>4. SoleInv'
    <3> SUFFICES ASSUME ~crossed' PROVE SoleInv'
      BY DEF SoleInv
    <3>1. ~crossed /\ \A d \in Connectors : ~Busy(d)'
      BY <2>1, <2>3 DEF Busy
    <3>2. ~Stale'
      BY <1>1, <1>3 DEF Stale
    <3> QED BY <1>1, <2>1, <3>1, <3>2 DEF SoleInv
  <2> QED BY <2>2, <2>4
<1>4. CASE shopCopy.account # 0
  <2> DEFINE k == Request("retrieve", shopCopy.account, e, FALSE)
  <2>1. Connects(c, k)
    BY <1>4 DEF HandleConnectAccountUpdated
  <2>2. k \in RequestRows /\ k.step = "retrieve" /\ ~k.new /\ k.account = shopCopy.account /\ k.event # 0
    <3>1. shopCopy.account \in Accounts \cup {0} /\ e \in 2 .. MaxChanges + 1 /\ e # 0
      BY <1>2, ConnectAssumption DEF ConnectType, ConnectTypeOK, StripeAccounts
    <3>2. 0 \in 0 .. MaxChanges + 1
      BY ConnectAssumption
    <3>3. k \in RequestRows
      BY <3>1, <3>2 DEF RequestRows, Request
    <3>4. k.step = "retrieve" /\ ~k.new /\ k.account = shopCopy.account /\ k.event = e
      BY DEF Request
    <3> QED BY <3>1, <3>3, <3>4
  <2> HIDE DEF k
  <2>3. /\ connecting' \in [Connectors -> RequestRows] /\ connecting'[c] = k /\ crossed' \in BOOLEAN
        /\ \A d \in Connectors : Known(connecting'[d])
        /\ ~crossed' => ~crossed /\ \A d \in Connectors : ~Busy(d) /\ (d # c => connecting'[d] = connecting[d])
    BY <1>4, <2>1, <2>2, ConnectsEffect DEF Known
  <2>4. ConnectType'
    BY <1>1, <1>2, <2>3 DEF ConnectType, ConnectTypeOK
  <2>5. SoleInv'
    <3> SUFFICES ASSUME ~crossed' PROVE SoleInv'
      BY DEF SoleInv
    <3>1. ~crossed /\ \A d \in Connectors : d # c => ~Busy(d)'
      BY <2>3 DEF Busy
    <3>2. RequestFact(c)'
      BY <1>1, <1>4, <2>2, <2>3 DEF RequestFact
    <3>3. connecting'[c].step \in {"retrieve", "shop"} /\ connecting'[c].event # 0
      BY <2>2, <2>3
    <3>4. mirror = shopCopy \/ torn
      BY <2>3, <3>1 DEF SoleInv, Busy
    <3>5. mirror.account # 0 => mirror.account = shopCopy.account
      BY <3>1 DEF SoleInv
    <3> QED BY <1>1, <3>1, <3>2, <3>3, <3>4, <3>5 DEF SoleInv
  <2> QED BY <2>4, <2>5
<1> QED BY <1>3, <1>4

\* A step of a request, which stays what it was but for its step, account and version.
LEMMA MovesEffect ==
  ASSUME ConnectInv, NEW c \in Connectors, NEW k \in RequestRows, Known(k),
         connecting' = [connecting EXCEPT ![c] = k]
  PROVE  /\ connecting' \in [Connectors -> RequestRows] /\ connecting'[c] = k
         /\ \A d \in Connectors : Known(connecting'[d])
         /\ \A d \in Connectors : d # c => connecting'[d] = connecting[d]
<1>1. /\ connecting' \in [Connectors -> RequestRows] /\ connecting'[c] = k
      /\ \A d \in Connectors : d # c => connecting'[d] = connecting[d]
  BY DEF ConnectInv, ConnectType
<1> QED BY <1>1 DEF ConnectInv, ConnectType

\* Only the request that moves is busy, as long as no two overlap.
LEMMA SoleBusy ==
  ASSUME ConnectInv, ~crossed, NEW c \in Connectors, Busy(c)
  PROVE  RequestFact(c) /\ \A d \in Connectors : d # c => ~Busy(d)
  BY DEF ConnectInv, SoleInv

LEMMA AccountCreatedStep ==
  ASSUME ConnectInv, NEW c \in Connectors, AccountCreated(c)
  PROVE  ConnectInv'
<1> USE DEF ConnectInv
<1> DEFINE F == {b \in Accounts : provider[b] = 0}
           a == Min(F)
           k == [connecting[c] EXCEPT !.step = "shop", !.account = a, !.version = 1]
<1>1. connecting[c] \in RequestRows /\ connecting[c].step = "create" /\ Busy(c)
  BY DEF ConnectType, AccountCreated, Busy
<1>2. a \in Accounts /\ provider[a] = 0
  <2>1. F \subseteq Nat /\ F # {}
    BY ConnectAssumption DEF AccountCreated
  <2>2. \E n \in F : \A m \in F : n <= m
    <3> HIDE DEF F
    <3> QED BY <2>1, NatLeast
  <2>3. a \in F
    <3> HIDE DEF F
    <3> QED BY <2>2 DEF Min
  <2> QED BY <2>3
<1>3. /\ provider' = [provider EXCEPT ![a] = 1] /\ connecting' = [connecting EXCEPT ![c] = k]
      /\ UNCHANGED <<shopCopy, mirror, events, changes, crossed, torn>>
  BY DEF AccountCreated
<1> HIDE DEF a
<1>4. /\ k \in RequestRows /\ k.step = "shop" /\ k.account = a /\ k.version = 1 /\ k.new = connecting[c].new
  <2>1. 1 \in 0 .. MaxChanges + 1
    BY ConnectAssumption
  <2> QED BY <1>1, <1>2, <2>1 DEF RequestRows
<1> HIDE DEF k
<1>5. /\ connecting' \in [Connectors -> RequestRows] /\ connecting'[c] = k
      /\ \A d \in Connectors : Known(connecting'[d])
      /\ \A d \in Connectors : d # c => connecting'[d] = connecting[d]
  <2>1. Known(k)
    BY <1>2, <1>4, ConnectAssumption DEF Known
  <2> QED BY <1>3, <1>4, <2>1, MovesEffect
<1>6. provider' \in [Accounts -> 0 .. MaxChanges + 1] /\ provider'[a] = 1
  <2>1. 1 \in 0 .. MaxChanges + 1
    BY ConnectAssumption
  <2> QED BY <1>2, <1>3, <2>1 DEF ConnectType, ConnectTypeOK
<1>7. ConnectType'
  BY <1>3, <1>5, <1>6 DEF ConnectType, ConnectTypeOK
<1>8. SoleInv'
  <2> SUFFICES ASSUME ~crossed' PROVE SoleInv'
    BY DEF SoleInv
  <2>1. ~crossed /\ RequestFact(c) /\ \A d \in Connectors : d # c => ~Busy(d)
    BY <1>1, <1>3, SoleBusy
  <2>2. shopCopy.account = 0 /\ connecting[c].new
    BY <1>1, <2>1 DEF RequestFact
  <2>3. \A d \in Connectors : d # c => ~Busy(d)'
    BY <1>5, <2>1 DEF Busy
  <2>4. a # 0
    BY <1>2, ConnectAssumption
  <2>5. RequestFact(c)'
    BY <1>3, <1>4, <1>5, <1>6, <2>2, <2>4 DEF RequestFact
  <2>6. ~Stale'
    BY <1>3, <2>2 DEF Stale
  <2>7. mirror = shopCopy \/ torn
    BY <1>1, <2>1 DEF SoleInv, Busy
  <2>8. mirror.account # 0 => mirror.account = shopCopy.account
    BY <2>1 DEF SoleInv
  <2> QED BY <1>3, <2>1, <2>3, <2>5, <2>6, <2>7, <2>8 DEF SoleInv
<1> QED BY <1>7, <1>8

\* The account is retrieved; the version is the provider's at that moment.
LEMMA RetrieveStep ==
  ASSUME ConnectInv, NEW c \in Connectors, Retrieve(c)
  PROVE  ConnectInv'
<1> USE DEF ConnectInv
<1> DEFINE a == connecting[c].account
           k == [connecting[c] EXCEPT !.step = "shop", !.version = provider[a]]
<1>1. connecting[c] \in RequestRows /\ connecting[c].step = "retrieve" /\ Busy(c) /\ a \in Accounts /\ a # 0
  <2>1. connecting[c] \in RequestRows /\ connecting[c].step = "retrieve"
    BY DEF ConnectType, Retrieve
  <2>2. a # 0
    BY <2>1 DEF ConnectType, Known
  <2> QED BY <2>1, <2>2 DEF Busy, RequestRows
<1>2. /\ connecting' = [connecting EXCEPT ![c] = k]
      /\ UNCHANGED <<provider, shopCopy, mirror, events, changes, crossed, torn>>
  BY DEF Retrieve
<1> HIDE DEF a
<1>3. /\ k \in RequestRows /\ k.step = "shop" /\ k.account = a /\ k.version = provider[a]
      /\ k.new = connecting[c].new /\ k.event = connecting[c].event
  <2>1. provider[a] \in 0 .. MaxChanges + 1
    BY <1>1 DEF ConnectType, ConnectTypeOK
  <2> QED BY <1>1, <2>1 DEF RequestRows, a
<1> HIDE DEF k
<1>4. /\ connecting' \in [Connectors -> RequestRows] /\ connecting'[c] = k
      /\ \A d \in Connectors : Known(connecting'[d])
      /\ \A d \in Connectors : d # c => connecting'[d] = connecting[d]
  <2>1. Known(k)
    BY <1>1, <1>3 DEF Known
  <2> QED BY <1>2, <1>3, <2>1, MovesEffect
<1>5. ConnectType'
  BY <1>2, <1>4 DEF ConnectType, ConnectTypeOK
<1>6. SoleInv'
  <2> SUFFICES ASSUME ~crossed' PROVE SoleInv'
    BY DEF SoleInv
  <2>1. ~crossed /\ RequestFact(c) /\ \A d \in Connectors : d # c => ~Busy(d)
    BY <1>1, <1>2, SoleBusy
  <2>2. \A d \in Connectors : d # c => ~Busy(d)'
    BY <1>4, <2>1 DEF Busy
  <2>3. RequestFact(c)'
    BY <1>1, <1>2, <1>3, <1>4, <2>1 DEF RequestFact, a
  <2>4. Stale' => \/ events' # {}
                  \/ \E d \in Connectors : connecting'[d].step \in {"retrieve", "shop"} /\ connecting'[d].event # 0
    BY <1>2, <1>3, <1>4, <2>1 DEF SoleInv, Stale, Busy
  <2>5. mirror = shopCopy \/ torn
    BY <1>1, <2>1 DEF SoleInv, Busy
  <2>6. mirror.account # 0 => mirror.account = shopCopy.account
    BY <2>1 DEF SoleInv
  <2> QED BY <1>2, <2>1, <2>2, <2>3, <2>4, <2>5, <2>6 DEF SoleInv
<1> QED BY <1>5, <1>6

\* The first of the two writes.
LEMMA WriteShopStep ==
  ASSUME ConnectInv, NEW c \in Connectors, WriteShop(c)
  PROVE  ConnectInv'
<1> USE DEF ConnectInv
<1> DEFINE k == [connecting[c] EXCEPT !.step = "mirror"]
<1>1. /\ connecting[c] \in RequestRows /\ connecting[c].step = "shop" /\ Busy(c)
      /\ connecting[c].account # 0 /\ connecting[c].account \in Accounts
      /\ connecting[c].version \in 0 .. MaxChanges + 1 /\ connecting[c].new \in BOOLEAN
  <2>1. connecting[c] \in RequestRows /\ connecting[c].step = "shop"
    BY DEF ConnectType, WriteShop
  <2>2. connecting[c].account # 0
    BY <2>1 DEF ConnectType, Known
  <2> QED BY <2>1, <2>2 DEF Busy, RequestRows
<1>2. /\ connecting' = [connecting EXCEPT ![c] = k]
      /\ shopCopy' = [account |-> IF connecting[c].new THEN connecting[c].account ELSE shopCopy.account,
                      version |-> connecting[c].version]
      /\ UNCHANGED <<provider, mirror, events, changes, crossed, torn>>
  BY DEF WriteShop
<1>3. /\ k \in RequestRows /\ k.step = "mirror" /\ k.account = connecting[c].account
      /\ k.version = connecting[c].version /\ k.new = connecting[c].new
  BY <1>1 DEF RequestRows
<1> HIDE DEF k
<1>4. /\ connecting' \in [Connectors -> RequestRows] /\ connecting'[c] = k
      /\ \A d \in Connectors : Known(connecting'[d])
      /\ \A d \in Connectors : d # c => connecting'[d] = connecting[d]
  <2>1. Known(k)
    BY <1>1, <1>3 DEF Known
  <2> QED BY <1>2, <1>3, <2>1, MovesEffect
<1>5. shopCopy' \in StripeAccounts
  <2>1. shopCopy.account \in Accounts \cup {0}
    BY DEF ConnectType, ConnectTypeOK, StripeAccounts
  <2> QED BY <1>1, <1>2, <2>1 DEF StripeAccounts
<1>6. ConnectType'
  BY <1>2, <1>4, <1>5 DEF ConnectType, ConnectTypeOK
<1>7. SoleInv'
  <2> SUFFICES ASSUME ~crossed' PROVE SoleInv'
    BY DEF SoleInv
  <2>1. ~crossed /\ RequestFact(c) /\ \A d \in Connectors : d # c => ~Busy(d)
    BY <1>1, <1>2, SoleBusy
  <2>2. \A d \in Connectors : d # c => ~Busy(d)'
    BY <1>4, <2>1 DEF Busy
  <2>3. shopCopy'.account = connecting[c].account /\ shopCopy'.version = connecting[c].version
    BY <1>1, <1>2, <2>1 DEF RequestFact
  <2>4. RequestFact(c)'
    BY <1>1, <1>3, <1>4, <2>3 DEF RequestFact
  <2>5. Stale' => events' # {}
    BY <1>1, <1>2, <2>1, <2>3 DEF RequestFact, Stale
  <2>6. mirror.account # 0 => mirror.account = shopCopy'.account
    BY <1>1, <2>1, <2>3 DEF SoleInv, RequestFact
  <2>7. connecting'[c].step = "mirror"
    BY <1>3, <1>4
  <2> QED BY <1>2, <2>1, <2>2, <2>4, <2>5, <2>6, <2>7 DEF SoleInv
<1> QED BY <1>6, <1>7

\* A request ends.
LEMMA EndEffect ==
  ASSUME ConnectInv, NEW c \in Connectors, connecting' = [connecting EXCEPT ![c] = NoRequest]
  PROVE  /\ connecting' \in [Connectors -> RequestRows] /\ ~Busy(c)' /\ connecting'[c].step = "idle"
         /\ \A d \in Connectors : Known(connecting'[d])
         /\ \A d \in Connectors : d # c => connecting'[d] = connecting[d]
<1>1. NoRequest \in RequestRows /\ NoRequest.step = "idle" /\ Known(NoRequest)
  <2>1. 0 \in 0 .. MaxChanges + 1
    BY ConnectAssumption
  <2> QED BY <2>1 DEF NoRequest, Request, RequestRows, Known
<1> QED BY <1>1, MovesEffect DEF Busy

\* The second write: the copies agree again.
LEMMA WriteMirrorStep ==
  ASSUME ConnectInv, NEW c \in Connectors, WriteMirror(c)
  PROVE  ConnectInv'
<1> USE DEF ConnectInv
<1>1. /\ connecting[c] \in RequestRows /\ connecting[c].step = "mirror" /\ Busy(c)
      /\ connecting[c].account # 0 /\ connecting[c].account \in Accounts
      /\ connecting[c].version \in 0 .. MaxChanges + 1
  <2>1. connecting[c] \in RequestRows /\ connecting[c].step = "mirror"
    BY DEF ConnectType, WriteMirror
  <2>2. connecting[c].account # 0
    BY <2>1 DEF ConnectType, Known
  <2> QED BY <2>1, <2>2 DEF Busy, RequestRows
<1>2. /\ connecting' = [connecting EXCEPT ![c] = NoRequest] /\ torn' = FALSE
      /\ mirror' = [account |-> IF mirror.account = 0 THEN connecting[c].account ELSE mirror.account,
                    version |-> connecting[c].version]
      /\ UNCHANGED <<provider, shopCopy, events, changes, crossed>>
  BY DEF WriteMirror
<1>3. /\ connecting' \in [Connectors -> RequestRows] /\ ~Busy(c)' /\ connecting'[c].step = "idle"
      /\ \A d \in Connectors : Known(connecting'[d])
      /\ \A d \in Connectors : d # c => connecting'[d] = connecting[d]
  BY <1>2, EndEffect
<1>4. mirror' \in StripeAccounts
  <2>1. mirror.account \in Accounts \cup {0}
    BY DEF ConnectType, ConnectTypeOK, StripeAccounts
  <2> QED BY <1>1, <1>2, <2>1 DEF StripeAccounts
<1>5. ConnectType'
  BY <1>2, <1>3, <1>4 DEF ConnectType, ConnectTypeOK
<1>6. SoleInv'
  <2> SUFFICES ASSUME ~crossed' PROVE SoleInv'
    BY DEF SoleInv
  <2>1. ~crossed /\ RequestFact(c) /\ \A d \in Connectors : d # c => ~Busy(d)
    BY <1>1, <1>2, SoleBusy
  <2>2. \A d \in Connectors : ~Busy(d)'
    BY <1>3, <2>1 DEF Busy
  <2>3. shopCopy.account = connecting[c].account /\ shopCopy.version = connecting[c].version
    BY <1>1, <2>1 DEF RequestFact
  <2>4. mirror'.account = shopCopy.account /\ mirror'.version = shopCopy.version
    BY <1>2, <2>1, <2>3 DEF SoleInv
  <2>5. shopCopy = [account |-> shopCopy.account, version |-> shopCopy.version]
    BY DEF ConnectType, ConnectTypeOK, StripeAccounts
  <2>6. mirror' = shopCopy
    BY <1>2, <2>4, <2>5
  <2>7. Stale' => events' # {}
    BY <1>1, <1>2, <2>1 DEF SoleInv, Stale, Busy
  <2> QED BY <1>2, <2>2, <2>4, <2>6, <2>7 DEF SoleInv
<1> QED BY <1>5, <1>6

\* A failure gives its event back, and may leave the copies apart.
LEMMA ConnectFailsStep ==
  ASSUME ConnectInv, NEW c \in Connectors, ConnectFails(c)
  PROVE  ConnectInv'
<1> USE DEF ConnectInv
<1>1. connecting[c] \in RequestRows /\ Busy(c) /\ connecting[c].event \in {0} \cup (2 .. MaxChanges + 1)
  <2>1. connecting[c] \in RequestRows /\ Known(connecting[c])
    BY DEF ConnectType
  <2> QED BY <2>1 DEF ConnectFails, Busy, Known, RequestRows
<1>2. /\ connecting' = [connecting EXCEPT ![c] = NoRequest]
      /\ torn' = (torn \/ connecting[c].step = "mirror")
      /\ events' = IF connecting[c].event = 0 THEN events ELSE events \cup {connecting[c].event}
      /\ UNCHANGED <<provider, shopCopy, mirror, changes, crossed>>
  BY DEF ConnectFails
<1>3. /\ connecting' \in [Connectors -> RequestRows] /\ ~Busy(c)' /\ connecting'[c].step = "idle"
      /\ \A d \in Connectors : Known(connecting'[d])
      /\ \A d \in Connectors : d # c => connecting'[d] = connecting[d]
  BY <1>2, EndEffect
<1>4. events' \subseteq 2 .. MaxChanges + 1
  BY <1>1, <1>2 DEF ConnectType, ConnectTypeOK
<1>5. ConnectType'
  BY <1>2, <1>3, <1>4 DEF ConnectType, ConnectTypeOK
<1>6. SoleInv'
  <2> SUFFICES ASSUME ~crossed' PROVE SoleInv'
    BY DEF SoleInv
  <2>1. ~crossed /\ \A d \in Connectors : d # c => ~Busy(d)
    BY <1>1, <1>2, SoleBusy
  <2>2. \A d \in Connectors : ~Busy(d)'
    BY <1>3, <2>1 DEF Busy
  <2>3. Stale' => events' # {}
    BY <1>2, <2>1 DEF SoleInv, Stale, Busy
  <2>4. ~torn' => mirror = shopCopy
    BY <1>2, <2>1 DEF SoleInv, Busy
  <2>5. mirror.account # 0 => mirror.account = shopCopy.account
    BY <2>1 DEF SoleInv
  <2> QED BY <1>2, <2>2, <2>3, <2>4, <2>5 DEF SoleInv
<1> QED BY <1>5, <1>6

\* Whatever changes at the provider comes with an event.
LEMMA AccountChangesStep ==
  ASSUME ConnectInv, NEW a \in Accounts, AccountChanges(a)
  PROVE  ConnectInv'
<1> USE DEF ConnectInv
<1>1. /\ provider' = [provider EXCEPT ![a] = changes + 2] /\ events' = events \cup {changes + 2}
      /\ changes' = changes + 1 /\ changes < MaxChanges
      /\ UNCHANGED <<shopCopy, mirror, connecting, crossed, torn>>
  BY DEF AccountChanges
<1>2. changes + 2 \in 2 .. MaxChanges + 1 /\ changes + 2 \in 0 .. MaxChanges + 1 /\ changes' \in 0 .. MaxChanges
  BY <1>1, ConnectAssumption DEF ConnectType
<1>3. ConnectType'
  BY <1>1, <1>2 DEF ConnectType, ConnectTypeOK
<1>4. events' # {}
  BY <1>1
<1>5. SoleInv'
  BY <1>1, <1>4 DEF SoleInv, RequestFact, Busy
<1> QED BY <1>3, <1>5

LEMMA ConnectInvInit == ConnectInit => ConnectInv
<1> SUFFICES ASSUME ConnectInit PROVE ConnectInv
  OBVIOUS
<1>1. 0 \in 0 .. MaxChanges + 1 /\ 0 \in 0 .. MaxChanges
  BY ConnectAssumption
<1>2. NoRequest \in RequestRows /\ NoRequest.step = "idle" /\ Known(NoRequest)
  BY <1>1 DEF NoRequest, Request, RequestRows, Known
<1>3. Unconnected \in StripeAccounts /\ Unconnected.account = 0
  BY <1>1 DEF Unconnected, StripeAccounts
<1>4. ConnectType
  BY <1>1, <1>2, <1>3 DEF ConnectInit, ConnectType, ConnectTypeOK
<1>5. SoleInv
  BY <1>2, <1>3 DEF ConnectInit, SoleInv, Busy, Stale
<1> QED BY <1>4, <1>5 DEF ConnectInv

LEMMA ConnectInvStep == ConnectInv /\ [ConnectNext]_connectVars => ConnectInv'
<1> SUFFICES ASSUME ConnectInv, [ConnectNext]_connectVars PROVE ConnectInv'
  OBVIOUS
<1>1. CASE UNCHANGED connectVars
  BY <1>1 DEF connectVars, ConnectInv, ConnectType, ConnectTypeOK, SoleInv, RequestFact, Busy, Stale
<1>2. CASE ConnectNext
  BY <1>2, ConnectRoutesStep, AccountCreatedStep, RetrieveStep, WriteShopStep, WriteMirrorStep, ConnectFailsStep,
     EventStep, AccountChangesStep DEF ConnectNext
<1> QED BY <1>1, <1>2

\* Both copies of the provider's account are current when nothing is under way, for any
\* accounts, requests, changes and failures.
THEOREM AccountStaysCurrent == ConnectSpec => []AccountHolds
<1>1. ConnectInit => ConnectInv
  BY ConnectInvInit
<1>2. ConnectInv /\ [ConnectNext]_connectVars => ConnectInv'
  BY ConnectInvStep
<1>3. ConnectInv => AccountHolds
  <2> SUFFICES ASSUME ConnectInv PROVE AccountHolds
    OBVIOUS
  <2>1. Settled => events = {} /\ \A c \in Connectors : connecting[c].step = "idle"
    BY DEF Settled, NoRequest, Request
  <2>2. CapabilitiesCurrent
    BY <2>1 DEF CapabilitiesCurrent, ConnectInv, SoleInv, Stale
  <2>3. CopiesAgree
    BY <2>1 DEF CopiesAgree, ConnectInv, SoleInv
  <2> QED BY <2>2, <2>3 DEF AccountHolds
<1> QED BY <1>1, <1>2, <1>3, PTL DEF ConnectSpec

-----------------------------------------------------------------------------
(* Media: objects and the rows that own them                               *)

\* An upload has checked its file, unless it is a favicon: the object is named for its content,
\* and it goes where the visibility of its row sends it.
Sound(put, row) ==
  /\ put \in Objects /\ row \in Visibility \cup Branding \cup {"document"}
  /\ (put.area # "private") <=> (row \in PublicRows)
  /\ put.area # "branding" \/ row = "logo" => put.ext = put.content

Removed(k) == object[k] = NoObject \/ k \in broken

\* What is known of a request.
TaskFact(u) ==
  LET t == task[u]
  IN  /\ t.step = "idle" => t = Idle
      /\ t.step \notin {"idle", "dropdoc"} => t.key \in spent
      /\ t.step = "dropdoc" => t.key \in spent \cup {0}
      /\ t.step \in {"put", "row"} =>
           Sound(t.put, t.row) /\ (t.kyc # 0 => t.row = "KYC") /\ media[t.key] = "none"
      /\ t.step = "put" => object[t.key] = NoObject
      /\ t.step = "row" => object[t.key] = t.put
      /\ t.step \in {"unlink", "drop"} => Removed(t.key)

\* What is known of a key: a row without an object, or an object without a row, has a request
\* that will make up for it.
KeyFact(k) ==
  /\ k \notin spent => object[k] = NoObject /\ media[k] = "none"
  /\ object[k] # NoObject /\ media[k] = "none" /\ k \notin broken =>
       \E u \in Uploaders : task[u].step = "row" /\ task[u].key = k
  /\ object[k] = NoObject /\ media[k] # "none" /\ k \notin broken =>
       \E u \in Uploaders : task[u].step \in {"unlink", "drop"} /\ task[u].key = k
  /\ object[k] # NoObject /\ media[k] # "none" =>
       ((object[k].area # "private") <=> (media[k] \in PublicRows))
  /\ object[k].area # "branding" \/ media[k] = "logo" => object[k].ext = object[k].content

\* An upload is alone with its key until the row is there.
Alone(u, w) == (u # w /\ task[u].step \in {"put", "row"}) => task[w].key # task[u].key

FileInv ==
  /\ MediaTypeOK
  /\ \A u \in Uploaders : TaskFact(u)
  /\ \A k \in Keys : KeyFact(k)
  /\ \A u, w \in Uploaders : Alone(u, w)

OnlyTask(u) == \A w \in Uploaders : w # u => task'[w] = task[w]

OnlyKey(k) ==
  /\ \A j \in Keys : j # k => object'[j] = object[j] /\ media'[j] = media[j]
  /\ broken \subseteq broken' /\ broken' \subseteq broken \cup {k}
  /\ spent \subseteq spent' /\ spent' \subseteq spent \cup {k}

\* A step of one request on one key concerns no other request and no other key.
LEMMA FileStep ==
  ASSUME FileInv, NEW u \in Uploaders, NEW k \in Keys \cup {0}, MediaTypeOK', OnlyTask(u), OnlyKey(k),
         task[u].key \in {k, 0}, task'[u].key \in {k, 0}, TaskFact(u)', k \in Keys => KeyFact(k)',
         \A w \in Uploaders : w # u /\ task[w].key = k /\ k # 0 => TaskFact(w)',
         \A w \in Uploaders : w # u => Alone(u, w)' /\ Alone(w, u)'
  PROVE  FileInv'
<1> USE DEF FileInv
<1>1. 0 \notin Keys
  BY MediaAssumption
<1>2. ASSUME NEW w \in Uploaders PROVE TaskFact(w)'
  <2>1. CASE w = u \/ (task[w].key = k /\ k # 0)
    BY <2>1
  <2>2. CASE w # u /\ (task[w].key # k \/ k = 0)
    <3>1. task'[w] = task[w] /\ TaskFact(w) /\ task[w].key \in Keys \cup {0}
      BY <2>2 DEF OnlyTask, MediaTypeOK
    <3>2. task[w].key \in Keys =>
            /\ object'[task[w].key] = object[task[w].key] /\ media'[task[w].key] = media[task[w].key]
            /\ Removed(task[w].key) => object'[task[w].key] = NoObject \/ task[w].key \in broken'
      BY <1>1, <2>2 DEF OnlyKey, Removed
    <3>3. task[w].step \notin {"idle", "dropdoc"} => task[w].key \in Keys
      BY <3>1 DEF TaskFact, MediaTypeOK
    <3>4. spent \subseteq spent'
      BY DEF OnlyKey
    <3> QED BY <3>1, <3>2, <3>3, <3>4 DEF TaskFact, Removed
  <2> QED BY <2>1, <2>2
<1>3. ASSUME NEW j \in Keys PROVE KeyFact(j)'
  <2>1. CASE j = k
    BY <2>1
  <2>2. CASE j # k
    <3>1. KeyFact(j) /\ object'[j] = object[j] /\ media'[j] = media[j]
      BY <2>2 DEF OnlyKey
    <3>2. (j \notin spent' => j \notin spent) /\ (j \notin broken' => j \notin broken)
      BY DEF OnlyKey
    <3>3. \A w \in Uploaders : task[w].key = j => task'[w] = task[w]
      BY <1>1, <2>2 DEF OnlyTask
    <3> QED BY <3>1, <3>2, <3>3 DEF KeyFact
  <2> QED BY <2>1, <2>2
<1>4. ASSUME NEW v \in Uploaders, NEW w \in Uploaders PROVE Alone(v, w)'
  <2>1. CASE v = u \/ w = u
    BY <2>1 DEF Alone
  <2>2. CASE v # u /\ w # u
    BY <2>2 DEF Alone, OnlyTask
  <2> QED BY <2>1, <2>2
<1> QED BY <1>2, <1>3, <1>4

\* The rows of requests.
TaskRows ==
  [step : {"idle", "put", "row", "doc", "remove", "unlink", "drop", "dropdoc"}, key : Keys \cup {0},
   put : Objects \cup {NoObject}, row : Visibility \cup Branding \cup {"none", "document"}, kyc : Nat]

LEMMA IdleRow == Idle \in TaskRows /\ Idle.step = "idle" /\ Idle.key = 0 /\ Idle.kyc = 0
  BY DEF Idle, TaskRows

\* One request moves.
LEMMA TaskMoves ==
  ASSUME FileInv, NEW u \in Uploaders, NEW t \in TaskRows, task' = [task EXCEPT ![u] = t]
  PROVE  task' \in [Uploaders -> TaskRows] /\ task'[u] = t /\ OnlyTask(u)
  BY DEF FileInv, MediaTypeOK, TaskRows, OnlyTask

\* A request knows its row.
LEMMA TaskKnown ==
  ASSUME FileInv, NEW u \in Uploaders
  PROVE  /\ task[u] \in TaskRows /\ TaskFact(u)
         /\ task[u].step \notin {"idle", "dropdoc"} => task[u].key \in spent /\ task[u].key \in Keys /\ task[u].key # 0
         /\ task[u] = [step |-> task[u].step, key |-> task[u].key, put |-> task[u].put, row |-> task[u].row, kyc |-> task[u].kyc]
<1>1. task[u] \in TaskRows /\ TaskFact(u) /\ spent \subseteq Keys
  BY DEF FileInv, MediaTypeOK, TaskRows
<1>2. 0 \notin Keys
  BY MediaAssumption
<1>3. task[u].step \notin {"idle", "dropdoc"} => task[u].key \in spent
  BY <1>1 DEF TaskFact
<1>4. task[u] = [step |-> task[u].step, key |-> task[u].key, put |-> task[u].put, row |-> task[u].row, kyc |-> task[u].kyc]
  BY <1>1 DEF TaskRows
<1> QED BY <1>1, <1>2, <1>3, <1>4

\* A key is drawn once.
LEMMA FreshKey ==
  ASSUME FileInv, spent # Keys
  PROVE  Min(Keys \ spent) \in Keys \ spent
<1> DEFINE S == Keys \ spent
<1>1. S \subseteq Nat /\ S # {}
  BY MediaAssumption DEF FileInv, MediaTypeOK
<1>2. \E n \in S : \A m \in S : n <= m
  <2> HIDE DEF S
  <2> QED BY <1>1, NatLeast
<1>3. Min(S) \in S
  <2> HIDE DEF S
  <2> QED BY <1>2 DEF Min
<1> QED BY <1>3

\* A request draws a key and has an object for it.
LEMMA UploadsStep ==
  ASSUME FileInv, NEW u \in Uploaders, NEW put, NEW row, NEW kyc \in Nat, Sound(put, row), kyc # 0 => row = "KYC",
         Uploads(u, put, row, kyc)
  PROVE  FileInv'
<1> USE DEF FileInv
<1>0. PICK k : k = Min(Keys \ spent)
  OBVIOUS
<1> DEFINE t == [step |-> "put", key |-> k, put |-> put, row |-> row, kyc |-> kyc]
<1>1. /\ task[u] = Idle /\ spent' = spent \cup {k} /\ task' = [task EXCEPT ![u] = t]
      /\ UNCHANGED <<object, media, broken, mediaFaults>>
  BY <1>0 DEF Uploads
<1>2. k \in Keys /\ k \notin spent /\ k # 0
  <2>1. spent # Keys
    BY DEF Uploads
  <2> QED BY <1>0, <2>1, FreshKey, MediaAssumption
<1>3. t \in TaskRows /\ t.step = "put" /\ t.key = k /\ t.put = put /\ t.row = row /\ t.kyc = kyc
  BY <1>2 DEF TaskRows, Sound
<1> HIDE DEF t
<1>4. task' \in [Uploaders -> TaskRows] /\ task'[u] = t /\ OnlyTask(u)
  BY <1>1, <1>3, TaskMoves
<1>5. MediaTypeOK'
  BY <1>1, <1>2, <1>4 DEF MediaTypeOK, TaskRows
<1>6. OnlyKey(k)
  BY <1>1 DEF OnlyKey
<1>7. ASSUME NEW w \in Uploaders PROVE task[w].key # k
  <2>1. task[w].key \in spent \cup {0}
    BY IdleRow, TaskKnown DEF TaskFact
  <2> QED BY <1>2, <2>1
<1>8. KeyFact(k) /\ object[k] = NoObject /\ media[k] = "none"
  BY <1>2 DEF KeyFact
<1>9. KeyFact(k)'
  BY <1>1, <1>8 DEF KeyFact, NoObject
<1>10. TaskFact(u)'
  BY <1>1, <1>2, <1>3, <1>4, <1>8 DEF TaskFact
<1>11. \A w \in Uploaders : w # u => Alone(u, w)' /\ Alone(w, u)'
  BY <1>3, <1>4, <1>7 DEF Alone, OnlyTask
<1> QED BY <1>1, <1>2, <1>3, <1>4, <1>5, <1>6, <1>7, <1>9, <1>10, <1>11, IdleRow, FileStep

LEMMA PutObjectStep ==
  ASSUME FileInv, NEW u \in Uploaders, PutObject(u)
  PROVE  FileInv'
<1> USE DEF FileInv
<1>0. PICK k : k = task[u].key
  OBVIOUS
<1> DEFINE t == [task[u] EXCEPT !.step = "row"]
<1>1. /\ task[u].step = "put" /\ object' = [object EXCEPT ![k] = task[u].put] /\ task' = [task EXCEPT ![u] = t]
      /\ UNCHANGED <<media, spent, broken, mediaFaults>>
  BY <1>0 DEF PutObject
<1>2. k \in Keys /\ k \in spent /\ task[u] \in TaskRows /\ TaskFact(u) /\ k # 0
  BY <1>0, <1>1, TaskKnown
<1>3. t \in TaskRows /\ t.step = "row" /\ t.key = k /\ t.put = task[u].put /\ t.row = task[u].row /\ t.kyc = task[u].kyc
  BY <1>0, <1>2 DEF TaskRows
<1>4. Sound(task[u].put, task[u].row) /\ media[k] = "none" /\ (task[u].kyc # 0 => task[u].row = "KYC")
  BY <1>0, <1>1, <1>2 DEF TaskFact
<1> HIDE DEF t
<1>5. task' \in [Uploaders -> TaskRows] /\ task'[u] = t /\ OnlyTask(u)
  BY <1>1, <1>3, TaskMoves
<1>6. object' \in [Keys -> Objects \cup {NoObject}] /\ object'[k] = task[u].put
  BY <1>1, <1>2, <1>4 DEF MediaTypeOK, Sound
<1>7. MediaTypeOK'
  BY <1>1, <1>5, <1>6 DEF MediaTypeOK, TaskRows
<1>8. OnlyKey(k)
  BY <1>1 DEF OnlyKey, MediaTypeOK
<1>9. ASSUME NEW w \in Uploaders, w # u PROVE task[w].key # k
  BY <1>0, <1>1, <1>9 DEF Alone
<1>10. KeyFact(k)'
  BY <1>1, <1>2, <1>3, <1>4, <1>5, <1>6 DEF KeyFact, Sound
<1>11. TaskFact(u)'
  BY <1>1, <1>2, <1>3, <1>4, <1>5, <1>6 DEF TaskFact
<1>12. \A w \in Uploaders : w # u => Alone(u, w)' /\ Alone(w, u)'
  BY <1>3, <1>5, <1>9 DEF Alone, OnlyTask
<1> QED BY <1>0, <1>2, <1>3, <1>5, <1>7, <1>8, <1>9, <1>10, <1>11, <1>12, FileStep

LEMMA CreateRowStep ==
  ASSUME FileInv, NEW u \in Uploaders, CreateRow(u)
  PROVE  /\ FileInv' /\ task[u].step = "row" /\ task[u].key \in Keys /\ media[task[u].key] = "none"
         /\ media' = [media EXCEPT ![task[u].key] = task[u].row] /\ OnlyTask(u)
         /\ task'[u].step \in {"idle", "doc"} /\ (task'[u].step = "doc" => task'[u].key = task[u].key /\ task[u].row = "KYC")
<1> USE DEF FileInv
<1>0. PICK k : k = task[u].key
  OBVIOUS
<1> DEFINE t == IF task[u].kyc # 0 THEN [task[u] EXCEPT !.step = "doc"] ELSE Idle
<1>1. /\ task[u].step = "row" /\ media' = [media EXCEPT ![k] = task[u].row] /\ task' = [task EXCEPT ![u] = t]
      /\ UNCHANGED <<object, spent, broken, mediaFaults>>
  BY <1>0 DEF CreateRow
<1>2. k \in Keys /\ k \in spent /\ task[u] \in TaskRows /\ TaskFact(u) /\ k # 0
  BY <1>0, <1>1, TaskKnown
<1>3. /\ t \in TaskRows /\ t.step \in {"idle", "doc"} /\ (t.step = "idle" => t = Idle)
      /\ t.key \in {k, 0} /\ (t.step = "doc" => t.key = k /\ task[u].kyc # 0)
  BY <1>0, <1>2, IdleRow DEF TaskRows
<1>4. /\ Sound(task[u].put, task[u].row) /\ media[k] = "none" /\ object[k] = task[u].put
      /\ task[u].kyc # 0 => task[u].row = "KYC"
  BY <1>0, <1>1, <1>2 DEF TaskFact
<1> HIDE DEF t
<1>5. task' \in [Uploaders -> TaskRows] /\ task'[u] = t /\ OnlyTask(u)
  BY <1>1, <1>3, TaskMoves
<1>6. media' \in [Keys -> Visibility \cup Branding \cup {"none", "document"}] /\ media'[k] = task[u].row
  BY <1>1, <1>2 DEF MediaTypeOK, TaskRows
<1>7. MediaTypeOK'
  BY <1>1, <1>5, <1>6 DEF MediaTypeOK, TaskRows
<1>8. OnlyKey(k)
  BY <1>1 DEF OnlyKey, MediaTypeOK
<1>9. ASSUME NEW w \in Uploaders, w # u PROVE task[w].key # k
  BY <1>0, <1>1, <1>9 DEF Alone
<1>10. KeyFact(k)'
  <2>1. object[k] # NoObject /\ task[u].row # "none"
    BY <1>4 DEF Sound, NoObject, Objects, Visibility, Branding
  <2> QED BY <1>1, <1>2, <1>4, <1>6, <2>1 DEF KeyFact, Sound
<1>11. TaskFact(u)'
  BY <1>1, <1>2, <1>3, <1>5 DEF TaskFact
<1>12. \A w \in Uploaders : w # u => Alone(u, w)' /\ Alone(w, u)'
  <2>1. \A w \in Uploaders : task[w].step \in {"put", "row"} => task[w].key # 0
    BY TaskKnown
  <2> QED BY <1>3, <1>5, <1>9, <2>1 DEF Alone, OnlyTask
<1>13. FileInv'
  BY <1>0, <1>2, <1>3, <1>5, <1>7, <1>8, <1>9, <1>10, <1>11, <1>12, FileStep
<1> QED BY <1>0, <1>1, <1>2, <1>3, <1>4, <1>5, <1>13

\* A deletion begins: of a row that is there, or of a document that has no file.
LEMMA RemovalBegins ==
  ASSUME FileInv, NEW u \in Uploaders, NEW k \in Keys \cup {0}, NEW t \in TaskRows,
         t.step = (IF k = 0 THEN "dropdoc" ELSE "remove"), t.key = k,
         task[u] = Idle, k # 0 => media[k] # "none", task' = [task EXCEPT ![u] = t],
         UNCHANGED <<object, media, spent, broken>>
  PROVE  FileInv' /\ OnlyTask(u) /\ task'[u] = t
<1> USE DEF FileInv
<1>3. task' \in [Uploaders -> TaskRows] /\ task'[u] = t /\ OnlyTask(u)
  BY TaskMoves
<1>4. k # 0 => k \in spent /\ k \in Keys
  BY DEF KeyFact
<1>5. MediaTypeOK'
  BY <1>3 DEF MediaTypeOK, TaskRows
<1>6. OnlyKey(k)
  BY DEF OnlyKey
<1>7. k \in Keys => KeyFact(k)'
  <2>1. \A w \in Uploaders : task[w].step \in {"row", "unlink", "drop"} => task'[w] = task[w]
    BY <1>3, IdleRow DEF OnlyTask
  <2> QED BY <2>1 DEF KeyFact
<1>8. TaskFact(u)'
  BY <1>3, <1>4 DEF TaskFact
<1>9. \A w \in Uploaders : w # u => TaskFact(w)'
  BY <1>3 DEF OnlyTask, TaskFact, Removed
<1>10. \A w \in Uploaders : w # u => Alone(u, w)' /\ Alone(w, u)'
  <2>1. \A w \in Uploaders : task[w].step \in {"put", "row"} => task[w].key # k
    BY TaskKnown, ZenonT(60) DEF TaskFact
  <2> QED BY <1>3, <2>1 DEF Alone, OnlyTask
<1>11. task[u].key \in {k, 0} /\ task'[u].key \in {k, 0}
  BY <1>3, IdleRow
<1>12. FileInv'
  BY <1>3, <1>5, <1>6, <1>7, <1>8, <1>9, <1>10, <1>11, FileStep
<1> QED BY <1>3, <1>12

LEMMA DeleteStep ==
  ASSUME FileInv, NEW u \in Uploaders, NEW k \in Keys, Delete(u, k)
  PROVE  FileInv' /\ OnlyTask(u) /\ task'[u].step = "remove" /\ media' = media
<1> DEFINE t == [Idle EXCEPT !.step = "remove", !.key = k]
<1>1. k # 0
  BY MediaAssumption
<1>2. t \in TaskRows /\ t.step = "remove" /\ t.key = k
  BY DEF Idle, TaskRows
<1>3. /\ task[u] = Idle /\ media[k] # "none" /\ task' = [task EXCEPT ![u] = t]
      /\ UNCHANGED <<object, media, spent, broken>>
  BY DEF Delete
<1> HIDE DEF t
<1> QED BY <1>1, <1>2, <1>3, RemovalBegins

LEMMA DeleteImageStep ==
  ASSUME FileInv, NEW u \in Uploaders, DeleteImage(u)
  PROVE  FileInv' /\ OnlyTask(u) /\ task'[u].step # "doc" /\ media' = media /\ task[u].step = "remove"
<1> USE DEF FileInv
<1>0. PICK k : k = task[u].key
  OBVIOUS
<1> DEFINE t == [task[u] EXCEPT !.step = IF task[u].kyc # 0 THEN "unlink" ELSE "drop"]
<1>1. /\ task[u].step = "remove" /\ task' = [task EXCEPT ![u] = t] /\ media' = media /\ spent' = spent
      /\ \/ object' = [object EXCEPT ![k] = NoObject] /\ broken' = broken
         \/ object' = object /\ broken' = broken \cup {k}
  BY <1>0 DEF DeleteImage
<1>2. k \in Keys /\ k \in spent /\ task[u] \in TaskRows /\ k # 0
  BY <1>0, <1>1, TaskKnown
<1>3. t \in TaskRows /\ t.step \in {"unlink", "drop"} /\ t.key = k
  BY <1>0, <1>2 DEF TaskRows
<1> HIDE DEF t
<1>4. task' \in [Uploaders -> TaskRows] /\ task'[u] = t /\ OnlyTask(u)
  BY <1>1, <1>3, TaskMoves
<1>5. object' \in [Keys -> Objects \cup {NoObject}] /\ (object'[k] = NoObject \/ (k \in broken' /\ object'[k] = object[k]))
  BY <1>1, <1>2 DEF MediaTypeOK
<1>6. MediaTypeOK'
  BY <1>1, <1>2, <1>4, <1>5 DEF MediaTypeOK, TaskRows
<1>7. OnlyKey(k)
  BY <1>1 DEF OnlyKey, MediaTypeOK
<1>8. KeyFact(k)'
  <2>1. KeyFact(k) /\ NoObject.ext = NoObject.content
    BY <1>2 DEF NoObject
  <2> QED BY <1>1, <1>2, <1>3, <1>4, <1>5, <2>1 DEF KeyFact
<1>9. TaskFact(u)'
  BY <1>1, <1>2, <1>3, <1>4, <1>5 DEF TaskFact, Removed
<1>10. ASSUME NEW w \in Uploaders, w # u, task[w].key = k PROVE TaskFact(w)'
  <2>1. task'[w] = task[w] /\ TaskFact(w) /\ task[w].step \notin {"put", "row"}
    BY <1>0, <1>4, <1>10 DEF OnlyTask, Alone
  <2> QED BY <1>1, <1>5, <1>10, <2>1 DEF TaskFact, Removed
<1>11. \A w \in Uploaders : w # u => Alone(u, w)' /\ Alone(w, u)'
  BY <1>0, <1>3, <1>4 DEF Alone, OnlyTask
<1>12. FileInv'
  BY <1>0, <1>2, <1>3, <1>4, <1>6, <1>7, <1>8, <1>9, <1>10, <1>11, FileStep
<1> QED BY <1>1, <1>3, <1>4, <1>12

\* A step that leaves keys alone: the next one of a deletion, or the end of a request that has
\* nothing left to do on its key.
LEMMA OnwardStep ==
  ASSUME FileInv, NEW u \in Uploaders, NEW t \in TaskRows,
         \/ t = Idle /\ task[u].step \in {"doc", "dropdoc"}
         \/ t.step = "drop" /\ t.key = task[u].key /\ task[u].step = "unlink",
         task' = [task EXCEPT ![u] = t], UNCHANGED <<object, media, spent, broken>>
  PROVE  FileInv' /\ OnlyTask(u)
<1> USE DEF FileInv
<1>0. PICK k : k = task[u].key
  OBVIOUS
<1>1. task' \in [Uploaders -> TaskRows] /\ task'[u] = t /\ OnlyTask(u)
  BY TaskMoves
<1>2. t.key \in {k, 0} /\ t.step \in {"idle", "drop"} /\ (t.step = "idle" => t = Idle) /\ task[u].step \in {"doc", "dropdoc", "unlink"}
  BY <1>0, IdleRow
<1>3. MediaTypeOK'
  BY <1>1 DEF MediaTypeOK, TaskRows
<1>4. OnlyKey(k) /\ k \in Keys \cup {0}
  BY <1>0 DEF OnlyKey, MediaTypeOK
<1>5. k \in Keys => KeyFact(k)'
  <2>1. \A w \in Uploaders : task[w].step = "row" => task'[w] = task[w]
    BY <1>1, <1>2 DEF OnlyTask
  <2>2. \A w \in Uploaders : task[w].step \in {"unlink", "drop"} =>
           task'[w].step \in {"unlink", "drop"} /\ task'[w].key = task[w].key
    BY <1>1 DEF OnlyTask
  <2> QED BY <2>1, <2>2 DEF KeyFact
<1>6. TaskFact(u)'
  <2>1. TaskFact(u)
    OBVIOUS
  <2>2. t.step = "drop" => t.key = task[u].key /\ task[u].step = "unlink"
    BY IdleRow
  <2> QED BY <1>1, <1>2, <2>1, <2>2 DEF TaskFact, Removed
<1>7. \A w \in Uploaders : w # u => TaskFact(w)'
  BY <1>1 DEF OnlyTask, TaskFact, Removed
<1>8. \A w \in Uploaders : w # u => Alone(u, w)' /\ Alone(w, u)'
  <2>1. \A w \in Uploaders : task[w].step \in {"put", "row"} => task[w].key # 0
    BY TaskKnown
  <2> QED BY <1>0, <1>1, <1>2, <2>1 DEF Alone, OnlyTask
<1>9. FileInv'
  BY <1>0, <1>1, <1>2, <1>3, <1>4, <1>5, <1>6, <1>7, <1>8, FileStep
<1> QED BY <1>1, <1>9

LEMMA DropRowStep ==
  ASSUME FileInv, NEW u \in Uploaders, DropRow(u)
  PROVE  /\ FileInv' /\ OnlyTask(u) /\ task'[u].step # "doc" /\ task[u].step = "drop" /\ task[u].key \in Keys
         /\ media' = [media EXCEPT ![task[u].key] = "none"]
<1> USE DEF FileInv
<1>0. PICK k : k = task[u].key
  OBVIOUS
<1> DEFINE t == IF task[u].kyc # 0 THEN [task[u] EXCEPT !.step = "dropdoc"] ELSE Idle
<1>1. /\ task[u].step = "drop" /\ media' = [media EXCEPT ![k] = "none"] /\ task' = [task EXCEPT ![u] = t]
      /\ UNCHANGED <<object, spent, broken, mediaFaults>>
  BY <1>0 DEF DropRow
<1>2. k \in Keys /\ k \in spent /\ task[u] \in TaskRows /\ TaskFact(u) /\ k # 0
  BY <1>0, <1>1, TaskKnown
<1>3. /\ t \in TaskRows /\ t.step \in {"idle", "dropdoc"} /\ (t.step = "idle" => t = Idle)
      /\ t.key \in {k, 0}
  BY <1>0, <1>2, IdleRow DEF TaskRows
<1>4. Removed(k)
  BY <1>0, <1>1, <1>2 DEF TaskFact
<1> HIDE DEF t
<1>5. task' \in [Uploaders -> TaskRows] /\ task'[u] = t /\ OnlyTask(u)
  BY <1>1, <1>3, TaskMoves
<1>6. media' \in [Keys -> Visibility \cup Branding \cup {"none", "document"}] /\ media'[k] = "none"
  BY <1>1, <1>2 DEF MediaTypeOK
<1>7. MediaTypeOK'
  BY <1>1, <1>5, <1>6 DEF MediaTypeOK, TaskRows
<1>8. OnlyKey(k)
  BY <1>1 DEF OnlyKey, MediaTypeOK
<1>9. KeyFact(k)'
  BY <1>1, <1>2, <1>4, <1>6 DEF KeyFact, Removed
<1>10. TaskFact(u)'
  BY <1>1, <1>2, <1>3, <1>5 DEF TaskFact
<1>11. ASSUME NEW w \in Uploaders, w # u, task[w].key = k PROVE TaskFact(w)'
  <2>1. task'[w] = task[w] /\ TaskFact(w) /\ task[w].step \notin {"put", "row"}
    BY <1>0, <1>5, <1>11 DEF OnlyTask, Alone
  <2> QED BY <1>1, <2>1 DEF TaskFact, Removed
<1>12. \A w \in Uploaders : w # u => Alone(u, w)' /\ Alone(w, u)'
  <2>1. \A w \in Uploaders : task[w].step \in {"put", "row"} => task[w].key # 0
    BY TaskKnown
  <2> QED BY <1>0, <1>3, <1>5, <2>1 DEF Alone, OnlyTask
<1>13. FileInv'
  BY <1>0, <1>2, <1>3, <1>5, <1>7, <1>8, <1>9, <1>10, <1>11, <1>12, FileStep
<1> QED BY <1>0, <1>1, <1>2, <1>3, <1>5, <1>13

\* What is accepted is an image or a PDF, whatever the client says of it.
LEMMA SafeContent ==
  ASSUME NEW f \in FileRows, NEW kind \in {"image", "media", "kyc", "document"}, AssertSafe(f, kind)
  PROVE  f.content \in Images \cup {"pdf"}
<1>1. DetectMagicMime(f) \in Allowed(kind)
  BY DEF AssertSafe
<1>2. Allowed(kind) \subseteq Images \cup {"pdf"}
  BY DEF Allowed, Images
<1>3. f.content # "text"
  BY <1>1, <1>2 DEF DetectMagicMime, Images
<1> QED BY <1>1, <1>2, <1>3 DEF DetectMagicMime

\* From then on it is stored as what it is.
LEMMA SafeObject ==
  ASSUME NEW f \in FileRows, f.content \in Images \cup {"pdf"}
  PROVE  /\ Sound(UploadPublic(ApplySafeMeta(f), f.content), "PUBLIC")
         /\ Sound(UploadPublic(ApplySafeMeta(f), f.content), "document")
         /\ Sound(UploadPrivate(ApplySafeMeta(f)), "PRIVATE") /\ Sound(UploadPrivate(ApplySafeMeta(f)), "KYC")
<1> DEFINE g == ApplySafeMeta(f)
<1>1. g.declared = f.content /\ g.content = f.content
  BY DEF ApplySafeMeta, FileRows
<1> HIDE DEF g
<1>2. CASE f.content \in Images
  <2>1. UploadPublic(g, f.content) = WebP("public") /\ UploadPrivate(g) = WebP("private")
    BY <1>1, <1>2 DEF UploadPublic, UploadPrivate
  <2>2. WebP("public") \in Objects /\ WebP("private") \in Objects
    BY DEF WebP, Objects
  <2>3. /\ WebP("public").ext = WebP("public").content /\ WebP("private").ext = WebP("private").content
        /\ WebP("public").area = "public" /\ WebP("private").area = "private"
    BY DEF WebP
  <2> QED BY <2>1, <2>2, <2>3 DEF Sound, Visibility, PublicRows, Branding, g
<1>3. CASE f.content \notin Images
  <2> DEFINE p == [area |-> "public", content |-> "pdf", ext |-> "pdf"]
             q == [area |-> "private", content |-> "pdf", ext |-> "pdf"]
  <2>1. UploadPublic(g, f.content) = p /\ UploadPrivate(g) = q
    BY <1>1, <1>3 DEF UploadPublic, UploadFile, UploadPrivate
  <2>2. p \in Objects /\ q \in Objects /\ p.ext = p.content /\ q.ext = q.content /\ p.area = "public" /\ q.area = "private"
    BY DEF Objects, Contents
  <2> HIDE DEF p, q
  <2> QED BY <2>1, <2>2 DEF Sound, Visibility, PublicRows, Branding, g
<1> QED BY <1>2, <1>3

LEMMA CreateStep ==
  ASSUME FileInv, NEW u \in Uploaders, NEW f \in Files, NEW entity \in {"kyc", "product", "other"},
         NEW asked \in Visibility \cup {"none"}, Create(u, f, entity, asked)
  PROVE  FileInv'
<1> DEFINE visibility == VisibilityOf(entity, asked)
           put == IF visibility = "PUBLIC" THEN UploadPublic(ApplySafeMeta(f), f.content) ELSE UploadPrivate(ApplySafeMeta(f))
<1>1. visibility \in Visibility
  BY DEF VisibilityOf, Visibility
<1>2. f \in FileRows /\ AssertSafe(f, KindOf(visibility, f)) /\ Uploads(u, put, visibility, 0)
  BY MediaAssumption DEF Create
<1> HIDE DEF visibility
<1>3. f.content \in Images \cup {"pdf"}
  BY <1>2, SafeContent DEF KindOf
<1>4. Sound(put, visibility)
  BY <1>1, <1>2, <1>3, SafeObject DEF Visibility
<1> HIDE DEF put
<1> QED BY <1>2, <1>4, UploadsStep

LEMMA AddProductDocumentStep ==
  ASSUME FileInv, NEW u \in Uploaders, NEW f \in Files, AddProductDocument(u, f)
  PROVE  FileInv'
<1> DEFINE put == UploadPublic(ApplySafeMeta(f), f.content)
<1>1. f \in FileRows /\ AssertSafe(f, "document") /\ Uploads(u, put, "document", 0)
  BY MediaAssumption DEF AddProductDocument
<1>2. Sound(put, "document")
  BY <1>1, SafeContent, SafeObject
<1> HIDE DEF put
<1> QED BY <1>1, <1>2, UploadsStep

\* The branding's files: what is converted is named for what it is, and a favicon is its own.
LEMMA UploadBrandingStep ==
  ASSUME FileInv, NEW u \in Uploaders, NEW f \in Files, NEW column \in Branding, UploadBranding(u, f, column)
  PROVE  FileInv'
<1>1. CASE column = "favicon" /\ Uploads(u, UploadFile(f, "branding"), column, 0)
  <2> DEFINE put == UploadFile(f, "branding")
  <2>1. f.content \in Contents
    BY MediaAssumption DEF FileRows
  <2>2. put \in Objects /\ put.area = "branding"
    BY <2>1 DEF UploadFile, Objects
  <2> HIDE DEF put
  <2>3. Sound(put, column)
    BY <1>1, <2>2 DEF Sound, PublicRows, Branding
  <2> QED BY <1>1, <2>3, UploadsStep DEF put
<1>2. CASE Uploads(u, WebP("branding"), column, 0)
  <2>1. WebP("branding") \in Objects /\ WebP("branding").area = "branding" /\ WebP("branding").ext = WebP("branding").content
    BY DEF WebP, Objects
  <2>2. Sound(WebP("branding"), column)
    BY <2>1 DEF Sound, PublicRows
  <2> QED BY <1>2, <2>2, UploadsStep
<1> QED BY <1>1, <1>2 DEF UploadBranding

\* A request that works on no key of its own, or ends with it, takes the files of a column from
\* the tenant's row; they are left behind.  No request is at work on the new file k but it.
LEMMA ColumnStep ==
  ASSUME FileInv, NEW u \in Uploaders, NEW column \in Branding, NEW k \in spent \cup {0},
         task[u].step = "idle" \/ (task[u].step = "row" /\ task[u].key = k /\ task[u].row = column),
         k # 0 => task[u].step = "row",
         task' = [task EXCEPT ![u] = Idle], broken' = broken \cup Replaced(column), UNCHANGED <<object, spent>>,
         media' = [j \in Keys |-> IF j = k THEN column ELSE IF j \in Replaced(column) THEN "none" ELSE media[j]],
         task[u].step = "row" => k # 0
  PROVE  FileInv'
<1> USE DEF FileInv
<1>0. 0 \notin Keys /\ spent \subseteq Keys
  BY MediaAssumption DEF MediaTypeOK
<1>1. task' \in [Uploaders -> TaskRows] /\ task'[u] = Idle /\ OnlyTask(u)
  BY IdleRow, TaskMoves
<1>2. \A j \in Keys : /\ j = k => media'[j] = column
                      /\ j # k /\ media[j] = column => media'[j] = "none" /\ j \in broken'
                      /\ j # k /\ media[j] # column => media'[j] = media[j]
  BY DEF Replaced
<1>3. MediaTypeOK'
  <2>1. Replaced(column) \subseteq spent
    BY DEF Replaced, KeyFact, Branding
  <2>2. media' \in [Keys -> Visibility \cup Branding \cup {"none", "document"}]
    BY DEF MediaTypeOK
  <2> QED BY <1>1, <2>1, <2>2 DEF MediaTypeOK, TaskRows
<1>4. ASSUME NEW w \in Uploaders, w # u PROVE task'[w] = task[w] /\ (k # 0 => task[w].key # k)
  BY <1>1, <1>4 DEF OnlyTask, Alone
<1>5. ASSUME NEW w \in Uploaders PROVE TaskFact(w)'
  <2>1. CASE w = u
    BY <1>1, <2>1, IdleRow DEF TaskFact
  <2>2. CASE w # u
    <3>1. task'[w] = task[w] /\ TaskFact(w)
      BY <1>4, <2>2
    <3>2. task[w].step \notin {"idle", "dropdoc"} => task[w].key \in Keys /\ task[w].key # k
      BY <1>0, <1>4, <2>2, TaskKnown
    <3>3. task[w].step \in {"put", "row"} => media'[task[w].key] = "none"
      BY <1>2, <3>1, <3>2 DEF TaskFact, Branding
    <3>4. broken \subseteq broken'
      OBVIOUS
    <3> QED BY <3>1, <3>3, <3>4 DEF TaskFact, Removed
  <2> QED BY <2>1, <2>2
<1>6. ASSUME NEW j \in Keys PROVE KeyFact(j)'
  <2>1. CASE j = k
    <3>1. task[u].step = "row" /\ task[u].row = column /\ task[u].key = j
      BY <1>0, <2>1
    <3>2. Sound(task[u].put, column) /\ object[j] = task[u].put /\ j \in spent
      BY <1>0, <2>1, <3>1 DEF TaskFact
    <3>3. object[j] # NoObject
      BY <3>2 DEF Sound, NoObject, Objects
    <3>4. media'[j] = column /\ column # "none"
      BY <1>2, <2>1 DEF Branding
    <3> QED BY <3>2, <3>3, <3>4 DEF KeyFact, Sound
  <2>2. CASE j # k /\ media[j] = column
    <3>1. KeyFact(j) /\ media'[j] = "none" /\ j \in broken'
      BY <1>2, <2>2
    <3>2. object[j].area # "branding" => object[j].ext = object[j].content
      BY <3>1 DEF KeyFact
    <3> QED BY <3>1, <3>2 DEF KeyFact
  <2>3. CASE j # k /\ media[j] # column
    <3>1. KeyFact(j) /\ media'[j] = media[j]
      BY <1>2, <2>3
    <3>2. \A w \in Uploaders : task[w].step \in {"row", "unlink", "drop"} /\ task[w].key = j => task'[w] = task[w]
      BY <1>0, <1>4, <2>3
    <3> QED BY <3>1, <3>2 DEF KeyFact
  <2> QED BY <2>1, <2>2, <2>3
<1>7. \A v, w \in Uploaders : Alone(v, w)'
  <2>1. \A w \in Uploaders : task[w].step \in {"put", "row"} => task[w].key # 0
    BY TaskKnown
  <2> QED BY <1>1, <1>4, <2>1, IdleRow DEF Alone
<1> QED BY <1>3, <1>5, <1>6, <1>7

LEMMA SetBrandingUrlStep ==
  ASSUME FileInv, NEW u \in Uploaders, NEW column \in Branding, SetBrandingUrl(u, column)
  PROVE  FileInv'
<1>1. 0 \notin Keys
  BY MediaAssumption
<1>2. task[u].step = "idle" /\ task' = [task EXCEPT ![u] = Idle]
  BY IdleRow DEF SetBrandingUrl, FileInv, MediaTypeOK
<1>3. media' = [j \in Keys |-> IF j = 0 THEN column ELSE IF j \in Replaced(column) THEN "none" ELSE media[j]]
  BY <1>1 DEF SetBrandingUrl
<1>4. broken' = broken \cup Replaced(column) /\ UNCHANGED <<object, spent>>
  BY DEF SetBrandingUrl
<1> QED BY <1>2, <1>3, <1>4, ColumnStep

LEMMA WriteBrandingStep ==
  ASSUME FileInv, NEW u \in Uploaders, WriteBranding(u)
  PROVE  FileInv'
<1>0. PICK k, column : k = task[u].key /\ column = task[u].row
  OBVIOUS
<1>1. task[u].step = "row" /\ column \in Branding
  BY <1>0 DEF WriteBranding
<1>2. k \in spent /\ k # 0
  BY <1>0, <1>1, TaskKnown
<1>3. /\ task' = [task EXCEPT ![u] = Idle] /\ broken' = broken \cup Replaced(column) /\ UNCHANGED <<object, spent>>
      /\ media' = [j \in Keys |-> IF j = k THEN column ELSE IF j \in Replaced(column) THEN "none" ELSE media[j]]
  BY <1>0 DEF WriteBranding
<1> QED BY <1>0, <1>1, <1>2, <1>3, ColumnStep

\* A request that gives up leaves its key behind.
LEMMA GivesUpStep ==
  ASSUME FileInv, NEW u \in Uploaders, task' = [task EXCEPT ![u] = Idle],
         broken' = broken \cup ({task[u].key} \ {0}), UNCHANGED <<object, media, spent>>
  PROVE  FileInv' /\ OnlyTask(u) /\ task'[u] = Idle
<1> USE DEF FileInv
<1>0. PICK k : k = task[u].key
  OBVIOUS
<1>1. /\ task' = [task EXCEPT ![u] = Idle] /\ broken' = broken \cup ({k} \ {0})
      /\ UNCHANGED <<object, media, spent>>
  BY <1>0
<1>2. k \in Keys \cup {0} /\ (k # 0 => k \in spent)
  <2>1. k = 0 \/ task[u].step = "dropdoc" \/ task[u].step \notin {"idle", "dropdoc"}
    BY <1>0, IdleRow, TaskKnown DEF TaskFact
  <2> QED BY <1>0, <2>1, TaskKnown DEF TaskFact, TaskRows
<1>3. task' \in [Uploaders -> TaskRows] /\ task'[u] = Idle /\ OnlyTask(u)
  BY <1>1, IdleRow, TaskMoves
<1>4. MediaTypeOK'
  BY <1>1, <1>2, <1>3 DEF MediaTypeOK, TaskRows
<1>5. OnlyKey(k)
  BY <1>1 DEF OnlyKey
<1>6. k \in Keys => KeyFact(k)'
  <2> SUFFICES ASSUME k \in Keys PROVE KeyFact(k)'
    OBVIOUS
  <2>1. k \in broken' /\ KeyFact(k)
    BY <1>1, MediaAssumption
  <2> QED BY <1>1, <2>1 DEF KeyFact
<1>7. TaskFact(u)'
  BY <1>3, IdleRow DEF TaskFact
<1>8. \A w \in Uploaders : w # u => TaskFact(w)'
  BY <1>1, <1>3 DEF OnlyTask, TaskFact, Removed
<1>9. \A w \in Uploaders : w # u => Alone(u, w)' /\ Alone(w, u)'
  <2>1. \A w \in Uploaders : task[w].step \in {"put", "row"} => task[w].key # 0
    BY TaskKnown
  <2> QED BY <1>3, <2>1, IdleRow DEF Alone, OnlyTask
<1>10. FileInv'
  BY <1>0, <1>2, <1>3, <1>4, <1>5, <1>6, <1>7, <1>8, <1>9, IdleRow, FileStep
<1> QED BY <1>3, <1>10

LEMMA StopsStep ==
  ASSUME FileInv, NEW u \in Uploaders, Stops(u)
  PROVE  FileInv' /\ OnlyTask(u) /\ task'[u] = Idle /\ media' = media
  BY GivesUpStep DEF Stops

LEMMA RefuseBrandingStep ==
  ASSUME FileInv, NEW u \in Uploaders, RefuseBranding(u)
  PROVE  FileInv'
<1>1. task[u].key # 0
  BY TaskKnown DEF RefuseBranding
<1>2. broken' = broken \cup ({task[u].key} \ {0})
  BY <1>1 DEF RefuseBranding
<1> QED BY <1>2, GivesUpStep DEF RefuseBranding

\* The uploads and deletions of the media routes and of the branding.
LEMMA MediaStep ==
  ASSUME FileInv, NEW u \in Uploaders, MediaRoutes(u) \/ BrandingRoutes(u) \/ TaskSteps(u)
  PROVE  FileInv'
  BY CreateStep, AddProductDocumentStep, DeleteStep, PutObjectStep, CreateRowStep, DeleteImageStep, DropRowStep, StopsStep,
     UploadBrandingStep, SetBrandingUrlStep, WriteBrandingStep, RefuseBrandingStep
     DEF MediaRoutes, BrandingRoutes, TaskSteps

LEMMA FileInvInit == MediaInit => FileInv
<1> SUFFICES ASSUME MediaInit PROVE FileInv
  OBVIOUS
<1>1. MediaTypeOK
  BY IdleRow DEF MediaInit, MediaTypeOK, TaskRows
<1>2. \A u \in Uploaders : TaskFact(u)
  BY IdleRow DEF MediaInit, TaskFact
<1>3. \A k \in Keys : KeyFact(k)
  BY DEF MediaInit, KeyFact, NoObject
<1>4. \A u, w \in Uploaders : Alone(u, w)
  BY IdleRow DEF MediaInit, Alone
<1> QED BY <1>1, <1>2, <1>3, <1>4 DEF FileInv

LEMMA FileInvHolds == FileInv => FilesHold
<1> SUFFICES ASSUME FileInv PROVE FilesHold
  OBVIOUS
<1>1. \A k \in Keys : KeyFact(k)
  BY DEF FileInv
<1>2. RowsMatchObjects
  BY <1>1 DEF RowsMatchObjects, AtWork, KeyFact, FileInv, MediaTypeOK
<1>3. AddressMatchesVisibility
  <2>1. \A k \in Keys : object[k] # NoObject => object[k].area \in {"public", "private", "branding"}
    BY DEF FileInv, MediaTypeOK, Objects
  <2> QED BY <1>1, <2>1 DEF AddressMatchesVisibility, KeyFact, ToPublicUrl
<1>4. StoredAsNamed
  BY <1>1 DEF StoredAsNamed, KeyFact
<1> QED BY <1>2, <1>3, <1>4 DEF FilesHold

-----------------------------------------------------------------------------
(* KYC: documents and their files                                          *)

\* A document that has a file has its MediaAsset, and that is a private one.
LinkInv ==
  /\ FileInv /\ KycTypeOK
  /\ \A d \in Docs : doc[d].file # 0 => media[doc[d].file] = "KYC"
  /\ \A u \in Uploaders : task[u].step = "doc" => media[task[u].key] \in {"none", "KYC"}

LEMMA UploadKycDocumentStep ==
  ASSUME LinkInv, NEW u \in Uploaders, NEW f \in Scans, UploadKycDocument(u, f)
  PROVE  LinkInv' /\ OnlyTask(u) /\ task'[u].step = "put"
<1> USE DEF LinkInv
<1> DEFINE put == UploadPrivate(ApplySafeMeta(f))
<1>0. PICK d : d = Min(NextDoc)
  OBVIOUS
<1>1. f \in FileRows /\ AssertSafe(f, "kyc") /\ NextDoc # {} /\ Uploads(u, put, "KYC", d) /\ UNCHANGED kycVars
  BY <1>0, KycAssumption DEF UploadKycDocument
<1>2. d \in Nat
  <2>1. NextDoc \subseteq Nat
    BY KycAssumption DEF NextDoc
  <2>2. \E n \in NextDoc : \A m \in NextDoc : n <= m
    BY <1>1, <2>1, NatLeast
  <2> QED BY <1>0, <2>1, <2>2 DEF Min
<1>3. Sound(put, "KYC")
  BY <1>1, SafeContent, SafeObject
<1> HIDE DEF put
<1>4. FileInv'
  BY <1>1, <1>2, <1>3, UploadsStep
<1>5. OnlyTask(u) /\ task'[u].step = "put"
  <2>1. task' = [task EXCEPT ![u] = [step |-> "put", key |-> Min(Keys \ spent), put |-> put, row |-> "KYC", kyc |-> d]]
    BY <1>1 DEF Uploads
  <2> QED BY <2>1 DEF FileInv, MediaTypeOK, OnlyTask
<1>6. media' = media /\ doc' = doc /\ KycTypeOK'
  BY <1>1 DEF Uploads, kycVars, KycTypeOK
<1>7. \A w \in Uploaders : task'[w].step = "doc" => media'[task'[w].key] \in {"none", "KYC"}
  BY <1>5, <1>6 DEF OnlyTask
<1> QED BY <1>4, <1>5, <1>6, <1>7

LEMMA DeleteKycDocumentStep ==
  ASSUME LinkInv, NEW u \in Uploaders, NEW d \in Docs, NEW admin \in BOOLEAN, DeleteKycDocument(u, d, admin)
  PROVE  LinkInv'
<1> USE DEF LinkInv
<1>0. PICK k : k = doc[d].file
  OBVIOUS
<1> DEFINE t == [Idle EXCEPT !.step = IF k = 0 THEN "dropdoc" ELSE "remove", !.key = k, !.kyc = d]
<1>1. k \in Keys \cup {0} /\ d \in Nat
  BY <1>0, KycAssumption DEF KycTypeOK, KycDocuments
<1>2. t \in TaskRows /\ t.step = (IF k = 0 THEN "dropdoc" ELSE "remove") /\ t.key = k
  BY <1>1 DEF Idle, TaskRows
<1>3. /\ task[u] = Idle /\ task' = [task EXCEPT ![u] = t] /\ UNCHANGED <<object, media, spent, broken>>
      /\ UNCHANGED <<doc, verifying, review, decided>>
  BY <1>0 DEF DeleteKycDocument
<1> HIDE DEF t
<1>4. FileInv' /\ OnlyTask(u) /\ task'[u] = t
  BY <1>0, <1>1, <1>2, <1>3, RemovalBegins, ZenonT(60)
<1>5. KycTypeOK'
  BY <1>3 DEF KycTypeOK
<1>6. \A w \in Uploaders : task'[w].step = "doc" => media'[task'[w].key] \in {"none", "KYC"}
  BY <1>2, <1>3, <1>4 DEF OnlyTask
<1> QED BY <1>3, <1>4, <1>5, <1>6

LEMMA UploadStepStep ==
  ASSUME LinkInv, NEW u \in Uploaders, UploadStep(u)
  PROVE  LinkInv' /\ OnlyTask(u) /\ (task[u].step \in {"put", "row"} => task'[u].step \in {"row", "idle", "doc"})
<1> USE DEF LinkInv
<1>1. UNCHANGED <<doc, verifying, review, decisions, decided, overlap, onlyApprovals>> /\ KycTypeOK'
  BY DEF UploadStep, kycVars, KycTypeOK
<1>2. CASE PutObject(u)
  <2>1. FileInv'
    BY <1>2, PutObjectStep
  <2>2. media' = media /\ OnlyTask(u) /\ task'[u].step = "row"
    BY <1>2, TaskKnown DEF PutObject, OnlyTask, FileInv, MediaTypeOK
  <2> QED BY <1>1, <2>1, <2>2 DEF OnlyTask
<1>3. CASE CreateRow(u)
  <2>0. PICK k : k = task[u].key
    OBVIOUS
  <2>1. /\ FileInv' /\ k \in Keys /\ media[k] = "none" /\ OnlyTask(u) /\ task[u].step = "row"
        /\ media' = [media EXCEPT ![k] = task[u].row]
        /\ task'[u].step \in {"idle", "doc"} /\ (task'[u].step = "doc" => task'[u].key = k /\ task[u].row = "KYC")
    BY <1>3, <2>0, CreateRowStep
  <2>2. \A j \in Keys : j # k => media'[j] = media[j]
    BY <2>1 DEF FileInv, MediaTypeOK
  <2>3. media'[k] = task[u].row
    BY <2>1 DEF FileInv, MediaTypeOK
  <2>4. \A e \in Docs : doc'[e].file # 0 => media'[doc'[e].file] = "KYC"
    BY <1>1, <2>1, <2>2 DEF KycTypeOK, KycDocuments
  <2>5. ASSUME NEW w \in Uploaders, task'[w].step = "doc" PROVE media'[task'[w].key] \in {"none", "KYC"}
    <3>1. CASE w = u
      BY <2>1, <2>3, <2>5, <3>1
    <3>2. CASE w # u
      <4>1. task'[w] = task[w] /\ task[w].key # k /\ task[w].key \in Keys
        BY <2>0, <2>1, <2>5, <3>2, TaskKnown DEF OnlyTask, FileInv, Alone
      <4> QED BY <2>2, <2>5, <4>1
    <3> QED BY <3>1, <3>2
  <2> QED BY <1>1, <2>1, <2>4, <2>5
<1>4. CASE DeleteImage(u)
  <2>1. FileInv' /\ OnlyTask(u) /\ task'[u].step # "doc" /\ media' = media /\ task[u].step = "remove"
    BY <1>4, DeleteImageStep
  <2> QED BY <1>1, <2>1 DEF OnlyTask
<1> QED BY <1>2, <1>3, <1>4 DEF UploadStep

LEMMA CreateKycDocumentStep ==
  ASSUME LinkInv, NEW u \in Uploaders, CreateKycDocument(u)
  PROVE  LinkInv' /\ OnlyTask(u) /\ task'[u] = Idle
<1> USE DEF LinkInv
<1>0. PICK k : k = task[u].key
  OBVIOUS
<1>1. /\ task[u].step = "doc" /\ task' = [task EXCEPT ![u] = Idle]
      /\ doc' = IF media[k] = "none" THEN doc ELSE [doc EXCEPT ![task[u].kyc] = [status |-> "PENDING", file |-> k]]
      /\ UNCHANGED <<object, media, spent, broken>> /\ UNCHANGED <<verifying, review, decided>>
  BY <1>0 DEF CreateKycDocument
<1>2. k \in Keys /\ media[k] \in {"none", "KYC"}
  BY <1>0, <1>1, TaskKnown
<1>3. FileInv' /\ OnlyTask(u)
  BY <1>1, IdleRow, OnwardStep
<1>4. [status |-> "PENDING", file |-> k] \in KycDocuments
  BY <1>2 DEF KycDocuments, KycDocStatus
<1>5. KycTypeOK'
  BY <1>1, <1>4 DEF KycTypeOK
<1>6. \A e \in Docs : doc'[e].file # 0 => media'[doc'[e].file] = "KYC"
  BY <1>1, <1>2 DEF KycTypeOK
<1>7. task'[u] = Idle
  BY <1>1 DEF FileInv, MediaTypeOK
<1>8. \A w \in Uploaders : task'[w].step = "doc" => media'[task'[w].key] \in {"none", "KYC"}
  BY <1>1, <1>3, <1>7, IdleRow DEF OnlyTask
<1> QED BY <1>3, <1>5, <1>6, <1>7, <1>8

\* Links are only ever cut.
LEMMA WithoutEffect ==
  ASSUME LinkInv, NEW k, doc' = Without(k)
  PROVE  /\ doc' \in [Docs -> KycDocuments]
         /\ \A d \in Docs : /\ doc'[d].status = doc[d].status
                            /\ doc'[d].file # 0 => doc'[d].file = doc[d].file /\ doc[d].file # k
<1> USE DEF LinkInv
<1>1. \A d \in Docs : doc[d] \in KycDocuments
  BY DEF KycTypeOK
<1>2. \A d \in Docs : /\ [doc[d] EXCEPT !.file = 0] \in KycDocuments
                      /\ [doc[d] EXCEPT !.file = 0].status = doc[d].status /\ [doc[d] EXCEPT !.file = 0].file = 0
  BY <1>1 DEF KycDocuments
<1> QED BY <1>1, <1>2 DEF Without

LEMMA UnlinkStep ==
  ASSUME LinkInv, NEW u \in Uploaders, Unlink(u)
  PROVE  LinkInv' /\ OnlyTask(u) /\ task[u].step = "unlink"
<1> USE DEF LinkInv
<1>0. PICK k : k = task[u].key
  OBVIOUS
<1> DEFINE t == [task[u] EXCEPT !.step = "drop"]
<1>1. /\ task[u].step = "unlink" /\ task' = [task EXCEPT ![u] = t] /\ doc' = Without(k)
      /\ UNCHANGED <<object, media, spent, broken>> /\ UNCHANGED <<verifying, review, decided>>
  BY <1>0 DEF Unlink
<1>2. t \in TaskRows /\ t.step = "drop" /\ t.key = task[u].key
  BY TaskKnown DEF TaskRows
<1> HIDE DEF t
<1>3. FileInv' /\ OnlyTask(u)
  BY <1>1, <1>2, OnwardStep
<1>4. /\ doc' \in [Docs -> KycDocuments]
      /\ \A e \in Docs : doc'[e].file # 0 => doc'[e].file = doc[e].file
  BY <1>1, WithoutEffect
<1>5. KycTypeOK'
  BY <1>1, <1>4 DEF KycTypeOK
<1>6. task'[u].step = "drop"
  BY <1>1, <1>2 DEF FileInv, MediaTypeOK
<1>7. \A w \in Uploaders : task'[w].step = "doc" => media'[task'[w].key] \in {"none", "KYC"}
  BY <1>1, <1>3, <1>6 DEF OnlyTask
<1> QED BY <1>1, <1>3, <1>4, <1>5, <1>7

LEMMA DropAssetStep ==
  ASSUME LinkInv, NEW u \in Uploaders, DropAsset(u)
  PROVE  LinkInv' /\ OnlyTask(u) /\ task[u].step = "drop"
<1> USE DEF LinkInv
<1>0. PICK k : k = task[u].key
  OBVIOUS
<1>1. DropRow(u) /\ doc' = Without(k) /\ UNCHANGED <<verifying, review, decided>>
  BY <1>0 DEF DropAsset
<1>2. /\ FileInv' /\ OnlyTask(u) /\ task'[u].step # "doc" /\ task[u].step = "drop" /\ k \in Keys
      /\ media' = [media EXCEPT ![k] = "none"]
  BY <1>0, <1>1, DropRowStep
<1>3. media'[k] = "none" /\ \A j \in Keys : j # k => media'[j] = media[j]
  BY <1>2 DEF FileInv, MediaTypeOK
<1>4. /\ doc' \in [Docs -> KycDocuments]
      /\ \A e \in Docs : doc'[e].file # 0 => doc'[e].file = doc[e].file /\ doc[e].file # k
  BY <1>1, WithoutEffect
<1>5. KycTypeOK'
  BY <1>1, <1>4 DEF KycTypeOK
<1>6. \A e \in Docs : doc'[e].file # 0 => media'[doc'[e].file] = "KYC"
  BY <1>3, <1>4 DEF KycTypeOK, KycDocuments
<1>7. \A w \in Uploaders : task'[w].step = "doc" => media'[task'[w].key] \in {"none", "KYC"}
  <2>1. \A w \in Uploaders : task[w].step = "doc" => task[w].key \in Keys
    BY TaskKnown
  <2> QED BY <1>2, <1>3, <2>1 DEF OnlyTask
<1> QED BY <1>2, <1>5, <1>6, <1>7

LEMMA AssetStaysStep ==
  ASSUME LinkInv, NEW u \in Uploaders, AssetStays(u)
  PROVE  LinkInv' /\ OnlyTask(u) /\ task[u].step = "drop"
<1> USE DEF LinkInv
<1>0. PICK k : k = task[u].key
  OBVIOUS
<1> DEFINE t == [task[u] EXCEPT !.step = "dropdoc"]
<1>1. /\ task[u].step = "drop" /\ task' = [task EXCEPT ![u] = t] /\ broken' = broken \cup {k}
      /\ UNCHANGED <<object, media, spent>> /\ UNCHANGED <<doc, verifying, review, decided>>
  BY <1>0 DEF AssetStays
<1>2. k \in Keys /\ k \in spent /\ task[u] \in TaskRows /\ k # 0
  BY <1>0, <1>1, TaskKnown
<1>3. t \in TaskRows /\ t.step = "dropdoc" /\ t.key = k
  BY <1>0, <1>2 DEF TaskRows
<1> HIDE DEF t
<1>4. task' \in [Uploaders -> TaskRows] /\ task'[u] = t /\ OnlyTask(u)
  BY <1>1, <1>3, TaskMoves
<1>5. MediaTypeOK'
  BY <1>1, <1>2, <1>4 DEF FileInv, MediaTypeOK, TaskRows
<1>6. OnlyKey(k)
  BY <1>1 DEF OnlyKey
<1>7. KeyFact(k)'
  <2>1. k \in broken' /\ KeyFact(k)
    BY <1>1, <1>2 DEF FileInv
  <2> QED BY <1>1, <2>1 DEF KeyFact
<1>8. TaskFact(u)'
  BY <1>1, <1>2, <1>3, <1>4 DEF TaskFact
<1>9. \A w \in Uploaders : w # u => TaskFact(w)'
  BY <1>1, <1>4 DEF FileInv, OnlyTask, TaskFact, Removed
<1>10. \A w \in Uploaders : w # u => Alone(u, w)' /\ Alone(w, u)'
  BY <1>0, <1>3, <1>4 DEF FileInv, Alone, OnlyTask
<1>11. FileInv'
  BY <1>0, <1>2, <1>3, <1>4, <1>5, <1>6, <1>7, <1>8, <1>9, <1>10, FileStep
<1>12. KycTypeOK'
  BY <1>1 DEF KycTypeOK
<1>13. \A w \in Uploaders : task'[w].step = "doc" => media'[task'[w].key] \in {"none", "KYC"}
  BY <1>1, <1>3, <1>4 DEF OnlyTask
<1> QED BY <1>1, <1>4, <1>11, <1>12, <1>13

LEMMA DropKycDocumentStep ==
  ASSUME LinkInv, NEW u \in Uploaders, DropKycDocument(u)
  PROVE  LinkInv' /\ OnlyTask(u) /\ task[u].step = "dropdoc"
<1> USE DEF LinkInv
<1>1. /\ task[u].step = "dropdoc" /\ task' = [task EXCEPT ![u] = Idle]
      /\ doc' = [doc EXCEPT ![task[u].kyc] = [status |-> "deleted", file |-> 0]]
      /\ UNCHANGED <<object, media, spent, broken>> /\ UNCHANGED <<verifying, review, decided>>
  BY DEF DropKycDocument
<1>2. FileInv' /\ OnlyTask(u)
  BY <1>1, IdleRow, OnwardStep
<1>3. [status |-> "deleted", file |-> 0] \in KycDocuments
  BY DEF KycDocuments
<1>4. KycTypeOK'
  BY <1>1, <1>3 DEF KycTypeOK
<1>5. \A e \in Docs : doc'[e].file # 0 => media'[doc'[e].file] = "KYC"
  BY <1>1 DEF KycTypeOK
<1>6. task'[u] = Idle
  BY <1>1 DEF FileInv, MediaTypeOK
<1>7. \A w \in Uploaders : task'[w].step = "doc" => media'[task'[w].key] \in {"none", "KYC"}
  BY <1>1, <1>2, <1>6, IdleRow DEF OnlyTask
<1> QED BY <1>1, <1>2, <1>4, <1>5, <1>7

LEMMA UploadStopsStep ==
  ASSUME LinkInv, NEW u \in Uploaders, UploadStops(u)
  PROVE  LinkInv'
<1> USE DEF LinkInv
<1>1. FileInv' /\ OnlyTask(u) /\ task'[u] = Idle /\ media' = media
  BY StopsStep DEF UploadStops
<1>2. doc' = doc /\ KycTypeOK'
  BY DEF UploadStops, KycTypeOK
<1> QED BY <1>1, <1>2, IdleRow DEF OnlyTask

LEMMA DeleteAssetStep ==
  ASSUME LinkInv, NEW u \in Uploaders, NEW k \in Keys, DeleteAsset(u, k)
  PROVE  LinkInv'
<1> USE DEF LinkInv
<1>1. FileInv' /\ OnlyTask(u) /\ task'[u].step = "remove" /\ media' = media
  BY DeleteStep DEF DeleteAsset
<1>2. doc' = doc /\ KycTypeOK'
  BY DEF DeleteAsset, KycTypeOK
<1> QED BY <1>1, <1>2 DEF OnlyTask

\* Reviews change the status of a document, never its file.
LEMMA LinkKept ==
  ASSUME LinkInv, UNCHANGED <<object, media, task, spent, broken>>, KycTypeOK',
         \A d \in Docs : doc'[d].file = doc[d].file
  PROVE  LinkInv'
<1> USE DEF LinkInv
<1>1. FileInv'
  BY DEF FileInv, MediaTypeOK, TaskFact, KeyFact, Removed, Alone
<1> QED BY <1>1

-----------------------------------------------------------------------------
(* KYC: reviews and the shop                                               *)

ReviewRows == [step : {"idle", "count", "activate", "reject", "end"}, doc : Docs \cup {0}]

\* Without an overlap there is one review at a time; the last decision is still on its way to
\* the shop, or it is what the shop shows.
SerialInv ==
  ~overlap =>
    /\ \A v, w \in Reviewers : review[v] # NoReview /\ review[w] # NoReview => v = w
    /\ \A v \in Reviewers : review[v].step = "activate" => Unreviewed
    /\ decided = "REJECTED" =>
         /\ \A v \in Reviewers : review[v].step \notin {"count", "activate"}
         /\ ~verifying.verified \/ \E v \in Reviewers : review[v].step = "reject"
    /\ decided \in {"ACTIVE", "SUSPENDED"} => ~Reviewing /\ (decided = "ACTIVE" => verifying.verified)

Approved == \E d \in Docs : doc[d].status = "APPROVED"

Verified == verifying = [status |-> "ACTIVE", verified |-> TRUE]

\* While there are only uploads and approvals: if nothing waits to be reviewed, the shop is
\* verified, or some review has yet to count.
ApprovalInv ==
  onlyApprovals =>
    /\ \A d \in Docs : doc[d].status \in {"none", "PENDING", "APPROVED"}
    /\ \A u \in Uploaders : task[u].step \in {"idle", "put", "row", "doc"}
    /\ \A v \in Reviewers : review[v].step # "reject"
    /\ Approved /\ Unreviewed => Verified \/ \E v \in Reviewers : review[v].step \in {"count", "activate"}

\* An idle review is none.
IdleInv == \A v \in Reviewers : (review[v].step = "idle") => review[v] = NoReview

DecisionInv == IdleInv /\ SerialInv /\ ApprovalInv

KycInv == LinkInv /\ DecisionInv

\* Steps of uploads and deletions that change no status and no shop.
LEMMA QuietStep ==
  ASSUME KycInv, KycTypeOK', \A d \in Docs : doc'[d].status = doc[d].status,
         UNCHANGED <<verifying, review, decided, overlap>>, onlyApprovals' => onlyApprovals,
         onlyApprovals' => \A u \in Uploaders : task'[u].step \in {"idle", "put", "row", "doc"}
  PROVE  DecisionInv'
<1> USE DEF KycInv, DecisionInv
<1>1. (Unreviewed' <=> Unreviewed) /\ (Approved' <=> Approved) /\ (Reviewing' <=> Reviewing) /\ (Verified' <=> Verified)
  BY DEF Unreviewed, Approved, Reviewing, Verified
<1>2. SerialInv'
  BY <1>1 DEF SerialInv
<1>3. ApprovalInv'
  BY <1>1 DEF ApprovalInv
<1>4. IdleInv'
  BY DEF IdleInv
<1> QED BY <1>2, <1>3, <1>4

\* A document comes or goes: a review that runs meanwhile is overlapped.
LEMMA DocumentStep ==
  ASSUME KycInv, KycTypeOK', UNCHANGED <<verifying, review, decided>>, overlap' = (overlap \/ Reviewing),
         onlyApprovals' = onlyApprovals,
         onlyApprovals => /\ \A u \in Uploaders : task'[u].step \in {"idle", "put", "row", "doc"}
                          /\ \A d \in Docs : doc'[d].status \in {"none", "PENDING", "APPROVED"}
                          /\ Approved' /\ Unreviewed' => Approved /\ Unreviewed
  PROVE  DecisionInv'
<1> USE DEF KycInv, DecisionInv
<1>1. (Reviewing' <=> Reviewing) /\ (Verified' <=> Verified)
  BY DEF Reviewing, Verified
<1>2. ~overlap' => ~overlap /\ ~Reviewing
  OBVIOUS
<1>3. SerialInv'
  <2> SUFFICES ASSUME ~overlap' PROVE SerialInv'
    BY DEF SerialInv
  <2>1. \A v \in Reviewers : review[v] = NoReview /\ review[v].step = "idle"
    BY <1>2 DEF Reviewing, NoReview
  <2> QED BY <1>1, <1>2, <2>1 DEF SerialInv
<1>4. ApprovalInv'
  BY <1>1 DEF ApprovalInv
<1>5. IdleInv'
  BY DEF IdleInv
<1> QED BY <1>3, <1>4, <1>5

LEMMA CreateKycDocumentDecides ==
  ASSUME KycInv, NEW u \in Uploaders, CreateKycDocument(u)
  PROVE  KycInv'
<1> USE DEF KycInv
<1>1. LinkInv' /\ OnlyTask(u) /\ task'[u] = Idle
  BY CreateKycDocumentStep
<1>2. /\ doc' = IF media[task[u].key] = "none" THEN doc
               ELSE [doc EXCEPT ![task[u].kyc] = [status |-> "PENDING", file |-> task[u].key]]
      /\ overlap' = (overlap \/ Reviewing) /\ UNCHANGED <<verifying, review, decided, onlyApprovals>>
  BY DEF CreateKycDocument
<1>3. \A d \in Docs : doc'[d] = doc[d] \/ doc'[d].status = "PENDING"
  BY <1>2 DEF LinkInv, KycTypeOK
<1>4. ASSUME onlyApprovals
      PROVE  /\ \A w \in Uploaders : task'[w].step \in {"idle", "put", "row", "doc"}
             /\ \A d \in Docs : doc'[d].status \in {"none", "PENDING", "APPROVED"}
             /\ Approved' /\ Unreviewed' => Approved /\ Unreviewed
  <2>1. \A w \in Uploaders : task'[w].step \in {"idle", "put", "row", "doc"}
    BY <1>1, <1>4, IdleRow DEF OnlyTask, DecisionInv, ApprovalInv
  <2>2. \A d \in Docs : doc'[d].status \in {"none", "PENDING", "APPROVED"}
    BY <1>3, <1>4 DEF DecisionInv, ApprovalInv
  <2>3. Unreviewed' => \A d \in Docs : doc'[d] = doc[d]
    BY <1>3 DEF Unreviewed
  <2>4. Approved' /\ Unreviewed' => Approved /\ Unreviewed
    BY <2>3 DEF Approved, Unreviewed
  <2> QED BY <2>1, <2>2, <2>4
<1> QED BY <1>1, <1>2, <1>4, DocumentStep DEF LinkInv

LEMMA DropKycDocumentDecides ==
  ASSUME KycInv, NEW u \in Uploaders, DropKycDocument(u)
  PROVE  KycInv'
<1> USE DEF KycInv
<1>1. LinkInv' /\ OnlyTask(u) /\ task[u].step = "dropdoc"
  BY DropKycDocumentStep
<1>2. overlap' = (overlap \/ Reviewing) /\ UNCHANGED <<verifying, review, decided, onlyApprovals>>
  BY DEF DropKycDocument
<1>3. ~onlyApprovals
  BY <1>1 DEF DecisionInv, ApprovalInv
<1> QED BY <1>1, <1>2, <1>3, DocumentStep DEF LinkInv

\* What a step of a review leaves of the others.
ReviewMoves(v, r) ==
  review' = [review EXCEPT ![v] = r]

LEMMA ReviewEffect ==
  ASSUME KycInv, NEW v \in Reviewers, NEW r \in ReviewRows, ReviewMoves(v, r), r.step = "idle" => r = NoReview
  PROVE  /\ review' \in [Reviewers -> ReviewRows] /\ review'[v] = r /\ IdleInv'
         /\ \A w \in Reviewers : w # v => review'[w] = review[w]
<1>1. review \in [Reviewers -> ReviewRows] /\ IdleInv
  BY DEF KycInv, LinkInv, KycTypeOK, ReviewRows, DecisionInv
<1>2. review' \in [Reviewers -> ReviewRows] /\ review'[v] = r /\ \A w \in Reviewers : w # v => review'[w] = review[w]
  BY <1>1 DEF ReviewMoves
<1> QED BY <1>1, <1>2 DEF IdleInv

\* The row of a review under way.
LEMMA ReviewKnown ==
  ASSUME KycInv, NEW v \in Reviewers, NEW s \in {"count", "activate", "reject", "end"}
  PROVE  /\ review[v] \in ReviewRows /\ [review[v] EXCEPT !.step = s] \in ReviewRows /\ [review[v] EXCEPT !.step = s].step = s
         /\ NoReview \in ReviewRows /\ NoReview.step = "idle"
         /\ review[v].step # "idle" => review[v] # NoReview
<1>1. review[v] \in ReviewRows
  BY DEF KycInv, LinkInv, KycTypeOK, ReviewRows
<1>2. NoReview \in ReviewRows /\ NoReview.step = "idle"
  BY DEF NoReview, ReviewRows
<1>3. [review[v] EXCEPT !.step = s] \in ReviewRows /\ [review[v] EXCEPT !.step = s].step = s
  BY <1>1 DEF ReviewRows
<1> QED BY <1>1, <1>2, <1>3

LEMMA ReviewKycDocumentStep ==
  ASSUME KycInv, NEW v \in Reviewers, NEW d \in Docs, NEW s \in {"APPROVED", "REJECTED"}, ReviewKycDocument(v, d, s)
  PROVE  KycInv'
<1> USE DEF KycInv, DecisionInv
<1> DEFINE r == [step |-> IF s = "APPROVED" THEN "count" ELSE "reject", doc |-> d]
<1>1. /\ DocExists(d) /\ doc' = [doc EXCEPT ![d].status = s] /\ decided' = s /\ ReviewMoves(v, r)
      /\ onlyApprovals' = (onlyApprovals /\ s = "APPROVED") /\ overlap' = (overlap \/ Reviewing)
      /\ UNCHANGED <<object, media, task, spent, broken>> /\ verifying' = verifying
  BY DEF ReviewKycDocument, Decides, ReviewMoves, mediaVars
<1>2. r \in ReviewRows /\ r.step = (IF s = "APPROVED" THEN "count" ELSE "reject")
  BY DEF ReviewRows
<1> HIDE DEF r
<1>3. /\ review' \in [Reviewers -> ReviewRows] /\ review'[v] = r /\ IdleInv'
      /\ \A w \in Reviewers : w # v => review'[w] = review[w]
  BY <1>1, <1>2, ReviewEffect
<1>4. /\ doc' \in [Docs -> KycDocuments] /\ doc'[d].status = s
      /\ \A e \in Docs : doc'[e].file = doc[e].file /\ (e # d => doc'[e] = doc[e])
  <2>1. doc \in [Docs -> KycDocuments]
    BY DEF LinkInv, KycTypeOK
  <2>2. [doc[d] EXCEPT !.status = s] \in KycDocuments /\ [doc[d] EXCEPT !.status = s].status = s
        /\ [doc[d] EXCEPT !.status = s].file = doc[d].file
    BY <2>1 DEF KycDocuments, KycDocStatus
  <2> QED BY <1>1, <2>1, <2>2
<1>5. KycTypeOK'
  BY <1>1, <1>3, <1>4 DEF LinkInv, KycTypeOK, ReviewRows, KycDocStatus
<1>6. LinkInv'
  BY <1>1, <1>4, <1>5, LinkKept
<1>7. SerialInv'
  <2> SUFFICES ASSUME ~overlap' PROVE SerialInv'
    BY DEF SerialInv
  <2>1. ~overlap /\ ~Reviewing
    BY <1>1
  <2>2. \A w \in Reviewers : w # v => review'[w] = NoReview /\ review'[w].step = "idle"
    BY <1>3, <2>1 DEF Reviewing, NoReview
  <2>3. \A w, x \in Reviewers : review'[w] # NoReview /\ review'[x] # NoReview => w = x
    BY <2>2
  <2>4. \A w \in Reviewers : review'[w].step # "activate"
    BY <1>2, <1>3, <2>2
  <2>5. decided' = "REJECTED" => review'[v].step = "reject" /\ \A w \in Reviewers : review'[w].step \notin {"count", "activate"}
    BY <1>1, <1>2, <1>3, <2>2
  <2>6. decided' \notin {"ACTIVE", "SUSPENDED"}
    BY <1>1
  <2> QED BY <2>3, <2>4, <2>5, <2>6 DEF SerialInv
<1>8. ApprovalInv'
  <2> SUFFICES ASSUME onlyApprovals' PROVE ApprovalInv'
    BY DEF ApprovalInv
  <2>1. onlyApprovals /\ s = "APPROVED"
    BY <1>1
  <2>2. \A e \in Docs : doc'[e].status \in {"none", "PENDING", "APPROVED"}
    BY <1>4, <2>1 DEF ApprovalInv
  <2>3. review'[v].step = "count" /\ \A w \in Reviewers : review'[w].step # "reject"
    BY <1>2, <1>3, <2>1 DEF ApprovalInv
  <2>4. \A u \in Uploaders : task'[u].step \in {"idle", "put", "row", "doc"}
    BY <1>1, <2>1 DEF ApprovalInv
  <2> QED BY <2>2, <2>3, <2>4 DEF ApprovalInv
<1> QED BY <1>3, <1>6, <1>7, <1>8

\* A step of a review that concerns neither documents nor decisions: it goes on, or ends.
LEMMA ReviewGoesOn ==
  ASSUME KycInv, NEW v \in Reviewers, NEW r \in ReviewRows, ReviewMoves(v, r), r.step = "idle" => r = NoReview,
         r # NoReview => review[v] # NoReview,
         UNCHANGED <<object, media, task, spent, broken>>, UNCHANGED <<doc, overlap>>,
         verifying' \in [status : {"PENDING", "ACTIVE", "SUSPENDED", "REJECTED"}, verified : BOOLEAN],
         decided' \in {decided, "none"}, onlyApprovals' => onlyApprovals,
         r.step = "activate" => Unreviewed,
         r.step \in {"count", "reject"} => r.step = review[v].step,
         r.step = "activate" => review[v].step = "count",
         \* What the step does to the shop.
         ~overlap /\ decided' = "REJECTED" =>
            ~verifying'.verified \/ (verifying' = verifying /\ review[v].step # "reject"),
         ~overlap /\ decided' = "ACTIVE" => verifying' = verifying,
         onlyApprovals' => \/ Verified'
                           \/ verifying' = verifying /\ (review[v].step = "count" /\ Unreviewed => r.step = "activate")
                                                     /\ review[v].step # "activate"
  PROVE  KycInv'
<1> USE DEF KycInv, DecisionInv
<1>1. /\ review' \in [Reviewers -> ReviewRows] /\ review'[v] = r /\ IdleInv'
      /\ \A w \in Reviewers : w # v => review'[w] = review[w]
  BY ReviewEffect
<1>2. KycTypeOK'
  BY <1>1 DEF LinkInv, KycTypeOK, ReviewRows
<1>3. LinkInv'
  BY <1>2, LinkKept
<1>4. Unreviewed' <=> Unreviewed
  BY DEF Unreviewed
<1>5. Approved' <=> Approved
  BY DEF Approved
<1>6. SerialInv'
  <2> SUFFICES ASSUME ~overlap' PROVE SerialInv'
    BY DEF SerialInv
  <2>1. ~overlap
    OBVIOUS
  <2>2. \A w, x \in Reviewers : review'[w] # NoReview /\ review'[x] # NoReview => w = x
    BY <1>1, <2>1 DEF SerialInv
  <2>3. \A w \in Reviewers : review'[w].step = "activate" => Unreviewed
    BY <1>1, <2>1 DEF SerialInv
  <2>4. ASSUME decided' = "REJECTED"
        PROVE  /\ \A w \in Reviewers : review'[w].step \notin {"count", "activate"}
               /\ ~verifying'.verified \/ \E w \in Reviewers : review'[w].step = "reject"
    <3>1. decided = "REJECTED"
      BY <2>4
    <3>2. \A w \in Reviewers : review[w].step \notin {"count", "activate"}
      BY <2>1, <3>1 DEF SerialInv
    <3>3. ~verifying.verified \/ \E w \in Reviewers : review[w].step = "reject"
      BY <2>1, <3>1 DEF SerialInv
    <3>4. \A w \in Reviewers : review'[w].step \notin {"count", "activate"}
      BY <1>1, <3>2
    <3>5. ~verifying'.verified \/ \E w \in Reviewers : review'[w].step = "reject"
      BY <1>1, <2>1, <2>4, <3>3
    <3> QED BY <3>4, <3>5
  <2>5. ASSUME decided' \in {"ACTIVE", "SUSPENDED"} PROVE ~Reviewing' /\ (decided' = "ACTIVE" => verifying'.verified)
    <3>1. decided' = decided
      BY <2>5
    <3>2. ~Reviewing /\ (decided = "ACTIVE" => verifying.verified)
      BY <2>1, <2>5, <3>1 DEF SerialInv
    <3>3. \A w \in Reviewers : review'[w] = NoReview
      BY <1>1, <3>2 DEF Reviewing
    <3>4. ~Reviewing'
      BY <3>3 DEF Reviewing
    <3> QED BY <2>1, <3>1, <3>2, <3>4
  <2> QED BY <1>4, <2>2, <2>3, <2>4, <2>5 DEF SerialInv
<1>7. ApprovalInv'
  <2> SUFFICES ASSUME onlyApprovals' PROVE ApprovalInv'
    BY DEF ApprovalInv
  <2>1. onlyApprovals
    OBVIOUS
  <2>2. \A w \in Reviewers : review'[w].step # "reject"
    BY <1>1, <2>1 DEF ApprovalInv
  <2>3. ASSUME Approved, Unreviewed PROVE Verified' \/ \E w \in Reviewers : review'[w].step \in {"count", "activate"}
    <3>1. CASE Verified'
      BY <3>1
    <3>2. CASE ~Verified'
      <4>1. verifying' = verifying /\ ~Verified
        BY <3>2 DEF Verified
      <4>2. PICK w \in Reviewers : review[w].step \in {"count", "activate"}
        BY <2>1, <2>3, <4>1 DEF ApprovalInv
      <4>3. CASE w = v
        BY <1>1, <2>3, <3>2, <4>2, <4>3
      <4>4. CASE w # v
        BY <1>1, <4>2, <4>4
      <4> QED BY <4>3, <4>4
    <3> QED BY <3>1, <3>2
  <2> QED BY <1>4, <1>5, <2>1, <2>2, <2>3 DEF ApprovalInv
<1> QED BY <1>1, <1>3, <1>6, <1>7

LEMMA CountPendingStep ==
  ASSUME KycInv, NEW v \in Reviewers, CountPending(v)
  PROVE  KycInv'
<1> DEFINE r == [review[v] EXCEPT !.step = IF Unreviewed THEN "activate" ELSE "end"]
<1>1. /\ review[v].step = "count" /\ ReviewMoves(v, r)
      /\ UNCHANGED <<object, media, task, spent, broken>> /\ UNCHANGED <<doc, verifying, decided, overlap, onlyApprovals>>
  BY DEF CountPending, ReviewMoves, mediaVars
<1>2. r \in ReviewRows /\ r.step = (IF Unreviewed THEN "activate" ELSE "end") /\ review[v] # NoReview
  BY <1>1, ReviewKnown
<1> HIDE DEF r
<1>3. ~overlap => decided # "REJECTED"
  BY <1>1 DEF KycInv, DecisionInv, SerialInv
<1>4. verifying' \in [status : {"PENDING", "ACTIVE", "SUSPENDED", "REJECTED"}, verified : BOOLEAN]
  BY <1>1 DEF KycInv, LinkInv, KycTypeOK
<1> QED BY <1>1, <1>2, <1>3, <1>4, ReviewGoesOn

LEMMA ActivateStep ==
  ASSUME KycInv, NEW v \in Reviewers, Activate(v)
  PROVE  KycInv'
<1> DEFINE r == [review[v] EXCEPT !.step = "end"]
<1>1. /\ review[v].step = "activate" /\ ReviewMoves(v, r) /\ verifying' = [status |-> "ACTIVE", verified |-> TRUE]
      /\ UNCHANGED <<object, media, task, spent, broken>> /\ UNCHANGED <<doc, decided, overlap, onlyApprovals>>
  BY DEF Activate, ReviewMoves, mediaVars
<1>2. r \in ReviewRows /\ r.step = "end" /\ review[v] # NoReview
  BY <1>1, ReviewKnown
<1> HIDE DEF r
<1>3. ~overlap => decided \notin {"REJECTED", "ACTIVE"}
  BY <1>1, <1>2 DEF KycInv, DecisionInv, SerialInv, Reviewing
<1>4. Verified' /\ verifying' \in [status : {"PENDING", "ACTIVE", "SUSPENDED", "REJECTED"}, verified : BOOLEAN]
  BY <1>1 DEF Verified
<1> QED BY <1>1, <1>2, <1>3, <1>4, ReviewGoesOn

LEMMA RejectStep ==
  ASSUME KycInv, NEW v \in Reviewers, Reject(v)
  PROVE  KycInv'
<1> DEFINE r == [review[v] EXCEPT !.step = "end"]
<1>1. /\ review[v].step = "reject" /\ ReviewMoves(v, r) /\ verifying' = [verifying EXCEPT !.verified = FALSE]
      /\ UNCHANGED <<object, media, task, spent, broken>> /\ UNCHANGED <<doc, decided, overlap, onlyApprovals>>
  BY DEF Reject, ReviewMoves, mediaVars
<1>2. r \in ReviewRows /\ r.step = "end" /\ review[v] # NoReview
  BY <1>1, ReviewKnown
<1> HIDE DEF r
<1>3. (~overlap => decided # "ACTIVE") /\ ~onlyApprovals
  BY <1>1, <1>2 DEF KycInv, DecisionInv, SerialInv, ApprovalInv, Reviewing
<1>4. ~verifying'.verified /\ verifying' \in [status : {"PENDING", "ACTIVE", "SUSPENDED", "REJECTED"}, verified : BOOLEAN]
  BY <1>1 DEF KycInv, LinkInv, KycTypeOK
<1> QED BY <1>1, <1>2, <1>3, <1>4, ReviewGoesOn

LEMMA EndReviewStep ==
  ASSUME KycInv, NEW v \in Reviewers, EndReview(v)
  PROVE  KycInv'
<1>1. /\ review[v].step = "end" /\ ReviewMoves(v, NoReview)
      /\ UNCHANGED <<object, media, task, spent, broken>> /\ UNCHANGED <<doc, verifying, decided, overlap, onlyApprovals>>
  BY DEF EndReview, ReviewMoves, mediaVars
<1>2. NoReview \in ReviewRows /\ NoReview.step = "idle"
  BY ReviewKnown
<1>3. verifying' \in [status : {"PENDING", "ACTIVE", "SUSPENDED", "REJECTED"}, verified : BOOLEAN]
  BY <1>1 DEF KycInv, LinkInv, KycTypeOK
<1> QED BY <1>1, <1>2, <1>3, ReviewGoesOn

LEMMA ReviewStopsStep ==
  ASSUME KycInv, NEW v \in Reviewers, ReviewStops(v)
  PROVE  KycInv'
<1>1. /\ ReviewMoves(v, NoReview) /\ decided' = "none" /\ onlyApprovals' = FALSE
      /\ UNCHANGED <<object, media, task, spent, broken>> /\ UNCHANGED <<doc, verifying, overlap>>
  BY DEF ReviewStops, ReviewMoves
<1>2. NoReview \in ReviewRows /\ NoReview.step = "idle"
  BY ReviewKnown
<1>3. verifying' \in [status : {"PENDING", "ACTIVE", "SUSPENDED", "REJECTED"}, verified : BOOLEAN]
  BY <1>1 DEF KycInv, LinkInv, KycTypeOK
<1> QED BY <1>1, <1>2, <1>3, ReviewGoesOn

\* A decision on the shop by either route.
LEMMA ShopStep ==
  ASSUME KycInv, NEW s \in {"ACTIVE", "SUSPENDED"}, UpdateStatus(s) \/ UpdateShopStatus(s)
  PROVE  KycInv'
<1> USE DEF KycInv, DecisionInv
<1>1. /\ overlap' = (overlap \/ Reviewing) /\ decided' = s /\ onlyApprovals' = FALSE
      /\ UNCHANGED <<object, media, task, spent, broken>> /\ UNCHANGED <<doc, review>>
  BY DEF UpdateStatus, UpdateShopStatus, Decides, mediaVars
<1>2. /\ verifying' \in [status : {"PENDING", "ACTIVE", "SUSPENDED", "REJECTED"}, verified : BOOLEAN]
      /\ s = "ACTIVE" => verifying'.verified
  <2>1. PICK b : verifying' = [status |-> s, verified |-> b] /\ (b = (s = "ACTIVE") \/ b = (verifying.verified \/ s = "ACTIVE"))
    BY DEF UpdateStatus, UpdateShopStatus
  <2>2. b \in BOOLEAN /\ (s = "ACTIVE" => b)
    BY <2>1, Zenon
  <2> QED BY <2>1, <2>2
<1>3. KycTypeOK'
  BY <1>1, <1>2 DEF LinkInv, KycTypeOK
<1>4. LinkInv'
  BY <1>1, <1>3, LinkKept
<1>5. SerialInv'
  <2> SUFFICES ASSUME ~overlap' PROVE SerialInv'
    BY DEF SerialInv
  <2>1. ~Reviewing
    BY <1>1, Zenon
  <2>2. \A v \in Reviewers : review'[v] = NoReview /\ review'[v].step = "idle"
    BY <1>1, <2>1 DEF Reviewing, NoReview
  <2>3. ~Reviewing'
    BY <2>2 DEF Reviewing
  <2> QED BY <1>1, <1>2, <2>2, <2>3 DEF SerialInv
<1>6. ApprovalInv' /\ IdleInv'
  BY <1>1 DEF ApprovalInv, IdleInv
<1> QED BY <1>4, <1>5, <1>6

LEMMA UploadsDecide ==
  ASSUME KycInv, NEW u \in Uploaders,
         \/ \E f \in Scans : UploadKycDocument(u, f)
         \/ \E d \in Docs, admin \in BOOLEAN : DeleteKycDocument(u, d, admin)
         \/ UploadStep(u) \/ Unlink(u) \/ DropAsset(u) \/ AssetStays(u) \/ UploadStops(u)
         \/ \E k \in Keys : DeleteAsset(u, k)
  PROVE  KycInv'
<1> USE DEF KycInv
<1>1. CASE \E f \in Scans : UploadKycDocument(u, f)
  <2>1. LinkInv' /\ OnlyTask(u) /\ task'[u].step = "put"
    BY <1>1, UploadKycDocumentStep
  <2>2. UNCHANGED kycVars
    BY <1>1 DEF UploadKycDocument
  <2>3. onlyApprovals' => \A w \in Uploaders : task'[w].step \in {"idle", "put", "row", "doc"}
    BY <2>1, <2>2 DEF kycVars, OnlyTask, DecisionInv, ApprovalInv
  <2> QED BY <2>1, <2>2, <2>3, QuietStep DEF kycVars, LinkInv
<1>2. CASE \E d \in Docs, admin \in BOOLEAN : DeleteKycDocument(u, d, admin)
  <2>1. LinkInv'
    BY <1>2, DeleteKycDocumentStep
  <2>2. onlyApprovals' = FALSE /\ UNCHANGED <<doc, verifying, review, decided, overlap>>
    BY <1>2, Zenon DEF DeleteKycDocument
  <2> QED BY <2>1, <2>2, QuietStep DEF LinkInv
<1>3. CASE UploadStep(u)
  <2>1. LinkInv' /\ OnlyTask(u) /\ (task[u].step \in {"put", "row"} => task'[u].step \in {"row", "idle", "doc"})
    BY <1>3, UploadStepStep
  <2>2. UNCHANGED kycVars /\ task[u].step \in {"put", "row", "remove"}
    BY <1>3 DEF UploadStep, PutObject, CreateRow, DeleteImage
  <2>3. onlyApprovals' => \A w \in Uploaders : task'[w].step \in {"idle", "put", "row", "doc"}
    BY <2>1, <2>2 DEF kycVars, OnlyTask, DecisionInv, ApprovalInv
  <2> QED BY <2>1, <2>2, <2>3, QuietStep DEF kycVars, LinkInv
<1>4. CASE Unlink(u)
  <2>1. LinkInv' /\ task[u].step = "unlink"
    BY <1>4, UnlinkStep
  <2>2. UNCHANGED <<verifying, review, decided, overlap, onlyApprovals>> /\ \A d \in Docs : doc'[d].status = doc[d].status
    BY <1>4, WithoutEffect DEF Unlink
  <2>3. ~onlyApprovals
    BY <2>1 DEF DecisionInv, ApprovalInv
  <2> QED BY <2>1, <2>2, <2>3, QuietStep DEF LinkInv
<1>5. CASE DropAsset(u)
  <2>1. LinkInv' /\ task[u].step = "drop"
    BY <1>5, DropAssetStep
  <2>2. UNCHANGED <<verifying, review, decided, overlap, onlyApprovals>> /\ \A d \in Docs : doc'[d].status = doc[d].status
    BY <1>5, WithoutEffect DEF DropAsset
  <2>3. ~onlyApprovals
    BY <2>1 DEF DecisionInv, ApprovalInv
  <2> QED BY <2>1, <2>2, <2>3, QuietStep DEF LinkInv
<1>6. CASE UploadStops(u)
  <2>1. LinkInv'
    BY <1>6, UploadStopsStep
  <2>2. onlyApprovals' = FALSE /\ UNCHANGED <<doc, verifying, review, decided, overlap>>
    BY <1>6 DEF UploadStops
  <2> QED BY <2>1, <2>2, QuietStep DEF LinkInv
<1>7. CASE \E k \in Keys : DeleteAsset(u, k)
  <2>1. LinkInv'
    BY <1>7, DeleteAssetStep
  <2>2. onlyApprovals' = FALSE /\ UNCHANGED <<doc, verifying, review, decided, overlap>>
    BY <1>7 DEF DeleteAsset
  <2> QED BY <2>1, <2>2, QuietStep DEF LinkInv
<1>8. CASE AssetStays(u)
  <2>1. LinkInv' /\ task[u].step = "drop"
    BY <1>8, AssetStaysStep
  <2>2. UNCHANGED <<doc, verifying, review, decided, overlap, onlyApprovals>>
    BY <1>8 DEF AssetStays
  <2>3. ~onlyApprovals
    BY <2>1 DEF DecisionInv, ApprovalInv
  <2> QED BY <2>1, <2>2, <2>3, QuietStep DEF LinkInv
<1> QED BY <1>1, <1>2, <1>3, <1>4, <1>5, <1>6, <1>7, <1>8

LEMMA KycInvInit == MediaInit /\ KycInit => KycInv
<1> SUFFICES ASSUME MediaInit, KycInit PROVE KycInv
  OBVIOUS
<1>1. FileInv
  BY FileInvInit
<1>2. NoReview \in ReviewRows /\ NoReview.step = "idle"
  BY DEF NoReview, ReviewRows
<1>3. [status |-> "none", file |-> 0] \in KycDocuments
  BY DEF KycDocuments
<1>4. KycTypeOK
  BY <1>2, <1>3 DEF KycInit, KycTypeOK, ReviewRows
<1>5. LinkInv
  BY <1>1, <1>4, IdleRow DEF MediaInit, KycInit, LinkInv
<1>6. \A v \in Reviewers : review[v] = NoReview
  BY DEF KycInit
<1>7. IdleInv /\ SerialInv
  BY <1>2, <1>6 DEF KycInit, IdleInv, SerialInv
<1>8. ApprovalInv
  <2>1. \A d \in Docs : doc[d].status = "none"
    BY DEF KycInit
  <2>2. \A u \in Uploaders : task[u].step = "idle"
    BY IdleRow DEF MediaInit
  <2> QED BY <1>2, <1>6, <2>1, <2>2 DEF ApprovalInv, Approved
<1> QED BY <1>5, <1>7, <1>8 DEF KycInv, DecisionInv

LEMMA KycInvStep == KycInv /\ [KycNext]_<<mediaVars, kycVars>> => KycInv'
<1> SUFFICES ASSUME KycInv, [KycNext]_<<mediaVars, kycVars>> PROVE KycInv'
  OBVIOUS
<1>1. CASE KycNext
  BY <1>1, UploadsDecide, CreateKycDocumentDecides, DropKycDocumentDecides, ReviewKycDocumentStep, CountPendingStep,
     ActivateStep, RejectStep, EndReviewStep, ReviewStopsStep, ShopStep DEF KycNext, KycRoutes
<1>2. CASE UNCHANGED <<mediaVars, kycVars>>
  <2>1. /\ UNCHANGED <<object, media, task, spent, broken>>
        /\ UNCHANGED <<doc, verifying, review, decided, overlap, onlyApprovals>>
    BY <1>2 DEF mediaVars, kycVars
  <2>2. KycTypeOK'
    BY <2>1 DEF KycInv, LinkInv, KycTypeOK
  <2>3. LinkInv'
    BY <2>1, <2>2, LinkKept DEF KycInv
  <2>4. onlyApprovals => \A u \in Uploaders : task[u].step \in {"idle", "put", "row", "doc"}
    BY DEF KycInv, DecisionInv, ApprovalInv
  <2> QED BY <2>1, <2>2, <2>3, <2>4, QuietStep DEF KycInv
<1> QED BY <1>1, <1>2

\* The shop's verification follows the reviews, and what waits for review has its private file,
\* for any documents, files, requests and reviewers and however their steps interleave
\* (kyc.service).
THEOREM ReviewsAreSafe == KycSpec => []ReviewsHold
<1>1. MediaInit /\ KycInit => KycInv
  BY KycInvInit
<1>2. KycInv /\ [KycNext]_<<mediaVars, kycVars>> => KycInv'
  BY KycInvStep
<1>3. KycInv => ReviewsHold
  <2> SUFFICES ASSUME KycInv PROVE ReviewsHold
    OBVIOUS
  <2>1. ~Reviewing => \A v \in Reviewers : review[v].step = "idle"
    BY DEF Reviewing, NoReview
  <2>2. AllApprovedActivates
    BY <2>1 DEF AllApprovedActivates, KycInv, DecisionInv, ApprovalInv, DocExists, KycDocStatus, Approved, Unreviewed, Verified
  <2>3. RejectionHolds
    BY <2>1 DEF RejectionHolds, KycInv, DecisionInv, SerialInv
  <2>4. PendingHasFile
    <3> SUFFICES ASSUME NEW d \in Docs, doc[d].file # 0
                 PROVE  \/ object[doc[d].file] # NoObject /\ media[doc[d].file] = "KYC"
                        \/ AtWork(doc[d].file) \/ doc[d].file \in broken
      BY DEF PendingHasFile
    <3>1. doc[d].file \in Keys /\ media[doc[d].file] = "KYC"
      BY DEF KycInv, LinkInv, KycTypeOK, KycDocuments
    <3>2. KeyFact(doc[d].file)
      BY <3>1 DEF KycInv, LinkInv, FileInv
    <3> QED BY <3>1, <3>2 DEF KeyFact, AtWork
  <2> QED BY <2>2, <2>3, <2>4 DEF ReviewsHold
<1> QED BY <1>1, <1>2, <1>3, PTL DEF KycSpec

\* A review verifies the shop only when every document has been reviewed (the count of
\* reviewKycDocument), for any number of reviews.
THEOREM VerifiedOnlyAfterReviews == KycSpec => VerifiedAfterReviews
<1> DEFINE Step == ~verifying.verified /\ verifying'.verified /\ ~overlap' /\ decided' = decided => Unreviewed
<1>1. MediaInit /\ KycInit => KycInv
  BY KycInvInit
<1>2. KycInv /\ [KycNext]_<<mediaVars, kycVars>> => KycInv'
  BY KycInvStep
<1>3. KycInv /\ [KycNext]_<<mediaVars, kycVars>> => [Step]_<<verifying, decided, overlap, doc>>
  <2> SUFFICES ASSUME KycInv, [KycNext]_<<mediaVars, kycVars>>,
                      ~verifying.verified, verifying'.verified, ~overlap', decided' = decided
               PROVE  Unreviewed
    OBVIOUS
  <2>1. verifying' # verifying
    BY SMTT(30)
  <2>2. \/ \E v \in Reviewers : Activate(v) \/ Reject(v)
        \/ \E s \in {"ACTIVE", "SUSPENDED"} : UpdateStatus(s) \/ UpdateShopStatus(s)
    <3>1. \A u \in Uploaders : /\ \A f \in Scans : ~UploadKycDocument(u, f)
                               /\ \A d \in Docs, admin \in BOOLEAN : ~DeleteKycDocument(u, d, admin)
                               /\ ~UploadStep(u) /\ ~CreateKycDocument(u) /\ ~Unlink(u) /\ ~DropAsset(u)
                               /\ ~AssetStays(u) /\ ~DropKycDocument(u) /\ ~UploadStops(u)
                               /\ \A k \in Keys : ~DeleteAsset(u, k)
      <4> SUFFICES ASSUME NEW u \in Uploaders
                   PROVE  /\ \A f \in Scans : ~UploadKycDocument(u, f)
                          /\ \A d \in Docs, admin \in BOOLEAN : ~DeleteKycDocument(u, d, admin)
                          /\ ~UploadStep(u) /\ ~CreateKycDocument(u) /\ ~Unlink(u) /\ ~DropAsset(u)
                          /\ ~AssetStays(u) /\ ~DropKycDocument(u) /\ ~UploadStops(u)
                          /\ \A k \in Keys : ~DeleteAsset(u, k)
        OBVIOUS
      <4>1. \A f \in Scans : ~UploadKycDocument(u, f)
        BY <2>1 DEF UploadKycDocument, kycVars
      <4>2. \A d \in Docs, admin \in BOOLEAN : ~DeleteKycDocument(u, d, admin)
        BY <2>1, Zenon DEF DeleteKycDocument
      <4>3. ~UploadStep(u) /\ ~CreateKycDocument(u) /\ ~Unlink(u) /\ ~DropAsset(u)
        BY <2>1 DEF UploadStep, kycVars, CreateKycDocument, Unlink, DropAsset
      <4>4. ~AssetStays(u) /\ ~DropKycDocument(u) /\ ~UploadStops(u) /\ \A k \in Keys : ~DeleteAsset(u, k)
        BY <2>1 DEF AssetStays, DropKycDocument, UploadStops, DeleteAsset
      <4> QED BY <4>1, <4>2, <4>3, <4>4
    <3>2. \A v \in Reviewers : /\ \A d \in Docs, s \in {"APPROVED", "REJECTED"} : ~ReviewKycDocument(v, d, s)
                               /\ ~CountPending(v) /\ ~EndReview(v) /\ ~ReviewStops(v)
      BY <2>1 DEF ReviewKycDocument, CountPending, EndReview, ReviewStops
    <3>3. KycNext
      BY <2>1 DEF mediaVars, kycVars
    <3>4. ~KycRoutes
      BY <3>1, <3>2 DEF KycRoutes
    <3>5. ~\E u \in Uploaders :
             \/ UploadStep(u) \/ CreateKycDocument(u) \/ Unlink(u) \/ DropAsset(u) \/ AssetStays(u)
             \/ DropKycDocument(u) \/ UploadStops(u)
             \/ \E k \in Keys : DeleteAsset(u, k)
      BY <3>1
    <3>6. \A v \in Reviewers : ~CountPending(v) /\ ~EndReview(v) /\ ~ReviewStops(v)
      BY <3>2
    <3> QED BY <3>3, <3>4, <3>5, <3>6 DEF KycNext
  <2>3. ASSUME NEW v \in Reviewers, Activate(v) PROVE Unreviewed
    <3>1. review[v].step = "activate" /\ ~overlap
      BY <2>3 DEF Activate
    <3> QED BY <3>1 DEF KycInv, DecisionInv, SerialInv
  <2>4. ASSUME NEW v \in Reviewers, Reject(v) PROVE FALSE
    <3>1. verifying' = [verifying EXCEPT !.verified = FALSE]
      BY <2>4 DEF Reject
    <3> QED BY <3>1 DEF KycInv, LinkInv, KycTypeOK
  <2>5. ASSUME NEW s \in {"ACTIVE", "SUSPENDED"}, UpdateStatus(s) \/ UpdateShopStatus(s) PROVE FALSE
    <3>1. decided = s /\ overlap' = (overlap \/ Reviewing)
      BY <2>5 DEF UpdateStatus, UpdateShopStatus, Decides
    <3>2. ~overlap
      BY <3>1
    <3>3. s = "SUSPENDED"
      BY <3>1, <3>2 DEF KycInv, DecisionInv, SerialInv
    <3>4. PICK b : verifying' = [status |-> s, verified |-> b] /\ (b = (s = "ACTIVE") \/ b = (verifying.verified \/ s = "ACTIVE"))
      BY <2>5 DEF UpdateStatus, UpdateShopStatus
    <3>5. b
      BY <3>4
    <3>6. s # "ACTIVE"
      BY <3>3
    <3> QED BY <3>4, <3>5, <3>6, Zenon
  <2> QED BY <2>2, <2>3, <2>4, <2>5
<1> QED BY <1>1, <1>2, <1>3, PTL DEF KycSpec, VerifiedAfterReviews

-----------------------------------------------------------------------------
(* The parts side by side                                                  *)

\* Each part keeps its own invariant, as no part writes what another part reads.
PartsInv ==
  /\ FileInv /\ KycTypeOK /\ (part # "media" => KycInv)
  /\ ConnectInv /\ RequestInv /\ NumberInv /\ LeadInv

LEMMA PartsInvInit == OnboardingInit => PartsInv
<1> SUFFICES ASSUME OnboardingInit PROVE PartsInv
  OBVIOUS
<1>1. KycInv
  BY KycInvInit DEF OnboardingInit
<1>2. FileInv /\ KycTypeOK
  BY <1>1 DEF KycInv, LinkInv
<1> QED BY <1>1, <1>2, ConnectInvInit, RequestInvInit, NumberInvInit, LeadInvInit DEF OnboardingInit, PartsInv

LEMMA PartsInvStep == PartsInv /\ [OnboardingNext]_mcVars => PartsInv'
<1> SUFFICES ASSUME PartsInv, [OnboardingNext]_mcVars PROVE PartsInv'
  OBVIOUS
<1> USE DEF PartsInv
<1>1. ConnectInv'
  <2>1. [ConnectNext]_connectVars
    BY DEF OnboardingNext, mcVars
  <2> QED BY <2>1, ConnectInvStep
<1>2. [TenancyNext]_tenancyVars
  BY DEF OnboardingNext, mcVars, TenancyNext
<1>3. RequestInv' /\ NumberInv'
  BY <1>2, RequestInvStep, NumberInvStep
<1>4. LeadInv'
  <2>1. [SubmitDemoRequest]_leadVars
    BY DEF OnboardingNext, mcVars
  <2> QED BY <2>1, LeadInvStep
<1>5. part' = part
  BY DEF OnboardingNext, mcVars
<1>6. ASSUME part # "media" PROVE KycInv'
  <2>1. [KycNext]_<<mediaVars, kycVars>>
    BY <1>6 DEF OnboardingNext, mcVars
  <2> QED BY <1>6, <2>1, KycInvStep
<1>7. ASSUME part = "media" PROVE FileInv' /\ KycTypeOK'
  <2>1. UNCHANGED kycVars /\ ((\E u \in Uploaders : MediaRoutes(u) \/ BrandingRoutes(u) \/ TaskSteps(u)) \/ UNCHANGED mediaVars)
    BY <1>7 DEF OnboardingNext, mcVars
  <2>2. KycTypeOK'
    BY <2>1 DEF kycVars, KycTypeOK
  <2>3. CASE \E u \in Uploaders : MediaRoutes(u) \/ BrandingRoutes(u) \/ TaskSteps(u)
    BY <2>2, <2>3, MediaStep
  <2>4. CASE UNCHANGED mediaVars
    BY <2>2, <2>4 DEF mediaVars, FileInv, MediaTypeOK, TaskFact, KeyFact, Removed, Alone
  <2> QED BY <2>1, <2>3, <2>4
<1>8. FileInv' /\ KycTypeOK'
  BY <1>6, <1>7 DEF KycInv, LinkInv
<1> QED BY <1>1, <1>3, <1>4, <1>5, <1>6, <1>8

\* Every file has its row, the address its row calls for and the content it is named for, by
\* whichever route it came and however uploads, deletions and faults interleave
\* (media.service, storage.service, file-security), and all parts keep their types.
THEOREM FilesAreSafe == OnboardingSpec => []FilesAndTypes
<1>1. PartsInv => FilesAndTypes
  <2> SUFFICES ASSUME PartsInv PROVE FilesAndTypes
    OBVIOUS
  <2>1. FilesHold /\ MediaTypeOK
    BY FileInvHolds DEF PartsInv, FileInv
  <2>2. ConnectTypeOK /\ LeadTypeOK
    BY DEF PartsInv, ConnectInv, ConnectType, LeadInv
  <2>3. TenancyTypeOK
    BY DEF PartsInv, RequestInv, RowInv, VisitInv, VisitRows, Owners, NumberInv, NumbersType, DocumentRows, TenancyTypeOK
  <2> QED BY <2>1, <2>2, <2>3 DEF PartsInv, FilesAndTypes, OnboardingTypeOK
<1> QED BY <1>1, PartsInvInit, PartsInvStep, PTL DEF OnboardingSpec

-----------------------------------------------------------------------------
(* Accounts and sessions                                                   *)

Has(t, p) == token[t] # NoToken /\ token[t].user = p

Mine(c, p) == call[c] # NoCall /\ call[c].p = p

\* The password of a session's login is the one it was opened under, or a temp token
\* was signed for it.
LoginKnown(signed, p, pw, login, mfa) == login = pw \/ (mfa /\ <<p, "mfa", login>> \in signed)

\* Every token belongs to an account, and so does its family, which the first token of
\* a session names; an administrator's was made with the second factor.
TokenInv ==
  /\ \A t \in Tokens : token[t] # NoToken =>
       /\ Exists(token[t].user)
       /\ Has(token[t].family, token[t].user)
       /\ token[token[t].family].family = token[t].family
       /\ IsAdminRole(token[t].role) => token[t].mfa
       /\ LoginKnown(temp, token[t].user, token[t].pw, token[t].login, token[t].mfa)
  /\ \A f \in reused : token[f] # NoToken

\* What a call knows, however many are under way.
CallFact(c) ==
  call[c] # NoCall =>
    /\ call[c].step \notin {"shop", "create"} => Exists(call[c].p)
    /\ call[c].step \in {"kill", "rotate", "retire", "revoke"} =>
         call[c].t \in Tokens /\ Has(call[c].t, call[c].p)
    /\ call[c].step = "retire" =>
         /\ call[c].new \in Tokens /\ Has(call[c].new, call[c].p)
         /\ token[call[c].new].family = token[call[c].t].family
    /\ (call[c].step \in {"shop", "create", "finalize", "issue"} /\ IsAdminRole(call[c].seen.role))
         => call[c].mfa
    /\ call[c].step \in {"shop", "create", "finalize", "issue"} =>
         LoginKnown(temp, call[c].p, call[c].seen.pw, call[c].login, call[c].mfa)
    /\ call[c].step \in {"shop", "create"} => ~call[c].seen.reset
    /\ call[c].step = "password" => call[c].seen.pw < MaxPw

\* What it knows besides when its person sends one request at a time.
AloneFact(c) ==
  LET r == call[c] IN
  /\ r.step \in {"finalize", "issue"} => r.seen.pw = user[r.p].pw
  /\ r.step = "fail" => r.seen.failed = user[r.p].failed /\ ~user[r.p].locked
  /\ r.step \in {"rotate", "retire"} =>
       \A u \in Tokens : (Live(u) /\ token[u].given /\ token[u].family = token[r.t].family) => u = r.t
  /\ r.step = "rotate" =>
       /\ token[r.t].family \notin reused
       /\ token[r.t].pw = user[r.p].pw \/ r.p \in cut
  /\ r.step = "retire" => ~token[r.new].given

Failing(p) == \E c \in Calls : Mine(c, p) /\ call[c].step = "fail"

Resetting(p) == \E c \in Calls : Mine(c, p) /\ call[c].step = "revokeAll"

\* The guesses are those the row counts, one that is about to be counted, and those that
\* a crash has lost.
GuessFact(p) ==
  /\ ~Exists(p) => guesses[p] = 0
  /\ Exists(p) =>
       guesses[p] <= crashes + (IF user[p].locked THEN MaxFailed
                                ELSE IF Failing(p) THEN user[p].failed + 1 ELSE user[p].failed)

TokenFact(p) ==
  \A t \in Tokens : (Has(t, p) /\ token[t].live) =>
    /\ token[t].family \notin reused
    /\ p \in cut \/ token[t].pw = user[p].pw \/ Resetting(p)
    /\ \A u \in Tokens :
         (Has(u, p) /\ token[u].live /\ token[u].family = token[t].family /\ token[t].given /\ token[u].given)
           => u = t

\* A person who sends one request at a time.
PersonInv(p) ==
  /\ \A c, d \in Calls : (Mine(c, p) /\ Mine(d, p)) => c = d
  /\ \A c \in Calls : Mine(c, p) => AloneFact(c)
  /\ GuessFact(p)
  /\ TokenFact(p)

UserInv ==
  \A p \in People :
    /\ (Exists(p) /\ user[p].reset) => user[p].pw < MaxPw
    /\ \A purpose \in Purposes, login \in 0 .. MaxPw : <<p, purpose, login>> \in temp => Exists(p)

SharedInv == TypeOK /\ TokenInv /\ UserInv /\ SomeSuperAdmin /\ \A c \in Calls : CallFact(c)

AloneInv == "overlap" \notin uses => \A p \in People : PersonInv(p)

SessionsInv == SharedInv /\ AloneInv

LEMMA NewUserType ==
  ASSUME NEW r \in UserRole, NEW s \in UserStatus, NEW v \in BOOLEAN
  PROVE  /\ NewUser(r, s, v) \in UserRows
         /\ NewUser(r, s, v).pw = 0 /\ NewUser(r, s, v).failed = 0 /\ NewUser(r, s, v).role = r
         /\ ~NewUser(r, s, v).locked /\ ~NewUser(r, s, v).reset
  BY SessionsAssumption DEF NewUser, UserRows

\* The account of the seed.
Administrator == [NewUser("SUPER_ADMIN", "ACTIVE", FALSE) EXCEPT !.tfa = "on"]

LEMMA AdministratorType ==
  Administrator \in UserRows /\ Administrator.role = "SUPER_ADMIN" /\ ~Administrator.reset
<1> DEFINE u == NewUser("SUPER_ADMIN", "ACTIVE", FALSE)
<1>1. u \in UserRows /\ u.role = "SUPER_ADMIN" /\ ~u.reset
  BY NewUserType DEF UserRole, UserStatus
<1> HIDE DEF u
<1>2. [u EXCEPT !.tfa = "on"] \in UserRows
  BY <1>1 DEF UserRows
<1>3. [u EXCEPT !.tfa = "on"].role = u.role /\ [u EXCEPT !.tfa = "on"].reset = u.reset
  BY <1>1 DEF UserRows
<1> QED BY <1>1, <1>2, <1>3 DEF u, Administrator

LEMMA SessionsInit == Init => SessionsInv
<1> SUFFICES ASSUME Init PROVE SessionsInv
  OBVIOUS
<1> USE SessionsAssumption, RolesAssumption, NothingAssumption
<1>0. user = [p \in People |-> IF p \in Roots THEN Administrator ELSE NoUser]
  BY DEF Init, Administrator
<1>1. TypeOK
  <2>2. user \in [People -> UserRows \cup {NoUser}]
    BY <1>0, AdministratorType
  <2>3. token \in [Tokens -> RefreshTokenRows \cup {NoToken}] /\ call \in [Calls -> CallStates]
    BY DEF Init, CallStates
  <2>4. invite \in [People -> Invites]
    BY DEF Init, Invites, InviteStates, UserRole
  <2>5. /\ temp \in SUBSET (People \X Purposes \X (0 .. MaxPw))
        /\ guesses \in [People -> Nat]
        /\ shops \subseteq People /\ web \subseteq People /\ reused \subseteq Tokens /\ cut \subseteq People
        /\ uses \in Scenarios /\ edits \in 0 .. MaxEdits /\ crashes \in 0 .. MaxCrashes
    BY DEF Init
  <2> QED BY <2>2, <2>3, <2>4, <2>5 DEF TypeOK
<1>2. TokenInv /\ \A c \in Calls : CallFact(c)
  BY DEF Init, TokenInv, CallFact
<1>3. UserInv /\ SomeSuperAdmin
  <2>1. \A p \in People : Exists(p) => user[p].reset = FALSE
    BY <1>0, AdministratorType DEF Exists
  <2>0. temp = {}
    BY DEF Init
  <2>2. PICK p \in Roots : TRUE
    OBVIOUS
  <2>3. user[p] = Administrator /\ Administrator \in UserRows
    BY <1>0, <2>2, AdministratorType
  <2> QED BY <2>0, <2>1, <2>2, <2>3, AdministratorType DEF UserInv, SomeSuperAdmin, Exists
<1>4. \A p \in People : PersonInv(p)
  <2> SUFFICES ASSUME NEW p \in People PROVE PersonInv(p)
    OBVIOUS
  <2>1. \A c \in Calls : ~Mine(c, p)
    BY DEF Init, Mine
  <2>2. \A t \in Tokens : ~Has(t, p)
    BY DEF Init, Has
  <2>3. GuessFact(p)
    <3>1. guesses[p] = 0 /\ crashes = 0
      BY DEF Init
    <3>2. Exists(p) => user[p] \in UserRows
      BY <1>1 DEF TypeOK, Exists
    <3>3. Exists(p) => user[p].failed \in Nat
      BY <3>2 DEF UserRows
    <3> QED BY <3>1, <3>3 DEF GuessFact
  <2> QED BY <2>1, <2>2, <2>3 DEF PersonInv, TokenFact
<1> QED BY <1>1, <1>2, <1>3, <1>4 DEF SessionsInv, SharedInv, AloneInv

-----------------------------------------------------------------------------
(* Sessions: types                                                         *)

\* The row of a person who has one.
LEMMA RowOf ==
  ASSUME TypeOK, NEW p \in People, Exists(p)
  PROVE  /\ user[p] \in UserRows
         /\ user[p].status \in UserStatus /\ user[p].role \in UserRole
         /\ user[p].pw \in 0 .. MaxPw /\ user[p].failed \in 0 .. MaxFailed - 1
         /\ user[p].locked \in BOOLEAN /\ user[p].tfa \in {"off", "setup", "on"}
         /\ user[p].verify \in BOOLEAN /\ user[p].reset \in BOOLEAN
  BY DEF TypeOK, Exists, UserRows

LEMMA CallOf ==
  ASSUME TypeOK, NEW c \in Calls, call[c] # NoCall
  PROVE  /\ call[c] \in CallRows
         /\ call[c].step \in Steps /\ call[c].p \in People /\ call[c].seen \in UserRows
         /\ call[c].mfa \in BOOLEAN /\ call[c].login \in 0 .. MaxPw
         /\ call[c].t \in Tokens \cup {NoToken} /\ call[c].new \in Tokens \cup {NoToken}
  BY DEF TypeOK, CallStates, CallRows

LEMMA TokenOf ==
  ASSUME TypeOK, NEW t \in Tokens, token[t] # NoToken
  PROVE  /\ token[t] \in RefreshTokenRows
         /\ token[t].user \in People /\ token[t].family \in Tokens
         /\ token[t].live \in BOOLEAN /\ token[t].given \in BOOLEAN
         /\ token[t].pw \in 0 .. MaxPw /\ token[t].login \in 0 .. MaxPw /\ token[t].role \in UserRole /\ token[t].mfa \in BOOLEAN
  BY DEF TypeOK, RefreshTokenRows

\* The calls keep their type in each way they are written.
LEMMA BeginType ==
  ASSUME TypeOK, NEW c \in Calls, NEW s \in Steps, NEW p \in People, NEW u \in UserRows,
         NEW login \in 0 .. MaxPw,
         NEW mfa \in BOOLEAN, NEW t \in Tokens \cup {NoToken}, BeginWith(c, s, p, u, login, mfa, t)
  PROVE  call' \in [Calls -> CallStates]
  BY DEF BeginWith, TypeOK, CallStates, CallRows

LEMMA GoesType ==
  ASSUME TypeOK, NEW c \in Calls, NEW s \in Steps, call[c] # NoCall, Goes(c, s)
  PROVE  call' \in [Calls -> CallStates]
<1>1. [call[c] EXCEPT !.step = s] \in CallRows
  BY CallOf DEF CallRows
<1> QED BY <1>1 DEF Goes, TypeOK, CallStates

LEMMA ReturnsType ==
  ASSUME TypeOK, NEW c \in Calls, Returns(c)
  PROVE  call' \in [Calls -> CallStates]
  BY DEF Returns, TypeOK, CallStates

LEMMA RevokedType ==
  ASSUME TypeOK, NEW S, \A t \in S : token[t] # NoToken, token' = Revoked(S)
  PROVE  token' \in [Tokens -> RefreshTokenRows \cup {NoToken}]
<1>1. ASSUME NEW t \in Tokens, t \in S
      PROVE  [token[t] EXCEPT !.live = FALSE] \in RefreshTokenRows
  BY <1>1, TokenOf DEF RefreshTokenRows
<1> QED BY <1>1 DEF Revoked, TypeOK

\* The row of p is written, with these contents; nobody else's changes.
UserBecomes(p, pw, failed, locked, role, reset) ==
  /\ user' \in [People -> UserRows \cup {NoUser}]
  /\ \A q \in People : q # p => user'[q] = user[q]
  /\ user'[p] # NoUser
  /\ user'[p].pw = pw /\ user'[p].failed = failed /\ user'[p].locked = locked
  /\ user'[p].role = role /\ user'[p].reset = reset

LEMMA EditRow ==
  ASSUME TypeOK, NEW p \in People, NEW u \in UserRows, user' = [user EXCEPT ![p] = u]
  PROVE  UserBecomes(p, u.pw, u.failed, u.locked, u.role, u.reset)
<1>1. user'[p] = u /\ u # NoUser /\ \A q \in People : q # p => user'[q] = user[q]
  BY NothingAssumption DEF TypeOK
<1>2. user' \in [People -> UserRows \cup {NoUser}]
  BY DEF TypeOK
<1> QED BY <1>1, <1>2 DEF UserBecomes

LEMMA EditStatus ==
  ASSUME TypeOK, NEW p \in People, Exists(p), NEW s \in UserStatus, user' = [user EXCEPT ![p].status = s]
  PROVE  UserBecomes(p, user[p].pw, user[p].failed, user[p].locked, user[p].role, user[p].reset)
<1>1. [user[p] EXCEPT !.status = s] \in UserRows
  BY RowOf DEF UserRows
<1> QED BY <1>1, RowOf, NothingAssumption DEF UserBecomes, TypeOK, UserRows

LEMMA EditRole ==
  ASSUME TypeOK, NEW p \in People, Exists(p), NEW r \in UserRole, user' = [user EXCEPT ![p].role = r]
  PROVE  UserBecomes(p, user[p].pw, user[p].failed, user[p].locked, r, user[p].reset)
<1>1. [user[p] EXCEPT !.role = r] \in UserRows
  BY RowOf DEF UserRows
<1> QED BY <1>1, RowOf, NothingAssumption DEF UserBecomes, TypeOK, UserRows

LEMMA EditTfa ==
  ASSUME TypeOK, NEW p \in People, Exists(p), NEW s \in {"off", "setup", "on"}, user' = [user EXCEPT ![p].tfa = s]
  PROVE  UserBecomes(p, user[p].pw, user[p].failed, user[p].locked, user[p].role, user[p].reset)
<1>1. [user[p] EXCEPT !.tfa = s] \in UserRows
  BY RowOf DEF UserRows
<1> QED BY <1>1, RowOf, NothingAssumption DEF UserBecomes, TypeOK, UserRows

LEMMA EditReset ==
  ASSUME TypeOK, NEW p \in People, Exists(p), user' = [user EXCEPT ![p].reset = TRUE]
  PROVE  UserBecomes(p, user[p].pw, user[p].failed, user[p].locked, user[p].role, TRUE)
<1>1. [user[p] EXCEPT !.reset = TRUE] \in UserRows
  BY RowOf DEF UserRows
<1> QED BY <1>1, RowOf, NothingAssumption DEF UserBecomes, TypeOK, UserRows

LEMMA EditUnlock ==
  ASSUME TypeOK, NEW p \in People, Exists(p), user' = [user EXCEPT ![p].locked = FALSE]
  PROVE  UserBecomes(p, user[p].pw, user[p].failed, FALSE, user[p].role, user[p].reset)
<1>1. [user[p] EXCEPT !.locked = FALSE] \in UserRows
  BY RowOf DEF UserRows
<1> QED BY <1>1, RowOf, NothingAssumption DEF UserBecomes, TypeOK, UserRows

\* The count of failed logins and the lock are written together.
LEMMA EditCount ==
  ASSUME TypeOK, NEW p \in People, Exists(p), NEW n \in 0 .. MaxFailed - 1, NEW b \in BOOLEAN,
         user' = [user EXCEPT ![p].failed = n, ![p].locked = b]
  PROVE  UserBecomes(p, user[p].pw, n, b, user[p].role, user[p].reset)
<1> DEFINE d == [user[p] EXCEPT !.failed = n]
           e == [d EXCEPT !.locked = b]
<1>1. d \in UserRows /\ d.pw = user[p].pw /\ d.role = user[p].role /\ d.reset = user[p].reset /\ d.failed = n
  BY RowOf DEF UserRows
<1>2. e \in UserRows /\ e.pw = d.pw /\ e.role = d.role /\ e.reset = d.reset /\ e.failed = n /\ e.locked = b
  <2> HIDE DEF d
  <2> QED BY <1>1 DEF UserRows
<1>3. user' = [user EXCEPT ![p] = e]
  BY DEF TypeOK
<1> HIDE DEF d, e
<1>4. UserBecomes(p, e.pw, e.failed, e.locked, e.role, e.reset)
  BY <1>2, <1>3, EditRow
<1> QED BY <1>1, <1>2, <1>4

LEMMA EditVerified ==
  ASSUME TypeOK, NEW p \in People, Exists(p), NEW s \in UserStatus,
         user' = [user EXCEPT ![p].verify = FALSE, ![p].status = s]
  PROVE  UserBecomes(p, user[p].pw, user[p].failed, user[p].locked, user[p].role, user[p].reset)
<1> DEFINE d == [user[p] EXCEPT !.verify = FALSE]
           e == [d EXCEPT !.status = s]
<1>1. /\ d \in UserRows /\ d.pw = user[p].pw /\ d.role = user[p].role /\ d.reset = user[p].reset
      /\ d.failed = user[p].failed /\ d.locked = user[p].locked
  BY RowOf DEF UserRows
<1>2. /\ e \in UserRows /\ e.pw = d.pw /\ e.role = d.role /\ e.reset = d.reset
      /\ e.failed = d.failed /\ e.locked = d.locked
  <2> HIDE DEF d
  <2> QED BY <1>1 DEF UserRows
<1>3. user' = [user EXCEPT ![p] = e]
  BY DEF TypeOK
<1> HIDE DEF d, e
<1>4. UserBecomes(p, e.pw, e.failed, e.locked, e.role, e.reset)
  BY <1>2, <1>3, EditRow
<1> QED BY <1>1, <1>2, <1>4

LEMMA EditPassword ==
  ASSUME TypeOK, NEW p \in People, Exists(p), NEW n \in 0 .. MaxPw,
         user' = [user EXCEPT ![p].pw = n, ![p].reset = FALSE, ![p].failed = 0, ![p].locked = FALSE]
  PROVE  UserBecomes(p, n, 0, FALSE, user[p].role, FALSE)
<1> DEFINE a == [user[p] EXCEPT !.pw = n]
           b == [a EXCEPT !.reset = FALSE]
           d == [b EXCEPT !.failed = 0]
           e == [d EXCEPT !.locked = FALSE]
<1>1. a \in UserRows /\ a.pw = n /\ a.role = user[p].role
  BY RowOf DEF UserRows
<1>2. b \in UserRows /\ b.pw = n /\ b.role = user[p].role /\ b.reset = FALSE
  <2> HIDE DEF a
  <2> QED BY <1>1 DEF UserRows
<1>3. d \in UserRows /\ d.pw = n /\ d.role = user[p].role /\ d.reset = FALSE /\ d.failed = 0
  <2> HIDE DEF b
  <2> QED BY <1>2, SessionsAssumption DEF UserRows
<1>4. e \in UserRows /\ e.pw = n /\ e.role = user[p].role /\ e.reset = FALSE /\ e.failed = 0 /\ e.locked = FALSE
  <2> HIDE DEF d
  <2> QED BY <1>3 DEF UserRows
<1>5. user' = [user EXCEPT ![p] = e]
  BY DEF TypeOK
<1> HIDE DEF e
<1>6. UserBecomes(p, e.pw, e.failed, e.locked, e.role, e.reset)
  BY <1>4, <1>5, EditRow
<1> QED BY <1>4, <1>6

\* What the calls' writes do to the user's row.
LEMMA LoginFailedEffect ==
  ASSUME TypeOK, NEW c \in Calls, CallFact(c), LoginFailed(c)
  PROVE  LET p == call[c].p
             n == call[c].seen.failed + 1 IN
         UserBecomes(p, user[p].pw, IF n >= MaxFailed THEN 0 ELSE n, user[p].locked \/ n >= MaxFailed,
                     user[p].role, user[p].reset)
<1> DEFINE p == call[c].p
           n == call[c].seen.failed + 1
           m == IF n >= MaxFailed THEN 0 ELSE n
           b == (user[p].locked \/ n >= MaxFailed)
<1>1. call[c] # NoCall /\ p \in People /\ Exists(p) /\ call[c].seen \in UserRows
  BY CallOf DEF LoginFailed, At, CallFact
<1>2. n \in Nat /\ n >= 1 /\ n <= MaxFailed
  BY <1>1, SessionsAssumption DEF UserRows
<1>3. m \in 0 .. MaxFailed - 1 /\ b \in BOOLEAN
  BY <1>2, SessionsAssumption
<1>4. user' = [user EXCEPT ![p].failed = m, ![p].locked = b]
  <2>1. [user[p] EXCEPT !.failed = m].locked = user[p].locked
    BY <1>1, RowOf DEF UserRows
  <2> QED BY <2>1 DEF LoginFailed, TypeOK
<1> HIDE DEF m, b, n, p
<1>5. UserBecomes(p, user[p].pw, m, b, user[p].role, user[p].reset)
  BY <1>1, <1>3, <1>4, EditCount
<1> QED BY <1>5 DEF m, b, n, p

LEMMA FinalizeLoginEffect ==
  ASSUME TypeOK, NEW c \in Calls, CallFact(c), FinalizeLogin(c)
  PROVE  LET p == call[c].p IN UserBecomes(p, user[p].pw, 0, FALSE, user[p].role, user[p].reset)
<1>1. call[c] # NoCall /\ call[c].p \in People /\ Exists(call[c].p)
  BY CallOf DEF FinalizeLogin, At, CallFact
<1>2. 0 \in 0 .. MaxFailed - 1
  BY SessionsAssumption
<1> QED BY <1>1, <1>2, EditCount DEF FinalizeLogin

LEMMA WriteVerifiedEffect ==
  ASSUME TypeOK, NEW c \in Calls, CallFact(c), WriteVerified(c)
  PROVE  LET p == call[c].p IN
         UserBecomes(p, user[p].pw, user[p].failed, user[p].locked, user[p].role, user[p].reset)
<1> DEFINE s == IF call[c].seen.status = "PENDING_VERIFICATION" THEN "ACTIVE" ELSE call[c].seen.status
<1>1. call[c] # NoCall /\ call[c].p \in People /\ Exists(call[c].p) /\ call[c].seen \in UserRows
  BY CallOf DEF WriteVerified, At, CallFact
<1>2. s \in UserStatus
  BY <1>1 DEF UserRows, UserStatus
<1>3. user' = [user EXCEPT ![call[c].p].verify = FALSE, ![call[c].p].status = s]
  BY DEF WriteVerified
<1> HIDE DEF s
<1> QED BY <1>1, <1>2, <1>3, EditVerified

LEMMA WritePasswordEffect ==
  ASSUME TypeOK, NEW c \in Calls, CallFact(c), WritePassword(c)
  PROVE  LET p == call[c].p IN
         UserBecomes(p, call[c].seen.pw + 1, 0, FALSE, user[p].role, FALSE)
<1>1. call[c] # NoCall /\ call[c].p \in People /\ Exists(call[c].p) /\ call[c].seen \in UserRows
  BY CallOf DEF WritePassword, At, CallFact
<1>2. call[c].seen.pw + 1 \in 0 .. MaxPw
  <2>1. call[c].seen.pw < MaxPw
    BY DEF WritePassword, At, CallFact
  <2>2. call[c].seen.pw \in 0 .. MaxPw
    BY <1>1 DEF UserRows
  <2> QED BY <2>1, <2>2, SessionsAssumption
<1> QED BY <1>1, <1>2, EditPassword DEF WritePassword

LEMMA WriteEnabledEffect ==
  ASSUME TypeOK, NEW c \in Calls, CallFact(c), WriteEnabled(c)
  PROVE  LET p == call[c].p IN
         UserBecomes(p, user[p].pw, user[p].failed, user[p].locked, user[p].role, user[p].reset)
<1>1. call[c] # NoCall /\ call[c].p \in People /\ Exists(call[c].p)
  BY CallOf DEF WriteEnabled, At, CallFact
<1> QED BY <1>1, EditTfa DEF WriteEnabled

LEMMA CreateUserEffect ==
  ASSUME TypeOK, NEW c \in Calls, CreateUser(c), ~Exists(call[c].p)
  PROVE  LET u == call[c].seen IN
         call[c].p \in People /\ UserBecomes(call[c].p, u.pw, u.failed, u.locked, u.role, u.reset)
  BY CallOf, EditRow DEF CreateUser, At

LEMMA AcceptInviteEffect ==
  ASSUME TypeOK, NEW p \in People, AcceptInvite(p)
  PROVE  UserBecomes(p, 0, 0, FALSE, invite[p].role, FALSE)
<1> DEFINE u == NewUser(invite[p].role, "ACTIVE", FALSE)
<1>1. invite[p].role \in UserRole
  BY DEF TypeOK, Invites
<1>2. /\ u \in UserRows /\ u.pw = 0 /\ u.failed = 0 /\ u.role = invite[p].role
      /\ u.locked = FALSE /\ u.reset = FALSE
  <2>1. u.locked = FALSE /\ u.reset = FALSE
    BY DEF NewUser
  <2> QED BY <1>1, <2>1, NewUserType DEF UserStatus
<1>3. user' = [user EXCEPT ![p] = u]
  BY DEF AcceptInvite
<1> HIDE DEF u
<1> QED BY <1>2, <1>3, EditRow

\* A call of p begins, with what the route has checked and read.
Started(c, s, p, u, login, mfa, t) ==
  /\ MayStart(c, p) /\ BeginWith(c, s, p, u, login, mfa, t)
  /\ LoginKnown(temp, p, u.pw, login, mfa)
  /\ UNCHANGED <<user, token, reused, cut, crashes, uses, invite, edits, shops, web, temp>>
  /\ s = "fail" => ~user[p].locked /\ guesses' = [guesses EXCEPT ![p] = @ + 1]
  /\ s # "fail" => guesses' = guesses
  /\ s \in {"shop", "create", "finalize", "fail", "password", "enable", "verifyEmail",
            "kill", "rotate", "revoke"}
  /\ s \in {"shop", "create"} => u.reset = FALSE /\ u.role \in {"CUSTOMER", "MERCHANT"}
  /\ s \notin {"shop", "create"} => Exists(p) /\ u = user[p]
  /\ s = "finalize" => (IsAdminRole(u.role) => mfa)
  /\ s = "password" => u.reset
  /\ s \in {"kill", "rotate", "revoke"} => t \in Tokens /\ Has(t, p) /\ token[t].given
  /\ s = "rotate" => token[t].live

\* Temp tokens are signed for people who have a row, and are not taken back.
TempGrows ==
  /\ temp' \in SUBSET (People \X Purposes \X (0 .. MaxPw))
  /\ temp \subseteq temp'
  /\ \A p \in People, x \in Purposes, login \in 0 .. MaxPw : <<p, x, login>> \in temp' => Exists(p)

\* The requests begin with a call of their person.
LEMMA RouteBegins ==
  ASSUME TypeOK, TokenInv, UserInv, NEW c \in Calls, AuthRoutes(c)
  PROVE  \/ /\ UNCHANGED <<user, token, call, guesses, reused, cut, crashes, uses, invite, edits, shops, web>>
            /\ TempGrows
         \/ \E s \in Steps, p \in People, u \in UserRows, login \in 0 .. MaxPw, mfa \in BOOLEAN,
               t \in Tokens \cup {NoToken} : Started(c, s, p, u, login, mfa, t)
<1> USE SessionsAssumption
<1> DEFINE Goal == \E s \in Steps, p \in People, u \in UserRows, login \in 0 .. MaxPw, mfa \in BOOLEAN,
                     t \in Tokens \cup {NoToken} : Started(c, s, p, u, login, mfa, t)
           Asks == /\ UNCHANGED <<user, token, call, guesses, reused, cut, crashes, uses, invite, edits, shops, web>>
                   /\ TempGrows
<1>x. ASSUME NEW s \in Steps, NEW p \in People, NEW u \in UserRows, NEW login \in 0 .. MaxPw,
             NEW mfa \in BOOLEAN, NEW t \in Tokens \cup {NoToken}, Started(c, s, p, u, login, mfa, t)
      PROVE  Goal
  BY <1>x
<1>g. ASSUME NEW s \in Steps, NEW p \in People, NEW u \in UserRows, NEW mfa \in BOOLEAN,
             NEW t \in Tokens \cup {NoToken}, Started(c, s, p, u, u.pw, mfa, t)
      PROVE  Goal
  <2>1. u.pw \in 0 .. MaxPw
    BY DEF UserRows
  <2> QED BY <1>x, <1>g, <2>1
<1> HIDE DEF Goal
<1>1. ASSUME NEW p \in Clients, RegisterCustomer(c, p) PROVE Goal
  <2> DEFINE u == NewUser("CUSTOMER", "PENDING_VERIFICATION", TRUE)
  <2>1. u \in UserRows /\ u.reset = FALSE /\ u.role = "CUSTOMER"
    <3>1. u.reset = FALSE
      BY DEF NewUser
    <3> QED BY <3>1, NewUserType DEF UserRole, UserStatus
  <2>2. Begin(c, "create", p, u, FALSE, NoToken) /\ MayStart(c, p)
    BY <1>1 DEF Started, LoginKnown, Begin, RegisterCustomer
  <2> HIDE DEF u
  <2>3. Started(c, "create", p, u, u.pw, FALSE, NoToken)
    BY <1>1, <2>1, <2>2 DEF Started, LoginKnown, Begin, RegisterCustomer
  <2> QED BY <2>1, <2>3, <1>g DEF Steps
<1>2. ASSUME NEW p \in Clients, RegisterMerchant(c, p) PROVE Goal
  <2> DEFINE u == NewUser("MERCHANT", "PENDING_VERIFICATION", TRUE)
  <2>1. u \in UserRows /\ u.reset = FALSE /\ u.role = "MERCHANT"
    <3>1. u.reset = FALSE
      BY DEF NewUser
    <3> QED BY <3>1, NewUserType DEF UserRole, UserStatus
  <2>2. Begin(c, "shop", p, u, FALSE, NoToken) /\ MayStart(c, p)
    BY <1>2 DEF Started, LoginKnown, Begin, RegisterMerchant
  <2> HIDE DEF u
  <2>3. Started(c, "shop", p, u, u.pw, FALSE, NoToken)
    BY <1>2, <2>1, <2>2 DEF Started, LoginKnown, Begin, RegisterMerchant
  <2> QED BY <2>1, <2>3, <1>g DEF Steps
<1>3. ASSUME NEW p \in Clients, NEW correct \in BOOLEAN, NEW totp \in BOOLEAN, Login(c, p, correct, totp)
      PROVE  Goal \/ Asks
  <2>0. p \in People /\ user[p] \in UserRows /\ Exists(p) /\ MayStart(c, p) /\ ~user[p].locked
    BY <1>3, RowOf DEF Started, LoginKnown, Begin, Login
  <2> DEFINE need == SecondFactor(user[p])
  <2>1. CASE ~correct
    <3>1. Started(c, "fail", p, user[p], user[p].pw, FALSE, NoToken)
      BY <1>3, <2>0, <2>1 DEF Started, LoginKnown, Begin, Login
    <3> QED BY <2>0, <3>1, <1>g DEF Steps
  <2>2. CASE correct /\ (need = "none" \/ (need = "code" /\ totp))
    <3> DEFINE m == (need = "code")
    <3>1. Begin(c, "finalize", p, user[p], m, NoToken) /\ guesses' = guesses /\ temp' = temp
      BY <1>3, <2>2 DEF Started, LoginKnown, Begin, Login
    <3>2. IsAdminRole(user[p].role) => m
      BY <2>2 DEF SecondFactor
    <3>3. m \in BOOLEAN
      OBVIOUS
    <3> HIDE DEF m
    <3>4. Started(c, "finalize", p, user[p], user[p].pw, m, NoToken)
      BY <1>3, <2>0, <3>1, <3>2 DEF Started, LoginKnown, Begin, Login
    <3> QED BY <2>0, <3>3, <3>4, <1>g DEF Steps
  <2>3. CASE correct /\ ~(need = "none" \/ (need = "code" /\ totp))
    <3>1. SignMfaTempToken(p, IF need = "enroll" THEN "mfa_enroll" ELSE "mfa") /\ UNCHANGED <<call, guesses>>
      BY <1>3, <2>3 DEF Started, LoginKnown, Begin, Login
    <3>2. TempGrows
      <4>1. PICK x \in Purposes : temp' = temp \cup {<<p, x, user[p].pw>>}
        BY <3>1 DEF SignMfaTempToken, Purposes
      <4>2. user[p].pw \in 0 .. MaxPw
        BY <2>0 DEF UserRows
      <4>3. temp' \in SUBSET (People \X Purposes \X (0 .. MaxPw)) /\ temp \subseteq temp'
        BY <2>0, <4>1, <4>2 DEF TypeOK
      <4>4. ASSUME NEW q \in People, NEW y \in Purposes, NEW login \in 0 .. MaxPw, <<q, y, login>> \in temp'
            PROVE  Exists(q)
        BY <2>0, <4>1, <4>4 DEF UserInv
      <4> QED BY <4>3, <4>4 DEF TempGrows
    <3> QED BY <1>3, <3>1, <3>2 DEF Login
  <2> QED BY <2>1, <2>2, <2>3
<1>4. ASSUME NEW p \in Clients, VerifyMfa(c, p) PROVE Goal
  <2>1. PICK login \in 0 .. MaxPw :
          <<p, "mfa", login>> \in temp /\ BeginWith(c, "finalize", p, user[p], login, TRUE, NoToken)
    BY <1>4 DEF VerifyMfa, VerifyMfaTempToken
  <2>2. Exists(p)
    BY <2>1 DEF UserInv, Purposes
  <2>3. Started(c, "finalize", p, user[p], login, TRUE, NoToken)
    BY <1>4, <2>1, <2>2 DEF Started, LoginKnown, VerifyMfa
  <2> QED BY <2>2, <2>3, <1>x, RowOf DEF Steps
<1>5. ASSUME NEW p \in Clients, VerifyEmail(c, p) PROVE Goal
  <2>1. Exists(p) /\ Started(c, "verifyEmail", p, user[p], user[p].pw, FALSE, NoToken)
    BY <1>5 DEF Started, LoginKnown, Begin, VerifyEmail
  <2> QED BY <2>1, <1>g, RowOf DEF Steps
<1>6. ASSUME NEW p \in Clients, ConfirmPasswordReset(c, p) PROVE Goal
  <2>1. Exists(p) /\ Started(c, "password", p, user[p], user[p].pw, FALSE, NoToken)
    BY <1>6 DEF Started, LoginKnown, Begin, ConfirmPasswordReset
  <2> QED BY <2>1, <1>g, RowOf DEF Steps
<1>7. ASSUME NEW p \in Clients, Enable2fa(c, p) PROVE Goal
  <2>1. Exists(p) /\ Started(c, "enable", p, user[p], user[p].pw, FALSE, NoToken)
    BY <1>7 DEF Started, LoginKnown, Begin, Enable2fa, MayEnroll
  <2> QED BY <2>1, <1>g, RowOf DEF Steps
<1>8. ASSUME NEW t \in Tokens, Refresh(c, t) PROVE Goal
  <2> DEFINE p == token[t].user
             s == IF ~token[t].live \/ Barred(user[p]) THEN "kill" ELSE "rotate"
  <2>1. /\ token[t] # NoToken /\ token[t].given /\ p \in People /\ Exists(p) /\ MayStart(c, p) /\ Has(t, p)
        /\ token[t].mfa \in BOOLEAN
    BY <1>8, TokenOf DEF Started, LoginKnown, Begin, Refresh, TokenInv, Has
  <2>2. CASE Begin(c, s, p, user[p], token[t].mfa, t)
    <3>2. s \in {"kill", "rotate"} /\ (s = "rotate" => token[t].live)
      BY <2>1, TokenOf
    <3> HIDE DEF s
    <3>1. Started(c, s, p, user[p], user[p].pw, token[t].mfa, t) /\ s \in Steps
      BY <1>8, <2>1, <2>2, <3>2 DEF Started, LoginKnown, Begin, Refresh, Steps
    <3> QED BY <2>1, <3>1, <1>g, RowOf
  <2>3. CASE token[t].live /\ Begin(c, "revoke", p, user[p], FALSE, t)
    <3>1. Started(c, "revoke", p, user[p], user[p].pw, FALSE, t)
      BY <1>8, <2>1, <2>3 DEF Started, LoginKnown, Begin, Refresh
    <3> QED BY <2>1, <3>1, <1>g, RowOf DEF Steps
  <2> QED BY <1>8, <2>2, <2>3 DEF Started, LoginKnown, Begin, Refresh
<1> QED BY <1>1, <1>2, <1>3, <1>4, <1>5, <1>6, <1>7, <1>8 DEF AuthRoutes, Goal

\* How the handlers leave the tokens.
LEMMA IssueEffect ==
  ASSUME TypeOK, NEW c \in Calls, IssueTokens(c)
  PROVE  \E t \in Tokens :
           /\ token[t] = NoToken
           /\ token' = [token EXCEPT ![t] =
                          [user |-> call[c].p, family |-> t, live |-> TRUE, given |-> TRUE,
                           pw |-> call[c].seen.pw, login |-> call[c].login,
                           role |-> call[c].seen.role, mfa |-> call[c].mfa]]
<1> DEFINE t == CHOOSE t \in Tokens : token[t] = NoToken
<1>1. t \in Tokens /\ token[t] = NoToken
  BY DEF IssueTokens
<1> QED BY <1>1 DEF IssueTokens

LEMMA RotateEffect ==
  ASSUME TypeOK, NEW c \in Calls, CallFact(c), Rotate(c)
  PROVE  \E t \in Tokens :
           /\ token[t] = NoToken
           /\ token' = [token EXCEPT ![t] = token'[t]] /\ token'[t] \in RefreshTokenRows
           /\ LET o == token[call[c].t] IN
                /\ o # NoToken
                /\ token'[t].user = o.user /\ token'[t].family = o.family /\ token'[t].pw = o.pw
                /\ token'[t].login = o.login
                /\ token'[t].role = o.role /\ token'[t].mfa = o.mfa
                /\ token'[t].live = TRUE /\ token'[t].given = FALSE
           /\ call' = [call EXCEPT ![c].step = "retire", ![c].new = t]
<1> DEFINE t == CHOOSE t \in Tokens : token[t] = NoToken
           o == token[call[c].t]
           a == [o EXCEPT !.live = TRUE]
           b == [a EXCEPT !.given = FALSE]
<1>1. t \in Tokens /\ token[t] = NoToken
  BY DEF Rotate
<1>2. o # NoToken /\ o \in RefreshTokenRows
  BY TokenOf DEF Rotate, At, CallFact, Has
<1>3. token' = [token EXCEPT ![t] = b] /\ call' = [call EXCEPT ![c].step = "retire", ![c].new = t]
  BY DEF Rotate
<1>4. /\ a \in RefreshTokenRows /\ a.user = o.user /\ a.family = o.family /\ a.pw = o.pw
      /\ a.login = o.login
      /\ a.role = o.role /\ a.mfa = o.mfa /\ a.live = TRUE
  <2> HIDE DEF o
  <2> QED BY <1>2 DEF RefreshTokenRows
<1>5. /\ b \in RefreshTokenRows /\ b.user = a.user /\ b.family = a.family /\ b.pw = a.pw
      /\ b.login = a.login
      /\ b.role = a.role /\ b.mfa = a.mfa /\ b.live = a.live /\ b.given = FALSE
  <2> HIDE DEF a
  <2> QED BY <1>4 DEF RefreshTokenRows
<1> HIDE DEF t, b, a, o
<1>6. token'[t] = b
  BY <1>1, <1>3 DEF TypeOK
<1>7. token' = [token EXCEPT ![t] = token'[t]]
  BY <1>3, <1>6
<1> QED BY <1>1, <1>2, <1>3, <1>4, <1>5, <1>6, <1>7 DEF o

LEMMA RetireEffect ==
  ASSUME TypeOK, NEW c \in Calls, CallFact(c), Retire(c)
  PROVE  /\ token' \in [Tokens -> RefreshTokenRows \cup {NoToken}]
         /\ \A u \in Tokens :
              /\ token[u] = NoToken => token'[u] = NoToken
              /\ token[u] # NoToken =>
                   /\ token'[u] # NoToken
                   /\ token'[u].user = token[u].user /\ token'[u].family = token[u].family
                   /\ token'[u].pw = token[u].pw /\ token'[u].login = token[u].login
                   /\ token'[u].role = token[u].role
                   /\ token'[u].mfa = token[u].mfa
                   /\ token'[u].live = (token[u].live /\ u # call[c].t)
                   /\ token'[u].given = (token[u].given \/ u = call[c].new)
<1> DEFINE o == call[c].t
           n == call[c].new
           a == [token EXCEPT ![o].live = FALSE]
<1>1. o \in Tokens /\ n \in Tokens /\ token[o] # NoToken /\ token[n] # NoToken
  BY DEF Retire, At, CallFact, Has
<1>2. token' = [a EXCEPT ![n].given = TRUE]
  BY DEF Retire
<1>3. [token[o] EXCEPT !.live = FALSE] \in RefreshTokenRows
  BY <1>1, TokenOf DEF RefreshTokenRows
<1> HIDE DEF o, n
<1>4. /\ a \in [Tokens -> RefreshTokenRows \cup {NoToken}]
      /\ \A u \in Tokens : u # o => a[u] = token[u]
      /\ a[o] = [token[o] EXCEPT !.live = FALSE]
  BY <1>1, <1>3 DEF TypeOK
<1>5. /\ a[o] # NoToken /\ a[o].live = FALSE
      /\ a[o].user = token[o].user /\ a[o].family = token[o].family /\ a[o].pw = token[o].pw
      /\ a[o].login = token[o].login /\ a[o].role = token[o].role /\ a[o].mfa = token[o].mfa /\ a[o].given = token[o].given
  BY <1>1, <1>3, <1>4, TokenOf, NothingAssumption DEF RefreshTokenRows
<1> HIDE DEF a
<1>6. a[n] \in RefreshTokenRows
  BY <1>1, <1>4, <1>5
<1>7. [a[n] EXCEPT !.given = TRUE] \in RefreshTokenRows
  BY <1>6 DEF RefreshTokenRows
<1>8. /\ token' \in [Tokens -> RefreshTokenRows \cup {NoToken}]
      /\ \A u \in Tokens : u # n => token'[u] = a[u]
      /\ token'[n] = [a[n] EXCEPT !.given = TRUE]
  BY <1>1, <1>2, <1>4, <1>7
<1>9. /\ token'[n] # NoToken /\ token'[n].given = TRUE
      /\ token'[n].user = a[n].user /\ token'[n].family = a[n].family /\ token'[n].pw = a[n].pw
      /\ token'[n].login = a[n].login /\ token'[n].role = a[n].role /\ token'[n].mfa = a[n].mfa /\ token'[n].live = a[n].live
  BY <1>6, <1>7, <1>8, NothingAssumption DEF RefreshTokenRows
<1>10. \A u \in Tokens : token[u] # NoToken => token[u].live \in BOOLEAN /\ token[u].given \in BOOLEAN
  BY TokenOf
<1>11. ASSUME NEW u \in Tokens, token[u] # NoToken
       PROVE  /\ token'[u] # NoToken
              /\ token'[u].user = token[u].user /\ token'[u].family = token[u].family
              /\ token'[u].pw = token[u].pw /\ token'[u].login = token[u].login
              /\ token'[u].role = token[u].role
              /\ token'[u].mfa = token[u].mfa
              /\ token'[u].live = (token[u].live /\ u # o)
              /\ token'[u].given = (token[u].given \/ u = n)
  <2>1. /\ a[u] # NoToken
        /\ a[u].user = token[u].user /\ a[u].family = token[u].family
        /\ a[u].pw = token[u].pw /\ a[u].login = token[u].login
        /\ a[u].role = token[u].role /\ a[u].mfa = token[u].mfa
        /\ a[u].live = (token[u].live /\ u # o) /\ a[u].given = token[u].given
    BY <1>1, <1>4, <1>5, <1>10, <1>11
  <2>2. CASE u = n
    BY <1>9, <2>1, <2>2
  <2>3. CASE u # n
    <3>1. token'[u] = a[u]
      BY <1>8, <2>3
    <3> QED BY <1>10, <1>11, <2>1, <2>3, <3>1
  <2> QED BY <2>2, <2>3
<1>12. \A u \in Tokens : token[u] = NoToken => token'[u] = NoToken
  BY <1>1, <1>4, <1>8
<1> QED BY <1>8, <1>11, <1>12 DEF o, n

\* What the revocations do.
LEMMA RevokedEffect ==
  ASSUME TypeOK, NEW S, \A t \in S : token[t] # NoToken, token' = Revoked(S)
  PROVE  /\ token' \in [Tokens -> RefreshTokenRows \cup {NoToken}]
         /\ \A u \in Tokens :
              /\ token[u] = NoToken => token'[u] = NoToken
              /\ token[u] # NoToken =>
                   /\ token'[u] # NoToken
                   /\ token'[u].user = token[u].user /\ token'[u].family = token[u].family
                   /\ token'[u].pw = token[u].pw /\ token'[u].login = token[u].login
                   /\ token'[u].role = token[u].role
                   /\ token'[u].mfa = token[u].mfa /\ token'[u].given = token[u].given
                   /\ token'[u].live = (token[u].live /\ u \notin S)
<1>1. token' \in [Tokens -> RefreshTokenRows \cup {NoToken}]
  BY RevokedType
<1>2. \A u \in Tokens : u \notin S => token'[u] = token[u]
  BY DEF Revoked
<1>3. \A u \in Tokens : u \in S => token'[u] = [token[u] EXCEPT !.live = FALSE]
  BY DEF Revoked
<1>4. ASSUME NEW u \in Tokens, token[u] # NoToken
      PROVE  /\ token'[u] # NoToken
             /\ token'[u].user = token[u].user /\ token'[u].family = token[u].family
             /\ token'[u].pw = token[u].pw /\ token'[u].login = token[u].login
             /\ token'[u].role = token[u].role
             /\ token'[u].mfa = token[u].mfa /\ token'[u].given = token[u].given
             /\ token'[u].live = (token[u].live /\ u \notin S)
  <2>1. token[u] \in RefreshTokenRows /\ token[u].live \in BOOLEAN
    BY <1>4, TokenOf
  <2>2. CASE u \in S
    <3>1. [token[u] EXCEPT !.live = FALSE] \in RefreshTokenRows
      BY <2>1 DEF RefreshTokenRows
    <3>2. token'[u] = [token[u] EXCEPT !.live = FALSE]
      BY <1>3, <2>2
    <3> QED BY <2>1, <2>2, <3>1, <3>2, NothingAssumption DEF RefreshTokenRows
  <2> QED BY <1>2, <1>4, <2>1, <2>2
<1> QED BY <1>1, <1>2, <1>4

-----------------------------------------------------------------------------
(* Sessions: what a step leaves as it was                                  *)

\* Rows are never deleted, and a token keeps what it was made with.
UsersKept == \A p \in People : Exists(p) => user'[p] # NoUser

TokensKept ==
  \A u \in Tokens : token[u] # NoToken =>
    /\ token'[u] # NoToken
    /\ token'[u].user = token[u].user /\ token'[u].family = token[u].family
    /\ token'[u].pw = token[u].pw /\ token'[u].login = token[u].login
    /\ token'[u].role = token[u].role
    /\ token'[u].mfa = token[u].mfa

NoneMade == \A u \in Tokens : token[u] = NoToken => token'[u] = NoToken

\* A step that p's own tokens, password and lock do not notice.
Undisturbed(p) ==
  /\ Exists(p) => /\ user'[p].pw = user[p].pw /\ user'[p].failed = user[p].failed
                  /\ user'[p].locked = user[p].locked
  /\ \A u \in Tokens :
       (token'[u] # NoToken /\ token'[u].user = p) =>
         /\ token[u] # NoToken /\ token'[u].given = token[u].given
         /\ token'[u].live => token[u].live
  /\ \A f \in reused' : f \notin reused => ~Has(f, p)
  /\ \A c \in Calls : (Mine(c, p) \/ (call'[c] # NoCall /\ call'[c].p = p)) => call'[c] = call[c]
  /\ guesses'[p] = guesses[p] /\ crashes' >= crashes /\ cut \subseteq cut'

LEMMA CallFactKept ==
  ASSUME TypeOK, UsersKept, TokensKept, temp \subseteq temp', NEW c \in Calls, call'[c] = call[c], CallFact(c)
  PROVE  CallFact(c)'
<1> SUFFICES ASSUME call[c] # NoCall PROVE CallFact(c)'
  BY DEF CallFact
<1>1. call[c].p \in People
  BY CallOf
<1>2. \A q, pw, login, mfa : LoginKnown(temp, q, pw, login, mfa) => LoginKnown(temp', q, pw, login, mfa)
  BY DEF LoginKnown
<1>3. call[c].step \in {"shop", "create", "finalize", "issue"} =>
        LoginKnown(temp', call'[c].p, call'[c].seen.pw, call'[c].login, call'[c].mfa)
  BY <1>2 DEF CallFact
<1> QED BY <1>1, <1>3 DEF CallFact, UsersKept, TokensKept, Exists, Has

LEMMA TokenInvKept ==
  ASSUME TypeOK, TokenInv, UsersKept, TokensKept, NoneMade, temp \subseteq temp',
         \A f \in reused' : f \in Tokens /\ token[f] # NoToken
  PROVE  TokenInv'
<1>1. ASSUME NEW t \in Tokens, token'[t] # NoToken
      PROVE  /\ user'[token'[t].user] # NoUser
             /\ token'[token'[t].family] # NoToken
             /\ token'[token'[t].family].user = token'[t].user
             /\ token'[token'[t].family].family = token'[t].family
             /\ IsAdminRole(token'[t].role) => token'[t].mfa
             /\ LoginKnown(temp', token'[t].user, token'[t].pw, token'[t].login, token'[t].mfa)
  <2>1. token[t] # NoToken
    BY <1>1 DEF NoneMade
  <2>2. token[t].user \in People /\ token[t].family \in Tokens
    BY <2>1, TokenOf
  <2>3. /\ Exists(token[t].user) /\ Has(token[t].family, token[t].user)
        /\ token[token[t].family].family = token[t].family
        /\ IsAdminRole(token[t].role) => token[t].mfa
        /\ LoginKnown(temp, token[t].user, token[t].pw, token[t].login, token[t].mfa)
    BY <2>1 DEF TokenInv
  <2>4. LoginKnown(temp', token'[t].user, token'[t].pw, token'[t].login, token'[t].mfa)
    BY <2>1, <2>3 DEF TokensKept, LoginKnown
  <2> QED BY <2>1, <2>2, <2>3, <2>4 DEF UsersKept, TokensKept, Has
<1>2. \A f \in reused' : token'[f] # NoToken
  BY DEF TokensKept
<1> QED BY <1>1, <1>2 DEF TokenInv, Exists, Has

LEMMA PersonKept ==
  ASSUME TypeOK, TypeOK', TokenInv, TokenInv', UsersKept, TokensKept, NEW p \in People, PersonInv(p), Undisturbed(p),
         \A c \in Calls : CallFact(c)
  PROVE  PersonInv(p)'
<1>1. \A c \in Calls : Mine(c, p)' => Mine(c, p) /\ call'[c] = call[c]
  BY DEF Undisturbed, Mine
<1>2. \A c \in Calls : Mine(c, p) => Mine(c, p)' /\ call'[c] = call[c]
  BY DEF Undisturbed, Mine
<1>3. (\A c, d \in Calls : (Mine(c, p) /\ Mine(d, p)) => c = d)'
  BY <1>1 DEF PersonInv
<1>4. \A u \in Tokens : Has(u, p)' => /\ Has(u, p) /\ token'[u].family = token[u].family
                                      /\ token'[u].pw = token[u].pw /\ token'[u].given = token[u].given
                                      /\ token'[u].live => token[u].live
  BY DEF Has, Undisturbed, TokensKept
<1>5. \A u \in Tokens : Has(u, p) => token[u].family \in Tokens /\ Has(token[u].family, p) /\ Exists(p)
  BY TokenOf DEF Has, TokenInv
<1>6. \A u \in Tokens : (Has(u, p) /\ token[u].family \in reused') => token[u].family \in reused
  BY <1>5 DEF Undisturbed
<1>7. ASSUME NEW c \in Calls, Mine(c, p)' PROVE AloneFact(c)'
  <2>1. Mine(c, p) /\ call'[c] = call[c] /\ AloneFact(c) /\ CallFact(c)
    BY <1>1, <1>7 DEF PersonInv
  <2> DEFINE r == call[c]
  <2>2. r.p = p /\ r # NoCall /\ (r.step \notin {"shop", "create"} => Exists(p))
    BY <2>1 DEF Mine, CallFact
  <2>3. r.step \in {"rotate", "retire"} => r.t \in Tokens /\ Has(r.t, p) /\ token'[r.t].family = token[r.t].family
    BY <2>1, <2>2 DEF CallFact, TokensKept, Has
  <2>4. ASSUME r.step \in {"rotate", "retire"}, NEW u \in Tokens, token'[u] # NoToken, token'[u].live,
               token'[u].given, token'[u].family = token'[r.t].family
        PROVE  u = r.t
    <3>1. token'[r.t].user = p /\ token'[r.t] # NoToken
      BY <2>3, <2>4 DEF TokensKept, Has
    <3>2. /\ token'[token'[u].family].user = token'[u].user
          /\ token'[token'[r.t].family].user = token'[r.t].user
      BY <2>3, <2>4, <3>1 DEF TokenInv, Has
    <3>3. Has(u, p)'
      BY <2>4, <3>1, <3>2 DEF Has
    <3>4. Live(u) /\ token[u].given /\ token[u].family = token[r.t].family
      BY <1>4, <2>3, <2>4, <3>3 DEF Live, Has
    <3> QED BY <2>1, <2>4, <3>4 DEF AloneFact
  <2>5. r.step = "retire" => token'[r.new].given = token[r.new].given
    BY <1>4, <2>1, <2>2 DEF CallFact, TokensKept, Has, Undisturbed
  <2>6. r.step = "rotate" => token'[r.t].family \notin reused'
    BY <1>6, <2>1, <2>3 DEF AloneFact
  <2>7. r.step = "rotate" => token'[r.t].pw = user'[r.p].pw \/ r.p \in cut'
    BY <2>1, <2>2, <2>3 DEF AloneFact, TokensKept, Undisturbed, Has
  <2>8. r.step \in {"finalize", "issue"} => r.seen.pw = user'[r.p].pw
    BY <2>1, <2>2 DEF AloneFact, Undisturbed
  <2>9. r.step = "fail" => r.seen.failed = user'[r.p].failed /\ ~user'[r.p].locked
    BY <2>1, <2>2 DEF AloneFact, Undisturbed
  <2> QED BY <2>1, <2>4, <2>5, <2>6, <2>7, <2>8, <2>9 DEF AloneFact, Live
<1>8. GuessFact(p)'
  <2>1. Failing(p) <=> Failing(p)'
    BY <1>1, <1>2 DEF Failing
  <2>2. GuessFact(p) /\ guesses'[p] = guesses[p] /\ crashes' >= crashes
    BY DEF PersonInv, Undisturbed
  <2>3. guesses[p] \in Nat /\ crashes \in Nat /\ crashes' \in Nat
    BY SessionsAssumption DEF TypeOK
  <2>4. CASE Exists(p)
    <3>1. /\ user'[p].locked = user[p].locked /\ user'[p].failed = user[p].failed /\ user'[p] # NoUser
          /\ user[p].failed \in Nat
      BY <2>4, RowOf DEF Undisturbed, UsersKept
    <3> DEFINE N == IF user[p].locked THEN MaxFailed ELSE IF Failing(p) THEN user[p].failed + 1 ELSE user[p].failed
    <3>2. N \in Nat /\ guesses[p] <= crashes + N
      BY <2>2, <2>4, <3>1, SessionsAssumption DEF GuessFact
    <3>3. N = IF user'[p].locked THEN MaxFailed ELSE IF Failing(p)' THEN user'[p].failed + 1 ELSE user'[p].failed
      BY <2>1, <3>1
    <3> HIDE DEF N
    <3>4. guesses'[p] <= crashes' + N
      BY <2>2, <2>3, <3>2
    <3> QED BY <3>1, <3>3, <3>4 DEF GuessFact, Exists
  <2>5. CASE ~Exists(p)
    <3>1. guesses'[p] = 0
      BY <2>2, <2>5 DEF GuessFact
    <3>2. user'[p] # NoUser => user'[p].failed \in Nat
      BY DEF TypeOK, UserRows
    <3> DEFINE N == IF user'[p].locked THEN MaxFailed ELSE IF Failing(p)' THEN user'[p].failed + 1 ELSE user'[p].failed
    <3>3. user'[p] # NoUser => N \in Nat
      BY <3>2, SessionsAssumption
    <3> HIDE DEF N
    <3>4. user'[p] # NoUser => guesses'[p] <= crashes' + N
      BY <2>3, <3>1, <3>3
    <3> QED BY <3>1, <3>4 DEF GuessFact, Exists, N
  <2> QED BY <2>4, <2>5
<1>9. TokenFact(p)'
  <2>1. Resetting(p) => Resetting(p)'
    BY <1>1, <1>2 DEF Resetting
  <2>2. ASSUME NEW t \in Tokens, Has(t, p)', token'[t].live
        PROVE  /\ token'[t].family \notin reused'
               /\ p \in cut' \/ token'[t].pw = user'[p].pw \/ Resetting(p)'
               /\ \A u \in Tokens :
                    (Has(u, p)' /\ token'[u].live /\ token'[u].family = token'[t].family
                     /\ token'[t].given /\ token'[u].given) => u = t
    <3>1. Has(t, p) /\ token[t].live /\ Exists(p)
      BY <1>4, <1>5, <2>2
    <3>2. /\ token[t].family \notin reused
          /\ p \in cut \/ token[t].pw = user[p].pw \/ Resetting(p)
          /\ \A u \in Tokens :
               (Has(u, p) /\ token[u].live /\ token[u].family = token[t].family /\ token[t].given /\ token[u].given)
                 => u = t
      BY <3>1 DEF PersonInv, TokenFact
    <3>3. token'[t].family \notin reused'
      BY <1>4, <1>6, <2>2, <3>1, <3>2
    <3>4. p \in cut' \/ token'[t].pw = user'[p].pw \/ Resetting(p)'
      BY <1>4, <2>1, <2>2, <3>1, <3>2 DEF Undisturbed
    <3> QED BY <1>4, <2>2, <3>2, <3>3, <3>4
  <2> QED BY <2>2 DEF TokenFact
<1> QED BY <1>3, <1>7, <1>8, <1>9 DEF PersonInv

\* A step of one person: the others are not disturbed.
LEMMA OneActor ==
  ASSUME SessionsInv, SharedInv', UsersKept, TokensKept, uses' = uses, NEW q,
         "overlap" \notin uses =>
           /\ \A p \in People : p # q => Undisturbed(p)
           /\ q \in People => PersonInv(q)'
  PROVE  SessionsInv'
<1>1. ASSUME "overlap" \notin uses, NEW p \in People PROVE PersonInv(p)'
  <2>1. CASE p = q
    BY <1>1, <2>1
  <2>2. CASE p # q
    <3>1. PersonInv(p)
      BY <1>1 DEF SessionsInv, AloneInv
    <3> QED BY <1>1, <2>2, <3>1, PersonKept DEF SessionsInv, SharedInv
  <2> QED BY <2>1, <2>2
<1> QED BY <1>1 DEF SessionsInv, AloneInv

\* Nobody is disturbed.
LEMMA NoActor ==
  ASSUME SessionsInv, SharedInv', UsersKept, TokensKept, uses' = uses,
         "overlap" \notin uses => \A p \in People : Undisturbed(p)
  PROVE  SessionsInv'
<1>1. ASSUME "overlap" \notin uses, NEW p \in People PROVE PersonInv(p)'
  <2>1. PersonInv(p)
    BY <1>1 DEF SessionsInv, AloneInv
  <2> QED BY <1>1, <2>1, PersonKept DEF SessionsInv, SharedInv
<1> QED BY <1>1 DEF SessionsInv, AloneInv

LEMMA AccountsQuietStep ==
  ASSUME SessionsInv, TypeOK', UNCHANGED <<user, token, call, guesses, reused, cut, crashes, uses>>,
         TempGrows
  PROVE  SessionsInv'
<1>1. UsersKept /\ TokensKept /\ NoneMade /\ temp \subseteq temp'
  BY DEF UsersKept, TokensKept, NoneMade, Exists, TempGrows
<1>2. TokenInv'
  BY <1>1, TokenInvKept DEF SessionsInv, SharedInv, TypeOK, TokenInv
<1>3. \A c \in Calls : CallFact(c)'
  BY <1>1, CallFactKept DEF SessionsInv, SharedInv
<1>4. UserInv' /\ SomeSuperAdmin'
  BY DEF SessionsInv, SharedInv, UserInv, SomeSuperAdmin, Exists, TempGrows
<1>5. \A p \in People : Undisturbed(p)
  BY SessionsAssumption DEF Undisturbed, Mine, Has, SessionsInv, SharedInv, TypeOK
<1> QED BY <1>1, <1>2, <1>3, <1>4, <1>5, NoActor DEF SharedInv

\* The row of p is written by a step that moves no call and no token.
LEMMA UserRowStep ==
  ASSUME SessionsInv, TypeOK', UNCHANGED <<token, call, reused, cut, crashes, uses, temp>>,
         NEW p \in People, NEW pw, NEW failed, NEW locked, NEW role, NEW reset,
         UserBecomes(p, pw, failed, locked, role, reset), reset => pw < MaxPw,
         \E q \in People : /\ Exists(q) /\ user[q].role = "SUPER_ADMIN"
                           /\ q # p \/ role = "SUPER_ADMIN",
         Exists(p) => pw = user[p].pw /\ failed = user[p].failed,
         \/ guesses' = guesses /\ (Exists(p) => locked = user[p].locked)
         \/ guesses' = [guesses EXCEPT ![p] = 0] /\ user[p].locked /\ Exists(p) /\ ~locked
  PROVE  SessionsInv'
<1>0. SharedInv /\ TypeOK /\ TokenInv
  BY DEF SessionsInv, SharedInv
<1>1. UsersKept /\ TokensKept /\ NoneMade
  BY DEF UsersKept, TokensKept, NoneMade, UserBecomes, Exists
<1>2. TokenInv'
  BY <1>0, <1>1, TokenInvKept DEF TypeOK, TokenInv
<1>3. \A c \in Calls : CallFact(c)'
  BY <1>0, <1>1, CallFactKept DEF SharedInv
<1>4. UserInv'
  <2>1. \A q \in People : (user'[q] # NoUser /\ user'[q].reset) => user'[q].pw < MaxPw
    BY <1>0 DEF UserBecomes, SharedInv, UserInv, Exists
  <2>2. \A q \in People, x \in Purposes, login \in 0 .. MaxPw : <<q, x, login>> \in temp' => user'[q] # NoUser
    BY <1>0, <1>1 DEF SharedInv, UserInv, UsersKept
  <2> QED BY <2>1, <2>2 DEF UserInv, Exists
<1>5. SomeSuperAdmin'
  BY DEF SomeSuperAdmin, UserBecomes, Exists
<1>6. SharedInv'
  BY <1>2, <1>3, <1>4, <1>5 DEF SharedInv
<1>7. \A q \in People : q # p => Undisturbed(q)
  <2>1. guesses \in [People -> Nat] /\ crashes \in Nat
    BY <1>0, SessionsAssumption DEF TypeOK
  <2> QED BY <2>1 DEF Undisturbed, UserBecomes, Mine
<1>8. CASE guesses' = guesses /\ (Exists(p) => locked = user[p].locked)
  <2>1. Undisturbed(p)
    <3>1. crashes \in Nat
      BY <1>0, SessionsAssumption DEF TypeOK
    <3> QED BY <1>8, <3>1 DEF Undisturbed, UserBecomes, Mine
  <2> QED BY <1>1, <1>6, <1>7, <2>1, NoActor
<1>9. CASE guesses' = [guesses EXCEPT ![p] = 0] /\ user[p].locked /\ Exists(p) /\ ~locked
  <2>1. ASSUME PersonInv(p) PROVE PersonInv(p)'
    <3>1. guesses'[p] = 0 /\ user'[p] # NoUser
      BY <1>0, <1>9 DEF TypeOK, UserBecomes
    <3>2. GuessFact(p)'
      <4> DEFINE N == IF user'[p].locked THEN MaxFailed
                      ELSE IF Failing(p)' THEN user'[p].failed + 1 ELSE user'[p].failed
      <4>1. N \in Nat
        BY <3>1, SessionsAssumption DEF TypeOK, UserRows
      <4>2. crashes' \in Nat
        BY SessionsAssumption DEF TypeOK
      <4> HIDE DEF N
      <4>3. guesses'[p] <= crashes' + N
        BY <3>1, <4>1, <4>2
      <4> QED BY <3>1, <4>3 DEF GuessFact, Exists, N
    <3>3. \A c \in Calls : Mine(c, p)' => Mine(c, p) /\ call'[c] = call[c]
      BY DEF Mine
    <3>4. (\A c, d \in Calls : (Mine(c, p) /\ Mine(d, p)) => c = d)'
      BY <2>1, <3>3 DEF PersonInv
    <3>5. user'[p].pw = user[p].pw /\ user'[p].failed = user[p].failed
      BY <1>9 DEF UserBecomes
    <3>6. ASSUME NEW c \in Calls, Mine(c, p)' PROVE AloneFact(c)'
      <4>1. AloneFact(c) /\ call[c].p = p /\ call'[c] = call[c]
        BY <2>1, <3>3, <3>6 DEF PersonInv, Mine
      <4>2. call[c].step # "fail"
        BY <1>9, <4>1 DEF AloneFact
      <4> QED BY <3>5, <4>1, <4>2 DEF AloneFact, Live
    <3>7. TokenFact(p)'
      <4>1. TokenFact(p) /\ (Resetting(p) => Resetting(p)')
        BY <2>1 DEF PersonInv, Resetting, Mine
      <4> QED BY <3>5, <4>1 DEF TokenFact, Has
    <3> QED BY <3>2, <3>4, <3>6, <3>7 DEF PersonInv
  <2>2. "overlap" \notin uses => PersonInv(p)'
    BY <2>1 DEF SessionsInv, AloneInv
  <2> QED BY <1>1, <1>6, <1>7, <2>2, OneActor
<1> QED BY <1>8, <1>9

-----------------------------------------------------------------------------
(* Sessions: calls begin, go on and end                                    *)

LEMMA BeginFields ==
  ASSUME TypeOK, NEW c \in Calls, NEW s \in Steps, NEW p \in People, NEW u \in UserRows,
         NEW login \in 0 .. MaxPw, NEW mfa \in BOOLEAN, NEW t \in Tokens \cup {NoToken},
         BeginWith(c, s, p, u, login, mfa, t)
  PROVE  /\ call'[c] # NoCall
         /\ call'[c].step = s /\ call'[c].p = p /\ call'[c].seen = u /\ call'[c].t = t
         /\ call'[c].login = login /\ call'[c].mfa = mfa
         /\ \A d \in Calls : d # c => call'[d] = call[d]
<1>1. [step |-> s, p |-> p, seen |-> u, login |-> login, mfa |-> mfa, t |-> t, new |-> NoToken] \in CallRows
  BY DEF CallRows
<1> QED BY <1>1, NothingAssumption DEF BeginWith, TypeOK

LEMMA GoesFields ==
  ASSUME TypeOK, NEW c \in Calls, NEW s \in Steps, call[c] # NoCall, Goes(c, s)
  PROVE  /\ call'[c] # NoCall
         /\ call'[c].step = s /\ call'[c].p = call[c].p /\ call'[c].seen = call[c].seen
         /\ call'[c].login = call[c].login /\ call'[c].mfa = call[c].mfa /\ call'[c].t = call[c].t
         /\ \A d \in Calls : d # c => call'[d] = call[d]
<1>1. call[c] \in CallRows
  BY CallOf
<1>2. [call[c] EXCEPT !.step = s] \in CallRows
  BY <1>1 DEF CallRows
<1>3. call'[c] = [call[c] EXCEPT !.step = s] /\ \A d \in Calls : d # c => call'[d] = call[d]
  BY DEF Goes, TypeOK
<1>4. call'[c] # NoCall
  BY <1>2, <1>3, NothingAssumption
<1> QED BY <1>1, <1>3, <1>4 DEF CallRows

\* A call that is over: the others are as they were.
LEMMA ReturnsFields ==
  ASSUME TypeOK, NEW c \in Calls, Returns(c)
  PROVE  call'[c] = NoCall /\ \A d \in Calls : d # c => call'[d] = call[d]
  BY DEF Returns, TypeOK

\* A person's only call is over.
LEMMA PersonFree ==
  ASSUME TypeOK, NEW p \in People, PersonInv(p), NEW c \in Calls, Mine(c, p),
         call'[c] = NoCall, \A d \in Calls : d # c => call'[d] = call[d]
  PROVE  \A d \in Calls : ~Mine(d, p)'
  BY DEF PersonInv, Mine

\* A person's only call goes on.
LEMMA PersonGoes ==
  ASSUME TypeOK, NEW p \in People, PersonInv(p), NEW c \in Calls, Mine(c, p),
         \A d \in Calls : d # c => call'[d] = call[d]
  PROVE  \A d \in Calls : Mine(d, p)' => d = c
  BY DEF PersonInv, Mine

LEMMA BeginStep ==
  ASSUME SessionsInv, TypeOK', NEW c \in Calls,
         NEW s \in Steps, NEW p \in People, NEW u \in UserRows, NEW login \in 0 .. MaxPw,
         NEW mfa \in BOOLEAN, NEW t \in Tokens \cup {NoToken},
         MayStart(c, p), BeginWith(c, s, p, u, login, mfa, t), LoginKnown(temp, p, u.pw, login, mfa),
         UNCHANGED <<user, token, reused, cut, crashes, uses, temp>>,
         s = "fail" => ~user[p].locked /\ guesses' = [guesses EXCEPT ![p] = @ + 1],
         s # "fail" => guesses' = guesses,
         s \in {"shop", "create", "finalize", "fail", "password", "enable", "verifyEmail",
                "kill", "rotate", "revoke"},
         s \in {"shop", "create"} => u.reset = FALSE /\ u.role \in {"CUSTOMER", "MERCHANT"},
         s \notin {"shop", "create"} => Exists(p) /\ u = user[p],
         s = "finalize" => (IsAdminRole(u.role) => mfa),
         s = "password" => u.reset,
         s \in {"kill", "rotate", "revoke"} => t \in Tokens /\ Has(t, p) /\ token[t].given,
         s = "rotate" => token[t].live
  PROVE  SessionsInv'
<1>0. SharedInv /\ TypeOK /\ TokenInv
  BY DEF SessionsInv, SharedInv
<1>1. UsersKept /\ TokensKept /\ NoneMade
  BY DEF UsersKept, TokensKept, NoneMade, Exists
<1>2. TokenInv' /\ UserInv' /\ SomeSuperAdmin'
  BY <1>0 DEF SharedInv, TokenInv, LoginKnown, Has, Exists, UserInv, SomeSuperAdmin
<1>3. /\ call'[c] # NoCall
      /\ call'[c].step = s /\ call'[c].p = p /\ call'[c].seen = u /\ call'[c].t = t
      /\ call'[c].login = login /\ call'[c].mfa = mfa
      /\ \A d \in Calls : d # c => call'[d] = call[d]
  BY <1>0, BeginFields
<1>4. CallFact(c)'
  <2>1. s = "password" => u.pw < MaxPw
    BY <1>0 DEF SharedInv, UserInv
  <2>2. s \in {"shop", "create"} => ~IsAdminRole(u.role)
    BY DEF IsAdminRole
  <2>3. s # "retire" /\ s # "issue"
    OBVIOUS
  <2>4. s \notin {"shop", "create"} => user'[p] # NoUser
    BY DEF Exists
  <2>5. s \in {"kill", "rotate", "revoke"} => t \in Tokens /\ token'[t] # NoToken /\ token'[t].user = p
    BY DEF Has
  <2>6. LoginKnown(temp', call'[c].p, call'[c].seen.pw, call'[c].login, call'[c].mfa)
    BY <1>3 DEF LoginKnown
  <2> QED BY <1>3, <2>1, <2>2, <2>3, <2>4, <2>5, <2>6 DEF CallFact, Exists, Has
<1>5. \A d \in Calls : CallFact(d)'
  BY <1>0, <1>1, <1>3, <1>4, CallFactKept DEF SharedInv
<1>6. SharedInv'
  BY <1>2, <1>5 DEF SharedInv
<1>7. call[c] = NoCall
  BY DEF MayStart
<1>8. \A q \in People : q # p => Undisturbed(q)
  <2>1. guesses \in [People -> Nat] /\ crashes \in Nat
    BY <1>0, SessionsAssumption DEF TypeOK
  <2>2. ASSUME NEW q \in People, q # p, NEW d \in Calls, Mine(d, q) \/ (call'[d] # NoCall /\ call'[d].p = q)
        PROVE  call'[d] = call[d]
    BY <1>3, <1>7, <2>2 DEF Mine
  <2> QED BY <2>1, <2>2 DEF Undisturbed
<1>9. ASSUME "overlap" \notin uses PROVE PersonInv(p)'
  <2>0. PersonInv(p)
    BY <1>9 DEF SessionsInv, AloneInv
  <2>1. \A d \in Calls : ~Mine(d, p)
    BY <1>9 DEF MayStart, Mine
  <2>2. \A d \in Calls : Mine(d, p)' => d = c
    BY <1>3, <2>1 DEF Mine
  <2>3. Mine(c, p)'
    BY <1>3 DEF Mine
  <2>4. TokenFact(p)'
    <3>1. TokenFact(p) /\ ~Resetting(p)
      BY <2>0, <2>1 DEF PersonInv, Resetting
    <3> QED BY <3>1 DEF TokenFact, Has
  <2>5. GuessFact(p)'
    <3>1. GuessFact(p) /\ ~Failing(p)
      BY <2>0, <2>1 DEF PersonInv, Failing
    <3>2. Failing(p)' <=> s = "fail"
      BY <1>3, <2>2, <2>3 DEF Failing
    <3>3. guesses[p] \in Nat /\ crashes \in Nat /\ (Exists(p) => user[p].failed \in Nat)
      BY <1>0, RowOf, SessionsAssumption DEF TypeOK
    <3>4. CASE s = "fail"
      <4>1. Exists(p) /\ ~user[p].locked /\ guesses'[p] = guesses[p] + 1
        BY <1>0, <3>4 DEF TypeOK
      <4>2. guesses[p] <= crashes + user[p].failed
        BY <3>1, <4>1 DEF GuessFact
      <4>3. guesses'[p] <= crashes' + (user'[p].failed + 1)
        BY <3>3, <4>1, <4>2
      <4>4. user'[p] # NoUser /\ ~user'[p].locked
        BY <4>1 DEF Exists
      <4> QED BY <3>2, <3>4, <4>3, <4>4 DEF GuessFact, Exists
    <3>5. CASE s # "fail"
      <4>1. guesses'[p] = guesses[p] /\ user' = user /\ crashes' = crashes /\ ~Failing(p)'
        BY <3>2, <3>5
      <4> QED BY <3>1, <4>1 DEF GuessFact, Exists
    <3> QED BY <3>4, <3>5
  <2>6. AloneFact(c)'
    <3>1. s \in {"finalize", "fail"} => u = user'[p]
      OBVIOUS
    <3>2. s = "fail" => ~user'[p].locked
      OBVIOUS
    <3>3. s = "rotate" => t \in Tokens /\ Has(t, p) /\ token[t].live /\ token[t].given
      OBVIOUS
    <3>4. ASSUME s = "rotate", NEW w \in Tokens, Live(w), token[w].given, token[w].family = token[t].family
          PROVE  w = t
      <4>1. Has(w, p)
        <5>1. Has(token[w].family, token[w].user) /\ Has(token[t].family, token[t].user)
          BY <1>0, <3>3, <3>4 DEF TokenInv, Has, Live
        <5> QED BY <3>3, <3>4, <5>1 DEF Has, Live
      <4> QED BY <2>0, <3>3, <3>4, <4>1 DEF PersonInv, TokenFact, Live
    <3>5. s = "rotate" => token[t].family \notin reused /\ (p \in cut \/ token[t].pw = user[p].pw)
      <4>1. ~Resetting(p)
        BY <2>1 DEF Resetting
      <4> QED BY <2>0, <3>3, <4>1 DEF PersonInv, TokenFact
    <3>6. s # "retire" /\ s # "issue"
      OBVIOUS
    <3> QED BY <1>3, <3>1, <3>2, <3>4, <3>5, <3>6 DEF AloneFact, Live
  <2> QED BY <2>2, <2>4, <2>5, <2>6 DEF PersonInv
<1> QED BY <1>1, <1>6, <1>8, <1>9, OneActor

-----------------------------------------------------------------------------
(* Sessions: the awaits of a call                                          *)

LEMMA TypeKept ==
  ASSUME TypeOK, user' \in [People -> UserRows \cup {NoUser}],
         token' \in [Tokens -> RefreshTokenRows \cup {NoToken}],
         call' \in [Calls -> CallStates], guesses' \in [People -> Nat],
         shops' \subseteq People, web' \subseteq People, reused' \subseteq Tokens, cut' \subseteq People,
         crashes' \in 0 .. MaxCrashes, UNCHANGED <<temp, invite, edits, uses>>
  PROVE  TypeOK'
  BY DEF TypeOK

\* What holds of a person's only call.
LEMMA AloneFacts ==
  ASSUME SessionsInv, "overlap" \notin uses, NEW c \in Calls, call[c] # NoCall
  PROVE  LET p == call[c].p IN
         /\ p \in People /\ AloneFact(c) /\ GuessFact(p) /\ TokenFact(p)
         /\ \A d \in Calls : Mine(d, p) => d = c
         /\ Failing(p) <=> call[c].step = "fail"
         /\ Resetting(p) <=> call[c].step = "revokeAll"
<1> DEFINE p == call[c].p
<1>1. p \in People /\ Mine(c, p)
  BY CallOf DEF SessionsInv, SharedInv, Mine
<1>2. PersonInv(p)
  BY <1>1 DEF SessionsInv, AloneInv
<1>3. \A d \in Calls : Mine(d, p) => d = c
  BY <1>1, <1>2 DEF PersonInv
<1> QED BY <1>1, <1>2, <1>3 DEF PersonInv, Failing, Resetting

\* The row and the calls of the others stay, the person's own call goes on or ends.
LEMMA HandlerStep ==
  ASSUME SessionsInv, TypeOK', TokenInv', NEW c \in Calls, NEW p, call[c] # NoCall, p = call[c].p,
         \A d \in Calls : d # c => call'[d] = call[d],
         call'[c] # NoCall => call'[c].p = p /\ CallFact(c)',
         temp' = temp, uses' = uses,
         \A q \in People : q # p => user'[q] = user[q] /\ guesses'[q] = guesses[q],
         Exists(p) => user'[p] # NoUser /\ user'[p].role = user[p].role,
         (user'[p] # NoUser /\ user'[p].reset) => user'[p].pw < MaxPw,
         TokensKept,
         \A u \in Tokens : (token'[u] # NoToken /\ token'[u].user # p) =>
           token[u] # NoToken /\ token'[u].given = token[u].given /\ (token'[u].live => token[u].live),
         \A f \in reused' : f \notin reused => Has(f, p),
         crashes' >= crashes, cut \subseteq cut',
         "overlap" \notin uses =>
           GuessFact(p)' /\ TokenFact(p)' /\ (call'[c] # NoCall => AloneFact(c)')
  PROVE  SessionsInv'
<1>0. SharedInv /\ TypeOK /\ TokenInv /\ p \in People
  BY CallOf DEF SessionsInv, SharedInv
<1>1. UsersKept
  BY DEF UsersKept, Exists
<1>2. \A d \in Calls : CallFact(d)'
  <2>1. call'[c] = NoCall => CallFact(c)'
    BY DEF CallFact
  <2>2. \A d \in Calls : d # c => CallFact(d)'
    BY <1>0, <1>1, CallFactKept DEF SharedInv
  <2> QED BY <2>1, <2>2
<1>3. UserInv'
  <2>1. \A q \in People : (user'[q] # NoUser /\ user'[q].reset) => user'[q].pw < MaxPw
    BY <1>0 DEF SharedInv, UserInv, Exists
  <2>2. \A q \in People, x \in Purposes, login \in 0 .. MaxPw : <<q, x, login>> \in temp' => user'[q] # NoUser
    BY <1>0, <1>1 DEF SharedInv, UserInv, UsersKept
  <2> QED BY <2>1, <2>2 DEF UserInv, Exists
<1>4. SomeSuperAdmin'
  <2>1. PICK q \in People : Exists(q) /\ user[q].role = "SUPER_ADMIN"
    BY <1>0 DEF SharedInv, SomeSuperAdmin
  <2>2. user'[q] # NoUser /\ user'[q].role = "SUPER_ADMIN"
    BY <1>0, <2>1 DEF Exists
  <2> QED BY <2>2 DEF SomeSuperAdmin, Exists
<1>5. SharedInv'
  BY <1>2, <1>3, <1>4 DEF SharedInv
<1>6. \A q \in People : q # p => Undisturbed(q)
  <2> SUFFICES ASSUME NEW q \in People, q # p PROVE Undisturbed(q)
    OBVIOUS
  <2>1. \A u \in Tokens : (token'[u] # NoToken /\ token'[u].user = q) =>
          /\ token[u] # NoToken /\ token'[u].given = token[u].given
          /\ token'[u].live => token[u].live
    OBVIOUS
  <2>2. \A f \in reused' : f \notin reused => ~Has(f, q)
    BY DEF Has
  <2>3. \A d \in Calls : (Mine(d, q) \/ (call'[d] # NoCall /\ call'[d].p = q)) => call'[d] = call[d]
    BY DEF Mine
  <2> QED BY <2>1, <2>2, <2>3 DEF Undisturbed
<1>7. "overlap" \notin uses => PersonInv(p)'
  <2> SUFFICES ASSUME "overlap" \notin uses PROVE PersonInv(p)'
    OBVIOUS
  <2>1. \A d \in Calls : Mine(d, p) => d = c
    BY AloneFacts
  <2>2. \A d \in Calls : Mine(d, p)' => d = c
    BY <2>1 DEF Mine
  <2>3. \A d \in Calls : Mine(d, p)' => AloneFact(d)'
    BY <2>2 DEF Mine
  <2> QED BY <2>2, <2>3 DEF PersonInv
<1> QED BY <1>1, <1>5, <1>6, <1>7, OneActor

\* Whether the person's call is one that counts a failure or revokes everything.
LEMMA AloneAfter ==
  ASSUME SessionsInv, "overlap" \notin uses, NEW c \in Calls, call[c] # NoCall, NEW p, p = call[c].p,
         \A d \in Calls : d # c => call'[d] = call[d], call'[c] # NoCall => call'[c].p = p
  PROVE  /\ Failing(p)' <=> call'[c] # NoCall /\ call'[c].step = "fail"
         /\ Resetting(p)' <=> call'[c] # NoCall /\ call'[c].step = "revokeAll"
<1>1. \A d \in Calls : Mine(d, p) => d = c
  BY AloneFacts
<1>2. \A d \in Calls : Mine(d, p)' => d = c
  BY <1>1 DEF Mine
<1> QED BY <1>2 DEF Failing, Resetting, Mine

LEMMA GuessZero ==
  ASSUME TypeOK', NEW p \in People, guesses'[p] = 0
  PROVE  GuessFact(p)'
<1> DEFINE N == IF user'[p].locked THEN MaxFailed
                ELSE IF Failing(p)' THEN user'[p].failed + 1 ELSE user'[p].failed
<1>1. user'[p] # NoUser => N \in Nat
  BY SessionsAssumption DEF TypeOK, UserRows
<1>2. crashes' \in Nat
  BY SessionsAssumption DEF TypeOK
<1> HIDE DEF N
<1>3. user'[p] # NoUser => guesses'[p] <= crashes' + N
  BY <1>1, <1>2
<1> QED BY <1>3 DEF GuessFact, Exists, N

LEMMA GuessSame ==
  ASSUME NEW p \in People, GuessFact(p), ~Failing(p), ~Failing(p)', guesses'[p] = guesses[p],
         crashes' = crashes, Exists(p) <=> user'[p] # NoUser,
         Exists(p) => user'[p].failed = user[p].failed /\ user'[p].locked = user[p].locked
  PROVE  GuessFact(p)'
  BY DEF GuessFact, Exists

\* Tokens may stop being valid.
LEMMA TokenFewer ==
  ASSUME NEW p \in People, TokenFact(p), Resetting(p) => Resetting(p)' \/ p \in cut',
         \A u \in Tokens : Has(u, p)' => 
           /\ Has(u, p) /\ token'[u].family = token[u].family /\ token'[u].pw = token[u].pw
           /\ token'[u].given = token[u].given /\ (token'[u].live => token[u].live),
         \A u \in Tokens : (Has(u, p) /\ token'[u].live) => user'[p].pw = user[p].pw,
         \A u \in Tokens : (Has(u, p) /\ token'[u].live) => (token[u].family \in reused' => token[u].family \in reused),
         cut \subseteq cut'
  PROVE  TokenFact(p)'
  BY DEF TokenFact

LEMMA CreateShopStep ==
  ASSUME SessionsInv, NEW c \in Calls, CreateShop(c)
  PROVE  SessionsInv'
<1>p. PICK p \in People : p = call[c].p
  BY CallOf DEF SessionsInv, SharedInv, CreateShop, At
<1>0. SharedInv /\ TypeOK /\ TokenInv /\ call[c] # NoCall /\ call[c].step = "shop" /\ CallFact(c)
  BY DEF SessionsInv, SharedInv, CreateShop, At
<1>1. p \in People
  BY <1>p, <1>0, CallOf
<1>2. /\ call'[c] # NoCall
      /\ call'[c].step = "create" /\ call'[c].p = p /\ call'[c].seen = call[c].seen
      /\ call'[c].login = call[c].login /\ call'[c].mfa = call[c].mfa /\ call'[c].t = call[c].t
      /\ \A d \in Calls : d # c => call'[d] = call[d]
  BY <1>p, <1>0, GoesFields DEF CreateShop, Steps
<1>3. call' \in [Calls -> CallStates]
  BY <1>p, <1>0, GoesType DEF CreateShop, Steps
<1>4. TypeOK'
  BY <1>p, <1>0, <1>1, <1>3 DEF TypeOK, CreateShop
<1>5. TokenInv' /\ TokensKept
  BY <1>p, <1>0 DEF CreateShop, TokenInv, LoginKnown, Has, Exists, TokensKept
<1>6. CallFact(c)'
  BY <1>p, <1>0, <1>2 DEF CallFact, LoginKnown, CreateShop
<1>7. ASSUME "overlap" \notin uses PROVE GuessFact(p)' /\ TokenFact(p)' /\ AloneFact(c)'
  <2>1. ~Failing(p) /\ ~Failing(p)' /\ ~Resetting(p) /\ GuessFact(p) /\ TokenFact(p)
    BY <1>p, <1>0, <1>2, <1>7, AloneFacts, AloneAfter
  <2>2. GuessFact(p)'
    BY <1>p, <1>1, <2>1, GuessSame DEF CreateShop, Exists
  <2>3. TokenFact(p)'
    BY <1>p, <1>1, <2>1, TokenFewer DEF CreateShop, Has
  <2> QED BY <1>2, <2>2, <2>3 DEF AloneFact
<1>8. (user'[p] # NoUser /\ user'[p].reset) => user'[p].pw < MaxPw
  BY <1>p, <1>0, <1>1 DEF CreateShop, SharedInv, UserInv, Exists
<1>9. crashes' >= crashes
  BY <1>p, <1>0, SessionsAssumption DEF CreateShop, TypeOK
<1> QED BY <1>p, <1>0, <1>1, <1>2, <1>4, <1>5, <1>6, <1>7, <1>8, <1>9, HandlerStep DEF CreateShop, Exists

\* A row is made for somebody who had none, and no token.
LEMMA CreateUserStep ==
  ASSUME SessionsInv, NEW c \in Calls, CreateUser(c)
  PROVE  SessionsInv'
<1>p. PICK p \in People, u \in UserRows : p = call[c].p /\ u = call[c].seen
  BY CallOf DEF SessionsInv, SharedInv, CreateUser, IssueTokens, At
<1>0. SharedInv /\ TypeOK /\ TokenInv /\ call[c] # NoCall /\ call[c].step = "create" /\ CallFact(c)
  BY DEF SessionsInv, SharedInv, CreateUser, At
<1>1. p \in People /\ u \in UserRows
  BY <1>p, <1>0, CallOf
<1>2. TokensKept
  BY DEF CreateUser, TokensKept
<1>3. crashes' >= crashes
  BY <1>p, <1>0, SessionsAssumption DEF CreateUser, TypeOK
<1>4. CASE Exists(p)
  <2>1. Returns(c) /\ user' = user
    BY <1>p, <1>4 DEF CreateUser
  <2>2. call'[c] = NoCall /\ \A d \in Calls : d # c => call'[d] = call[d]
    BY <1>p, <1>0, <2>1, ReturnsFields
  <2>3. TypeOK'
    BY <1>p, <1>0, <2>1, ReturnsType DEF TypeOK, CreateUser
  <2>4. TokenInv'
    BY <1>p, <1>0, <2>1 DEF CreateUser, TokenInv, LoginKnown, Has, Exists
  <2>5. ASSUME "overlap" \notin uses PROVE GuessFact(p)' /\ TokenFact(p)'
    <3>1. ~Failing(p) /\ ~Failing(p)' /\ ~Resetting(p) /\ GuessFact(p) /\ TokenFact(p)
      BY <1>p, <1>0, <2>2, <2>5, AloneFacts, AloneAfter
    <3>2. GuessFact(p)'
      BY <1>p, <1>1, <2>1, <3>1, GuessSame DEF CreateUser, Exists
    <3>3. TokenFact(p)'
      BY <1>p, <1>1, <2>1, <3>1, TokenFewer DEF CreateUser, Has
    <3> QED BY <3>2, <3>3
  <2>6. (user'[p] # NoUser /\ user'[p].reset) => user'[p].pw < MaxPw
    BY <1>p, <1>0, <1>1, <2>1 DEF SharedInv, UserInv, Exists
  <2> QED BY <1>p, <1>0, <1>1, <1>2, <1>3, <2>1, <2>2, <2>3, <2>4, <2>5, <2>6, HandlerStep DEF CreateUser, Exists
<1>5. CASE ~Exists(p)
  <2>1. Goes(c, "issue") /\ UserBecomes(p, u.pw, u.failed, u.locked, u.role, u.reset)
    BY <1>p, <1>0, <1>5, CreateUserEffect DEF CreateUser
  <2>2. /\ call'[c] # NoCall
        /\ call'[c].step = "issue" /\ call'[c].p = p /\ call'[c].seen = call[c].seen
        /\ call'[c].login = call[c].login /\ call'[c].mfa = call[c].mfa
        /\ \A d \in Calls : d # c => call'[d] = call[d]
    BY <1>p, <1>0, <2>1, GoesFields DEF Steps
  <2>3. TypeOK'
    <3>1. call' \in [Calls -> CallStates]
      BY <1>p, <1>0, <2>1, GoesType DEF Steps
    <3> QED BY <1>p, <1>0, <2>1, <3>1 DEF TypeOK, CreateUser, UserBecomes
  <2>4. TokenInv'
    <3>1. UsersKept /\ NoneMade
      BY <1>5, <2>1 DEF UsersKept, UserBecomes, NoneMade, CreateUser, Exists
    <3>2. \A f \in reused' : f \in Tokens /\ token[f] # NoToken
      BY <1>p, <1>0 DEF CreateUser, TypeOK, TokenInv
    <3> QED BY <1>p, <1>0, <1>2, <3>1, <3>2, TokenInvKept DEF CreateUser
  <2>5. CallFact(c)'
    BY <1>p, <1>0, <2>1, <2>2 DEF CallFact, LoginKnown, CreateUser, UserBecomes, Exists
  <2>6. ASSUME "overlap" \notin uses PROVE GuessFact(p)' /\ TokenFact(p)' /\ AloneFact(c)'
    <3>1. guesses'[p] = 0
      BY <1>p, <1>0, <1>5, <2>6, AloneFacts DEF GuessFact, CreateUser
    <3>2. GuessFact(p)'
      BY <1>p, <1>1, <2>3, <3>1, GuessZero
    <3>3. \A w \in Tokens : ~Has(w, p)'
      BY <1>p, <1>0, <1>5 DEF TokenInv, Has, CreateUser
    <3>4. TokenFact(p)'
      BY <3>3 DEF TokenFact
    <3>5. AloneFact(c)'
      BY <1>p, <2>1, <2>2 DEF AloneFact, UserBecomes
    <3> QED BY <3>2, <3>4, <3>5
  <2>7. ~u.reset
    BY <1>p, <1>0 DEF CallFact
  <2>8. (user'[p] # NoUser /\ user'[p].reset) => user'[p].pw < MaxPw
    BY <2>1, <2>7 DEF UserBecomes
  <2>9. \A q \in People : q # p => user'[q] = user[q]
    BY <2>1 DEF UserBecomes
  <2> QED BY <1>p, <1>0, <1>1, <1>2, <1>3, <1>5, <2>2, <2>3, <2>4, <2>5, <2>6, <2>8, <2>9, HandlerStep DEF CreateUser, Exists
<1> QED BY <1>4, <1>5

\* The first token of a new family.
LEMMA IssueTokensStep ==
  ASSUME SessionsInv, NEW c \in Calls, IssueTokens(c)
  PROVE  SessionsInv'
<1>p. PICK p \in People, u \in UserRows : p = call[c].p /\ u = call[c].seen
  BY CallOf DEF SessionsInv, SharedInv, CreateUser, IssueTokens, At
<1>0. SharedInv /\ TypeOK /\ TokenInv /\ call[c] # NoCall /\ call[c].step = "issue" /\ CallFact(c)
  BY DEF SessionsInv, SharedInv, IssueTokens, At
<1>u. UNCHANGED <<user, temp, invite, shops, guesses, reused, cut, edits, crashes, uses>>
  BY DEF IssueTokens
<1>1. /\ p \in People /\ u \in UserRows /\ Exists(p) /\ call[c].mfa \in BOOLEAN
      /\ call[c].login \in 0 .. MaxPw
  BY <1>p, <1>0, CallOf DEF CallFact
<1>2. PICK t \in Tokens :
           /\ token[t] = NoToken
           /\ token' = [token EXCEPT ![t] =
                          [user |-> p, family |-> t, live |-> TRUE, given |-> TRUE,
                           pw |-> u.pw, login |-> call[c].login, role |-> u.role, mfa |-> call[c].mfa]]
  BY <1>p, <1>0, IssueEffect
<1>3. /\ [user |-> p, family |-> t, live |-> TRUE, given |-> TRUE,
          pw |-> u.pw, login |-> call[c].login, role |-> u.role, mfa |-> call[c].mfa] \in RefreshTokenRows
      /\ u.pw \in 0 .. MaxPw
  <2>1. u.pw \in 0 .. MaxPw /\ u.role \in UserRole
    BY <1>1 DEF UserRows
  <2> QED BY <1>1, <2>1 DEF RefreshTokenRows
<1>4. /\ token'[t] # NoToken /\ token'[t].user = p /\ token'[t].family = t /\ token'[t].pw = u.pw
      /\ token'[t].login = call[c].login /\ token'[t].role = u.role /\ token'[t].mfa = call[c].mfa
      /\ \A w \in Tokens : w # t => token'[w] = token[w]
  BY <1>p, <1>0, <1>2, <1>3, NothingAssumption DEF TypeOK
<1>5. token' \in [Tokens -> RefreshTokenRows \cup {NoToken}]
  BY <1>p, <1>0, <1>2, <1>3 DEF TypeOK
<1>6. Returns(c) /\ call'[c] = NoCall /\ \A d \in Calls : d # c => call'[d] = call[d]
  BY <1>p, <1>0, ReturnsFields DEF IssueTokens
<1>7. TypeOK'
  <2>1. web' \subseteq People
    BY <1>p, <1>0, <1>1 DEF IssueTokens, FinishLogin, TypeOK
  <2> QED BY <1>p, <1>0, <1>5, <1>6, <2>1, ReturnsType DEF TypeOK, IssueTokens
<1>8. TokensKept
  BY <1>2, <1>4 DEF TokensKept
<1>9. TokenInv'
  <2>1. ASSUME NEW w \in Tokens, token'[w] # NoToken, w # t
        PROVE  /\ user'[token'[w].user] # NoUser
               /\ token'[token'[w].family] # NoToken /\ token'[token'[w].family].user = token'[w].user
               /\ token'[token'[w].family].family = token'[w].family
               /\ IsAdminRole(token'[w].role) => token'[w].mfa
               /\ LoginKnown(temp', token'[w].user, token'[w].pw, token'[w].login, token'[w].mfa)
    <3>1. token'[w] = token[w] /\ token[w].family \in Tokens
      BY <1>p, <1>0, <1>4, <2>1, TokenOf
    <3>2. /\ Exists(token[w].user) /\ Has(token[w].family, token[w].user)
          /\ token[token[w].family].family = token[w].family
          /\ IsAdminRole(token[w].role) => token[w].mfa
          /\ LoginKnown(temp, token[w].user, token[w].pw, token[w].login, token[w].mfa)
      BY <1>p, <1>0, <2>1, <3>1 DEF TokenInv
    <3>3. token'[token[w].family] = token[token[w].family]
      BY <1>2, <1>4, <3>1, <3>2 DEF Has
    <3> QED BY <1>u, <3>1, <3>2, <3>3 DEF Has, Exists
  <2>2. user'[p] # NoUser /\ (IsAdminRole(u.role) => call[c].mfa)
    BY <1>p, <1>0, <1>1 DEF IssueTokens, Exists, CallFact
  <2>3. \A f \in reused' : token'[f] # NoToken
    BY <1>p, <1>0, <1>4 DEF IssueTokens, TokenInv, TypeOK
  <2>4. LoginKnown(temp', token'[t].user, token'[t].pw, token'[t].login, token'[t].mfa)
    BY <1>p, <1>0, <1>u, <1>4 DEF CallFact, LoginKnown
  <2> QED BY <1>4, <2>1, <2>2, <2>3, <2>4 DEF TokenInv, Has, Exists
<1>10. ASSUME "overlap" \notin uses PROVE GuessFact(p)' /\ TokenFact(p)'
  <2>1. ~Failing(p) /\ ~Failing(p)' /\ ~Resetting(p) /\ GuessFact(p) /\ TokenFact(p) /\ AloneFact(c)
    BY <1>p, <1>0, <1>6, <1>10, AloneFacts, AloneAfter
  <2>2. GuessFact(p)'
    BY <1>p, <1>1, <2>1, GuessSame DEF IssueTokens, Exists
  <2>3. \A w \in Tokens : token[w] # NoToken => token[w].family # t
    BY <1>p, <1>0, <1>2 DEF TokenInv, Has
  <2>4. t \notin reused /\ u.pw = user[p].pw
    BY <1>p, <1>0, <1>2, <2>1 DEF TokenInv, AloneFact
  <2>5. TokenFact(p)'
    <3> SUFFICES ASSUME NEW w \in Tokens, Has(w, p)', token'[w].live
                 PROVE  /\ token'[w].family \notin reused'
                        /\ p \in cut' \/ token'[w].pw = user'[p].pw \/ Resetting(p)'
                        /\ \A x \in Tokens :
                             (Has(x, p)' /\ token'[x].live /\ token'[x].family = token'[w].family
                              /\ token'[w].given /\ token'[x].given) => x = w
      BY DEF TokenFact
    <3>1. CASE w = t
      <4>1. \A x \in Tokens : (x # t /\ Has(x, p)') => token'[x].family # t
        BY <1>4, <2>3 DEF Has
      <4> QED BY <1>u, <1>4, <2>4, <3>1, <4>1
    <3>2. CASE w # t
      <4>1. Has(w, p) /\ token[w].live /\ token'[w] = token[w]
        BY <1>4, <3>2 DEF Has
      <4>2. token'[w].family # token'[t].family
        BY <1>4, <2>3, <4>1 DEF Has
      <4>3. /\ token[w].family \notin reused
            /\ p \in cut \/ token[w].pw = user[p].pw
            /\ \A x \in Tokens :
                 (Has(x, p) /\ token[x].live /\ token[x].family = token[w].family
                  /\ token[w].given /\ token[x].given) => x = w
        BY <2>1, <4>1 DEF TokenFact
      <4>4. \A x \in Tokens : x # t => (Has(x, p)' => Has(x, p)) /\ token'[x] = token[x]
        BY <1>4 DEF Has
      <4> QED BY <1>u, <4>1, <4>2, <4>3, <4>4
    <3> QED BY <3>1, <3>2
  <2> QED BY <2>2, <2>5
<1>11. (user'[p] # NoUser /\ user'[p].reset) => user'[p].pw < MaxPw
  BY <1>p, <1>0, <1>1 DEF IssueTokens, SharedInv, UserInv, Exists
<1>12. crashes' >= crashes
  BY <1>p, <1>0, SessionsAssumption DEF IssueTokens, TypeOK
<1>13. \A w \in Tokens : (token'[w] # NoToken /\ token'[w].user # p) => token'[w] = token[w] /\ token[w] # NoToken
  BY <1>4
<1> QED BY <1>p, <1>0, <1>1, <1>6, <1>7, <1>8, <1>9, <1>10, <1>11, <1>12, <1>13, <1>u, HandlerStep DEF Exists

\* A call that writes the row of its person.
LEMMA UserWrite ==
  ASSUME SessionsInv, NEW c \in Calls, call[c] # NoCall, NEW p \in People, p = call[c].p, Exists(p),
         NEW pw, NEW failed, NEW locked, NEW reset,
         UserBecomes(p, pw, failed, locked, user[p].role, reset), reset => pw < MaxPw,
         UNCHANGED <<token, temp, invite, shops, web, reused, cut, edits, crashes, uses>>,
         guesses' = guesses \/ guesses' = [guesses EXCEPT ![p] = 0],
         call' \in [Calls -> CallStates], \A d \in Calls : d # c => call'[d] = call[d],
         call'[c] # NoCall => call'[c].p = p /\ call'[c].step \in {"issue", "revokeAll"}
                              /\ call'[c].seen = call[c].seen
                              /\ call'[c].login = call[c].login /\ call'[c].mfa = call[c].mfa,
         (call'[c] # NoCall /\ call'[c].step = "issue") => call[c].step = "finalize",
         "overlap" \notin uses =>
           GuessFact(p)' /\ TokenFact(p)' /\ (call'[c] # NoCall => AloneFact(c)')
  PROVE  SessionsInv'
<1>0. SharedInv /\ TypeOK /\ TokenInv /\ CallFact(c)
  BY DEF SessionsInv, SharedInv
<1>1. TypeOK'
  BY <1>0 DEF TypeOK, UserBecomes
<1>2. TokensKept /\ NoneMade /\ UsersKept
  BY DEF TokensKept, NoneMade, UsersKept, UserBecomes, Exists
<1>3. TokenInv'
  BY <1>0, <1>2, TokenInvKept DEF TypeOK, TokenInv
<1>4. call'[c] # NoCall => CallFact(c)'
  BY <1>0 DEF CallFact, LoginKnown, Exists, UserBecomes
<1>5. \A q \in People : q # p => user'[q] = user[q] /\ guesses'[q] = guesses[q]
  BY <1>0 DEF UserBecomes, TypeOK
<1>6. crashes' >= crashes
  BY <1>0, SessionsAssumption DEF TypeOK
<1>7. /\ user'[p] # NoUser /\ user'[p].role = user[p].role
      /\ (user'[p] # NoUser /\ user'[p].reset) => user'[p].pw < MaxPw
  BY DEF UserBecomes
<1> QED BY <1>0, <1>1, <1>2, <1>3, <1>4, <1>5, <1>6, <1>7, HandlerStep

LEMMA LoginFailedStep ==
  ASSUME SessionsInv, NEW c \in Calls, LoginFailed(c)
  PROVE  SessionsInv'
<1>0. SharedInv /\ TypeOK /\ call[c] # NoCall /\ call[c].step = "fail" /\ CallFact(c)
  BY DEF SessionsInv, SharedInv, LoginFailed, At
<1>1. PICK p \in People, u \in UserRows : p = call[c].p /\ u = call[c].seen
  BY <1>0, CallOf
<1> DEFINE n == u.failed + 1
           m == IF n >= MaxFailed THEN 0 ELSE n
           b == (user[p].locked \/ n >= MaxFailed)
<1>2. UserBecomes(p, user[p].pw, m, b, user[p].role, user[p].reset)
  BY <1>0, <1>1, LoginFailedEffect
<1>3. Exists(p) /\ n \in Nat /\ user[p].reset \in BOOLEAN /\ user[p].locked \in BOOLEAN /\ user[p].failed \in Nat
  BY <1>0, <1>1, RowOf DEF CallFact, UserRows
<1>4. Returns(c) /\ UNCHANGED <<token, temp, invite, shops, web, guesses, reused, cut, edits, crashes, uses>>
  BY DEF LoginFailed
<1>5. call' \in [Calls -> CallStates] /\ call'[c] = NoCall /\ \A d \in Calls : d # c => call'[d] = call[d]
  BY <1>0, <1>4, ReturnsType, ReturnsFields
<1>6. user[p].reset => user[p].pw < MaxPw
  BY <1>0, <1>3 DEF SharedInv, UserInv
<1>7. ASSUME "overlap" \notin uses PROVE GuessFact(p)' /\ TokenFact(p)'
  <2>1. Failing(p) /\ ~Failing(p)' /\ ~Resetting(p) /\ GuessFact(p) /\ TokenFact(p) /\ AloneFact(c)
    BY <1>0, <1>1, <1>5, <1>7, AloneFacts, AloneAfter
  <2>2. n = user[p].failed + 1 /\ ~user[p].locked
    BY <1>0, <1>1, <2>1 DEF AloneFact
  <2>3. guesses[p] \in Nat /\ crashes \in Nat /\ guesses[p] <= crashes + n
    BY <1>0, <1>3, <2>1, <2>2, SessionsAssumption DEF GuessFact, TypeOK
  <2>4. user'[p] # NoUser /\ user'[p].failed = m /\ user'[p].locked = b
    BY <1>2 DEF UserBecomes
  <2>5. n <= MaxFailed
    BY <1>0, <1>1, SessionsAssumption DEF UserRows
  <2>6. GuessFact(p)'
    <3>1. CASE n >= MaxFailed
      <4>1. guesses'[p] <= crashes' + MaxFailed
        BY <1>3, <1>4, <2>3, <2>5, SessionsAssumption
      <4>2. user'[p].locked
        <5>1. b = TRUE
          BY <3>1
        <5> QED BY <2>4, <5>1
      <4> QED BY <2>4, <4>1, <4>2 DEF GuessFact, Exists
    <3>2. CASE ~(n >= MaxFailed)
      <4>1. ~user'[p].locked /\ user'[p].failed = n /\ guesses'[p] <= crashes' + n
        BY <1>4, <2>2, <2>3, <2>4, <3>2
      <4> QED BY <2>1, <2>4, <4>1 DEF GuessFact, Exists
    <3> QED BY <3>1, <3>2
  <2>7. TokenFact(p)'
    BY <1>2, <1>4, <2>1, TokenFewer DEF Has, UserBecomes
  <2> QED BY <2>6, <2>7
<1> HIDE DEF m, b, n
<1> QED BY <1>0, <1>1, <1>2, <1>3, <1>4, <1>5, <1>6, <1>7, UserWrite

LEMMA FinalizeLoginStep ==
  ASSUME SessionsInv, NEW c \in Calls, FinalizeLogin(c)
  PROVE  SessionsInv'
<1>0. SharedInv /\ TypeOK /\ call[c] # NoCall /\ call[c].step = "finalize" /\ CallFact(c)
  BY DEF SessionsInv, SharedInv, FinalizeLogin, At
<1>1. PICK p \in People : p = call[c].p
  BY <1>0, CallOf
<1>2. UserBecomes(p, user[p].pw, 0, FALSE, user[p].role, user[p].reset) /\ Exists(p)
  BY <1>0, <1>1, FinalizeLoginEffect DEF CallFact
<1>3. /\ Goes(c, "issue") /\ guesses' = [guesses EXCEPT ![p] = 0]
      /\ UNCHANGED <<token, temp, invite, shops, web, reused, cut, edits, crashes, uses>>
  BY <1>1 DEF FinalizeLogin
<1>4. /\ call'[c] # NoCall
      /\ call'[c].step = "issue" /\ call'[c].p = p /\ call'[c].seen = call[c].seen
      /\ call'[c].login = call[c].login /\ call'[c].mfa = call[c].mfa
      /\ \A d \in Calls : d # c => call'[d] = call[d]
  BY <1>0, <1>1, <1>3, GoesFields DEF Steps
<1>5. call' \in [Calls -> CallStates]
  BY <1>0, <1>3, GoesType DEF Steps
<1>6. user[p].reset => user[p].pw < MaxPw
  BY <1>0, <1>2 DEF SharedInv, UserInv
<1>7. ASSUME "overlap" \notin uses PROVE GuessFact(p)' /\ TokenFact(p)' /\ AloneFact(c)'
  <2>1. ~Resetting(p) /\ TokenFact(p) /\ AloneFact(c)
    BY <1>0, <1>1, <1>7, AloneFacts
  <2>2. GuessFact(p)'
    <3>1. TypeOK' /\ guesses'[p] = 0
      BY <1>0, <1>2, <1>3, <1>5 DEF TypeOK, UserBecomes
    <3> QED BY <3>1, GuessZero
  <2>3. TokenFact(p)'
    BY <1>2, <1>3, <2>1, TokenFewer DEF Has, UserBecomes
  <2>4. AloneFact(c)'
    BY <1>0, <1>1, <1>2, <1>4, <2>1 DEF AloneFact, UserBecomes
  <2> QED BY <2>2, <2>3, <2>4
<1> QED BY <1>0, <1>1, <1>2, <1>3, <1>4, <1>5, <1>6, <1>7, UserWrite

\* The confirmation of an address and of a second factor leave the rest of the row.
LEMMA WriteQuiet ==
  ASSUME SessionsInv, NEW c \in Calls, NEW p \in People, call[c] # NoCall, p = call[c].p,
         call[c].step \in {"verifyEmail", "enable"}, Exists(p),
         UserBecomes(p, user[p].pw, user[p].failed, user[p].locked, user[p].role, user[p].reset), Returns(c),
         UNCHANGED <<token, temp, invite, shops, web, guesses, reused, cut, edits, crashes, uses>>
  PROVE  SessionsInv'
<1>0. SharedInv /\ TypeOK
  BY DEF SessionsInv, SharedInv
<1>1. call' \in [Calls -> CallStates] /\ call'[c] = NoCall /\ \A d \in Calls : d # c => call'[d] = call[d]
  BY <1>0, ReturnsType, ReturnsFields
<1>2. user[p].reset => user[p].pw < MaxPw
  BY <1>0 DEF SharedInv, UserInv
<1>3. ASSUME "overlap" \notin uses PROVE GuessFact(p)' /\ TokenFact(p)'
  <2>1. ~Failing(p) /\ ~Failing(p)' /\ ~Resetting(p) /\ GuessFact(p) /\ TokenFact(p)
    BY <1>1, <1>3, AloneFacts, AloneAfter
  <2>2. GuessFact(p)'
    BY <2>1, GuessSame DEF UserBecomes
  <2>3. TokenFact(p)'
    BY <2>1, TokenFewer DEF Has, UserBecomes
  <2> QED BY <2>2, <2>3
<1> QED BY <1>1, <1>2, <1>3, UserWrite

LEMMA WriteVerifiedStep ==
  ASSUME SessionsInv, NEW c \in Calls, WriteVerified(c)
  PROVE  SessionsInv'
<1>0. TypeOK /\ call[c] # NoCall /\ call[c].step = "verifyEmail" /\ CallFact(c)
  BY DEF SessionsInv, SharedInv, WriteVerified, At
<1>1. PICK p \in People : p = call[c].p
  BY <1>0, CallOf
<1>2. /\ UserBecomes(p, user[p].pw, user[p].failed, user[p].locked, user[p].role, user[p].reset)
      /\ Exists(p)
  BY <1>0, <1>1, WriteVerifiedEffect DEF CallFact
<1>3. Returns(c) /\ UNCHANGED <<token, temp, invite, shops, web, guesses, reused, cut, edits, crashes, uses>>
  BY DEF WriteVerified
<1> QED BY <1>0, <1>1, <1>2, <1>3, WriteQuiet

LEMMA WriteEnabledStep ==
  ASSUME SessionsInv, NEW c \in Calls, WriteEnabled(c)
  PROVE  SessionsInv'
<1>0. TypeOK /\ call[c] # NoCall /\ call[c].step = "enable" /\ CallFact(c)
  BY DEF SessionsInv, SharedInv, WriteEnabled, At
<1>1. PICK p \in People : p = call[c].p
  BY <1>0, CallOf
<1>2. /\ UserBecomes(p, user[p].pw, user[p].failed, user[p].locked, user[p].role, user[p].reset)
      /\ Exists(p)
  BY <1>0, <1>1, WriteEnabledEffect DEF CallFact
<1>3. Returns(c) /\ UNCHANGED <<token, temp, invite, shops, web, guesses, reused, cut, edits, crashes, uses>>
  BY DEF WriteEnabled
<1> QED BY <1>0, <1>1, <1>2, <1>3, WriteQuiet

\* The new password: the person's tokens are of the old one until they are revoked.
LEMMA WritePasswordStep ==
  ASSUME SessionsInv, NEW c \in Calls, WritePassword(c)
  PROVE  SessionsInv'
<1>0. SharedInv /\ TypeOK /\ call[c] # NoCall /\ call[c].step = "password" /\ CallFact(c)
  BY DEF SessionsInv, SharedInv, WritePassword, At
<1>1. PICK p \in People : p = call[c].p
  BY <1>0, CallOf
<1>2. UserBecomes(p, call[c].seen.pw + 1, 0, FALSE, user[p].role, FALSE) /\ Exists(p)
  BY <1>0, <1>1, WritePasswordEffect DEF CallFact
<1>3. /\ Goes(c, "revokeAll") /\ guesses' = [guesses EXCEPT ![p] = 0]
      /\ UNCHANGED <<token, temp, invite, shops, web, reused, cut, edits, crashes, uses>>
  BY <1>1 DEF WritePassword
<1>4. /\ call'[c] # NoCall
      /\ call'[c].step = "revokeAll" /\ call'[c].p = p /\ call'[c].seen = call[c].seen
      /\ call'[c].login = call[c].login /\ call'[c].mfa = call[c].mfa
      /\ \A d \in Calls : d # c => call'[d] = call[d]
  BY <1>0, <1>1, <1>3, GoesFields DEF Steps
<1>5. call' \in [Calls -> CallStates]
  BY <1>0, <1>3, GoesType DEF Steps
<1>7. ASSUME "overlap" \notin uses PROVE GuessFact(p)' /\ TokenFact(p)' /\ AloneFact(c)'
  <2>1. TokenFact(p) /\ Resetting(p)'
    BY <1>0, <1>1, <1>4, <1>7, AloneFacts, AloneAfter
  <2>2. GuessFact(p)'
    <3>1. TypeOK' /\ guesses'[p] = 0
      BY <1>0, <1>2, <1>3, <1>5 DEF TypeOK, UserBecomes
    <3> QED BY <3>1, GuessZero
  <2>3. TokenFact(p)'
    BY <1>3, <2>1 DEF TokenFact, Has
  <2>4. AloneFact(c)'
    BY <1>4 DEF AloneFact
  <2> QED BY <2>2, <2>3, <2>4
<1> QED BY <1>0, <1>1, <1>2, <1>3, <1>4, <1>5, <1>7, UserWrite

\* A call that revokes tokens of its person, and may know of a reuse.
LEMMA RevokeStep ==
  ASSUME SessionsInv, NEW c \in Calls, NEW p \in People, call[c] # NoCall, p = call[c].p, Exists(p),
         NEW S \in SUBSET Tokens, \A t \in S : Has(t, p), token' = Revoked(S), Returns(c),
         call[c].step # "fail", call[c].step = "revokeAll" => \A t \in Tokens : Has(t, p) => t \in S,
         UNCHANGED <<user, temp, invite, shops, web, guesses, cut, edits, crashes, uses>>,
         \/ reused' = reused
         \/ \E f \in Tokens : Has(f, p) /\ Family(f) \subseteq S /\ reused' = reused \cup {f}
  PROVE  SessionsInv'
<1>0. SharedInv /\ TypeOK /\ TokenInv
  BY DEF SessionsInv, SharedInv
<1>1. call' \in [Calls -> CallStates] /\ call'[c] = NoCall /\ \A d \in Calls : d # c => call'[d] = call[d]
  BY <1>0, ReturnsType, ReturnsFields
<1>2. /\ token' \in [Tokens -> RefreshTokenRows \cup {NoToken}]
      /\ \A u \in Tokens :
           /\ token[u] = NoToken => token'[u] = NoToken
           /\ token[u] # NoToken =>
                /\ token'[u] # NoToken
                /\ token'[u].user = token[u].user /\ token'[u].family = token[u].family
                /\ token'[u].pw = token[u].pw /\ token'[u].login = token[u].login
                /\ token'[u].role = token[u].role
                /\ token'[u].mfa = token[u].mfa /\ token'[u].given = token[u].given
                /\ token'[u].live = (token[u].live /\ u \notin S)
  BY <1>0, RevokedEffect DEF Has
<1>3. TypeOK'
  <2>1. reused' \subseteq Tokens
    BY <1>0 DEF TypeOK
  <2> QED BY <1>0, <1>1, <1>2, <2>1 DEF TypeOK
<1>4. TokensKept /\ NoneMade
  BY <1>2 DEF TokensKept, NoneMade
<1>5. TokenInv'
  <2>1. UsersKept
    BY DEF UsersKept, Exists
  <2>2. \A f \in reused' : f \in Tokens /\ token[f] # NoToken
    BY <1>0 DEF TypeOK, TokenInv, Has
  <2> QED BY <1>0, <1>4, <2>1, <2>2, TokenInvKept
<1>6. \A f \in reused' : f \notin reused => Has(f, p)
  OBVIOUS
<1>7. \A u \in Tokens : (token'[u] # NoToken /\ token'[u].user # p) =>
           token[u] # NoToken /\ token'[u].given = token[u].given /\ (token'[u].live => token[u].live)
  BY <1>2
<1>8. ASSUME "overlap" \notin uses PROVE GuessFact(p)' /\ TokenFact(p)'
  <2>1. /\ ~Failing(p) /\ ~Failing(p)' /\ GuessFact(p) /\ TokenFact(p)
        /\ Resetting(p) <=> call[c].step = "revokeAll"
    BY <1>1, <1>8, AloneFacts, AloneAfter
  <2>2. GuessFact(p)'
    BY <2>1, GuessSame DEF Exists
  <2>3. \A u \in Tokens : Has(u, p)' =>
           /\ Has(u, p) /\ token'[u].family = token[u].family /\ token'[u].pw = token[u].pw
           /\ token'[u].given = token[u].given /\ (token'[u].live => token[u].live)
    BY <1>2 DEF Has
  <2>4. \A u \in Tokens : (Has(u, p) /\ token'[u].live) => u \notin S
    BY <1>2 DEF Has
  <2>5. \A u \in Tokens : (Has(u, p) /\ token'[u].live) =>
          (token[u].family \in reused' => token[u].family \in reused)
    BY <2>4 DEF Family, Has
  <2>6. CASE call[c].step = "revokeAll"
    <3>1. \A u \in Tokens : ~(Has(u, p)' /\ token'[u].live)
      BY <2>3, <2>4, <2>6
    <3> QED BY <2>2, <3>1 DEF TokenFact
  <2>7. CASE call[c].step # "revokeAll"
    BY <2>1, <2>2, <2>3, <2>5, <2>7, TokenFewer
  <2> QED BY <2>6, <2>7
<1>9. (user'[p] # NoUser /\ user'[p].reset) => user'[p].pw < MaxPw
  BY <1>0 DEF SharedInv, UserInv, Exists
<1>10. crashes' >= crashes
  BY <1>0, SessionsAssumption DEF TypeOK
<1> QED BY <1>1, <1>3, <1>4, <1>5, <1>6, <1>7, <1>8, <1>9, <1>10, HandlerStep DEF Exists

LEMMA RevokeFamilyStep ==
  ASSUME SessionsInv, NEW c \in Calls, RevokeFamily(c)
  PROVE  SessionsInv'
<1>0. TypeOK /\ TokenInv /\ call[c] # NoCall /\ call[c].step = "kill" /\ CallFact(c)
  BY DEF SessionsInv, SharedInv, RevokeFamily, At
<1>1. PICK p \in People, t \in Tokens : p = call[c].p /\ t = call[c].t
  BY <1>0, CallOf DEF CallFact
<1>2. Exists(p) /\ Has(t, p)
  BY <1>0, <1>1 DEF CallFact
<1>3. PICK f \in Tokens : f = token[t].family /\ Has(f, p)
  BY <1>0, <1>1, <1>2, TokenOf DEF TokenInv, Has
<1>4. \A u \in Family(f) : Has(u, p)
  BY <1>0, <1>3 DEF TokenInv, Has, Family
<1>5. /\ token' = Revoked(Family(f)) /\ Returns(c)
      /\ reused' = reused \/ reused' = reused \cup {f}
      /\ UNCHANGED <<user, temp, invite, shops, web, guesses, cut, edits, crashes, uses>>
  BY <1>1, <1>3 DEF RevokeFamily
<1>6. Family(f) \in SUBSET Tokens
  BY DEF Family
<1> QED BY <1>0, <1>1, <1>2, <1>3, <1>4, <1>5, <1>6, RevokeStep

LEMMA RevokeExpiredStep ==
  ASSUME SessionsInv, NEW c \in Calls, RevokeExpired(c)
  PROVE  SessionsInv'
<1>0. TypeOK /\ TokenInv /\ call[c] # NoCall /\ call[c].step = "revoke" /\ CallFact(c)
  BY DEF SessionsInv, SharedInv, RevokeExpired, At
<1>1. PICK p \in People, t \in Tokens : p = call[c].p /\ t = call[c].t
  BY <1>0, CallOf DEF CallFact
<1>2. Exists(p) /\ \A u \in {t} : Has(u, p)
  BY <1>0, <1>1 DEF CallFact
<1>3. /\ token' = Revoked({t}) /\ Returns(c)
      /\ UNCHANGED <<user, temp, invite, shops, web, guesses, reused, cut, edits, crashes, uses>>
  BY <1>1 DEF RevokeExpired
<1>4. {t} \in SUBSET Tokens
  OBVIOUS
<1> QED BY <1>0, <1>1, <1>2, <1>3, <1>4, RevokeStep

LEMMA RevokeAllStep ==
  ASSUME SessionsInv, NEW c \in Calls, RevokeAll(c)
  PROVE  SessionsInv'
<1>0. TypeOK /\ TokenInv /\ call[c] # NoCall /\ call[c].step = "revokeAll" /\ CallFact(c)
  BY DEF SessionsInv, SharedInv, RevokeAll, At
<1>1. PICK p \in People : p = call[c].p
  BY <1>0, CallOf
<1> DEFINE S == {t \in Tokens : token[t] # NoToken /\ token[t].user = p}
<1>2. Exists(p) /\ (\A u \in S : Has(u, p)) /\ \A u \in Tokens : Has(u, p) => u \in S
  BY <1>0, <1>1 DEF CallFact, Has
<1>3. /\ token' = Revoked(S) /\ Returns(c)
      /\ UNCHANGED <<user, temp, invite, shops, web, guesses, reused, cut, edits, crashes, uses>>
  BY <1>1 DEF RevokeAll
<1>4. S \in SUBSET Tokens
  OBVIOUS
<1> HIDE DEF S
<1> QED BY <1>0, <1>1, <1>2, <1>3, <1>4, RevokeStep

LEMMA LogoutStep ==
  ASSUME SessionsInv, NEW t \in Tokens, Logout(t)
  PROVE  SessionsInv'
<1>0. SharedInv /\ TypeOK /\ TokenInv /\ token[t] # NoToken
  BY DEF SessionsInv, SharedInv, Logout, Live
<1>1. /\ token' = Revoked({t})
      /\ UNCHANGED <<user, temp, invite, shops, web, guesses, reused, cut, call, edits, crashes, uses>>
  BY DEF Logout
<1>2. /\ token' \in [Tokens -> RefreshTokenRows \cup {NoToken}]
      /\ \A u \in Tokens :
           /\ token[u] = NoToken => token'[u] = NoToken
           /\ token[u] # NoToken =>
                /\ token'[u] # NoToken
                /\ token'[u].user = token[u].user /\ token'[u].family = token[u].family
                /\ token'[u].pw = token[u].pw /\ token'[u].login = token[u].login
                /\ token'[u].role = token[u].role
                /\ token'[u].mfa = token[u].mfa /\ token'[u].given = token[u].given
                /\ token'[u].live = (token[u].live /\ u \notin {t})
  BY <1>0, <1>1, RevokedEffect, ZenonT(60)
<1>3. TypeOK'
  BY <1>0, <1>1, <1>2 DEF TypeOK
<1>4. TokensKept /\ NoneMade /\ UsersKept
  BY <1>1, <1>2 DEF TokensKept, NoneMade, UsersKept, Exists
<1>5. TokenInv'
  BY <1>0, <1>1, <1>4, TokenInvKept DEF TypeOK, TokenInv
<1>6. \A c \in Calls : CallFact(c)'
  BY <1>0, <1>1, <1>4, CallFactKept DEF SharedInv
<1>7. UserInv' /\ SomeSuperAdmin'
  BY <1>0, <1>1 DEF SharedInv, UserInv, SomeSuperAdmin, Exists
<1>8. \A p \in People : Undisturbed(p)
  <2>1. crashes' >= crashes
    BY <1>0, <1>1, SessionsAssumption DEF TypeOK
  <2>2. \A u \in Tokens : token'[u] # NoToken =>
           /\ token[u] # NoToken /\ token'[u].given = token[u].given
           /\ token'[u].live => token[u].live
    BY <1>2
  <2> QED BY <1>1, <2>1, <2>2 DEF Undisturbed
<1> QED BY <1>1, <1>3, <1>4, <1>5, <1>6, <1>7, <1>8, NoActor DEF SharedInv

LEMMA RotateFields ==
  ASSUME TypeOK, NEW c \in Calls, call[c] # NoCall, NEW t \in Tokens,
         call' = [call EXCEPT ![c].step = "retire", ![c].new = t]
  PROVE  /\ call' \in [Calls -> CallStates] /\ call'[c] # NoCall
         /\ call'[c].step = "retire" /\ call'[c].p = call[c].p /\ call'[c].seen = call[c].seen
         /\ call'[c].mfa = call[c].mfa /\ call'[c].t = call[c].t /\ call'[c].new = t
         /\ \A d \in Calls : d # c => call'[d] = call[d]
<1> DEFINE r == call[c]
           a == [r EXCEPT !.step = "retire"]
           b == [a EXCEPT !.new = t]
<1>1. r \in CallRows
  BY CallOf
<1>2. a \in CallRows /\ a.step = "retire" /\ a.p = r.p /\ a.seen = r.seen /\ a.mfa = r.mfa /\ a.t = r.t
  <2> HIDE DEF r
  <2> QED BY <1>1 DEF CallRows, Steps
<1>3. /\ b \in CallRows /\ b.step = a.step /\ b.p = a.p /\ b.seen = a.seen /\ b.mfa = a.mfa
      /\ b.t = a.t /\ b.new = t
  <2> HIDE DEF a
  <2> QED BY <1>2 DEF CallRows
<1>4. call' = [call EXCEPT ![c] = b]
  BY DEF TypeOK
<1> HIDE DEF b
<1>5. call'[c] = b /\ (\A d \in Calls : d # c => call'[d] = call[d]) /\ call' \in [Calls -> CallStates]
  BY <1>3, <1>4 DEF TypeOK, CallStates
<1>6. b # NoCall
  BY <1>3, NothingAssumption
<1> HIDE DEF a
<1> QED BY <1>2, <1>3, <1>5, <1>6

\* The second token of a family exists before the first one is retired, and nobody has it yet.
LEMMA RotateStep ==
  ASSUME SessionsInv, NEW c \in Calls, Rotate(c)
  PROVE  SessionsInv'
<1>0. SharedInv /\ TypeOK /\ TokenInv /\ call[c] # NoCall /\ call[c].step = "rotate" /\ CallFact(c)
  BY DEF SessionsInv, SharedInv, Rotate, At
<1>1. PICK p \in People, o \in Tokens : p = call[c].p /\ o = call[c].t
  BY <1>0, CallOf DEF CallFact
<1>2. Exists(p) /\ Has(o, p)
  BY <1>0, <1>1 DEF CallFact
<1>3. PICK t \in Tokens :
           /\ token[t] = NoToken
           /\ token' = [token EXCEPT ![t] = token'[t]] /\ token'[t] \in RefreshTokenRows
           /\ token'[t].user = token[o].user /\ token'[t].family = token[o].family
           /\ token'[t].pw = token[o].pw /\ token'[t].login = token[o].login
           /\ token'[t].role = token[o].role /\ token'[t].mfa = token[o].mfa
           /\ token'[t].live = TRUE /\ token'[t].given = FALSE
           /\ call' = [call EXCEPT ![c].step = "retire", ![c].new = t]
  BY <1>0, <1>1, RotateEffect
<1>u. UNCHANGED <<user, temp, invite, shops, web, guesses, reused, cut, edits, crashes, uses>>
  BY DEF Rotate
<1>4. /\ token' \in [Tokens -> RefreshTokenRows \cup {NoToken}] /\ token'[t] # NoToken
      /\ \A w \in Tokens : w # t => token'[w] = token[w]
  BY <1>0, <1>3, NothingAssumption DEF TypeOK
<1>5. /\ call' \in [Calls -> CallStates] /\ call'[c] # NoCall
      /\ call'[c].step = "retire" /\ call'[c].p = p /\ call'[c].t = o /\ call'[c].new = t
      /\ \A d \in Calls : d # c => call'[d] = call[d]
  BY <1>0, <1>1, <1>3, RotateFields
<1>6. TypeOK'
  BY <1>0, <1>u, <1>4, <1>5 DEF TypeOK
<1>7. TokensKept
  BY <1>3, <1>4 DEF TokensKept
<1>8. token[o] # NoToken /\ token[o].user = p /\ token'[o] = token[o] /\ o # t
  BY <1>2, <1>3, <1>4 DEF Has
<1>9. TokenInv'
  <2>1. ASSUME NEW w \in Tokens, token'[w] # NoToken
        PROVE  /\ user'[token'[w].user] # NoUser
               /\ token'[token'[w].family] # NoToken /\ token'[token'[w].family].user = token'[w].user
               /\ token'[token'[w].family].family = token'[w].family
               /\ IsAdminRole(token'[w].role) => token'[w].mfa
               /\ LoginKnown(temp', token'[w].user, token'[w].pw, token'[w].login, token'[w].mfa)
    <3> DEFINE x == IF w = t THEN o ELSE w
    <3>1. /\ x \in Tokens /\ token[x] # NoToken /\ token'[w].user = token[x].user
          /\ token'[w].family = token[x].family /\ token'[w].role = token[x].role /\ token'[w].mfa = token[x].mfa
          /\ token'[w].pw = token[x].pw /\ token'[w].login = token[x].login
      BY <1>3, <1>4, <1>8, <2>1
    <3> HIDE DEF x
    <3>2. /\ Exists(token[x].user) /\ Has(token[x].family, token[x].user) /\ token[x].family \in Tokens
          /\ token[token[x].family].family = token[x].family
          /\ IsAdminRole(token[x].role) => token[x].mfa
          /\ LoginKnown(temp, token[x].user, token[x].pw, token[x].login, token[x].mfa)
      BY <1>0, <3>1, TokenOf DEF TokenInv
    <3>3. token'[token[x].family] = token[token[x].family]
      BY <1>3, <1>4, <3>2 DEF Has
    <3> QED BY <1>u, <3>1, <3>2, <3>3 DEF Has, Exists
  <2>2. \A f \in reused' : token'[f] # NoToken
    BY <1>0, <1>u, <1>4 DEF TokenInv, TypeOK
  <2> QED BY <2>1, <2>2 DEF TokenInv, Has, Exists
<1>10. CallFact(c)'
  BY <1>2, <1>3, <1>4, <1>5, <1>8, <1>u DEF CallFact, Exists, Has
<1>11. ASSUME "overlap" \notin uses PROVE GuessFact(p)' /\ TokenFact(p)' /\ AloneFact(c)'
  <2>1. ~Failing(p) /\ ~Failing(p)' /\ ~Resetting(p) /\ GuessFact(p) /\ TokenFact(p) /\ AloneFact(c)
    BY <1>0, <1>1, <1>5, <1>11, AloneFacts, AloneAfter
  <2>2. GuessFact(p)'
    BY <1>u, <2>1, GuessSame DEF Exists
  <2>3. /\ token[o].family \notin reused /\ (token[o].pw = user[p].pw \/ p \in cut)
        /\ \A w \in Tokens : (Live(w) /\ token[w].given /\ token[w].family = token[o].family) => w = o
    BY <1>0, <1>1, <2>1 DEF AloneFact
  <2>4. TokenFact(p)'
    <3> SUFFICES ASSUME NEW w \in Tokens, Has(w, p)', token'[w].live
                 PROVE  /\ token'[w].family \notin reused'
                        /\ p \in cut' \/ token'[w].pw = user'[p].pw \/ Resetting(p)'
                        /\ \A x \in Tokens :
                             (Has(x, p)' /\ token'[x].live /\ token'[x].family = token'[w].family
                              /\ token'[w].given /\ token'[x].given) => x = w
      BY DEF TokenFact
    <3>1. CASE w = t
      <4>1. token'[w].family \notin reused' /\ (p \in cut' \/ token'[w].pw = user'[p].pw)
        BY <1>3, <1>u, <2>3, <3>1
      <4>2. ~token'[w].given
        BY <1>3, <3>1
      <4> QED BY <4>1, <4>2
    <3>2. CASE w # t
      <4>1. Has(w, p) /\ token[w].live /\ token'[w] = token[w]
        BY <1>4, <3>2 DEF Has
      <4>2. ~token'[t].given
        BY <1>3
      <4>3. /\ token[w].family \notin reused
            /\ p \in cut \/ token[w].pw = user[p].pw
            /\ \A x \in Tokens :
                 (Has(x, p) /\ token[x].live /\ token[x].family = token[w].family
                  /\ token[w].given /\ token[x].given) => x = w
        BY <2>1, <4>1 DEF TokenFact
      <4>4. \A x \in Tokens : x # t => (Has(x, p)' => Has(x, p)) /\ token'[x] = token[x]
        BY <1>4 DEF Has
      <4> QED BY <1>u, <4>1, <4>2, <4>3, <4>4
    <3> QED BY <3>1, <3>2
  <2>5. AloneFact(c)'
    <3>1. ~token'[t].given
      BY <1>3
    <3>2. ASSUME NEW w \in Tokens, Live(w)', token'[w].given, token'[w].family = token'[o].family
          PROVE  w = o
      <4>1. w # t /\ token'[w] = token[w]
        BY <1>4, <3>1, <3>2
      <4> QED BY <1>8, <2>3, <3>2, <4>1 DEF Live
    <3> QED BY <1>5, <3>1, <3>2 DEF AloneFact
  <2> QED BY <2>2, <2>4, <2>5
<1>12. (user'[p] # NoUser /\ user'[p].reset) => user'[p].pw < MaxPw
  BY <1>0, <1>u DEF SharedInv, UserInv, Exists
<1>13. crashes' >= crashes
  BY <1>0, <1>u, SessionsAssumption DEF TypeOK
<1>14. \A w \in Tokens : (token'[w] # NoToken /\ token'[w].user # p) => token'[w] = token[w] /\ token[w] # NoToken
  BY <1>3, <1>4, <1>8
<1> QED BY <1>0, <1>1, <1>5, <1>6, <1>7, <1>9, <1>10, <1>11, <1>12, <1>13, <1>14, <1>u, HandlerStep DEF Exists

LEMMA RetireStep ==
  ASSUME SessionsInv, NEW c \in Calls, Retire(c)
  PROVE  SessionsInv'
<1>0. SharedInv /\ TypeOK /\ TokenInv /\ call[c] # NoCall /\ call[c].step = "retire" /\ CallFact(c)
  BY DEF SessionsInv, SharedInv, Retire, At
<1>1. PICK p \in People, o \in Tokens, n \in Tokens : p = call[c].p /\ o = call[c].t /\ n = call[c].new
  BY <1>0, CallOf DEF CallFact
<1>2. Exists(p) /\ Has(o, p) /\ Has(n, p) /\ token[n].family = token[o].family
  BY <1>0, <1>1 DEF CallFact
<1>3. /\ token' \in [Tokens -> RefreshTokenRows \cup {NoToken}]
      /\ \A u \in Tokens :
           /\ token[u] = NoToken => token'[u] = NoToken
           /\ token[u] # NoToken =>
                /\ token'[u] # NoToken
                /\ token'[u].user = token[u].user /\ token'[u].family = token[u].family
                /\ token'[u].pw = token[u].pw /\ token'[u].login = token[u].login
                /\ token'[u].role = token[u].role
                /\ token'[u].mfa = token[u].mfa
                /\ token'[u].live = (token[u].live /\ u # o)
                /\ token'[u].given = (token[u].given \/ u = n)
  BY <1>0, <1>1, RetireEffect
<1>u. Returns(c) /\ UNCHANGED <<user, temp, invite, shops, guesses, reused, cut, edits, crashes, uses>>
  BY DEF Retire
<1>4. call' \in [Calls -> CallStates] /\ call'[c] = NoCall /\ \A d \in Calls : d # c => call'[d] = call[d]
  BY <1>0, <1>u, ReturnsType, ReturnsFields
<1>5. TypeOK'
  <2>1. web' \subseteq People
    BY <1>0, <1>1 DEF Retire, TypeOK
  <2> QED BY <1>0, <1>3, <1>4, <1>u, <2>1 DEF TypeOK
<1>6. TokensKept /\ NoneMade
  BY <1>3 DEF TokensKept, NoneMade
<1>7. TokenInv'
  <2>1. UsersKept
    BY <1>u DEF UsersKept, Exists
  <2>2. \A f \in reused' : f \in Tokens /\ token[f] # NoToken
    BY <1>0, <1>u DEF TypeOK, TokenInv
  <2> QED BY <1>0, <1>u, <1>6, <2>1, <2>2, TokenInvKept
<1>8. \A u \in Tokens : (token'[u] # NoToken /\ token'[u].user # p) =>
           token[u] # NoToken /\ token'[u].given = token[u].given /\ (token'[u].live => token[u].live)
  <2>1. \A u \in Tokens : token[u] # NoToken => token[u].given \in BOOLEAN
    BY <1>0, TokenOf
  <2> QED BY <1>2, <1>3, <2>1 DEF Has
<1>9. ASSUME "overlap" \notin uses PROVE GuessFact(p)' /\ TokenFact(p)'
  <2>1. ~Failing(p) /\ ~Failing(p)' /\ ~Resetting(p) /\ GuessFact(p) /\ TokenFact(p) /\ AloneFact(c)
    BY <1>0, <1>1, <1>4, <1>9, AloneFacts, AloneAfter
  <2>2. GuessFact(p)'
    BY <1>u, <2>1, GuessSame DEF Exists
  <2>3. \A w \in Tokens : (Live(w) /\ token[w].given /\ token[w].family = token[o].family) => w = o
    BY <1>0, <1>1, <2>1 DEF AloneFact
  <2>4. TokenFact(p)'
    <3> SUFFICES ASSUME NEW w \in Tokens, Has(w, p)', token'[w].live
                 PROVE  /\ token'[w].family \notin reused'
                        /\ p \in cut' \/ token'[w].pw = user'[p].pw \/ Resetting(p)'
                        /\ \A x \in Tokens :
                             (Has(x, p)' /\ token'[x].live /\ token'[x].family = token'[w].family
                              /\ token'[w].given /\ token'[x].given) => x = w
      BY DEF TokenFact
    <3>1. Has(w, p) /\ token[w].live /\ w # o /\ token'[w].family = token[w].family /\ token'[w].pw = token[w].pw
      BY <1>3 DEF Has
    <3>2. /\ token[w].family \notin reused
          /\ p \in cut \/ token[w].pw = user[p].pw
          /\ \A x \in Tokens :
               (Has(x, p) /\ token[x].live /\ token[x].family = token[w].family
                /\ token[w].given /\ token[x].given) => x = w
      BY <2>1, <3>1 DEF TokenFact
    <3>3. ASSUME NEW x \in Tokens, Has(x, p)', token'[x].live, token'[x].family = token'[w].family,
                 token'[w].given, token'[x].given
          PROVE  x = w
      <4>1. Has(x, p) /\ token[x].live /\ x # o /\ token[x].family = token[w].family
        BY <1>3, <3>1, <3>3 DEF Has
      <4>2. (token[w].given \/ w = n) /\ (token[x].given \/ x = n)
        BY <1>3, <3>1, <3>3, <4>1 DEF Has
      <4>3. ASSUME NEW y \in Tokens, Has(y, p), token[y].live, y # o, token[y].given
            PROVE  token[y].family # token[o].family
        BY <2>3, <4>3 DEF Live, Has
      <4> QED BY <1>2, <3>1, <3>2, <4>1, <4>2, <4>3
    <3> QED BY <1>u, <3>1, <3>2, <3>3
  <2> QED BY <2>2, <2>4
<1>10. (user'[p] # NoUser /\ user'[p].reset) => user'[p].pw < MaxPw
  BY <1>0, <1>u DEF SharedInv, UserInv, Exists
<1>11. crashes' >= crashes
  BY <1>0, <1>u, SessionsAssumption DEF TypeOK
<1> QED BY <1>0, <1>1, <1>4, <1>5, <1>6, <1>7, <1>8, <1>9, <1>10, <1>11, <1>u, HandlerStep DEF Exists

\* A count that was about to be written is lost, and so is a revocation.
LEMMA CrashStep ==
  ASSUME SessionsInv, NEW c \in Calls, Crash(c)
  PROVE  SessionsInv'
<1>0. SharedInv /\ TypeOK /\ TokenInv /\ call[c] # NoCall
  BY DEF SessionsInv, SharedInv, Crash
<1>1. PICK p \in People : p = call[c].p
  BY <1>0, CallOf
<1>2. /\ Returns(c) /\ crashes' = crashes + 1 /\ crashes' \in 0 .. MaxCrashes /\ crashes \in Nat
      /\ UNCHANGED <<user, token, temp, invite, shops, web, guesses, reused, edits, uses>>
      /\ cut' = IF call[c].step = "revokeAll" THEN cut \cup {p} ELSE cut
  <2>1. crashes \in 0 .. MaxCrashes /\ crashes < MaxCrashes /\ crashes' = crashes + 1
    BY <1>0 DEF Crash, TypeOK
  <2>2. crashes' \in 0 .. MaxCrashes /\ crashes \in Nat
    BY <2>1, SessionsAssumption
  <2> QED BY <1>1, <2>1, <2>2 DEF Crash
<1>3. call' \in [Calls -> CallStates] /\ call'[c] = NoCall /\ \A d \in Calls : d # c => call'[d] = call[d]
  BY <1>0, <1>2, ReturnsType, ReturnsFields
<1>4. TypeOK' /\ cut \subseteq cut'
  BY <1>0, <1>2, <1>3 DEF TypeOK
<1>5. TokensKept /\ TokenInv'
  BY <1>0, <1>2 DEF TokensKept, TokenInv, LoginKnown, Has, Exists
<1>6. ASSUME "overlap" \notin uses PROVE GuessFact(p)' /\ TokenFact(p)'
  <2>1. /\ ~Failing(p)' /\ GuessFact(p) /\ TokenFact(p) /\ (Resetting(p) => p \in cut')
    BY <1>0, <1>1, <1>2, <1>3, <1>6, AloneFacts, AloneAfter
  <2>2. GuessFact(p)'
    <3>1. ~Exists(p) => guesses'[p] = 0
      BY <1>2, <2>1 DEF GuessFact
    <3>2. ASSUME Exists(p)
          PROVE  guesses'[p] <= crashes' + (IF user[p].locked THEN MaxFailed ELSE user[p].failed)
      <4>1. user[p].failed \in Nat /\ guesses[p] \in Nat /\ MaxFailed \in Nat
        BY <1>0, <3>2, RowOf, SessionsAssumption DEF TypeOK
      <4>2. guesses[p] <= crashes + (IF user[p].locked THEN MaxFailed
                                     ELSE IF Failing(p) THEN user[p].failed + 1 ELSE user[p].failed)
        BY <2>1, <3>2 DEF GuessFact
      <4>3. CASE user[p].locked
        <5>1. guesses[p] <= crashes + MaxFailed
          BY <4>2, <4>3
        <5>2. guesses'[p] <= crashes' + MaxFailed
          BY <1>2, <4>1, <5>1
        <5> QED BY <4>3, <5>2
      <4>4. CASE ~user[p].locked
        <5>1. guesses[p] <= crashes + (user[p].failed + 1) \/ guesses[p] <= crashes + user[p].failed
          BY <4>2, <4>4
        <5>2. guesses'[p] <= crashes' + user[p].failed
          BY <1>2, <4>1, <5>1
        <5> QED BY <4>4, <5>2
      <4> QED BY <4>3, <4>4
    <3> QED BY <1>2, <2>1, <3>1, <3>2 DEF GuessFact, Exists
  <2>3. TokenFact(p)'
    BY <1>2, <1>4, <2>1, TokenFewer DEF Has
  <2> QED BY <2>2, <2>3
<1>7. (user'[p] # NoUser /\ user'[p].reset) => user'[p].pw < MaxPw
  BY <1>0, <1>2 DEF SharedInv, UserInv, Exists
<1>8. crashes' >= crashes
  BY <1>2
<1> QED BY <1>0, <1>1, <1>2, <1>3, <1>4, <1>5, <1>6, <1>7, <1>8, HandlerStep DEF Exists

-----------------------------------------------------------------------------
(* Sessions: steps of no call                                              *)

\* A person may be told apart from some other one who is SUPER_ADMIN, unless it is the row's own role.
LEMMA SomeSuperStays ==
  ASSUME SomeSuperAdmin, NEW p \in People, NEW role, Exists(p) => role = user[p].role
  PROVE  \E q \in People : Exists(q) /\ user[q].role = "SUPER_ADMIN" /\ (q # p \/ role = "SUPER_ADMIN")
  BY DEF SomeSuperAdmin

LEMMA OtherActiveSuper ==
  ASSUME NEW p \in People, Cardinality(ActiveSupers) > 1
  PROVE  \E q \in People : Exists(q) /\ user[q].role = "SUPER_ADMIN" /\ q # p
<1> SUFFICES ASSUME \A q \in People : (Exists(q) /\ user[q].role = "SUPER_ADMIN") => q = p PROVE FALSE
  OBVIOUS
<1>1. ActiveSupers = {} \/ ActiveSupers = {p}
  BY DEF ActiveSupers
<1>2. Cardinality({p}) = 1 /\ Cardinality({}) = 0
  BY FS_EmptySet, FS_Singleton
<1> QED BY <1>1, <1>2

\* What leaves the call, the tokens and the lock alone.
LEMMA RequestPasswordResetStep ==
  ASSUME SessionsInv, NEW p \in People, RequestPasswordReset(p)
  PROVE  SessionsInv'
<1>0. TypeOK /\ SomeSuperAdmin /\ Exists(p) /\ user[p].pw < MaxPw
  BY DEF SessionsInv, SharedInv, RequestPasswordReset
<1>1. user' = [user EXCEPT ![p].reset = TRUE]
      /\ UNCHANGED <<token, temp, invite, shops, web, guesses, reused, cut, call, edits, crashes, uses>>
  BY DEF RequestPasswordReset
<1>2. UserBecomes(p, user[p].pw, user[p].failed, user[p].locked, user[p].role, TRUE)
  BY <1>0, <1>1, EditReset
<1>3. TypeOK'
  BY <1>0, <1>1, <1>2 DEF TypeOK, UserBecomes
<1>4. \E q \in People : Exists(q) /\ user[q].role = "SUPER_ADMIN" /\ (q # p \/ user[p].role = "SUPER_ADMIN")
  BY <1>0, SomeSuperStays
<1> QED BY <1>0, <1>1, <1>2, <1>3, <1>4, UserRowStep

\* A row that keeps its password, lock, role and reset.
LEMMA RowQuiet ==
  ASSUME SessionsInv, NEW p \in People, Exists(p),
         UserBecomes(p, user[p].pw, user[p].failed, user[p].locked, user[p].role, user[p].reset),
         UNCHANGED <<token, temp, invite, shops, web, guesses, reused, cut, call, crashes, uses>>,
         edits' \in 0 .. MaxEdits
  PROVE  SessionsInv'
<1>0. TypeOK /\ SomeSuperAdmin /\ (user[p].reset => user[p].pw < MaxPw)
  BY DEF SessionsInv, SharedInv, UserInv
<1>1. TypeOK'
  BY <1>0 DEF TypeOK, UserBecomes
<1>2. \E q \in People : Exists(q) /\ user[q].role = "SUPER_ADMIN" /\ (q # p \/ user[p].role = "SUPER_ADMIN")
  BY <1>0, SomeSuperStays
<1> QED BY <1>0, <1>1, <1>2, UserRowStep

LEMMA Setup2faStep ==
  ASSUME SessionsInv, NEW p \in People, Setup2fa(p)
  PROVE  SessionsInv'
<1>0. TypeOK /\ Exists(p) /\ edits' \in 0 .. MaxEdits
  BY DEF SessionsInv, SharedInv, Setup2fa, MayEnroll, TypeOK
<1>1. UserBecomes(p, user[p].pw, user[p].failed, user[p].locked, user[p].role, user[p].reset)
  BY <1>0, EditTfa DEF Setup2fa
<1> QED BY <1>0, <1>1, RowQuiet DEF Setup2fa

LEMMA Disable2faStep ==
  ASSUME SessionsInv, NEW p \in People, Disable2fa(p)
  PROVE  SessionsInv'
<1>0. TypeOK /\ Exists(p) /\ edits' \in 0 .. MaxEdits
  BY DEF SessionsInv, SharedInv, Disable2fa, TypeOK
<1>1. UserBecomes(p, user[p].pw, user[p].failed, user[p].locked, user[p].role, user[p].reset)
  BY <1>0, EditTfa DEF Disable2fa
<1> QED BY <1>0, <1>1, RowQuiet DEF Disable2fa

LEMMA EditsType ==
  ASSUME TypeOK, Edit
  PROVE  edits' \in 0 .. MaxEdits
<1>1. edits \in 0 .. MaxEdits /\ edits < MaxEdits /\ edits' = edits + 1
  BY DEF TypeOK, Edit
<1> QED BY <1>1, SessionsAssumption

LEMMA UpdateUserStatusStep ==
  ASSUME SessionsInv, NEW p \in People, NEW s \in AdminStatuses, UpdateUserStatus(p, s)
  PROVE  SessionsInv'
<1>0. TypeOK /\ Exists(p) /\ s \in UserStatus /\ edits' \in 0 .. MaxEdits
  BY EditsType, RolesAssumption DEF SessionsInv, SharedInv, UpdateUserStatus
<1>1. UserBecomes(p, user[p].pw, user[p].failed, user[p].locked, user[p].role, user[p].reset)
  BY <1>0, EditStatus DEF UpdateUserStatus
<1> QED BY <1>0, <1>1, RowQuiet DEF UpdateUserStatus

\* The last active SUPER_ADMIN is not demoted.
LEMMA UpdateUserRoleStep ==
  ASSUME SessionsInv, NEW p \in People, NEW r \in AdminRoles, UpdateUserRole(p, r)
  PROVE  SessionsInv'
<1>0. TypeOK /\ SomeSuperAdmin /\ Exists(p) /\ r \in UserRole /\ edits' \in 0 .. MaxEdits
      /\ (user[p].reset => user[p].pw < MaxPw)
  BY EditsType, RolesAssumption DEF SessionsInv, SharedInv, UserInv, UpdateUserRole
<1>1. /\ user' = [user EXCEPT ![p].role = r]
      /\ UNCHANGED <<token, temp, invite, shops, web, guesses, reused, cut, call, crashes, uses>>
  BY DEF UpdateUserRole
<1>2. UserBecomes(p, user[p].pw, user[p].failed, user[p].locked, r, user[p].reset)
  BY <1>0, <1>1, EditRole
<1>3. TypeOK'
  BY <1>0, <1>1, <1>2 DEF TypeOK, UserBecomes
<1>4. \E q \in People : Exists(q) /\ user[q].role = "SUPER_ADMIN" /\ (q # p \/ r = "SUPER_ADMIN")
  <2>1. CASE user[p].role = "SUPER_ADMIN"
    BY <2>1, OtherActiveSuper DEF UpdateUserRole
  <2>2. CASE user[p].role # "SUPER_ADMIN"
    BY <1>0, <2>2 DEF SomeSuperAdmin
  <2> QED BY <2>1, <2>2
<1> QED BY <1>0, <1>1, <1>2, <1>3, <1>4, UserRowStep

LEMMA LockExpiresStep ==
  ASSUME SessionsInv, NEW p \in People, LockExpires(p)
  PROVE  SessionsInv'
<1>0. TypeOK /\ SomeSuperAdmin /\ Exists(p) /\ user[p].locked /\ (user[p].reset => user[p].pw < MaxPw)
  BY DEF SessionsInv, SharedInv, UserInv, LockExpires
<1>1. /\ user' = [user EXCEPT ![p].locked = FALSE] /\ guesses' = [guesses EXCEPT ![p] = 0]
      /\ UNCHANGED <<token, temp, invite, shops, web, reused, cut, call, edits, crashes, uses>>
  BY DEF LockExpires
<1>2. UserBecomes(p, user[p].pw, user[p].failed, FALSE, user[p].role, user[p].reset)
  BY <1>0, <1>1, EditUnlock
<1>3. TypeOK'
  BY <1>0, <1>1, <1>2 DEF TypeOK, UserBecomes
<1>4. \E q \in People : Exists(q) /\ user[q].role = "SUPER_ADMIN" /\ (q # p \/ user[p].role = "SUPER_ADMIN")
  BY <1>0, SomeSuperStays
<1> DEFINE locked == FALSE
<1>5. guesses' = [guesses EXCEPT ![p] = 0] /\ user[p].locked /\ Exists(p) /\ ~locked
  BY <1>0, <1>1
<1>7. UserBecomes(p, user[p].pw, user[p].failed, locked, user[p].role, user[p].reset)
  BY <1>2
<1>6. UNCHANGED <<token, call, reused, cut, crashes, uses, temp>>
  BY <1>1
<1> HIDE DEF locked
<1>8. \/ guesses' = guesses /\ (Exists(p) => locked = user[p].locked)
      \/ guesses' = [guesses EXCEPT ![p] = 0] /\ user[p].locked /\ Exists(p) /\ ~locked
  BY <1>5
<1>9. /\ Exists(p) => user[p].pw = user[p].pw /\ user[p].failed = user[p].failed
      /\ user[p].reset => user[p].pw < MaxPw
  BY <1>0
<1> QED BY <1>3, <1>4, <1>6, <1>7, <1>8, <1>9, UserRowStep, Zenon

LEMMA AcceptInviteStep ==
  ASSUME SessionsInv, NEW p \in People, AcceptInvite(p)
  PROVE  SessionsInv'
<1>0. TypeOK /\ SomeSuperAdmin /\ ~Exists(p)
  BY DEF SessionsInv, SharedInv, AcceptInvite
<1>1. UNCHANGED <<token, temp, shops, web, guesses, reused, cut, call, edits, crashes, uses>>
  BY DEF AcceptInvite
<1>2. UserBecomes(p, 0, 0, FALSE, invite[p].role, FALSE)
  BY <1>0, AcceptInviteEffect
<1>3. TypeOK'
  <2>1. [invite[p] EXCEPT !.state = "accepted"] \in Invites
    BY <1>0 DEF TypeOK, Invites, InviteStates
  <2>2. invite' \in [People -> Invites]
    BY <1>0, <2>1 DEF AcceptInvite, TypeOK
  <2> QED BY <1>0, <1>1, <1>2, <2>2 DEF TypeOK, UserBecomes
<1>4. \E q \in People : Exists(q) /\ user[q].role = "SUPER_ADMIN" /\ (q # p \/ invite[p].role = "SUPER_ADMIN")
  BY <1>0, SomeSuperStays
<1> QED BY <1>0, <1>1, <1>2, <1>3, <1>4, UserRowStep

LEMMA AccountsQuietSteps ==
  ASSUME SessionsInv, NEW p \in People,
         \/ \E r \in InviteRoles : CreateInvite(p, r)
         \/ InviteExpires(p) \/ WebRefresh(p) \/ WebLogout(p)
  PROVE  SessionsInv'
<1>0. TypeOK /\ SharedInv
  BY DEF SessionsInv, SharedInv
<1>1. UNCHANGED <<user, token, call, guesses, reused, cut, crashes, uses, temp>>
  BY DEF CreateInvite, InviteExpires, WebRefresh, WebLogout
<1>2. TypeOK'
  <2>1. invite' \in [People -> Invites]
    <3>1. ASSUME NEW r \in InviteRoles, CreateInvite(p, r) PROVE invite' \in [People -> Invites]
      <4>1. [state |-> "open", role |-> r] \in Invites
        BY RolesAssumption DEF Invites, InviteStates
      <4> QED BY <1>0, <3>1, <4>1 DEF CreateInvite, TypeOK
    <3>2. ASSUME InviteExpires(p) PROVE invite' \in [People -> Invites]
      <4>1. [invite[p] EXCEPT !.state = "expired"] \in Invites
        BY <1>0 DEF TypeOK, Invites, InviteStates
      <4> QED BY <1>0, <3>2, <4>1 DEF InviteExpires, TypeOK
    <3>3. ASSUME WebRefresh(p) \/ WebLogout(p) PROVE invite' \in [People -> Invites]
      BY <1>0, <3>3 DEF WebRefresh, WebLogout, TypeOK
    <3> QED BY <3>1, <3>2, <3>3
  <2>2. web' \subseteq People /\ shops' \subseteq People
    BY <1>0 DEF TypeOK, CreateInvite, InviteExpires, WebRefresh, WebLogout
  <2>3. edits' \in 0 .. MaxEdits
    BY <1>0, EditsType DEF TypeOK, CreateInvite, InviteExpires, WebRefresh, WebLogout
  <2> QED BY <1>0, <1>1, <2>1, <2>2, <2>3 DEF TypeOK
<1>3. TempGrows
  BY <1>0, <1>1 DEF SharedInv, UserInv, TypeOK, TempGrows
<1> QED BY <1>1, <1>2, <1>3, AccountsQuietStep

LEMMA AuthRoutesStep ==
  ASSUME SessionsInv, NEW c \in Calls, AuthRoutes(c)
  PROVE  SessionsInv'
<1>0. SharedInv /\ TypeOK /\ TokenInv /\ UserInv
  BY DEF SessionsInv, SharedInv
<1>1. CASE /\ UNCHANGED <<user, token, call, guesses, reused, cut, crashes, uses, invite, edits, shops, web>>
           /\ TempGrows
  <2>1. TypeOK'
    BY <1>0, <1>1 DEF TypeOK, TempGrows
  <2> QED BY <1>1, <2>1, AccountsQuietStep
<1>2. ASSUME NEW s \in Steps, NEW p \in People, NEW u \in UserRows, NEW login \in 0 .. MaxPw,
             NEW mfa \in BOOLEAN, NEW t \in Tokens \cup {NoToken},
             Started(c, s, p, u, login, mfa, t)
      PROVE  SessionsInv'
  <2>1. call' \in [Calls -> CallStates]
    BY <1>0, <1>2, BeginType DEF Started
  <2>2. guesses' \in [People -> Nat]
    BY <1>0, <1>2 DEF TypeOK, Started
  <2>3. TypeOK'
    BY <1>0, <1>2, <2>1, <2>2 DEF TypeOK, Started
  <2> QED BY <1>2, <2>3, BeginStep DEF Started
<1> QED BY <1>0, <1>1, <1>2, RouteBegins

LEMMA HandlersStep ==
  ASSUME SessionsInv, NEW c \in Calls, Handler(c)
  PROVE  SessionsInv'
  BY CreateShopStep, CreateUserStep, IssueTokensStep, LoginFailedStep, FinalizeLoginStep, RevokeFamilyStep,
     RevokeExpiredStep, RotateStep, RetireStep, WriteVerifiedStep, WritePasswordStep, RevokeAllStep,
     WriteEnabledStep DEF Handler

LEMMA SessionsStep == SessionsInv /\ [Next]_vars => SessionsInv'
<1> SUFFICES ASSUME SessionsInv, [Next]_vars PROVE SessionsInv'
  OBVIOUS
<1>0. Clients \subseteq People
  BY SessionsAssumption
<1>1. CASE \E c \in Calls : AuthRoutes(c) \/ Handler(c) \/ Crash(c)
  BY <1>1, AuthRoutesStep, HandlersStep, CrashStep
<1>2. CASE \E t \in Tokens : Logout(t)
  BY <1>2, LogoutStep
<1>3. CASE \E p \in Clients :
             \/ RequestPasswordReset(p) \/ Setup2fa(p) \/ Disable2fa(p) \/ LockExpires(p)
             \/ WebRefresh(p) \/ WebLogout(p)
  <2>1. PICK p \in People :
             \/ RequestPasswordReset(p) \/ Setup2fa(p) \/ Disable2fa(p) \/ LockExpires(p)
             \/ WebRefresh(p) \/ WebLogout(p)
    BY <1>0, <1>3
  <2> QED BY <2>1, RequestPasswordResetStep, Setup2faStep, Disable2faStep, LockExpiresStep, AccountsQuietSteps
<1>4. CASE \E p \in People :
             \/ \E s \in AdminStatuses : UpdateUserStatus(p, s)
             \/ \E r \in AdminRoles : UpdateUserRole(p, r)
             \/ \E r \in InviteRoles : CreateInvite(p, r)
             \/ AcceptInvite(p) \/ InviteExpires(p)
  BY <1>4, UpdateUserStatusStep, UpdateUserRoleStep, AcceptInviteStep, AccountsQuietSteps
<1>5. CASE UNCHANGED vars
  <2>1. TypeOK /\ SharedInv
    BY DEF SessionsInv, SharedInv
  <2>2. TypeOK'
    BY <1>5, <2>1 DEF TypeOK, vars
  <2>3. TempGrows
    BY <1>5, <2>1 DEF SharedInv, UserInv, TypeOK, TempGrows, vars
  <2> QED BY <1>5, <2>2, <2>3, AccountsQuietStep DEF vars
<1> QED BY <1>1, <1>2, <1>3, <1>4, <1>5 DEF Next

\* What the invariant says of tokens and accounts.
LEMMA SessionsImplied == SessionsInv => TokensHold /\ AccountsHold
<1> SUFFICES ASSUME SessionsInv PROVE TokensHold /\ AccountsHold
  OBVIOUS
<1>0. SharedInv /\ TypeOK /\ TokenInv /\ SomeSuperAdmin
  BY DEF SessionsInv, SharedInv
<1>1. AdminLoginsUseMfa
  BY <1>0 DEF AdminLoginsUseMfa, TokenInv
<1>2. ASSUME "overlap" \notin uses, NEW t \in Tokens, Live(t)
      PROVE  /\ token[t].user \in People /\ Has(t, token[t].user) /\ TokenFact(token[t].user)
             /\ token[t].family \in Tokens /\ Has(token[t].family, token[t].user)
  BY <1>0, <1>2, TokenOf DEF SessionsInv, AloneInv, PersonInv, Has, Live, TokenInv
<1>3. OneValidToken
  <2> SUFFICES ASSUME NEW t \in Tokens, NEW u \in Tokens, Live(t), Live(u), t # u,
                      token[t].family = token[u].family, "overlap" \notin uses
               PROVE  ~(token[t].given /\ token[u].given)
    BY DEF OneValidToken
  <2>1. Has(u, token[t].user)
    BY <1>2 DEF Has
  <2> QED BY <1>2, <2>1 DEF TokenFact, Live, Has
<1>4. ReuseEndsFamily
  <2> SUFFICES ASSUME "overlap" \notin uses, NEW f \in reused, NEW t \in Family(f), Live(t) PROVE FALSE
    BY DEF ReuseEndsFamily
  <2> QED BY <1>2 DEF TokenFact, Family, Live
<1>5. ResetEndsSessions
  <2> SUFFICES ASSUME NEW t \in Tokens, Live(t), "overlap" \notin uses, NEW p, p = token[t].user
               PROVE  /\ \/ token[t].pw = user[p].pw
                         \/ p \in cut
                         \/ \E c \in Calls : At(c, "revokeAll") /\ call[c].p = p
                      /\ \/ token[t].login = token[t].pw
                         \/ token[t].mfa /\ VerifyMfaTempToken(p, {"mfa"}, token[t].login)
    BY DEF ResetEndsSessions
  <2>1. token[t].pw = user[p].pw \/ p \in cut \/ Resetting(p)
    BY <1>2 DEF TokenFact, Live
  <2>2. LoginKnown(temp, p, token[t].pw, token[t].login, token[t].mfa)
    BY <1>0 DEF TokenInv, Live
  <2> QED BY <2>1, <2>2 DEF Resetting, Mine, At, LoginKnown, VerifyMfaTempToken
<1>6. LockBoundsGuesses
  <2> SUFFICES ASSUME "overlap" \notin uses, NEW p \in Clients
               PROVE  /\ guesses[p] <= MaxFailed + crashes
                      /\ guesses[p] = MaxFailed + crashes =>
                           user[p].locked \/ \E c \in Calls : At(c, "fail") /\ call[c].p = p
    BY DEF LockBoundsGuesses
  <2>1. p \in People /\ guesses[p] \in Nat /\ crashes \in Nat /\ MaxFailed \in Nat /\ MaxFailed > 0
    BY <1>0, SessionsAssumption DEF TypeOK
  <2>2. GuessFact(p)
    BY <2>1 DEF SessionsInv, AloneInv, PersonInv
  <2>3. CASE ~Exists(p)
    BY <2>1, <2>2, <2>3 DEF GuessFact
  <2>4. CASE Exists(p)
    <3>1. user[p].failed \in Nat /\ user[p].failed + 1 <= MaxFailed
      BY <1>0, <2>1, <2>4, RowOf
    <3>2. CASE user[p].locked
      <4>1. guesses[p] <= crashes + MaxFailed
        BY <2>2, <2>4, <3>2 DEF GuessFact
      <4> QED BY <2>1, <3>2, <4>1
    <3>3. CASE ~user[p].locked /\ Failing(p)
      <4>1. guesses[p] <= crashes + (user[p].failed + 1)
        BY <2>2, <2>4, <3>3 DEF GuessFact
      <4>2. \E c \in Calls : At(c, "fail") /\ call[c].p = p
        BY <3>3 DEF Failing, Mine, At
      <4>3. guesses[p] <= MaxFailed + crashes
        BY <2>1, <3>1, <4>1
      <4> QED BY <4>2, <4>3
    <3>4. CASE ~user[p].locked /\ ~Failing(p)
      <4>1. guesses[p] <= crashes + user[p].failed
        BY <2>2, <2>4, <3>4 DEF GuessFact
      <4> QED BY <2>1, <3>1, <4>1
    <3> QED BY <3>2, <3>3, <3>4
  <2> QED BY <2>3, <2>4
<1> QED BY <1>0, <1>1, <1>3, <1>4, <1>5, <1>6 DEF TokensHold, AccountsHold

\* The inductive invariant of accounts and sessions.
THEOREM SessionsInvariant == Spec => []SessionsInv
<1> QED BY SessionsInit, SessionsStep, PTL DEF Spec

\* One valid token of each family, none after a reuse, none from before a password reset,
\* for any number of people, tokens and calls.
THEOREM TokensAlwaysHold == Spec => []TokensHold
<1> QED BY SessionsInvariant, SessionsImplied, PTL

\* Guesses are bounded by MAX_FAILED, administrators have used TOTP, and somebody can
\* appoint others.
THEOREM AccountsAlwaysHold == Spec => []AccountsHold
<1> QED BY SessionsInvariant, SessionsImplied, PTL
=============================================================================
