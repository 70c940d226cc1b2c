------------------------------ MODULE Tenancy -------------------------------
(***************************************************************************)
(* Tenants: their names and domains, the tenant a request works for        *)
(* (middleware and interceptor), what the Prisma extension makes of its    *)
(* queries on models with a tenant, and the numbers of a tenant's          *)
(* invoices.  Tenant 0 is none.                                            *)
(***************************************************************************)
EXTENDS Integers, FiniteSets, FiniteSetsExt

CONSTANTS Tenants,     \* 1..n
          Rows,        \* rows of models that have a tenant
          Visitors,    \* requests that may run at once
          Limit,       \* greatest number of the padded width (99999)
          MaxDocuments,\* bound on the invoices
          MaxVisits    \* bound on the requests

ASSUME TenancyAssumption == Limit \in Nat \ {0} /\ Tenants \subseteq Nat \ {0}

VARIABLES domain,    \* custom domain of each tenant, "none" without one
          created,   \* tenants created so far
          rowTenant, \* tenant of each row, -1 without the row
          visit,     \* requests in progress
          seen,      \* rows a request was given or has written, with their tenant then
          issued,    \* invoices: set of [tenant, number, id]
          issuing,   \* requests that create an invoice
          visits,
          together   \* two requests without a tenant were issuing at once

tenancyVars == <<domain, created, rowTenant, visit, seen, issued, issuing, visits, together>>

Hosts == {"custom", "none"}

NoTenant == 0

Roles == {"guest", "MERCHANT", "ADMIN", "SUPER_ADMIN"}

NoVisit == [step |-> "idle", role |-> "guest", own |-> NoTenant, ctx |-> NoTenant]

NotIssuing == [step |-> "idle", tenant |-> NoTenant, number |-> 0]

TenancyInit ==
  /\ domain = [t \in Tenants |-> "none"]
  /\ created = {}
  /\ rowTenant = [r \in Rows |-> -1]
  /\ visit = [v \in Visitors |-> NoVisit]
  /\ seen = [v \in Visitors |-> {}]
  /\ issued = {} /\ issuing = [v \in Visitors |-> NotIssuing]
  /\ visits = 0 /\ together = FALSE

-----------------------------------------------------------------------------
\* create-tenant: the tenant and its owner in one transaction; the slug is its identity here.
CreateTenant(t) ==
  /\ t \notin created
  /\ created' = created \cup {t}
  /\ UNCHANGED <<domain, rowTenant, visit, seen, issued, issuing, visits, together>>

\* The tenant of a custom domain.
TenantOfHost(h) == {t \in created : domain[t] = h /\ h # "none"}

\* TenantMiddleware, before the user is known: the header, then the slug of a subdomain,
\* which names a tenant as the header does, then the custom domain.
Arrive(v, role, own, header, host) ==
  /\ visit[v] = NoVisit /\ visits < MaxVisits /\ visits' = visits + 1
  /\ visit' = [visit EXCEPT ![v] =
       [step |-> "intercept", role |-> role, own |-> own,
        ctx |-> IF header # NoTenant THEN header
                ELSE IF TenantOfHost(host) # {} THEN CHOOSE t \in TenantOfHost(host) : TRUE ELSE NoTenant]]
  /\ UNCHANGED <<domain, created, rowTenant, seen, issued, issuing, together>>

Trusted(v) == visit[v].role \in {"guest", "SUPER_ADMIN"} \/ (visit[v].role = "ADMIN" /\ visit[v].own = NoTenant)

\* Mutant: a tenant named by the header is taken for the user's.
InterceptTrusting(v) ==
  /\ visit[v].step = "intercept"
  /\ LET ctx == IF Trusted(v) \/ visit[v].ctx # NoTenant THEN visit[v].ctx ELSE visit[v].own
     IN  visit' = [visit EXCEPT ![v] = IF Trusted(v) \/ ctx # NoTenant
                                        THEN [@ EXCEPT !.step = "handle", !.ctx = ctx] ELSE NoVisit]
  /\ UNCHANGED <<domain, created, rowTenant, seen, issued, issuing, visits, together>>

\* TenantIsolationInterceptor, after the guards: a mismatch, or no tenant, is refused.
Intercept(v) ==
  /\ visit[v].step = "intercept"
  /\ LET ctx  == IF Trusted(v) \/ visit[v].ctx # NoTenant THEN visit[v].ctx ELSE visit[v].own
         same == visit[v].ctx = NoTenant \/ visit[v].own = NoTenant \/ visit[v].ctx = visit[v].own
     IN  visit' = [visit EXCEPT ![v] = IF Trusted(v) \/ (same /\ ctx # NoTenant)
                                        THEN [@ EXCEPT !.step = "handle", !.ctx = ctx] ELSE NoVisit]
  /\ UNCHANGED <<domain, created, rowTenant, seen, issued, issuing, visits, together>>

\* Mutant: a row named by its id is found in any tenant.
WithTenantUniqueWhereNot(v, r) == rowTenant[r] # -1

\* withTenantWhere and withTenantUniqueWhere
WithTenantWhere(v, r) == rowTenant[r] # -1 /\ (visit[v].ctx = NoTenant \/ rowTenant[r] = visit[v].ctx)

WithTenantUniqueWhere(v, r) == rowTenant[r] # -1 /\ (visit[v].ctx = NoTenant \/ rowTenant[r] = visit[v].ctx)

\* withTenantCreateData and withTenantUpdateData: the tenant of the request wins.
WithTenantData(v, t) == IF visit[v].ctx # NoTenant THEN visit[v].ctx ELSE t

Handling(v) == visit[v].step = "handle" /\ UNCHANGED <<domain, created, issued, issuing, visits, together>>

Leave(v) == visit' = [visit EXCEPT ![v] = NoVisit]

FindMany(v) ==
  /\ Handling(v)
  /\ seen' = [seen EXCEPT ![v] = {<<visit[v].own, visit[v].role, rowTenant[r]>> : r \in {q \in Rows : WithTenantWhere(v, q)}}]
  /\ Leave(v) /\ UNCHANGED rowTenant

CreateRowOf(v, r) ==
  /\ Handling(v) /\ rowTenant[r] = -1
  /\ rowTenant' = [rowTenant EXCEPT ![r] = WithTenantData(v, NoTenant)]
  /\ Leave(v) /\ UNCHANGED seen

UpdateRowOf(v, r) ==
  /\ Handling(v) /\ WithTenantUniqueWhere(v, r)
  /\ rowTenant' = [rowTenant EXCEPT ![r] = WithTenantData(v, rowTenant[r])]
  /\ seen' = [seen EXCEPT ![v] = {<<visit[v].own, visit[v].role, rowTenant[r]>>}]
  /\ Leave(v)

DeleteRowOf(v, r) ==
  /\ Handling(v) /\ WithTenantUniqueWhere(v, r)
  /\ rowTenant' = [rowTenant EXCEPT ![r] = -1]
  /\ Leave(v) /\ UNCHANGED seen

\* update-tenant-branding: its own tenant, or any for a SUPER_ADMIN; the check of the
\* domain is repeated by the unique index.  The files it stores first are in Media
\* (UploadBranding).
UpdateTenantBranding(v, t, h) ==
  /\ visit[v].step = "handle" /\ visit[v].role \in {"ADMIN", "SUPER_ADMIN"} /\ t \in created
  /\ visit[v].role # "SUPER_ADMIN" =>
       (visit[v].ctx \in {NoTenant, t} /\ visit[v].own \in {NoTenant, t})
  /\ h # "none" => \A s \in Tenants \ {t} : domain[s] # h
  /\ domain' = [domain EXCEPT ![t] = h]
  /\ Leave(v)
  /\ UNCHANGED <<created, rowTenant, seen, issued, issuing, visits, together>>

\* resolveTenantId of the controller: what the request names, then its context, then the user's.
ResolveTenantId(v, explicit) ==
  IF explicit # NoTenant THEN explicit ELSE IF visit[v].ctx # NoTenant THEN visit[v].ctx ELSE visit[v].own

\* PATCH tenants/current/branding; without a tenant it is refused.
UpdateCurrentBranding(v, explicit, h) ==
  LET t == ResolveTenantId(v, explicit) IN t # NoTenant /\ UpdateTenantBranding(v, t, h)

\* PATCH admin/tenants/:id/branding
UpdateBranding(v, t, h) == UpdateTenantBranding(v, t, h)

\* The tenants whose row, or whose invites, the reading routes give.
GetCurrentTenant(v) == created \cap {visit[v].ctx}

GetMine(v) == created \cap {ResolveTenantId(v, NoTenant)}

ListInvites(v) == created \cap {ResolveTenantId(v, NoTenant)}

\* Mutant: an administrator is given the tenant of any id.
GetOneOfAny(v, t) == created \cap {t}

GetOne(v, t) ==
  IF visit[v].role # "SUPER_ADMIN" /\ visit[v].own \notin {NoTenant, t} THEN {} ELSE created \cap {t}

\* A tenant's own row belongs to it.  A public route does not know its user.
ReadTenants(v) ==
  /\ Handling(v)
  /\ \E S \in SUBSET created :
       /\ \/ visit[v].role = "guest" /\ S = GetCurrentTenant(v)
          \/ visit[v].role # "guest" /\ S = GetMine(v)
          \/ visit[v].role \in {"ADMIN", "SUPER_ADMIN"} /\ (S = ListInvites(v) \/ \E t \in Tenants : S = GetOne(v, t))
          \/ visit[v].role = "SUPER_ADMIN" /\ S = created
       /\ seen' = [seen EXCEPT ![v] = {<<visit[v].own, visit[v].role, t>> : t \in S}]
  /\ Leave(v) /\ UNCHANGED rowTenant

-----------------------------------------------------------------------------
Numbers(t) == {d.number : d \in {e \in issued : t = NoTenant \/ e.tenant = t}}

\* Mutant: the numbers of all tenants are one sequence.
LastNumberOfAll(t) == LET S == {d.number : d \in issued} IN IF S = {} THEN 0 ELSE Max({n \in S : n <= Limit})

\* Mutant: the number of the document created last.
LastNumberCreated(t) ==
  LET D == {d \in issued : t = NoTenant \/ d.tenant = t}
  IN  IF D = {} THEN 0 ELSE (CHOOSE d \in D : \A e \in D : e.id <= d.id).number

\* The last number in the order of strings: longer than the padding sorts before Limit.
\* Without a tenant all documents are looked at.
LastNumber(t) == LET S == Numbers(t) IN IF S = {} THEN 0 ELSE Max({n \in S : n <= Limit})

\* generateNumber
GenerateNumber(v, t) ==
  /\ issuing[v] = NotIssuing
  /\ t = NoTenant \/ t \in created
  /\ issuing' = [issuing EXCEPT ![v] = [step |-> "create", tenant |-> t, number |-> LastNumber(t) + 1]]
  /\ together' = (together \/ (t = NoTenant /\ \E w \in Visitors : issuing[w] # NotIssuing))
  /\ UNCHANGED <<domain, created, rowTenant, visit, seen, issued, visits>>

Taken(v) == \E d \in issued : issuing[v].tenant # NoTenant /\ d.tenant = issuing[v].tenant /\ d.number = issuing[v].number

\* createFromOrder: refused by the unique index of tenant, type and number, which does
\* not hold where there is no tenant.
CreateDocument(v) ==
  /\ issuing[v].step = "create"
  /\ Taken(v) \/ Cardinality(issued) < MaxDocuments
  /\ issued' = IF Taken(v) THEN issued
               ELSE issued \cup {[tenant |-> issuing[v].tenant, number |-> issuing[v].number, id |-> Cardinality(issued) + 1]}
  /\ issuing' = [issuing EXCEPT ![v] = NotIssuing]
  /\ UNCHANGED <<domain, created, rowTenant, visit, seen, visits, together>>

TenantRoutes(v) ==
  \/ \E role \in Roles, own \in {NoTenant} \cup created, header \in {NoTenant} \cup Tenants, host \in Hosts :
       (role \in {"guest", "SUPER_ADMIN"} => own = NoTenant) /\ Arrive(v, role, own, header, host)
  \/ FindMany(v)
  \/ \E r \in Rows : CreateRowOf(v, r) \/ UpdateRowOf(v, r) \/ DeleteRowOf(v, r)
  \/ \E t \in Tenants \cup {NoTenant}, h \in Hosts : UpdateCurrentBranding(v, t, h)
  \/ \E t \in Tenants, h \in Hosts : UpdateBranding(v, t, h)
  \/ ReadTenants(v)

DocumentRoutes(v) == (\E t \in Tenants \cup {NoTenant} : GenerateNumber(v, t)) \/ CreateDocument(v)

TenancyNext ==
  \/ \E t \in Tenants : CreateTenant(t)
  \/ \E v \in Visitors : TenantRoutes(v) \/ Intercept(v) \/ DocumentRoutes(v)

TenancySpec == TenancyInit /\ [][TenancyNext]_tenancyVars

-----------------------------------------------------------------------------
TenantRows == Tenants \cup {NoTenant, -1}

TenancyTypeOK ==
  /\ domain \in [Tenants -> Hosts] /\ created \subseteq Tenants
  /\ rowTenant \in [Rows -> TenantRows]
  /\ \A v \in Visitors : visit[v].role \in Roles /\ visit[v].ctx \in Tenants \cup {NoTenant}
  /\ \A d \in issued : d.tenant \in Tenants \cup {NoTenant} /\ d.number \in 1..Limit + 1

\* A user who belongs to a tenant is shown, and changes, rows of that tenant only,
\* whatever header or host the request came with (TenantIsolationInterceptor).
StaysInTenant ==
  \A v \in Visitors : \A x \in seen[v] : x[1] # NoTenant /\ x[2] # "SUPER_ADMIN" => x[3] = x[1]

\* No update takes a row from one tenant to another, nor into one, not even by a
\* SUPER_ADMIN who names a tenant (withTenantUniqueWhere with withTenantUpdateData).
RowsKeepTenant ==
  [][\A r \in Rows : rowTenant[r] # -1 /\ rowTenant'[r] # -1 => rowTenant'[r] = rowTenant[r]]_rowTenant

\* The invoices of a tenant are numbered from 1 without gaps or repetition, however many
\* are issued at once (generateNumber and the unique index).
NumbersWithoutGaps ==
  \A t \in created :
    LET D == {d \in issued : d.tenant = t}
    IN  Cardinality({d.number : d \in D}) = Cardinality(D) /\ {d.number : d \in D} = 1..Cardinality(D)

\* Without a tenant no number is given twice either, while invoices are issued one by
\* one and the numbers keep to their width: the unique index does not look at these.
NumbersOnce ==
  ~together => \A d, e \in issued : d.tenant = NoTenant /\ e.tenant = NoTenant /\ d.number = e.number /\ d.number <= Limit => d = e

\* Tenants stay apart, in what is read and in the numbers of their invoices.
TenantsApart == StaysInTenant /\ NumbersWithoutGaps /\ NumbersOnce
=============================================================================
