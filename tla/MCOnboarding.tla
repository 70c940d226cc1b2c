---------------------------- MODULE MCOnboarding ----------------------------
(***************************************************************************)
(* Instances for TLC of the parts that set a shop and its tenant up.  A    *)
(* behaviour is one of one part; the parts meet only in the shop's row.    *)
(***************************************************************************)
EXTENDS Kyc, Connect, Tenancy, Leads

VARIABLE part

mcVars == <<part, mediaVars, kycVars, connectVars, tenancyVars, leadVars>>

\* Names, declared types and contents that agree or not; sizes at the limit; scans.
MCFiles ==
  [ext : {"none", "jpeg", "pdf", "text", "html"}, declared : {"jpeg", "pdf", "html"},
   content : {"jpeg", "gif", "pdf", "text", "exe"}, size : {12}, scan : {"OK"}]
  \cup [ext : {"pdf"}, declared : {"pdf"}, content : {"pdf"}, size : {0, 20, 21}, scan : {"OK", "FOUND", "disabled"}]
  \cup [ext : {"none", "pdf"}, declared : {"jpeg", "svg"}, content : {"jpeg", "svg", "exe"}, size : {1, 4, 5}, scan : {"OK"}]

MCScans == [ext : {"pdf"}, declared : {"pdf"}, content : {"pdf"}, size : {12}, scan : {"OK"}]

OnboardingInit ==
  /\ part \in {"media", "documents", "reviews", "connect", "tenants", "numbers", "leads"}
  /\ MediaInit /\ KycInit /\ ConnectInit /\ TenancyInit /\ LeadInit
  /\ part # "leads" => \A c \in Channels : channel[c] = "up"

\* Reviews with one upload at a time, documents with one decision.
OnboardingNext ==
  /\ UNCHANGED part
  /\ \/ /\ part = "media" /\ \E u \in Uploaders : MediaRoutes(u) \/ BrandingRoutes(u) \/ TaskSteps(u)
        /\ UNCHANGED <<kycVars, connectVars, tenancyVars, leadVars>>
     \/ /\ \/ part = "documents" /\ KycNext /\ decisions' <= 1
           \/ part = "reviews" /\ KycNext /\ task'[2] = Idle
        /\ UNCHANGED <<connectVars, tenancyVars, leadVars>>
     \/ part = "connect" /\ ConnectNext /\ UNCHANGED <<mediaVars, kycVars, tenancyVars, leadVars>>
     \/ /\ part = "tenants"
        /\ (\E t \in Tenants : CreateTenant(t)) \/ \E v \in Visitors : TenantRoutes(v) \/ Intercept(v)
        /\ UNCHANGED <<mediaVars, kycVars, connectVars, leadVars>>
     \/ /\ part = "numbers"
        /\ (\E t \in Tenants : CreateTenant(t)) \/ \E v \in Visitors : DocumentRoutes(v)
        /\ UNCHANGED <<mediaVars, kycVars, connectVars, leadVars>>
     \/ part = "leads" /\ SubmitDemoRequest /\ UNCHANGED <<mediaVars, kycVars, connectVars, tenancyVars>>

OnboardingSpec == OnboardingInit /\ [][OnboardingNext]_mcVars

OnboardingTypeOK == MediaTypeOK /\ KycTypeOK /\ ConnectTypeOK /\ TenancyTypeOK /\ LeadTypeOK

\* Every file has its row, its address and its content (Media), while the variables of
\* all parts keep their types.
FilesAndTypes == OnboardingTypeOK /\ FilesHold
=============================================================================
