--------------------------- MODULE ServicesProofs ---------------------------
(***************************************************************************)
(* Theorems about the components that answer one call at a time, each for  *)
(* the whole of Services.  A behaviour is one call of one procedure: no    *)
(* step changes subject, so that the inductive invariant of a component    *)
(* has one conjunct per procedure, true of every other subject, and needs  *)
(* only the steps of its own procedures.                                   *)
(***************************************************************************)
EXTENDS Services, AdapterProofs

\* The procedures of every component.
CatalogCalls == {"seed", "snapshot", "cache"}
KnowledgeCalls == {"cards", "registry", "layer"}
PlanningCalls == {"admit", "topo", "plan", "corpus", "future"}
SemanticCalls == {"claim", "receipts", "project", "ir", "lineage"}
HealthCalls == {"restore", "pulse", "drill"}
AutonomyCalls == {"scope", "leak", "policy", "resume"}
StorageCalls == {"binding", "fallback", "keyring", "mount"}
ReleaseCalls == {"acceptance", "truth"}
FrontEndsCalls == {"orient", "mcp", "solo"}
BridgesCalls == {"closeout", "remote", "export", "observe"}
ContractsCalls == {"timestamp", "schema", "json", "decimal", "path"}
FacadeCalls == {"capacity", "descriptor", "t7store", "local"}
PacksCalls == {"staging", "inventory", "admission", "environment", "archive", "fixture", "platform", "build", "p1"}
ProversCalls == {"convert", "lean", "dimension", "contours", "native", "smt", "lake"}
ProductsCalls == {"law", "a16", "stage", "solve"}
EstimatorsCalls == {"posterior", "persistence", "optimise", "covariance"}
SurfacesCalls == {"overlay", "harness", "portal", "canary"}

\* Steps of Catalog are calls of its own.
LEMMA CatalogApart ==
    /\ CatalogInit => subject \in CatalogCalls
    /\ CatalogNext => UNCHANGED subject /\ subject \in CatalogCalls
<1>1. CatalogInit => subject \in CatalogCalls
  BY DEF CatalogInit, SnapshotInit, CacheInit, SeedInit, CatalogCalls
<1>2. CatalogNext => UNCHANGED subject /\ subject \in CatalogCalls
  BY DEF BuildTwo, CacheRead, CacheStep, CacheWrite, CatalogNext, EditFile, ListCapabilities,
     LoadSeed, Step, CatalogCalls
<1> QED BY <1>1, <1>2

\* Steps of Knowledge are calls of its own.
LEMMA KnowledgeApart ==
    /\ KnowledgeInit => subject \in KnowledgeCalls
    /\ KnowledgeNext => UNCHANGED subject /\ subject \in KnowledgeCalls
<1>1. KnowledgeInit => subject \in KnowledgeCalls
  BY DEF KnowledgeInit, LayerInit, CardsInit, RegistryInit, KnowledgeCalls
<1>2. KnowledgeNext => UNCHANGED subject /\ subject \in KnowledgeCalls
  BY DEF AddFact, BuildManifest, Inspect, KnowledgeNext, LayerStep, LoadDoc, LoadRegistry,
     Search, Step, KnowledgeCalls
<1> QED BY <1>1, <1>2

\* Steps of Planning are calls of its own.
LEMMA PlanningApart ==
    /\ PlanningInit => subject \in PlanningCalls
    /\ PlanningNext => UNCHANGED subject /\ subject \in PlanningCalls
<1>1. PlanningInit => subject \in PlanningCalls
  BY DEF PlanningInit, PlanInit, TopoInit, CorpusInit, AdmitInit, FutureInit, PlanningCalls
<1>2. PlanningNext => UNCHANGED subject /\ subject \in PlanningCalls
  BY DEF AdmitBoth, BuildPlan, FinishOrder, LoadFutureCard, PlaceNode, PlanningNext,
     RouteRequest, RunTask, Step, PlanningCalls
<1> QED BY <1>1, <1>2

\* Steps of Semantic are calls of its own.
LEMMA SemanticApart ==
    /\ SemanticInit => subject \in SemanticCalls
    /\ SemanticNext => UNCHANGED subject /\ subject \in SemanticCalls
<1>1. SemanticInit => subject \in SemanticCalls
  BY DEF SemanticInit, LineageInit, TreeInit, ProjectInit, ClaimInit, ReceiptsInit,
     SemanticCalls
<1>2. SemanticNext => UNCHANGED subject /\ subject \in SemanticCalls
  BY DEF BuildEngineReceipt, BuildRunReceipt, BuildValidationReceipt, EditClaim, MintClaim,
     ProjectToBackend, RecordDetectedLoss, SemanticNext, UpdateAssessment, ValidateClaim,
     ValidateNode, Step, SemanticCalls
<1> QED BY <1>1, <1>2

\* Steps of Health are calls of its own.
LEMMA HealthApart ==
    /\ HealthInit => subject \in HealthCalls
    /\ HealthNext => UNCHANGED subject /\ subject \in HealthCalls
<1>1. HealthInit => subject \in HealthCalls
  BY DEF HealthInit, PulseInit, RestoreInit, DrillInit, HealthCalls
<1>2. HealthNext => UNCHANGED subject /\ subject \in HealthCalls
  BY DEF AssessAndProject, CopyArtifact, DrillKilled, DrillNext, DrillRefused, DrillStep,
     FinishDrill, FinishRestore, HealthNext, MoveHead, PublishPulse, PulseNext, RestoreFails,
     RestoreKilled, RestoreNext, SourceRots, StartDrill, StartRestore, Tick, Step, HealthCalls
<1> QED BY <1>1, <1>2

\* Steps of Autonomy are calls of its own.
LEMMA AutonomyApart ==
    /\ AutonomyInit => subject \in AutonomyCalls
    /\ AutonomyNext => UNCHANGED subject /\ subject \in AutonomyCalls
<1>1. AutonomyInit => subject \in AutonomyCalls
  BY DEF AutonomyInit, ResumeInit, ScopeInit, PolicyInit, LeakInit, AutonomyCalls
<1>2. AutonomyNext => UNCHANGED subject /\ subject \in AutonomyCalls
  BY DEF AutonomyNext, CheckScope, Decide, LoadPolicy, Observe, ResumeNext, ScanDiff, WpEvent,
     Step, AutonomyCalls
<1> QED BY <1>1, <1>2

\* Steps of Storage are calls of its own.
LEMMA StorageApart ==
    /\ StorageInit => subject \in StorageCalls
    /\ StorageNext => UNCHANGED subject /\ subject \in StorageCalls
<1>1. StorageInit => subject \in StorageCalls
  BY DEF StorageInit, FallbackInit, MountInit, BindingInit, KeyInit, StorageCalls
<1>2. StorageNext => UNCHANGED subject /\ subject \in StorageCalls
  BY DEF BuildReceipts, CreateKey, FallbackCheck, FallbackKilled, FallbackNext, FallbackPut,
     FindKeyAbsent, FinishProbe, KeyNext, LoadDamagedKey, LoadExpectedIdentity, LoadKey,
     MountNext, ProbeKilled, RemoveKey, RunProbe, StorageNext, SwapVolume, WriteKeyring, Step,
     StorageCalls
<1> QED BY <1>1, <1>2

\* Steps of Release are calls of its own.
LEMMA ReleaseApart ==
    /\ ReleaseInit => subject \in ReleaseCalls
    /\ ReleaseNext => UNCHANGED subject /\ subject \in ReleaseCalls
<1>1. ReleaseInit => subject \in ReleaseCalls
  BY DEF ReleaseInit, TruthInit, AcceptanceInit, ReleaseCalls
<1>2. ReleaseNext => UNCHANGED subject /\ subject \in ReleaseCalls
  BY DEF AcceptanceNext, BuildLedger, CloseAcceptance, EvaluateCandidate, IndexAttempts,
     IndexStages, Probe, ReleaseNext, Rewrite, RewriteKey, SmokeAndEnter, TruthNext, Step,
     ReleaseCalls
<1> QED BY <1>1, <1>2

\* Steps of FrontEnds are calls of its own.
LEMMA FrontEndsApart ==
    /\ FrontEndsInit => subject \in FrontEndsCalls
    /\ FrontEndsNext => UNCHANGED subject /\ subject \in FrontEndsCalls
<1>1. FrontEndsInit => subject \in FrontEndsCalls
  BY DEF FrontEndsInit, McpInit, SoloInit, OrientInit, FrontEndsCalls
<1>2. FrontEndsNext => UNCHANGED subject /\ subject \in FrontEndsCalls
  BY DEF CheckOutOther, EditRepoFile, FrontEndsNext, McpNext, Orient, OrientFail, OrientNext,
     ReadAgain, ReadEnd, ReadGateScript, ReadOnce, RefuseBody, RefuseHeader, RunGate,
     ServeMessage, ReadSession, ReadResult, SoloStale, SoloAnswer, SoloNext, SoloReplay, SoloStep, SubmitKilled, SubmitStart,
     SubmitWriteResult, SubmitWriteSession, Step, FrontEndsCalls
<1> QED BY <1>1, <1>2

\* Steps of Bridges are calls of its own.
LEMMA BridgesApart ==
    /\ BridgesInit => subject \in BridgesCalls
    /\ BridgesNext => UNCHANGED subject /\ subject \in BridgesCalls
<1>1. BridgesInit => subject \in BridgesCalls
  BY DEF BridgesInit, ExportInit, ObserveInit, CloseoutInit, RemoteInit, BridgesCalls
<1>2. BridgesNext => UNCHANGED subject /\ subject \in BridgesCalls
  BY DEF AlterJob, AlterRequest, BridgesNext, BuildBundle, CloseoutNext, ExportNext,
     FinishPacket, ImportCloseout, ImportDualContourCloseout, ImportMarketCloseout,
     ImportMarketObservationPacket, ImportPacket, ImportReceipt, ImportSecurityCloseout,
     ImportSecurityObservationPacket, NativeCloses, NativeMoves, NativeSends, ObserveNext,
     Refuse, Reissue, RemoteNext, RouteJob, RunJob, SignJob, Traffic, WireObject, Step,
     BridgesCalls
<1> QED BY <1>1, <1>2

\* Steps of Contracts are calls of its own.
LEMMA ContractsApart ==
    /\ ContractsInit => subject \in ContractsCalls
    /\ ContractsNext => UNCHANGED subject /\ subject \in ContractsCalls
<1>1. ContractsInit => subject \in ContractsCalls
  BY DEF ContractsInit, JsonInit, DecimalInit, StampInit, PathInit, SchemaInit, ContractsCalls
<1>2. ContractsNext => UNCHANGED subject /\ subject \in ContractsCalls
  BY DEF ContractsNext, DecimalToStr, JsonIdentify, NormalizeTimestamp, ReplaceSchemaFile,
     SchemaValidate, ValidatePortablePath, Step, ContractsCalls
<1> QED BY <1>1, <1>2

\* Steps of Facade are calls of its own.
LEMMA FacadeApart ==
    /\ FacadeInit => subject \in FacadeCalls
    /\ FacadeNext => UNCHANGED subject /\ subject \in FacadeCalls
<1>1. FacadeInit => subject \in FacadeCalls
  BY DEF FacadeInit, LocalInit, T7StoreInit, CapacityInit, DescriptorInit, FacadeCalls
<1>2. FacadeNext => UNCHANGED subject /\ subject \in FacadeCalls
  <2>1. ASSUME NEW new, StoreEvent(new) PROVE UNCHANGED subject /\ subject \in FacadeCalls
    BY <2>1 DEF StoreEvent, Step, FacadeCalls
  <2>2. ASSUME LocalNext PROVE UNCHANGED subject /\ subject \in FacadeCalls
    BY <2>1, <2>2 DEF LocalNext, Put, Rot, Get, ReadDescriptor, SweepStart, SweepVisit, SweepReport
  <2>3. ASSUME T7StoreNext PROVE UNCHANGED subject /\ subject \in FacadeCalls
    BY <2>3 DEF T7StoreNext, ExchangeVolume, MakeT7Store, CallT7, Step, FacadeCalls
  <2>4. ASSUME WriteIfAllowed PROVE UNCHANGED subject /\ subject \in FacadeCalls
    BY <2>4 DEF WriteIfAllowed, Step, FacadeCalls
  <2>5. ASSUME EditReceipt \/ JudgeReceipt PROVE UNCHANGED subject /\ subject \in FacadeCalls
    BY <2>5 DEF EditReceipt, JudgeReceipt, Step, FacadeCalls
  <2> QED BY <2>2, <2>3, <2>4, <2>5 DEF FacadeNext
<1> QED BY <1>1, <1>2

\* Steps of Packs are calls of its own.
LEMMA PacksApart ==
    /\ PacksInit => subject \in PacksCalls
    /\ PacksNext => UNCHANGED subject /\ subject \in PacksCalls
<1>1. PacksInit => subject \in PacksCalls
  BY DEF PacksInit, PacksCalls
<1>2. PacksNext => UNCHANGED subject /\ subject \in PacksCalls
  BY DEF Advance, Assess, AssessInventory, BuildPack, CheckPlatform, CheckRoot, CompareFixtures,
     CopyTree, DispatchPack, Drift, EvaluateP1, ExtractMember, ExtractReport, GovernanceReceipt,
     LoadInventory, PacksNext, ProfileStatus, Revoke, VerifyCopy, VisitChild, VisitDone,
     VisitRoot, Step, PacksCalls
<1> QED BY <1>1, <1>2

\* Steps of Provers are calls of its own.
LEMMA ProversApart ==
    /\ ProversInit => subject \in ProversCalls
    /\ ProversNext => UNCHANGED subject /\ subject \in ProversCalls
<1>1. ProversInit => subject \in ProversCalls
  BY DEF ProversInit, SmtInit, LeanInit, LakeInit, ContoursInit, ConvertInit, DimensionInit,
     NativeInit, ProversCalls
<1>2. ProversNext => UNCHANGED subject /\ subject \in ProversCalls
  BY DEF BuildProverBundle, BuildTranslation, CheckSymbol, LookUp, Running, Convert, DimensionStatus,
     LakeCacheGet, LakeClean, LakeNext, LakeStep, LakeUpdate, LakeValidate, LeanRun, LeanWrite,
     NativeProbe, PrepareWrite, ProversNext, SmtCheck, Step, ProversCalls
<1> QED BY <1>1, <1>2

\* Steps of Products are calls of its own.
LEMMA ProductsApart ==
    /\ ProductsInit => subject \in ProductsCalls
    /\ ProductsNext => UNCHANGED subject /\ subject \in ProductsCalls
<1>1. ProductsInit => subject \in ProductsCalls
  BY DEF ProductsInit, LawInit, SolveInit, StageInit, A16Init, ProductsCalls
<1>2. ProductsNext => UNCHANGED subject /\ subject \in ProductsCalls
  BY DEF A16Refuse, AlterReceipt, BuildProduct, CompareWithNull, Eliminate, FitLaw,
     IssueReceipt, LoadStages, ProductsNext, ResolveRuntime, RunWorkload, StageRaise,
     ValidateA16, ValidateStage, Step, ProductsCalls
<1> QED BY <1>1, <1>2

\* Steps of Estimators are calls of its own.
LEMMA EstimatorsApart ==
    /\ EstimatorsInit => subject \in EstimatorsCalls
    /\ EstimatorsNext => UNCHANGED subject /\ subject \in EstimatorsCalls
<1>1. EstimatorsInit => subject \in EstimatorsCalls
  BY DEF EstimatorsInit, PosteriorInit, PersistenceInit, OptimiseInit, CovarianceInit,
     EstimatorsCalls
<1>2. EstimatorsNext => UNCHANGED subject /\ subject \in EstimatorsCalls
  BY DEF BuildModelSpec, BuildProblem, CheckCaps, ComputePersistence, CountClasses,
     CovarianceRefuse, EstimatorsNext, FitTransform, OptimiseFail, PosteriorRefuse,
     RenderDiagram, SamplePosterior, SolveProblem, SummarisePosterior, TouchState, Transform,
     Step, EstimatorsCalls
<1> QED BY <1>1, <1>2

\* Steps of Surfaces are calls of its own.
LEMMA SurfacesApart ==
    /\ SurfacesInit => subject \in SurfacesCalls
    /\ SurfacesNext => UNCHANGED subject /\ subject \in SurfacesCalls
<1>1. SurfacesInit => subject \in SurfacesCalls
  BY DEF SurfacesInit, HarnessInit, CanaryInit, PortalInit, OverlayInit, SurfacesCalls
<1>2. SurfacesNext => UNCHANGED subject /\ subject \in SurfacesCalls
  BY DEF BuildPortal, CaseRun, ChangeFile, CheckPaths, EditCorpus, GoldenRun, OrphanSweep,
     OverlayFail, ParseConfig, ReadConfig, ReadVars, RejectedCase, RunCanaryProbe, SetCanary,
     SpawnedCase, SurfacesNext, Step, SurfacesCalls
<1> QED BY <1>1, <1>2
\* No two components share a call, so that a step of one leaves the calls of every
\* other alone.
LEMMA CallsAreApart ==
    /\ Init => HealthInit \/ subject \notin HealthCalls
    /\ Next => HealthNext \/ (UNCHANGED subject /\ subject \notin HealthCalls)
    /\ Init => FacadeInit \/ subject \notin FacadeCalls
    /\ Next => FacadeNext \/ (UNCHANGED subject /\ subject \notin FacadeCalls)
    /\ Init => FrontEndsInit \/ subject \notin FrontEndsCalls
    /\ Next => FrontEndsNext \/ (UNCHANGED subject /\ subject \notin FrontEndsCalls)
    /\ Init => SemanticInit \/ subject \notin SemanticCalls
    /\ Next => SemanticNext \/ (UNCHANGED subject /\ subject \notin SemanticCalls)
    /\ Init => KnowledgeInit \/ subject \notin KnowledgeCalls
    /\ Next => KnowledgeNext \/ (UNCHANGED subject /\ subject \notin KnowledgeCalls)
    /\ Init => StorageInit \/ subject \notin StorageCalls
    /\ Next => StorageNext \/ (UNCHANGED subject /\ subject \notin StorageCalls)
    /\ Init => ReleaseInit \/ subject \notin ReleaseCalls
    /\ Next => ReleaseNext \/ (UNCHANGED subject /\ subject \notin ReleaseCalls)
    /\ Init => SurfacesInit \/ subject \notin SurfacesCalls
    /\ Next => SurfacesNext \/ (UNCHANGED subject /\ subject \notin SurfacesCalls)
    /\ Init => BridgesInit \/ subject \notin BridgesCalls
    /\ Next => BridgesNext \/ (UNCHANGED subject /\ subject \notin BridgesCalls)
<1> USE CatalogApart, KnowledgeApart, PlanningApart, SemanticApart, HealthApart, AutonomyApart,
        StorageApart, ReleaseApart, FrontEndsApart, BridgesApart, ContractsApart, FacadeApart,
        PacksApart, ProversApart, ProductsApart, EstimatorsApart, SurfacesApart
<1> USE DEF CatalogCalls, KnowledgeCalls, PlanningCalls, SemanticCalls, HealthCalls, AutonomyCalls,
        StorageCalls, ReleaseCalls, FrontEndsCalls, BridgesCalls, ContractsCalls, FacadeCalls,
        PacksCalls, ProversCalls, ProductsCalls, EstimatorsCalls, SurfacesCalls
<1>1. /\ Init => HealthInit \/ subject \notin HealthCalls
      /\ Next => HealthNext \/ (UNCHANGED subject /\ subject \notin HealthCalls)
  BY DEF Init, Next
<1>2. /\ Init => FacadeInit \/ subject \notin FacadeCalls
      /\ Next => FacadeNext \/ (UNCHANGED subject /\ subject \notin FacadeCalls)
  BY DEF Init, Next
<1>3. /\ Init => FrontEndsInit \/ subject \notin FrontEndsCalls
      /\ Next => FrontEndsNext \/ (UNCHANGED subject /\ subject \notin FrontEndsCalls)
  BY DEF Init, Next
<1>4. /\ Init => SemanticInit \/ subject \notin SemanticCalls
      /\ Next => SemanticNext \/ (UNCHANGED subject /\ subject \notin SemanticCalls)
  BY DEF Init, Next
<1>5. /\ Init => KnowledgeInit \/ subject \notin KnowledgeCalls
      /\ Next => KnowledgeNext \/ (UNCHANGED subject /\ subject \notin KnowledgeCalls)
  BY DEF Init, Next
<1>6. /\ Init => StorageInit \/ subject \notin StorageCalls
      /\ Next => StorageNext \/ (UNCHANGED subject /\ subject \notin StorageCalls)
  BY DEF Init, Next
<1>7. /\ Init => ReleaseInit \/ subject \notin ReleaseCalls
      /\ Next => ReleaseNext \/ (UNCHANGED subject /\ subject \notin ReleaseCalls)
  BY DEF Init, Next
<1>8. /\ Init => SurfacesInit \/ subject \notin SurfacesCalls
      /\ Next => SurfacesNext \/ (UNCHANGED subject /\ subject \notin SurfacesCalls)
  BY DEF Init, Next
<1>9. /\ Init => BridgesInit \/ subject \notin BridgesCalls
      /\ Next => BridgesNext \/ (UNCHANGED subject /\ subject \notin BridgesCalls)
  BY DEF Init, Next
<1> QED BY <1>1, <1>2, <1>3, <1>4, <1>5, <1>6, <1>7, <1>8, <1>9
-----------------------------------------------------------------------------
(***************************************************************************)
(* Health: pulses.  A pulse is dated at most the clock error late.         *)
(***************************************************************************)
PulseInv ==
    subject = "pulse" =>
        /\ st = [now |-> st.now, head |-> st.head, pulse |-> st.pulse, cell |-> st.cell]
        /\ st.now \in Nat
        /\ \A p \in st.pulse : /\ p.made \in Nat /\ p.observed \in Nat
                               /\ p.status \in PulseStatus
                               /\ p.observed <= p.made + MaxSkew
        /\ \A c \in st.cell :
               c.projection \in {"GREEN", "YELLOW"} =>
                   c.of.head = c.head /\ c.at - c.of.made <= MaxAge + MaxSkew

\* Every step keeps pulses dated within the clock error and lit cells recent.
LEMMA PulseStep == ASSUME PulseInv, HealthNext PROVE PulseInv'
<1> USE HealthAssumption
<1>1. CASE subject # "pulse"
  BY <1>1, HealthApart DEF PulseInv
<1> SUFFICES ASSUME subject = "pulse", PulseNext PROVE PulseInv'
  BY <1>1 DEF HealthNext
<1>2. ASSUME NEW s \in PulseStatus, NEW h \in Heads, NEW k \in 0 .. MaxSkew, PublishPulse(s, h, k)
      PROVE  PulseInv'
  <2> PICK p : p = [status |-> s, head |-> h, made |-> st.now, observed |-> st.now + k]
    OBVIOUS
  <2>1. st' = [st EXCEPT !.pulse = {p}] /\ UNCHANGED subject
    BY <1>2 DEF PublishPulse, Step
  <2>2. p.made \in Nat /\ p.observed \in Nat /\ p.status \in PulseStatus
        /\ p.observed <= p.made + MaxSkew
    BY DEF PulseInv
  <2> QED BY <2>1, <2>2 DEF PulseInv
<1>3. ASSUME Tick \/ MoveHead PROVE PulseInv'
  BY <1>3 DEF Tick, MoveHead, Step, PulseInv
<1>4. ASSUME NEW b \in BOOLEAN, AssessAndProject(b) PROVE PulseInv'
  <2>a. PICK p \in st.pulse : st' = [st EXCEPT !.cell = {[srf |-> b, of |-> p, head |-> st.head,
                  at |-> st.now, native |-> AssessPulse(p, st.head, st.now).status,
                  projection |-> ProjectCell(AssessPulse(p, st.head, st.now).status, b)]}]
              /\ UNCHANGED subject
    BY <1>4 DEF AssessAndProject, Step
  <2> PICK c :
        /\ c = [srf |-> b, of |-> p, head |-> st.head, at |-> st.now,
                native |-> AssessPulse(p, st.head, st.now).status,
                projection |-> ProjectCell(AssessPulse(p, st.head, st.now).status, b)]
        /\ st' = [st EXCEPT !.cell = {c}] /\ UNCHANGED subject
    BY <2>a
  <2>1. c.of = p /\ c.head = st.head /\ c.at = st.now
        /\ c.projection = ProjectCell(AssessPulse(p, st.head, st.now).status, b)
    OBVIOUS
  <2>2. ASSUME c.projection \in {"GREEN", "YELLOW"}
        PROVE  p.head = st.head /\ st.now - p.made <= MaxAge + MaxSkew
    BY <2>1, <2>2 DEF ProjectCell, AssessPulse, PulseInv
  <2> QED BY <2>1, <2>2 DEF PulseInv
<1> QED BY <1>2, <1>3, <1>4 DEF PulseNext
-----------------------------------------------------------------------------
(***************************************************************************)
(* Health: restores.  While a drill is under way, what it was asked for is *)
(* what it has copied and what it has yet to copy.                         *)
(***************************************************************************)
RestoreInv ==
    subject = "restore" =>
        /\ st = [source |-> st.source, target |-> st.target, asked |-> st.asked,
                 todo |-> st.todo, busy |-> st.busy, drills |-> st.drills,
                 receipts |-> st.receipts]
        /\ st.busy => st.asked = st.target \cup st.todo
        /\ \A r \in st.receipts : r.held = r.ids

\* Every step keeps the receipt of a restore that of this restore.
LEMMA RestoreStep == ASSUME RestoreInv, HealthNext PROVE RestoreInv'
<1>1. CASE subject # "restore"
  BY <1>1, HealthApart DEF RestoreInv
<1> SUFFICES ASSUME subject = "restore", RestoreNext PROVE RestoreInv'
  BY <1>1 DEF HealthNext
<1>2. ASSUME NEW ids \in SUBSET RestoreIds, StartRestore(ids) PROVE RestoreInv'
  BY <1>2 DEF StartRestore, Step, RestoreInv
<1>3. ASSUME RestoreKilled PROVE RestoreInv'
  BY <1>3 DEF RestoreKilled, Step, RestoreInv
<1>5. ASSUME FinishRestore PROVE RestoreInv'
  <2> PICK r : r = [ids |-> st.asked, held |-> st.target]
    OBVIOUS
  <2>1. st' = [st EXCEPT !.busy = FALSE, !.receipts = @ \cup {r}] /\ UNCHANGED subject
    BY <1>5 DEF FinishRestore, Step
  <2>2. r.held = r.ids
    BY <1>5 DEF FinishRestore, RestoreInv
  <2> QED BY <2>1, <2>2 DEF RestoreInv
<1>4. ASSUME NEW a \in RestoreIds, CopyArtifact(a) \/ RestoreFails(a) \/ SourceRots(a)
      PROVE  RestoreInv'
  <2>1. CASE CopyArtifact(a)
    BY <2>1 DEF CopyArtifact, Step, RestoreInv
  <2>2. CASE RestoreFails(a)
    BY <2>2 DEF RestoreFails, Step, RestoreInv
  <2>3. CASE SourceRots(a)
    BY <2>3 DEF SourceRots, Step, RestoreInv
  <2> QED BY <1>4, <2>1, <2>2, <2>3
<1> QED BY <1>2, <1>3, <1>4, <1>5 DEF RestoreNext
-----------------------------------------------------------------------------
(***************************************************************************)
(* Health: disaster drills.  The first step leaves its trace, so a drill   *)
(* past it is the root's first, and each check made says what the part it  *)
(* attacked answered.                                                      *)
(***************************************************************************)
DrillShape ==
    st = [answers |-> st.answers, restored |-> st.restored, crashRun |-> st.crashRun, at |-> st.at,
          checks |-> st.checks, drills |-> st.drills, receipts |-> st.receipts]

DrillFacts(answers, restored, at, checks, drills, receipts) ==
    /\ at \in 0 .. 8 /\ drills \in Nat
    /\ answers \subseteq Answers
    /\ checks \in Seq({"PASS", "FAIL"})
    /\ receipts \in Seq([result : {"PASS", "FAIL"}, drill : Nat])
    /\ at >= 2 => restored = TRUE /\ receipts = <<>>
    /\ receipts # <<>> => restored = TRUE
    /\ at >= 1 => Len(checks) = at - 1
    /\ at >= 1 => \A i \in 1 .. at - 1 :
           checks[i] = "PASS" => CheckPasses(DRILL_STEPS[i], answers)
    /\ Len(receipts) <= 1
    /\ \A i \in DOMAIN receipts : receipts[i].result = "PASS" => answers = Answers

DrillInv ==
    subject = "drill" =>
        /\ DrillShape
        /\ DrillFacts(st.answers, st.restored, st.at, st.checks, st.drills, st.receipts)

\* A drill whose every check passed was answered as it must be throughout.
LEMMA AllChecksAreAllAnswers ==
    ASSUME NEW answers \in SUBSET Answers, \A i \in 1 .. 7 : CheckPasses(DRILL_STEPS[i], answers)
    PROVE  answers = Answers
<1>1. /\ CheckPasses("rebuildable_from_locks", answers)
      /\ CheckPasses("executor_crash", answers)
      /\ CheckPasses("corrupt_objects", answers)
      /\ CheckPasses("revoked_packs", answers)
      /\ CheckPasses("lost_indexes", answers)
  BY DEF DRILL_STEPS
<1>2. /\ RebuildableChecks \subseteq answers /\ ExecutorCrashChecks \subseteq answers
      /\ CorruptObjectChecks \subseteq answers /\ RevokedPackChecks \subseteq answers
      /\ LostIndexChecks \subseteq answers
  BY <1>1 DEF CheckPasses
<1> QED BY <1>2 DEF Answers

\* Every step keeps the checks of a drill those of the answers it got.
LEMMA DrillKeepsFacts == ASSUME DrillInv, HealthNext PROVE DrillInv'
<1>1. CASE subject # "drill"
  BY <1>1, HealthApart DEF DrillInv
<1> SUFFICES ASSUME subject = "drill", DrillNext PROVE DrillInv'
  BY <1>1 DEF HealthNext
<1> USE DEF DrillInv, DrillFacts
<1>a. DrillShape
  OBVIOUS
<1>b. Len(DRILL_STEPS) = 7
  BY DEF DRILL_STEPS
<1>2. ASSUME StartDrill PROVE DrillInv'
  <2>1. st' = [st EXCEPT !.at = 1, !.checks = <<>>, !.drills = @ + 1] /\ UNCHANGED subject
    BY <1>2 DEF StartDrill, Step
  <2>2. /\ st'.answers = st.answers /\ st'.restored = st.restored /\ st'.at = 1
        /\ st'.checks = <<>> /\ st'.drills = st.drills + 1 /\ st'.receipts = st.receipts
        /\ DrillShape'
    BY <1>a, <2>1 DEF DrillShape
  <2> QED BY <2>1, <2>2
<1>3. ASSUME DrillStep PROVE DrillInv'
  <2> PICK v, res, run :
        /\ v = IF CheckPasses(DRILL_STEPS[st.at], st.answers) THEN "PASS" ELSE "FAIL"
        /\ res = (st.restored \/ DRILL_STEPS[st.at] = "unique_chain_restore")
        /\ st' = [st EXCEPT !.at = @ + 1, !.checks = Append(@, v), !.restored = res,
                            !.crashRun = run]
        /\ UNCHANGED subject
    BY <1>3, Zenon DEF DrillStep, Step
  <2>1. /\ st.at \in 1 .. 7
        /\ ~(DRILL_STEPS[st.at] = "unique_chain_restore" /\ st.restored)
    BY <1>3, <1>b DEF DrillStep, Traces
  <2>2. st.at = 1 => DRILL_STEPS[st.at] = "unique_chain_restore"
    BY DEF DRILL_STEPS
  <2>3. st.receipts = <<>>
    <3>1. st.at = 1 => st.restored # TRUE
      BY <2>1, <2>2, Zenon
    <3>2. /\ st.at >= 2 => st.receipts = <<>>
          /\ st.receipts # <<>> => st.restored = TRUE
      OBVIOUS
    <3>3. st.at = 1 \/ st.at >= 2
      BY <2>1
    <3> QED BY <3>1, <3>2, <3>3, Zenon
  <2>4. /\ st'.at = st.at + 1 /\ st'.checks = Append(st.checks, v) /\ st'.drills = st.drills
        /\ st'.answers = st.answers /\ st'.receipts = st.receipts /\ st'.restored = res
        /\ DrillShape'
    BY <1>a DEF DrillShape
  <2>5. res = TRUE
    <3>1. st.at # 1 => st.restored = TRUE
      BY <2>1
    <3> QED BY <2>1, <2>2, <3>1, Zenon
  <2>6. /\ st'.checks \in Seq({"PASS", "FAIL"}) /\ Len(st'.checks) = st'.at - 1
        /\ \A i \in 1 .. st'.at - 1 :
               st'.checks[i] = "PASS" => CheckPasses(DRILL_STEPS[i], st'.answers)
    BY <2>1, <2>4
  <2>7. DrillFacts(st.answers, TRUE, st'.at, st'.checks, st.drills, <<>>)
    <3>1. /\ st'.at \in 0 .. 8 /\ st.drills \in Nat /\ st.answers \subseteq Answers
          /\ Len(st'.checks) = st'.at - 1
      BY <2>1, <2>4, <2>6
    <3>2. <<>> \in Seq([result : {"PASS", "FAIL"}, drill : Nat]) /\ Len(<<>>) <= 1
          /\ DOMAIN <<>> = {}
      OBVIOUS
    <3> QED BY <2>4, <2>6, <3>1, <3>2, Zenon
  <2> QED BY <2>3, <2>4, <2>5, <2>7, Zenon
<1>4. ASSUME DrillRefused PROVE DrillInv'
  <2>1. st' = [st EXCEPT !.at = 0] /\ UNCHANGED subject
    BY <1>4 DEF DrillRefused, Step
  <2>2. /\ st'.answers = st.answers /\ st'.restored = st.restored /\ st'.at = 0
        /\ st'.checks = st.checks /\ st'.drills = st.drills /\ st'.receipts = st.receipts
        /\ DrillShape'
    BY <1>a, <2>1 DEF DrillShape
  <2> QED BY <2>1, <2>2
<1>5. ASSUME NEW b \in BOOLEAN, DrillKilled(b) PROVE DrillInv'
  <2> PICK x, res, run :
        /\ x \in BOOLEAN /\ res = (st.restored \/ x)
        /\ st' = [st EXCEPT !.at = 0, !.restored = res, !.crashRun = run]
        /\ UNCHANGED subject
    BY <1>5, Zenon DEF DrillKilled, Step
  <2>1. st.restored = TRUE => res = TRUE
    BY Zenon
  <2>2. /\ st'.answers = st.answers /\ st'.restored = res /\ st'.at = 0
        /\ st'.checks = st.checks /\ st'.drills = st.drills /\ st'.receipts = st.receipts
        /\ DrillShape'
    BY <1>a DEF DrillShape
  <2> QED BY <2>1, <2>2
<1>6. ASSUME FinishDrill PROVE DrillInv'
  <2> PICK r : /\ r = [result |-> DrillResult(st.checks), drill |-> st.drills]
               /\ st' = [st EXCEPT !.at = 0, !.receipts = Append(@, r)]
               /\ UNCHANGED subject
    BY <1>6 DEF FinishDrill, Step
  <2>1. st.at = 8 /\ st.receipts = <<>> /\ st.restored = TRUE
    BY <1>6, <1>b DEF FinishDrill
  <2>2. ASSUME r.result = "PASS" PROVE st.answers = Answers
    <3>1. \A i \in 1 .. 7 : CheckPasses(DRILL_STEPS[i], st.answers)
      BY <2>1, <2>2 DEF DrillResult
    <3> QED BY <3>1, AllChecksAreAllAnswers
  <2>3. r \in [result : {"PASS", "FAIL"}, drill : Nat]
    BY DEF DrillResult
  <2>4. /\ st'.answers = st.answers /\ st'.restored = st.restored /\ st'.at = 0
        /\ st'.checks = st.checks /\ st'.drills = st.drills
        /\ st'.receipts = Append(st.receipts, r) /\ DrillShape'
    BY <1>a DEF DrillShape
  <2>5. Append(st.receipts, r) = <<r>>
    BY <2>1
  <2> QED BY <2>1, <2>2, <2>3, <2>4, <2>5
<1> QED BY <1>2, <1>3, <1>4, <1>5, <1>6 DEF DrillNext

HealthInv == PulseInv /\ RestoreInv /\ DrillInv

\* A good report of the laboratory's health rests on what was there to see: a lit
\* cell on a pulse of the expected head no older than the limit and the publisher's
\* clock error, a restore receipt on exactly the artifacts asked for, and a passed
\* drill on every fault answered, once per root (health/pulse.py,
\* health/recovery.py, health/disaster_recovery.py).
THEOREM HealthIsWitnessed == Spec => []HealthWitnessed
<1>1. Init => HealthInv
  <2> SUFFICES ASSUME HealthInit PROVE HealthInv
    BY CallsAreApart DEF HealthInv, PulseInv, RestoreInv, DrillInv, HealthCalls
  <2>1. CASE PulseInit
    BY <2>1 DEF PulseInit, HealthInv, PulseInv, RestoreInv, DrillInv
  <2>2. CASE RestoreInit
    BY <2>2 DEF RestoreInit, HealthInv, PulseInv, RestoreInv, DrillInv
  <2>3. CASE DrillInit
    <3> PICK answers \in SUBSET Answers :
          st = [answers |-> answers, restored |-> FALSE, crashRun |-> "none", at |-> 0,
                checks |-> <<>>, drills |-> 0, receipts |-> <<>>]
      BY <2>3 DEF DrillInit
    <3>1. DrillShape /\ DrillFacts(st.answers, st.restored, st.at, st.checks, st.drills, st.receipts)
      BY DEF DrillShape, DrillFacts
    <3> QED BY <2>3, <3>1 DEF DrillInit, HealthInv, PulseInv, RestoreInv, DrillInv
  <2> QED BY <2>1, <2>2, <2>3 DEF HealthInit
<1>2. HealthInv /\ [Next]_frame => HealthInv'
  <2> SUFFICES ASSUME HealthInv, [Next]_frame PROVE HealthInv'
    OBVIOUS
  <2>1. CASE HealthNext
    BY <2>1, PulseStep, RestoreStep, DrillKeepsFacts DEF HealthInv
  <2>2. CASE UNCHANGED frame
    BY <2>2 DEF frame, HealthInv, PulseInv, RestoreInv, DrillInv, DrillShape
  <2>3. CASE UNCHANGED subject /\ subject \notin HealthCalls
    BY <2>3 DEF HealthCalls, HealthInv, PulseInv, RestoreInv, DrillInv
  <2> QED BY <2>1, <2>2, <2>3, CallsAreApart
<1>3. HealthInv => HealthWitnessed
  BY DEF HealthInv, PulseInv, RestoreInv, DrillInv, DrillFacts, HealthWitnessed, LitCellIsRecent,
         ReceiptIsThisRestore, DrillPassIsComplete
<1> QED BY <1>1, <1>2, <1>3, PTL DEF Spec
-----------------------------------------------------------------------------
(***************************************************************************)
(* The store's facade: the local store.  Rot is the only way for an object *)
(* to be anything but absent or good, and nothing removes an object; a     *)
(* sweep has failed what had rotted when it began among what it has seen.  *)
(***************************************************************************)
LocalShape ==
    st = [objects |-> st.objects, descriptors |-> st.descriptors, acked |-> st.acked,
          rotted |-> st.rotted, got |-> st.got, told |-> st.told, sweep |-> st.sweep,
          reports |-> st.reports, events |-> st.events]

ObjectFacts(objects, acked, rotted) ==
    /\ objects \in [StoreDigests -> {"absent", "good", "rotten"}]
    /\ acked \subseteq StoreDigests /\ rotted \subseteq StoreDigests
    /\ \A d \in acked : objects[d] # "absent"
    /\ \A d \in StoreDigests : objects[d] = "rotten" <=> d \in rotted

SweepShape(s) ==
    s = [next |-> s.next, checked |-> s.checked, passed |-> s.passed, failed |-> s.failed,
         rotten |-> s.rotten]

SweepFacts(s, rotted) ==
    /\ SweepShape(s)
    /\ s.next \in 1 .. 3 /\ s.checked \in Nat /\ s.passed \in Nat
    /\ s.failed \subseteq 1 .. s.next - 1 /\ s.failed \subseteq rotted
    /\ s.rotten \subseteq rotted
    /\ \A d \in s.rotten : d < s.next => d \in s.failed
    /\ IsFiniteSet(s.failed) /\ s.checked = s.passed + Cardinality(s.failed)

ReportFacts(r, rotted) ==
    /\ r.rotten \subseteq r.failed /\ r.failed \subseteq rotted
    /\ r.checked = r.passed + Cardinality(r.failed)

LocalInv ==
    subject = "local" =>
        /\ LocalShape
        /\ ObjectFacts(st.objects, st.acked, st.rotted)
        /\ \A g \in st.got : g.is = "bytes" => ~g.rotted
        /\ \A s \in st.sweep : SweepFacts(s, st.rotted)
        /\ \A r \in st.reports : ReportFacts(r, st.rotted)

\* What a sweep found stays true while more rots.
LEMMA MoreRot ==
    ASSUME NEW a, NEW b, a \subseteq b
    PROVE  /\ \A s : SweepFacts(s, a) => SweepFacts(s, b)
           /\ \A r : ReportFacts(r, a) => ReportFacts(r, b)
  BY DEF SweepFacts, ReportFacts

\* Every step at the local store keeps its answers true of the bytes.
LEMMA LocalStep == ASSUME LocalInv, subject = "local", LocalNext PROVE LocalInv'
<1>a. LocalShape
  BY DEF LocalInv
<1>b. ObjectFacts(st.objects, st.acked, st.rotted)
  BY DEF LocalInv
<1>1. ASSUME Put PROVE LocalInv'
  <2> PICK d \in StoreDigests :
        StoreEvent([st EXCEPT !.acked = @ \cup {d},
            !.objects[d]     = IF @ = "absent" THEN "good" ELSE @,
            !.descriptors[d] = IF st.objects[d] = "absent" THEN "good" ELSE @])
    BY <1>1, Zenon DEF Put
  <2> PICK obj, dsc :
        /\ obj = [st.objects EXCEPT ![d] = IF st.objects[d] = "absent" THEN "good"
                                           ELSE st.objects[d]]
        /\ dsc = [st.descriptors EXCEPT ![d] = IF st.objects[d] = "absent" THEN "good"
                                               ELSE st.descriptors[d]]
    OBVIOUS
  <2>a. st' = [st EXCEPT !.acked = @ \cup {d}, !.objects = obj, !.descriptors = dsc,
                         !.events = @ + 1]
        /\ UNCHANGED subject
    BY DEF StoreEvent, Step
  <2>1. /\ st'.objects = obj /\ st'.acked = st.acked \cup {d} /\ st'.rotted = st.rotted
        /\ st'.got = st.got /\ st'.sweep = st.sweep /\ st'.reports = st.reports /\ LocalShape'
    BY <1>a, <2>a DEF LocalShape
  <2>2. ObjectFacts(obj, st.acked \cup {d}, st.rotted)
    BY <1>b DEF ObjectFacts
  <2> QED BY <2>1, <2>2, <2>a DEF LocalInv
<1>2. ASSUME Rot PROVE LocalInv'
  <2> PICK d \in StoreDigests :
        /\ st.objects[d] = "good"
        /\ \/ StoreEvent([st EXCEPT !.objects[d] = "rotten", !.rotted = @ \cup {d}])
           \/ StoreEvent([st EXCEPT !.descriptors[d] = "broken"])
    BY <1>2 DEF Rot
  <2>1. CASE StoreEvent([st EXCEPT !.objects[d] = "rotten", !.rotted = @ \cup {d}])
    <3> PICK obj : /\ obj = [st.objects EXCEPT ![d] = "rotten"]
                   /\ st' = [st EXCEPT !.objects = obj, !.rotted = @ \cup {d}, !.events = @ + 1]
                   /\ UNCHANGED subject
      BY <2>1 DEF StoreEvent, Step
    <3>1. /\ st'.objects = obj /\ st'.acked = st.acked /\ st'.rotted = st.rotted \cup {d}
          /\ st'.got = st.got /\ st'.sweep = st.sweep /\ st'.reports = st.reports /\ LocalShape'
      BY <1>a DEF LocalShape
    <3>2. ObjectFacts(obj, st.acked, st.rotted \cup {d})
      BY <1>b DEF ObjectFacts
    <3>3. st.rotted \subseteq st.rotted \cup {d}
      OBVIOUS
    <3> QED BY <3>1, <3>2, <3>3, MoreRot DEF LocalInv
  <2>2. CASE StoreEvent([st EXCEPT !.descriptors[d] = "broken"])
    <3> PICK dsc : /\ st' = [st EXCEPT !.descriptors = dsc, !.events = @ + 1]
                   /\ UNCHANGED subject
      BY <2>2 DEF StoreEvent, Step
    <3>1. /\ st'.objects = st.objects /\ st'.acked = st.acked /\ st'.rotted = st.rotted
          /\ st'.got = st.got /\ st'.sweep = st.sweep /\ st'.reports = st.reports /\ LocalShape'
      BY <1>a DEF LocalShape
    <3> QED BY <3>1 DEF LocalInv
  <2> QED BY <2>1, <2>2
<1>3. ASSUME Get PROVE LocalInv'
  <2> PICK d, g :
        /\ d \in StoreDigests /\ g = [of |-> d, is |-> GetAnswer(d), rotted |-> d \in st.rotted]
        /\ st' = [st EXCEPT !.got = @ \cup {g}, !.events = @ + 1]
        /\ UNCHANGED subject
    BY <1>3, Zenon DEF Get, StoreEvent, Step
  <2>1. g.is = "bytes" => ~g.rotted
    <3>1. GetAnswer(d) = "bytes" => d \notin st.rotted
      BY <1>b DEF GetAnswer, ObjectFacts
    <3>2. g.is = GetAnswer(d) /\ g.rotted = (d \in st.rotted)
      BY Zenon
    <3> QED BY <3>1, <3>2, Zenon
  <2>2. /\ st'.objects = st.objects /\ st'.acked = st.acked /\ st'.rotted = st.rotted
        /\ st'.got = st.got \cup {g} /\ st'.sweep = st.sweep /\ st'.reports = st.reports
        /\ LocalShape'
    BY <1>a DEF LocalShape
  <2> QED BY <2>1, <2>2 DEF LocalInv
<1>4. ASSUME ReadDescriptor PROVE LocalInv'
  <2> PICK told : /\ st' = [st EXCEPT !.told = told, !.events = @ + 1]
                  /\ UNCHANGED subject
    BY <1>4 DEF ReadDescriptor, StoreEvent, Step
  <2>1. /\ st'.objects = st.objects /\ st'.acked = st.acked /\ st'.rotted = st.rotted
        /\ st'.got = st.got /\ st'.sweep = st.sweep /\ st'.reports = st.reports /\ LocalShape'
    BY <1>a DEF LocalShape
  <2> QED BY <2>1 DEF LocalInv
<1>5. ASSUME SweepStart PROVE LocalInv'
  <2> PICK s : /\ s = [next |-> 1, checked |-> 0, passed |-> 0, failed |-> {},
                       rotten |-> st.rotted]
               /\ st' = [st EXCEPT !.sweep = {s}, !.events = @ + 1]
               /\ UNCHANGED subject
    BY <1>5 DEF SweepStart, StoreEvent, Step
  <2>1. SweepFacts(s, st.rotted)
    BY <1>b, FS_EmptySet DEF SweepFacts, SweepShape, ObjectFacts, StoreDigests
  <2>2. /\ st'.objects = st.objects /\ st'.acked = st.acked /\ st'.rotted = st.rotted
        /\ st'.got = st.got /\ st'.sweep = {s} /\ st'.reports = st.reports /\ LocalShape'
    BY <1>a DEF LocalShape
  <2> QED BY <2>1, <2>2 DEF LocalInv
<1>6. ASSUME SweepVisit PROVE LocalInv'
  <2> DEFINE seen(s)  == [s EXCEPT !.next = @ + 1, !.checked = @ + 1]
             after(s) == IF ~Has(s.next) THEN [s EXCEPT !.next = @ + 1]
                         ELSE IF Sound(s.next) THEN [seen(s) EXCEPT !.passed = @ + 1]
                         ELSE [seen(s) EXCEPT !.failed = @ \cup {s.next}]
  <2>b. PICK s \in st.sweep :
        s.next \in StoreDigests /\ StoreEvent([st EXCEPT !.sweep = {after(s)}])
    BY <1>6, Zenon DEF SweepVisit
  <2>c. PICK t : t = after(s)
    OBVIOUS
  <2>d. s.next \in StoreDigests /\ st.rotted \subseteq StoreDigests
    BY <1>b, <2>b DEF ObjectFacts
  <2>a. st' = [st EXCEPT !.sweep = {t}, !.events = @ + 1] /\ UNCHANGED subject
    BY <2>b, <2>c DEF StoreEvent, Step
  <2>1. SweepFacts(s, st.rotted)
    BY DEF LocalInv
  <2>2. s.next \notin s.failed
    BY <2>1 DEF SweepFacts
  <2>3. SweepFacts(t, st.rotted)
    <3>a. SweepShape(s) /\ Cardinality(s.failed) \in Nat
      BY <2>1, FS_CardinalityType DEF SweepFacts
    <3>1. CASE ~Has(s.next)
      <4>1. s.next \notin st.rotted
        BY <1>b, <2>d, <3>1 DEF Has, ObjectFacts
      <4>2. /\ t.next = s.next + 1 /\ t.checked = s.checked /\ t.passed = s.passed
            /\ t.failed = s.failed /\ t.rotten = s.rotten /\ SweepShape(t)
        BY <2>c, <3>1, <3>a DEF SweepShape
      <4> QED BY <2>1, <2>d, <3>a, <4>1, <4>2 DEF SweepFacts, StoreDigests
    <3>2. CASE Has(s.next) /\ Sound(s.next)
      <4>1. s.next \notin st.rotted
        BY <1>b, <2>d, <3>2 DEF Sound, ObjectFacts
      <4>2. /\ t.next = s.next + 1 /\ t.checked = s.checked + 1 /\ t.passed = s.passed + 1
            /\ t.failed = s.failed /\ t.rotten = s.rotten /\ SweepShape(t)
        BY <2>c, <3>2, <3>a DEF SweepShape
      <4> QED BY <2>1, <2>d, <3>a, <4>1, <4>2 DEF SweepFacts, StoreDigests
    <3>3. CASE Has(s.next) /\ ~Sound(s.next)
      <4>1. s.next \in st.rotted
        BY <1>b, <2>d, <3>3 DEF Has, Sound, ObjectFacts
      <4>2. /\ t.next = s.next + 1 /\ t.checked = s.checked + 1 /\ t.passed = s.passed
            /\ t.failed = s.failed \cup {s.next} /\ t.rotten = s.rotten /\ SweepShape(t)
        BY <2>c, <3>3, <3>a DEF SweepShape
      <4>3. /\ IsFiniteSet(t.failed)
            /\ Cardinality(t.failed) = Cardinality(s.failed) + 1
        BY <2>1, <2>2, <4>2, FS_AddElement DEF SweepFacts
      <4> QED BY <2>1, <2>d, <3>a, <4>1, <4>2, <4>3 DEF SweepFacts, StoreDigests
    <3> QED BY <3>1, <3>2, <3>3
  <2>4. /\ st'.objects = st.objects /\ st'.acked = st.acked /\ st'.rotted = st.rotted
        /\ st'.got = st.got /\ st'.sweep = {t} /\ st'.reports = st.reports /\ LocalShape'
    BY <1>a, <2>a DEF LocalShape
  <2> QED BY <2>3, <2>4, <2>a DEF LocalInv
<1>7. ASSUME SweepReport PROVE LocalInv'
  <2> PICK s \in st.sweep : /\ s.next \notin StoreDigests
                            /\ st' = [st EXCEPT !.sweep = {}, !.reports = {s}, !.events = @ + 1]
                            /\ UNCHANGED subject
    BY <1>7 DEF SweepReport, StoreEvent, Step
  <2>1. ReportFacts(s, st.rotted)
    <3>1. s.next = 3 /\ SweepFacts(s, st.rotted)
      BY DEF LocalInv, SweepFacts, StoreDigests
    <3>2. \A d \in st.rotted : d \in 1 .. 2
      BY <1>b DEF ObjectFacts, StoreDigests
    <3> QED BY <3>1, <3>2 DEF SweepFacts, ReportFacts
  <2>2. /\ st'.objects = st.objects /\ st'.acked = st.acked /\ st'.rotted = st.rotted
        /\ st'.got = st.got /\ st'.sweep = {} /\ st'.reports = {s} /\ LocalShape'
    BY <1>a DEF LocalShape
  <2> QED BY <2>1, <2>2 DEF LocalInv
<1> QED BY <1>1, <1>2, <1>3, <1>4, <1>5, <1>6, <1>7 DEF LocalNext
-----------------------------------------------------------------------------
(***************************************************************************)
(* The store's facade: the T7 store, capacity, and receipts.               *)
(***************************************************************************)
T7Inv ==
    subject = "t7store" =>
        /\ st = [volume |-> st.volume, made |-> st.made, answers |-> st.answers]
        /\ \A a \in st.answers : a.is = "WAIT_STORAGE"

\* Every step at the T7 store keeps it from answering over a foreign volume.
LEMMA T7Step == ASSUME T7Inv, subject = "t7store", T7StoreNext PROVE T7Inv'
<1>1. ASSUME ExchangeVolume PROVE T7Inv'
  BY <1>1 DEF ExchangeVolume, Step, T7Inv
<1>2. ASSUME MakeT7Store PROVE T7Inv'
  BY <1>2 DEF MakeT7Store, Step, T7Inv
<1>3. ASSUME CallT7 PROVE T7Inv'
  <2> PICK op, a : /\ a = [op |-> op, is |-> "WAIT_STORAGE", volume |-> st.volume]
                   /\ st' = [st EXCEPT !.answers = {a}]
                   /\ UNCHANGED subject
    BY <1>3 DEF CallT7, T7Answer, Step
  <2>1. a.is = "WAIT_STORAGE"
    OBVIOUS
  <2> QED BY <2>1 DEF T7Inv
<1> QED BY <1>1, <1>2, <1>3 DEF T7StoreNext

CapacityShape == st = [used |-> st.used, size |-> st.size, decisions |-> st.decisions]

\* At most one object is written past the ceiling, and the decision before it, if
\* objects fit into the review band, was to ask.
CapacityFacts(used, size, decisions) ==
    /\ used \in Nat /\ size \in Nat
    /\ decisions \in Seq({"review_required", "warning", "ok"})
    /\ used < HardCeiling + size
    /\ used >= HardCeiling /\ size <= 5 * Gib =>
           \E i \in DOMAIN decisions : decisions[i] = "review_required"

CapacityInv ==
    subject = "capacity" => CapacityShape /\ CapacityFacts(st.used, st.size, st.decisions)

\* A write that the bands allow keeps the ceiling.
LEMMA CapacityStep == ASSUME CapacityInv, subject = "capacity", WriteIfAllowed PROVE CapacityInv'
<1> USE FacadeAssumption
<1>1. CapacityShape /\ CapacityFacts(st.used, st.size, st.decisions)
  BY DEF CapacityInv
<1>2. PICK d : /\ d = CheckCapacity(st.used) /\ d # "exceeded"
               /\ st' = [st EXCEPT !.used = @ + st.size, !.decisions = Append(@, d)]
               /\ UNCHANGED subject
  BY DEF WriteIfAllowed, Step
<1>3. /\ st'.used = st.used + st.size /\ st'.size = st.size
      /\ st'.decisions = Append(st.decisions, d) /\ CapacityShape'
  BY <1>1, <1>2 DEF CapacityShape
<1>4. /\ st.used < HardCeiling /\ d \in {"review_required", "warning", "ok"}
      /\ st.used >= Review => d = "review_required"
  BY <1>1, <1>2 DEF CheckCapacity, HardCeiling, Review, CapacityFacts
<1>5. CapacityFacts(st.used + st.size, st.size, Append(st.decisions, d))
  <2>1. /\ st.used + st.size \in Nat /\ Append(st.decisions, d) \in Seq({"review_required", "warning", "ok"})
        /\ st.used + st.size < HardCeiling + st.size
    BY <1>1, <1>4 DEF CapacityFacts, HardCeiling
  <2>2. ASSUME st.used + st.size >= HardCeiling, st.size <= 5 * Gib PROVE st.used >= Review
    BY <1>1, <2>2 DEF CapacityFacts, HardCeiling, Review
  <2>3. LET ds == Append(st.decisions, d)
        IN  Len(st.decisions) + 1 \in DOMAIN ds /\ ds[Len(st.decisions) + 1] = d
    BY <1>1 DEF CapacityFacts
  <2> QED BY <1>1, <1>4, <2>1, <2>2, <2>3 DEF CapacityFacts
<1> QED BY <1>2, <1>3, <1>5 DEF CapacityInv

DescriptorInv ==
    subject = "descriptor" =>
        /\ st = [receipt |-> st.receipt, named |-> st.named, altered |-> st.altered,
                 verdict |-> st.verdict]
        /\ \A v \in st.verdict : v.bound => <<v.of.fields>> = st.named

\* Editing and judging a receipt keep bound receipts what was written.
LEMMA DescriptorStep ==
    ASSUME DescriptorInv, subject = "descriptor", EditReceipt \/ JudgeReceipt PROVE DescriptorInv'
<1>1. ASSUME EditReceipt PROVE DescriptorInv'
  BY <1>1 DEF EditReceipt, Step, DescriptorInv
<1>2. ASSUME JudgeReceipt PROVE DescriptorInv'
  <2> PICK v : /\ v = [valid |-> ValidateReceipt(st.receipt), bound |-> Bound(st.receipt),
                       of |-> st.receipt]
               /\ st' = [st EXCEPT !.verdict = {v}]
               /\ UNCHANGED subject
    BY <1>2, Zenon DEF JudgeReceipt, Step
  <2>1. v.of = st.receipt /\ v.bound = Bound(st.receipt)
    BY Zenon
  <2>2. Bound(st.receipt) => <<st.receipt.fields>> = st.named
    BY DEF Bound, CanonicalReceiptId
  <2>3. v.bound => <<v.of.fields>> = st.named
    BY <2>1, <2>2, Zenon
  <2> QED BY <2>3 DEF DescriptorInv
<1> QED BY <1>1, <1>2

FacadeInv == LocalInv /\ T7Inv /\ CapacityInv /\ DescriptorInv

\* What the store's facade answers is true of the bytes: get hands out only sound
\* bytes and every object a put answered for that the media kept, a finished sweep
\* names all rot that was there when it began and no sound object, nothing comes
\* from an exchanged volume, the ceiling is passed by one object at most, and a
\* receipt that is bound says what was written (cas/store.py, cas/capacity.py,
\* cas/descriptors.py).
THEOREM StoreIsHonest == Spec => []StoreAnswersHonestly
<1>1. Init => FacadeInv
  <2> SUFFICES ASSUME FacadeInit PROVE FacadeInv
    BY CallsAreApart DEF FacadeInv, LocalInv, T7Inv, CapacityInv, DescriptorInv, FacadeCalls
  <2>1. CASE LocalInit
    <3>1. LocalShape /\ ObjectFacts(st.objects, st.acked, st.rotted)
          /\ st.got = {} /\ st.sweep = {} /\ st.reports = {}
      BY <2>1 DEF LocalInit, LocalShape, ObjectFacts
    <3> QED BY <2>1, <3>1 DEF LocalInit, FacadeInv, LocalInv, T7Inv, CapacityInv, DescriptorInv
  <2>2. CASE T7StoreInit
    BY <2>2 DEF T7StoreInit, FacadeInv, LocalInv, T7Inv, CapacityInv, DescriptorInv
  <2>3. CASE CapacityInit
    <3>1. CapacityShape /\ CapacityFacts(st.used, st.size, st.decisions)
      BY <2>3, FacadeAssumption DEF CapacityInit, CapacityShape, CapacityFacts, HardCeiling
    <3> QED BY <2>3, <3>1 DEF CapacityInit, FacadeInv, LocalInv, T7Inv, CapacityInv, DescriptorInv
  <2>4. CASE DescriptorInit
    BY <2>4 DEF DescriptorInit, FacadeInv, LocalInv, T7Inv, CapacityInv, DescriptorInv
  <2> QED BY <2>1, <2>2, <2>3, <2>4 DEF FacadeInit
<1>2. FacadeInv /\ [Next]_frame => FacadeInv'
  <2> SUFFICES ASSUME FacadeInv, [Next]_frame PROVE FacadeInv'
    OBVIOUS
  <2>1. CASE FacadeNext
    <3>1. ASSUME subject = "local", LocalNext PROVE FacadeInv'
      BY <3>1, <2>1, LocalStep, FacadeApart DEF FacadeInv, T7Inv, CapacityInv, DescriptorInv
    <3>2. ASSUME subject = "t7store", T7StoreNext PROVE FacadeInv'
      BY <3>2, <2>1, T7Step, FacadeApart DEF FacadeInv, LocalInv, CapacityInv, DescriptorInv
    <3>3. ASSUME subject = "capacity", WriteIfAllowed PROVE FacadeInv'
      BY <3>3, <2>1, CapacityStep, FacadeApart DEF FacadeInv, LocalInv, T7Inv, DescriptorInv
    <3>4. ASSUME subject = "descriptor", EditReceipt \/ JudgeReceipt PROVE FacadeInv'
      BY <3>4, <2>1, DescriptorStep, FacadeApart DEF FacadeInv, LocalInv, T7Inv, CapacityInv
    <3> QED BY <2>1, <3>1, <3>2, <3>3, <3>4 DEF FacadeNext, LocalNext, T7StoreNext
  <2>2. CASE UNCHANGED frame
    BY <2>2 DEF frame, FacadeInv, LocalInv, LocalShape, T7Inv, CapacityInv, CapacityShape,
                DescriptorInv
  <2>3. CASE UNCHANGED subject /\ subject \notin FacadeCalls
    BY <2>3 DEF FacadeCalls, FacadeInv, LocalInv, T7Inv, CapacityInv, DescriptorInv
  <2> QED BY <2>1, <2>2, <2>3, CallsAreApart
<1>3. FacadeInv => StoreAnswersHonestly
  <2> SUFFICES ASSUME FacadeInv PROVE StoreAnswersHonestly
    OBVIOUS
  <2>1. GetIsHonest
    BY DEF FacadeInv, LocalInv, ObjectFacts, GetIsHonest, GetAnswer, Has
  <2>2. SweepCatchesOldRot
    BY DEF FacadeInv, LocalInv, ReportFacts, SweepCatchesOldRot
  <2>3. NothingFromForeignVolume
    BY DEF FacadeInv, T7Inv, NothingFromForeignVolume
  <2>4. CeilingHolds
    BY DEF FacadeInv, CapacityInv, CapacityFacts, CeilingHolds
  <2>5. ReceiptIdBinds
    BY DEF FacadeInv, DescriptorInv, ReceiptIdBinds
  <2> QED BY <2>1, <2>2, <2>3, <2>4, <2>5 DEF StoreAnswersHonestly
<1> QED BY <1>1, <1>2, <1>3, PTL DEF Spec
-----------------------------------------------------------------------------
(***************************************************************************)
(* Front ends: the solo session.  A submission that has written its        *)
(* session and not its result is the one the session is of.                *)
(***************************************************************************)
SoloShape ==
    st = [head |-> st.head, steps |-> st.steps, computes |-> st.computes, session |-> st.session,
          result |-> st.result, submit |-> st.submit, torn |-> st.torn, reads |-> st.reads,
          answers |-> st.answers, replays |-> st.replays]

SoloFacts(session, result, submit, torn) ==
    /\ \A s \in submit : s.pc = "result" => session = {s.head}
    /\ torn \in BOOLEAN
    /\ torn = FALSE => \A s \in session, r \in result : s = r

\* What a caller of an undisturbed directory has read, and has still to read.
ReadFacts(q, session, torn) ==
    /\ q = [use |-> q.use, session |-> q.session, result |-> q.result, whole |-> q.whole]
    /\ q.whole \in BOOLEAN
    /\ q.whole = TRUE => /\ q.result = {} => torn = FALSE /\ q.session \in session
                         /\ \A r \in q.result : r = q.session

AnswerFacts(a) == a.session = a.at /\ (a.whole => a.result = a.session)
ReplayFacts(r) == r.whole => r.is = "REPLAY_MATCH"

SoloInv ==
    subject = "solo" =>
        /\ SoloShape
        /\ SoloFacts(st.session, st.result, st.submit, st.torn)
        /\ \A q \in st.reads : ReadFacts(q, st.session, st.torn)
        /\ \A a \in st.answers : AnswerFacts(a)
        /\ \A r \in st.replays : ReplayFacts(r)

\* A write of the directory leaves a caller who has read the result alone.
LEMMA DisturbedFacts ==
    ASSUME NEW reads, NEW session, NEW torn, NEW session2, NEW torn2,
           \A q \in reads : ReadFacts(q, session, torn)
    PROVE  \A q \in Disturbed(reads) : ReadFacts(q, session2, torn2)
<1> SUFFICES ASSUME NEW q \in reads PROVE ReadFacts([q EXCEPT !.whole = @ /\ q.result # {}], session2, torn2)
  BY DEF Disturbed
<1>1. q = [use |-> q.use, session |-> q.session, result |-> q.result, whole |-> q.whole]
  BY DEF ReadFacts
<1>2. PICK d : d = [q EXCEPT !.whole = @ /\ q.result # {}]
  OBVIOUS
<1>3. /\ d.use = q.use /\ d.session = q.session /\ d.result = q.result
      /\ d.whole = (q.whole /\ q.result # {})
      /\ d = [use |-> d.use, session |-> d.session, result |-> d.result, whole |-> d.whole]
  BY <1>1, <1>2
<1>4. d.whole \in BOOLEAN
  BY <1>3
<1>5. d.whole = TRUE => q.whole = TRUE /\ q.result # {}
  BY <1>3 DEF ReadFacts
<1> QED BY <1>2, <1>3, <1>4, <1>5 DEF ReadFacts

\* Every step of a session keeps its answers about the checkout at hand.
LEMMA SoloKeeps == ASSUME SoloInv, subject = "solo", SoloNext PROVE SoloInv'
<1>a. SoloShape /\ SoloFacts(st.session, st.result, st.submit, st.torn)
  BY DEF SoloInv
<1>b. \A q \in st.reads : ReadFacts(q, st.session, st.torn)
  BY DEF SoloInv
<1>1. ASSUME CheckOutOther PROVE SoloInv'
  <2> PICK h : st' = [st EXCEPT !.head = h, !.steps = @ + 1] /\ UNCHANGED subject
    BY <1>1 DEF CheckOutOther, SoloStep, Step
  <2>1. /\ st'.session = st.session /\ st'.result = st.result /\ st'.submit = st.submit
        /\ st'.torn = st.torn /\ st'.answers = st.answers /\ st'.replays = st.replays
        /\ st'.reads = st.reads /\ SoloShape'
    BY <1>a DEF SoloShape
  <2> QED BY <2>1 DEF SoloInv
<1>2. ASSUME SubmitStart PROVE SoloInv'
  <2> PICK s : /\ s = [head |-> st.head, pc |-> "session"]
               /\ st' = [st EXCEPT !.submit = {s}, !.steps = @ + 1] /\ UNCHANGED subject
    BY <1>2 DEF SubmitStart, SoloStep, Step
  <2>1. s.pc = "session"
    OBVIOUS
  <2>2. /\ st'.session = st.session /\ st'.result = st.result /\ st'.submit = {s}
        /\ st'.torn = st.torn /\ st'.answers = st.answers /\ st'.replays = st.replays
        /\ st'.reads = st.reads /\ SoloShape'
    BY <1>a DEF SoloShape
  <2>3. SoloFacts(st.session, st.result, {s}, st.torn)
    BY <1>a, <2>1 DEF SoloFacts
  <2> QED BY <2>2, <2>3 DEF SoloInv
<1>3. ASSUME SubmitWriteSession PROVE SoloInv'
  <2> PICK s, t :
        /\ s \in st.submit /\ t = [s EXCEPT !.pc = "result"]
        /\ st' = [st EXCEPT !.session = {s.head}, !.torn = TRUE, !.reads = Disturbed(st.reads),
                            !.submit = {t}, !.steps = @ + 1]
        /\ UNCHANGED subject
    BY <1>3 DEF SubmitWriteSession, SoloStep, Step
  <2>1. t.head = s.head
    OBVIOUS
  <2>2. /\ st'.session = {s.head} /\ st'.result = st.result /\ st'.submit = {t}
        /\ st'.torn = TRUE /\ st'.answers = st.answers /\ st'.replays = st.replays
        /\ st'.reads = Disturbed(st.reads) /\ SoloShape'
    BY <1>a DEF SoloShape
  <2>3. SoloFacts({s.head}, st.result, {t}, TRUE)
    BY <1>a, <2>1 DEF SoloFacts
  <2>4. \A q \in Disturbed(st.reads) : ReadFacts(q, {s.head}, TRUE)
    BY <1>b, DisturbedFacts
  <2> QED BY <2>2, <2>3, <2>4 DEF SoloInv
<1>4. ASSUME SubmitWriteResult PROVE SoloInv'
  <2> PICK s \in st.submit :
        /\ s.pc = "result"
        /\ st' = [st EXCEPT !.result = {s.head}, !.torn = FALSE, !.reads = Disturbed(st.reads),
                            !.submit = {}, !.steps = @ + 1]
        /\ UNCHANGED subject
    BY <1>4 DEF SubmitWriteResult, SoloStep, Step
  <2>1. /\ st'.session = st.session /\ st'.result = {s.head} /\ st'.submit = {}
        /\ st'.torn = FALSE /\ st'.answers = st.answers /\ st'.replays = st.replays
        /\ st'.reads = Disturbed(st.reads) /\ SoloShape'
    BY <1>a DEF SoloShape
  <2>2. SoloFacts(st.session, {s.head}, {}, FALSE)
    BY <1>a DEF SoloFacts
  <2>3. \A q \in Disturbed(st.reads) : ReadFacts(q, st.session, FALSE)
    BY <1>b, DisturbedFacts
  <2> QED BY <2>1, <2>2, <2>3 DEF SoloInv
<1>5. ASSUME SubmitKilled PROVE SoloInv'
  <2>1. st' = [st EXCEPT !.submit = {}, !.steps = @ + 1] /\ UNCHANGED subject
    BY <1>5 DEF SubmitKilled, SoloStep, Step
  <2>2. /\ st'.session = st.session /\ st'.result = st.result /\ st'.submit = {}
        /\ st'.torn = st.torn /\ st'.answers = st.answers /\ st'.replays = st.replays
        /\ st'.reads = st.reads /\ SoloShape'
    BY <1>a, <2>1 DEF SoloShape
  <2>3. SoloFacts(st.session, st.result, {}, st.torn)
    BY <1>a DEF SoloFacts
  <2> QED BY <2>1, <2>2, <2>3 DEF SoloInv
<1>6. ASSUME NEW new, \A q \in new : ReadFacts(q, st.session, st.torn),
             st' = [st EXCEPT !.reads = new], UNCHANGED subject
      PROVE  SoloInv'
  <2>1. /\ st'.session = st.session /\ st'.result = st.result /\ st'.submit = st.submit
        /\ st'.torn = st.torn /\ st'.answers = st.answers /\ st'.replays = st.replays
        /\ st'.reads = new /\ SoloShape'
    BY <1>a, <1>6 DEF SoloShape
  <2> QED BY <1>6, <2>1 DEF SoloInv
<1>7. ASSUME NEW use, ReadSession(use) PROVE SoloInv'
  <2> PICK s, q :
        /\ s \in st.session /\ q = [use |-> use, session |-> s, result |-> {}, whole |-> ~st.torn]
        /\ st' = [st EXCEPT !.reads = {q}] /\ UNCHANGED subject
    BY <1>7 DEF ReadSession, Step
  <2>1. /\ q.session = s /\ q.result = {} /\ q.whole = ~st.torn
        /\ q = [use |-> q.use, session |-> q.session, result |-> q.result, whole |-> q.whole]
    OBVIOUS
  <2>2. ReadFacts(q, st.session, st.torn)
    BY <1>a, <2>1 DEF ReadFacts, SoloFacts
  <2> QED BY <1>6, <2>2
<1>8. ASSUME ReadResult PROVE SoloInv'
  <2> PICK q \in st.reads :
        /\ q.result = {}
        /\ st' = [st EXCEPT !.reads = IF st.result = {} THEN {} ELSE {[q EXCEPT !.result = st.result]}]
        /\ UNCHANGED subject
    BY <1>8 DEF ReadResult, Step
  <2>1. CASE st.result = {}
    BY <1>6, <2>1
  <2>2. CASE st.result # {}
    <3> PICK d : d = [q EXCEPT !.result = st.result]
      OBVIOUS
    <3>1. q = [use |-> q.use, session |-> q.session, result |-> q.result, whole |-> q.whole]
      BY <1>b DEF ReadFacts
    <3>2. /\ d.session = q.session /\ d.result = st.result /\ d.whole = q.whole
          /\ d = [use |-> d.use, session |-> d.session, result |-> d.result, whole |-> d.whole]
      BY <3>1
    <3>3. ReadFacts(d, st.session, st.torn)
      BY <1>a, <1>b, <2>2, <3>2 DEF ReadFacts, SoloFacts
    <3>4. st' = [st EXCEPT !.reads = {d}]
      BY <2>2
    <3> QED BY <1>6, <3>3, <3>4
  <2> QED BY <2>1, <2>2
<1>9. ASSUME SoloStale PROVE SoloInv'
  <2> PICK none : none = {}
    OBVIOUS
  <2>1. st' = [st EXCEPT !.reads = none] /\ UNCHANGED subject
    BY <1>9 DEF SoloStale, Step
  <2>2. \A q \in none : ReadFacts(q, st.session, st.torn)
    OBVIOUS
  <2> QED BY <1>6, <2>1, <2>2
<1>10. ASSUME SoloAnswer PROVE SoloInv'
  <2> PICK q, r, a :
        /\ q \in st.reads /\ r \in q.result /\ q.session = st.head
        /\ a = [session |-> q.session, result |-> r, at |-> st.head, whole |-> q.whole]
        /\ st' = [st EXCEPT !.reads = {}, !.answers = {a}]
        /\ UNCHANGED subject
    BY <1>10 DEF SoloAnswer, Fresh, Step
  <2>1. a.session = q.session /\ a.result = r /\ a.at = st.head /\ a.whole = q.whole
    OBVIOUS
  <2>2. AnswerFacts(a)
    BY <1>b, <2>1 DEF ReadFacts, AnswerFacts
  <2>3. /\ st'.session = st.session /\ st'.result = st.result /\ st'.submit = st.submit
        /\ st'.torn = st.torn /\ st'.answers = {a} /\ st'.replays = st.replays
        /\ st'.reads = {} /\ SoloShape'
    BY <1>a DEF SoloShape
  <2> QED BY <2>2, <2>3 DEF SoloInv
<1>11. ASSUME SoloReplay PROVE SoloInv'
  <2> PICK q, r, a :
        /\ q \in st.reads /\ r \in q.result /\ q.session = st.head
        /\ a = [whole |-> q.whole,
                is |-> IF ReplayMatches(r, st.head, st.computes)
                       THEN "REPLAY_MATCH" ELSE "REPLAY_MISMATCH"]
        /\ st' = [st EXCEPT !.reads = {}, !.replays = {a}]
        /\ UNCHANGED subject
    BY <1>11 DEF SoloReplay, Fresh, Step
  <2>1. q.whole = TRUE => r = st.head
    BY <1>b DEF ReadFacts
  <2>2. ReplayFacts(a)
    BY <1>b, <2>1 DEF ReplayMatches, ReplayFacts, ReadFacts
  <2>3. /\ st'.session = st.session /\ st'.result = st.result /\ st'.submit = st.submit
        /\ st'.torn = st.torn /\ st'.answers = st.answers /\ st'.replays = {a}
        /\ st'.reads = {} /\ SoloShape'
    BY <1>a DEF SoloShape
  <2> QED BY <2>2, <2>3 DEF SoloInv
<1> QED BY <1>1, <1>2, <1>3, <1>4, <1>5, <1>7, <1>8, <1>9, <1>10, <1>11 DEF SoloNext
-----------------------------------------------------------------------------
(***************************************************************************)
(* Front ends: orientation.  There is one manifest, and what has been used *)
(* so far is what it verified.                                             *)
(***************************************************************************)
OrientShape ==
    st = [files |-> st.files, edits |-> st.edits, script |-> st.script, manifest |-> st.manifest,
          next |-> st.next, raw |-> st.raw, used |-> st.used, status |-> st.status]

OrientFacts(manifest, next, used) ==
    /\ next \in Nat \ {0, 1}
    /\ (\E S : used \in Seq(S)) /\ Len(used) = next - 2
    /\ manifest = {} => used = <<>>
    /\ \A m, n \in manifest : m = n
    /\ \A i \in 1 .. next - 2, m \in manifest : used[i] = m[OrientOrder[i + 1]]

OrientInv ==
    subject = "orient" => OrientShape /\ OrientFacts(st.manifest, st.next, st.used)

\* Append, for a sequence over any set.
LEMMA AppendFacts ==
    ASSUME NEW S, NEW s \in Seq(S), NEW x
    PROVE  /\ Append(s, x) \in Seq(S \cup {x}) /\ Len(Append(s, x)) = Len(s) + 1
           /\ \A i \in 1 .. Len(s) : Append(s, x)[i] = s[i]
           /\ Append(s, x)[Len(s) + 1] = x
<1> DEFINE T == S \cup {x}
<1>1. S \subseteq T /\ x \in T
  OBVIOUS
<1> HIDE DEF T
<1>2. s \in Seq(T)
  BY <1>1
<1>3. /\ Append(s, x) \in Seq(T) /\ Len(Append(s, x)) = Len(s) + 1
      /\ \A i \in 1 .. Len(s) : Append(s, x)[i] = s[i]
      /\ Append(s, x)[Len(s) + 1] = x
  BY <1>1, <1>2
<1> QED BY <1>3 DEF T

\* What the manifest verified may be used.
LEMMA UsedGrows ==
    ASSUME NEW manifest, NEW next, NEW used, NEW m \in manifest, OrientFacts(manifest, next, used)
    PROVE  OrientFacts(manifest, next + 1, Append(used, m[OrientOrder[next]]))
<1>1. PICK S : used \in Seq(S)
  BY DEF OrientFacts
<1>2. next \in Nat \ {0, 1} /\ Len(used) = next - 2 /\ \A n \in manifest : n = m
  BY DEF OrientFacts
<1> DEFINE more == Append(used, m[OrientOrder[next]])
<1>3. /\ more \in Seq(S \cup {m[OrientOrder[next]]}) /\ Len(more) = next - 1
      /\ \A i \in 1 .. next - 2 : more[i] = used[i]
      /\ more[next - 1] = m[OrientOrder[next]]
  BY <1>1, <1>2, AppendFacts
<1> HIDE DEF more
<1>4. ASSUME NEW i \in 1 .. next - 1, NEW n \in manifest PROVE more[i] = n[OrientOrder[i + 1]]
  <2>1. CASE i = next - 1
    BY <1>2, <1>3, <2>1
  <2>2. CASE i \in 1 .. next - 2
    BY <1>3, <2>2 DEF OrientFacts
  <2> QED BY <1>2, <2>1, <2>2
<1>5. next + 1 \in Nat \ {0, 1} /\ Len(more) = (next + 1) - 2 /\ (next + 1) - 2 = next - 1
  BY <1>2, <1>3
<1> QED BY <1>3, <1>4, <1>5 DEF OrientFacts, more

\* Every step of an orientation keeps it at the verified contents.
LEMMA OrientKeeps == ASSUME OrientInv, subject = "orient", OrientNext PROVE OrientInv'
<1>a. OrientShape /\ OrientFacts(st.manifest, st.next, st.used)
  BY DEF OrientInv
<1>1. ASSUME NEW new, st' = new, UNCHANGED subject,
             \/ \E f, e : new = [st EXCEPT !.files = f, !.edits = e]
             \/ \E x : new = [st EXCEPT !.script = x]
             \/ \E x : new = [st EXCEPT !.raw = x]
             \/ \E x : new = [st EXCEPT !.status = x]
      PROVE  OrientInv'
  <2>1. /\ st'.manifest = st.manifest /\ st'.next = st.next /\ st'.used = st.used
        /\ OrientShape'
    BY <1>a, <1>1 DEF OrientShape
  <2> QED BY <1>1, <1>a, <2>1 DEF OrientInv
<1>2. ASSUME EditRepoFile PROVE OrientInv'
  <2> PICK f, v : st' = [st EXCEPT !.files[f] = v, !.edits = @ + 1] /\ UNCHANGED subject
    BY <1>2 DEF EditRepoFile, Step
  <2> PICK files : files = [st.files EXCEPT ![f] = v]
    OBVIOUS
  <2>1. st' = [st EXCEPT !.files = files, !.edits = st.edits + 1]
    OBVIOUS
  <2> QED BY <1>1, <2>1
<1>3. ASSUME ReadGateScript \/ Orient PROVE OrientInv'
  BY <1>1, <1>3 DEF ReadGateScript, Orient, Step
<1>4. ASSUME NEW cause, OrientFail(cause) PROVE OrientInv'
  BY <1>1, <1>4 DEF OrientFail, Step
<1>5. ASSUME RunGate PROVE OrientInv'
  <2>1. CASE st.manifest = {} /\ st' = [st EXCEPT !.manifest = {st.files}] /\ UNCHANGED subject
    <3>1. /\ st'.manifest = {st.files} /\ st'.next = st.next /\ st'.used = st.used
          /\ OrientShape'
      BY <1>a, <2>1 DEF OrientShape
    <3>2. st.used = <<>> /\ st.next = 2
      BY <1>a, <2>1 DEF OrientFacts
    <3>3. OrientFacts({st.files}, st.next, st.used)
      BY <1>a, <3>2 DEF OrientFacts
    <3> QED BY <2>1, <3>1, <3>3 DEF OrientInv
  <2>2. CASE OrientFail("gate did not PASS")
    BY <1>4, <2>2
  <2> QED BY <1>5, <2>1, <2>2 DEF RunGate, Step
<1>6. ASSUME ReadOnce PROVE OrientInv'
  BY <1>1, <1>4, <1>6 DEF ReadOnce, Step
<1>7. ASSUME ReadAgain PROVE OrientInv'
  <2> PICK raw \in st.raw, m \in st.manifest :
        \/ /\ Binds(raw, st.files[OrientOrder[st.next]], m[OrientOrder[st.next]])
           /\ st' = [st EXCEPT !.raw = {}, !.used = Append(@, raw), !.next = @ + 1]
           /\ UNCHANGED subject
        \/ OrientFail("changed after verification")
    BY <1>7 DEF ReadAgain, Step
  <2>1. CASE OrientFail("changed after verification")
    BY <1>4, <2>1
  <2>2. CASE /\ Binds(raw, st.files[OrientOrder[st.next]], m[OrientOrder[st.next]])
             /\ st' = [st EXCEPT !.raw = {}, !.used = Append(@, raw), !.next = @ + 1]
             /\ UNCHANGED subject
    <3>1. /\ st'.manifest = st.manifest /\ st'.next = st.next + 1
          /\ st'.used = Append(st.used, raw) /\ OrientShape'
      BY <1>a, <2>2 DEF OrientShape
    <3>2. raw = m[OrientOrder[st.next]]
      BY <2>2 DEF Binds
    <3>3. OrientFacts(st.manifest, st.next + 1, Append(st.used, raw))
      BY <1>a, <3>2, UsedGrows
    <3> QED BY <2>2, <3>1, <3>3 DEF OrientInv
  <2> QED BY <2>1, <2>2
<1> QED BY <1>2, <1>3, <1>5, <1>6, <1>7 DEF OrientNext
-----------------------------------------------------------------------------
(***************************************************************************)
(* Front ends: the MCP server.  While every header read so far was sound,  *)
(* no unread body is left in the stream, and the replies are in order for  *)
(* exactly the requests read.                                              *)
(***************************************************************************)
McpShape ==
    st = [stream |-> st.stream, cut |-> st.cut, at |-> st.at, left |-> st.left,
          initialized |-> st.initialized, replies |-> st.replies, done |-> st.done]

HeadersSound(stream, at) == \A i \in 1 .. at - 1 : stream[i].head = "ok"

Due(stream, cut, at) ==
    {i \in 1 .. at - 1 : IsRequest(stream[i]) /\ ~(cut /\ i = Len(stream))}

RepliesInOrder(replies, due) ==
    /\ \E S : replies \in Seq(S)
    /\ \A d \in due : \E i \in DOMAIN replies : replies[i].id = d
    /\ \A i \in DOMAIN replies : replies[i].id # 0 => replies[i].id \in due
    /\ \A i, j \in DOMAIN replies :
           i < j /\ replies[i].id # 0 /\ replies[j].id # 0 => replies[i].id < replies[j].id
    /\ \A i \in DOMAIN replies : replies[i].id = 0 => replies[i].code \in {"-32700", "-32600"}

McpFacts(stream, cut, at, left, replies) ==
    /\ at \in Nat \ {0}
    /\ Len(stream) \in Nat
    /\ \A i \in 1 .. Len(stream) : \A m, n \in stream[i].message : m = n
    /\ HeadersSound(stream, at) => left = FALSE /\ RepliesInOrder(replies, Due(stream, cut, at))

McpInv ==
    subject = "mcp" => McpShape /\ McpFacts(st.stream, st.cut, st.at, st.left, st.replies)

\* An error without an id leaves the order alone.
LEMMA ErrorKeepsOrder ==
    ASSUME NEW replies, NEW due, RepliesInOrder(replies, due), NEW r, r.id = 0,
           r.code \in {"-32700", "-32600"}
    PROVE  RepliesInOrder(Append(replies, r), due)
<1>1. PICK S : replies \in Seq(S)
  BY DEF RepliesInOrder
<1> DEFINE more == Append(replies, r)
<1>2. /\ more \in Seq(S \cup {r}) /\ Len(more) = Len(replies) + 1
      /\ \A i \in 1 .. Len(replies) : more[i] = replies[i]
      /\ more[Len(replies) + 1] = r
  BY <1>1, AppendFacts
<1>3. /\ Len(replies) \in Nat /\ DOMAIN replies = 1 .. Len(replies)
      /\ DOMAIN more = 1 .. Len(replies) + 1
  BY <1>1, <1>2
<1> HIDE DEF more
<1>4. \A i \in DOMAIN more : (i \in DOMAIN replies /\ more[i] = replies[i]) \/ more[i] = r
  BY <1>2, <1>3
<1>5. \A d \in due : \E i \in DOMAIN more : more[i].id = d
  BY <1>2, <1>3 DEF RepliesInOrder
<1>6. \A i \in DOMAIN more : /\ more[i].id # 0 => more[i].id \in due
                             /\ more[i].id = 0 => more[i].code \in {"-32700", "-32600"}
  BY <1>4 DEF RepliesInOrder
<1>7. \A i, j \in DOMAIN more :
          i < j /\ more[i].id # 0 /\ more[j].id # 0 => more[i].id < more[j].id
  BY <1>4 DEF RepliesInOrder
<1> QED BY <1>2, <1>5, <1>6, <1>7 DEF RepliesInOrder, more

\* The answer to the newest request comes last.
LEMMA AnswerKeepsOrder ==
    ASSUME NEW replies, NEW at \in Nat \ {0}, NEW due \in SUBSET (1 .. at - 1),
           RepliesInOrder(replies, due), NEW r, r.id = at
    PROVE  RepliesInOrder(Append(replies, r), due \cup {at})
<1>1. PICK S : replies \in Seq(S)
  BY DEF RepliesInOrder
<1> DEFINE more == Append(replies, r)
<1>2. /\ more \in Seq(S \cup {r}) /\ Len(more) = Len(replies) + 1
      /\ \A i \in 1 .. Len(replies) : more[i] = replies[i]
      /\ more[Len(replies) + 1] = r
  BY <1>1, AppendFacts
<1>3. /\ Len(replies) \in Nat /\ DOMAIN replies = 1 .. Len(replies)
      /\ DOMAIN more = 1 .. Len(replies) + 1
  BY <1>1, <1>2
<1> HIDE DEF more
<1>4. \A i \in DOMAIN more : \/ i \in DOMAIN replies /\ more[i] = replies[i]
                             \/ i = Len(replies) + 1 /\ more[i] = r
  BY <1>2, <1>3
<1>5. \A d \in due \cup {at} : \E i \in DOMAIN more : more[i].id = d
  <2>1. Len(replies) + 1 \in DOMAIN more /\ more[Len(replies) + 1].id = at
    BY <1>2, <1>3
  <2>2. ASSUME NEW d \in due PROVE \E i \in DOMAIN more : more[i].id = d
    BY <1>2, <1>3 DEF RepliesInOrder
  <2> QED BY <2>1, <2>2
<1>6. \A i \in DOMAIN more : /\ more[i].id # 0 => more[i].id \in due \cup {at}
                             /\ more[i].id = 0 => more[i].code \in {"-32700", "-32600"}
  BY <1>4 DEF RepliesInOrder
<1>7. ASSUME NEW i \in DOMAIN more, NEW j \in DOMAIN more, i < j, more[i].id # 0, more[j].id # 0
      PROVE  more[i].id < more[j].id
  <2>1. CASE j \in DOMAIN replies /\ more[j] = replies[j]
    <3>1. i \in DOMAIN replies /\ more[i] = replies[i]
      BY <1>3, <1>4, <1>7, <2>1
    <3> QED BY <1>7, <2>1, <3>1 DEF RepliesInOrder
  <2>2. CASE j = Len(replies) + 1 /\ more[j] = r
    <3>1. i \in DOMAIN replies /\ more[i] = replies[i]
      BY <1>3, <1>4, <1>7, <2>2
    <3>2. more[i].id \in due
      BY <1>7, <3>1 DEF RepliesInOrder
    <3>3. more[i].id \in 1 .. at - 1 /\ more[j].id = at
      BY <2>2, <3>2
    <3> QED BY <3>3
  <2> QED BY <1>4, <2>1, <2>2
<1> QED BY <1>2, <1>5, <1>6, <1>7 DEF RepliesInOrder, more

\* What is due is behind the reader, and so are the headers that were sound.
LEMMA DueGrows ==
    ASSUME NEW stream, NEW cut, NEW at \in Nat \ {0}
    PROVE  /\ Due(stream, cut, at) \subseteq 1 .. at - 1
           /\ HeadersSound(stream, at + 1) => HeadersSound(stream, at) /\ stream[at].head = "ok"
  BY DEF Due, HeadersSound

\* A frame that asks for nothing, or is cut short, adds nothing to what is due.
LEMMA DueWithout ==
    ASSUME NEW stream, NEW cut, NEW at \in Nat \ {0},
           ~IsRequest(stream[at]) \/ (cut /\ at = Len(stream))
    PROVE  Due(stream, cut, at + 1) = Due(stream, cut, at)
<1>1. 1 .. (at + 1) - 1 = (1 .. at - 1) \cup {at}
  OBVIOUS
<1> QED BY <1>1 DEF Due

\* A request adds itself.
LEMMA DueWithRequest ==
    ASSUME NEW stream, NEW cut, NEW at \in Nat \ {0},
           IsRequest(stream[at]), ~(cut /\ at = Len(stream))
    PROVE  Due(stream, cut, at + 1) = Due(stream, cut, at) \cup {at}
<1>1. 1 .. (at + 1) - 1 = (1 .. at - 1) \cup {at}
  OBVIOUS
<1> QED BY <1>1 DEF Due

\* Every frame the server reads keeps its answers in order.
LEMMA McpKeeps == ASSUME McpInv, subject = "mcp", McpNext PROVE McpInv'
<1> DEFINE due == Due(st.stream, st.cut, st.at)
           sound == HeadersSound(st.stream, st.at)
           f == st.stream[st.at]
<1>a. McpShape
  BY DEF McpInv
<1>b. /\ st.at \in Nat \ {0} /\ Len(st.stream) \in Nat
      /\ \A i \in 1 .. Len(st.stream) : \A m, n \in st.stream[i].message : m = n
      /\ sound => st.left = FALSE /\ RepliesInOrder(st.replies, due)
  BY DEF McpInv, McpFacts
<1>1. ASSUME ReadEnd PROVE McpInv'
  <2>1. CASE sound
    <3>1. st' = [st EXCEPT !.done = TRUE] /\ UNCHANGED subject
      BY <1>1, <1>b, <2>1 DEF ReadEnd, Step
    <3>2. /\ st'.stream = st.stream /\ st'.cut = st.cut /\ st'.at = st.at /\ st'.left = st.left
          /\ st'.replies = st.replies /\ McpShape'
      BY <1>a, <3>1 DEF McpShape
    <3> QED BY <1>b, <3>1, <3>2 DEF McpInv, McpFacts
  <2>2. CASE ~sound
    <3>1. PICK replies : /\ \/ st' = [st EXCEPT !.left = FALSE, !.replies = replies]
                            \/ st' = [st EXCEPT !.done = TRUE]
                         /\ UNCHANGED subject
      BY <1>1 DEF ReadEnd, Step
    <3>2. /\ st'.stream = st.stream /\ st'.cut = st.cut /\ st'.at = st.at /\ McpShape'
      BY <1>a, <3>1 DEF McpShape
    <3> QED BY <1>b, <2>2, <3>1, <3>2 DEF McpInv, McpFacts
  <2> QED BY <2>1, <2>2
<1>2. ASSUME RefuseHeader PROVE McpInv'
  <2>1. PICK left, replies :
          st' = [st EXCEPT !.at = @ + 1, !.left = left, !.replies = replies]
          /\ UNCHANGED subject
    BY <1>2 DEF RefuseHeader, Step
  <2>2. st.left \/ f.head # "ok"
    BY <1>2 DEF RefuseHeader
  <2>3. /\ st'.stream = st.stream /\ st'.cut = st.cut /\ st'.at = st.at + 1 /\ McpShape'
    BY <1>a, <2>1 DEF McpShape
  <2>4. ~HeadersSound(st.stream, st.at + 1)
    BY <1>b, <2>2, DueGrows
  <2> QED BY <1>b, <2>1, <2>3, <2>4 DEF McpInv, McpFacts
<1>3. ASSUME RefuseBody PROVE McpInv'
  <2>1. PICK r : /\ r = Reply(0, "-32700")
                 /\ st' = [st EXCEPT !.at = @ + 1, !.replies = Append(@, r)] /\ UNCHANGED subject
    BY <1>3 DEF RefuseBody, Step
  <2>2. r.id = 0 /\ r.code = "-32700"
    BY <2>1 DEF Reply
  <2>3. ~IsRequest(f) \/ (st.cut /\ st.at = Len(st.stream))
    BY <1>3 DEF RefuseBody, IsRequest
  <2>4. /\ st'.stream = st.stream /\ st'.cut = st.cut /\ st'.at = st.at + 1 /\ st'.left = st.left
        /\ st'.replies = Append(st.replies, r) /\ McpShape'
    BY <1>a, <2>1 DEF McpShape
  <2>5. ASSUME HeadersSound(st.stream, st.at + 1)
        PROVE  /\ st.left = FALSE
               /\ RepliesInOrder(Append(st.replies, r), Due(st.stream, st.cut, st.at + 1))
    <3>1. sound /\ Due(st.stream, st.cut, st.at + 1) = due
      BY <1>b, <2>3, <2>5, DueGrows, DueWithout
    <3> QED BY <1>b, <2>2, <3>1, ErrorKeepsOrder
  <2>6. McpFacts(st.stream, st.cut, st.at + 1, st.left, Append(st.replies, r))
    <3>1. st.at + 1 \in Nat \ {0}
      BY <1>b
    <3> QED BY <1>b, <2>5, <3>1, Zenon DEF McpFacts
  <2> QED BY <2>1, <2>4, <2>6 DEF McpInv
<1>4. ASSUME ServeMessage PROVE McpInv'
  <2> DEFINE answered(m) == IF Dispatch(m) = {} THEN st.replies
                            ELSE Append(st.replies, Reply(IF m.note THEN 0 ELSE st.at,
                                                          CHOOSE c \in Dispatch(m) : TRUE))
             started(m) == st.initialized \/ (m.method = "initialize" /\ Dispatch(m) = {"result"})
  <2>a. PICK m \in f.message :
          Step("mcp", [st EXCEPT !.at = @ + 1, !.initialized = started(m),
                                 !.replies = answered(m)])
    BY <1>4, Zenon DEF ServeMessage
  <2>b. PICK init, replies : init = started(m) /\ replies = answered(m)
    OBVIOUS
  <2>1. /\ replies = answered(m)
        /\ st' = [st EXCEPT !.at = @ + 1, !.initialized = init, !.replies = replies]
        /\ UNCHANGED subject
    BY <2>a, <2>b, Zenon DEF Step
  <2>2. /\ st.at \in 1 .. Len(st.stream) /\ f.head = "ok" /\ ~(st.cut /\ st.at = Len(st.stream))
    BY <1>4, <1>b DEF ServeMessage
  <2>3. /\ st'.stream = st.stream /\ st'.cut = st.cut /\ st'.at = st.at + 1 /\ st'.left = st.left
        /\ st'.replies = replies /\ McpShape'
    BY <1>a, <2>1 DEF McpShape
  <2>4. ASSUME HeadersSound(st.stream, st.at + 1)
        PROVE  /\ st.left = FALSE
               /\ RepliesInOrder(replies, Due(st.stream, st.cut, st.at + 1))
    <3>1. sound
      BY <1>b, <2>4, DueGrows
    <3>2. CASE m.note
      <4>1. ~IsRequest(f)
        BY <1>b, <2>2, <3>2 DEF IsRequest
      <4>2. Due(st.stream, st.cut, st.at + 1) = due
        BY <1>b, <4>1, DueWithout
      <4>3. CASE Dispatch(m) = {}
        BY <1>b, <2>1, <3>1, <4>2, <4>3
      <4>4. CASE Dispatch(m) # {}
        <5>1. Dispatch(m) = {"-32600"}
          BY <3>2, <4>4 DEF Dispatch
        <5>2. PICK r : r = Reply(0, "-32600")
          OBVIOUS
        <5>3. replies = Append(st.replies, r)
          <6>1. (CHOOSE c \in {"-32600"} : TRUE) = "-32600"
            OBVIOUS
          <6> QED BY <2>1, <3>2, <4>4, <5>1, <5>2, <6>1
        <5>4. r.id = 0 /\ r.code = "-32600"
          BY <5>2 DEF Reply
        <5> QED BY <1>b, <3>1, <4>2, <5>3, <5>4, ErrorKeepsOrder
      <4> QED BY <4>3, <4>4
    <3>3. CASE ~m.note
      <4>1. IsRequest(f)
        BY <2>2, <3>3 DEF IsRequest
      <4>2. Due(st.stream, st.cut, st.at + 1) = due \cup {st.at} /\ due \subseteq 1 .. st.at - 1
        <5>1. ~(st.cut /\ st.at = Len(st.stream))
          BY <2>2
        <5>2. st.at \in Nat \ {0}
          BY <1>b
        <5>3. due \subseteq 1 .. st.at - 1
          BY <5>2, DueGrows, Zenon
        <5>4. Due(st.stream, st.cut, st.at + 1) = due \cup {st.at}
          BY <4>1, <5>1, <5>2, DueWithRequest
        <5> QED BY <5>3, <5>4
      <4>3. Dispatch(m) # {}
        BY <3>3 DEF Dispatch
      <4>4. PICK r : /\ r = Reply(st.at, CHOOSE c \in Dispatch(m) : TRUE)
                     /\ replies = Append(st.replies, r)
        BY <2>1, <3>3, <4>3
      <4>5. r.id = st.at
        BY <4>4 DEF Reply
      <4> QED BY <1>b, <3>1, <4>2, <4>4, <4>5, AnswerKeepsOrder
    <3> QED BY <3>2, <3>3
  <2>5. McpFacts(st.stream, st.cut, st.at + 1, st.left, replies)
    <3>1. st.at + 1 \in Nat \ {0}
      BY <1>b
    <3> QED BY <1>b, <2>4, <3>1, Zenon DEF McpFacts
  <2> QED BY <2>1, <2>3, <2>5 DEF McpInv
<1> QED BY <1>1, <1>2, <1>3, <1>4 DEF McpNext

FrontEndsInv == McpInv /\ SoloInv /\ OrientInv

\* Every answer a front end gives is for this request, this code and this head: MCP
\* requests are answered once and in order while no header is refused, an answer about
\* a session is of the checkout at hand and of one submission unless it was cut short,
\* a replay vouches only for what this commit computes, and an orientation report
\* rests on the contents the gate verified (mcp/server.py,
\* solo_agent.py, labctl.py).
THEOREM AnswersAreCurrent == Spec => []AnswersCurrent
<1>1. Init => FrontEndsInv
  <2> SUFFICES ASSUME FrontEndsInit PROVE FrontEndsInv
    BY CallsAreApart DEF FrontEndsInv, McpInv, SoloInv, OrientInv, FrontEndsCalls
  <2>1. CASE McpInit
    <3>a. PICK n \in 0 .. MaxFrames : \E stream \in [1 .. n -> McpFrames], cut \in BOOLEAN :
            st = [stream |-> stream, cut |-> cut, at |-> 1, left |-> FALSE, initialized |-> FALSE,
                  replies |-> <<>>, done |-> FALSE]
      BY <2>1 DEF McpInit
    <3>1. PICK stream \in [1 .. n -> McpFrames], cut \in BOOLEAN :
            st = [stream |-> stream, cut |-> cut, at |-> 1, left |-> FALSE, initialized |-> FALSE,
                  replies |-> <<>>, done |-> FALSE]
      BY <3>a
    <3>2. /\ st.stream = stream /\ st.cut = cut /\ st.at = 1 /\ st.left = FALSE
          /\ st.replies = <<>> /\ McpShape
      BY <3>1 DEF McpShape
    <3>3. Len(stream) \in Nat /\ \A i \in 1 .. Len(stream) : stream[i] \in McpFrames
      BY FrontEndsAssumption
    <3>4. \A f \in McpFrames : \A m, k \in f.message : m = k
      <4> SUFFICES ASSUME NEW f \in McpFrames, NEW m \in f.message, NEW k \in f.message
                   PROVE  m = k
        OBVIOUS
      <4>1. (\E x : f.message = {x}) \/ f.message = {}
        <5>1. CASE \E x \in McpMessages : f = [head |-> "ok", sent |-> TRUE, message |-> {x}]
          <6> PICK x, y :
                x \in McpMessages /\ y = {x} /\ f = [head |-> "ok", sent |-> TRUE, message |-> y]
            BY <5>1
          <6>1. f.message = y
            OBVIOUS
          <6> QED BY <6>1
        <5>2. CASE f = [head |-> "ok", sent |-> TRUE, message |-> {}]
          BY <5>2
        <5>3. CASE \E h \in {"oversized", "malformed"}, s \in BOOLEAN :
                      f = [head |-> h, sent |-> s, message |-> {}]
          BY <5>3
        <5> QED BY <5>1, <5>2, <5>3 DEF McpFrames
      <4> QED BY <4>1
    <3>5. RepliesInOrder(<<>>, Due(stream, cut, 1))
      <4>1. Due(stream, cut, 1) = {}
        BY DEF Due
      <4>2. <<>> \in Seq({}) /\ DOMAIN <<>> = {}
        OBVIOUS
      <4> QED BY <4>1, <4>2 DEF RepliesInOrder
    <3>6. McpFacts(stream, cut, 1, FALSE, <<>>)
      BY <3>3, <3>4, <3>5 DEF McpFacts
    <3> QED BY <2>1, <3>2, <3>6 DEF McpInit, FrontEndsInv, McpInv, SoloInv, OrientInv
  <2>2. CASE SoloInit
    <3>1. /\ SoloShape /\ SoloFacts(st.session, st.result, st.submit, st.torn)
          /\ st.answers = {} /\ st.replays = {} /\ st.reads = {}
      BY <2>2 DEF SoloInit, SoloShape, SoloFacts
    <3> QED BY <2>2, <3>1 DEF SoloInit, FrontEndsInv, McpInv, SoloInv, OrientInv
  <2>3. CASE OrientInit
    <3>1. OrientShape /\ st.manifest = {} /\ st.next = 2 /\ st.used = <<>>
      BY <2>3 DEF OrientInit, OrientShape
    <3>2. OrientFacts({}, 2, <<>>)
      <4>1. <<>> \in Seq({}) /\ Len(<<>>) = 2 - 2
        OBVIOUS
      <4> QED BY <4>1 DEF OrientFacts
    <3> QED BY <2>3, <3>1, <3>2 DEF OrientInit, FrontEndsInv, McpInv, SoloInv, OrientInv
  <2> QED BY <2>1, <2>2, <2>3 DEF FrontEndsInit
<1>2. FrontEndsInv /\ [Next]_frame => FrontEndsInv'
  <2> SUFFICES ASSUME FrontEndsInv, [Next]_frame PROVE FrontEndsInv'
    OBVIOUS
  <2>1. CASE FrontEndsNext
    <3>1. ASSUME subject = "mcp", McpNext PROVE FrontEndsInv'
      BY <3>1, <2>1, McpKeeps, FrontEndsApart DEF FrontEndsInv, SoloInv, OrientInv
    <3>2. ASSUME subject = "solo", SoloNext PROVE FrontEndsInv'
      BY <3>2, <2>1, SoloKeeps, FrontEndsApart DEF FrontEndsInv, McpInv, OrientInv
    <3>3. ASSUME subject = "orient", OrientNext PROVE FrontEndsInv'
      BY <3>3, <2>1, OrientKeeps, FrontEndsApart DEF FrontEndsInv, McpInv, SoloInv
    <3> QED BY <2>1, <3>1, <3>2, <3>3 DEF FrontEndsNext, McpNext, SoloNext, OrientNext
  <2>2. CASE UNCHANGED frame
    BY <2>2 DEF frame, FrontEndsInv, McpInv, McpShape, SoloInv, SoloShape, OrientInv, OrientShape
  <2>3. CASE UNCHANGED subject /\ subject \notin FrontEndsCalls
    BY <2>3 DEF FrontEndsCalls, FrontEndsInv, McpInv, SoloInv, OrientInv
  <2> QED BY <2>1, <2>2, <2>3, CallsAreApart
<1>3. FrontEndsInv => AnswersCurrent
  <2> SUFFICES ASSUME FrontEndsInv PROVE AnswersCurrent
    OBVIOUS
  <2>1. McpAnswersInOrder
    <3> SUFFICES ASSUME subject = "mcp", HeadersSound(st.stream, st.at)
                 PROVE  McpAnswersInOrder
      BY DEF McpAnswersInOrder, HeadersSound
    <3>1. RepliesInOrder(st.replies, Due(st.stream, st.cut, st.at))
      BY DEF FrontEndsInv, McpInv, McpFacts
    <3>2. 0 \notin Due(st.stream, st.cut, st.at)
      BY DEF Due
    <3>3. {st.replies[i].id : i \in {k \in DOMAIN st.replies : st.replies[k].id # 0}}
              = Due(st.stream, st.cut, st.at)
      BY <3>1, <3>2 DEF RepliesInOrder
    <3> QED BY <3>1, <3>3 DEF RepliesInOrder, Due, McpAnswersInOrder
  <2>2. SoloAnswerIsFresh
    BY DEF FrontEndsInv, SoloInv, AnswerFacts, SoloAnswerIsFresh
  <2>3. WholeSessionReplays
    BY DEF FrontEndsInv, SoloInv, ReplayFacts, WholeSessionReplays
  <2>4. OrientationIsVerified
    BY DEF FrontEndsInv, OrientInv, OrientFacts, OrientationIsVerified
  <2> QED BY <2>1, <2>2, <2>3, <2>4 DEF AnswersCurrent
<1> QED BY <1>1, <1>2, <1>3, PTL DEF Spec
-----------------------------------------------------------------------------
(***************************************************************************)
(* The semantic layer: lineages.  What the axes allow is kept by every     *)
(* update, and an axis nobody excused stands at its highest.               *)
(***************************************************************************)
LEMMA LadderIndex == \A a, v : AxisIndex(a, v) \in Nat
<1> SUFFICES ASSUME NEW a, NEW v PROVE AxisIndex(a, v) \in Nat
  OBVIOUS
<1>1. ASSUME NEW S \in SUBSET (1 .. 4), S # {} PROVE Max(S) \in Nat
  <2>1. \E x \in S : \A y \in S : x >= y
    <3>1. CASE 4 \in S
      BY <3>1
    <3>2. CASE 4 \notin S /\ 3 \in S
      BY <3>2
    <3>3. CASE 4 \notin S /\ 3 \notin S /\ 2 \in S
      BY <3>3
    <3>4. CASE 4 \notin S /\ 3 \notin S /\ 2 \notin S
      <4>1. S = {1}
        <5> PICK y \in S : TRUE
          BY <1>1
        <5>1. \A z \in S : z = 1
          BY <1>1, <3>4
        <5> QED BY <5>1
      <4> QED BY <4>1
    <3> QED BY <3>1, <3>2, <3>3, <3>4
  <2>2. Max(S) \in S
    BY <2>1, Zenon DEF Max
  <2>3. \A x \in S : x \in Nat
    BY <1>1
  <2> QED BY <2>2, <2>3, Zenon
<1>2. ASSUME a \in DOMAIN AxisOrder PROVE DOMAIN AxisOrder[a] \subseteq 1 .. 4
  BY <1>2 DEF AxisOrder
<1> DEFINE at == {i \in DOMAIN AxisOrder[a] : AxisOrder[a][i] = v}
<1>3. a \in DOMAIN AxisOrder => at \in SUBSET (1 .. 4)
  BY <1>2
<1> HIDE DEF at
<1>4. AxisIndex(a, v) = IF a \notin DOMAIN AxisOrder THEN 0 ELSE IF at = {} THEN 0 ELSE Max(at)
  BY DEF AxisIndex, at
<1> QED BY <1>1, <1>3, <1>4

LineageShape ==
    st = [axes |-> st.axes, refs |-> st.refs, parents |-> st.parents, id |-> st.id,
          refused |-> st.refused, high |-> st.high, excused |-> st.excused]

StandingFacts(axes) ==
    /\ DOMAIN axes = Axes /\ \A a \in Axes : axes[a] \in AxisEnums[a]
    /\ Orthogonal(axes)

HighFacts(axes, high, excused) ==
    /\ \A a \in Axes : high[a] \in Nat
    /\ \A a \in Axes \ excused : AxisIndex(a, axes[a]) >= high[a]

LineageInv ==
    subject = "lineage" =>
        /\ LineageShape
        /\ StandingFacts(st.axes)
        /\ HighFacts(st.axes, st.high, st.excused)
        /\ st.id \in Nat /\ st.parents = 0 .. st.id - 1 /\ st.refs = 1 .. st.id

\* An update of an assessment keeps the lineage.
LEMMA LineageKeeps ==
    ASSUME LineageInv, subject = "lineage", NEW delta, NEW reason \in BOOLEAN, WellFormed(delta),
           UpdateAssessment(delta, reason)
    PROVE  LineageInv'
<1> DEFINE index(a) == AxisIndex(a, delta[a])
           highest  == [a \in Axes |-> IF a \in DOMAIN delta /\ index(a) > st.high[a]
                                       THEN index(a) ELSE st.high[a]]
           pardoned == st.excused \cup {a \in DOMAIN delta : index(a) = 0 \/ reason}
           axes     == Moved(st.axes, delta)
<1>a. /\ LineageShape /\ StandingFacts(st.axes) /\ HighFacts(st.axes, st.high, st.excused)
      /\ st.id \in Nat /\ st.parents = 0 .. st.id - 1 /\ st.refs = 1 .. st.id
  BY DEF LineageInv
<1>1. CASE Step("lineage", [st EXCEPT !.refused = TRUE])
  <2>1. st' = [st EXCEPT !.refused = TRUE] /\ UNCHANGED subject
    BY <1>1 DEF Step
  <2>2. /\ st'.axes = st.axes /\ st'.refs = st.refs /\ st'.parents = st.parents
        /\ st'.id = st.id /\ st'.high = st.high /\ st'.excused = st.excused /\ LineageShape'
    BY <1>a, <2>1 DEF LineageShape
  <2> QED BY <1>a, <2>1, <2>2 DEF LineageInv
<1>2. CASE /\ UpdateVerdict(st.axes, delta, reason) = "ok"
           /\ Step("lineage", [st EXCEPT
                  !.axes = axes, !.refs = @ \cup {st.id + 1}, !.parents = @ \cup {st.id},
                  !.id = @ + 1, !.high = highest, !.excused = pardoned])
  <2> HIDE DEF highest, pardoned, axes
  <2>1. /\ st' = [st EXCEPT
                  !.axes = axes, !.refs = @ \cup {st.id + 1}, !.parents = @ \cup {st.id},
                  !.id = @ + 1, !.high = highest, !.excused = pardoned]
        /\ UNCHANGED subject
    BY <1>2 DEF Step
  <2>2. /\ st'.axes = axes /\ st'.refs = st.refs \cup {st.id + 1}
        /\ st'.parents = st.parents \cup {st.id}
        /\ st'.id = st.id + 1 /\ st'.high = highest /\ st'.excused = pardoned /\ LineageShape'
    BY <1>a, <2>1 DEF LineageShape
  <2>3. /\ \A a \in DOMAIN delta : Monotonic(a, st.axes[a], delta[a], reason)
        /\ Orthogonal(axes)
    BY <1>2 DEF UpdateVerdict, axes
  <2>4. /\ DOMAIN axes = Axes
        /\ \A a \in Axes : axes[a] = IF a \in DOMAIN delta THEN delta[a] ELSE st.axes[a]
    BY DEF axes, Moved
  <2>5. StandingFacts(axes)
    BY <1>a, <2>3, <2>4 DEF StandingFacts, WellFormed
  <2>6. HighFacts(axes, highest, pardoned)
    <3>1. \A a \in Axes : highest[a] = IF a \in DOMAIN delta /\ AxisIndex(a, delta[a]) > st.high[a]
                                       THEN AxisIndex(a, delta[a]) ELSE st.high[a]
      BY DEF highest
    <3>2. \A a \in Axes : st.high[a] \in Nat /\ highest[a] \in Nat
      BY <1>a, <3>1, LadderIndex DEF HighFacts
    <3>3. ASSUME NEW a \in Axes, a \notin pardoned PROVE AxisIndex(a, axes[a]) >= highest[a]
      <4>1. a \notin st.excused /\ (a \in DOMAIN delta => AxisIndex(a, delta[a]) # 0 /\ ~reason)
        BY <3>3 DEF pardoned
      <4>2. AxisIndex(a, st.axes[a]) >= st.high[a]
        BY <1>a, <4>1 DEF HighFacts
      <4>3. CASE a \in DOMAIN delta
        <5>1. AxisIndex(a, st.axes[a]) = 0 \/ AxisIndex(a, delta[a]) >= AxisIndex(a, st.axes[a])
          BY <2>3, <4>1, <4>3 DEF Monotonic
        <5>2. AxisIndex(a, delta[a]) >= st.high[a]
          BY <3>2, <4>2, <5>1, LadderIndex
        <5> QED BY <2>4, <3>1, <3>2, <4>3, <5>2, LadderIndex
      <4>4. CASE a \notin DOMAIN delta
        BY <2>4, <3>1, <4>2, <4>4
      <4> QED BY <4>3, <4>4
    <3> QED BY <3>2, <3>3 DEF HighFacts
  <2>7. /\ st.id + 1 \in Nat /\ st.parents \cup {st.id} = 0 .. (st.id + 1) - 1
        /\ st.refs \cup {st.id + 1} = 1 .. st.id + 1
    BY <1>a
  <2> QED BY <2>1, <2>2, <2>5, <2>6, <2>7 DEF LineageInv
<1> QED BY <1>1, <1>2 DEF UpdateAssessment
-----------------------------------------------------------------------------
(***************************************************************************)
(* The semantic layer: trees, projections and claims.                      *)
(***************************************************************************)
IrFacts(tree, count, answer) ==
    /\ Len(tree) \in Nat /\ count \in Nat
    /\ DOMAIN tree = 1 .. Len(tree)
    /\ \A i \in 1 .. Len(tree) : tree[i].depth \in Nat /\ tree[i].kind \in NodeKinds
    /\ count <= MaxNodes + 1
    /\ answer \in {"none", "ok"} =>
           count <= MaxNodes /\ \A i \in 1 .. count : NodeVerdict(tree[i], i) = "ok"
    /\ answer = "ok" => count = Len(tree)

IrInv ==
    subject = "ir" =>
        /\ st = [tree |-> st.tree, count |-> st.count, answer |-> st.answer]
        /\ IrFacts(st.tree, st.count, st.answer)

\* Visiting a node keeps the accepted tree inside the limits.
LEMMA IrKeeps == ASSUME IrInv, subject = "ir", ValidateNode PROVE IrInv'
<1> USE SemanticAssumption
<1>a. /\ st = [tree |-> st.tree, count |-> st.count, answer |-> st.answer]
      /\ IrFacts(st.tree, st.count, st.answer)
  BY DEF IrInv
<1>1. PICK v, answer :
        /\ v = NodeVerdict(st.tree[st.count + 1], st.count + 1)
        /\ answer = IF v # "ok" THEN v
                    ELSE IF st.count + 1 = Len(st.tree) THEN "ok" ELSE "none"
        /\ st' = [st EXCEPT !.count = @ + 1, !.answer = answer] /\ UNCHANGED subject
  BY DEF ValidateNode, Step
<1>2. st.answer = "none" /\ st.count < Len(st.tree)
  BY DEF ValidateNode
<1>3. /\ st'.tree = st.tree /\ st'.count = st.count + 1 /\ st'.answer = answer
      /\ (st = [tree |-> st.tree, count |-> st.count, answer |-> st.answer])'
  BY <1>a, <1>1
<1>4. v \in {"limit", "CONTRACT_INVALID", "IR_UNSUPPORTED", "ok"}
  BY <1>1 DEF NodeVerdict
<1>5. IrFacts(st.tree, st.count + 1, answer)
  <2>1. /\ st.count + 1 \in Nat /\ st.count + 1 <= MaxNodes + 1
        /\ answer = "ok" => st.count + 1 = Len(st.tree)
    BY <1>a, <1>1, <1>2, <1>4 DEF IrFacts
  <2>2. ASSUME answer \in {"none", "ok"}
        PROVE  /\ st.count + 1 <= MaxNodes
               /\ \A i \in 1 .. st.count + 1 : NodeVerdict(st.tree[i], i) = "ok"
    <3>1. NodeVerdict(st.tree[st.count + 1], st.count + 1) = "ok"
      BY <1>1, <1>4, <2>2
    <3>2. ~(st.count + 1 > MaxNodes)
      BY <3>1 DEF NodeVerdict
    <3>3. \A i \in 1 .. st.count + 1 : i \in 1 .. st.count \/ i = st.count + 1
      BY <1>a DEF IrFacts
    <3> QED BY <1>a, <1>2, <2>1, <3>1, <3>2, <3>3 DEF IrFacts
  <2> QED BY <1>a, <2>1, <2>2 DEF IrFacts
<1> QED BY <1>1, <1>3, <1>5 DEF IrInv

\* What a receipt of a projection says of its loss.
LossFacts(r, ops, profile) ==
    r.class # "LOSSY_IMPLICIT_DETECTED" =>
        /\ r.dropped = ops \ profile.supported
        /\ r.class = "LOSSLESS" <=> r.dropped = {}
        /\ \A op \in r.dropped : BehaviorForOp(op, profile) \in {"approximate", "drop"}

ProjectShape ==
    st = [ops |-> st.ops, profile |-> st.profile, receipt |-> st.receipt, answer |-> st.answer]

ProjectInv ==
    subject = "project" =>
        /\ ProjectShape
        /\ \A f \in DOMAIN st.profile.unsupported :
               st.profile.unsupported[f] \in Behaviors
        /\ \A r \in st.receipt : LossFacts(r, st.ops, st.profile)

\* A projection, and a detected loss, keep the losses named.
LEMMA ProjectKeeps ==
    ASSUME ProjectInv, subject = "project",
           ProjectToBackend \/ \E d \in SUBSET Ops : RecordDetectedLoss(d)
    PROVE  ProjectInv'
<1>a. /\ ProjectShape
      /\ \A f \in DOMAIN st.profile.unsupported : st.profile.unsupported[f] \in Behaviors
      /\ \A r \in st.receipt : LossFacts(r, st.ops, st.profile)
  BY DEF ProjectInv
<1>1. CASE ProjectToBackend
  <2> DEFINE plan == PlanProjection(st.ops, st.profile)
             sound == {x \in plan : TransformVerdict(ConversionClass(x), x) = "ok"}
             made == {[class |-> ConversionClass(d), dropped |-> d] : d \in sound}
  <2>1. PICK answer, receipt :
          /\ receipt = IF ~ProfileValid(st.profile) THEN {} ELSE made
          /\ st' = [st EXCEPT !.answer = answer, !.receipt = receipt] /\ UNCHANGED subject
    BY <1>1, Zenon DEF ProjectToBackend, Step
  <2>2. ASSUME NEW r \in made PROVE LossFacts(r, st.ops, st.profile)
    <3>1. PICK d \in plan : r = [class |-> ConversionClass(d), dropped |-> d]
      BY <2>2
    <3>2. r.class = ConversionClass(d) /\ r.dropped = d
      BY <3>1
    <3>3. /\ d = st.ops \ st.profile.supported
          /\ \A op \in d : BehaviorForOp(op, st.profile) \notin {"undeclared", "reject"}
      BY DEF PlanProjection
    <3>4. \A op : BehaviorForOp(op, st.profile) \in Behaviors \cup {"undeclared"}
      BY <1>a DEF BehaviorForOp
    <3>5. \A op \in d : BehaviorForOp(op, st.profile) \in {"approximate", "drop"}
      BY <3>3, <3>4 DEF Behaviors
    <3>6. ConversionClass(d) = "LOSSLESS" <=> d = {}
      BY DEF ConversionClass
    <3> QED BY <3>2, <3>3, <3>5, <3>6 DEF LossFacts
  <2>3. /\ st'.ops = st.ops /\ st'.profile = st.profile /\ st'.receipt = receipt /\ ProjectShape'
    BY <1>a, <2>1 DEF ProjectShape
  <2>4. \A r \in receipt : LossFacts(r, st.ops, st.profile)
    <3> HIDE DEF made
    <3> QED BY <2>1, <2>2
  <2> QED BY <1>a, <2>1, <2>3, <2>4 DEF ProjectInv
<1>2. ASSUME NEW d \in SUBSET Ops, RecordDetectedLoss(d) PROVE ProjectInv'
  <2>1. PICK r : /\ r = [class |-> "LOSSY_IMPLICIT_DETECTED", dropped |-> d]
                 /\ st' = [st EXCEPT !.answer = "detected", !.receipt = @ \cup {r}]
                 /\ UNCHANGED subject
    BY <1>2 DEF RecordDetectedLoss, Step
  <2>2. LossFacts(r, st.ops, st.profile)
    BY <2>1 DEF LossFacts
  <2>3. /\ st'.ops = st.ops /\ st'.profile = st.profile /\ st'.receipt = st.receipt \cup {r}
        /\ ProjectShape'
    BY <1>a, <2>1 DEF ProjectShape
  <2> QED BY <1>a, <2>1, <2>2, <2>3 DEF ProjectInv
<1> QED BY <1>1, <1>2

ClaimFacts(doc, ids, answer) ==
    answer = "ok" => /\ \A id \in ids : id = doc
                     /\ doc.class = "established_law_reference" => doc.support

ClaimInv ==
    subject = "claim" =>
        /\ st = [doc |-> st.doc, ids |-> st.ids, answer |-> st.answer]
        /\ ClaimFacts(st.doc, st.ids, st.answer)

\* Minting, editing and validating a claim keep it bound to its id.
LEMMA ClaimKeeps ==
    ASSUME ClaimInv, subject = "claim", MintClaim \/ ValidateClaim \/ \E d \in ClaimDocs : EditClaim(d)
    PROVE  ClaimInv'
<1>1. CASE MintClaim
  BY <1>1 DEF MintClaim, Step, ClaimInv, ClaimFacts
<1>2. CASE ValidateClaim
  <2>1. st' = [st EXCEPT !.answer = ClaimVerdict(st.doc, st.ids)] /\ UNCHANGED subject
    BY <1>2 DEF ValidateClaim, Step
  <2>2. ClaimFacts(st.doc, st.ids, ClaimVerdict(st.doc, st.ids))
    BY DEF ClaimFacts, ClaimVerdict, IdOf
  <2> QED BY <2>1, <2>2 DEF ClaimInv
<1>3. ASSUME NEW d \in ClaimDocs, EditClaim(d) PROVE ClaimInv'
  BY <1>3 DEF EditClaim, Step, ClaimInv, ClaimFacts
<1> QED BY <1>1, <1>2, <1>3

SemanticInv == LineageInv /\ IrInv /\ ProjectInv /\ ClaimInv

\* No update, projection or edit changes what a document means unseen: a lineage keeps
\* its axes apart, loses nothing quietly and names all its ancestors, an accepted tree
\* is inside the limits, a projection names all it loses, and an edited claim does not
\* pass for the one its id was computed from (semantic/evidence.py, semantic/ir.py,
\* semantic/transforms.py, semantic/claims.py).
THEOREM MeaningIsKept == Spec => []MeaningKept
<1>1. Init => SemanticInv
  <2> SUFFICES ASSUME SemanticInit PROVE SemanticInv
    BY CallsAreApart DEF SemanticInv, LineageInv, IrInv, ProjectInv, ClaimInv, SemanticCalls
  <2>1. CASE LineageInit
    <3>1. /\ LineageShape /\ st.axes = DEFAULT_AXES /\ st.excused = {} /\ st.id = 0
          /\ st.parents = {} /\ st.refs = {}
          /\ st.high = [a \in Axes |-> AxisIndex(a, DEFAULT_AXES[a])]
      BY <2>1 DEF LineageInit, LineageShape
    <3>2. StandingFacts(DEFAULT_AXES)
      BY DEF StandingFacts, DEFAULT_AXES, Axes, AxisEnums, Orthogonal
    <3>3. HighFacts(DEFAULT_AXES, st.high, {})
      BY <3>1, LadderIndex DEF HighFacts
    <3>4. st.id \in Nat /\ st.parents = 0 .. st.id - 1 /\ st.refs = 1 .. st.id
      BY <3>1
    <3> QED BY <2>1, <3>1, <3>2, <3>3, <3>4
            DEF LineageInit, SemanticInv, LineageInv, IrInv, ProjectInv, ClaimInv
  <2>2. CASE TreeInit
    <3>1. PICK t \in Trees : st = [tree |-> t, count |-> 0, answer |-> "none"]
      BY <2>2 DEF TreeInit
    <3>2. PICK n \in 1 .. TreeNodes : t \in [1 .. n -> [depth : 1 .. TreeNodes, kind : NodeKinds]]
      BY DEF Trees
    <3>3. Len(t) = n /\ n \in Nat /\ DOMAIN t = 1 .. n
      BY <3>2, SemanticAssumption
    <3>4. \A i \in 1 .. n : t[i].depth \in Nat /\ t[i].kind \in NodeKinds
      BY <3>2, SemanticAssumption
    <3>5. IrFacts(t, 0, "none")
      BY <3>3, <3>4, SemanticAssumption DEF IrFacts
    <3> QED BY <2>2, <3>1, <3>5
            DEF TreeInit, SemanticInv, LineageInv, IrInv, ProjectInv, ClaimInv
  <2>3. CASE ProjectInit
    <3>1. PICK ops, supported, fs : \E u \in [fs -> Behaviors] :
            st = [ops |-> ops, profile |-> [supported |-> supported, unsupported |-> u],
                  receipt |-> {}, answer |-> "none"]
      BY <2>3 DEF ProjectInit
    <3>2. PICK u, profile :
            /\ u \in [fs -> Behaviors] /\ profile = [supported |-> supported, unsupported |-> u]
            /\ st = [ops |-> ops, profile |-> profile, receipt |-> {}, answer |-> "none"]
      BY <3>1
    <3>3. profile.unsupported = u /\ st.profile = profile /\ st.receipt = {} /\ ProjectShape
      BY <3>2 DEF ProjectShape
    <3> QED BY <2>3, <3>3 DEF ProjectInit, SemanticInv, LineageInv, IrInv, ProjectInv, ClaimInv
  <2>4. CASE ClaimInit
    BY <2>4 DEF ClaimInit, SemanticInv, LineageInv, IrInv, ProjectInv, ClaimInv, ClaimFacts
  <2>5. CASE ReceiptsInit
    BY <2>5 DEF ReceiptsInit, SemanticInv, LineageInv, IrInv, ProjectInv, ClaimInv
  <2> QED BY <2>1, <2>2, <2>3, <2>4, <2>5 DEF SemanticInit
<1>2. SemanticInv /\ [Next]_frame => SemanticInv'
  <2> SUFFICES ASSUME SemanticInv, [Next]_frame PROVE SemanticInv'
    OBVIOUS
  <2>1. CASE SemanticNext
    <3> USE DEF SemanticInv
    <3>a. UNCHANGED subject
      BY <2>1, SemanticApart
    <3>1. CASE subject = "lineage"
      <4>1. \E d \in {x \in Deltas : WellFormed(x)}, r \in BOOLEAN : UpdateAssessment(d, r)
        BY <2>1, <3>1 DEF SemanticNext, ValidateNode, ProjectToBackend, RecordDetectedLoss,
                          BuildEngineReceipt, BuildRunReceipt, BuildValidationReceipt
      <4> QED BY <3>1, <3>a, <4>1, LineageKeeps DEF IrInv, ProjectInv, ClaimInv
    <3>2. CASE subject = "ir"
      <4>1. ValidateNode
        BY <2>1, <3>2 DEF SemanticNext, ProjectToBackend, RecordDetectedLoss,
                          BuildEngineReceipt, BuildRunReceipt, BuildValidationReceipt
      <4> QED BY <3>2, <3>a, <4>1, IrKeeps DEF LineageInv, ProjectInv, ClaimInv
    <3>3. CASE subject = "project"
      <4>1. ProjectToBackend \/ \E d \in SUBSET Ops : RecordDetectedLoss(d)
        BY <2>1, <3>3 DEF SemanticNext, ValidateNode,
                          BuildEngineReceipt, BuildRunReceipt, BuildValidationReceipt
      <4> QED BY <3>3, <3>a, <4>1, ProjectKeeps DEF LineageInv, IrInv, ClaimInv
    <3>4. CASE subject = "claim"
      <4>1. MintClaim \/ ValidateClaim \/ \E d \in ClaimDocs : EditClaim(d)
        BY <2>1, <3>4 DEF SemanticNext, ValidateNode, ProjectToBackend, RecordDetectedLoss,
                          BuildEngineReceipt, BuildRunReceipt, BuildValidationReceipt
      <4> QED BY <3>4, <3>a, <4>1, ClaimKeeps DEF LineageInv, IrInv, ProjectInv
    <3>5. CASE subject \notin {"lineage", "ir", "project", "claim"}
      BY <3>5, <3>a DEF LineageInv, IrInv, ProjectInv, ClaimInv
    <3> QED BY <3>1, <3>2, <3>3, <3>4, <3>5
  <2>2. CASE UNCHANGED frame
    BY <2>2 DEF frame, SemanticInv, LineageInv, LineageShape, IrInv, ProjectInv, ProjectShape,
                ClaimInv
  <2>3. CASE UNCHANGED subject /\ subject \notin SemanticCalls
    BY <2>3 DEF SemanticCalls, SemanticInv, LineageInv, IrInv, ProjectInv, ClaimInv
  <2> QED BY <2>1, <2>2, <2>3, CallsAreApart
<1>3. SemanticInv => MeaningKept
  <2> SUFFICES ASSUME SemanticInv PROVE MeaningKept
    OBVIOUS
  <2> USE DEF SemanticInv
  <2>1. StandingOrthogonal
    BY DEF LineageInv, StandingFacts, Orthogonal, StandingOrthogonal, Axes, AxisEnums
  <2>2. NoQuietLoss
    BY DEF LineageInv, HighFacts, NoQuietLoss
  <2>3. LineageComplete
    BY DEF LineageInv, LineageComplete
  <2>4. IrSound
    <3> SUFFICES ASSUME subject = "ir" PROVE IrSound
      BY DEF IrSound
    <3>1. IrFacts(st.tree, st.count, st.answer)
      BY DEF IrInv
    <3>2. ASSUME st.answer = "ok", NEW i \in DOMAIN st.tree
          PROVE  /\ st.tree[i].depth <= MaxDepth
                 /\ st.tree[i].kind \in {"application", "const", "var"}
      <4>1. NodeVerdict(st.tree[i], i) = "ok" /\ st.tree[i].kind \in NodeKinds
            /\ st.tree[i].depth \in Nat
        BY <3>1, <3>2 DEF IrFacts
      <4> QED BY <4>1, SemanticAssumption DEF NodeVerdict, NodeKinds
    <3> QED BY <3>1, <3>2 DEF IrFacts, IrSound
  <2>5. NoSilentLoss
    BY DEF ProjectInv, LossFacts, NoSilentLoss
  <2>6. ClaimTamperEvident
    BY DEF ClaimInv, ClaimFacts, ClaimTamperEvident
  <2> QED BY <2>1, <2>2, <2>3, <2>4, <2>5, <2>6 DEF MeaningKept
<1> QED BY <1>1, <1>2, <1>3, PTL DEF Spec
-----------------------------------------------------------------------------
(***************************************************************************)
(* The knowledge layer.  A record is of the endpoint whose policy fetched  *)
(* it and of a search that kept every item; a fact is of such a record.    *)
(***************************************************************************)
LayerShape ==
    st = [phase |-> st.phase, records |-> st.records, facts |-> st.facts, manifest |-> st.manifest]

RecordFacts(r, n) ==
    /\ r.license = r.source
    /\ \/ r.payload.shape \in {"single", "text"}
       \/ AllUsable(r.payload.items) /\ Len(r.payload.items) = n

FactFacts(f) ==
    /\ f.record.license = f.record.source
    /\ f.span[2] <= TextLength
    /\ f.text = "injection" => "prompt_injection_suspect" \in f.taint

FactsSound(facts) ==
    /\ \E S : facts \in Seq(S)
    /\ \A i \in DOMAIN facts : FactFacts(facts[i])

ManifestFacts(m) ==
    /\ FactsSound(m.facts)
    /\ \A i \in DOMAIN m.facts : "prompt_injection_suspect" \in m.facts[i].taint => i \in m.suspects
    /\ \A e \in m.edges : e[1] \in DOMAIN m.facts /\ e[2] \in DOMAIN m.facts

LayerInv ==
    subject = "layer" =>
        /\ LayerShape
        /\ \A i \in DOMAIN st.records : RecordFacts(st.records[i], Len(st.records))
        /\ FactsSound(st.facts)
        /\ \A m \in st.manifest : ManifestFacts(m)

\* A parse keeps every item of a payload, one by one, or is of a kind that has one.
LEMMA ParseKeepsItems ==
    ASSUME NEW s, NEW pl \in Payloads, NEW uris \in Parsed(s, pl)
    PROVE  /\ \E n \in Nat : \E S : uris \in [1 .. n -> S]
           /\ \/ pl.shape \in {"single", "text"}
              \/ AllUsable(pl.items) /\ Len(pl.items) = Len(uris)
<1>1. PICK n \in 0 .. 2 : pl.items \in [1 .. n -> Items]
  BY DEF Payloads
<1>2. pl.items \in Seq(Items) /\ Len(pl.items) = n /\ n \in Nat
  BY <1>1
<1> DEFINE whole == [i \in DOMAIN pl.items |-> pl.items[i]]
           asked == [i \in DOMAIN pl.items |-> "asked"]
           one   == <<"u1">>
<1>3. whole = pl.items
  BY <1>1
<1>4. asked \in [1 .. n -> {"asked"}] /\ asked \in Seq({"asked"}) /\ Len(asked) = n
  <2>1. asked \in [1 .. n -> {"asked"}]
    BY <1>1
  <2> HIDE DEF asked
  <2> QED BY <1>2, <2>1
<1>5. one \in [1 .. 1 -> {"u1"}] /\ 1 \in Nat
  OBVIOUS
<1> HIDE DEF whole, asked, one
<1>6. \/ uris = whole /\ AllUsable(pl.items)
      \/ uris = asked /\ AllUsable(pl.items)
      \/ uris = one /\ pl.shape \in {"single", "text"}
  BY DEF Parsed, ParseOpenalex, ParseCrossref, ParseArxiv, ParseOeis, ParseOpencitations,
         ParseZbmath, ParseLmfdb, ParseGithubCommit, Uris, whole, asked, one
<1> QED BY <1>1, <1>2, <1>3, <1>4, <1>5, <1>6

\* Every step of a layer keeps it traceable.
LEMMA LayerKeeps == ASSUME LayerInv, subject = "layer", LayerStep PROVE LayerInv'
<1>a. /\ LayerShape
      /\ \A i \in DOMAIN st.records : RecordFacts(st.records[i], Len(st.records))
      /\ FactsSound(st.facts)
      /\ \A m \in st.manifest : ManifestFacts(m)
  BY DEF LayerInv
<1>0. ASSUME UNCHANGED subject, st' = [st EXCEPT !.phase = "failed"] PROVE LayerInv'
  <2>1. /\ st'.records = st.records /\ st'.facts = st.facts /\ st'.manifest = st.manifest
        /\ LayerShape'
    BY <1>a, <1>0 DEF LayerShape
  <2> QED BY <1>a, <2>1 DEF LayerInv
<1>1. ASSUME NEW s, NEW p, NEW pl \in Payloads, Search(s, p, pl) PROVE LayerInv'
  <2>1. CASE st' = [st EXCEPT !.phase = "failed"] /\ UNCHANGED subject
    BY <1>0, <2>1
  <2>2. CASE p = s /\ \E uris \in Parsed(s, pl) :
               /\ st' = [st EXCEPT !.phase = "fact", !.records =
                             [i \in DOMAIN uris |-> Record(s, p, pl, uris[i])]]
               /\ UNCHANGED subject
    <3> PICK uris \in Parsed(s, pl) :
               /\ st' = [st EXCEPT !.phase = "fact", !.records =
                             [i \in DOMAIN uris |-> Record(s, p, pl, uris[i])]]
               /\ UNCHANGED subject
      BY <2>2
    <3> DEFINE records == [i \in DOMAIN uris |-> Record(s, p, pl, uris[i])]
    <3>0. PICK n \in Nat : \E S : uris \in [1 .. n -> S]
      BY ParseKeepsItems
    <3>1. PICK S : uris \in [1 .. n -> S]
      BY <3>0
    <3>2. uris \in Seq(S) /\ Len(uris) = n
      BY <3>1
    <3>3. ASSUME NEW i \in DOMAIN records PROVE RecordFacts(records[i], n)
      <4>1. records[i].license = s /\ records[i].source = s /\ records[i].payload = pl
        BY <2>2, <3>1 DEF Record
      <4> QED BY <3>2, <4>1, ParseKeepsItems DEF RecordFacts
    <3>4. records \in [1 .. n -> {records[i] : i \in 1 .. n}]
      BY <3>1
    <3> HIDE DEF records
    <3>5. Len(records) = n
      <4> PICK T : records \in [1 .. n -> T]
        BY <3>4
      <4>1. records \in Seq(T)
        OBVIOUS
      <4> QED BY <4>1
    <3>6. /\ st'.records = records /\ st'.facts = st.facts /\ st'.manifest = st.manifest
          /\ LayerShape'
      BY <1>a DEF LayerShape, records
    <3> QED BY <1>a, <3>3, <3>5, <3>6 DEF LayerInv
  <2> QED BY <1>1, <2>1, <2>2 DEF Search, FetchWithTransport, Step
<1>2. ASSUME NEW i, NEW text, NEW span \in {<<0, 2>>, <<2, 0>>, <<1, 3>>},
             AddFact(i, text, span[1], span[2])
      PROVE  LayerInv'
  <2>1. CASE st' = [st EXCEPT !.phase = "failed"] /\ UNCHANGED subject
    BY <1>0, <2>1
  <2>2. CASE /\ i \in DOMAIN st.records /\ OffsetsBound(span[1], span[2])
             /\ st' = [st EXCEPT !.facts = Append(@, BuildFact(st.records[i], text, span[1], span[2])),
                                 !.phase = "search", !.records = <<>>]
             /\ UNCHANGED subject
    <3> PICK f : f = BuildFact(st.records[i], text, span[1], span[2])
      OBVIOUS
    <3>1. FactFacts(f)
      <4>1. /\ f.record = st.records[i] /\ f.span = <<span[1], span[2]>> /\ f.text = text
            /\ f.text = "injection" => "prompt_injection_suspect" \in f.taint
        BY DEF BuildFact
      <4>2. f.record.license = f.record.source
        BY <1>a, <2>2, <4>1 DEF RecordFacts
      <4>3. f.span[2] = span[2] /\ span[2] <= TextLength
        BY <2>2, <4>1 DEF OffsetsBound
      <4> QED BY <4>1, <4>2, <4>3 DEF FactFacts
    <3>2. PICK S : st.facts \in Seq(S)
      BY <1>a DEF FactsSound
    <3> DEFINE more == Append(st.facts, f)
    <3>3. /\ more \in Seq(S \cup {f}) /\ Len(more) = Len(st.facts) + 1
          /\ \A j \in 1 .. Len(st.facts) : more[j] = st.facts[j]
          /\ more[Len(st.facts) + 1] = f
      BY <3>2, AppendFacts
    <3>4. Len(st.facts) \in Nat /\ DOMAIN st.facts = 1 .. Len(st.facts)
      BY <3>2
    <3>5. st'.facts = more /\ st'.records = <<>> /\ st'.manifest = st.manifest /\ LayerShape'
      BY <1>a, <2>2 DEF LayerShape
    <3> HIDE DEF more
    <3>6. DOMAIN more = 1 .. Len(st.facts) + 1
      BY <3>3
    <3>7. FactsSound(more)
      BY <1>a, <3>1, <3>3, <3>4, <3>6 DEF FactsSound
    <3>8. DOMAIN st'.records = {}
      BY <3>5
    <3> QED BY <1>a, <3>5, <3>7, <3>8 DEF LayerInv
  <2> QED BY <1>2, <2>1, <2>2 DEF AddFact, Step
<1>3. ASSUME NEW edges, BuildManifest(edges) PROVE LayerInv'
  <2>1. st' = [st EXCEPT !.phase = "done", !.manifest = ManifestOf(st.facts, edges)]
        /\ UNCHANGED subject
    BY <1>3 DEF BuildManifest, Step
  <2>2. /\ st'.records = st.records /\ st'.facts = st.facts
        /\ st'.manifest = ManifestOf(st.facts, edges) /\ LayerShape'
    BY <1>a, <2>1 DEF LayerShape
  <2>3. ASSUME NEW m \in ManifestOf(st.facts, edges) PROVE ManifestFacts(m)
    <3>1. /\ \A e \in edges : {e[1], e[2]} \subseteq DOMAIN st.facts
          /\ m = [facts |-> st.facts, edges |-> edges,
                  suspects |-> {i \in DOMAIN st.facts :
                                    "prompt_injection_suspect" \in st.facts[i].taint}]
      BY <2>3 DEF ManifestOf
    <3>2. /\ m.facts = st.facts /\ m.edges = edges
          /\ m.suspects = {i \in DOMAIN st.facts :
                               "prompt_injection_suspect" \in st.facts[i].taint}
      BY <3>1
    <3> QED BY <1>a, <3>1, <3>2 DEF ManifestFacts
  <2> QED BY <1>a, <2>2, <2>3 DEF LayerInv
<1> QED BY <1>1, <1>2, <1>3 DEF LayerStep

\* What the invariant says of a layer.
LEMMA LayerIsTraceable == LayerInv => KnowledgeTraceable
<1> SUFFICES ASSUME LayerInv, subject = "layer" PROVE KnowledgeTraceable
  BY DEF KnowledgeTraceable, ManifestTraceable, AllItemsOrNone
<1>1. ManifestTraceable
  BY DEF LayerInv, ManifestFacts, FactsSound, FactFacts, ManifestTraceable
<1>2. AllItemsOrNone
  BY DEF LayerInv, RecordFacts, AllUsable, AllItemsOrNone
<1> QED BY <1>1, <1>2 DEF KnowledgeTraceable

\* Every fact of an accepted layer can be traced: it names the licence of the endpoint
\* its payload came from, stays inside its text and is listed when suspect, and a search
\* left all items of a payload or none (knowledge/sources, knowledge/graph.py).
THEOREM FactsAreTraceable == Spec => []KnowledgeTraceable
<1>1. Init => LayerInv
  <2> SUFFICES ASSUME KnowledgeInit, subject = "layer" PROVE LayerInv
    BY CallsAreApart DEF LayerInv, KnowledgeCalls
  <2>1. /\ LayerShape /\ st.records = <<>> /\ st.facts = <<>> /\ st.manifest = {}
    BY DEF KnowledgeInit, LayerInit, CardsInit, RegistryInit, LayerShape
  <2>2. FactsSound(<<>>)
    <3>1. <<>> \in Seq({}) /\ DOMAIN <<>> = {}
      OBVIOUS
    <3> QED BY <3>1 DEF FactsSound
  <2> QED BY <2>1, <2>2 DEF LayerInv
<1>2. LayerInv /\ [Next]_frame => LayerInv'
  <2> SUFFICES ASSUME LayerInv, [Next]_frame PROVE LayerInv'
    OBVIOUS
  <2>1. CASE KnowledgeNext
    <3>1. CASE subject = "layer" /\ LayerStep
      BY <3>1, LayerKeeps
    <3>2. CASE subject # "layer"
      BY <2>1, <3>2, KnowledgeApart DEF LayerInv
    <3> QED BY <2>1, <3>1, <3>2 DEF KnowledgeNext, LoadDoc, Inspect, LoadRegistry
  <2>2. CASE UNCHANGED frame
    BY <2>2 DEF frame, LayerInv, LayerShape
  <2>3. CASE UNCHANGED subject /\ subject \notin KnowledgeCalls
    BY <2>3 DEF KnowledgeCalls, LayerInv
  <2> QED BY <2>1, <2>2, <2>3, CallsAreApart
<1> QED BY <1>1, <1>2, LayerIsTraceable, PTL DEF Spec
-----------------------------------------------------------------------------
(***************************************************************************)
(* The fallback store.  What is held and what passed the check and is not  *)
(* held yet exceed the limit by what the other processes have in hand.     *)
(***************************************************************************)
FallbackShape == st = [held |-> st.held, classes |-> st.classes, put |-> st.put]

Awaited(held, put) ==
    {x \in FallbackClients \X (1 .. 2) :
        \E p \in put[x[1]] : p.object \notin held /\ x[2] <= FallbackSize(p.object)}

PutFacts(put) ==
    /\ put \in [FallbackClients -> SUBSET [object : FallbackObjects, class : ObjectClasses]]
    /\ \A c \in FallbackClients :
           /\ \A p, q \in put[c] : p = q
           /\ \A p \in put[c] : FallbackSize(p.object) <= 2 /\ ~T7Bound(p.class)

FallbackFacts(held, classes, put) ==
    /\ held \subseteq FallbackObjects /\ IsFiniteSet(held)
    /\ \A k \in classes : ~T7Bound(k)
    /\ PutFacts(put)
    /\ Usage(held) + Cardinality(Awaited(held, put))
           <= FallbackTotal + (Cardinality(FallbackClients) - 1) * 2

FallbackInv ==
    subject = "fallback" => FallbackShape /\ FallbackFacts(st.held, st.classes, st.put)

\* Sizes are those of the unit chosen.
LEMMA SizeIs == \A o \in FallbackObjects : FallbackSize(o) \in 1 .. 3
  BY StorageAssumption DEF FallbackSize

\* The numbers up to one.
LEMMA UpTo == \A b \in Nat : IsFiniteSet(1 .. b) /\ Cardinality(1 .. b) = b
<1> TAKE b \in Nat
<1>1. b \in Int /\ 1 \in Int
  OBVIOUS
<1>2. IsFiniteSet(1 .. b) /\ Cardinality(1 .. b) = IF 1 > b THEN 0 ELSE b - 1 + 1
  BY <1>1, FS_Interval, Zenon
<1> QED BY <1>2

\* A block of a size has as many units.
LEMMA BlockIs ==
    ASSUME NEW x, NEW k \in 1 .. 2
    PROVE  /\ IsFiniteSet({<<x, u>> : u \in 1 .. k})
           /\ Cardinality({<<x, u>> : u \in 1 .. k}) = k
<1> DEFINE a == {<<x, 1>>}
           b == {<<x, 1>>} \cup {<<x, 2>>}
<1>1. IsFiniteSet(a) /\ Cardinality(a) = 1
  BY FS_Singleton
<1>2. IsFiniteSet(b) /\ Cardinality(b) = 2
  <2>1. <<x, 2>> \notin a
    OBVIOUS
  <2>2. IsFiniteSet(a \cup {<<x, 2>>}) /\ Cardinality(a \cup {<<x, 2>>}) = Cardinality(a) + 1
    BY <1>1, <2>1, FS_AddElement
  <2> QED BY <1>1, <2>2
<1>3. k = 1 => {<<x, u>> : u \in 1 .. k} = a
  OBVIOUS
<1>4. k = 2 => {<<x, u>> : u \in 1 .. k} = b
  OBVIOUS
<1> HIDE DEF a, b
<1> QED BY <1>1, <1>2, <1>3, <1>4

\* What is held is a finite number of units, and an object adds its own.
LEMMA UsageGrows ==
    ASSUME NEW held \in SUBSET FallbackObjects, IsFiniteSet(held)
    PROVE  /\ IsFiniteSet(Units(held)) /\ Usage(held) \in Nat
           /\ \A o \in FallbackObjects \ held :
                  FallbackSize(o) <= 2 => Usage(held \cup {o}) = Usage(held) + FallbackSize(o)
<1>1. IsFiniteSet(Units(held)) /\ Usage(held) \in Nat
  <2>1. IsFiniteSet(1 .. 3)
    BY UpTo
  <2>2. IsFiniteSet(held \X (1 .. 3))
    BY <2>1, FS_Product
  <2>3. Units(held) \subseteq held \X (1 .. 3)
    BY SizeIs DEF Units
  <2>4. IsFiniteSet(Units(held))
    BY <2>2, <2>3, FS_Subset
  <2> QED BY <2>4, FS_CardinalityType DEF Usage
<1>2. ASSUME NEW o \in FallbackObjects \ held, FallbackSize(o) <= 2
      PROVE  Usage(held \cup {o}) = Usage(held) + FallbackSize(o)
  <2> DEFINE block == {<<o, u>> : u \in 1 .. FallbackSize(o)}
  <2>0. FallbackSize(o) \in 1 .. 2
    BY <1>2, SizeIs
  <2>1. IsFiniteSet(block) /\ Cardinality(block) = FallbackSize(o)
    BY <2>0, BlockIs
  <2>2. Units(held \cup {o}) = Units(held) \cup block
    BY DEF Units
  <2>3. Units(held) \cap block = {}
    BY DEF Units
  <2> HIDE DEF block
  <2>4. Cardinality(Units(held) \cup block)
            = Cardinality(Units(held)) + Cardinality(block) - Cardinality({})
    BY <1>1, <2>1, <2>3, FS_Union
  <2>5. Cardinality({}) = 0
    BY FS_EmptySet
  <2>6. Usage(held) = Cardinality(Units(held)) /\ Usage(held \cup {o}) = Cardinality(Units(held \cup {o}))
    BY DEF Usage
  <2>7. Cardinality(Units(held) \cup block) = Usage(held) + FallbackSize(o)
    BY <1>1, <2>0, <2>1, <2>4, <2>5, <2>6
  <2> QED BY <2>2, <2>6, <2>7, Zenon
<1> QED BY <1>1, <1>2

\* What is awaited is a finite number of units.
LEMMA AwaitedFinite ==
    ASSUME NEW held, NEW put
    PROVE  IsFiniteSet(Awaited(held, put)) /\ Cardinality(Awaited(held, put)) \in Nat
<1>1. IsFiniteSet(1 .. 2)
  BY UpTo
<1>2. IsFiniteSet(FallbackClients \X (1 .. 2))
  BY <1>1, StorageAssumption, FS_Product
<1>3. IsFiniteSet(Awaited(held, put))
  BY <1>2, FS_Subset DEF Awaited
<1> QED BY <1>3, FS_CardinalityType

\* Fewer units are awaited when no client is given more to put.
LEMMA AwaitedShrinks ==
    ASSUME NEW held, NEW put, NEW more, NEW less, held \subseteq more,
           \A c \in FallbackClients : less[c] \subseteq put[c]
    PROVE  Cardinality(Awaited(more, less)) <= Cardinality(Awaited(held, put))
<1>1. Awaited(more, less) \subseteq Awaited(held, put)
  BY DEF Awaited
<1> QED BY <1>1, AwaitedFinite, FS_Subset

\* Every step at the fallback store keeps its limit.
LEMMA FallbackKeeps == ASSUME FallbackInv, subject = "fallback", FallbackNext PROVE FallbackInv'
<1>a. FallbackShape /\ FallbackFacts(st.held, st.classes, st.put)
  BY DEF FallbackInv
<1> DEFINE n == Cardinality(FallbackClients)
<1>n. n \in Nat /\ FallbackTotal \in Nat
  BY StorageAssumption, FS_CardinalityType
<1>1. ASSUME NEW c \in FallbackClients, NEW o \in FallbackObjects, NEW k \in ObjectClasses,
             FallbackCheck(c, o, k)
      PROVE  FallbackInv'
  <2> PICK p : /\ p = [object |-> o, class |-> k]
               /\ st' = [st EXCEPT !.put[c] = {p}] /\ UNCHANGED subject
    BY <1>1 DEF FallbackCheck, Step
  <2> DEFINE put == [st.put EXCEPT ![c] = {p}]
  <2>1. st'.held = st.held /\ st'.classes = st.classes /\ st'.put = put /\ FallbackShape'
    BY <1>a DEF FallbackShape, FallbackFacts, PutFacts
  <2>2. /\ ~T7Bound(k) /\ FallbackSize(o) <= 2
        /\ o \in st.held \/ Usage(st.held) + FallbackSize(o) <= FallbackTotal
    <3>1. /\ ~T7Bound(k) /\ ~(FallbackSize(o) > 2)
          /\ o \in st.held \/ ~(Usage(st.held) + FallbackSize(o) > FallbackTotal)
      BY <1>1 DEF FallbackCheck, FallbackRefuses, FALLBACK_SINGLE_OBJECT_MAX
    <3>2. FallbackSize(o) \in Nat /\ Usage(st.held) \in Nat
      BY <1>a, SizeIs, UsageGrows DEF FallbackFacts
    <3> QED BY <1>n, <3>1, <3>2
  <2>3. PutFacts(put)
    BY <1>a, <2>2 DEF FallbackFacts, PutFacts
  <2>4. p.object = o
    OBVIOUS
  <2>5. CASE o \in st.held
    <3>1. Awaited(st.held, put) \subseteq Awaited(st.held, st.put)
      BY <1>a, <2>4, <2>5 DEF Awaited, FallbackFacts, PutFacts
    <3>2. Cardinality(Awaited(st.held, put)) <= Cardinality(Awaited(st.held, st.put))
      BY <3>1, AwaitedFinite, FS_Subset
    <3>3. /\ Cardinality(Awaited(st.held, put)) \in Nat
          /\ Cardinality(Awaited(st.held, st.put)) \in Nat /\ Usage(st.held) \in Nat
      BY <1>a, AwaitedFinite, UsageGrows DEF FallbackFacts
    <3>4. FallbackFacts(st.held, st.classes, put)
      BY <1>a, <1>n, <2>3, <3>2, <3>3 DEF FallbackFacts
    <3> QED BY <2>1, <3>4 DEF FallbackInv
  <2>6. CASE o \notin st.held
    <3> DEFINE block  == {<<c, u>> : u \in 1 .. FallbackSize(o)}
               others == (FallbackClients \ {c}) \X (1 .. 2)
    <3>1. IsFiniteSet(block) /\ Cardinality(block) = FallbackSize(o) /\ FallbackSize(o) \in 1 .. 2
      <4>1. FallbackSize(o) \in 1 .. 2
        BY <2>2, SizeIs
      <4> QED BY <4>1, BlockIs
    <3>2. Awaited(st.held, put) \subseteq others \cup block
      BY <1>a, <2>4 DEF Awaited, FallbackFacts, PutFacts
    <3>3. IsFiniteSet(others) /\ Cardinality(others) = (n - 1) * 2
      <4>1. /\ IsFiniteSet(FallbackClients \ {c})
            /\ Cardinality(FallbackClients \ {c}) = n - 1
        BY StorageAssumption, FS_RemoveElement
      <4>2. IsFiniteSet(1 .. 2) /\ Cardinality(1 .. 2) = 2
        BY UpTo
      <4> QED BY <4>1, <4>2, FS_Product
    <3> HIDE DEF block, others
    <3>4. /\ IsFiniteSet(others \cup block)
          /\ Cardinality(others \cup block)
                 = Cardinality(others) + Cardinality(block) - Cardinality(others \cap block)
      BY <3>1, <3>3, FS_Union
    <3>5. Cardinality(others \cap block) \in Nat
      <4>1. IsFiniteSet(others \cap block)
        BY <3>3, FS_Intersection
      <4> QED BY <4>1, FS_CardinalityType
    <3>6. Cardinality(Awaited(st.held, put)) <= Cardinality(others \cup block)
      BY <3>2, <3>4, FS_Subset
    <3>7. Cardinality(Awaited(st.held, put)) \in Nat /\ Usage(st.held) \in Nat
      BY <1>a, AwaitedFinite, UsageGrows DEF FallbackFacts
    <3>8. Usage(st.held) + Cardinality(Awaited(st.held, put)) <= FallbackTotal + (n - 1) * 2
      BY <1>n, <2>2, <2>6, <3>1, <3>3, <3>4, <3>5, <3>6, <3>7
    <3>9. FallbackFacts(st.held, st.classes, put)
      BY <1>a, <2>3, <3>8 DEF FallbackFacts
    <3> QED BY <2>1, <3>9 DEF FallbackInv
  <2> QED BY <2>5, <2>6
<1>2. ASSUME NEW c \in FallbackClients, FallbackPut(c) PROVE FallbackInv'
  <2> PICK p \in st.put[c] :
        /\ st' = [st EXCEPT !.held = @ \cup {p.object}, !.classes = @ \cup {p.class}, !.put[c] = {}]
        /\ UNCHANGED subject
    BY <1>2 DEF FallbackPut, Step
  <2> DEFINE put == [st.put EXCEPT ![c] = {}]
             held == st.held \cup {p.object}
  <2>1. /\ st'.held = held /\ st'.classes = st.classes \cup {p.class}
        /\ st'.put = put /\ FallbackShape'
    BY <1>a DEF FallbackShape, FallbackFacts, PutFacts
  <2>2. /\ p.object \in FallbackObjects /\ FallbackSize(p.object) <= 2 /\ ~T7Bound(p.class)
        /\ FallbackSize(p.object) \in 1 .. 2
    BY <1>a, SizeIs DEF FallbackFacts, PutFacts
  <2>3. PutFacts(put) /\ held \subseteq FallbackObjects /\ IsFiniteSet(held)
    BY <1>a, <2>2, FS_AddElement DEF FallbackFacts, PutFacts
  <2>4. /\ Cardinality(Awaited(held, put)) \in Nat /\ Cardinality(Awaited(st.held, st.put)) \in Nat
        /\ Usage(st.held) \in Nat
    BY <1>a, AwaitedFinite, UsageGrows DEF FallbackFacts
  <2>5. CASE p.object \in st.held
    <3>1. held = st.held
      BY <2>5
    <3>2. \A d \in FallbackClients : put[d] \subseteq st.put[d]
      BY <1>a DEF FallbackFacts, PutFacts
    <3>3. Cardinality(Awaited(held, put)) <= Cardinality(Awaited(st.held, st.put))
      BY <3>1, <3>2, AwaitedShrinks
    <3>4. FallbackFacts(held, st.classes \cup {p.class}, put)
      <4> HIDE DEF put, held
      <4>1. Usage(held) = Usage(st.held)
        BY <3>1
      <4> QED BY <1>a, <1>n, <2>2, <2>3, <2>4, <3>3, <4>1 DEF FallbackFacts
    <3> QED BY <2>1, <3>4 DEF FallbackInv
  <2>6. CASE p.object \notin st.held
    <3> DEFINE block == {<<c, u>> : u \in 1 .. FallbackSize(p.object)}
    <3>1. IsFiniteSet(block) /\ Cardinality(block) = FallbackSize(p.object)
      BY <2>2, BlockIs
    <3>2. Usage(held) = Usage(st.held) + FallbackSize(p.object)
      BY <1>a, <2>2, <2>6, UsageGrows DEF FallbackFacts
    <3>3. /\ Awaited(held, put) \cup block \subseteq Awaited(st.held, st.put)
          /\ Awaited(held, put) \cap block = {}
      <4>1. Awaited(held, put) \subseteq Awaited(st.held, st.put)
        BY <1>a DEF Awaited, FallbackFacts, PutFacts
      <4>2. block \subseteq Awaited(st.held, st.put)
        BY <2>2, <2>6 DEF Awaited
      <4>3. Awaited(held, put) \cap block = {}
        BY <1>a DEF Awaited, FallbackFacts, PutFacts
      <4> QED BY <4>1, <4>2, <4>3
    <3> HIDE DEF block, put, held
    <3>4. /\ IsFiniteSet(Awaited(held, put) \cup block)
          /\ Cardinality(Awaited(held, put) \cup block)
                 = Cardinality(Awaited(held, put)) + Cardinality(block)
      <4>1. Cardinality(Awaited(held, put) \cap block) = 0
        BY <3>3, FS_EmptySet
      <4>2. IsFiniteSet(Awaited(held, put))
        BY AwaitedFinite
      <4>3. /\ IsFiniteSet(Awaited(held, put) \cup block)
            /\ Cardinality(Awaited(held, put) \cup block)
                   = Cardinality(Awaited(held, put)) + Cardinality(block)
                         - Cardinality(Awaited(held, put) \cap block)
        BY <3>1, <4>2, FS_Union
      <4> QED BY <2>2, <2>4, <3>1, <4>1, <4>3
    <3>5. Cardinality(Awaited(held, put) \cup block) <= Cardinality(Awaited(st.held, st.put))
      BY <3>3, AwaitedFinite, FS_Subset
    <3>6. Usage(held) + Cardinality(Awaited(held, put)) <= FallbackTotal + (n - 1) * 2
      BY <1>a, <1>n, <2>2, <2>4, <3>1, <3>2, <3>4, <3>5 DEF FallbackFacts
    <3>7. FallbackFacts(held, st.classes \cup {p.class}, put)
      BY <1>a, <2>2, <2>3, <3>6 DEF FallbackFacts
    <3> QED BY <2>1, <3>7 DEF FallbackInv
  <2> QED BY <2>5, <2>6
<1>3. ASSUME NEW c \in FallbackClients, FallbackKilled(c) PROVE FallbackInv'
  <2> DEFINE put == [st.put EXCEPT ![c] = {}]
  <2>1. /\ st'.held = st.held /\ st'.classes = st.classes /\ st'.put = put /\ FallbackShape'
        /\ UNCHANGED subject
    BY <1>3, <1>a DEF FallbackKilled, Step, FallbackShape, FallbackFacts, PutFacts
  <2>2. PutFacts(put) /\ \A d \in FallbackClients : put[d] \subseteq st.put[d]
    BY <1>a DEF FallbackFacts, PutFacts
  <2> HIDE DEF put
  <2>3. Cardinality(Awaited(st.held, put)) <= Cardinality(Awaited(st.held, st.put))
    BY <2>2, AwaitedShrinks
  <2>4. /\ Cardinality(Awaited(st.held, put)) \in Nat /\ Cardinality(Awaited(st.held, st.put)) \in Nat
        /\ Usage(st.held) \in Nat
    BY <1>a, AwaitedFinite, UsageGrows DEF FallbackFacts
  <2>5. FallbackFacts(st.held, st.classes, put)
    BY <1>a, <1>n, <2>2, <2>3, <2>4 DEF FallbackFacts
  <2> QED BY <2>1, <2>5 DEF FallbackInv
<1> QED BY <1>1, <1>2, <1>3 DEF FallbackNext

\* Nothing is held or awaited at first.
LEMMA FallbackStarts == FallbackInit => FallbackInv
<1> SUFFICES ASSUME FallbackInit PROVE FallbackShape /\ FallbackFacts(st.held, st.classes, st.put)
  BY DEF FallbackInv
<1> DEFINE put == [c \in FallbackClients |-> {}]
<1>1. FallbackShape /\ st.held = {} /\ st.classes = {} /\ st.put = put
  BY DEF FallbackInit, FallbackShape
<1>2. PutFacts(put)
  BY DEF PutFacts
<1>3. Usage({}) = 0
  <2>1. Units({}) = {}
    BY DEF Units
  <2> QED BY <2>1, FS_EmptySet DEF Usage
<1>4. Cardinality(Awaited({}, put)) = 0
  <2>1. Awaited({}, put) = {}
    BY DEF Awaited
  <2> QED BY <2>1, FS_EmptySet
<1>5. Cardinality(FallbackClients) >= 1 /\ Cardinality(FallbackClients) \in Nat
  BY StorageAssumption, FS_EmptySet, FS_CardinalityType
<1>6. IsFiniteSet({})
  BY FS_EmptySet
<1> HIDE DEF put
<1>7. FallbackFacts({}, {}, put)
  BY <1>2, <1>3, <1>4, <1>5, <1>6, StorageAssumption DEF FallbackFacts
<1> QED BY <1>1, <1>7
-----------------------------------------------------------------------------
(***************************************************************************)
(* The T7 volume and its binding.                                          *)
(***************************************************************************)
\* What a probe says of the answer it was given.
ProbeFacts(p) ==
    /\ p.is.exit = "proceed" => p.of.kind = "answer" /\ p.of.lines = <<"expected">>
    /\ p.is.exit = "fail_closed" => p.of.kind = "answer" /\ p.of.lines = <<"foreign">>

MountInv ==
    subject = "mount" =>
        /\ st = [config |-> st.config, loaded |-> st.loaded, answer |-> st.answer,
                 swaps |-> st.swaps, probe |-> st.probe]
        /\ st.answer \in ProviderAnswers
        /\ \A p \in st.probe : ProbeFacts(p)

\* A probe lets nobody proceed but on the one line that names the volume.
LEMMA ProbeIsExact ==
    ASSUME NEW a \in ProviderAnswers
    PROVE  /\ ProbeMount(a).exit = "proceed" => a.kind = "answer" /\ a.lines = <<"expected">>
           /\ ProbeMount(a).exit = "fail_closed" => a.kind = "answer" /\ a.lines = <<"foreign">>
<1>1. CASE a.kind # "answer"
  <2>1. VerifyIdentity(a).kind = "unavailable"
    BY <1>1 DEF VerifyIdentity
  <2>2. ProbeMount(a).exit = "wait_storage"
    BY <2>1 DEF ProbeMount
  <2> QED BY <2>2
<1>2. CASE a.kind = "answer"
  <2>1. PICK n \in 0 .. 2 : a.lines \in [1 .. n -> Uuids]
    BY <1>2 DEF ProviderAnswers
  <2>2. CASE DOMAIN a.lines # {1} \/ a.lines[1] = "malformed"
    <3>1. VerifyIdentity(a).kind = "unavailable"
      BY <1>2, <2>2 DEF VerifyIdentity, ParsedUuid
    <3>2. ProbeMount(a).exit = "wait_storage"
      BY <3>1 DEF ProbeMount
    <3> QED BY <3>2
  <2>3. CASE DOMAIN a.lines = {1} /\ a.lines[1] # "malformed"
    <3>1. n = 1
      <4>1. DOMAIN a.lines = 1 .. n
        BY <2>1
      <4>2. CASE n = 0
        BY <2>3, <4>1, <4>2
      <4>3. CASE n = 2
        BY <2>3, <4>1, <4>3
      <4> QED BY <4>2, <4>3
    <3>2. a.lines[1] \in {"expected", "foreign"} /\ a.lines = <<a.lines[1]>>
      BY <2>1, <2>3, <3>1 DEF Uuids
    <3>3. ParsedUuid(a.lines) = {a.lines[1]}
      BY <2>3 DEF ParsedUuid
    <3>4. CASE a.lines[1] = "expected"
      <4>1. VerifyIdentity(a).kind = "match"
        BY <1>2, <3>3, <3>4 DEF VerifyIdentity
      <4>2. ProbeMount(a).exit = "proceed"
        BY <4>1 DEF ProbeMount
      <4> QED BY <1>2, <3>2, <3>4, <4>2
    <3>5. CASE a.lines[1] = "foreign"
      <4>1. VerifyIdentity(a).kind = "wrong_volume"
        <5>1. ParsedUuid(a.lines) # {} /\ ParsedUuid(a.lines) # {"expected"}
          BY <3>3, <3>5
        <5> QED BY <1>2, <5>1 DEF VerifyIdentity
      <4>2. ProbeMount(a).exit = "fail_closed"
        BY <4>1 DEF ProbeMount
      <4> QED BY <1>2, <3>2, <3>5, <4>2
    <3> QED BY <3>2, <3>4, <3>5
  <2> QED BY <2>2, <2>3
<1> QED BY <1>1, <1>2

\* Every step at the mount keeps the probes exact.
LEMMA MountKeeps == ASSUME MountInv, subject = "mount", MountNext PROVE MountInv'
<1>1. CASE LoadExpectedIdentity
  BY <1>1 DEF LoadExpectedIdentity, Step, MountInv
<1>2. CASE SwapVolume
  <2> PICK a \in ProviderAnswers : st' = [st EXCEPT !.answer = a, !.swaps = @ + 1] /\ UNCHANGED subject
    BY <1>2 DEF SwapVolume, Step
  <2> QED BY DEF MountInv
<1>3. CASE RunProbe
  <2> PICK p : /\ p = [of |-> st.answer, is |-> ProbeMount(st.answer)]
               /\ st' = [st EXCEPT !.probe = {p}] /\ UNCHANGED subject
    BY <1>3 DEF RunProbe, Step
  <2>1. p.of = st.answer /\ p.is = ProbeMount(st.answer)
    OBVIOUS
  <2>2. ProbeFacts(p)
    BY <2>1, ProbeIsExact DEF ProbeFacts, MountInv
  <2> QED BY <2>2 DEF MountInv
<1> QED BY <1>1, <1>2, <1>3 DEF MountNext

BindingShape ==
    st = [used |-> st.used, free |-> st.free, request |-> st.request, preflight |-> st.preflight,
          evidence |-> st.evidence, answer |-> st.answer]

AnswerBacked(a, used, free, request, preflight) ==
    /\ a.binding = "ACTIVE" =>
           /\ used \in 0 .. 400 /\ free >= 100 /\ request /\ preflight
           /\ a.attempt = "ACTIVE" /\ a.waits = {}
    /\ a.attempt = "ACTIVE" <=> a.waits = {}

BindingInv ==
    subject = "binding" =>
        /\ BindingShape
        /\ st.used \in Int /\ st.free \in Int
        /\ \A a \in st.answer : AnswerBacked(a, st.used, st.free, st.request, st.preflight)

\* A receipt that is built is backed.
LEMMA BindingKeeps == ASSUME BindingInv, subject = "binding", BuildReceipts PROVE BindingInv'
<1>a. BindingShape /\ st.used \in Int /\ st.free \in Int
  BY DEF BindingInv
<1> PICK a : /\ a = [binding |-> BindingStatus(st), attempt |-> AttemptStatus(st),
                     waits |-> Missing(st.evidence)]
             /\ st' = [st EXCEPT !.answer = {a}] /\ UNCHANGED subject
  BY DEF BuildReceipts, Step
<1>1. /\ a.binding = BindingStatus(st) /\ a.attempt = AttemptStatus(st)
      /\ a.waits = Missing(st.evidence)
  OBVIOUS
<1>2. AnswerBacked(a, st.used, st.free, st.request, st.preflight)
  <2>1. a.attempt = "ACTIVE" <=> a.waits = {}
    BY <1>1 DEF AttemptStatus
  <2>2. ASSUME a.binding = "ACTIVE"
        PROVE  /\ StorageQuota(st.used, st.free) = "OK" /\ st.request /\ st.preflight
               /\ a.waits = {}
    BY <1>1, <2>2 DEF BindingStatus
  <2>3. StorageQuota(st.used, st.free) = "OK" => st.used \in 0 .. 400 /\ st.free >= 100
    BY <1>a DEF StorageQuota, DEFAULT_SRF_ALLOCATION_GIB, DEFAULT_MIN_FREE_RESERVE_GIB
  <2> QED BY <2>1, <2>2, <2>3 DEF AnswerBacked
<1>3. /\ st'.used = st.used /\ st'.free = st.free /\ st'.request = st.request
      /\ st'.preflight = st.preflight /\ st'.answer = {a} /\ BindingShape'
  BY <1>a DEF BindingShape
<1> QED BY <1>a, <1>2, <1>3 DEF BindingInv
-----------------------------------------------------------------------------
(***************************************************************************)
(* The key directory.  Until two probes create a key at once, a probe      *)
(* holds the key on disk, and one that waits to create it is alone.        *)
(***************************************************************************)
KeyShape ==
    st = [key |-> st.key, damaged |-> st.damaged, private |-> st.private,
          authority |-> st.authority, keyring |-> st.keyring, made |-> st.made,
          raced |-> st.raced, at |-> st.at, mine |-> st.mine, probes |-> st.probes,
          receipts |-> st.receipts]

\* What holds until a race.
KeyFacts(key, keyring, at, mine, receipts) ==
    /\ \A j, k \in key : j = k
    /\ \A p \in KeyProbers : at[p] \in {"loaded", "bound"} => key = {mine[p]}
    /\ \A p \in KeyProbers : at[p] = "bound" => keyring = key
    /\ \A p \in KeyProbers : at[p] = "absent" =>
           key = {} /\ \A q \in KeyProbers : at[q] = "absent" => q = p
    /\ \A r \in receipts : r.status = "ACTIVE" => key = {r.key} /\ keyring = {r.key}

KeyInv ==
    subject = "keyring" =>
        /\ KeyShape
        /\ st.raced \in BOOLEAN
        /\ st.at \in [KeyProbers -> {"idle", "absent", "loaded", "bound"}]
        /\ DOMAIN st.mine = KeyProbers
        /\ st.raced = FALSE => KeyFacts(st.key, st.keyring, st.at, st.mine, st.receipts)

\* A probe that ends without an ACTIVE receipt changes nothing that was promised.
LEMMA KeyEnds ==
    ASSUME KeyInv, subject = "keyring", NEW p \in KeyProbers, NEW status, NEW probes,
           st' = [Ends(p, status) EXCEPT !.probes = probes], UNCHANGED subject,
           status = "ACTIVE" => st.at[p] = "bound"
    PROVE  KeyInv'
<1>a. /\ KeyShape /\ st.raced \in BOOLEAN
      /\ st.at \in [KeyProbers -> {"idle", "absent", "loaded", "bound"}] /\ DOMAIN st.mine = KeyProbers
      /\ st.raced = FALSE => KeyFacts(st.key, st.keyring, st.at, st.mine, st.receipts)
  BY DEF KeyInv
<1> DEFINE at == [st.at EXCEPT ![p] = "idle"]
<1> PICK r : r = [status |-> status, key |-> IF status = "ACTIVE" THEN st.mine[p] ELSE 0]
  OBVIOUS
<1>1. r.status = status /\ (status = "ACTIVE" => r.key = st.mine[p])
  OBVIOUS
<1>2. /\ st'.key = st.key /\ st'.keyring = st.keyring /\ st'.raced = st.raced /\ st'.mine = st.mine
      /\ st'.at = at /\ st'.receipts = st.receipts \cup {r} /\ KeyShape'
  BY <1>a DEF Ends, KeyShape
<1>3. ASSUME st.raced = FALSE PROVE KeyFacts(st.key, st.keyring, at, st.mine, st.receipts \cup {r})
  BY <1>a, <1>1, <1>3 DEF KeyFacts
<1>4. at \in [KeyProbers -> {"idle", "absent", "loaded", "bound"}]
  BY <1>a
<1> HIDE DEF at
<1> QED BY <1>a, <1>2, <1>3, <1>4 DEF KeyInv

\* Every step at the key directory keeps the active key bound.
LEMMA KeyKeeps == ASSUME KeyInv, subject = "keyring", KeyNext PROVE KeyInv'
<1>a. /\ KeyShape /\ st.raced \in BOOLEAN
      /\ st.at \in [KeyProbers -> {"idle", "absent", "loaded", "bound"}] /\ DOMAIN st.mine = KeyProbers
      /\ st.raced = FALSE => KeyFacts(st.key, st.keyring, st.at, st.mine, st.receipts)
  BY DEF KeyInv
<1>1. CASE RemoveKey
  <2>1. /\ st' = [st EXCEPT !.key = {}, !.receipts = {}] /\ UNCHANGED subject
        /\ \A p \in KeyProbers : st.at[p] = "idle"
    BY <1>1 DEF RemoveKey, Step
  <2>2. /\ st'.key = {} /\ st'.keyring = st.keyring /\ st'.raced = st.raced /\ st'.mine = st.mine
        /\ st'.at = st.at /\ st'.receipts = {} /\ KeyShape'
    BY <1>a, <2>1 DEF KeyShape
  <2>3. KeyFacts({}, st.keyring, st.at, st.mine, {})
    BY <2>1 DEF KeyFacts
  <2> QED BY <1>a, <2>2, <2>3 DEF KeyInv
<1>2. ASSUME NEW p \in KeyProbers, LoadKey(p) PROVE KeyInv'
  <2> PICK k : k = CHOOSE x \in st.key : TRUE
    OBVIOUS
  <2>1. st' = [st EXCEPT !.at[p] = "loaded", !.mine[p] = k, !.probes = @ + 1] /\ UNCHANGED subject
    BY <1>2 DEF LoadKey, Step
  <2>2. k \in st.key
    BY <1>2 DEF LoadKey
  <2> DEFINE at == [st.at EXCEPT ![p] = "loaded"]
             mine == [st.mine EXCEPT ![p] = k]
  <2>3. /\ st'.key = st.key /\ st'.keyring = st.keyring /\ st'.raced = st.raced /\ st'.mine = mine
        /\ st'.at = at /\ st'.receipts = st.receipts /\ KeyShape'
    BY <1>a, <2>1 DEF KeyShape
  <2>4. ASSUME st.raced = FALSE PROVE KeyFacts(st.key, st.keyring, at, mine, st.receipts)
    BY <1>a, <2>2, <2>4 DEF KeyFacts
  <2>5. at \in [KeyProbers -> {"idle", "absent", "loaded", "bound"}] /\ DOMAIN mine = KeyProbers
    BY <1>a
  <2> HIDE DEF at, mine
  <2> QED BY <1>a, <2>1, <2>3, <2>4, <2>5 DEF KeyInv
<1>3. ASSUME NEW p \in KeyProbers, LoadDamagedKey(p) PROVE KeyInv'
  BY <1>3, KeyEnds DEF LoadDamagedKey, Step, Ends
<1>4. ASSUME NEW p \in KeyProbers, NEW b \in BOOLEAN, FindKeyAbsent(p, b) PROVE KeyInv'
  <2>1. CASE st' = [Ends(p, "BLOCKED_NATIVE_KEY_ABSENT") EXCEPT !.probes = @ + 1] /\ UNCHANGED subject
    BY <2>1, KeyEnds DEF Ends
  <2>2. CASE /\ st' = [st EXCEPT !.at[p] = "absent", !.probes = @ + 1,
                                 !.raced = @ \/ \E q \in KeyProbers : st.at[q] = "absent"]
             /\ UNCHANGED subject
    <3> PICK raced : raced = (st.raced \/ \E q \in KeyProbers : st.at[q] = "absent")
      OBVIOUS
    <3>1. raced \in BOOLEAN /\ (raced = FALSE =>
              st.raced = FALSE /\ \A q \in KeyProbers : st.at[q] # "absent")
      BY <1>a
    <3>2. st' = [st EXCEPT !.at[p] = "absent", !.probes = @ + 1, !.raced = raced]
      BY <2>2
    <3> DEFINE at == [st.at EXCEPT ![p] = "absent"]
    <3>3. /\ st'.key = st.key /\ st'.keyring = st.keyring /\ st'.raced = raced /\ st'.mine = st.mine
          /\ st'.at = at /\ st'.receipts = st.receipts /\ KeyShape'
      BY <1>a, <3>2 DEF KeyShape
    <3>4. st.key = {}
      BY <1>4 DEF FindKeyAbsent
    <3>5. ASSUME raced = FALSE PROVE KeyFacts(st.key, st.keyring, at, st.mine, st.receipts)
      BY <1>a, <3>1, <3>4, <3>5 DEF KeyFacts
    <3>6. at \in [KeyProbers -> {"idle", "absent", "loaded", "bound"}]
      BY <1>a
    <3> HIDE DEF at
    <3> QED BY <1>a, <2>2, <3>1, <3>3, <3>5, <3>6 DEF KeyInv
  <2> QED BY <1>4, <2>1, <2>2 DEF FindKeyAbsent, Step
<1>5. ASSUME NEW p \in KeyProbers, CreateKey(p) PROVE KeyInv'
  <2> PICK raced, k : raced = (st.raced \/ st.key # {}) /\ k = st.made + 1
    OBVIOUS
  <2>1. raced \in BOOLEAN /\ (raced = FALSE => st.raced = FALSE /\ st.key = {})
    BY <1>a
  <2>2. /\ st' = [st EXCEPT !.at[p] = "loaded", !.made = k, !.key = {k}, !.mine[p] = k,
                            !.raced = raced]
        /\ UNCHANGED subject /\ st.at[p] = "absent"
    BY <1>5 DEF CreateKey, Step
  <2> DEFINE at == [st.at EXCEPT ![p] = "loaded"]
             mine == [st.mine EXCEPT ![p] = k]
  <2>3. /\ st'.key = {k} /\ st'.keyring = st.keyring /\ st'.raced = raced /\ st'.mine = mine
        /\ st'.at = at /\ st'.receipts = st.receipts /\ KeyShape'
    BY <1>a, <2>2 DEF KeyShape
  <2>4. ASSUME raced = FALSE PROVE KeyFacts({k}, st.keyring, at, mine, st.receipts)
    <3>1. KeyFacts(st.key, st.keyring, st.at, st.mine, st.receipts) /\ st.key = {}
      BY <1>a, <2>1, <2>4
    <3>2. \A q \in KeyProbers \ {p} : st.at[q] = "idle"
      BY <1>a, <2>2, <3>1 DEF KeyFacts
    <3>3. \A r \in st.receipts : r.status # "ACTIVE"
      BY <3>1 DEF KeyFacts
    <3> QED BY <1>a, <2>2, <3>2, <3>3 DEF KeyFacts
  <2>5. at \in [KeyProbers -> {"idle", "absent", "loaded", "bound"}] /\ DOMAIN mine = KeyProbers
    BY <1>a
  <2> HIDE DEF at, mine
  <2> QED BY <1>a, <2>1, <2>2, <2>3, <2>4, <2>5 DEF KeyInv
<1>6. ASSUME NEW p \in KeyProbers, WriteKeyring(p) PROVE KeyInv'
  <2>1. /\ st' = [st EXCEPT !.at[p] = "bound", !.keyring = {st.mine[p]}] /\ UNCHANGED subject
        /\ st.at[p] = "loaded"
    BY <1>6 DEF WriteKeyring, Step
  <2> DEFINE at == [st.at EXCEPT ![p] = "bound"]
  <2>2. /\ st'.key = st.key /\ st'.keyring = {st.mine[p]} /\ st'.raced = st.raced
        /\ st'.mine = st.mine /\ st'.at = at /\ st'.receipts = st.receipts /\ KeyShape'
    BY <1>a, <2>1 DEF KeyShape
  <2>3. ASSUME st.raced = FALSE PROVE KeyFacts(st.key, {st.mine[p]}, at, st.mine, st.receipts)
    BY <1>a, <2>1, <2>3 DEF KeyFacts
  <2>4. at \in [KeyProbers -> {"idle", "absent", "loaded", "bound"}]
    BY <1>a
  <2> HIDE DEF at
  <2> QED BY <1>a, <2>1, <2>2, <2>3, <2>4 DEF KeyInv
<1>7. ASSUME NEW p \in KeyProbers, FinishProbe(p) PROVE KeyInv'
  <2> PICK status : status = IF st.private /\ st.authority THEN "ACTIVE" ELSE "PARTIAL_NATIVE_EVIDENCE"
    OBVIOUS
  <2>1. st' = Ends(p, status) /\ UNCHANGED subject /\ st.at[p] = "bound"
    BY <1>7, Zenon DEF FinishProbe, Step
  <2>2. Ends(p, status) = [Ends(p, status) EXCEPT !.probes = st.probes]
    BY <1>a DEF KeyShape, Ends
  <2> QED BY <2>1, <2>2, KeyEnds
<1>8. ASSUME NEW p \in KeyProbers, ProbeKilled(p) PROVE KeyInv'
  <2>1. st' = [st EXCEPT !.at[p] = "idle"] /\ UNCHANGED subject
    BY <1>8 DEF ProbeKilled, Step
  <2> DEFINE at == [st.at EXCEPT ![p] = "idle"]
  <2>2. /\ st'.key = st.key /\ st'.keyring = st.keyring /\ st'.raced = st.raced
        /\ st'.mine = st.mine /\ st'.at = at /\ st'.receipts = st.receipts /\ KeyShape'
    BY <1>a, <2>1 DEF KeyShape
  <2>3. ASSUME st.raced = FALSE PROVE KeyFacts(st.key, st.keyring, at, st.mine, st.receipts)
    BY <1>a, <2>3 DEF KeyFacts
  <2>4. at \in [KeyProbers -> {"idle", "absent", "loaded", "bound"}]
    BY <1>a
  <2> HIDE DEF at
  <2> QED BY <1>a, <2>1, <2>2, <2>3, <2>4 DEF KeyInv
<1> QED BY <1>1, <1>2, <1>3, <1>4, <1>5, <1>6, <1>7, <1>8 DEF KeyNext

StorageInv == FallbackInv /\ MountInv /\ BindingInv /\ KeyInv

\* Bytes and keys go only where the volume or the keyring was proved: any number of
\* processes put at most one object each, but one, beyond the fallback's limit and nothing
\* that belongs on the T7; a probe proceeds on the expected volume alone; an ACTIVE binding
\* is backed; and the key an ACTIVE receipt names is the one on disk and in the keyring
\* unless two probes created one at once (cas/fallback.py, cas/mount_state.py,
\* cas/t7_binding.py, transport/native_keyring.py).
THEOREM StorageIsProven == Spec => []StorageProven
<1>1. Init => StorageInv
  <2> SUFFICES ASSUME StorageInit PROVE StorageInv
    BY CallsAreApart DEF StorageInv, FallbackInv, MountInv, BindingInv, KeyInv, StorageCalls
  <2>1. CASE FallbackInit
    <3>1. subject = "fallback"
      BY <2>1 DEF FallbackInit
    <3> QED BY <2>1, <3>1, FallbackStarts DEF StorageInv, MountInv, BindingInv, KeyInv
  <2>2. CASE MountInit
    BY <2>2 DEF MountInit, StorageInv, FallbackInv, MountInv, BindingInv, KeyInv
  <2>3. CASE BindingInit
    BY <2>3 DEF BindingInit, StorageInv, FallbackInv, MountInv, BindingInv, BindingShape, KeyInv
  <2>4. CASE KeyInit
    <3>1. /\ KeyShape /\ st.key = {} /\ st.keyring = {} /\ st.raced = FALSE /\ st.receipts = {}
          /\ st.at = [p \in KeyProbers |-> "idle"] /\ st.mine = [p \in KeyProbers |-> 0]
          /\ subject = "keyring"
      BY <2>4 DEF KeyInit, KeyShape
    <3>2. KeyFacts(st.key, st.keyring, st.at, st.mine, st.receipts)
      BY <3>1 DEF KeyFacts
    <3> QED BY <3>1, <3>2 DEF StorageInv, FallbackInv, MountInv, BindingInv, KeyInv
  <2> QED BY <2>1, <2>2, <2>3, <2>4 DEF StorageInit
<1>2. StorageInv /\ [Next]_frame => StorageInv'
  <2> SUFFICES ASSUME StorageInv, [Next]_frame PROVE StorageInv'
    OBVIOUS
  <2>1. CASE StorageNext
    <3>1. ASSUME subject = "fallback", FallbackNext PROVE StorageInv'
      BY <3>1, <2>1, FallbackKeeps, StorageApart DEF StorageInv, MountInv, BindingInv, KeyInv
    <3>2. ASSUME subject = "mount", MountNext PROVE StorageInv'
      BY <3>2, <2>1, MountKeeps, StorageApart DEF StorageInv, FallbackInv, BindingInv, KeyInv
    <3>3. ASSUME subject = "binding", BuildReceipts PROVE StorageInv'
      BY <3>3, <2>1, BindingKeeps, StorageApart DEF StorageInv, FallbackInv, MountInv, KeyInv
    <3>4. ASSUME subject = "keyring", KeyNext PROVE StorageInv'
      BY <3>4, <2>1, KeyKeeps, StorageApart DEF StorageInv, FallbackInv, MountInv, BindingInv
    <3> QED BY <2>1, <3>1, <3>2, <3>3, <3>4 DEF StorageNext
  <2>2. CASE UNCHANGED frame
    BY <2>2 DEF frame, StorageInv, FallbackInv, FallbackShape, MountInv, BindingInv, BindingShape,
                KeyInv, KeyShape
  <2>3. CASE UNCHANGED subject /\ subject \notin StorageCalls
    BY <2>3 DEF StorageCalls, StorageInv, FallbackInv, MountInv, BindingInv, KeyInv
  <2> QED BY <2>1, <2>2, <2>3, CallsAreApart
<1>3. StorageInv => StorageProven
  <2> SUFFICES ASSUME StorageInv PROVE StorageProven
    OBVIOUS
  <2>1. FallbackBounded
    <3> SUFFICES ASSUME subject = "fallback" PROVE FallbackBounded
      BY DEF FallbackBounded
    <3>1. FallbackFacts(st.held, st.classes, st.put)
      BY DEF StorageInv, FallbackInv
    <3>2. Usage(st.held) \in Nat /\ Cardinality(Awaited(st.held, st.put)) \in Nat
      BY <3>1, UsageGrows, AwaitedFinite DEF FallbackFacts
    <3>3. Cardinality(FallbackClients) \in Nat /\ FallbackTotal \in Nat
      BY StorageAssumption, FS_CardinalityType
    <3> QED BY <3>1, <3>2, <3>3 DEF FallbackFacts, FallbackBounded, FALLBACK_SINGLE_OBJECT_MAX
  <2>2. ProceedOnlyOnExpected
    BY DEF StorageInv, MountInv, ProbeFacts, ProceedOnlyOnExpected
  <2>3. BindingIsBacked
    BY DEF StorageInv, BindingInv, AnswerBacked, BindingIsBacked
  <2>4. ActiveKeyIsBound
    <3> SUFFICES ASSUME subject = "keyring", ~st.raced PROVE ActiveKeyIsBound
      BY DEF ActiveKeyIsBound
    <3>1. st.raced = FALSE
      BY DEF StorageInv, KeyInv
    <3> QED BY <3>1 DEF StorageInv, KeyInv, KeyFacts, ActiveKeyIsBound
  <2> QED BY <2>1, <2>2, <2>3, <2>4 DEF StorageProven
<1> QED BY <1>1, <1>2, <1>3, PTL DEF Spec
-----------------------------------------------------------------------------
(***************************************************************************)
(* Release: the capability truth ledger.                                   *)
(***************************************************************************)
\* What is declared of a component: it does not wait for "ACTIVE", and a key receipt
\* has no smoke of its own.
Declared(k) ==
    /\ k.wait # "ACTIVE" /\ k.smoked \in BOOLEAN
    /\ k.kind = "production_key_receipt" => k.smoked = FALSE

WaitNames == {"WAIT_CAPABILITY", "WAIT_LICENSE", "WAIT_TOOLCHAIN", "WAIT_COMPUTE_NODE",
              "WAIT_AUTHORITY", "WAIT_COMPUTE_TARGET", "WAIT_T7_BINDING"}

\* Every component is declared so.
LEMMA ComponentsDeclared == \A c \in DOMAIN COMPONENTS : Declared(COMPONENTS[c])
<1>0. ASSUME NEW kind, NEW stage, NEW wait \in WaitNames, NEW smoked \in BOOLEAN
      PROVE  kind # "production_key_receipt" \/ smoked = FALSE =>
                 Declared(Component(kind, stage, wait, smoked))
  BY DEF Component, Declared, WaitNames
<1>w. /\ "WAIT_CAPABILITY" \in WaitNames /\ "WAIT_LICENSE" \in WaitNames
      /\ "WAIT_TOOLCHAIN" \in WaitNames /\ "WAIT_COMPUTE_NODE" \in WaitNames
      /\ "WAIT_AUTHORITY" \in WaitNames /\ "WAIT_COMPUTE_TARGET" \in WaitNames
      /\ "WAIT_T7_BINDING" \in WaitNames /\ TRUE \in BOOLEAN /\ FALSE \in BOOLEAN
      /\ "python_import" # "production_key_receipt"
      /\ "native_executable" # "production_key_receipt"
      /\ "stage_receipt" # "production_key_receipt"
  BY DEF WaitNames
<1>1. \A c \in DOMAIN ImportedComponents : Declared(ImportedComponents[c])
  <2>1. DOMAIN ImportedComponents = {"numpy", "flint"}
    BY DEF ImportedComponents
  <2>2. Declared(ImportedComponents["numpy"]) /\ Declared(ImportedComponents["flint"])
    BY <1>0, <1>w, Zenon DEF ImportedComponents
  <2> QED BY <2>1, <2>2, Zenon
<1>2. \A c \in DOMAIN NativeComponents : Declared(NativeComponents[c])
  <2>1. DOMAIN NativeComponents = {"gap"}
    BY DEF NativeComponents
  <2>2. Declared(NativeComponents["gap"])
    BY <1>0, <1>w, Zenon DEF NativeComponents
  <2> QED BY <2>1, <2>2, Zenon
<1>3. \A c \in DOMAIN ReceiptComponents : Declared(ReceiptComponents[c])
  <2>1. DOMAIN ReceiptComponents = {"lean", "rocq", "openalex", "pysr", "ripser", "diffrax"}
    BY DEF ReceiptComponents
  <2>2. /\ Declared(ReceiptComponents["lean"]) /\ Declared(ReceiptComponents["rocq"])
        /\ Declared(ReceiptComponents["openalex"]) /\ Declared(ReceiptComponents["pysr"])
        /\ Declared(ReceiptComponents["ripser"]) /\ Declared(ReceiptComponents["diffrax"])
    BY <1>0, <1>w, Zenon DEF ReceiptComponents
  <2> QED BY <2>1, <2>2, Zenon
<1>4. \A c \in DOMAIN ProtectedComponents : Declared(ProtectedComponents[c])
  <2>1. DOMAIN ProtectedComponents = {"petsc", "signer", "sandbox", "t7"}
    BY DEF ProtectedComponents
  <2>2. /\ Declared(ProtectedComponents["petsc"]) /\ Declared(ProtectedComponents["signer"])
        /\ Declared(ProtectedComponents["sandbox"]) /\ Declared(ProtectedComponents["t7"])
    BY <1>0, <1>w, Zenon DEF ProtectedComponents
  <2> QED BY <2>1, <2>2, Zenon
<1> QED BY <1>1, <1>2, <1>3, <1>4, Zenon DEF COMPONENTS

\* An entry is ACTIVE on a probe, and on a smoke where the component has one; the
\* gate raises a blocker for it exactly when it is not.
LEMMA EntryIs ==
    ASSUME NEW c \in DOMAIN COMPONENTS, NEW ok \in BOOLEAN, NEW smoked \in BOOLEAN,
           NEW e, e = LedgerEntry(c, ok, smoked)
    PROVE  /\ e.state = "ACTIVE" => ok = TRUE /\ (COMPONENTS[c].smoked = TRUE => smoked = TRUE)
           /\ ComponentBlockers(e) = {} <=> e.state = "ACTIVE"
<1> DEFINE k == COMPONENTS[c]
<1>0. Declared(k)
  BY ComponentsDeclared
<1> PICK key : key \in BOOLEAN /\ key = (k.kind = "production_key_receipt")
  OBVIOUS
<1> PICK smoke : smoke \in BOOLEAN /\ smoke = (ok /\ (key \/ (k.smoked /\ smoked)))
  BY <1>0 DEF Declared
<1> PICK crosschecked : crosschecked \in BOOLEAN /\ crosschecked = (smoke /\ (k.smoked \/ key))
  BY <1>0 DEF Declared
<1> PICK active : active \in BOOLEAN /\ active = (ok /\ crosschecked)
  OBVIOUS
<1>1. e = [id |-> c, installed |-> ok, smoke |-> smoke, crosschecked |-> crosschecked,
           state |-> IF active THEN "ACTIVE" ELSE IF ok THEN "EXECUTABLE_PROBED" ELSE k.wait,
           axis  |-> IF active THEN EvidenceAxis(k.kind)
                     ELSE IF ok THEN "executable_probe_only" ELSE "missing_or_protected_capability"]
  BY Zenon DEF LedgerEntry
<1>2. /\ e.installed = ok /\ e.smoke = smoke /\ e.crosschecked = crosschecked
      /\ active = TRUE => e.state = "ACTIVE" /\ e.axis = EvidenceAxis(k.kind)
      /\ active = FALSE => e.state \in {"EXECUTABLE_PROBED", k.wait}
  BY <1>1
<1>3. e.state = "ACTIVE" <=> active = TRUE
  BY <1>0, <1>2 DEF Declared
<1>4. active = TRUE => /\ ok = TRUE /\ smoke = TRUE /\ crosschecked = TRUE
                       /\ k.smoked = TRUE => smoked = TRUE
  BY <1>0 DEF Declared
<1>5. EvidenceAxis(k.kind) \notin NONPRODUCTION
  BY DEF EvidenceAxis, NONPRODUCTION
<1>6. ASSUME e.state # "ACTIVE" PROVE ComponentBlockers(e) # {}
  BY <1>6 DEF ComponentBlockers
<1>7. ASSUME e.state = "ACTIVE" PROVE ComponentBlockers(e) = {}
  <2>1. {x \in {"installed", "smoke", "crosschecked"} : ~e[x]} = {}
    BY <1>2, <1>3, <1>4, <1>7
  <2>2. e.axis \notin NONPRODUCTION
    BY <1>2, <1>3, <1>5, <1>7
  <2> QED BY <1>7, <2>1, <2>2 DEF ComponentBlockers
<1> QED BY <1>3, <1>4, <1>6, <1>7

TruthShape ==
    st = [c |-> st.c, world |-> st.world, rewrites |-> st.rewrites, named |-> st.named,
          smoked |-> st.smoked, entry |-> st.entry]

TruthFacts(c, named, smoked, entry) ==
    /\ c \in DOMAIN COMPONENTS
    /\ \A n \in named : n.ok \in BOOLEAN /\ (n.ok = TRUE => Probed(c, n.world))
    /\ \A m, n \in named : m = n
    /\ named = {} => entry = {}
    /\ \A e \in entry, n \in named, s \in smoked :
           e.state = "ACTIVE" => Probed(c, n.world) /\ (COMPONENTS[c].smoked = TRUE => SmokePasses(c, s))
    /\ \A e \in entry : ComponentBlockers(e) = {} <=> e.state = "ACTIVE"

TruthInv ==
    subject = "truth" => TruthShape /\ TruthFacts(st.c, st.named, st.smoked, st.entry)

\* Every step of a probe keeps the entry evidenced.
LEMMA TruthKeeps == ASSUME TruthInv, TruthNext PROVE TruthInv'
<1>a. TruthShape /\ TruthFacts(st.c, st.named, st.smoked, st.entry) /\ subject = "truth"
  BY DEF TruthInv, TruthNext
<1>1. CASE Rewrite
  <2> PICK w, r : st' = [st EXCEPT !.world = w, !.rewrites = r] /\ UNCHANGED subject
    BY <1>1 DEF Rewrite, Step
  <2>1. /\ st'.c = st.c /\ st'.named = st.named /\ st'.smoked = st.smoked /\ st'.entry = st.entry
        /\ TruthShape'
    BY <1>a DEF TruthShape
  <2> QED BY <1>a, <2>1 DEF TruthInv
<1>2. CASE Probe
  <2> PICK ok : ok = Probed(st.c, st.world)
    OBVIOUS
  <2>0. ok \in BOOLEAN /\ (ok = TRUE => Probed(st.c, st.world))
    BY DEF Probed, Validated
  <2> PICK n : n = [world |-> st.world, ok |-> ok]
    OBVIOUS
  <2>1. n.world = st.world /\ n.ok = ok
    OBVIOUS
  <2>2. st' = [st EXCEPT !.named = {n}] /\ UNCHANGED subject /\ st.named = {}
    BY <1>2, Zenon DEF Probe, Step
  <2>3. /\ st'.c = st.c /\ st'.named = {n} /\ st'.smoked = st.smoked /\ st'.entry = st.entry
        /\ TruthShape'
    BY <1>a, <2>2 DEF TruthShape
  <2>4. TruthFacts(st.c, {n}, st.smoked, st.entry)
    BY <1>a, <2>0, <2>1, <2>2 DEF TruthFacts
  <2> QED BY <1>a, <2>2, <2>3, <2>4 DEF TruthInv
<1>3. CASE SmokeAndEnter
  <2> PICK n \in st.named :
        /\ st' = [st EXCEPT !.smoked = {st.world},
                            !.entry  = {LedgerEntry(st.c, n.ok, n.ok /\ SmokePasses(st.c, st.world))}]
        /\ UNCHANGED subject
    BY <1>3, Zenon DEF SmokeAndEnter, Step
  <2>0. n.ok \in BOOLEAN /\ (n.ok = TRUE => Probed(st.c, n.world)) /\ st.c \in DOMAIN COMPONENTS
        /\ \A m \in st.named : m = n
    BY <1>a DEF TruthFacts
  <2> PICK smoked : smoked = (n.ok /\ SmokePasses(st.c, st.world))
    OBVIOUS
  <2>1. smoked \in BOOLEAN /\ (smoked = TRUE => SmokePasses(st.c, st.world))
    BY <2>0 DEF SmokePasses, Validated
  <2> PICK e : e = LedgerEntry(st.c, n.ok, smoked)
    OBVIOUS
  <2>2. /\ e.state = "ACTIVE" => n.ok = TRUE /\ (COMPONENTS[st.c].smoked = TRUE => smoked = TRUE)
        /\ ComponentBlockers(e) = {} <=> e.state = "ACTIVE"
    <3>1. PICK ok \in BOOLEAN : ok = n.ok
      BY <2>0
    <3>2. e = LedgerEntry(st.c, ok, smoked)
      BY <3>1
    <3>3. st.c \in DOMAIN COMPONENTS /\ smoked \in BOOLEAN
      BY <2>0, <2>1
    <3>4. /\ e.state = "ACTIVE" => ok = TRUE /\ (COMPONENTS[st.c].smoked = TRUE => smoked = TRUE)
          /\ ComponentBlockers(e) = {} <=> e.state = "ACTIVE"
      BY <3>2, <3>3, EntryIs
    <3> QED BY <3>1, <3>4
  <2>3. /\ st'.c = st.c /\ st'.named = st.named /\ st'.smoked = {st.world} /\ st'.entry = {e}
        /\ TruthShape'
    BY <1>a DEF TruthShape
  <2>4. TruthFacts(st.c, st.named, {st.world}, {e})
    BY <1>a, <2>0, <2>1, <2>2 DEF TruthFacts
  <2> QED BY <1>a, <2>3, <2>4 DEF TruthInv
<1> QED BY <1>1, <1>2, <1>3 DEF TruthNext
-----------------------------------------------------------------------------
(***************************************************************************)
(* Final acceptance.                                                       *)
(***************************************************************************)
AcceptanceShape ==
    st = [world |-> st.world, heads |-> st.heads, rewrites |-> st.rewrites, ledger |-> st.ledger,
          decision |-> st.decision, attempts |-> st.attempts, accepted |-> st.accepted,
          receipt |-> st.receipt]

\* The blockers of a decision show every wait, and the signer's as the gate's own.
DecisionFacts(d, ledger) ==
    /\ WaitsBlock(ledger, d.blockers)
    /\ <<"PRODUCTION_SIGNER_NOT_NATIVE">> \in d.blockers => ~SignerActive(ledger)

ReceiptShows(r, a) ==
    /\ r.checks.waits = TRUE
    /\ r.result = "PASS" /\ a.a04 \notin {"active", "active_unproved"} => "A04" \in r.waits

AcceptanceFacts(ledger, decision, attempts, receipt) ==
    /\ ledger = {} => decision = {}
    /\ \A d \in decision : DecisionFacts(d, ledger)
    /\ \A a, b \in attempts : a = b
    /\ attempts = {} => receipt = {}
    /\ \A r \in receipt : \A a \in attempts : ReceiptShows(r, a)

AcceptanceInv ==
    subject = "acceptance" =>
        AcceptanceShape /\ AcceptanceFacts(st.ledger, st.decision, st.attempts, st.receipt)

\* The gate's decision shows what the ledger waits for.
LEMMA DecisionShows ==
    ASSUME NEW ledger, NEW candidate, NEW d, d = EvaluateRelease(candidate, ledger),
           candidate.signer = IF SignerActive(ledger) THEN "ed25519_native" ELSE "WAIT_AUTHORITY"
    PROVE  DecisionFacts(d, ledger)
<1> DEFINE blockers == SurfaceBlockers(candidate) \cup UNION {ComponentBlockers(e) : e \in ledger}
<1>1. d.blockers = blockers
  BY DEF EvaluateRelease
<1>2. WaitsBlock(ledger, blockers)
  <2> SUFFICES ASSUME NEW e \in ledger, e.state # "ACTIVE"
               PROVE  \/ <<"NOT_ACTIVE", e.id, e.state>> \in blockers
                      \/ e.state = "WAIT_LICENSE" /\ <<"WAIT_LICENSE", e.id>> \in blockers
    BY DEF WaitsBlock, MandatoryWaits
  <2>1. \/ <<"NOT_ACTIVE", e.id, e.state>> \in ComponentBlockers(e)
        \/ e.state = "WAIT_LICENSE" /\ <<"WAIT_LICENSE", e.id>> \in ComponentBlockers(e)
    BY DEF ComponentBlockers
  <2>2. ComponentBlockers(e) \subseteq blockers
    OBVIOUS
  <2> HIDE DEF blockers
  <2> QED BY <2>1, <2>2
<1>3. ASSUME <<"PRODUCTION_SIGNER_NOT_NATIVE">> \in blockers PROVE ~SignerActive(ledger)
  <2>1. ASSUME NEW e PROVE <<"PRODUCTION_SIGNER_NOT_NATIVE">> \notin ComponentBlockers(e)
    <3>1. \A x \in ComponentBlockers(e) : x[1] # "PRODUCTION_SIGNER_NOT_NATIVE"
      BY DEF ComponentBlockers
    <3>2. <<"PRODUCTION_SIGNER_NOT_NATIVE">>[1] = "PRODUCTION_SIGNER_NOT_NATIVE"
      OBVIOUS
    <3> QED BY <3>1, <3>2, Zenon
  <2>2. <<"PRODUCTION_SIGNER_NOT_NATIVE">> \in SurfaceBlockers(candidate)
    BY <1>3, <2>1, Zenon
  <2>3. candidate.signer # "ed25519_native"
    BY <2>2 DEF SurfaceBlockers
  <2> QED BY <2>3
<1> HIDE DEF blockers
<1> QED BY <1>1, <1>2, <1>3 DEF DecisionFacts

\* Every step of the acceptance keeps the waits in sight.
LEMMA AcceptanceKeeps == ASSUME AcceptanceInv, AcceptanceNext PROVE AcceptanceInv'
<1>a. /\ AcceptanceShape /\ AcceptanceFacts(st.ledger, st.decision, st.attempts, st.receipt)
      /\ subject = "acceptance"
  BY DEF AcceptanceInv, AcceptanceNext
<1>1. CASE RewriteKey
  <2> PICK k, r : st' = [st EXCEPT !.world.key = k, !.rewrites = r] /\ UNCHANGED subject
    BY <1>1 DEF RewriteKey, Step
  <2>1. /\ st'.ledger = st.ledger /\ st'.decision = st.decision /\ st'.attempts = st.attempts
        /\ st'.receipt = st.receipt /\ AcceptanceShape'
    BY <1>a DEF AcceptanceShape
  <2> QED BY <1>a, <2>1 DEF AcceptanceInv
<1>2. CASE BuildLedger
  <2>1. PICK ledger : st' = [st EXCEPT !.ledger = ledger] /\ UNCHANGED subject /\ st.ledger = {}
    BY <1>2, Zenon DEF BuildLedger, Step
  <2>2. /\ st'.ledger = ledger /\ st'.decision = {} /\ st'.attempts = st.attempts
        /\ st'.receipt = st.receipt /\ AcceptanceShape'
    BY <1>a, <2>1 DEF AcceptanceShape, AcceptanceFacts
  <2>3. AcceptanceFacts(ledger, {}, st.attempts, st.receipt)
    BY <1>a, <2>1 DEF AcceptanceFacts
  <2> QED BY <2>2, <2>3 DEF AcceptanceInv
<1>3. CASE EvaluateCandidate
  <2> PICK candidate : candidate = [done |-> TRUE, sandbox |-> "t0_t1", t7 |-> "WAIT_T7_BINDING",
                             signer |-> IF SignerActive(st.ledger) THEN "ed25519_native"
                                        ELSE "WAIT_AUTHORITY"]
    OBVIOUS
  <2>0. candidate.signer = IF SignerActive(st.ledger) THEN "ed25519_native" ELSE "WAIT_AUTHORITY"
    OBVIOUS
  <2> PICK d : d = EvaluateRelease(candidate, st.ledger)
    OBVIOUS
  <2>1. st' = [st EXCEPT !.decision = {d}] /\ UNCHANGED subject /\ st.ledger # {}
    BY <1>3, Zenon DEF EvaluateCandidate, Step
  <2>2. DecisionFacts(d, st.ledger)
    BY <2>0, DecisionShows
  <2>3. /\ st'.ledger = st.ledger /\ st'.decision = {d} /\ st'.attempts = st.attempts
        /\ st'.receipt = st.receipt /\ AcceptanceShape'
    BY <1>a, <2>1 DEF AcceptanceShape
  <2>4. AcceptanceFacts(st.ledger, {d}, st.attempts, st.receipt)
    BY <1>a, <2>1, <2>2 DEF AcceptanceFacts
  <2> QED BY <2>3, <2>4 DEF AcceptanceInv
<1>4. CASE IndexStages
  <2>1. PICK accepted : st' = [st EXCEPT !.accepted = accepted] /\ UNCHANGED subject
    BY <1>4, Zenon DEF IndexStages, Step
  <2>2. /\ st'.ledger = st.ledger /\ st'.decision = st.decision /\ st'.attempts = st.attempts
        /\ st'.receipt = st.receipt /\ AcceptanceShape'
    BY <1>a, <2>1 DEF AcceptanceShape
  <2> QED BY <1>a, <2>2 DEF AcceptanceInv
<1>5. CASE IndexAttempts
  <2>1. PICK a : st' = [st EXCEPT !.attempts = {a}] /\ UNCHANGED subject /\ st.attempts = {}
    BY <1>5, Zenon DEF IndexAttempts, Step
  <2>2. /\ st'.ledger = st.ledger /\ st'.decision = st.decision /\ st'.attempts = {a}
        /\ st'.receipt = {} /\ AcceptanceShape'
    BY <1>a, <2>1 DEF AcceptanceShape, AcceptanceFacts
  <2>3. AcceptanceFacts(st.ledger, st.decision, {a}, {})
    BY <1>a DEF AcceptanceFacts
  <2> QED BY <2>2, <2>3 DEF AcceptanceInv
<1>6. CASE CloseAcceptance
  <2>1. PICK d \in st.decision, a \in st.attempts, stages \in st.accepted :
          LET checks == [stages   |-> stages,
                         waits    |-> WaitsBlock(st.ledger, d.blockers),
                         rejected |-> d.verdict = "REJECT",
                         heads    |-> SourceHead(st.heads) # "UNKNOWN"
                                      /\ AcceptedHead(st.heads) # "UNKNOWN",
                         attempts |-> AttemptsPreserve(a, d.blockers)]
          IN  /\ st' = [st EXCEPT !.receipt =
                           {[result |-> IF \A k \in DOMAIN checks : checks[k] THEN "PASS" ELSE "FAIL",
                             checks |-> checks, waits |-> RemainingWaits(st.ledger),
                             head |-> AcceptedHead(st.heads)]}]
              /\ UNCHANGED subject
    BY <1>6, Zenon DEF CloseAcceptance, Step
  <2>2. DecisionFacts(d, st.ledger)
    BY <1>a DEF AcceptanceFacts
  <2>3. PICK stages2, rejected, heads, kept :
          /\ kept = AttemptsPreserve(a, d.blockers)
          /\ LET checks == [stages |-> stages2, waits |-> WaitsBlock(st.ledger, d.blockers),
                            rejected |-> rejected, heads |-> heads, attempts |-> kept]
             IN  st' = [st EXCEPT !.receipt =
                           {[result |-> IF \A k \in DOMAIN checks : checks[k] THEN "PASS" ELSE "FAIL",
                             checks |-> checks, waits |-> RemainingWaits(st.ledger),
                             head |-> AcceptedHead(st.heads)]}]
    BY <2>1, ZenonT(60)
  <2>4. WaitsBlock(st.ledger, d.blockers) = TRUE
    BY <2>2 DEF DecisionFacts, WaitsBlock
  <2> PICK checks : checks = [stages |-> stages2, waits |-> TRUE, rejected |-> rejected,
                              heads |-> heads, attempts |-> kept]
    OBVIOUS
  <2>5. checks.waits = TRUE /\ ((\A k \in DOMAIN checks : checks[k]) => kept)
    OBVIOUS
  <2> PICK r : r = [result |-> IF \A k \in DOMAIN checks : checks[k] THEN "PASS" ELSE "FAIL",
                    checks |-> checks, waits |-> RemainingWaits(st.ledger),
                    head |-> AcceptedHead(st.heads)]
    OBVIOUS
  <2>6. /\ r.checks = checks /\ r.waits = RemainingWaits(st.ledger)
        /\ r.result = "PASS" => \A k \in DOMAIN checks : checks[k]
    BY Zenon
  <2>7. st' = [st EXCEPT !.receipt = {r}]
    BY <2>3, <2>4, Zenon
  <2>8. ReceiptShows(r, a)
    <3>1. ASSUME r.result = "PASS", a.a04 \notin {"active", "active_unproved"} PROVE "A04" \in r.waits
      <4>1. AttemptsPreserve(a, d.blockers)
        BY <2>3, <2>5, <2>6, <3>1
      <4>2. <<"PRODUCTION_SIGNER_NOT_NATIVE">> \in d.blockers
        BY <3>1, <4>1 DEF AttemptsPreserve
      <4>3. ~SignerActive(st.ledger)
        BY <2>2, <4>2 DEF DecisionFacts
      <4> QED BY <2>6, <4>3 DEF RemainingWaits
    <3> QED BY <2>5, <2>6, <3>1 DEF ReceiptShows
  <2>9. /\ st'.ledger = st.ledger /\ st'.decision = st.decision /\ st'.attempts = st.attempts
        /\ st'.receipt = {r} /\ AcceptanceShape'
    BY <1>a, <2>7 DEF AcceptanceShape
  <2>10. AcceptanceFacts(st.ledger, st.decision, st.attempts, {r})
    BY <1>a, <2>8 DEF AcceptanceFacts
  <2> QED BY <2>9, <2>10 DEF AcceptanceInv
<1> QED BY <1>1, <1>2, <1>3, <1>4, <1>5, <1>6 DEF AcceptanceNext

ReleaseInv == TruthInv /\ AcceptanceInv

\* The ledger claims what the evidence carries, and every wait shows: whatever is rewritten
\* between the two reads of a receipt, an ACTIVE entry passed both and raises no blocker; the
\* acceptance receipt lists every component that is not ACTIVE, and the signer while its key
\* is not bound (capabilities/truth.py, health/final_acceptance.py).
THEOREM ReleaseIsEvidenced == Spec => []ReleaseEvidenced
<1>1. Init => ReleaseInv
  <2> SUFFICES ASSUME ReleaseInit PROVE ReleaseInv
    BY CallsAreApart DEF ReleaseInv, TruthInv, AcceptanceInv, ReleaseCalls
  <2>1. CASE TruthInit
    <3>1. PICK c \in DOMAIN COMPONENTS : \E w :
             st = [c |-> c, world |-> w, rewrites |-> 0, named |-> {}, smoked |-> {}, entry |-> {}]
      BY <2>1 DEF TruthInit
    <3>2. /\ TruthShape /\ st.c = c /\ st.named = {} /\ st.smoked = {} /\ st.entry = {}
      BY <3>1 DEF TruthShape
    <3>3. TruthFacts(c, {}, {}, {})
      BY DEF TruthFacts
    <3>4. subject = "truth"
      BY <2>1 DEF TruthInit
    <3> QED BY <3>2, <3>3, <3>4 DEF ReleaseInv, TruthInv, AcceptanceInv
  <2>2. CASE AcceptanceInit
    <3>1. PICK w, h : st = [world |-> w, heads |-> h, rewrites |-> 0, ledger |-> {}, decision |-> {},
                            attempts |-> {}, accepted |-> {}, receipt |-> {}]
      BY <2>2, Zenon DEF AcceptanceInit
    <3>2. /\ AcceptanceShape /\ st.ledger = {} /\ st.decision = {} /\ st.attempts = {}
          /\ st.receipt = {}
      BY <3>1 DEF AcceptanceShape
    <3>3. AcceptanceFacts({}, {}, {}, {})
      BY DEF AcceptanceFacts
    <3>4. subject = "acceptance"
      BY <2>2 DEF AcceptanceInit
    <3> QED BY <3>2, <3>3, <3>4 DEF ReleaseInv, TruthInv, AcceptanceInv
  <2> QED BY <2>1, <2>2 DEF ReleaseInit
<1>2. ReleaseInv /\ [Next]_frame => ReleaseInv'
  <2> SUFFICES ASSUME ReleaseInv, [Next]_frame PROVE ReleaseInv'
    OBVIOUS
  <2>1. CASE ReleaseNext
    <3>1. ASSUME TruthNext PROVE ReleaseInv'
      <4>1. subject = "truth"
        BY <3>1 DEF TruthNext
      <4> QED BY <3>1, <4>1, <2>1, TruthKeeps, ReleaseApart DEF ReleaseInv, AcceptanceInv
    <3>2. ASSUME AcceptanceNext PROVE ReleaseInv'
      <4>1. subject = "acceptance"
        BY <3>2 DEF AcceptanceNext
      <4> QED BY <3>2, <4>1, <2>1, AcceptanceKeeps, ReleaseApart DEF ReleaseInv, TruthInv
    <3> QED BY <2>1, <3>1, <3>2 DEF ReleaseNext
  <2>2. CASE UNCHANGED frame
    BY <2>2 DEF frame, ReleaseInv, TruthInv, TruthShape, AcceptanceInv, AcceptanceShape
  <2>3. CASE UNCHANGED subject /\ subject \notin ReleaseCalls
    BY <2>3 DEF ReleaseCalls, ReleaseInv, TruthInv, AcceptanceInv
  <2> QED BY <2>1, <2>2, <2>3, CallsAreApart
<1>3. ReleaseInv => ReleaseEvidenced
  <2> SUFFICES ASSUME ReleaseInv PROVE ReleaseEvidenced
    OBVIOUS
  <2>1. ActiveIsEvidenced
    <3> SUFFICES ASSUME subject = "truth", NEW e \in st.entry, NEW n \in st.named,
                        NEW s \in st.smoked, e.state = "ACTIVE"
                 PROVE  /\ Probed(st.c, n.world)
                        /\ COMPONENTS[st.c].smoked => SmokePasses(st.c, s)
      BY DEF ActiveIsEvidenced
    <3>1. /\ st.c \in DOMAIN COMPONENTS /\ Probed(st.c, n.world)
          /\ COMPONENTS[st.c].smoked = TRUE => SmokePasses(st.c, s)
      BY DEF ReleaseInv, TruthInv, TruthFacts
    <3>2. COMPONENTS[st.c].smoked \in BOOLEAN
      BY <3>1, ComponentsDeclared DEF Declared
    <3> QED BY <3>1, <3>2
  <2>2. LedgerMeetsGate
    BY DEF ReleaseInv, TruthInv, TruthFacts, LedgerMeetsGate
  <2>3. WaitsAlwaysBlock /\ SignerWaitNotDropped
    <3> SUFFICES ASSUME subject = "acceptance" PROVE WaitsAlwaysBlock /\ SignerWaitNotDropped
      BY DEF WaitsAlwaysBlock, SignerWaitNotDropped
    <3>1. AcceptanceFacts(st.ledger, st.decision, st.attempts, st.receipt)
      BY DEF ReleaseInv, AcceptanceInv
    <3>2. ASSUME NEW r \in st.receipt PROVE r.checks.waits
      <4>1. PICK a : a \in st.attempts
        BY <3>1 DEF AcceptanceFacts
      <4> QED BY <3>1, <4>1 DEF AcceptanceFacts, ReceiptShows
    <3>3. ASSUME NEW r \in st.receipt, NEW a \in st.attempts, r.result = "PASS",
                 a.a04 \notin {"active", "active_unproved"}
          PROVE  "A04" \in r.waits
      BY <3>1, <3>3 DEF AcceptanceFacts, ReceiptShows
    <3> QED BY <3>2, <3>3 DEF WaitsAlwaysBlock, SignerWaitNotDropped
  <2> QED BY <2>1, <2>2, <2>3 DEF ReleaseEvidenced
<1> QED BY <1>1, <1>2, <1>3, PTL DEF Spec
-----------------------------------------------------------------------------
(***************************************************************************)
(* Surfaces: the conformance harness.                                      *)
(***************************************************************************)
HarnessShape ==
    st = [cases |-> st.cases, platform |-> st.platform, i |-> st.i, holds |-> st.holds,
          ran |-> st.ran, torn |-> st.torn, alive |-> st.alive, swept |-> st.swept,
          survivors |-> st.survivors]

\* At most two cases; the first turns of the second half take the last case and then
\* the first.
TurnFacts(cases, i, ran) ==
    /\ i \in 0 .. ConformanceFloor
    /\ Len(cases) \in 0 .. 2 /\ DOMAIN cases = 1 .. Len(cases) /\ (cases = <<>> <=> Len(cases) = 0)
    /\ ran \subseteq DOMAIN cases
    /\ Len(cases) > 0 /\ i >= 2 => Len(cases) \in ran
    /\ i >= 4 => DOMAIN cases \subseteq ran

VerdictFacts(platform, i, holds, torn, alive, swept, survivors) ==
    /\ {holds, torn, swept} \subseteq BOOLEAN
    /\ holds = TRUE => torn = FALSE
    /\ swept = TRUE =>
           /\ i = ConformanceFloor
           /\ survivors \subseteq alive
           /\ platform = "linux" => survivors = alive \cap {"child"}

HarnessInv ==
    subject = "harness" =>
        /\ HarnessShape
        /\ TurnFacts(st.cases, st.i, st.ran)
        /\ VerdictFacts(st.platform, st.i, st.holds, st.torn, st.alive, st.swept, st.survivors)

\* Every list of cases starts a harness.
LEMMA HarnessStarts == HarnessInit => HarnessInv
<1> SUFFICES ASSUME HarnessInit PROVE HarnessInv
  OBVIOUS
<1> USE SurfacesAssumption
<1>1. PICK cases \in CaseLists, platform \in {"linux", "other"} :
           st = [cases |-> cases, platform |-> platform, i |-> 0, holds |-> TRUE, ran |-> {},
                 torn |-> FALSE, alive |-> {}, swept |-> FALSE, survivors |-> {}]
  BY DEF HarnessInit
<1>2. Len(cases) \in 0 .. 2 /\ DOMAIN cases = 1 .. Len(cases) /\ (cases = <<>> <=> Len(cases) = 0)
  <2>1. CASE cases = <<>>
    BY <2>1
  <2>2. ASSUME NEW c \in HarnessCases, cases = <<c>>
        PROVE  Len(cases) = 1 /\ DOMAIN cases = 1 .. 1 /\ cases # <<>>
    BY <2>2
  <2>3. ASSUME NEW c \in HarnessCases, NEW d \in HarnessCases, cases = <<c, d>>
        PROVE  Len(cases) = 2 /\ DOMAIN cases = 1 .. 2 /\ cases # <<>>
    BY <2>3
  <2> QED BY <2>1, <2>2, <2>3 DEF CaseLists
<1>3. /\ HarnessShape /\ st.cases = cases /\ st.i = 0 /\ st.holds = TRUE /\ st.ran = {}
      /\ st.torn = FALSE /\ st.alive = {} /\ st.swept = FALSE /\ st.survivors = {}
      /\ st.platform = platform
  BY <1>1 DEF HarnessShape
<1>4. TurnFacts(cases, 0, {}) /\ VerdictFacts(platform, 0, TRUE, FALSE, {}, FALSE, {})
  BY <1>2 DEF TurnFacts, VerdictFacts
<1>5. /\ TurnFacts(st.cases, st.i, st.ran)
      /\ VerdictFacts(st.platform, st.i, st.holds, st.torn, st.alive, st.swept, st.survivors)
  BY <1>3, <1>4
<1> QED BY <1>3, <1>5 DEF HarnessInv

\* A golden turn leaves the cases that ran as they are, for none was due.
LEMMA GoldenTurns ==
    ASSUME NEW cases, NEW i, NEW ran, TurnFacts(cases, i, ran), i < ConformanceFloor,
           i % 2 = 0 \/ cases = <<>>
    PROVE  TurnFacts(cases, i + 1, ran)
<1> USE SurfacesAssumption
<1>1. CASE cases = <<>>
  BY <1>1 DEF TurnFacts
<1>2. CASE i % 2 = 0
  <2>1. i \in Nat
    BY DEF TurnFacts
  <2>2. i + 1 >= 2 => i >= 2
    BY <1>2, <2>1
  <2>3. i + 1 >= 4 => i >= 4
    BY <1>2, <2>1
  <2> QED BY <2>1, <2>2, <2>3 DEF TurnFacts
<1> QED BY <1>1, <1>2

\* The case of an odd turn is one of the list, the last on the first turn and
\* the first on the third.
LEMMA CaseTurns ==
    ASSUME NEW cases, NEW i, NEW ran, TurnFacts(cases, i, ran), i < ConformanceFloor,
           i % 2 # 0, cases # <<>>, NEW c, c = ((i \div 2 - 1) % Len(cases)) + 1
    PROVE  c \in DOMAIN cases /\ TurnFacts(cases, i + 1, ran \cup {c})
<1> USE SurfacesAssumption
<1>0. /\ i \in Nat /\ i \div 2 \in Nat /\ Len(cases) \in {1, 2} /\ DOMAIN cases = 1 .. Len(cases)
      /\ i \in 0 .. ConformanceFloor /\ ConformanceFloor \in Nat
  BY DEF TurnFacts
<1>1. c \in 1 .. Len(cases)
  <2>1. CASE Len(cases) = 1
    BY <1>0, <2>1
  <2>2. CASE Len(cases) = 2
    BY <1>0, <2>2
  <2> QED BY <1>0, <2>1, <2>2
<1>2. i = 1 => c = Len(cases)
  <2>0. ASSUME NEW x \in Int, x + 1 = 0 PROVE x % 2 = 1
    BY <2>0
  <2>1. CASE Len(cases) = 1
    BY <1>0, <1>1, <2>1
  <2>2. CASE Len(cases) = 2
    <3>1. PICK x \in Int : x = i \div 2 - 1
      BY <1>0
    <3>2. ASSUME i = 1 PROVE x + 1 = 0
      BY <3>1, <3>2
    <3>3. i = 1 => x % 2 = 1
      BY <2>0, <3>2
    <3> QED BY <3>1, <3>3, <2>2
  <2> QED BY <1>0, <2>1, <2>2
<1>3. i = 3 => c = 1
  <2>1. CASE Len(cases) = 1
    BY <1>0, <1>1, <2>1
  <2>2. CASE Len(cases) = 2
    BY <1>0, <2>2
  <2> QED BY <1>0, <2>1, <2>2
<1>4. i + 1 >= 2 => i = 1 \/ i >= 2
  BY <1>0
<1>5. i + 1 >= 4 => i = 3 \/ i >= 4
  BY <1>0
<1>6. i # 0 /\ i # 2
  OBVIOUS
<1>7. i + 1 >= 2 => Len(cases) \in ran \cup {c}
  <2>1. CASE i = 1
    BY <1>2, <2>1
  <2>2. CASE i >= 2
    <3>1. Len(cases) > 0
      BY <1>0
    <3> QED BY <2>2, <3>1 DEF TurnFacts
  <2> QED BY <1>4, <2>1, <2>2
<1>8. i + 1 >= 4 => DOMAIN cases \subseteq ran \cup {c}
  <2>1. CASE i = 3
    <3>1. Len(cases) \in ran /\ c = 1
      BY <1>0, <1>3, <2>1 DEF TurnFacts
    <3>2. 1 .. 1 = {1} /\ 1 .. 2 = {1, 2}
      OBVIOUS
    <3>3. DOMAIN cases \subseteq {1, Len(cases)}
      BY <1>0, <3>2, Zenon
    <3> QED BY <3>1, <3>3
  <2>2. CASE i >= 4
    BY <2>2 DEF TurnFacts
  <2> QED BY <1>5, <2>1, <2>2
<1>9. ran \cup {c} \subseteq DOMAIN cases /\ i + 1 \in 0 .. ConformanceFloor
  BY <1>0, <1>1 DEF TurnFacts
<1> QED BY <1>0, <1>1, <1>7, <1>8, <1>9 DEF TurnFacts

\* Every turn and the sweep keep the verdict honest.
LEMMA HarnessKeeps == ASSUME HarnessInv, GoldenRun \/ CaseRun \/ OrphanSweep PROVE HarnessInv'
<1>a. /\ HarnessShape /\ TurnFacts(st.cases, st.i, st.ran) /\ subject = "harness"
      /\ VerdictFacts(st.platform, st.i, st.holds, st.torn, st.alive, st.swept, st.survivors)
  BY DEF HarnessInv, GoldenRun, CaseRun, OrphanSweep
<1>b. /\ st.holds \in BOOLEAN /\ st.torn \in BOOLEAN /\ st.swept \in BOOLEAN
      /\ (st.holds = TRUE => st.torn = FALSE)
  BY <1>a DEF VerdictFacts
<1>c. ASSUME st.i < ConformanceFloor PROVE st.swept = FALSE
  BY <1>a, <1>b, <1>c, SurfacesAssumption DEF VerdictFacts, TurnFacts
<1>1. CASE GoldenRun
  <2>1. PICK ok \in BOOLEAN, left \in SUBSET Leftovers :
          /\ st' = [st EXCEPT !.i = st.i + 1, !.holds = st.holds /\ ok,
                              !.alive = st.alive \cup left]
          /\ UNCHANGED subject /\ st.i < ConformanceFloor /\ GoldenTurn
    BY <1>1, Zenon DEF GoldenRun, Step
  <2>2. PICK holds \in BOOLEAN : holds = (st.holds /\ ok)
    BY <1>b
  <2>3. st' = [st EXCEPT !.i = st.i + 1, !.holds = holds, !.alive = st.alive \cup left]
    BY <2>1, <2>2, Zenon
  <2>4. /\ st'.platform = st.platform
        /\ st'.cases = st.cases /\ st'.i = st.i + 1 /\ st'.holds = holds /\ st'.ran = st.ran
        /\ st'.torn = st.torn /\ st'.alive = st.alive \cup left /\ st'.swept = st.swept
        /\ st'.survivors = st.survivors /\ HarnessShape'
    BY <1>a, <2>3 DEF HarnessShape
  <2>5. TurnFacts(st.cases, st.i + 1, st.ran)
    BY <1>a, <2>1, GoldenTurns DEF GoldenTurn
  <2>6. VerdictFacts(st.platform, st.i + 1, holds, st.torn, st.alive \cup left, st.swept, st.survivors)
    BY <1>b, <1>c, <2>1, <2>2 DEF VerdictFacts
  <2> QED BY <2>4, <2>5, <2>6 DEF HarnessInv
<1>2. CASE CaseRun
  <2>0. PICK c : c = CaseOfTurn(st.i)
    OBVIOUS
  <2>1. /\ subject = "harness" /\ st.i < ConformanceFloor /\ ~GoldenTurn
        /\ RejectedCase(c) \/ SpawnedCase(c)
    BY <1>2, <2>0, Zenon DEF CaseRun
  <2>2. TurnFacts(st.cases, st.i + 1, st.ran \cup {c})
    BY <1>a, <2>0, <2>1, CaseTurns DEF GoldenTurn, CaseOfTurn
  <2>3. ASSUME RejectedCase(c) PROVE HarnessInv'
    <3>1. /\ st' = [st EXCEPT !.i = st.i + 1, !.ran = st.ran \cup {c},
                              !.holds = st.holds /\ ~st.cases[c].known]
          /\ UNCHANGED subject
      BY <2>3, Zenon DEF RejectedCase, Step
    <3>2. PICK holds \in BOOLEAN : holds = (st.holds /\ ~st.cases[c].known)
      BY <1>b
    <3>3. st' = [st EXCEPT !.i = st.i + 1, !.ran = st.ran \cup {c}, !.holds = holds]
      BY <3>1, <3>2, Zenon
    <3>4. /\ st'.platform = st.platform
          /\ st'.cases = st.cases /\ st'.i = st.i + 1 /\ st'.holds = holds /\ st'.ran = st.ran \cup {c}
          /\ st'.torn = st.torn /\ st'.alive = st.alive /\ st'.swept = st.swept
          /\ st'.survivors = st.survivors /\ HarnessShape'
      BY <1>a, <3>3 DEF HarnessShape
    <3>5. VerdictFacts(st.platform, st.i + 1, holds, st.torn, st.alive, st.swept, st.survivors)
      BY <1>b, <1>c, <2>1, <3>2 DEF VerdictFacts
    <3> QED BY <2>2, <3>4, <3>5 DEF HarnessInv
  <2>4. ASSUME SpawnedCase(c) PROVE HarnessInv'
    <3>1. PICK end \in RunEnds, left \in SUBSET Leftovers :
            /\ st' = [st EXCEPT !.i = st.i + 1, !.ran = st.ran \cup {c}, !.alive = st.alive \cup left,
                         !.holds = st.holds /\ OutcomeMatches(st.cases[c], end),
                         !.torn = st.torn \/ (end.receipt /\ end.status # "completed")]
            /\ UNCHANGED subject
      BY <2>4, Zenon DEF SpawnedCase, Step
    <3>2. PICK holds \in BOOLEAN, torn \in BOOLEAN :
            /\ holds = (st.holds /\ OutcomeMatches(st.cases[c], end))
            /\ torn = (st.torn \/ (end.receipt /\ end.status # "completed"))
      BY <1>b
    <3>3. st' = [st EXCEPT !.i = st.i + 1, !.ran = st.ran \cup {c}, !.alive = st.alive \cup left,
                           !.holds = holds, !.torn = torn]
      BY <3>1, <3>2, Zenon
    <3>4. /\ st'.platform = st.platform
          /\ st'.cases = st.cases /\ st'.i = st.i + 1 /\ st'.holds = holds /\ st'.ran = st.ran \cup {c}
          /\ st'.torn = torn /\ st'.alive = st.alive \cup left /\ st'.swept = st.swept
          /\ st'.survivors = st.survivors /\ HarnessShape'
      BY <1>a, <3>3 DEF HarnessShape
    <3>5. holds = TRUE => torn = FALSE
      <4>1. OutcomeMatches(st.cases[c], end) => (end.status # "completed" => ~end.receipt)
        BY Zenon DEF OutcomeMatches
      <4>2. end.receipt \in BOOLEAN
        BY DEF RunEnds
      <4> QED BY <1>b, <3>2, <4>1, <4>2
    <3>6. VerdictFacts(st.platform, st.i + 1, holds, torn, st.alive \cup left, st.swept, st.survivors)
      BY <1>b, <1>c, <2>1, <3>2, <3>5 DEF VerdictFacts
    <3> QED BY <2>2, <3>4, <3>6 DEF HarnessInv
  <2> QED BY <2>1, <2>3, <2>4
<1>3. CASE OrphanSweep
  <2>1. PICK found \in SUBSET Leftovers :
          /\ st' = [st EXCEPT !.swept = TRUE, !.survivors = found]
          /\ UNCHANGED subject /\ st.i = ConformanceFloor /\ SweepFinds(found)
    BY <1>3 DEF OrphanSweep, Step
  <2>2. /\ st'.platform = st.platform
        /\ st'.cases = st.cases /\ st'.i = st.i /\ st'.holds = st.holds /\ st'.ran = st.ran
        /\ st'.torn = st.torn /\ st'.alive = st.alive /\ st'.swept = TRUE
        /\ st'.survivors = found /\ HarnessShape'
    BY <1>a, <2>1 DEF HarnessShape
  <2>3. VerdictFacts(st.platform, st.i, st.holds, st.torn, st.alive, TRUE, found)
    BY <1>b, <2>1 DEF VerdictFacts, SweepFinds
  <2> QED BY <1>a, <2>2, <2>3 DEF HarnessInv
<1> QED BY <1>1, <1>2, <1>3

\* A sweep's verdict is what happened, and every case ran.
LEMMA HarnessShows == HarnessInv => ConformanceIsHonest
<1> SUFFICES ASSUME HarnessInv, subject = "harness", st.swept PROVE
      /\ st.holds /\ st.survivors = {} =>
             ~st.torn /\ (st.platform = "linux" => "child" \notin st.alive)
      /\ st.survivors \subseteq st.alive
      /\ Len(st.cases) <= ConformanceFloor \div 2 => st.ran = DOMAIN st.cases
  BY DEF ConformanceIsHonest
<1>1. /\ TurnFacts(st.cases, st.i, st.ran)
      /\ VerdictFacts(st.platform, st.i, st.holds, st.torn, st.alive, st.swept, st.survivors)
  BY DEF HarnessInv
<1>2. /\ st.holds \in BOOLEAN /\ st.torn \in BOOLEAN /\ st.swept \in BOOLEAN
      /\ (st.holds = TRUE => st.torn = FALSE)
      /\ st.survivors \subseteq st.alive /\ st.i = ConformanceFloor
      /\ st.platform = "linux" => st.survivors = st.alive \cap {"child"}
  BY <1>1 DEF VerdictFacts
<1>3. ASSUME Len(st.cases) <= ConformanceFloor \div 2 PROVE DOMAIN st.cases \subseteq st.ran
  <2>0. /\ Len(st.cases) \in {0, 1, 2} /\ DOMAIN st.cases = 1 .. Len(st.cases)
        /\ ConformanceFloor \in Nat /\ 1 .. 0 = {} /\ 1 .. 1 = {1}
    BY <1>1, SurfacesAssumption DEF TurnFacts
  <2>1. CASE Len(st.cases) = 0
    BY <2>0, <2>1, Zenon
  <2>2. CASE Len(st.cases) = 1
    <3>1. ConformanceFloor >= 2
      BY <1>3, <2>0, <2>2
    <3>2. 1 \in st.ran
      BY <1>1, <1>2, <2>2, <3>1 DEF TurnFacts
    <3> QED BY <2>0, <2>2, <3>2, Zenon
  <2>3. CASE Len(st.cases) = 2
    <3>1. ConformanceFloor >= 4
      BY <1>3, <2>0, <2>3
    <3> QED BY <1>1, <1>2, <3>1 DEF TurnFacts
  <2> QED BY <2>0, <2>1, <2>2, <2>3
<1>4. st.holds /\ st.survivors = {} =>
          ~st.torn /\ (st.platform = "linux" => "child" \notin st.alive)
  BY <1>2
<1>5. st.ran \subseteq DOMAIN st.cases
  BY <1>1 DEF TurnFacts
<1> QED BY <1>2, <1>3, <1>4, <1>5
-----------------------------------------------------------------------------
(***************************************************************************)
(* Surfaces: the credential canary.                                        *)
(***************************************************************************)
CanaryShape ==
    st = [leaks |-> st.leaks, pc |-> st.pc, environ |-> st.environ, in_dict |-> st.in_dict,
          booted |-> st.booted, saw |-> st.saw, raised |-> st.raised, passed |-> st.passed]

CanaryFacts(leaks, pc, environ, booted, saw, passed) ==
    /\ {leaks, environ, booted, saw, passed} \subseteq BOOLEAN
    /\ pc # "done" => passed = FALSE
    /\ pc = "done" => environ = FALSE
    /\ passed = TRUE => booted = TRUE /\ saw = FALSE /\ leaks = FALSE

CanaryInv ==
    subject = "canary" =>
        CanaryShape /\ CanaryFacts(st.leaks, st.pc, st.environ, st.booted, st.saw, st.passed)

\* The probe passes on an answer alone.
LEMMA CanaryKeeps == ASSUME CanaryInv, SetCanary \/ RunCanaryProbe PROVE CanaryInv'
<1>a. /\ CanaryShape /\ subject = "canary"
      /\ CanaryFacts(st.leaks, st.pc, st.environ, st.booted, st.saw, st.passed)
  BY DEF CanaryInv, SetCanary, RunCanaryProbe
<1>b. /\ st.leaks \in BOOLEAN /\ st.environ \in BOOLEAN /\ st.booted \in BOOLEAN /\ st.saw \in BOOLEAN
      /\ st.passed \in BOOLEAN
  BY <1>a DEF CanaryFacts
<1>1. CASE SetCanary
  <2>1. /\ st' = [st EXCEPT !.pc = "run", !.environ = TRUE, !.in_dict = st.leaks]
        /\ UNCHANGED subject /\ st.pc = "set"
    BY <1>1 DEF SetCanary, Step
  <2>2. /\ st'.leaks = st.leaks /\ st'.pc = "run" /\ st'.environ = TRUE /\ st'.booted = st.booted
        /\ st'.saw = st.saw /\ st'.passed = st.passed /\ CanaryShape'
    BY <1>a, <2>1 DEF CanaryShape
  <2>3. CanaryFacts(st.leaks, "run", TRUE, st.booted, st.saw, st.passed)
    BY <1>a, <1>b, <2>1 DEF CanaryFacts
  <2> QED BY <2>2, <2>3 DEF CanaryInv
<1>2. CASE RunCanaryProbe
  <2>1. PICK end \in {"completed", "failed", "raises"}, output \in BOOLEAN :
          /\ st' = [st EXCEPT !.pc = "done", !.environ = FALSE,
                       !.raised = (end = "raises"), !.booted = (end = "completed"),
                       !.saw = ChildSaw(end, output),
                       !.passed = /\ end = "completed" /\ ~st.in_dict
                                  /\ ~ChildSaw(end, output)]
          /\ UNCHANGED subject
    BY <1>2, ZenonT(60) DEF RunCanaryProbe, Step
  <2>2. PICK raised \in BOOLEAN, booted \in BOOLEAN, saw \in BOOLEAN, passed \in BOOLEAN :
          /\ raised = (end = "raises") /\ booted = (end = "completed") /\ saw = ChildSaw(end, output)
          /\ passed = (end = "completed" /\ ~st.in_dict /\ ~ChildSaw(end, output))
    BY DEF ChildSaw
  <2>3. st' = [st EXCEPT !.pc = "done", !.environ = FALSE, !.raised = raised, !.booted = booted,
                         !.saw = saw, !.passed = passed]
    BY <2>1, <2>2, Zenon
  <2>4. /\ st'.leaks = st.leaks /\ st'.pc = "done" /\ st'.environ = FALSE /\ st'.booted = booted
        /\ st'.saw = saw /\ st'.passed = passed /\ CanaryShape'
    BY <1>a, <2>3 DEF CanaryShape
  <2>5. CanaryFacts(st.leaks, "done", FALSE, booted, saw, passed)
    BY <1>b, <2>2 DEF CanaryFacts, ChildSaw
  <2> QED BY <2>4, <2>5 DEF CanaryInv
<1> QED BY <1>1, <1>2
-----------------------------------------------------------------------------
(***************************************************************************)
(* Surfaces: the portal.                                                   *)
(***************************************************************************)
PortalShape ==
    st = [corpus |-> st.corpus, disk |-> st.disk, builds |-> st.builds, report |-> st.report]

\* What a report of a build says of the corpus and the disk it was made from.
BuildFacts(r, corpus, disk) ==
    /\ r.mode = "public_demo" =>
           /\ \A f \in r.pages : \A p \in disk :
                  p.file = f => \A id \in p.of : corpus[id] = "synthetic"
           /\ (\E id \in ObjectIds : corpus[id] \in {"leaky", "synthetic_leaky"}) =>
                  ~r.success /\ r.pages = {}
    /\ r.pages \subseteq {p.file : p \in disk}
    /\ r.success =>
           {SafeFilename(id) : id \in r.accepted} \cup GatheringPages \subseteq r.pages

PortalInv ==
    subject = "portal" => PortalShape /\ \A r \in st.report : BuildFacts(r, st.corpus, st.disk)

\* Every object has a page, its own or that of another of the same file name, and
\* so has every gathering.
LEMMA PagesCover ==
    ASSUME NEW ids \in SUBSET ObjectIds, NEW later
    PROVE  /\ \A id \in ids : \E p \in PagesOf(ids, later) : p.file = SafeFilename(id)
           /\ \A f \in GatheringPages : \E p \in PagesOf(ids, later) : p.file = f
           /\ \A p \in PagesOf(ids, later) : p.of \subseteq ids
<1>1. \A p \in PagesOf(ids, later) : p.of \subseteq ids
  BY DEF PagesOf
<1>2. ASSUME NEW id \in ids, later \in ids /\ SafeFilename(id) = SafeFilename(later) => id = later
      PROVE  \E p \in PagesOf(ids, later) : p.file = SafeFilename(id)
  <2>1. PICK p : p = [file |-> SafeFilename(id), of |-> {id}]
    OBVIOUS
  <2>2. p \in PagesOf(ids, later) /\ p.file = SafeFilename(id)
    BY <1>2, <2>1 DEF PagesOf
  <2> QED BY <2>2
<1>3. ASSUME NEW id \in ids, later \in ids, SafeFilename(id) = SafeFilename(later)
      PROVE  \E p \in PagesOf(ids, later) : p.file = SafeFilename(id)
  BY <1>2, <1>3
<1>4. ASSUME NEW f \in GatheringPages PROVE \E p \in PagesOf(ids, later) : p.file = f
  <2>1. PICK p : p = [file |-> f, of |-> ids]
    OBVIOUS
  <2>2. p \in PagesOf(ids, later) /\ p.file = f
    BY <2>1 DEF PagesOf
  <2> QED BY <2>2
<1> QED BY <1>1, <1>2, <1>3, <1>4

\* A build reports what it put on the disk; an edit withdraws the report.
LEMMA PortalKeeps == ASSUME PortalInv, BuildPortal \/ EditCorpus PROVE PortalInv'
<1>a. PortalShape /\ subject = "portal"
  BY DEF PortalInv, BuildPortal, EditCorpus
<1>1. CASE BuildPortal
  <2>1. PICK mode \in {"private_local", "public_demo"}, later \in {"a/1", "a_1"} :
          LET accepted == {id \in ObjectIds : AcceptedInPortal(mode, id)}
              leak == mode = "public_demo" /\ \E id \in ObjectIds : Leaks(id)
              pages == IF leak THEN {} ELSE PagesOf(accepted, later)
              files == {p.file : p \in pages}
          IN  /\ st' = [st EXCEPT !.builds = st.builds + 1,
                           !.disk = {p \in st.disk : p.file \notin files} \cup pages,
                           !.report = {[mode |-> mode, success |-> ~leak, pages |-> files,
                                        accepted |-> accepted]}]
              /\ UNCHANGED subject
    BY <1>1, Zenon DEF BuildPortal, Step
  <2>2. PICK accepted : accepted = {id \in ObjectIds : AcceptedInPortal(mode, id)}
    OBVIOUS
  <2>3. PICK leak \in BOOLEAN : leak = (mode = "public_demo" /\ \E id \in ObjectIds : Leaks(id))
    OBVIOUS
  <2>4. PICK pages : pages = IF leak THEN {} ELSE PagesOf(accepted, later)
    OBVIOUS
  <2>5. PICK files : files = {p.file : p \in pages}
    OBVIOUS
  <2>6. PICK disk : disk = {p \in st.disk : p.file \notin files} \cup pages
    OBVIOUS
  <2>7. PICK success \in BOOLEAN : success = ~leak
    OBVIOUS
  <2>8. PICK r : r = [mode |-> mode, success |-> success, pages |-> files, accepted |-> accepted]
    OBVIOUS
  <2>9. st' = [st EXCEPT !.builds = st.builds + 1, !.disk = disk, !.report = {r}]
    BY <2>1, <2>2, <2>3, <2>4, <2>5, <2>6, <2>7, <2>8, Zenon
  <2>10. st'.corpus = st.corpus /\ st'.disk = disk /\ st'.report = {r} /\ PortalShape'
    BY <1>a, <2>9 DEF PortalShape
  <2>11. /\ accepted \in SUBSET ObjectIds
         /\ \A p \in pages : p.of \subseteq accepted
         /\ leak = FALSE => {SafeFilename(id) : id \in accepted} \cup GatheringPages \subseteq files
    <3>1. accepted \in SUBSET ObjectIds
      BY <2>2
    <3>2. CASE leak = TRUE
      BY <2>4, <3>1, <3>2
    <3>3. CASE leak = FALSE
      <4>1. pages = PagesOf(accepted, later)
        BY <2>4, <3>3
      <4>2. /\ \A id \in accepted : \E p \in pages : p.file = SafeFilename(id)
            /\ \A f \in GatheringPages : \E p \in pages : p.file = f
            /\ \A p \in pages : p.of \subseteq accepted
        BY <3>1, <4>1, PagesCover
      <4>3. /\ \A id \in accepted : SafeFilename(id) \in files
            /\ \A f \in GatheringPages : f \in files
        BY <2>5, <4>2
      <4> QED BY <3>1, <4>2, <4>3
    <3> QED BY <3>2, <3>3
  <2>12. ASSUME mode = "public_demo", NEW id \in accepted PROVE st.corpus[id] = "synthetic"
    BY <2>2, <2>12 DEF AcceptedInPortal, PublicSynthetic, Leaks
  <2>13. \A f \in files : \A p \in disk : p.file = f => p \in pages
    BY <2>6
  <2>14. files \subseteq {p.file : p \in disk}
    BY <2>5, <2>6
  <2>15. ASSUME mode = "public_demo", NEW id \in ObjectIds,
                st.corpus[id] \in {"leaky", "synthetic_leaky"}
         PROVE  success = FALSE /\ files = {}
    <3>1. leak = TRUE
      BY <2>3, <2>15 DEF Leaks
    <3> QED BY <2>4, <2>5, <2>7, <3>1
  <2>16. r.mode = mode /\ r.success = success /\ r.pages = files /\ r.accepted = accepted
    BY <2>8
  <2>17. success = TRUE => leak = FALSE
    BY <2>3, <2>7
  <2>18. BuildFacts(r, st.corpus, disk)
    BY <2>11, <2>12, <2>13, <2>14, <2>15, <2>16, <2>17 DEF BuildFacts
  <2> QED BY <2>10, <2>18 DEF PortalInv
<1>2. CASE EditCorpus
  <2>1. PICK id \in ObjectIds, c \in PortalClasses :
          st' = [st EXCEPT !.corpus[id] = c, !.report = {}] /\ UNCHANGED subject
    BY <1>2 DEF EditCorpus, Step
  <2>2. st'.report = {} /\ PortalShape'
    BY <1>a, <2>1 DEF PortalShape
  <2> QED BY <2>2 DEF PortalInv
<1> QED BY <1>1, <1>2
-----------------------------------------------------------------------------
(***************************************************************************)
(* Surfaces: the private overlay.                                          *)
(***************************************************************************)
OverlayShape ==
    st = [vars |-> st.vars, file |-> st.file, dir |-> st.dir, pc |-> st.pc, saw |-> st.saw,
          error |-> st.error, missing |-> st.missing, changes |-> st.changes]

OverlayFacts(vars, pc, saw, error, missing) ==
    /\ DOMAIN vars = {"config", "store"}
    /\ pc \notin {"done"} => error = "none"
    /\ pc = "vars" => missing = {}
    /\ pc = "resolved" => saw = {"object"}
    /\ error = "WAIT_ENVIRONMENT" <=> missing # {}
    /\ pc # "vars" => missing = {v \in DOMAIN vars : vars[v] # "set"}

OverlayInv ==
    subject = "overlay" => OverlayShape /\ OverlayFacts(st.vars, st.pc, st.saw, st.error, st.missing)

OverlayNext == ReadVars \/ CheckPaths \/ ReadConfig \/ ParseConfig \/ ChangeFile

\* A resolution stays whole whatever changes under it.
LEMMA OverlayKeeps == ASSUME OverlayInv, OverlayNext PROVE OverlayInv'
<1>a. /\ OverlayShape /\ OverlayFacts(st.vars, st.pc, st.saw, st.error, st.missing)
      /\ subject = "overlay"
  BY DEF OverlayInv, OverlayNext, ReadVars, CheckPaths, ReadConfig, ParseConfig, ChangeFile
<1>0. ASSUME NEW pc, NEW saw, NEW error, NEW missing,
             st' = [st EXCEPT !.pc = pc, !.saw = saw, !.error = error, !.missing = missing],
             UNCHANGED subject, OverlayFacts(st.vars, pc, saw, error, missing)
      PROVE  OverlayInv'
  <2>1. /\ st'.vars = st.vars /\ st'.pc = pc /\ st'.saw = saw /\ st'.error = error
        /\ st'.missing = missing /\ OverlayShape'
    BY <1>a, <1>0 DEF OverlayShape
  <2> QED BY <1>0, <2>1 DEF OverlayInv
<1>f. ASSUME NEW e \in {"CONTRACT_INVALID", "UnicodeDecodeError"}, OverlayFail(e),
             st.pc \in {"paths", "read", "parse"}
      PROVE  OverlayInv'
  <2>1. /\ st' = [st EXCEPT !.pc = "done", !.saw = st.saw, !.error = e, !.missing = st.missing]
        /\ UNCHANGED subject
    BY <1>a, <1>f DEF OverlayFail, Step, OverlayShape
  <2>2. OverlayFacts(st.vars, "done", st.saw, e, st.missing)
    BY <1>a, <1>f DEF OverlayFacts
  <2> QED BY <1>0, <2>1, <2>2
<1>1. CASE ReadVars
  <2>0. MissingVars = {v \in DOMAIN st.vars : st.vars[v] # "set"} /\ st.pc = "vars" /\ st.missing = {}
    BY <1>1, <1>a DEF MissingVars, OverlayFacts, ReadVars
  <2>1. CASE MissingVars # {}
    <3>1. /\ st' = [st EXCEPT !.pc = "done", !.saw = st.saw, !.error = "WAIT_ENVIRONMENT",
                              !.missing = MissingVars]
          /\ UNCHANGED subject
      BY <1>1, <1>a, <2>1 DEF ReadVars, Step, OverlayShape
    <3>2. OverlayFacts(st.vars, "done", st.saw, "WAIT_ENVIRONMENT", MissingVars)
      BY <1>a, <2>0, <2>1 DEF OverlayFacts
    <3> QED BY <1>0, <3>1, <3>2
  <2>2. CASE MissingVars = {}
    <3>1. /\ st' = [st EXCEPT !.pc = "paths", !.saw = st.saw, !.error = st.error,
                              !.missing = st.missing]
          /\ UNCHANGED subject
      BY <1>1, <1>a, <2>2 DEF ReadVars, Step, OverlayShape
    <3>2. OverlayFacts(st.vars, "paths", st.saw, st.error, st.missing)
      BY <1>a, <2>0, <2>2 DEF OverlayFacts
    <3> QED BY <1>0, <3>1, <3>2
  <2> QED BY <2>1, <2>2
<1>2. CASE CheckPaths
  <2>1. CASE OverlayFail("CONTRACT_INVALID")
    BY <1>2, <1>f, <2>1 DEF CheckPaths
  <2>2. CASE st' = [st EXCEPT !.pc = "read"] /\ UNCHANGED subject
    <3>1. st' = [st EXCEPT !.pc = "read", !.saw = st.saw, !.error = st.error, !.missing = st.missing]
      BY <1>a, <2>2 DEF OverlayShape
    <3>2. OverlayFacts(st.vars, "read", st.saw, st.error, st.missing)
      BY <1>a, <1>2 DEF OverlayFacts, CheckPaths
    <3> QED BY <1>0, <2>2, <3>1, <3>2
  <2> QED BY <1>2, <2>1, <2>2 DEF CheckPaths, Step
<1>3. CASE ReadConfig
  <2>1. CASE OverlayFail("CONTRACT_INVALID")
    BY <1>3, <1>f, <2>1 DEF ReadConfig
  <2>2. CASE OverlayFail("UnicodeDecodeError")
    BY <1>3, <1>f, <2>2 DEF ReadConfig
  <2>3. CASE st' = [st EXCEPT !.pc = "parse", !.saw = {st.file}] /\ UNCHANGED subject
    <3>1. st' = [st EXCEPT !.pc = "parse", !.saw = {st.file}, !.error = st.error,
                           !.missing = st.missing]
      BY <1>a, <2>3 DEF OverlayShape
    <3>2. OverlayFacts(st.vars, "parse", {st.file}, st.error, st.missing)
      BY <1>a, <1>3 DEF OverlayFacts, ReadConfig
    <3> QED BY <1>0, <2>3, <3>1, <3>2
  <2> QED BY <1>3, <2>1, <2>2, <2>3 DEF ReadConfig, Step
<1>4. CASE ParseConfig
  <2>1. CASE OverlayFail("CONTRACT_INVALID")
    BY <1>4, <1>f, <2>1 DEF ParseConfig
  <2>2. CASE st' = [st EXCEPT !.pc = "resolved"] /\ UNCHANGED subject /\ st.saw = {"object"}
    <3>1. st' = [st EXCEPT !.pc = "resolved", !.saw = st.saw, !.error = st.error,
                           !.missing = st.missing]
      BY <1>a, <2>2 DEF OverlayShape
    <3>2. OverlayFacts(st.vars, "resolved", st.saw, st.error, st.missing)
      BY <1>a, <1>4, <2>2 DEF OverlayFacts, ParseConfig
    <3> QED BY <1>0, <2>2, <3>1, <3>2
  <2> QED BY <1>4, <2>1, <2>2 DEF ParseConfig, Step
<1>5. CASE ChangeFile
  <2>1. PICK f, d, n : st' = [st EXCEPT !.file = f, !.dir = d, !.changes = n] /\ UNCHANGED subject
    BY <1>5 DEF ChangeFile, Step
  <2>2. /\ st'.vars = st.vars /\ st'.pc = st.pc /\ st'.saw = st.saw /\ st'.error = st.error
        /\ st'.missing = st.missing /\ OverlayShape'
    BY <1>a, <2>1 DEF OverlayShape
  <2> QED BY <1>a, <2>2 DEF OverlayInv
<1> QED BY <1>1, <1>2, <1>3, <1>4, <1>5 DEF OverlayNext

SurfacesInv == HarnessInv /\ CanaryInv /\ PortalInv /\ OverlayInv

\* A verdict, a page and an overlay are what they claim: for any number of turns, builds and
\* changes of the files, a conformance report that holds had no torn run and left no process,
\* the canary passes on a child's answer alone, a page a public build reports shows a clean
\* synthetic object, and an overlay is resolved from an object that was read
\* (execution/adversarial.py, portal/build.py, pilot/overlay.py).
THEOREM SurfacesAreHonest == Spec => []SurfacesHonest
<1>1. Init => SurfacesInv
  <2> SUFFICES ASSUME SurfacesInit PROVE SurfacesInv
    BY CallsAreApart DEF SurfacesInv, HarnessInv, CanaryInv, PortalInv, OverlayInv, SurfacesCalls
  <2>1. CASE HarnessInit
    <3>1. subject = "harness"
      BY <2>1 DEF HarnessInit
    <3> QED BY <2>1, <3>1, HarnessStarts DEF SurfacesInv, CanaryInv, PortalInv, OverlayInv
  <2>2. CASE CanaryInit
    <3>1. PICK leaks \in BOOLEAN :
             st = [leaks |-> leaks, pc |-> "set", environ |-> FALSE, in_dict |-> FALSE,
                   booted |-> FALSE, saw |-> TRUE, raised |-> FALSE, passed |-> FALSE]
      BY <2>2 DEF CanaryInit
    <3>2. /\ CanaryShape /\ st.leaks = leaks /\ st.pc = "set" /\ st.environ = FALSE
          /\ st.booted = FALSE /\ st.saw = TRUE /\ st.passed = FALSE
      BY <3>1 DEF CanaryShape
    <3>3. CanaryFacts(leaks, "set", FALSE, FALSE, TRUE, FALSE)
      BY DEF CanaryFacts
    <3>4. subject = "canary"
      BY <2>2 DEF CanaryInit
    <3> QED BY <3>2, <3>3, <3>4 DEF SurfacesInv, HarnessInv, CanaryInv, PortalInv, OverlayInv
  <2>3. CASE PortalInit
    <3>1. subject = "portal" /\ st.report = {} /\ PortalShape
      BY <2>3 DEF PortalInit, PortalShape
    <3> QED BY <3>1 DEF SurfacesInv, HarnessInv, CanaryInv, PortalInv, OverlayInv
  <2>4. CASE OverlayInit
    <3>1. PICK config, store, file, dir :
             st = [vars |-> [config |-> config, store |-> store], file |-> file, dir |-> dir,
                   pc |-> "vars", saw |-> {}, error |-> "none", missing |-> {}, changes |-> 0]
      BY <2>4, Zenon DEF OverlayInit
    <3>2. PICK vars : vars = [config |-> config, store |-> store]
      OBVIOUS
    <3>3. /\ OverlayShape /\ st.vars = vars /\ st.pc = "vars" /\ st.saw = {} /\ st.error = "none"
          /\ st.missing = {}
      BY <3>1, <3>2 DEF OverlayShape
    <3>4. DOMAIN vars = {"config", "store"}
      BY <3>2
    <3>5. OverlayFacts(vars, "vars", {}, "none", {})
      BY <3>4 DEF OverlayFacts
    <3>6. subject = "overlay"
      BY <2>4 DEF OverlayInit
    <3> QED BY <3>3, <3>5, <3>6 DEF SurfacesInv, HarnessInv, CanaryInv, PortalInv, OverlayInv
  <2> QED BY <2>1, <2>2, <2>3, <2>4 DEF SurfacesInit
<1>2. SurfacesInv /\ [Next]_frame => SurfacesInv'
  <2> SUFFICES ASSUME SurfacesInv, [Next]_frame PROVE SurfacesInv'
    OBVIOUS
  <2>1. CASE SurfacesNext
    <3>0. UNCHANGED subject
      BY <2>1, SurfacesApart
    <3>1. ASSUME GoldenRun \/ CaseRun \/ OrphanSweep PROVE SurfacesInv'
      <4>1. subject = "harness"
        BY <3>1 DEF GoldenRun, CaseRun, OrphanSweep
      <4> QED BY <3>0, <3>1, <4>1, HarnessKeeps DEF SurfacesInv, CanaryInv, PortalInv, OverlayInv
    <3>2. ASSUME SetCanary \/ RunCanaryProbe PROVE SurfacesInv'
      <4>1. subject = "canary"
        BY <3>2 DEF SetCanary, RunCanaryProbe
      <4> QED BY <3>0, <3>2, <4>1, CanaryKeeps DEF SurfacesInv, HarnessInv, PortalInv, OverlayInv
    <3>3. ASSUME BuildPortal \/ EditCorpus PROVE SurfacesInv'
      <4>1. subject = "portal"
        BY <3>3 DEF BuildPortal, EditCorpus
      <4> QED BY <3>0, <3>3, <4>1, PortalKeeps DEF SurfacesInv, HarnessInv, CanaryInv, OverlayInv
    <3>4. ASSUME OverlayNext PROVE SurfacesInv'
      <4>1. subject = "overlay"
        BY <3>4 DEF OverlayNext, ReadVars, CheckPaths, ReadConfig, ParseConfig, ChangeFile
      <4> QED BY <3>0, <3>4, <4>1, OverlayKeeps DEF SurfacesInv, HarnessInv, CanaryInv, PortalInv
    <3> QED BY <2>1, <3>1, <3>2, <3>3, <3>4 DEF SurfacesNext, OverlayNext
  <2>2. CASE UNCHANGED frame
    BY <2>2 DEF frame, SurfacesInv, HarnessInv, HarnessShape, CanaryInv, CanaryShape, PortalInv,
                PortalShape, OverlayInv, OverlayShape
  <2>3. CASE UNCHANGED subject /\ subject \notin SurfacesCalls
    BY <2>3 DEF SurfacesCalls, SurfacesInv, HarnessInv, CanaryInv, PortalInv, OverlayInv
  <2> QED BY <2>1, <2>2, <2>3, CallsAreApart
<1>3. SurfacesInv => SurfacesHonest
  <2> SUFFICES ASSUME SurfacesInv PROVE SurfacesHonest
    OBVIOUS
  <2>1. ConformanceIsHonest
    BY HarnessShows DEF SurfacesInv
  <2>2. CanaryIsAnswered
    BY DEF SurfacesInv, CanaryInv, CanaryFacts, CanaryIsAnswered
  <2>3. PublicPagesAreClean
    BY DEF SurfacesInv, PortalInv, BuildFacts, PublicPagesAreClean
  <2>4. OverlayIsWhole
    BY DEF SurfacesInv, OverlayInv, OverlayFacts, OverlayIsWhole
  <2> QED BY <2>1, <2>2, <2>3, <2>4 DEF SurfacesHonest
<1> QED BY <1>1, <1>2, <1>3, PTL DEF Spec
-----------------------------------------------------------------------------
(***************************************************************************)
(* Bridges: the exporter.                                                  *)
(***************************************************************************)
ExportShape ==
    st = [objects |-> st.objects, policy |-> st.policy, snapshot |-> st.snapshot, wire |-> st.wire,
          packets |-> st.packets, refused |-> st.refused]

\* What build_packet makes of one object.
Wired(objects, policy, o) ==
    [object_digest |-> ReplacementDigest(PacketSeed(objects, policy), o.object), text |-> o.text,
     provenance_refs |-> IF policy.private_identities = "digest_replaced"
                         THEN {ReplacementDigest(PacketSeed(objects, policy), r) : r \in o.refs}
                         ELSE {}]

ExportFacts(objects, policy, snapshot, wire, packets, refused) ==
    /\ objects \in Seq(ExportObjects)
    /\ \E S : wire \in Seq(S)
    /\ \A i \in DOMAIN wire : /\ i \in DOMAIN objects
                              /\ wire[i] = Wired(objects, policy, objects[i])
    /\ \A p \in packets : p.objects = wire /\ p.snapshot = snapshot
    /\ packets # {} => ScanPayload(wire)
    /\ \A r \in refused : r.shown <= 4

ExportInv ==
    subject = "export" =>
        ExportShape /\ ExportFacts(st.objects, st.policy, st.snapshot, st.wire, st.packets, st.refused)

\* A replacement is never a raw digest, and keeps identities apart.
LEMMA ReplacementsDiffer ==
    ASSUME NEW objects, NEW policy, NEW a, NEW b
    PROVE  /\ ReplacementDigest(PacketSeed(objects, policy), a) # Raw(b)
           /\ ReplacementDigest(PacketSeed(objects, policy), a) =
                  ReplacementDigest(PacketSeed(objects, policy), b) => a = b
<1>1. PICK texts : PacketSeed(objects, policy) = <<texts, policy>>
  BY DEF PacketSeed
<1>2. <<texts, policy>> # << >>
  OBVIOUS
<1>3. /\ ReplacementDigest(PacketSeed(objects, policy), a).seed = <<texts, policy>>
      /\ Raw(b).seed = << >>
      /\ ReplacementDigest(PacketSeed(objects, policy), a).of = a
      /\ ReplacementDigest(PacketSeed(objects, policy), b).of = b
  BY <1>1 DEF ReplacementDigest, Raw
<1> QED BY <1>2, <1>3, Zenon

\* The match of a summary is a number, and a refusal shows four characters of it.
LEMMA SummaryMatches ==
    ASSUME NEW t \in DOMAIN Summary
    PROVE  Summary[t].match \in {0, 2, 20} /\ Shown(t) <= 4
<1>1. DOMAIN Summary = {"blank", "clean", "other", "long", "path", "flag"}
  BY DEF Summary
<1>2. /\ Summary["blank"].match = 0 /\ Summary["clean"].match = 0 /\ Summary["other"].match = 0
      /\ Summary["long"].match = 0 /\ Summary["path"].match = 20 /\ Summary["flag"].match = 2
  BY DEF Summary
<1>3. Summary[t].match \in {0, 2, 20}
  BY <1>1, <1>2
<1> QED BY <1>3 DEF Shown

\* Every choice of objects and policy starts an export.
LEMMA ExportStarts == ExportInit => ExportInv
<1> SUFFICES ASSUME ExportInit PROVE ExportInv
  OBVIOUS
<1>1. PICK n \in 0 .. MaxObjects : \E objects \in [1 .. n -> ExportObjects], policy \in Policies,
                                       snapshot \in Snapshots :
           st = [objects |-> objects, policy |-> policy, snapshot |-> snapshot, wire |-> <<>>,
                 packets |-> {}, refused |-> {}]
  BY DEF ExportInit
<1>2. PICK objects \in [1 .. n -> ExportObjects], policy \in Policies, snapshot \in Snapshots :
           st = [objects |-> objects, policy |-> policy, snapshot |-> snapshot, wire |-> <<>>,
                 packets |-> {}, refused |-> {}]
  BY <1>1
<1>3. n \in Nat
  BY BridgesAssumption
<1>4. objects \in Seq(ExportObjects)
  BY <1>3
<1>5. /\ ExportShape /\ st.objects = objects /\ st.policy = policy /\ st.snapshot = snapshot /\ st.wire = <<>>
      /\ st.packets = {} /\ st.refused = {}
  BY <1>2 DEF ExportShape
<1>6. << >> \in Seq({})
  OBVIOUS
<1>7. ExportFacts(objects, policy, snapshot, << >>, {}, {})
  BY <1>4, <1>6 DEF ExportFacts
<1> QED BY <1>5, <1>7 DEF ExportInv

\* A refusal shows no more than four characters and builds nothing.
LEMMA RefusalKeeps ==
    ASSUME ExportInv, NEW why, NEW shown, shown <= 4, Refuse(why, shown) PROVE ExportInv'
<1>1. PICK r : r = [why |-> why, shown |-> shown]
  OBVIOUS
<1>2. st' = [st EXCEPT !.refused = {r}] /\ UNCHANGED subject /\ subject = "export"
  BY <1>1, Zenon DEF Refuse, Step
<1>a. ExportShape /\ ExportFacts(st.objects, st.policy, st.snapshot, st.wire, st.packets, st.refused)
  BY <1>2 DEF ExportInv
<1>3. /\ st'.objects = st.objects /\ st'.policy = st.policy /\ st'.snapshot = st.snapshot /\ st'.wire = st.wire
      /\ st'.packets = st.packets /\ st'.refused = {r} /\ ExportShape'
  BY <1>a, <1>2 DEF ExportShape
<1>4. r.shown <= 4
  BY <1>1
<1>5. ExportFacts(st.objects, st.policy, st.snapshot, st.wire, st.packets, {r})
  BY <1>a, <1>4 DEF ExportFacts
<1> QED BY <1>3, <1>5 DEF ExportInv

\* A packet is wired object by object.
LEMMA ExportKeeps == ASSUME ExportInv, ExportNext PROVE ExportInv'
<1>a. /\ ExportShape /\ ExportFacts(st.objects, st.policy, st.snapshot, st.wire, st.packets, st.refused)
      /\ subject = "export"
  BY DEF ExportInv, ExportNext
<1>b. /\ st.objects \in Seq(ExportObjects) /\ DOMAIN st.objects = 1 .. Len(st.objects)
      /\ Len(st.objects) \in Nat
  BY <1>a DEF ExportFacts
<1>c. ASSUME NEW i \in DOMAIN st.objects PROVE st.objects[i].text \in DOMAIN Summary
  <2>1. st.objects[i] \in ExportObjects
    BY <1>b
  <2> QED BY <2>1 DEF ExportObjects
<1>1. CASE WireObject
  <2>0. st.packets = {} /\ Len(st.wire) < Len(st.objects)
    BY <1>1 DEF WireObject
  <2> DEFINE verdict(i) == NormalizeSummary(st.objects[i].text, st.policy.summary_max_bytes)
             bad == {i \in DOMAIN st.objects : verdict(i) # "ok"}
             first == CHOOSE i \in bad : \A j \in bad : i <= j
             o == st.objects[Len(st.wire) + 1]
             seed == PacketSeed(st.objects, st.policy)
  <2>1. \/ /\ bad # {}
           /\ Refuse(verdict(first), IF verdict(first) = "forbidden"
                                     THEN Shown(st.objects[first].text) ELSE 0)
        \/ /\ st' = [st EXCEPT !.wire = Append(st.wire,
                  [object_digest |-> ReplacementDigest(seed, o.object), text |-> o.text,
                   provenance_refs |->
                       IF st.policy.private_identities = "digest_replaced"
                       THEN {ReplacementDigest(seed, r) : r \in o.refs} ELSE {}])]
           /\ UNCHANGED subject
    BY <1>1, Zenon DEF WireObject, Step
  <2>2. ASSUME bad # {},
               Refuse(verdict(first), IF verdict(first) = "forbidden"
                                      THEN Shown(st.objects[first].text) ELSE 0)
        PROVE  ExportInv'
    <3>1. first \in bad
      <4>1. \E i \in bad : \A j \in bad : i <= j
        <5>1. bad \subseteq Nat
          BY <1>b
        <5> QED BY <2>2, <5>1, LeastOfNat
      <4> QED BY <4>1, Zenon
    <3> HIDE DEF bad, first, verdict
    <3>2. PICK shown : shown = IF verdict(first) = "forbidden"
                               THEN Shown(st.objects[first].text) ELSE 0
      OBVIOUS
    <3>3. shown <= 4
      <4>1. st.objects[first].text \in DOMAIN Summary
        BY <1>c, <3>1 DEF bad
      <4>2. Shown(st.objects[first].text) <= 4
        BY <4>1, SummaryMatches
      <4> QED BY <3>2, <4>2
    <3> QED BY <2>2, <3>2, <3>3, RefusalKeeps, Zenon
  <2>3. ASSUME st' = [st EXCEPT !.wire = Append(st.wire, Wired(st.objects, st.policy, o))],
               UNCHANGED subject
        PROVE  ExportInv'
    <3>1. PICK x : x = Wired(st.objects, st.policy, o)
      OBVIOUS
    <3>2. PICK more : more = Append(st.wire, x)
      OBVIOUS
    <3>3. st' = [st EXCEPT !.wire = more]
      BY <2>3, <3>1, <3>2, Zenon
    <3>4. /\ st'.objects = st.objects /\ st'.policy = st.policy /\ st'.snapshot = st.snapshot /\ st'.wire = more
          /\ st'.packets = st.packets /\ st'.refused = st.refused /\ ExportShape'
      BY <1>a, <3>3 DEF ExportShape
    <3>5. PICK S : st.wire \in Seq(S)
      BY <1>a DEF ExportFacts
    <3>6. /\ more \in Seq(S \cup {x}) /\ Len(more) = Len(st.wire) + 1
          /\ \A i \in 1 .. Len(st.wire) : more[i] = st.wire[i]
          /\ more[Len(st.wire) + 1] = x
      BY <3>2, <3>5, AppendFacts
    <3>7. /\ Len(st.wire) \in Nat /\ DOMAIN st.wire = 1 .. Len(st.wire)
          /\ DOMAIN more = 1 .. Len(st.wire) + 1
      BY <3>5, <3>6
    <3>8. ASSUME NEW i \in DOMAIN more
          PROVE  i \in DOMAIN st.objects /\ more[i] = Wired(st.objects, st.policy, st.objects[i])
      <4>1. CASE i \in DOMAIN st.wire
        BY <1>a, <3>6, <3>7, <4>1 DEF ExportFacts
      <4>2. CASE i = Len(st.wire) + 1
        BY <1>b, <2>0, <3>1, <3>6, <3>7, <4>2
      <4> QED BY <3>7, <3>8, <4>1, <4>2
    <3>9. ExportFacts(st.objects, st.policy, st.snapshot, more, st.packets, st.refused)
      BY <1>a, <2>0, <3>6, <3>8 DEF ExportFacts
    <3> QED BY <3>4, <3>9 DEF ExportInv
  <2>4. Wired(st.objects, st.policy, o) =
           [object_digest |-> ReplacementDigest(seed, o.object), text |-> o.text,
            provenance_refs |-> IF st.policy.private_identities = "digest_replaced"
                                THEN {ReplacementDigest(seed, r) : r \in o.refs} ELSE {}]
    BY Zenon DEF Wired
  <2> HIDE DEF bad, first, verdict, o, seed
  <2> QED BY <2>1, <2>2, <2>3, <2>4
<1>2. CASE FinishPacket
  <2>1. CASE Refuse("forbidden", 4)
    BY <2>1, RefusalKeeps
  <2>2. CASE Refuse("oversize", 0)
    BY <2>2, RefusalKeeps
  <2>3. ASSUME NEW p, p = [objects |-> st.wire, snapshot |-> st.snapshot],
               st' = [st EXCEPT !.packets = {p}], UNCHANGED subject, ScanPayload(st.wire)
        PROVE  ExportInv'
    <3>1. /\ st'.objects = st.objects /\ st'.policy = st.policy /\ st'.snapshot = st.snapshot
          /\ st'.wire = st.wire /\ st'.packets = {p} /\ st'.refused = st.refused /\ ExportShape'
      BY <1>a, <2>3 DEF ExportShape
    <3>2. p.objects = st.wire /\ p.snapshot = st.snapshot
      BY <2>3
    <3>3. ExportFacts(st.objects, st.policy, st.snapshot, st.wire, {p}, st.refused)
      BY <1>a, <2>3, <3>2 DEF ExportFacts
    <3> QED BY <2>3, <3>1, <3>3 DEF ExportInv
  <2> QED BY <1>2, <2>1, <2>2, <2>3 DEF FinishPacket, Step
<1> QED BY <1>1, <1>2 DEF ExportNext

\* A packet shows replacements, clean text and no reference it should omit.
LEMMA ExportShows == ExportInv => PacketHidesObjects /\ ReferencesSurvive
<1> SUFFICES ASSUME ExportInv, subject = "export" PROVE PacketHidesObjects /\ ReferencesSurvive
  BY DEF PacketHidesObjects, ReferencesSurvive
<1>1. ExportFacts(st.objects, st.policy, st.snapshot, st.wire, st.packets, st.refused)
  BY DEF ExportInv
<1> DEFINE seed == PacketSeed(st.objects, st.policy)
<1>2. ASSUME NEW p \in st.packets, NEW wire, wire = p.objects, NEW i \in DOMAIN wire
      PROVE  /\ i \in DOMAIN st.objects /\ st.objects[i] \in ExportObjects
             /\ wire[i].object_digest = ReplacementDigest(seed, st.objects[i].object)
             /\ wire[i].text = st.objects[i].text
             /\ st.policy.private_identities = "digest_replaced" =>
                    wire[i].provenance_refs = {ReplacementDigest(seed, r) : r \in st.objects[i].refs}
             /\ st.policy.private_identities # "digest_replaced" => wire[i].provenance_refs = {}
             /\ ~Forbidden(wire[i].text)
  <2>1. /\ i \in DOMAIN st.objects /\ wire[i] = Wired(st.objects, st.policy, st.objects[i])
        /\ ScanPayload(wire) /\ st.objects \in Seq(ExportObjects)
    BY <1>1, <1>2 DEF ExportFacts
  <2>2. ~Forbidden(wire[i].text)
    BY <2>1 DEF ScanPayload
  <2>3. st.objects[i] \in ExportObjects
    BY <2>1
  <2> QED BY <2>1, <2>2, <2>3 DEF Wired
<1> HIDE DEF seed
<1>3. ASSUME NEW p \in st.packets, NEW id \in PrivateIds, Raw(id) \in Digests(p)
      PROVE  Raw(id) \in st.snapshot
  <2>0. p.snapshot = st.snapshot
    BY <1>1 DEF ExportFacts
  <2> DEFINE wire == p.objects
  <2> SUFFICES ASSUME NEW i \in DOMAIN wire
               PROVE  Raw(id) # wire[i].object_digest /\ Raw(id) \notin wire[i].provenance_refs
    BY <1>3, <2>0 DEF Digests
  <2>1. \A a : ReplacementDigest(seed, a) # Raw(id)
    BY ReplacementsDiffer DEF seed
  <2> QED BY <1>2, <2>1
<1>4. ASSUME NEW p \in st.packets, NEW wire, wire = p.objects, NEW i \in DOMAIN wire PROVE Summary[wire[i].text].match = 0
  <2>1. wire[i].text \in DOMAIN Summary /\ ~Forbidden(wire[i].text)
    BY <1>2, <1>4 DEF ExportObjects
  <2> QED BY <2>1, SummaryMatches DEF Forbidden
<1>5. ASSUME NEW p \in st.packets, NEW wire, wire = p.objects, NEW i \in DOMAIN wire, NEW j \in DOMAIN wire,
             st.policy.private_identities = "digest_replaced"
      PROVE  st.objects[j].object \in st.objects[i].refs
                 <=> wire[j].object_digest \in wire[i].provenance_refs
  <2>1. \A a, b : ReplacementDigest(seed, a) = ReplacementDigest(seed, b) => a = b
    BY ReplacementsDiffer DEF seed
  <2>2. /\ wire[j].object_digest = ReplacementDigest(seed, st.objects[j].object)
        /\ wire[i].provenance_refs = {ReplacementDigest(seed, r) : r \in st.objects[i].refs}
    BY <1>2, <1>5
  <2> QED BY <2>1, <2>2
<1>6. PacketHidesObjects
  <2>1. ASSUME NEW p \in st.packets, NEW wire, wire = p.objects, st.policy.private_identities = "omitted", NEW i \in DOMAIN wire
        PROVE  wire[i].provenance_refs = {}
    BY <1>2, <2>1
  <2>2. \A r \in st.refused : r.shown <= 4
    BY <1>1 DEF ExportFacts
  <2> QED BY <1>3, <1>4, <2>1, <2>2 DEF PacketHidesObjects
<1>7. ReferencesSurvive
  BY <1>5 DEF ReferencesSurvive
<1> QED BY <1>6, <1>7
-----------------------------------------------------------------------------
(***************************************************************************)
(* Bridges: observations.                                                  *)
(***************************************************************************)
NativePackets == [id : Nat, head : NativeHeads, fault : Faults]
NativeImports == [packet : NativePackets, expected : NativeHeads]

ObserveShape ==
    st = [project |-> st.project, keeps |-> st.keeps, head |-> st.head, sent |-> st.sent, seen |-> st.seen,
          imported |-> st.imported, events |-> st.events]

ImportIsCurrent(x, project) ==
    /\ x.packet.head = x.expected
    /\ x.packet.fault \in {"none"} \cup IF project = "market" THEN {"executor"} ELSE {}

ObserveFacts(project, keeps, head, sent, seen, imported) ==
    /\ head \in NativeHeads /\ sent \in Seq(NativePackets) /\ imported \in Seq(NativeImports)
    /\ \A i \in DOMAIN imported : /\ ImportIsCurrent(imported[i], project)
                                  /\ keeps => imported[i].packet.id \in seen
    /\ keeps => \A i, j \in DOMAIN imported : i # j => imported[i].packet.id # imported[j].packet.id

ObserveInv ==
    subject = "observe" =>
        ObserveShape /\ ObserveFacts(st.project, st.keeps, st.head, st.sent, st.seen, st.imported)

\* An import of an unseen packet is the first of its id.
LEMMA ImportsStayApart ==
    ASSUME NEW project, NEW keeps, NEW head, NEW sent, NEW seen, NEW imported,
           ObserveFacts(project, keeps, head, sent, seen, imported), NEW p \in NativePackets,
           p.head = head, p.id \notin seen,
           p.fault \in {"none"} \cup IF project = "market" THEN {"executor"} ELSE {},
           NEW x, x = [packet |-> p, expected |-> head],
           NEW kept, kept = IF keeps THEN seen \cup {p.id} ELSE seen
    PROVE  ObserveFacts(project, keeps, head, sent, kept, Append(imported, x))
<1>0. /\ head \in NativeHeads /\ sent \in Seq(NativePackets) /\ imported \in Seq(NativeImports)
  BY DEF ObserveFacts
<1>1. x \in NativeImports /\ x.packet = p /\ x.expected = head
  BY <1>0 DEF NativeImports
<1>2. ImportIsCurrent(x, project)
  BY <1>1 DEF ImportIsCurrent
<1>3. PICK more : more = Append(imported, x)
  OBVIOUS
<1>4. /\ more \in Seq(NativeImports) /\ Len(imported) \in Nat /\ DOMAIN imported = 1 .. Len(imported)
      /\ DOMAIN more = 1 .. Len(imported) + 1
      /\ \A i \in 1 .. Len(imported) : more[i] = imported[i]
      /\ more[Len(imported) + 1] = x
  BY <1>0, <1>1, <1>3
<1>5. \A i \in DOMAIN more : \/ i \in DOMAIN imported /\ more[i] = imported[i]
                             \/ i = Len(imported) + 1 /\ more[i] = x
  BY <1>4
<1>6. \A i \in DOMAIN more : /\ ImportIsCurrent(more[i], project)
                             /\ keeps => more[i].packet.id \in seen \cup {p.id}
  BY <1>1, <1>2, <1>5 DEF ObserveFacts
<1>7. ASSUME keeps, NEW i \in DOMAIN more, NEW j \in DOMAIN more, i # j
      PROVE  more[i].packet.id # more[j].packet.id
  <2>1. CASE i \in DOMAIN imported /\ more[i] = imported[i] /\ j \in DOMAIN imported
             /\ more[j] = imported[j]
    BY <1>7, <2>1 DEF ObserveFacts
  <2>2. CASE i \in DOMAIN imported /\ more[i] = imported[i] /\ more[j] = x
    BY <1>1, <1>7, <2>2 DEF ObserveFacts
  <2>3. CASE j \in DOMAIN imported /\ more[j] = imported[j] /\ more[i] = x
    BY <1>1, <1>7, <2>3 DEF ObserveFacts
  <2> QED BY <1>5, <1>7, <2>1, <2>2, <2>3
<1> QED BY <1>0, <1>3, <1>4, <1>6, <1>7 DEF ObserveFacts

\* However packets travel and heads move, imports stay current and apart.
LEMMA ObserveKeeps == ASSUME ObserveInv, ObserveNext PROVE ObserveInv'
<1>a. /\ ObserveShape /\ ObserveFacts(st.project, st.keeps, st.head, st.sent, st.seen, st.imported)
      /\ subject = "observe"
  BY DEF ObserveInv, ObserveNext
<1>b. st.head \in NativeHeads /\ st.sent \in Seq(NativePackets)
  BY <1>a DEF ObserveFacts
<1>1. CASE NativeMoves
  <2>1. PICK h \in NativeHeads :
          st' = [[st EXCEPT !.head = h] EXCEPT !.events = st.events + 1] /\ UNCHANGED subject
    BY <1>1 DEF NativeMoves, Traffic, Step
  <2>2. /\ st'.project = st.project /\ st'.keeps = st.keeps /\ st'.head = h /\ st'.sent = st.sent /\ st'.seen = st.seen
        /\ st'.imported = st.imported /\ ObserveShape'
    BY <1>a, <2>1 DEF ObserveShape
  <2>3. ObserveFacts(st.project, st.keeps, h, st.sent, st.seen, st.imported)
    BY <1>a DEF ObserveFacts
  <2> QED BY <2>2, <2>3 DEF ObserveInv
<1>2. CASE NativeSends
  <2>1. PICK fault \in Faults :
          /\ st' = [[st EXCEPT !.sent = Append(st.sent, [id |-> Len(st.sent) + 1, head |-> st.head,
                                                         fault |-> fault])]
                       EXCEPT !.events = st.events + 1]
          /\ UNCHANGED subject
    BY <1>2, Zenon DEF NativeSends, Traffic, Step
  <2>2. PICK p : p = [id |-> Len(st.sent) + 1, head |-> st.head, fault |-> fault]
    OBVIOUS
  <2>3. p \in NativePackets
    BY <1>b, <2>2 DEF NativePackets
  <2>4. PICK sent : sent = Append(st.sent, p)
    OBVIOUS
  <2>5. sent \in Seq(NativePackets)
    BY <1>b, <2>3, <2>4
  <2>6. st' = [[st EXCEPT !.sent = sent] EXCEPT !.events = st.events + 1]
    BY <2>1, <2>2, <2>4, Zenon
  <2>7. /\ st'.project = st.project /\ st'.keeps = st.keeps /\ st'.head = st.head /\ st'.sent = sent /\ st'.seen = st.seen
        /\ st'.imported = st.imported /\ ObserveShape'
    BY <1>a, <2>6 DEF ObserveShape
  <2>8. ObserveFacts(st.project, st.keeps, st.head, sent, st.seen, st.imported)
    BY <1>a, <2>5 DEF ObserveFacts
  <2> QED BY <2>7, <2>8 DEF ObserveInv
<1>3. ASSUME NEW p \in NativePackets, ImportPacket(p),
             p.fault \in {"none"} \cup IF st.project = "market" THEN {"executor"} ELSE {}
      PROVE  ObserveInv'
  <2>1. PICK x : x = [packet |-> p, expected |-> st.head]
    OBVIOUS
  <2>2. PICK more : more = Append(st.imported, x)
    OBVIOUS
  <2>3. PICK seen : seen = IF st.keeps THEN st.seen \cup {p.id} ELSE st.seen
    OBVIOUS
  <2>4. st' = [[st EXCEPT !.seen = seen, !.imported = more] EXCEPT !.events = st.events + 1]
    BY <1>3, <2>1, <2>2, <2>3, Zenon DEF ImportPacket, Traffic, Step
  <2>5. p.head = st.head /\ p.id \notin st.seen
    BY <1>3 DEF ImportPacket, Importable
  <2>6. /\ st'.project = st.project /\ st'.keeps = st.keeps /\ st'.head = st.head /\ st'.sent = st.sent /\ st'.seen = seen
        /\ st'.imported = more /\ ObserveShape'
    BY <1>a, <2>4 DEF ObserveShape
  <2>7. ObserveFacts(st.project, st.keeps, st.head, st.sent, seen, more)
    BY <1>a, <1>3, <2>1, <2>2, <2>3, <2>5, ImportsStayApart, Zenon
  <2> QED BY <2>6, <2>7 DEF ObserveInv
<1>4. ASSUME NEW i \in DOMAIN st.sent PROVE st.sent[i] \in NativePackets
  BY <1>b
<1>5. CASE ImportMarketObservationPacket
  BY <1>3, <1>4, <1>5 DEF ImportMarketObservationPacket, MarketPacketOk
<1>6. CASE ImportSecurityObservationPacket
  BY <1>3, <1>4, <1>6 DEF ImportSecurityObservationPacket, SecurityPacketOk
<1> QED BY <1>1, <1>2, <1>5, <1>6 DEF ObserveNext
-----------------------------------------------------------------------------
(***************************************************************************)
(* Bridges: child missions.                                                *)
(***************************************************************************)
CloseoutShape ==
    st = [contour |-> st.contour, vectors |-> st.vectors, issued |-> st.issued,
          request |-> st.request, closeout |-> st.closeout, altered |-> st.altered,
          receipts |-> st.receipts]

AllAccepted(vectors) == \A i \in DOMAIN vectors : vectors[i]

\* A request is as it was issued, or a signature over it does not verify unless what it
\* signs was issued.
RequestFacts(issued, request, altered) ==
    /\ issued \subseteq Unsigned /\ altered \in BOOLEAN
    /\ altered = FALSE => \A r \in request : \E u \in issued : r = Request(u)
    /\ \A r \in request : r.signature = Sign("k", r.unsigned) => r.unsigned \in issued

ReceiptFor(receipt, issued) ==
    /\ receipt.request.unsigned \in issued
    /\ receipt.status = "IMPORTED" => \A c \in receipt.closeout :
           [issue |-> c.issue, content |-> c.content] = receipt.request.unsigned /\ c.unmet = {}

CloseoutFacts(contour, vectors, issued, request, receipts) ==
    /\ contour = "dual" /\ request # {} => AllAccepted(vectors)
    /\ request = {} => receipts = {}
    /\ \A x \in receipts : ReceiptFor(x, issued)

CloseoutInv ==
    subject = "closeout" =>
        /\ CloseoutShape /\ RequestFacts(st.issued, st.request, st.altered)
        /\ CloseoutFacts(st.contour, st.vectors, st.issued, st.request, st.receipts)

\* What Request makes of an issue.
LEMMA RequestIs ==
    ASSUME NEW u
    PROVE  Request(u).unsigned = u /\ Request(u).signature = Sign("k", u)
BY DEF Request

\* Signatures by other keys or over other requests differ.
LEMMA SignaturesDiffer ==
    ASSUME NEW u, NEW v
    PROVE  /\ Sign("k", u) = Sign("k", v) => u = v
           /\ Sign("other", u) # Sign("k", v)
<1>1. Sign("k", u).over = u /\ Sign("k", v).over = v /\ Sign("k", v).key = "k"
      /\ Sign("other", u).key = "other"
  BY DEF Sign
<1> QED BY <1>1

\* Every mission starts with what its contour may issue.
LEMMA CloseoutStarts == CloseoutInit => CloseoutInv
<1> SUFFICES ASSUME CloseoutInit PROVE CloseoutInv
  OBVIOUS
<1>1. PICK contour \in Contours, content \in 1 .. 2, vectors \in [1 .. 2 -> BOOLEAN] :
         st = [contour |-> contour, vectors |-> vectors,
               issued |-> IF contour = "dual" THEN SharedContractRequest(content, vectors)
                          ELSE NativeBridgeChildRequest(content),
               request |-> {Request(u) : u \in IF contour = "dual"
                                               THEN SharedContractRequest(content, vectors)
                                               ELSE NativeBridgeChildRequest(content)},
               closeout |-> {}, altered |-> FALSE, receipts |-> {}]
  BY Zenon DEF CloseoutInit
<1>2. PICK issued : issued = IF contour = "dual" THEN SharedContractRequest(content, vectors)
                             ELSE NativeBridgeChildRequest(content)
  OBVIOUS
<1>3. PICK request : request = {Request(u) : u \in issued}
  OBVIOUS
<1>4. st = [contour |-> contour, vectors |-> vectors, issued |-> issued, request |-> request,
            closeout |-> {}, altered |-> FALSE, receipts |-> {}]
  BY <1>1, <1>2, <1>3, Zenon
<1>5. /\ CloseoutShape /\ st.contour = contour /\ st.vectors = vectors /\ st.issued = issued
      /\ st.request = request /\ st.altered = FALSE /\ st.receipts = {}
  BY <1>4 DEF CloseoutShape
<1>6. issued \subseteq Unsigned
  BY <1>2 DEF SharedContractRequest, NativeBridgeChildRequest, Unsigned
<1>7. contour = "dual" /\ request # {} => AllAccepted(vectors)
  BY <1>2, <1>3 DEF SharedContractRequest, AllAccepted
<1>8. RequestFacts(issued, request, FALSE)
  BY <1>3, <1>6, RequestIs DEF RequestFacts
<1>9. CloseoutFacts(contour, vectors, issued, request, {})
  BY <1>7 DEF CloseoutFacts
<1> QED BY <1>5, <1>8, <1>9 DEF CloseoutInv

\* An altered request no longer verifies, unless what it asks for was issued.
LEMMA AlteredFails ==
    ASSUME NEW issued, NEW request, RequestFacts(issued, request, FALSE), NEW r \in request,
           NEW new \in
             {[r EXCEPT !.unsigned = u] : u \in Unsigned \ {r.unsigned}}
             \cup {[r EXCEPT !.signer = "unknown"], [r EXCEPT !.algorithm = "none"],
                   [r EXCEPT !.signature = Sign("other", r.unsigned)],
                   [r EXCEPT !.request_id = <<9, 9>>]}
    PROVE  RequestFacts(issued, {new}, TRUE)
<1>1. PICK u \in issued : r = Request(u)
  BY DEF RequestFacts
<1>2. r.unsigned = u /\ r.signature = Sign("k", u)
  BY <1>1, RequestIs
<1>s. r = [unsigned |-> u, signer |-> "lab", algorithm |-> "test-hmac-sha256",
           signature |-> Sign("k", u), request_id |-> r.request_id]
  BY <1>1 DEF Request
<1>3. \/ \E v \in Unsigned \ {u} : new = [r EXCEPT !.unsigned = v]
      \/ \E s : new = [r EXCEPT !.signer = s]
      \/ \E a : new = [r EXCEPT !.algorithm = a]
      \/ new = [r EXCEPT !.signature = Sign("other", u)]
      \/ \E i : new = [r EXCEPT !.request_id = i]
  BY <1>2
<1>4. ASSUME NEW v \in Unsigned \ {u}, new = [r EXCEPT !.unsigned = v]
      PROVE  new.signature # Sign("k", new.unsigned)
  <2>1. new.signature = Sign("k", u) /\ new.unsigned = v
    BY <1>s, <1>4
  <2> QED BY <2>1, SignaturesDiffer
<1>5. ASSUME new = [r EXCEPT !.signature = Sign("other", u)]
      PROVE  new.signature # Sign("k", new.unsigned)
  <2>1. new.signature = Sign("other", u) /\ new.unsigned = u
    BY <1>s, <1>5
  <2> QED BY <2>1, SignaturesDiffer
<1>6. ASSUME \/ \E s : new = [r EXCEPT !.signer = s]
             \/ \E a : new = [r EXCEPT !.algorithm = a]
             \/ \E i : new = [r EXCEPT !.request_id = i]
      PROVE  new.unsigned = u
  BY <1>s, <1>6
<1>7. new.signature = Sign("k", new.unsigned) => new.unsigned \in issued
  BY <1>3, <1>4, <1>5, <1>6
<1> QED BY <1>7 DEF RequestFacts

\* An import is of a verified request and of a closeout of the same mission.
LEMMA ImportFits ==
    ASSUME NEW r \in st.request, RequestFacts(st.issued, st.request, st.altered),
           VerifySharedContractRequest(r), ImportCloseout(r)
    PROVE  \E x : /\ ReceiptFor(x, st.issued)
                  /\ st' = [st EXCEPT !.receipts = {x}] /\ UNCHANGED subject
<1>1. r.unsigned \in st.issued /\ r.unsigned \in Unsigned
  BY DEF RequestFacts, VerifySharedContractRequest
<1>2. ASSUME ImportReceipt("WAIT_NATIVE_CHILD_CLOSEOUT", r, {})
      PROVE  \E x : /\ ReceiptFor(x, st.issued)
                    /\ st' = [st EXCEPT !.receipts = {x}] /\ UNCHANGED subject
  <2>1. PICK x : x = [status |-> "WAIT_NATIVE_CHILD_CLOSEOUT", request |-> r, closeout |-> {}]
    OBVIOUS
  <2>2. ReceiptFor(x, st.issued)
    BY <1>1, <2>1 DEF ReceiptFor
  <2>3. st' = [st EXCEPT !.receipts = {x}] /\ UNCHANGED subject
    BY <1>2, <2>1, Zenon DEF ImportReceipt, Step
  <2> QED BY <2>2, <2>3
<1>3. ASSUME NEW c, SameMission(r, c), MeetsDemands(c), ImportReceipt("IMPORTED", r, {c})
      PROVE  \E x : /\ ReceiptFor(x, st.issued)
                    /\ st' = [st EXCEPT !.receipts = {x}] /\ UNCHANGED subject
  <2>1. PICK x : x = [status |-> "IMPORTED", request |-> r, closeout |-> {c}]
    OBVIOUS
  <2>2. [issue |-> c.issue, content |-> c.content] = r.unsigned /\ c.unmet = {}
    BY <1>1, <1>3 DEF SameMission, MeetsDemands, Unsigned
  <2>3. x.request = r /\ x.closeout = {c}
    BY <2>1
  <2>4. ReceiptFor(x, st.issued)
    BY <1>1, <2>2, <2>3 DEF ReceiptFor
  <2>5. st' = [st EXCEPT !.receipts = {x}] /\ UNCHANGED subject
    BY <1>3, <2>1, Zenon DEF ImportReceipt, Step
  <2> QED BY <2>4, <2>5
<1> QED BY <1>2, <1>3 DEF ImportCloseout

\* Every step of a mission keeps its receipts for requests that were issued.
LEMMA CloseoutKeeps == ASSUME CloseoutInv, CloseoutNext PROVE CloseoutInv'
<1>a. /\ CloseoutShape /\ RequestFacts(st.issued, st.request, st.altered) /\ subject = "closeout"
      /\ CloseoutFacts(st.contour, st.vectors, st.issued, st.request, st.receipts)
  BY DEF CloseoutInv, CloseoutNext
<1>b. st.altered \in BOOLEAN
  BY <1>a DEF RequestFacts
<1>1. CASE Reissue
  <2>1. PICK r \in st.request, content \in 1 .. 2 :
          LET u == [issue |-> 2, content |-> content]
          IN  /\ ~st.altered /\ UNCHANGED subject
              /\ st' = [st EXCEPT !.request = {Request(u)}, !.issued = st.issued \cup {u}]
    BY <1>1, Zenon DEF Reissue, Step
  <2>0. [issue |-> 2, content |-> content] \in Unsigned
    BY DEF Unsigned
  <2>2. PICK u \in Unsigned : u = [issue |-> 2, content |-> content]
    BY <2>0
  <2>3. PICK new : new = Request(u)
    OBVIOUS
  <2>4. /\ st.altered = FALSE /\ UNCHANGED subject
        /\ st' = [st EXCEPT !.request = {new}, !.issued = st.issued \cup {u}]
    BY <1>b, <2>1, <2>2, <2>3
  <2>5. /\ st'.contour = st.contour /\ st'.vectors = st.vectors /\ st'.issued = st.issued \cup {u}
        /\ st'.request = {new} /\ st'.altered = FALSE /\ st'.receipts = st.receipts /\ CloseoutShape'
    BY <1>a, <2>4 DEF CloseoutShape
  <2>6. RequestFacts(st.issued \cup {u}, {new}, FALSE)
    BY <1>a, <2>2, <2>3, RequestIs DEF RequestFacts
  <2>7. CloseoutFacts(st.contour, st.vectors, st.issued \cup {u}, {new}, st.receipts)
    BY <1>a, <2>1 DEF CloseoutFacts, ReceiptFor
  <2> QED BY <2>4, <2>5, <2>6, <2>7 DEF CloseoutInv
<1>2. CASE AlterRequest
  <2>1. PICK r \in st.request : \E new \in
             {[r EXCEPT !.unsigned = u] : u \in Unsigned \ {r.unsigned}}
             \cup {[r EXCEPT !.signer = "unknown"], [r EXCEPT !.algorithm = "none"],
                   [r EXCEPT !.signature = Sign("other", r.unsigned)],
                   [r EXCEPT !.request_id = <<9, 9>>]} :
             st' = [st EXCEPT !.request = {new}, !.altered = TRUE] /\ UNCHANGED subject
    BY <1>2, Zenon DEF AlterRequest, Step
  <2>2. st.altered = FALSE
    BY <1>2, <1>b DEF AlterRequest
  <2>3. PICK new :
          /\ st' = [st EXCEPT !.request = {new}, !.altered = TRUE] /\ UNCHANGED subject
          /\ RequestFacts(st.issued, {new}, TRUE)
    <3>1. PICK new \in
             {[r EXCEPT !.unsigned = u] : u \in Unsigned \ {r.unsigned}}
             \cup {[r EXCEPT !.signer = "unknown"], [r EXCEPT !.algorithm = "none"],
                   [r EXCEPT !.signature = Sign("other", r.unsigned)],
                   [r EXCEPT !.request_id = <<9, 9>>]} :
             st' = [st EXCEPT !.request = {new}, !.altered = TRUE] /\ UNCHANGED subject
      BY <2>1, Zenon
    <3>2. RequestFacts(st.issued, {new}, TRUE)
      BY <1>a, <2>2, AlteredFails, Zenon
    <3> QED BY <3>1, <3>2
  <2>4. /\ st'.contour = st.contour /\ st'.vectors = st.vectors /\ st'.issued = st.issued
        /\ st'.request = {new} /\ st'.altered = TRUE /\ st'.receipts = st.receipts /\ CloseoutShape'
    BY <1>a, <2>3 DEF CloseoutShape
  <2>5. CloseoutFacts(st.contour, st.vectors, st.issued, {new}, st.receipts)
    BY <1>a, <2>1 DEF CloseoutFacts
  <2> QED BY <2>3, <2>4, <2>5 DEF CloseoutInv
<1>3. CASE NativeCloses
  <2>1. PICK c : st' = [st EXCEPT !.closeout = {c}] /\ UNCHANGED subject
    BY <1>3, Zenon DEF NativeCloses, Step
  <2>2. /\ st'.contour = st.contour /\ st'.vectors = st.vectors /\ st'.issued = st.issued
        /\ st'.request = st.request /\ st'.altered = st.altered /\ st'.receipts = st.receipts
        /\ CloseoutShape'
    BY <1>a, <2>1 DEF CloseoutShape
  <2> QED BY <1>a, <2>1, <2>2 DEF CloseoutInv
<1>4. CASE ImportDualContourCloseout \/ ImportMarketCloseout \/ ImportSecurityCloseout
  <2>1. PICK r \in st.request : VerifySharedContractRequest(r) /\ ImportCloseout(r)
    BY <1>4 DEF ImportDualContourCloseout, ImportMarketCloseout, ImportSecurityCloseout,
                VerifyNativeBridgeRequest
  <2>2. PICK x : /\ ReceiptFor(x, st.issued)
                 /\ st' = [st EXCEPT !.receipts = {x}] /\ UNCHANGED subject
    BY <1>a, <2>1, ImportFits
  <2>3. /\ st'.contour = st.contour /\ st'.vectors = st.vectors /\ st'.issued = st.issued
        /\ st'.request = st.request /\ st'.altered = st.altered /\ st'.receipts = {x}
        /\ CloseoutShape'
    BY <1>a, <2>2 DEF CloseoutShape
  <2>4. CloseoutFacts(st.contour, st.vectors, st.issued, st.request, {x})
    BY <1>a, <2>1, <2>2 DEF CloseoutFacts
  <2> QED BY <1>a, <2>2, <2>3, <2>4 DEF CloseoutInv
<1> QED BY <1>1, <1>2, <1>3, <1>4 DEF CloseoutNext
-----------------------------------------------------------------------------
(***************************************************************************)
(* Bridges: heavy jobs.                                                    *)
(***************************************************************************)
RemoteShape ==
    st = [profile |-> st.profile, node |-> st.node, units |-> st.units, receipt |-> st.receipt,
          capability |-> st.capability, bundle |-> st.bundle, decision |-> st.decision,
          packet |-> st.packet, ran |-> st.ran]

\* What a job is routed on.
RemoteCase(profile, node, units, receipt, capability) ==
    /\ profile \in HeavyProfiles /\ units \in Nat /\ receipt \in {{}, {1}}
    /\ node = {} \/ \E n \in ComputeNodes : node = {n}
    /\ capability \in profile.capabilities

RemoteFacts(profile, node, units, receipt, capability, bundle, decision, packet, ran) ==
    /\ bundle \subseteq {AssessProfile(profile, node, receipt)}
    /\ decision \subseteq {RouteHeavyJob(profile, capability, units, node, receipt)}
    /\ \A k \in packet : /\ k.signature = Sign("k", units)
                         /\ k = [job |-> k.job, signer |-> k.signer, signature |-> k.signature,
                                 schema |-> k.schema]
    /\ \A job \in ran : job = units

RemoteInv ==
    subject = "remote" =>
        /\ RemoteShape /\ RemoteCase(st.profile, st.node, st.units, st.receipt, st.capability)
        /\ RemoteFacts(st.profile, st.node, st.units, st.receipt, st.capability, st.bundle,
                       st.decision, st.packet, st.ran)

\* Every case of a heavy job starts undecided.
LEMMA RemoteStarts == RemoteInit => RemoteInv
<1> SUFFICES ASSUME RemoteInit PROVE RemoteInv
  OBVIOUS
<1>1. PICK p \in HeavyProfiles, n \in ComputeNodes, node \in BOOLEAN, units \in 0 .. 2,
           receipt \in {{}, {1}} : \E c \in p.capabilities :
           st = [profile |-> p, node |-> IF node THEN {n} ELSE {}, units |-> units,
                 receipt |-> receipt, capability |-> c, bundle |-> {}, decision |-> {},
                 packet |-> {}, ran |-> {}]
  BY DEF RemoteInit
<1>2. PICK c \in p.capabilities :
           st = [profile |-> p, node |-> IF node THEN {n} ELSE {}, units |-> units,
                 receipt |-> receipt, capability |-> c, bundle |-> {}, decision |-> {},
                 packet |-> {}, ran |-> {}]
  BY <1>1
<1>3. PICK nodes : nodes = IF node THEN {n} ELSE {}
  OBVIOUS
<1>4. /\ RemoteShape /\ st.profile = p /\ st.node = nodes /\ st.units = units /\ st.receipt = receipt
      /\ st.capability = c /\ st.bundle = {} /\ st.decision = {} /\ st.packet = {} /\ st.ran = {}
  BY <1>2, <1>3 DEF RemoteShape
<1>5. RemoteCase(p, nodes, units, receipt, c) /\ RemoteFacts(p, nodes, units, receipt, c, {}, {}, {}, {})
  BY <1>3 DEF RemoteCase, RemoteFacts
<1>6. /\ RemoteCase(st.profile, st.node, st.units, st.receipt, st.capability)
      /\ RemoteFacts(st.profile, st.node, st.units, st.receipt, st.capability, st.bundle,
                     st.decision, st.packet, st.ran)
  BY <1>4, <1>5
<1> QED BY <1>4, <1>6 DEF RemoteInv

\* A job is routed, signed and run as it was asked for.
LEMMA RemoteKeeps == ASSUME RemoteInv, RemoteNext PROVE RemoteInv'
<1>a. /\ RemoteShape /\ RemoteCase(st.profile, st.node, st.units, st.receipt, st.capability)
      /\ RemoteFacts(st.profile, st.node, st.units, st.receipt, st.capability, st.bundle,
                     st.decision, st.packet, st.ran)
      /\ subject = "remote"
  BY DEF RemoteInv, RemoteNext
<1>1. CASE BuildBundle
  <2>1. PICK bundle : bundle = {AssessProfile(st.profile, st.node, st.receipt)}
    OBVIOUS
  <2>2. st' = [st EXCEPT !.bundle = bundle] /\ UNCHANGED subject
    BY <1>1, <2>1, Zenon DEF BuildBundle, Step
  <2>3. /\ st'.profile = st.profile /\ st'.node = st.node /\ st'.units = st.units
        /\ st'.receipt = st.receipt /\ st'.capability = st.capability /\ st'.bundle = bundle
        /\ st'.decision = st.decision /\ st'.packet = st.packet /\ st'.ran = st.ran /\ RemoteShape'
    BY <1>a, <2>2 DEF RemoteShape
  <2>4. RemoteFacts(st.profile, st.node, st.units, st.receipt, st.capability, bundle, st.decision,
                    st.packet, st.ran)
    BY <1>a, <2>1 DEF RemoteFacts
  <2> QED BY <1>a, <2>2, <2>3, <2>4 DEF RemoteInv
<1>2. CASE RouteJob
  <2>1. PICK decision : decision = {RouteHeavyJob(st.profile, st.capability, st.units, st.node,
                                                  st.receipt)}
    OBVIOUS
  <2>2. st' = [st EXCEPT !.decision = decision] /\ UNCHANGED subject
    BY <1>2, <2>1, Zenon DEF RouteJob, Step
  <2>3. /\ st'.profile = st.profile /\ st'.node = st.node /\ st'.units = st.units
        /\ st'.receipt = st.receipt /\ st'.capability = st.capability /\ st'.bundle = st.bundle
        /\ st'.decision = decision /\ st'.packet = st.packet /\ st'.ran = st.ran /\ RemoteShape'
    BY <1>a, <2>2 DEF RemoteShape
  <2>4. RemoteFacts(st.profile, st.node, st.units, st.receipt, st.capability, st.bundle, decision,
                    st.packet, st.ran)
    BY <1>a, <2>1 DEF RemoteFacts
  <2> QED BY <1>a, <2>2, <2>3, <2>4 DEF RemoteInv
<1>3. CASE SignJob
  <2>1. PICK k : k = [job |-> st.units, signer |-> "lab", signature |-> Sign("k", st.units),
                      schema |-> TRUE]
    OBVIOUS
  <2>2. st' = [st EXCEPT !.packet = {k}] /\ UNCHANGED subject
    BY <1>3, <2>1, Zenon DEF SignJob, Step
  <2>3. /\ st'.profile = st.profile /\ st'.node = st.node /\ st'.units = st.units
        /\ st'.receipt = st.receipt /\ st'.capability = st.capability /\ st'.bundle = st.bundle
        /\ st'.decision = st.decision /\ st'.packet = {k} /\ st'.ran = st.ran /\ RemoteShape'
    BY <1>a, <2>2 DEF RemoteShape
  <2>4. k.signature = Sign("k", st.units) /\ k = [job |-> k.job, signer |-> k.signer,
                                                  signature |-> k.signature, schema |-> k.schema]
    BY <2>1
  <2>5. RemoteFacts(st.profile, st.node, st.units, st.receipt, st.capability, st.bundle, st.decision,
                    {k}, st.ran)
    BY <1>a, <2>4 DEF RemoteFacts
  <2> QED BY <1>a, <2>2, <2>3, <2>5 DEF RemoteInv
<1>4. CASE AlterJob
  <2>1. PICK k \in st.packet : \E new :
          /\ new \in {[k EXCEPT !.job = 3], [k EXCEPT !.signer = "unknown"], [k EXCEPT !.schema = FALSE]}
          /\ st' = [st EXCEPT !.packet = {new}] /\ UNCHANGED subject
    BY <1>4, Zenon DEF AlterJob, Step
  <2>2. PICK new :
          /\ new \in {[k EXCEPT !.job = 3], [k EXCEPT !.signer = "unknown"], [k EXCEPT !.schema = FALSE]}
          /\ st' = [st EXCEPT !.packet = {new}] /\ UNCHANGED subject
    BY <2>1
  <2>3. /\ st'.profile = st.profile /\ st'.node = st.node /\ st'.units = st.units
        /\ st'.receipt = st.receipt /\ st'.capability = st.capability /\ st'.bundle = st.bundle
        /\ st'.decision = st.decision /\ st'.packet = {new} /\ st'.ran = st.ran /\ RemoteShape'
    BY <1>a, <2>2 DEF RemoteShape
  <2>4. /\ k.signature = Sign("k", st.units)
        /\ k = [job |-> k.job, signer |-> k.signer, signature |-> k.signature, schema |-> k.schema]
    BY <1>a DEF RemoteFacts
  <2>5. /\ new.signature = k.signature
        /\ new = [job |-> new.job, signer |-> new.signer, signature |-> new.signature,
                  schema |-> new.schema]
    <3>1. CASE new = [k EXCEPT !.job = 3]
      BY <2>4, <3>1
    <3>2. CASE new = [k EXCEPT !.signer = "unknown"]
      BY <2>4, <3>2
    <3>3. CASE new = [k EXCEPT !.schema = FALSE]
      BY <2>4, <3>3
    <3> QED BY <2>2, <3>1, <3>2, <3>3
  <2>6. RemoteFacts(st.profile, st.node, st.units, st.receipt, st.capability, st.bundle, st.decision,
                    {new}, st.ran)
    BY <1>a, <2>4, <2>5 DEF RemoteFacts
  <2> QED BY <1>a, <2>2, <2>3, <2>6 DEF RemoteInv
<1>5. CASE RunJob
  <2>1. PICK k \in st.packet : /\ VerifyJob(k) /\ st' = [st EXCEPT !.ran = {k.job}]
                               /\ UNCHANGED subject
    BY <1>5 DEF RunJob, Step
  <2>2. k.job = st.units
    <3>1. Sign("k", k.job) = Sign("k", st.units)
      BY <1>a, <2>1 DEF VerifyJob, RemoteFacts
    <3> QED BY <3>1, SignaturesDiffer
  <2>3. /\ st'.profile = st.profile /\ st'.node = st.node /\ st'.units = st.units
        /\ st'.receipt = st.receipt /\ st'.capability = st.capability /\ st'.bundle = st.bundle
        /\ st'.decision = st.decision /\ st'.packet = st.packet /\ st'.ran = {k.job} /\ RemoteShape'
    BY <1>a, <2>1 DEF RemoteShape
  <2>4. RemoteFacts(st.profile, st.node, st.units, st.receipt, st.capability, st.bundle, st.decision,
                    st.packet, {k.job})
    BY <1>a, <2>2 DEF RemoteFacts
  <2> QED BY <1>a, <2>1, <2>3, <2>4 DEF RemoteInv
<1> QED BY <1>1, <1>2, <1>3, <1>4, <1>5 DEF RemoteNext

\* A node that has all a profile asks for has the one capability of the job.
LEMMA NodeServes ==
    ASSUME NEW node, node = {} \/ \E n \in ComputeNodes : node = {n}, NEW caps
    PROVE  /\ ComputeNodeVerdict(node, caps) = "ROUTABLE_REMOTE" <=>
                  \E n \in node : /\ n.online /\ ~n.revoked /\ n.architecture = "linux"
                                  /\ caps \subseteq n.capabilities /\ n.has_image
<1>1. CASE node = {}
  BY <1>1 DEF ComputeNodeVerdict
<1>2. ASSUME NEW n \in ComputeNodes, node = {n}
      PROVE  ComputeNodeVerdict(node, caps) = "ROUTABLE_REMOTE" <=>
                 /\ n.online /\ ~n.revoked /\ n.architecture = "linux"
                 /\ caps \subseteq n.capabilities /\ n.has_image
  <2>1. (CHOOSE x \in node : TRUE) = n
    BY <1>2
  <2>2. ComputeNodeVerdict(node, caps) =
          IF ~n.online THEN "WAIT_COMPUTE_NODE"
          ELSE IF n.revoked THEN "REJECTED"
          ELSE IF n.architecture # "linux" \/ ~(caps \subseteq n.capabilities) \/ ~n.has_image
               THEN "WAIT_COMPUTE_NODE" ELSE "ROUTABLE_REMOTE"
    BY <1>2, <2>1 DEF ComputeNodeVerdict
  <2>3. n.online \in BOOLEAN /\ n.revoked \in BOOLEAN /\ n.has_image \in BOOLEAN
    BY DEF ComputeNodes
  <2> QED BY <2>2, <2>3
<1> QED BY <1>1, <1>2

\* A routed job is covered.
LEMMA RemoteShows == RemoteInv => RoutedJobIsCovered
<1> SUFFICES ASSUME RemoteInv, subject = "remote" PROVE RoutedJobIsCovered
  BY DEF RoutedJobIsCovered
<1>1. /\ RemoteCase(st.profile, st.node, st.units, st.receipt, st.capability)
      /\ RemoteFacts(st.profile, st.node, st.units, st.receipt, st.capability, st.bundle,
                     st.decision, st.packet, st.ran)
  BY DEF RemoteInv
<1>2. /\ st.units \in Nat /\ st.receipt \in {{}, {1}} /\ st.profile.paid_oracle \in BOOLEAN
      /\ st.node = {} \/ \E n \in ComputeNodes : st.node = {n}
      /\ st.capability \in st.profile.capabilities
  BY <1>1 DEF RemoteCase, HeavyProfiles
<1>3. ASSUME st.decision = {"ROUTABLE_REMOTE"}
      PROVE  /\ st.profile.paid_oracle \/ st.units > 0 => \E r \in st.receipt : st.units <= r
             /\ \E n \in st.node : n.online /\ ~n.revoked /\ st.capability \in n.capabilities
  <2>1. RouteHeavyJob(st.profile, st.capability, st.units, st.node, st.receipt) = "ROUTABLE_REMOTE"
    BY <1>1, <1>3 DEF RemoteFacts
  <2>2. /\ ~((st.profile.paid_oracle \/ st.units > 0) /\ st.receipt = {})
        /\ ~\E r \in st.receipt : st.units > r
        /\ ComputeNodeVerdict(st.node, {st.capability}) = "ROUTABLE_REMOTE"
    BY <2>1 DEF RouteHeavyJob
  <2>3. \E n \in st.node : n.online /\ ~n.revoked /\ st.capability \in n.capabilities
    BY <1>2, <2>2, NodeServes
  <2>4. st.profile.paid_oracle \/ st.units > 0 => \E r \in st.receipt : st.units <= r
    BY <1>2, <2>2
  <2> QED BY <2>3, <2>4
<1>4. ASSUME st.bundle = {"ROUTABLE_REMOTE"}
      PROVE  st.decision \subseteq {"ROUTABLE_REMOTE", "WAIT_AUTHORITY"}
  <2>1. AssessProfile(st.profile, st.node, st.receipt) = "ROUTABLE_REMOTE"
    BY <1>1, <1>4 DEF RemoteFacts
  <2>2. ComputeNodeVerdict(st.node, st.profile.capabilities) = "ROUTABLE_REMOTE"
    BY <2>1 DEF AssessProfile
  <2>3. ComputeNodeVerdict(st.node, {st.capability}) = "ROUTABLE_REMOTE"
    BY <1>2, <2>2, NodeServes
  <2>4. RouteHeavyJob(st.profile, st.capability, st.units, st.node, st.receipt)
            \in {"ROUTABLE_REMOTE", "WAIT_AUTHORITY"}
    BY <2>3 DEF RouteHeavyJob
  <2> QED BY <1>1, <2>4 DEF RemoteFacts
<1>5. \A job \in st.ran : job = st.units
  BY <1>1 DEF RemoteFacts
<1> QED BY <1>3, <1>4, <1>5 DEF RoutedJobIsCovered

BridgesInv == ExportInv /\ ObserveInv /\ CloseoutInv /\ RemoteInv

\* What crosses a boundary is safe to: for any number of objects and events, a packet holds
\* replacements and clean text alone and keeps its references, an observation is imported
\* once and under its own head, a closeout only for a request that was issued, and a job runs
\* as it was signed on a node that serves it within the budget (bridge/exporter.py,
\* bridge/sanitizer.py, integrations/native_child.py, integrations/market/bridge.py,
\* integrations/security/bridge.py, runtime/remote/routing.py).
THEOREM CrossingsAreSafe == Spec => []CrossingsSafe
<1>1. Init => BridgesInv
  <2> SUFFICES ASSUME BridgesInit PROVE BridgesInv
    BY CallsAreApart DEF BridgesInv, ExportInv, ObserveInv, CloseoutInv, RemoteInv, BridgesCalls
  <2>1. CASE ExportInit
    <3>1. subject = "export"
      BY <2>1 DEF ExportInit
    <3> QED BY <2>1, <3>1, ExportStarts DEF BridgesInv, ObserveInv, CloseoutInv, RemoteInv
  <2>2. CASE ObserveInit
    <3>1. PICK h \in NativeHeads, p \in {"market", "security"}, keeps \in BOOLEAN :
             st = [project |-> p, keeps |-> keeps, head |-> h, sent |-> <<>>, seen |-> {},
                   imported |-> <<>>, events |-> 0]
      BY <2>2 DEF ObserveInit
    <3>2. /\ ObserveShape /\ st.project = p /\ st.keeps = keeps /\ st.head = h /\ st.sent = <<>> /\ st.seen = {}
          /\ st.imported = <<>>
      BY <3>1 DEF ObserveShape
    <3>3. ObserveFacts(p, keeps, h, <<>>, {}, <<>>)
      BY DEF ObserveFacts
    <3>4. subject = "observe"
      BY <2>2 DEF ObserveInit
    <3> QED BY <3>2, <3>3, <3>4 DEF BridgesInv, ExportInv, ObserveInv, CloseoutInv, RemoteInv
  <2>3. CASE CloseoutInit
    <3>1. subject = "closeout"
      BY <2>3 DEF CloseoutInit
    <3> QED BY <2>3, <3>1, CloseoutStarts DEF BridgesInv, ExportInv, ObserveInv, RemoteInv
  <2>4. CASE RemoteInit
    <3>1. subject = "remote"
      BY <2>4 DEF RemoteInit
    <3> QED BY <2>4, <3>1, RemoteStarts DEF BridgesInv, ExportInv, ObserveInv, CloseoutInv
  <2> QED BY <2>1, <2>2, <2>3, <2>4 DEF BridgesInit
<1>2. BridgesInv /\ [Next]_frame => BridgesInv'
  <2> SUFFICES ASSUME BridgesInv, [Next]_frame PROVE BridgesInv'
    OBVIOUS
  <2>1. CASE BridgesNext
    <3>0. UNCHANGED subject
      BY <2>1, BridgesApart
    <3>1. ASSUME ExportNext PROVE BridgesInv'
      <4>1. subject = "export"
        BY <3>1 DEF ExportNext
      <4> QED BY <3>0, <3>1, <4>1, ExportKeeps DEF BridgesInv, ObserveInv, CloseoutInv, RemoteInv
    <3>2. ASSUME ObserveNext PROVE BridgesInv'
      <4>1. subject = "observe"
        BY <3>2 DEF ObserveNext
      <4> QED BY <3>0, <3>2, <4>1, ObserveKeeps DEF BridgesInv, ExportInv, CloseoutInv, RemoteInv
    <3>3. ASSUME CloseoutNext PROVE BridgesInv'
      <4>1. subject = "closeout"
        BY <3>3 DEF CloseoutNext
      <4> QED BY <3>0, <3>3, <4>1, CloseoutKeeps DEF BridgesInv, ExportInv, ObserveInv, RemoteInv
    <3>4. ASSUME RemoteNext PROVE BridgesInv'
      <4>1. subject = "remote"
        BY <3>4 DEF RemoteNext
      <4> QED BY <3>0, <3>4, <4>1, RemoteKeeps DEF BridgesInv, ExportInv, ObserveInv, CloseoutInv
    <3> QED BY <2>1, <3>1, <3>2, <3>3, <3>4 DEF BridgesNext
  <2>2. CASE UNCHANGED frame
    BY <2>2 DEF frame, BridgesInv, ExportInv, ExportShape, ObserveInv, ObserveShape, CloseoutInv,
                CloseoutShape, RemoteInv, RemoteShape
  <2>3. CASE UNCHANGED subject /\ subject \notin BridgesCalls
    BY <2>3 DEF BridgesCalls, BridgesInv, ExportInv, ObserveInv, CloseoutInv, RemoteInv
  <2> QED BY <2>1, <2>2, <2>3, CallsAreApart
<1>3. BridgesInv => CrossingsSafe
  <2> SUFFICES ASSUME BridgesInv PROVE CrossingsSafe
    OBVIOUS
  <2>1. PacketHidesObjects /\ ReferencesSurvive
    BY ExportShows DEF BridgesInv
  <2>2. ObservationOnceAndCurrent
    BY DEF BridgesInv, ObserveInv, ObserveFacts, ImportIsCurrent, ObservationOnceAndCurrent
  <2>3. CloseoutIsForThisRequest
    BY DEF BridgesInv, CloseoutInv, CloseoutFacts, ReceiptFor, AllAccepted, CloseoutIsForThisRequest
  <2>4. RoutedJobIsCovered
    BY RemoteShows DEF BridgesInv
  <2> QED BY <2>1, <2>2, <2>3, <2>4 DEF CrossingsSafe
<1> QED BY <1>1, <1>2, <1>3, PTL DEF Spec
-----------------------------------------------------------------------------
(***************************************************************************)
(* The components whose invariants AlgorithmProofs carries.                *)
(***************************************************************************)
\* The calls of the autonomy component are its own.
LEMMA AutonomyCallsApart ==
    /\ Init => AutonomyInit \/ subject \notin AutonomyCalls
    /\ Next => AutonomyNext \/ (UNCHANGED subject /\ subject \notin AutonomyCalls)
BY CatalogApart, KnowledgeApart, PlanningApart, SemanticApart, HealthApart, AutonomyApart,
   StorageApart, ReleaseApart, FrontEndsApart, BridgesApart, ContractsApart, FacadeApart,
   PacksApart, ProversApart, ProductsApart, EstimatorsApart, SurfacesApart
   DEF CatalogCalls, KnowledgeCalls, PlanningCalls, SemanticCalls, HealthCalls, AutonomyCalls,
   StorageCalls, ReleaseCalls, FrontEndsCalls, BridgesCalls, ContractsCalls, FacadeCalls,
   PacksCalls, ProversCalls, ProductsCalls, EstimatorsCalls, SurfacesCalls, Init, Next

\* Any other call leaves nothing of the autonomy invariant to show.
LEMMA AutonomyElsewhere == (subject \notin AutonomyCalls => AutonomyInv) /\ (subject' \notin AutonomyCalls => AutonomyInv')
BY DEF AutonomyCalls, AutonomyInv, ResumeInv, ScopeInv, AutonomyPolicyInv, LeakInv

\* The autonomy invariant holds in every reachable state.
LEMMA AutonomyInvariant == Spec => []AutonomyInv
<1>1. Init => AutonomyInv
  BY AutonomyCallsApart, AutonomyInits, AutonomyElsewhere
<1>2. AutonomyInv /\ [Next]_frame => AutonomyInv'
  BY AutonomyCallsApart, AutonomySteps, AutonomyUnmoved, AutonomyElsewhere
<1> QED BY <1>1, <1>2, PTL DEF Spec

\* An agent goes on, writes and shows no more than it was granted: resuming never
\* builds on drift (reconcile), an accepted write stays in its scope (check_write),
\* an accepted policy grants no protected power, and no excerpt of the leak guard
\* shows a whole secret, for paths of every length.
THEOREM AgentStaysWithinGrant == Spec => []AgentWithinGrant
BY AutonomyInvariant, AutonomyInvHolds, PTL

\* The calls of the planner are its own.
LEMMA PlanningCallsApart ==
    /\ Init => PlanningInit \/ subject \notin PlanningCalls
    /\ Next => PlanningNext \/ (UNCHANGED subject /\ subject \notin PlanningCalls)
BY CatalogApart, KnowledgeApart, PlanningApart, SemanticApart, HealthApart, AutonomyApart,
   StorageApart, ReleaseApart, FrontEndsApart, BridgesApart, ContractsApart, FacadeApart,
   PacksApart, ProversApart, ProductsApart, EstimatorsApart, SurfacesApart
   DEF CatalogCalls, KnowledgeCalls, PlanningCalls, SemanticCalls, HealthCalls, AutonomyCalls,
   StorageCalls, ReleaseCalls, FrontEndsCalls, BridgesCalls, ContractsCalls, FacadeCalls,
   PacksCalls, ProversCalls, ProductsCalls, EstimatorsCalls, SurfacesCalls, Init, Next

\* Any other call leaves nothing of the planning invariant to show.
LEMMA PlanningElsewhere == (subject \notin PlanningCalls => PlanningInv) /\ (subject' \notin PlanningCalls => PlanningInv')
BY DEF PlanningCalls, PlanningInv, PlanInv, TopoInv, CorpusInv, AdmitInv

\* The planning invariant holds in every reachable state.
LEMMA PlanningInvariant == Spec => []PlanningInv
<1>1. Init => PlanningInv
  BY PlanningCallsApart, PlanningInits, PlanningElsewhere
<1>2. PlanningInv /\ [Next]_frame => PlanningInv'
  BY PlanningCallsApart, PlanningSteps, PlanningUnmoved, PlanningElsewhere
<1> QED BY <1>1, <1>2, PTL DEF Spec

\* A plan can be carried out in its order with what the catalog offers: the router
\* never falls back to something local, the topological order of every finite graph
\* respects it and a cycle, and nothing else, is refused, the exception class is
\* never stricter, and a corpus task that passes has all it needs.
THEOREM PlansAreSound == Spec => []PlansSound
BY PlanningInvariant, PlanningInvHolds, PTL

\* The calls of the packs component are its own.
LEMMA PacksCallsApart ==
    /\ Init => PacksInit \/ subject \notin PacksCalls
    /\ Next => PacksNext \/ (UNCHANGED subject /\ subject \notin PacksCalls)
BY CatalogApart, KnowledgeApart, PlanningApart, SemanticApart, HealthApart, AutonomyApart,
   StorageApart, ReleaseApart, FrontEndsApart, BridgesApart, ContractsApart, FacadeApart,
   PacksApart, ProversApart, ProductsApart, EstimatorsApart, SurfacesApart
   DEF CatalogCalls, KnowledgeCalls, PlanningCalls, SemanticCalls, HealthCalls, AutonomyCalls,
   StorageCalls, ReleaseCalls, FrontEndsCalls, BridgesCalls, ContractsCalls, FacadeCalls,
   PacksCalls, ProversCalls, ProductsCalls, EstimatorsCalls, SurfacesCalls, Init, Next

\* Any other call leaves nothing of the packs invariant to show.
LEMMA PacksElsewhere == (subject \notin PacksCalls => PacksInv) /\ (subject' \notin PacksCalls => PacksInv')
BY DEF PacksCalls, PacksInv, AdmissionInv, ArchiveInv, StagingInv, EnvironmentInv,
       P1Inv, BuildInv, InventoryInv, FixtureInv, PlatformInv

\* The packs invariant holds in every reachable state.
LEMMA PacksInvariant == Spec => []PacksInv
<1>1. Init => PacksInv
  BY PacksCallsApart, PacksInits, PacksElsewhere
<1>2. PacksInv /\ [Next]_frame => PacksInv'
  BY PacksCallsApart, PacksSteps, PacksUnmoved, PacksElsewhere
<1> QED BY <1>1, <1>2, PTL DEF Spec

\* However many curators there are: a chain of receipts holds each stage once, in
\* order and with good evidence of its own kind; an ACTIVE pack has an allowed
\* licence, a bill of materials, a lock, a passed scan, nothing revoked and eight
\* receipt ids, which are one of every stage where they are receipts of one chain; a
\* file an archive puts outside its destination is always reported; a staged copy is
\* the manifest's tree whatever became of the pack root; the walk of every finite
\* dependency graph orders it or is right to refuse it; more evidence never earns a
\* stricter verdict; and nothing claims what was not declared, built or compared.
THEOREM PacksAreVetted == Spec => []PacksVetted
BY PacksInvariant, PacksInvHolds, PTL

\* The calls of the catalog are its own.
LEMMA CatalogCallsApart ==
    /\ Init => CatalogInit \/ subject \notin CatalogCalls
    /\ Next => CatalogNext \/ (UNCHANGED subject /\ subject \notin CatalogCalls)
BY CatalogApart, KnowledgeApart, PlanningApart, SemanticApart, HealthApart, AutonomyApart,
   StorageApart, ReleaseApart, FrontEndsApart, BridgesApart, ContractsApart, FacadeApart,
   PacksApart, ProversApart, ProductsApart, EstimatorsApart, SurfacesApart
   DEF CatalogCalls, KnowledgeCalls, PlanningCalls, SemanticCalls, HealthCalls, AutonomyCalls,
   StorageCalls, ReleaseCalls, FrontEndsCalls, BridgesCalls, ContractsCalls, FacadeCalls,
   PacksCalls, ProversCalls, ProductsCalls, EstimatorsCalls, SurfacesCalls, Init, Next

\* Any other call leaves nothing of the catalog invariant to show.
LEMMA CatalogElsewhere == (subject \notin CatalogCalls => CatalogInv) /\ (subject' \notin CatalogCalls => CatalogInv')
BY DEF CatalogCalls, CatalogInv, SnapshotInv, CacheInv

\* The catalog invariant holds in every reachable state.
LEMMA CatalogInvariant == Spec => []CatalogInv
<1>1. Init => CatalogInv
  BY CatalogCallsApart, CatalogInits, CatalogElsewhere
<1>2. CatalogInv /\ [Next]_frame => CatalogInv'
  BY CatalogCallsApart, CatalogSteps, CatalogUnmoved, CatalogElsewhere
<1> QED BY <1>1, <1>2, PTL DEF Spec

\* Whatever entries a snapshot is built of and in whatever order they were found, its
\* id and its Merkle root are those of no other set of entries; what is read back from
\* a cache file nobody edited is what was written; and no location is shown while the
\* store is away.
THEOREM CatalogIsTruthful == Spec => []CatalogSpeaksTrue
BY CatalogInvariant, CatalogInvHolds, PTL

\* The calls of the contracts are their own.
LEMMA ContractsCallsApart ==
    /\ Init => ContractsInit \/ subject \notin ContractsCalls
    /\ Next => ContractsNext \/ (UNCHANGED subject /\ subject \notin ContractsCalls)
BY CatalogApart, KnowledgeApart, PlanningApart, SemanticApart, HealthApart, AutonomyApart,
   StorageApart, ReleaseApart, FrontEndsApart, BridgesApart, ContractsApart, FacadeApart,
   PacksApart, ProversApart, ProductsApart, EstimatorsApart, SurfacesApart
   DEF CatalogCalls, KnowledgeCalls, PlanningCalls, SemanticCalls, HealthCalls, AutonomyCalls,
   StorageCalls, ReleaseCalls, FrontEndsCalls, BridgesCalls, ContractsCalls, FacadeCalls,
   PacksCalls, ProversCalls, ProductsCalls, EstimatorsCalls, SurfacesCalls, Init, Next

\* Away from those calls the invariant of the contracts says nothing.
LEMMA ContractsElsewhere ==
    (subject \notin ContractsCalls => ContractsInv) /\ (subject' \notin ContractsCalls => ContractsInv')
BY DEF ContractsCalls, ContractsInv, SchemaInv, PortableInv, StampInv, DecimalInv, JsonInv

\* The invariant of the contracts holds throughout.
LEMMA ContractsInvariant == Spec => []ContractsInv
<1>1. Init => ContractsInv
  BY ContractsCallsApart, ContractsInits, ContractsElsewhere
<1>2. ContractsInv /\ [Next]_frame => ContractsInv'
  BY ContractsCallsApart, ContractsSteps, ContractsUnmoved, ContractsElsewhere
<1> QED BY <1>1, <1>2, PTL DEF Spec

\* For every number of digits, exponent, year and path length: two objects have one id
\* exactly when they say the same, whatever order their items came in, and what is
\* read back keeps its id; a Decimal's text denotes exactly its value; the timestamps
\* that are normalised are the days of the calendar; a portable path never climbs
\* above its start; and one process validates against one sound schema.
THEOREM EncodingIsFaithful == Spec => []EncodingFaithful
BY ContractsInvariant, ContractsInvHolds, PTL

\* The calls of the adapters are their own.
AdaptersCalls == ProversCalls \cup EstimatorsCalls
\* A step is an adapter's or leaves the adapters' calls alone.
LEMMA AdaptersCallsApart ==
    /\ Init => ProversInit \/ EstimatorsInit \/ subject \notin AdaptersCalls
    /\ Next => ProversNext \/ EstimatorsNext \/ (UNCHANGED subject /\ subject \notin AdaptersCalls)
BY CatalogApart, KnowledgeApart, PlanningApart, SemanticApart, HealthApart, AutonomyApart,
   StorageApart, ReleaseApart, FrontEndsApart, BridgesApart, ContractsApart, FacadeApart,
   PacksApart, ProversApart, ProductsApart, EstimatorsApart, SurfacesApart
   DEF CatalogCalls, KnowledgeCalls, PlanningCalls, SemanticCalls, HealthCalls, AutonomyCalls,
   StorageCalls, ReleaseCalls, FrontEndsCalls, BridgesCalls, ContractsCalls, FacadeCalls,
   PacksCalls, ProversCalls, ProductsCalls, EstimatorsCalls, SurfacesCalls, AdaptersCalls, Init, Next

\* Away from those calls the invariant of the adapters says nothing.
LEMMA AdaptersElsewhere ==
    (subject \notin AdaptersCalls => AdaptersInv) /\ (subject' \notin AdaptersCalls => AdaptersInv')
BY AdaptersElse DEF AdaptersCalls, ProversCalls, EstimatorsCalls, AdaptersInv

\* The invariant of the adapters holds throughout.
LEMMA AdaptersInvariant == Spec => []AdaptersInv
<1>1. Init => AdaptersInv
  BY AdaptersCallsApart, AdaptersInits, AdaptersElsewhere
<1>2. AdaptersInv /\ [Next]_frame => AdaptersInv'
  BY AdaptersCallsApart, AdaptersSteps, AdaptersUnmoved, AdaptersElsewhere
<1> QED BY <1>1, <1>2, PTL DEF Spec

\* For every number of digits, limit and pinned set: no adapter reports what its tool
\* did not say.  The SMT verdict is the one of the formula that was meant; a checked
\* proof is one the checker saw under the pinned toolchain; a conversion is off by at
\* most the two roundings it makes; a coherent symbol table has no symbol left out; a
\* posterior is flagged exactly when a diagnostic misses its floor; counts taken from
\* the rounded diagram agree with the exact ones up to the rounding; the solver gets
\* what was counted; and a shrunk covariance is positive definite and learnt from the
\* training set alone.
THEOREM AdaptersAreHonest == Spec => []AdaptersHonest
BY AdaptersInvariant, AdaptersInvHolds, PTL

\* The calls of the products are their own.
LEMMA ProductsCallsApart ==
    /\ Init => ProductsInit \/ subject \notin ProductsCalls
    /\ Next => ProductsNext \/ (UNCHANGED subject /\ subject \notin ProductsCalls)
BY CatalogApart, KnowledgeApart, PlanningApart, SemanticApart, HealthApart, AutonomyApart,
   StorageApart, ReleaseApart, FrontEndsApart, BridgesApart, ContractsApart, FacadeApart,
   PacksApart, ProversApart, ProductsApart, EstimatorsApart, SurfacesApart
   DEF CatalogCalls, KnowledgeCalls, PlanningCalls, SemanticCalls, HealthCalls, AutonomyCalls,
   StorageCalls, ReleaseCalls, FrontEndsCalls, BridgesCalls, ContractsCalls, FacadeCalls,
   PacksCalls, ProversCalls, ProductsCalls, EstimatorsCalls, SurfacesCalls, Init, Next

\* Away from those calls the invariant of the products says nothing.
LEMMA ProductsElsewhere ==
    (subject \notin ProductsCalls => ProductsInv) /\ (subject' \notin ProductsCalls => ProductsInv')
BY ProductsElse DEF ProductsCalls, ProductsInv

\* The invariant of the products holds throughout.
LEMMA ProductsInvariant == Spec => []ProductsInv
<1>1. Init => ProductsInv
  BY ProductsCallsApart, ProductsInits, ProductsElsewhere
<1>2. ProductsInv /\ [Next]_frame => ProductsInv'
  BY ProductsCallsApart, ProductsSteps, ProductsUnmoved, ProductsElsewhere
<1> QED BY <1>1, <1>2, PTL DEF Spec

\* For every number of observations and every bound of the entries: a mined law is the
\* least-squares line of its training points, and no candidate is reported against a
\* null that is the line itself (_linear_fit, fit_linear_law); the elimination refuses
\* exactly the singular systems and its answer solves the others (_solve_3x3); a stage
\* has a receipt only when every workload ran and every check held; and a product's
\* receipt rests on stage receipts that passed, and validates only as it was built or
\* as a rewrite that recomputed the ids of all it changed.
THEOREM ProductsAreEarned == Spec => []ProductsEarned
BY ProductsInvariant, ProductsInvHolds, PTL
=============================================================================
