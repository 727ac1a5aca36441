------------------------------ MODULE Services ------------------------------
(***************************************************************************)
(* The components that answer one call at a time and keep nothing of their *)
(* own between calls, put side by side: a behaviour is one use of one of   *)
(* them, with every input of its small sets and every order of its steps.  *)
(***************************************************************************)
EXTENDS Catalog, Knowledge, Planning, Semantic, Health, Autonomy, Storage, Release,
        FrontEnds, Bridges, Contracts, Facade, Packs, Provers, Products, Estimators,
        Surfaces

Init ==
    \/ CatalogInit \/ KnowledgeInit \/ PlanningInit \/ SemanticInit
    \/ HealthInit \/ AutonomyInit \/ StorageInit \/ ReleaseInit
    \/ FrontEndsInit \/ BridgesInit \/ ContractsInit \/ FacadeInit
    \/ PacksInit \/ ProversInit \/ ProductsInit \/ EstimatorsInit
    \/ SurfacesInit

Next ==
    \/ CatalogNext \/ KnowledgeNext \/ PlanningNext \/ SemanticNext
    \/ HealthNext \/ AutonomyNext \/ StorageNext \/ ReleaseNext
    \/ FrontEndsNext \/ BridgesNext \/ ContractsNext \/ FacadeNext
    \/ PacksNext \/ ProversNext \/ ProductsNext \/ EstimatorsNext
    \/ SurfacesNext

Spec == Init /\ [][Next]_frame
=============================================================================
