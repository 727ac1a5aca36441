----------------------------- MODULE MCServices -----------------------------
(***************************************************************************)
(* The constants of Services for TLC.                                      *)
(***************************************************************************)
EXTENDS Services

MCEndpoints == {"openalex", "opencitations", "crossref", "arxiv", "zbmath", "lmfdb", "oeis",
                "cslib"}
MCPlannedProfiles == {"pde_variational_model", "geometry_tda", "model_composition"}
=============================================================================
