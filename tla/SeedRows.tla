------------------------------ MODULE SeedRows ------------------------------
(***************************************************************************)
(* The rows that backend/app/seed_data.py and db/seed/seed_data.py write,  *)
(* by what identifies them; a camera with its department, a sighting with  *)
(* its camera.                                                             *)
(***************************************************************************)
EXTENDS Naturals, Sequences, Functions, TLC

DepartmentsData == {
  "HOME_POLICE", "FCSCA", "RTO_TRANS", "AMC", "SMC", "VMC", "RMC", "GMB", "FOREST",
  "MINES", "R_AND_B", "GSRTC", "HEALTH", "EDU", "ENERGY", "REVENUE", "TOURISM",
  "AGRI", "GIDC", "UDD", "RURAL", "WATER", "TRIBAL", "LABOUR", "DST", "GSDMA"}

FoundationDepartments ==
  {"HOME_POLICE", "MINES_GEOLOGY", "FOREST_DEPT", "REVENUE_DEPT", "PORTS_TRANSPORT"}

\* The cameras CAM-GJ-..., by their departments.
CamerasBy ==
  [HOME_POLICE |-> {"AHM-01", "AHM-02", "GND-01", "GND-04", "BRC-01", "SRT-01", "VLS-01",
     "VLS-02", "DHD-01", "DHD-03", "RAJ-01", "BHV-02", "JAM-02", "BHJ-01", "BHJ-03", "AHM-07"},
   GMB |-> {"SRT-03", "VLS-03", "BHV-01", "BHV-03", "DWK-02", "SMN-02", "BHJ-02"},
   RTO_TRANS |-> {"AHM-04", "BRC-05", "SRT-04", "RAJ-04", "JAM-04"},
   FCSCA |-> {"AHM-06", "BRC-04", "SRT-05", "DHD-04", "RAJ-05"},
   GIDC |-> {"AHM-05", "BRC-03", "RAJ-03"}, DST |-> {"GND-02", "GND-03"},
   FOREST |-> {"VLS-04", "SMN-03"}, MINES |-> {"JAM-03", "DWK-03"},
   TOURISM |-> {"DWK-01", "SMN-01"}, AMC |-> {"AHM-03"}, VMC |-> {"BRC-02"},
   SMC |-> {"SRT-02"}, AGRI |-> {"DHD-02"}, RMC |-> {"RAJ-02"}, ENERGY |-> {"JAM-01"}]

CamerasData ==
  [c \in UNION Range(CamerasBy) |-> CHOOSE dept \in DOMAIN CamerasBy : c \in CamerasBy[dept]]

SentinelGrid == {"cam" \o (IF n < 10 THEN "0" ELSE "") \o ToString(n) : n \in 1..30}

DemoPlate == "GJ01AB1234"

WatchlistData == {DemoPlate, "GJ06XY9876", "GJ05CD5521", "GJ27EF8890", "GJ18ZZ4321",
                  "GJ03KL6654", "GJ10MN7711"}

Journey == {"AHM-01", "GND-01", "BRC-01", "SRT-01", "VLS-01"}

\* The other sightings, by plate; the first five raise alerts.
Traffic ==
  [GJ06XY9876 |-> "BRC-01", GJ05CD5521 |-> "SRT-02", GJ27EF8890 |-> "DHD-01",
   GJ18ZZ4321 |-> "GND-02", GJ03KL6654 |-> "RAJ-01", GJ01KJ9988 |-> "AHM-02",
   GJ05RT1122 |-> "SRT-01", GJ10AB4455 |-> "JAM-01", GJ11QQ7890 |-> "SMN-01"]

Risky == {"GJ06XY9876", "GJ05CD5521", "GJ27EF8890", "GJ18ZZ4321", "GJ03KL6654"}

DefaultUsers == {"admin", "inspector_patel", "operator_shah", "sp_surat", "auditor_desai"}
=============================================================================
