------------------------------ MODULE CpuModels ------------------------------
(***************************************************************************)
(* The tables of src/cpucounters.{h,cpp} that are indexed by CPU model:     *)
(* which models PCM accepts, which metrics each of them offers, and the     *)
(* register numbers and limits that belong to it.  Every table is its own   *)
(* switch statement or disjunction in the code; a model that is added to    *)
(* some of them and not to others is the error these definitions let the    *)
(* modules that extend this one look for.                                   *)
(*                                                                         *)
(* A platform p is a record with the fields                                *)
(*   model     one of SupportedCPUModels,                                  *)
(*   stepping  the stepping CPUID reports (tells SKX, CLX and CPX apart),   *)
(*   sockets   num_sockets,                                                *)
(*   ports     the number of QPI/UPI ports found on socket 0,               *)
(*   hbm       whether the uncore PMUs found HBM.                          *)
(***************************************************************************)
EXTENDS Integers

SupportedCPUModels ==
  {"NEHALEM_EP", "NEHALEM", "ATOM", "ATOM_2", "CENTERTON", "BAYTRAIL", "AVOTON", "CHERRYTRAIL",
   "APOLLO_LAKE", "GEMINI_LAKE", "DENVERTON", "SNOWRIDGE", "ELKHART_LAKE", "JASPER_LAKE",
   "CLARKDALE", "WESTMERE_EP", "NEHALEM_EX", "WESTMERE_EX", "SANDY_BRIDGE", "JAKETOWN",
   "IVY_BRIDGE", "HASWELL", "HASWELL_ULT", "HASWELL_2", "IVYTOWN", "HASWELLX", "BROADWELL",
   "BROADWELL_XEON_E3", "BDX_DE", "SKL_UY", "KBL", "KBL_1", "CML", "CML_1", "ICL", "ICL_1",
   "RKL", "TGL", "TGL_1", "ADL", "ADL_1", "RPL", "RPL_1", "RPL_2", "RPL_3", "MTL", "LNL",
   "ARL", "ARL_1", "PTL", "BDX", "KNL", "SKL", "SKX", "ICX_D", "ICX", "SPR", "EMR", "GNR",
   "SRF", "GNR_D", "GRR"}

SKLPath == {"SKL_UY", "KBL", "KBL_1", "CML", "ICL", "RKL", "TGL", "SKL"}

isAtom(m) ==
  m \in {"ATOM", "ATOM_2", "CENTERTON", "BAYTRAIL", "AVOTON", "CHERRYTRAIL", "APOLLO_LAKE",
         "GEMINI_LAKE", "DENVERTON"}

isCPUModelSupported(m) ==
  \/ isAtom(m)
  \/ m \in SKLPath
  \/ m \in {"NEHALEM_EP", "NEHALEM_EX", "WESTMERE_EP", "WESTMERE_EX", "SNOWRIDGE",
            "ELKHART_LAKE", "JASPER_LAKE", "CLARKDALE", "SANDY_BRIDGE", "JAKETOWN", "IVY_BRIDGE",
            "HASWELL", "IVYTOWN", "HASWELLX", "BDX_DE", "BDX", "BROADWELL", "KNL", "ADL", "RPL",
            "MTL", "LNL", "ARL", "PTL", "SKX", "ICX", "SPR", "EMR", "GNR", "GNR_D", "GRR", "SRF"}

\* checkModel renames the variants of a model that all the other tables leave out
checkModelAlias(m) ==
  CASE m = "NEHALEM" -> "NEHALEM_EP"
    [] m = "ATOM_2" -> "ATOM"
    [] m \in {"HASWELL_ULT", "HASWELL_2"} -> "HASWELL"
    [] m = "BROADWELL_XEON_E3" -> "BROADWELL"
    [] m = "ICX_D" -> "ICX"
    [] m = "CML_1" -> "CML"
    [] m = "ARL_1" -> "ARL"
    [] m = "ICL_1" -> "ICL"
    [] m = "TGL_1" -> "TGL"
    [] m = "ADL_1" -> "ADL"
    [] m \in {"RPL_1", "RPL_2", "RPL_3"} -> "RPL"
    [] OTHER -> m

\* the models for which cpuFamilyModelToUArchCodename does not return "unknown"
HasCodename ==
  SKLPath \cup
  {"CENTERTON", "BAYTRAIL", "AVOTON", "CHERRYTRAIL", "APOLLO_LAKE", "GEMINI_LAKE", "DENVERTON",
   "SNOWRIDGE", "ELKHART_LAKE", "JASPER_LAKE", "NEHALEM_EP", "NEHALEM", "ATOM", "CLARKDALE",
   "WESTMERE_EP", "NEHALEM_EX", "WESTMERE_EX", "SANDY_BRIDGE", "JAKETOWN", "IVYTOWN", "HASWELLX",
   "BDX_DE", "BDX", "KNL", "IVY_BRIDGE", "HASWELL", "BROADWELL", "ADL", "RPL", "MTL", "LNL",
   "ARL", "PTL", "SKX", "ICX", "SPR", "EMR", "GNR", "GNR_D", "GRR", "SRF"}

-----------------------------------------------------------------------------
(* Residency counters: for every C-state with one, the MSR that counts it.  *)

pkgCStateMsr(m) ==
  CASE \/ isAtom(m)
       \/ m \in {"ADL", "RPL", "MTL", "LNL", "ARL", "PTL", "SNOWRIDGE", "ELKHART_LAKE",
                 "JASPER_LAKE"} -> {<<2, 1016>>, <<4, 1017>>, <<6, 1018>>}
    [] m \in {"NEHALEM_EP", "NEHALEM", "CLARKDALE", "WESTMERE_EP", "NEHALEM_EX", "WESTMERE_EX"}
         -> {<<3, 1016>>, <<6, 1017>>, <<7, 1018>>}
    [] m \in {"SANDY_BRIDGE", "JAKETOWN", "IVY_BRIDGE", "IVYTOWN", "HASWELL", "HASWELL_2",
              "HASWELLX", "BDX_DE", "BDX", "KNL"}
         -> {<<2, 1549>>, <<3, 1016>>, <<6, 1017>>, <<7, 1018>>}
    [] m \in {"SKX", "ICX", "SPR", "EMR", "GNR", "GNR_D", "GRR", "SRF"}
         -> {<<2, 1549>>, <<6, 1017>>}
    [] m \in SKLPath \cup {"HASWELL_ULT", "BROADWELL", "BROADWELL_XEON_E3"}
         -> {<<2, 1549>>, <<3, 1016>>, <<6, 1017>>, <<7, 1018>>, <<8, 1584>>, <<9, 1585>>,
             <<10, 1586>>}
    [] OTHER -> {}

coreCStateMsr(m) ==
  CASE m \in {"ATOM", "ATOM_2", "CENTERTON"} -> {}
    [] m \in {"NEHALEM_EP", "NEHALEM", "CLARKDALE", "WESTMERE_EP", "NEHALEM_EX", "WESTMERE_EX"}
         -> {<<3, 1020>>, <<6, 1021>>}
    [] \/ m \in SKLPath
       \/ m \in {"SANDY_BRIDGE", "JAKETOWN", "IVY_BRIDGE", "IVYTOWN", "HASWELL", "HASWELL_2",
                 "HASWELL_ULT", "HASWELLX", "BDX_DE", "BDX", "BROADWELL", "BROADWELL_XEON_E3",
                 "BAYTRAIL", "AVOTON", "CHERRYTRAIL", "APOLLO_LAKE", "GEMINI_LAKE", "DENVERTON",
                 "ADL", "RPL", "MTL", "LNL", "ARL", "PTL", "SNOWRIDGE", "ELKHART_LAKE",
                 "JASPER_LAKE", "ICX", "SPR", "EMR", "GNR", "GNR_D", "GRR", "SRF"}
         -> {<<3, 1020>>, <<6, 1021>>, <<7, 1022>>}
    [] m = "KNL" -> {<<6, 1023>>}
    [] m = "SKX" -> {<<6, 1021>>}
    [] OTHER -> {}

\* mutant: the newest Atom servers were not added to the table
MaxIPCWithoutTremont(m) ==
  CASE m \in {"LNL", "ARL", "PTL"} -> 12
    [] isAtom(m) -> 2
    [] m \in {"SNOWRIDGE", "ELKHART_LAKE", "JASPER_LAKE"} -> 0
    [] OTHER -> 4

\* 0 stands for the assertion that fails at the end of the function
getMaxIPC(m) ==
  CASE m \in {"ICL", "TGL", "RKL", "ICX"} -> 5
    [] m \in {"ADL", "RPL", "MTL", "SPR", "EMR", "GNR", "GNR_D", "GRR", "SRF"} -> 6
    [] m \in {"LNL", "ARL", "PTL"} -> 12
    [] m \in {"SNOWRIDGE", "ELKHART_LAKE", "JASPER_LAKE", "NEHALEM_EP", "WESTMERE_EP",
              "NEHALEM_EX", "WESTMERE_EX", "CLARKDALE", "SANDY_BRIDGE", "JAKETOWN", "IVYTOWN",
              "IVY_BRIDGE", "HASWELL", "HASWELLX", "BROADWELL", "BDX_DE", "BDX", "SKX",
              "SKL_UY", "KBL", "KBL_1", "CML", "SKL"} -> 4
    [] m = "DENVERTON" -> 3
    [] m = "KNL" \/ (isAtom(m) /\ m # "DENVERTON") -> 2
    [] OTHER -> 0

\* in MHz; 0 where the PCU cannot be programmed
getPCUFrequency(m) ==
  CASE m \in {"JAKETOWN", "IVYTOWN"} -> 800
    [] m \in {"HASWELLX", "BDX_DE", "BDX", "KNL"} -> 1000
    [] m \in {"SKX", "ICX", "SNOWRIDGE"} -> 1100
    [] OTHER -> 0

\* the models whose bus clock is 100 MHz; the others have 133 MHz
BusClock100 ==
  SKLPath \cup
  {"SANDY_BRIDGE", "JAKETOWN", "IVYTOWN", "HASWELLX", "BDX_DE", "BDX", "IVY_BRIDGE", "HASWELL",
   "BROADWELL", "AVOTON", "APOLLO_LAKE", "GEMINI_LAKE", "DENVERTON", "SNOWRIDGE", "ELKHART_LAKE",
   "JASPER_LAKE", "KNL", "ADL", "RPL", "MTL", "LNL", "ARL", "PTL", "SKX", "ICX", "SPR", "EMR",
   "GNR", "GNR_D", "SRF", "GRR"}

-----------------------------------------------------------------------------
(* Families of models and the metrics they offer.                           *)

isCLX(p) == p.model = "SKX" /\ p.stepping > 4 /\ p.stepping < 8
isCPX(p) == p.model = "SKX" /\ p.stepping >= 10

isServerCPU(m) ==
  m \in {"NEHALEM_EP", "NEHALEM_EX", "WESTMERE_EP", "WESTMERE_EX", "JAKETOWN", "IVYTOWN",
         "HASWELLX", "BDX", "BDX_DE", "SKX", "ICX", "SNOWRIDGE", "SPR", "EMR", "GNR", "GNR_D",
         "GRR", "SRF", "KNL"}

hasBecktonUncore(m) == m \in {"NEHALEM_EX", "WESTMERE_EX"}

hasPCICFGUncore(m) ==
  m \in {"JAKETOWN", "SNOWRIDGE", "IVYTOWN", "HASWELLX", "BDX_DE", "SKX", "ICX", "SPR", "EMR",
         "GNR", "GNR_D", "SRF", "GRR", "BDX", "KNL"}

hasUPI(m) == m \in {"SKX", "ICX", "SPR", "EMR", "GNR", "SRF"}

hasCHA(m) == m \in {"SKX", "ICX", "SPR", "EMR", "GNR", "GNR_D", "SRF", "GRR"}

hasClientMCCounters(m) ==
  m \in SKLPath \cup {"SANDY_BRIDGE", "IVY_BRIDGE", "HASWELL", "BROADWELL", "ADL", "RPL", "MTL",
                      "LNL", "ARL", "PTL"}

useSkylakeEvents(m) == m \in SKLPath \cup {"SKX", "ICX", "SPR", "EMR", "GNR", "GNR_D"}

memoryEventErrata(m) ==
  m \in {"SANDY_BRIDGE", "JAKETOWN", "IVYTOWN", "IVY_BRIDGE", "HASWELL", "HASWELLX"}

getQPILinksPerSocket(p) ==
  CASE p.model \in {"NEHALEM_EP", "WESTMERE_EP", "CLARKDALE"} -> IF p.sockets = 2 THEN 2 ELSE 1
    [] p.model \in {"NEHALEM_EX", "WESTMERE_EX"} -> 4
    [] p.model \in {"JAKETOWN", "IVYTOWN", "HASWELLX", "BDX_DE", "BDX", "SKX", "ICX", "SPR",
                    "EMR", "GNR", "GNR_D", "GRR", "SRF"} -> p.ports
    [] OTHER -> 0

\* the models whose memory controllers and channels are those the uncore PMUs found
DiscoveredMC ==
  {"JAKETOWN", "IVYTOWN", "HASWELLX", "BDX_DE", "SKX", "ICX", "SPR", "EMR", "GNR", "GNR_D",
   "GRR", "SRF", "BDX", "KNL"}

getMCPerSocket(m, found) ==
  CASE m \in {"NEHALEM_EP", "WESTMERE_EP", "CLARKDALE"} -> 1
    [] m \in {"NEHALEM_EX", "WESTMERE_EX"} -> 2
    [] m \in DiscoveredMC -> found
    [] OTHER -> 0

getMCChannelsPerSocket(m, found) ==
  CASE m \in {"NEHALEM_EP", "WESTMERE_EP", "CLARKDALE"} -> 3
    [] m \in {"NEHALEM_EX", "WESTMERE_EX"} -> 4
    [] m \in DiscoveredMC \cup {"SNOWRIDGE"} -> found
    [] OTHER -> 0

packageEnergyMetricsAvailable(m) ==
  m \in SKLPath \cup
        {"JAKETOWN", "IVYTOWN", "SANDY_BRIDGE", "IVY_BRIDGE", "HASWELL", "AVOTON", "CHERRYTRAIL",
         "BAYTRAIL", "APOLLO_LAKE", "GEMINI_LAKE", "DENVERTON", "SNOWRIDGE", "ELKHART_LAKE",
         "JASPER_LAKE", "HASWELLX", "BROADWELL", "BDX_DE", "BDX", "KNL", "SKX", "ICX", "ADL",
         "RPL", "MTL", "LNL", "ARL", "PTL", "SPR", "EMR", "GNR", "GNR_D", "SRF", "GRR"}

dramEnergyMetricsAvailable(m) ==
  m \in {"JAKETOWN", "IVYTOWN", "HASWELLX", "BDX_DE", "BDX", "KNL", "SKX", "ICX", "SPR", "EMR",
         "GNR", "GNR_D", "SRF", "GRR"}

systemEnergyMetricAvailable(m) ==
  m \in SKLPath \cup {"SKX", "ICX", "ADL", "RPL", "MTL", "LNL", "ARL", "PTL", "SPR", "EMR",
                      "GNR", "SRF", "GRR"}

ppEnergyMetricsAvailable(p) ==
  packageEnergyMetricsAvailable(p.model) /\ hasClientMCCounters(p.model) /\ p.sockets = 1

outgoingQPITrafficMetricsAvailable(p) ==
  /\ getQPILinksPerSocket(p) > 0
  /\ p.model \in {"NEHALEM_EX", "WESTMERE_EX", "JAKETOWN", "IVYTOWN", "HASWELLX", "BDX", "SKX",
                  "ICX", "SPR", "EMR", "GNR", "SRF"}

incomingQPITrafficMetricsAvailable(p) ==
  /\ getQPILinksPerSocket(p) > 0
  /\ \/ p.model \in {"NEHALEM_EX", "WESTMERE_EX", "JAKETOWN", "IVYTOWN", "ICX", "SPR", "EMR",
                     "GNR", "SRF"}
     \/ p.model = "SKX" /\ p.stepping > 1

localMemoryRequestRatioMetricAvailable(m) ==
  m \in {"HASWELLX", "BDX", "SKX", "ICX", "SPR", "EMR", "SRF", "GNR"}

nearMemoryMetricsAvailable(m) == m \in {"SRF", "GNR", "GNR_D"}

memoryTrafficMetricsAvailable(m) == ~isAtom(m) /\ m # "CLARKDALE"

memoryIOTrafficMetricAvailable(m) ==
  m \in (SKLPath \ {"TGL"}) \cup {"SANDY_BRIDGE", "IVY_BRIDGE", "HASWELL", "BROADWELL"}

IIOEventsAvailable(m) ==
  m \in {"SKX", "ICX", "SNOWRIDGE", "SPR", "EMR", "GRR", "SRF", "GNR", "GNR_D"}

LatencyMetricsAvailable(m) == m \in SKLPath \cup {"HASWELLX", "BDX", "SKX", "ICX", "SPR", "EMR"}

DDRLatencyMetricsAvailable(m) == m \in {"SKX", "ICX", "SPR", "EMR"}

PMMTrafficMetricsAvailable(p) ==
  isCLX(p) \/ isCPX(p) \/ p.model \in {"ICX", "SNOWRIDGE", "SPR", "EMR"}

PMMMemoryModeMetricsAvailable(p) == isCLX(p) \/ isCPX(p) \/ p.model \in {"ICX", "SNOWRIDGE"}

LLCReadMissLatencyMetricsAvailable(p) ==
  \/ isCLX(p) \/ isCPX(p)
  \/ p.model \in {"HASWELLX", "BDX_DE", "BDX", "ICX", "SPR", "SNOWRIDGE"}
  \/ p.model = "SKX" /\ p.sockets = 1
=============================================================================
