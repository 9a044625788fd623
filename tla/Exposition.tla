------------------------------ MODULE Exposition ------------------------------
(***************************************************************************)
(* What services/infra-simulation exposes at /metrics, and Prometheus      *)
(* answers queries from: a value per device, rack and facility.  The       *)
(* temperatures and the bad data flag have the series of the powers, and   *)
(* are left out.                                                           *)
(***************************************************************************)
EXTENDS Naturals, FiniteSets, Functions

CONSTANTS
  Devices, Racks, Facilities,
  FacilityOf,   \* rack -> the facility it names, None if it names none
  None

ASSUME ExpositionOK ==
  /\ FacilityOf \in [Racks -> Facilities \union {None}]
  /\ None \notin Facilities \union Racks
  /\ Devices \intersect Racks = {}
  /\ \A S \in {Devices, Racks, Facilities} : IsFiniteSet(S)

\* at: device -> its rack; kw: device -> kW; racks and facilities likewise.
Nothing == [at |-> <<>>, kw |-> <<>>, racks |-> <<>>, facilities |-> <<>>]

Shown(x) == DOMAIN x.at

In(x, r) == {d \in Shown(x) : x.at[d] = r}

\* The rows of one metric, by its labels.
Samples(x, metric) ==
  CASE metric = "facility_power_mw" ->
         {[metric |-> metric, facility |-> f, rack |-> None, device |-> None]
            : f \in DOMAIN x.facilities}
    [] metric = "rack_power_kw" ->
         {[metric |-> metric, facility |-> FacilityOf[r], rack |-> r,
           device |-> None] : r \in DOMAIN x.racks}
    [] metric = "device_power_kw" ->
         {[metric |-> metric, facility |-> FacilityOf[x.at[d]],
           rack |-> x.at[d], device |-> d] : d \in Shown(x)}

\* sum by (workspace_id, facility_id, rack_id)
\*   (power_kw or rack_power_kw or device_power_kw)
\* No two of these series have the same labels, so that "or" keeps them all: a
\* rack counts beside its devices.
RackTotal(x, r) == x.racks[r] + SumFunctionOnSet(x.kw, In(x, r))
==============================================================================
