------------------------------ MODULE Telemetry -------------------------------
(***************************************************************************)
(* From the inventory to what is seen of it: the simulation, Prometheus,   *)
(* the metrics adapter with its cache, the metrics stream, and beside them *)
(* the gateway's timeline.  Prometheus, which is not in src/, is its last  *)
(* scrape of the simulation.                                               *)
(***************************************************************************)
EXTENDS Simulation, MetricsAdapter, MetricsStream, Timeline

CONSTANTS
  Worlds       \* busy -> the inventories to begin with, as far as modelled

\* What is polled are metrics of the simulation, and Rows holds all of theirs.
ASSUME TelemetryOK ==
  /\ \A b \in DOMAIN Worlds : \A w \in Worlds[b] :
       w.rackOf \in [Devices -> Racks \union {None}] /\ w.standing \subseteq Racks
  /\ Polled \subseteq {"facility_power_mw", "rack_power_kw", "device_power_kw"}
  /\ [metric : Polled, facility : Facilities \union {None},
      rack : Racks \union {None}, device : Devices \union {None}] \subseteq Rows

VARIABLES
  scraped,     \* what Prometheus answers from
  busy         \* bound: the part whose requests, failures and clients run
               \* beside the simulation; the other parts stand still

telemetryvars == <<simvars, adaptervars, streamvars, timelinevars, scraped, busy>>

------------------------------------------------------------------------------
\* Prometheus scrapes /metrics.
Scrape ==
  /\ busy # "graph" /\ scraped' = metrics
  /\ UNCHANGED <<simvars, adaptervars, streamvars, timelinevars, busy>>

\* The simulation goes on while the adapter works; for the stream, which a
\* change tells nothing more, it shows one inventory.
Beside == UNCHANGED <<adaptervars, streamvars, timelinevars, scraped, busy>>

Refresh == busy \in {"graph", "adapter"} /\ BeginRefresh /\ Beside
ReadOn == busy # "timeline" /\ Read /\ Beside
TickOn ==
  /\ busy \in {"graph", "adapter"} \/ (busy = "stream" /\ metrics = Nothing)
  /\ Tick /\ Beside

\* The inventory changes, and requests for it fail.
Disturb ==
  /\ \/ /\ busy = "graph" \/ (busy = "adapter" /\ upsets = 0)
        /\ \E d \in Devices, r \in Racks \union {None} : PlaceDevice(d, r)
     \/ /\ busy = "graph"
        /\ \/ \E r \in Racks : ToggleRack(r)
           \/ \E x \in Racks \union Halls : GetFails(x)
           \/ RefreshFails \/ SimulationCrash
  /\ Beside

Apart == UNCHANGED <<simvars, streamvars, timelinevars, scraped, busy>>

AskPrometheus == busy = "adapter" /\ (\E q \in Queries : Ask(q, scraped)) /\ Apart
StoreOn == busy = "adapter" /\ Store /\ Apart
ExpireOn(e) == busy = "adapter" /\ Expire(e) /\ Apart
AdapterFails == busy = "adapter" /\ AdapterRest /\ Apart

Stream ==
  /\ busy = "stream" /\ scraped # Nothing
  /\ \/ \E m \in Polled : \E rs \in {{}, Samples(scraped, m)} : Poll(m, rs)
     \/ StreamRest
  /\ UNCHANGED <<simvars, adaptervars, timelinevars, scraped, busy>>

ShowTimeline ==
  /\ busy = "timeline" /\ TimelineNext
  /\ UNCHANGED <<simvars, adaptervars, streamvars, scraped, busy>>

TelemetryInit ==
  /\ SimulationInit /\ AdapterInit /\ StreamInit /\ TimelineInit
  /\ scraped = Nothing
  /\ busy \in DOMAIN Worlds
  /\ \E w \in Worlds[busy] : rackOf = w.rackOf /\ standing = w.standing

\* Every loop goes on: the simulation reads and ticks, Prometheus scrapes, the
\* adapter's rounds follow one another, and keys in Redis expire.
LoopsRun ==
  /\ WF_telemetryvars(Refresh) /\ WF_telemetryvars(ReadOn)
  /\ WF_telemetryvars(TickOn) /\ WF_telemetryvars(Scrape)
  /\ WF_telemetryvars(AskPrometheus) /\ WF_telemetryvars(StoreOn)
  /\ \A d \in Devices : WF_telemetryvars(ExpireOn(d))

TelemetryNext ==
  \/ Refresh \/ ReadOn \/ TickOn \/ Disturb \/ Scrape
  \/ AskPrometheus \/ StoreOn \/ AdapterFails
  \/ \E e \in Entities : ExpireOn(e)
  \/ Stream \/ ShowTimeline

TelemetrySpec == TelemetryInit /\ [][TelemetryNext]_telemetryvars /\ LoopsRun
------------------------------------------------------------------------------
(* Properties.                                                             *)

\* The types of every part, and that Prometheus has what /metrics once showed.
TypeOK ==
  /\ SimulationTypeOK /\ AdapterTypeOK /\ StreamTypeOK /\ TimelineTypeOK
  /\ Shown(scraped) \subseteq Devices

\* Once the inventory is left alone and requests succeed again, what is shown
\* catches up with it: a device in a standing rack stays on /metrics, and comes
\* back to the cache of the adapter whenever its key expired; a device that is
\* gone, or whose rack is, leaves both for good.
CatchesUp ==
  /\ <>[](busy = "graph" => Shown(metrics) = Present)
  /\ <>[](busy = "adapter" => LiveEntities \intersect Devices \subseteq Present)
  /\ \A d \in Devices : []<>(busy = "adapter" /\ d \in Present => d \in LiveEntities)
===============================================================================
