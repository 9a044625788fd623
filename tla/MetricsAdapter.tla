---------------------------- MODULE MetricsAdapter ----------------------------
(***************************************************************************)
(* services/infra-metrics-adapter: rounds of queries to Prometheus, whose  *)
(* results go to Redis entity by entity, each under a key of its own that  *)
(* expires and in the index of its workspace.  The queries of a round are  *)
(* answered at different instants, from different scrapes perhaps.         *)
(***************************************************************************)
EXTENDS Exposition, FiniteSetsExt

CONSTANTS
  Queries,     \* bound: those of a round that are modelled, of Asked
  MaxMissed    \* bound: failing queries and writes, and crashes

Asked == {"temperature", "power", "avg_temperature", "total_power"}

ASSUME AdapterOK == Queries \subseteq Asked /\ MaxMissed \in Nat

VARIABLES
  round,       \* what the runner is at
  rows,        \* query -> the scrape it was answered from, None: not yet
  left,        \* entities still to be stored
  cache,       \* entity -> its metrics in Redis, None: expired, or never there
  index,       \* the entities of the workspace
  lapses       \* failures so far

adaptervars == <<round, rows, left, cache, index, lapses>>

Entities == Devices \union Racks

Lapse == lapses < MaxMissed /\ lapses' = lapses + 1

------------------------------------------------------------------------------
(* A round.                                                                *)

Unasked == [q \in Queries |-> None]

\* One of the queries is answered from scrape x.
Ask(q, x) ==
  /\ round = "asking" /\ rows[q] = None
  /\ rows' = [rows EXCEPT ![q] = x]
  /\ UNCHANGED <<round, left, cache, index, lapses>>

\* After its retries a failing query is one without results.
AskFails(q) ==
  /\ round = "asking" /\ rows[q] = None
  /\ Lapse
  /\ rows' = [rows EXCEPT ![q] = Nothing]
  /\ UNCHANGED <<round, left, cache, index>>

Got(q) == IF q \in Queries THEN rows[q] ELSE Nothing

\* Entities with a temperature or a power.
Measured ==
  UNION {Shown(Got(q)) \union DOMAIN Got(q).racks : q \in {"temperature", "power"}}

GatherRows ==
  /\ round = "asking" /\ \A q \in Queries : rows[q] # None
  /\ round' = "entities" /\ left' = Measured
  /\ UNCHANGED <<rows, cache, index, lapses>>

\* The rack a device is said to be in: a later map's labels overwrite.
RackIn(d) ==
  IF d \in Shown(Got("power")) THEN Got("power").at[d]
  ELSE Got("temperature").at[d]

PowerOf(e) ==
  CASE e \in Shown(Got("power")) -> Got("power").kw[e]
    [] e \in DOMAIN Got("power").racks -> Got("power").racks[e]
    [] OTHER -> None

\* set_entity_metrics, one pipeline.  The index of the facility, kept beside
\* that of the workspace, is left out, as no property needs it.  saw: history, the scrapes of the round.
Put(e, power) ==
  /\ cache' = [cache EXCEPT ![e] =
                 [power |-> power, saw |-> {rows[q] : q \in Queries}]]
  /\ index' = index \union {e}

CacheEntity(e) ==
  /\ round = "entities" /\ e \in left
  /\ Put(e, PowerOf(e))
  /\ left' = left \ {e}
  /\ UNCHANGED <<round, rows, lapses>>

Grouped(r) == {d \in Measured \intersect Devices : RackIn(d) = r}

Aggregated ==
  UNION {DOMAIN Got(q).racks : q \in {"avg_temperature", "total_power"}}

\* The racks come after the entities, among which they were already.
GroupRacks ==
  /\ round = "entities" /\ left = {}
  /\ round' = "racks"
  /\ left' = Aggregated \union {r \in Racks : Grouped(r) # {}}
  /\ UNCHANGED <<rows, cache, index, lapses>>

\* Mutant of TotalPower: the devices are added to the aggregate.
TotalTwice(r) ==
  LET drawing == Grouped(r) \intersect Shown(Got("power"))
  IN IF r \in DOMAIN Got("total_power").racks
     THEN RackTotal(Got("total_power"), r) + SumFunctionOnSet(Got("power").kw, drawing)
     ELSE None

\* The aggregate, or else what the devices of this round add up to.
TotalPower(r) ==
  LET drawing == Grouped(r) \intersect Shown(Got("power"))
  IN IF r \in DOMAIN Got("total_power").racks THEN RackTotal(Got("total_power"), r)
     ELSE IF drawing # {} THEN SumFunctionOnSet(Got("power").kw, drawing)
     ELSE None

CacheRack(r) ==
  /\ round = "racks" /\ r \in left
  /\ Put(r, TotalPower(r))
  /\ left' = left \ {r}
  /\ UNCHANGED <<round, rows, lapses>>

EndRound ==
  /\ round = "racks" /\ left = {}
  /\ round' = "sleeping" /\ rows' = Unasked
  /\ UNCHANGED <<left, cache, index, lapses>>

\* Redis fails, and the round ends where it is.
PutFails ==
  /\ round \in {"entities", "racks"} /\ left # {}
  /\ Lapse
  /\ round' = "sleeping" /\ rows' = Unasked /\ left' = {}
  /\ UNCHANGED <<cache, index>>

\* Five seconds after the round, however long that took.
StartRound ==
  /\ round = "sleeping"
  /\ round' = "asking"
  /\ UNCHANGED <<rows, left, cache, index, lapses>>

\* The process is started anew; Redis keeps what it has.
AdapterCrash ==
  /\ Lapse
  /\ round' = "asking" /\ rows' = Unasked /\ left' = {}
  /\ UNCHANGED <<cache, index>>

------------------------------------------------------------------------------
(* Redis.                                                                  *)

\* An entity lives five seconds, which is less than a round takes with the
\* sleep before it.
Expire(e) ==
  /\ cache[e] # None
  /\ cache' = [cache EXCEPT ![e] = None]
  /\ UNCHANGED <<round, rows, left, index, lapses>>

\* The index lives three times as long after the last entity was stored, and
\* forgets them together or not at all.
IndexExpires ==
  /\ index # {} /\ \A e \in Entities : cache[e] = None
  /\ index' = {}
  /\ UNCHANGED <<round, rows, left, cache, lapses>>

\* Mutant of LiveEntities: whoever is in the index is alive.
IndexedEntities == index

\* get_entities_for_workspace: keys that expired are passed over.
LiveEntities == {e \in index : cache[e] # None}

AdapterInit ==
  /\ round = "asking" /\ rows = Unasked /\ left = {}
  /\ cache = [e \in Entities |-> None] /\ index = {}
  /\ lapses = 0

\* What a round does once its queries are answered.
Store ==
  \/ GatherRows \/ GroupRacks \/ EndRound \/ StartRound
  \/ \E e \in Entities : CacheEntity(e)
  \/ \E r \in Racks : CacheRack(r)

AdapterRest ==
  \/ PutFails \/ AdapterCrash \/ IndexExpires
  \/ \E q \in Queries : AskFails(q)
------------------------------------------------------------------------------
(* Properties.                                                             *)

\* The types of the adapter's state; what is cached is indexed.
AdapterTypeOK ==
  /\ round \in {"asking", "entities", "racks", "sleeping"}
  /\ DOMAIN rows = Queries
  /\ left \subseteq Entities /\ index \subseteq Entities
  /\ \A e \in Entities : cache[e] # None => e \in index
  /\ lapses \in 0..MaxMissed

\* The power cached for a rack counts what its devices draw once, when it is
\* the rack's own or the fallback, and exactly twice when it is the aggregate
\* query's: never anything in between, as long as the queries of the round saw
\* one scrape, whatever failed among them.
RackPowerCounted ==
  \A r \in Racks :
    (cache[r] # None /\ cache[r].power # None) =>
      LET seen == cache[r].saw \ {Nothing}
      IN Cardinality(seen) = 1 =>
           \A x \in seen :
             LET draw == SumFunctionOnSet(x.kw, In(x, r))
             IN cache[r].power \in {draw, 2 * draw}
==============================================================================
