---------------------------- MODULE SchemaRegistry ----------------------------
(* What the platform-state migrations promise: the database's schema is always   *)
(* the one the applied migrations make, in the order of their list, and one      *)
(* start of a service brings it up to the service's release in a single step.    *)
EXTENDS Naturals, Sequences

CONSTANT Releases    \* a release is the number of migrations its binary carries

\* A migration by its version: the tables it creates and drops, and the tables
\* its other statements need.
Migration(version, creates, drops, needs) ==
    [version |-> version, creates |-> creates, drops |-> drops, needs |-> needs]

JSONState == <<
    Migration(1, {"providers", "profiles", "credentials", "oauth_sessions", "models", "catalog_rows"}, {}, {}),
    Migration(2, {"mcp_servers", "skills", "rules"}, {}, {}),
    Migration(3, {"sessions", "chats", "agent_session_actions", "domain_outbox",
                  "domain_consumer_events"}, {}, {}),
    Migration(4, {"cli_version_snapshots"}, {}, {}) >>

QueryIndexesAndLegacy == <<
    Migration(7, {}, {}, {"chats", "agent_session_actions"}),
    Migration(9, {}, {"cli_definitions"}, {}),
    Migration(10, {}, {"vendor_definitions"}, {}),
    Migration(11, {}, {"agent_runs"}, {}) >>

ModelRegistryState == <<
    Migration(12, {"model_registry_entries", "model_registry_observations",
                   "model_registry_source_status"}, {"model_definitions"}, {}),
    Migration(13, {}, {}, {"model_registry_observations"}),
    Migration(14, {"model_registry_aliases"}, {}, {"model_registry_entries"}) >>

RegistryExtensions == <<
    Migration(15, {}, {}, {"model_registry_entries", "model_registry_observations"}),
    Migration(16, {"model_cards", "organizations"}, {}, {"model_registry_entries"}),
    Migration(17, {"credential_material_values"}, {}, {}) >>

Migrations == JSONState \o QueryIndexesAndLegacy \o ModelRegistryState \o RegistryExtensions

\* Every table a migration creates.
Tables == UNION {Migrations[i].creates : i \in DOMAIN Migrations}

\* The migrations a release carries, by their place in the list.
Carried(release) == 1..release

\* "drop if exists", then "create if not exists": neither can fail.
Apply(tables, i) == (tables \ Migrations[i].drops) \cup Migrations[i].creates

\* The tables after the migrations of a set, in the order of the list: those that
\* one of them creates and no later one drops.
SchemaOf(applied) ==
    {table \in Tables : \E i \in applied :
        /\ table \in Migrations[i].creates
        /\ \A j \in applied : j > i => table \notin Migrations[j].drops}

VARIABLES applied, tables
schemaVars == <<applied, tables>>

Init == applied = {} /\ tables = {}

Upgrade(release) ==
    /\ applied' = applied \cup Carried(release)
    /\ tables' = SchemaOf(applied')

Next == \E release \in Releases : Upgrade(release)

Spec == Init /\ [][Next]_schemaVars
================================================================================
