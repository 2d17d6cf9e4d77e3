------------------------------ MODULE Routing ------------------------------
(***************************************************************************)
(* From an entitlement that a sync listed to the statements that a later   *)
(* Grant or Revoke of it runs, for one resource type: the syncer builds    *)
(* the entitlement's ID, the caller sends it back, and the syncer takes it *)
(* apart and looks for a provisioning section.                             *)
(*                                                                         *)
(* An ID is the sequence of the pieces between its colons, so that joining *)
(* IDs with ":" is concatenation.                                          *)
(***************************************************************************)
EXTENDS Integers, Sequences, FiniteSets

CONSTANTS
    TypeID,         \* the resource type; a piece
    ResourceIDs,    \* IDs of its resources
    MappingIDs,     \* IDs that entitlement mappings evaluate to
    Configs         \* the configurations it may have, records of Config

(* What a mapping says about provisioning: whether it has the section, and   *)
(* which of its two lists of queries are not empty.                          *)
Mappings == [provisioned : BOOLEAN, queries : SUBSET {"grant", "revoke"}]

(* static_entitlements: absent, or a list with constant IDs; entitlements:   *)
(* absent, or a list whose IDs come from the rows of a query.                *)
IsConfig(config) ==
    /\ DOMAIN config = {"hasStatic", "static", "staticID", "dynamic"}
    /\ config.hasStatic \in BOOLEAN
    /\ config.static \in Seq(Mappings) /\ config.dynamic \in Seq(Mappings)
    /\ config.staticID \in [DOMAIN config.static -> MappingIDs]
    /\ config.static # <<>> => config.hasStatic

ASSUME RoutingAssumption ==
    /\ \A id \in ResourceIDs \cup MappingIDs : id \in Seq(STRING) /\ id # <<>>
    /\ TypeID \in STRING
    /\ \A config \in Configs : IsConfig(config)

VARIABLES
    config,   \* the configuration of the resource type
    listed,   \* the entitlements that were synced
    call      \* the last call and what it did

vars == <<config, listed, call>>

Static(i) == <<"static", i>>
Dynamic(i) == <<"dynamic", i>>
Refused == <<"refused", 0>>

Sources ==
    {Static(i) : i \in DOMAIN config.static} \cup {Dynamic(i) : i \in DOMAIN config.dynamic}

MappingOf(source) ==
    IF source[1] = "static" THEN config.static[source[2]] ELSE config.dynamic[source[2]]

-----------------------------------------------------------------------------
\* Faulty variant: the ID leaves out the resource type.
NewEntitlementIDBare(resource, id) == resource \o id

NewEntitlementID(resource, id) == <<TypeID>> \o resource \o id

\* Faulty variant: the ID is split at every colon.
SplitAll(id) == [resource |-> <<id[2]>>, entitlement |-> <<id[3]>>]

(* SplitN(id, ":", 3); an ID of fewer pieces is refused. *)
Splits(id) == Len(id) >= 3

SplitEntitlementID(id) ==
    [resource |-> <<id[2]>>, entitlement |-> SubSeq(id, 3, Len(id))]

\* Faulty variant: the first provisioned mapping is taken, whatever its ID.
StaticMatchesAnyID(id) == {i \in DOMAIN config.static : config.static[i].provisioned}

StaticMatches(id) ==
    {i \in DOMAIN config.static : config.staticID[i] = id /\ config.static[i].provisioned}

DynamicMatches == {i \in DOMAIN config.dynamic : config.dynamic[i].provisioned}

IsFirst(i, S) == i \in S /\ \A j \in S : i <= j

(* getProvisioningConfig: the first static mapping of that ID, else the first *)
(* dynamic mapping, that is provisioned.                                      *)
Selects(id, source) ==
    \/ \E i \in StaticMatches(id) : IsFirst(i, StaticMatches(id)) /\ source = Static(i)
    \/ StaticMatches(id) = {} /\ \E i \in DynamicMatches : IsFirst(i, DynamicMatches) /\ source = Dynamic(i)
    \/ StaticMatches(id) = {} /\ DynamicMatches = {} /\ source = Refused

-----------------------------------------------------------------------------
Entitlement(resource, id, source) ==
    [id |-> NewEntitlementID(resource, id), resource |-> resource, own |-> id, source |-> source]

Init ==
    /\ config \in Configs
    /\ listed = {}
    /\ call = [entitlement |-> Entitlement(<<>>, <<>>, Refused), kind |-> "none",
               ran |-> Refused, resource |-> <<>>]

(* staticEntitlements: every static mapping, for each resource. *)
ListStatic(resource) ==
    /\ config.hasStatic
    /\ listed' = listed \cup
          {Entitlement(resource, config.staticID[i], Static(i)) : i \in DOMAIN config.static}
    /\ UNCHANGED <<config, call>>

(* dynamicEntitlements, one row and mapping of it: only without static ones. *)
ListDynamic(resource, i, id) ==
    /\ ~config.hasStatic
    /\ i \in DOMAIN config.dynamic
    /\ listed' = listed \cup {Entitlement(resource, id, Dynamic(i))}
    /\ UNCHANGED <<config, call>>

Did(e, kind, source, resource) ==
    call' = [entitlement |-> e, kind |-> kind, ran |-> source, resource |-> resource]

(* Grant or Revoke of a synced entitlement: the queries that run, and the    *)
(* resource that prepareProvisioningVars gives them.                         *)
Provision(e, kind, source) ==
    LET parts == SplitEntitlementID(e.id)
    IN  /\ e \in listed
        /\ Splits(e.id)
        /\ Selects(parts.entitlement, source)
        /\ source # Refused /\ kind \in MappingOf(source).queries
        /\ Did(e, kind, source, parts.resource)
        /\ UNCHANGED <<config, listed>>

(* An ID that does not split, no section for it, no queries in the section,  *)
(* no principal, or variables that do not evaluate.                          *)
Refuse(e, kind) ==
    /\ e \in listed
    /\ Did(e, kind, Refused, e.resource)
    /\ UNCHANGED <<config, listed>>

Next ==
    \/ \E resource \in ResourceIDs :
          \/ ListStatic(resource)
          \/ \E i \in DOMAIN config.dynamic, id \in MappingIDs : ListDynamic(resource, i, id)
    \/ \E e \in listed, kind \in {"grant", "revoke"} :
          \/ \E source \in Sources : Provision(e, kind, source)
          \/ Refuse(e, kind)

Spec == Init /\ [][Next]_vars

-----------------------------------------------------------------------------
Plain(resource) == Len(resource) = 1

Entitlements ==
    {Entitlement(r, m, s) : r \in ResourceIDs, m \in MappingIDs, s \in Sources}

TypeOK ==
    /\ config \in Configs
    /\ listed \subseteq Entitlements
    /\ \A e \in listed : Splits(e.id)
    /\ call.kind # "none" =>
          /\ call.entitlement \in listed
          /\ call.kind \in {"grant", "revoke"}
          /\ call.ran \in Sources \cup {Refused}

(* Queries always run with the resource the entitlement was listed for, even *)
(* when the mapping's own ID holds colons, as long as the resource's does    *)
(* not: taking an ID apart undoes what building it did.                      *)
OnItsResource ==
    call.ran # Refused /\ Plain(call.entitlement.resource)
        => call.resource = call.entitlement.resource

(* A static entitlement that is provisioned, and the only one of its ID,     *)
(* runs the queries of its own mapping, whatever other mappings there are.   *)
OwnQueries ==
    LET e == call.entitlement
    IN  /\ call.ran # Refused /\ Plain(e.resource)
        /\ e.source[1] = "static" /\ MappingOf(e.source).provisioned
        /\ \A i \in DOMAIN config.static : config.staticID[i] = e.own => Static(i) = e.source
        => call.ran = e.source

(* The queries of a static mapping never run for an entitlement of another   *)
(* ID, dynamic ones included.                                                *)
NotForOthers ==
    call.ran # Refused /\ call.ran[1] = "static" /\ Plain(call.entitlement.resource)
        => config.staticID[call.ran[2]] = call.entitlement.own

(* "Grant defines the SQL queries and settings for granting this             *)
(* entitlement": what runs is in the mapping that listed the entitlement.    *)
ThisEntitlement ==
    call.ran # Refused /\ Plain(call.entitlement.resource) => call.ran = call.entitlement.source
=============================================================================
