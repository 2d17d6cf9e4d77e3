--------------------------- MODULE RoutingProofs ---------------------------
(***************************************************************************)
(* What routes a Grant or Revoke to its statements, for every              *)
(* configuration and every set of IDs.                                     *)
(***************************************************************************)
EXTENDS Routing, SequenceTheorems, TLAPS

(* Every listed entitlement comes from a mapping, under that mapping's ID    *)
(* when it is static; and what the last call ran is what its ID selects.     *)
ListedInv ==
    \A e \in listed :
        /\ e \in Entitlements
        /\ e.source[1] = "static" => e.own = config.staticID[e.source[2]]

CallInv ==
    call.ran # Refused =>
        /\ call.entitlement \in listed
        /\ Selects(SplitEntitlementID(call.entitlement.id).entitlement, call.ran)
        /\ call.resource = SplitEntitlementID(call.entitlement.id).resource

RInv == TypeOK /\ ListedInv /\ CallInv

-----------------------------------------------------------------------------
(* A sequence of one piece. *)
LEMMA OnePiece ==
  ASSUME NEW T, NEW x \in T
  PROVE  <<x>> \in Seq(T) /\ Len(<<x>>) = 1
  OBVIOUS

(* What joining an ID builds. *)
LEMMA JoinedID ==
  ASSUME NEW r \in ResourceIDs, NEW m \in MappingIDs
  PROVE  /\ NewEntitlementID(r, m) \in Seq(STRING)
         /\ Splits(NewEntitlementID(r, m))
  <1>1. /\ r \in Seq(STRING) /\ r # <<>> /\ Len(r) \in Nat \ {0}
        /\ m \in Seq(STRING) /\ m # <<>> /\ Len(m) \in Nat \ {0}
    BY RoutingAssumption
  <1>2. <<TypeID>> \in Seq(STRING) /\ Len(<<TypeID>>) = 1
    <2>1. TypeID \in STRING
      BY RoutingAssumption
    <2> QED
      BY <2>1, OnePiece
  <1>3. <<TypeID>> \o r \in Seq(STRING) /\ Len(<<TypeID>> \o r) = 1 + Len(r)
    BY <1>1, <1>2, ConcatProperties
  <1>4. /\ (<<TypeID>> \o r) \o m \in Seq(STRING)
        /\ Len((<<TypeID>> \o r) \o m) = 1 + Len(r) + Len(m)
    BY <1>1, <1>3, ConcatProperties
  <1> QED
    BY <1>1, <1>4 DEF NewEntitlementID, Splits

(* What is behind the first two pieces of a joined sequence. *)
LEMMA BehindTwo ==
  ASSUME NEW T, NEW h \in Seq(T), NEW m \in Seq(T), Len(h) = 2
  PROVE  /\ h \o m \in Seq(T) /\ Len(h \o m) = 2 + Len(m)
         /\ (h \o m)[2] = h[2]
         /\ \A i \in 1 .. Len(m) : (h \o m)[i + 2] = m[i]
  <1>1. /\ h \o m \in Seq(T) /\ Len(h \o m) = 2 + Len(m)
        /\ \A i \in 1 .. 2 + Len(m) : (h \o m)[i] = IF i <= 2 THEN h[i] ELSE m[i - 2]
    <2>1. /\ h \o m \in Seq(T) /\ Len(h \o m) = Len(h) + Len(m)
          /\ \A i \in 1 .. Len(h) + Len(m) :
                (h \o m)[i] = IF i <= Len(h) THEN h[i] ELSE m[i - Len(h)]
      BY ConcatProperties
    <2> QED
      BY <2>1, Zenon
  <1>2. Len(m) \in Nat
    OBVIOUS
  <1>3. ASSUME NEW i \in 1 .. Len(m) PROVE (h \o m)[i + 2] = m[i]
    <2>1. i + 2 \in 1 .. 2 + Len(m) /\ ~(i + 2 <= 2) /\ (i + 2) - 2 = i
      BY <1>2
    <2> QED
      BY <1>1, <2>1
  <1>4. 2 \in 1 .. 2 + Len(m) /\ 2 <= 2
    BY <1>2
  <1>5. (h \o m)[2] = h[2]
    BY <1>1, <1>4
  <1> QED
    BY <1>1, <1>3, <1>5

(* Splitting undoes joining, for a resource ID without colons. *)
LEMMA RoundTrip ==
  ASSUME NEW r \in ResourceIDs, NEW m \in MappingIDs, Plain(r)
  PROVE  SplitEntitlementID(NewEntitlementID(r, m)) = [resource |-> r, entitlement |-> m]
  <1> DEFINE id == NewEntitlementID(r, m)
  <1>1. r \in Seq(STRING) /\ m \in Seq(STRING) /\ Len(m) \in Nat \ {0} /\ Len(r) = 1
    BY RoutingAssumption DEF Plain
  <1>2. <<TypeID>> \in Seq(STRING) /\ Len(<<TypeID>>) = 1
    <2>1. TypeID \in STRING
      BY RoutingAssumption
    <2> QED
      BY <2>1, OnePiece
  <1> DEFINE h == <<TypeID>> \o r
  <1>3. h \in Seq(STRING) /\ Len(h) = 2 /\ h[2] = r[1]
    <2>1. h \in Seq(STRING) /\ Len(h) = 2
      BY <1>1, <1>2, ConcatProperties
    <2>2. h[2] = r[2 - 1]
      <3>1. \A i \in 1 .. 2 : h[i] = IF i <= 1 THEN <<TypeID>>[i] ELSE r[i - 1]
        BY <1>1, <1>2, ConcatProperties
      <3> HIDE DEF h
      <3>2. 2 \in 1 .. 2 /\ ~(2 <= 1)
        OBVIOUS
      <3> QED
        BY <3>1, <3>2
    <2> QED
      BY <2>1, <2>2
  <1>4. /\ id = h \o m /\ id \in Seq(STRING) /\ Len(id) = 2 + Len(m)
        /\ id[2] = h[2]
        /\ \A i \in 1 .. Len(m) : id[i + 2] = m[i]
    <2>1. id = h \o m
      BY DEF NewEntitlementID
    <2> QED
      BY <1>1, <1>3, <2>1, BehindTwo
  <1> HIDE DEF id, h
  <1>5. r = <<id[2]>>
    BY <1>1, <1>3, <1>4
  <1>6. SubSeq(id, 3, Len(id)) = m
    <2>1. /\ SubSeq(id, 3, Len(id)) \in Seq(STRING)
          /\ Len(SubSeq(id, 3, Len(id))) = Len(m)
      BY <1>1, <1>4
    <2>2. \A i \in 1 .. Len(m) : SubSeq(id, 3, Len(id))[i] = m[i]
      BY <1>1, <1>4
    <2> QED
      BY <1>1, <2>1, <2>2, SeqEqual
  <1> QED
    BY <1>5, <1>6 DEF SplitEntitlementID, id

-----------------------------------------------------------------------------
LEMMA RInit == Init => RInv
  BY DEF Init, RInv, TypeOK, ListedInv, CallInv, Entitlement

LEMMA RNext == RInv /\ [Next]_vars => RInv'
  <1> SUFFICES ASSUME RInv, [Next]_vars PROVE RInv'
    OBVIOUS
  <1>1. ASSUME NEW r \in ResourceIDs, ListStatic(r) PROVE RInv'
    <2>1. /\ config' = config /\ call' = call
          /\ listed' = listed \cup
               {Entitlement(r, config.staticID[i], Static(i)) : i \in DOMAIN config.static}
      BY <1>1 DEF ListStatic
    <2>2. ASSUME NEW i \in DOMAIN config.static
          PROVE  LET e == Entitlement(r, config.staticID[i], Static(i))
                 IN  /\ e \in Entitlements /\ Splits(e.id)
                     /\ e.source[2] = i /\ e.own = config.staticID[i]
      <3>1. config.staticID[i] \in MappingIDs /\ Static(i) \in Sources
        BY <2>2, RoutingAssumption DEF RInv, TypeOK, IsConfig, Sources
      <3> QED
        BY <3>1, JoinedID DEF Entitlements, Entitlement, Static
    <2>3. Entitlements' = Entitlements /\ Sources' = Sources
      BY <2>1 DEF Entitlements, Sources
    <2>4. \A e \in listed' : e \in Entitlements /\ Splits(e.id) /\
            (e.source[1] = "static" => e.own = config.staticID[e.source[2]])
      BY <2>1, <2>2 DEF RInv, TypeOK, ListedInv
    <2> QED
      BY <2>1, <2>3, <2>4 DEF RInv, TypeOK, ListedInv, CallInv, Selects, IsFirst, StaticMatches, DynamicMatches
  <1>2. ASSUME NEW r \in ResourceIDs, NEW i \in DOMAIN config.dynamic, NEW m \in MappingIDs,
               ListDynamic(r, i, m)
        PROVE  RInv'
    <2>1. /\ config' = config /\ call' = call
          /\ listed' = listed \cup {Entitlement(r, m, Dynamic(i))}
      BY <1>2 DEF ListDynamic
    <2>2. LET e == Entitlement(r, m, Dynamic(i))
          IN  e \in Entitlements /\ Splits(e.id) /\ e.source[1] # "static"
      BY <1>2, JoinedID DEF Entitlements, Entitlement, Sources, Dynamic
    <2>3. Entitlements' = Entitlements /\ Sources' = Sources
      BY <2>1 DEF Entitlements, Sources
    <2> QED
      BY <2>1, <2>2, <2>3 DEF RInv, TypeOK, ListedInv, CallInv, Selects, IsFirst, StaticMatches, DynamicMatches
  <1>3. ASSUME NEW e \in listed, NEW k \in {"grant", "revoke"}, NEW s \in Sources, Provision(e, k, s)
        PROVE  RInv'
    <2> DEFINE parts == SplitEntitlementID(e.id)
    <2>1. /\ config' = config /\ listed' = listed
          /\ call' = [entitlement |-> e, kind |-> k, ran |-> s, resource |-> parts.resource]
          /\ Selects(parts.entitlement, s)
      BY <1>3 DEF Provision, Did
    <2>2. Entitlements' = Entitlements /\ Sources' = Sources
      BY <2>1 DEF Entitlements, Sources
    <2>3. Selects(parts.entitlement, s)'
      BY <2>1 DEF Selects, IsFirst, StaticMatches, DynamicMatches
    <2> QED
      BY <1>3, <2>1, <2>2, <2>3 DEF RInv, TypeOK, ListedInv, CallInv
  <1>4. ASSUME NEW e \in listed, NEW k \in {"grant", "revoke"}, Refuse(e, k) PROVE RInv'
    <2>1. /\ config' = config /\ listed' = listed
          /\ call' = [entitlement |-> e, kind |-> k, ran |-> Refused, resource |-> e.resource]
      BY <1>4 DEF Refuse, Did
    <2>2. Entitlements' = Entitlements /\ Sources' = Sources
      BY <2>1 DEF Entitlements, Sources
    <2> QED
      BY <1>4, <2>1, <2>2 DEF RInv, TypeOK, ListedInv, CallInv
  <1>5. CASE UNCHANGED vars
    BY <1>5 DEF vars, RInv, TypeOK, ListedInv, CallInv, Entitlements, Sources, Selects, IsFirst,
       StaticMatches, DynamicMatches
  <1> QED
    BY <1>1, <1>2, <1>3, <1>4, <1>5 DEF Next

(* The invariant of routing: entitlements keep the mapping that listed them, *)
(* and the last call ran what its ID selects.                                *)
THEOREM RoutingInvariant == Spec => []RInv
  BY RInit, RNext, PTL DEF Spec

(* Type correctness; every listed ID splits. *)
THEOREM RoutingTypeCorrect == Spec => []TypeOK
  <1>1. RInv => TypeOK
    BY DEF RInv
  <1> QED
    BY <1>1, RoutingInvariant, PTL

(* What the last call selected, for a resource without colons. *)
LEMMA SelectedByOwn ==
  ASSUME RInv, call.ran # Refused, Plain(call.entitlement.resource)
  PROVE  LET e == call.entitlement
         IN  /\ e \in Entitlements
             /\ e.source[1] = "static" => e.own = config.staticID[e.source[2]]
             /\ Selects(e.own, call.ran)
             /\ call.resource = e.resource
  <1> DEFINE e == call.entitlement
  <1>1. e \in listed /\ e \in Entitlements
    BY DEF RInv, ListedInv, CallInv
  <1>2. PICK r \in ResourceIDs, m \in MappingIDs, s \in Sources : e = Entitlement(r, m, s)
    BY <1>1 DEF Entitlements
  <1>3. e.id = NewEntitlementID(r, m) /\ e.resource = r /\ e.own = m
    BY <1>2 DEF Entitlement
  <1>4. SplitEntitlementID(e.id) = [resource |-> r, entitlement |-> m]
    BY <1>3, RoundTrip
  <1> QED
    BY <1>1, <1>3, <1>4 DEF RInv, ListedInv, CallInv

(* A call runs with the resource its entitlement was listed for. *)
THEOREM RoutingOnItsResource == Spec => []OnItsResource
  <1>1. RInv => OnItsResource
    BY SelectedByOwn DEF OnItsResource
  <1> QED
    BY <1>1, RoutingInvariant, PTL

(* A provisioned static entitlement of an ID of its own runs its own queries. *)
THEOREM RoutingOwnQueries == Spec => []OwnQueries
  <1>1. RInv => OwnQueries
    <2> SUFFICES ASSUME RInv, call.ran # Refused, Plain(call.entitlement.resource),
                        call.entitlement.source[1] = "static",
                        MappingOf(call.entitlement.source).provisioned,
                        \A i \in DOMAIN config.static :
                            config.staticID[i] = call.entitlement.own => Static(i) = call.entitlement.source
                 PROVE  call.ran = call.entitlement.source
      BY DEF OwnQueries
    <2> DEFINE e == call.entitlement
    <2>1. /\ e \in Entitlements /\ e.own = config.staticID[e.source[2]]
          /\ Selects(e.own, call.ran)
      BY SelectedByOwn
    <2>2. e.source \in Sources
      BY <2>1 DEF Entitlements, Entitlement
    <2>3. PICK i \in DOMAIN config.static : e.source = Static(i)
      BY <2>2 DEF Sources, Static, Dynamic
    <2>4. i \in StaticMatches(e.own)
      BY <2>1, <2>3 DEF StaticMatches, MappingOf, Static
    <2>5. PICK j \in StaticMatches(e.own) : call.ran = Static(j)
      BY <2>1, <2>4 DEF Selects
    <2> QED
      BY <2>5 DEF StaticMatches
  <1> QED
    BY <1>1, RoutingInvariant, PTL

(* The queries of a static mapping run for entitlements of its ID only. *)
THEOREM RoutingNotForOthers == Spec => []NotForOthers
  <1>1. RInv => NotForOthers
    <2> SUFFICES ASSUME RInv, call.ran # Refused, call.ran[1] = "static",
                        Plain(call.entitlement.resource)
                 PROVE  config.staticID[call.ran[2]] = call.entitlement.own
      BY DEF NotForOthers
    <2>1. Selects(call.entitlement.own, call.ran)
      BY SelectedByOwn
    <2>2. PICK i \in StaticMatches(call.entitlement.own) : call.ran = Static(i)
      BY <2>1 DEF Selects, Dynamic, Refused
    <2> QED
      BY <2>2 DEF StaticMatches, Static
  <1> QED
    BY <1>1, RoutingInvariant, PTL
=============================================================================
