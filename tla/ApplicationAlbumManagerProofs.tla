-------------------- MODULE ApplicationAlbumManagerProofs --------------------
(***************************************************************************)
(* Proofs about the two parts of the control service that give things out: *)
(* ApplicationAlbumManager, for any number of resources and any ids        *)
(* (entries stay readable while their applet is registered, and private),  *)
(* and at the end of the module AlbumFileIdGenerator, for every LastId and *)
(* all bounds on the clock.                                                *)
(***************************************************************************)
EXTENDS ApplicationAlbumManager, AlbumFileIdGenerator, TLAPS

(* The used resources are the first n, the others were never used. *)
Filled(n) ==
  /\ \A i \in Slot : resources[i].used <=> i <= n
  /\ \A i \in Slot : i > n => resources[i] = Unused

UsedIsPrefix == \E n \in 0 .. Slots : Filled(n)

(* The id 0 is never registered. *)
AruidsAreSet == \A i \in Slot : resources[i].used => resources[i].aruid # 0

(* Every used resource has a key of its own. *)
KeysApart ==
  /\ \A i \in Slot : resources[i].used => resources[i].key \in 1 .. keys
  /\ \A i, j \in Slot :
       resources[i].used /\ resources[j].used /\ resources[i].key = resources[j].key => i = j

(* The entry is sealed with the key of the first resource of its           *)
(* application, or, for the id 0, perhaps with the key of a resource that  *)
(* was free.                                                               *)
HeldIsSealed ==
  \/ held.key = 0 /\ held.for = 0
  \/ \E i \in Slot :
       /\ resources[i].used
       /\ resources[i].key = held.key
       /\ resources[i].application_id = held.for
       /\ held.for # 0 => IsFirst(i, ApplicationSlots(held.for))

Inv == TypeOK /\ UsedIsPrefix /\ AruidsAreSet /\ KeysApart /\ HeldIsSealed

-----------------------------------------------------------------------------

LEMMA InitInv == Init => Inv
  <1> SUFFICES ASSUME Init PROVE Inv
    OBVIOUS
  <1>1. TypeOK
    BY AruidAssumption DEF Init, TypeOK, Resource, Unused, Sealed, NotHeld
  <1>2. Filled(0) /\ 0 \in 0 .. Slots
    BY SlotsAssumption DEF Init, Filled, Unused, Slot
  <1>3. AruidsAreSet /\ KeysApart /\ HeldIsSealed
    BY DEF Init, AruidsAreSet, KeysApart, HeldIsSealed, Unused, NotHeld
  <1>4. QED BY <1>1, <1>2, <1>3 DEF Inv, UsedIsPrefix

(* What registering an applet does: the resource after the used ones gets  *)
(* the applet and a new key.                                               *)
Registered(k, a, x) ==
  /\ k \in Slot /\ a # 0
  /\ resources' \in [Slot -> Resource]
  /\ Filled(k - 1) /\ Filled(k)'
  /\ resources'[k] = [used |-> TRUE, aruid |-> a, application_id |-> x, version |-> 0,
                      key |-> keys + 1]
  /\ \A i \in Slot : i # k => resources'[i] = resources[i]
  /\ keys' = keys + 1
  /\ Answer("Register", a, "Success", x)
  /\ ended' \in BOOLEAN
  /\ UNCHANGED held

LEMMA RegisterEffect ==
  ASSUME Inv, NEW a \in Aruid, NEW x \in ApplicationId,
         RegisterAppletResourceUserId(a, x), resources' # resources
  PROVE  \E k \in Slot : Registered(k, a, x)
  <1>1. PICK k \in Slot :
          /\ IsFirst(k, FreeSlots)
          /\ resources[k].aruid # a
          /\ resources' = [resources EXCEPT ![k] =
               [used |-> TRUE, aruid |-> a, application_id |-> x, version |-> 0, key |-> NewKey]]
          /\ keys' = keys + 1
          /\ ended' = (ended \/ x = held.for)
          /\ Answer("Register", a, "Success", x)
          /\ UNCHANGED held
    BY DEF RegisterAppletResourceUserId
  <1>2. PICK n \in 0 .. Slots : Filled(n)
    BY DEF Inv, UsedIsPrefix
  <1>3. ~ resources[k].used /\ \A j \in Slot : ~ resources[j].used => k <= j
    BY <1>1 DEF IsFirst, FreeSlots
  <1>4. n = k - 1
    <2>1. n < k
      BY <1>2, <1>3, SlotsAssumption DEF Filled, Slot
    <2>2. CASE n + 1 < k
      <3>1. n + 1 \in Slot /\ ~ resources[n + 1].used
        BY <1>2, <2>2, SlotsAssumption DEF Filled, Slot
      <3>2. QED BY <1>3, <2>2, <3>1, SlotsAssumption DEF Slot
    <2>3. QED BY <2>1, <2>2, SlotsAssumption DEF Slot
  <1>5. /\ resources'[k] = [used |-> TRUE, aruid |-> a, application_id |-> x, version |-> 0,
                            key |-> keys + 1]
        /\ \A i \in Slot : i # k => resources'[i] = resources[i]
    BY <1>1 DEF Inv, TypeOK, NewKey
  <1>6. a # 0
    BY <1>1, <1>2, <1>4, SlotsAssumption DEF Filled, Unused, Slot
  <1>7. Filled(k)'
    BY <1>2, <1>4, <1>5, SlotsAssumption DEF Filled, Slot
  <1>8. resources' \in [Slot -> Resource]
    BY <1>1, AruidAssumption DEF Inv, TypeOK, Resource, NewKey
  <1>9. ended' \in BOOLEAN
    BY <1>1 DEF Inv, TypeOK
  <1>10. QED BY <1>1, <1>2, <1>4, <1>5, <1>6, <1>7, <1>8, <1>9 DEF Registered

(* Everything else leaves the resources alone. *)
LEMMA OthersKeep ==
  ASSUME Inv, [Next]_vars
  PROVE  \/ UNCHANGED << resources, keys >>
         \/ \E k \in Slot, a \in Aruid, x \in ApplicationId : Registered(k, a, x)
  <1>1. ASSUME NEW a \in Aruid, NEW x \in ApplicationId, RegisterAppletResourceUserId(a, x),
               resources' = resources
        PROVE  UNCHANGED keys
    <2>1. ASSUME NEW i \in Slot, IsFirst(i, FreeSlots),
                 resources' = [resources EXCEPT ![i] =
                   [used |-> TRUE, aruid |-> a, application_id |-> x, version |-> 0, key |-> NewKey]]
          PROVE  FALSE
      BY <1>1, <2>1 DEF Inv, TypeOK, IsFirst, FreeSlots
    <2>2. QED BY <1>1, <2>1 DEF RegisterAppletResourceUserId
  <1>2. QED
    BY <1>1, RegisterEffect
       DEF Next, vars, UnregisterAppletResourceUserId, GetApplicationIdFromAruid,
           SetShimLibraryVersion, GetAlbumEntryFromApplicationAlbumEntryAruid, Read,
           CheckApplicationIdRegistered, GenerateApplicationAlbumEntry,
           GetAlbumEntryFromApplicationAlbumEntry

-----------------------------------------------------------------------------

LEMMA RegisteredInv ==
  ASSUME Inv, NEW k \in Slot, NEW a \in Aruid, NEW x \in ApplicationId, Registered(k, a, x)
  PROVE  Inv'
  <1>1. /\ Filled(k - 1) /\ Filled(k)' /\ a # 0
        /\ resources'[k].used /\ resources'[k].aruid = a
        /\ resources'[k].key = keys + 1 /\ resources'[k].application_id = x
        /\ \A i \in Slot : i # k => resources'[i] = resources[i]
        /\ keys' = keys + 1 /\ UNCHANGED held
    BY DEF Registered
  <1>2. TypeOK'
    BY DEF Inv, TypeOK, Registered, Answer
  <1>3. UsedIsPrefix'
    BY <1>1, SlotsAssumption DEF UsedIsPrefix, Slot
  <1>4. AruidsAreSet'
    BY <1>1 DEF Inv, AruidsAreSet
  <1>5. KeysApart'
    BY <1>1 DEF Inv, KeysApart, TypeOK
  <1>6. HeldIsSealed'
    <2>1. CASE held.key = 0 /\ held.for = 0
      BY <1>1, <2>1 DEF HeldIsSealed
    <2>2. ASSUME NEW i \in Slot,
                 resources[i].used,
                 resources[i].key = held.key,
                 resources[i].application_id = held.for,
                 held.for # 0 => IsFirst(i, ApplicationSlots(held.for))
          PROVE  HeldIsSealed'
      <3>1. i < k
        BY <1>1, <2>2, SlotsAssumption DEF Filled, Slot
      <3>2. resources'[i] = resources[i]
        BY <1>1, <3>1, SlotsAssumption DEF Slot
      <3>3. ASSUME held.for # 0 PROVE IsFirst(i, ApplicationSlots(held.for))'
        <4>1. \A j \in ApplicationSlots(held.for)' : j \in Slot /\ (j = k \/ j \in ApplicationSlots(held.for))
          BY <1>1 DEF ApplicationSlots
        <4>2. i \in ApplicationSlots(held.for)'
          BY <1>1, <2>2, <3>2 DEF ApplicationSlots
        <4>3. QED BY <1>1, <2>2, <3>1, <3>3, <4>1, <4>2, SlotsAssumption DEF IsFirst, Slot
      <3>4. QED BY <1>1, <2>2, <3>2, <3>3 DEF HeldIsSealed
    <2>3. QED BY <2>1, <2>2 DEF Inv, HeldIsSealed
  <1>7. QED BY <1>2, <1>3, <1>4, <1>5, <1>6 DEF Inv

(* The entries a client may hold after a call that registers nothing. *)
LEMMA HeldNext ==
  ASSUME Inv, [Next]_vars, UNCHANGED << resources, keys >>
  PROVE  held' \in Sealed /\ HeldIsSealed'
  <1>1. CASE held' = held
    BY <1>1 DEF Inv, TypeOK, HeldIsSealed, IsFirst, ApplicationSlots
  <1>2. ASSUME NEW x \in ApplicationId, NEW entry \in ApplicationId, NEW i \in Slot,
               IsFirst(i, ApplicationSlots(x)),
               held' = [entry |-> entry, key |-> resources[i].key, for |-> x,
                        by |-> resources[i].aruid]
        PROVE  held' \in Sealed /\ HeldIsSealed'
    <2>1. resources[i] \in Resource /\ resources[i].application_id = x
      BY <1>2 DEF Inv, TypeOK, IsFirst, ApplicationSlots
    <2>2. held' \in Sealed
      BY <1>2, <2>1 DEF Sealed, Resource
    <2>3. CASE resources[i].used
      <3>1. /\ resources'[i].used /\ resources'[i].key = held'.key
            /\ resources'[i].application_id = held'.for
        BY <1>2, <2>1, <2>3
      <3>2. IsFirst(i, ApplicationSlots(held.for))'
        BY <1>2 DEF IsFirst, ApplicationSlots
      <3>3. QED BY <2>2, <3>1, <3>2 DEF HeldIsSealed
    <2>4. CASE ~ resources[i].used
      <3>1. resources[i] = Unused
        BY <2>4, SlotsAssumption DEF Inv, UsedIsPrefix, Filled, Slot
      <3>2. QED BY <1>2, <2>1, <2>2, <3>1 DEF HeldIsSealed, Unused
    <2>5. QED BY <2>2, <2>3, <2>4
  <1>3. QED
    BY <1>1, <1>2
       DEF Next, vars, RegisterAppletResourceUserId, UnregisterAppletResourceUserId,
           GetApplicationIdFromAruid, SetShimLibraryVersion,
           GetAlbumEntryFromApplicationAlbumEntryAruid, Read, CheckApplicationIdRegistered,
           GenerateApplicationAlbumEntry, GetAlbumEntryFromApplicationAlbumEntry

LEMMA ReplyNext ==
  ASSUME Inv, [Next]_vars
  PROVE  /\ reply'.op \in {"None", "Register", "Unregister", "GetApplicationId", "CheckRegistered",
                           "SetVersion", "Generate", "Read"}
         /\ ended' \in BOOLEAN
  <1>1. reply'.op \in {"None", "Register", "Unregister", "GetApplicationId", "CheckRegistered",
                       "SetVersion", "Generate", "Read"}
    BY DEF Answer, Inv, TypeOK, Next, vars, RegisterAppletResourceUserId,
           UnregisterAppletResourceUserId, GetApplicationIdFromAruid, SetShimLibraryVersion,
           GetAlbumEntryFromApplicationAlbumEntryAruid, Read, CheckApplicationIdRegistered,
           GenerateApplicationAlbumEntry, GetAlbumEntryFromApplicationAlbumEntry
  <1>2. \/ ended' = ended \/ ended' = FALSE
        \/ \E x \in ApplicationId : ended' = (ended \/ x = held.for)
        \/ \E a \in Aruid : ended' = (ended \/ a = held.by)
    BY DEF Inv, TypeOK, Next, vars, RegisterAppletResourceUserId,
           UnregisterAppletResourceUserId, GetApplicationIdFromAruid, SetShimLibraryVersion,
           GetAlbumEntryFromApplicationAlbumEntryAruid, Read, CheckApplicationIdRegistered,
           GenerateApplicationAlbumEntry, GetAlbumEntryFromApplicationAlbumEntry
  <1>3. QED BY <1>1, <1>2 DEF Inv, TypeOK

LEMMA NextInv == Inv /\ [Next]_vars => Inv'
  <1> SUFFICES ASSUME Inv, [Next]_vars PROVE Inv'
    OBVIOUS
  <1>1. CASE UNCHANGED << resources, keys >>
    <2>1. TypeOK'
      BY <1>1, HeldNext, ReplyNext DEF Inv, TypeOK
    <2>2. UsedIsPrefix' /\ AruidsAreSet' /\ KeysApart'
      BY <1>1 DEF Inv, UsedIsPrefix, Filled, AruidsAreSet, KeysApart
    <2>3. QED BY <1>1, <2>1, <2>2, HeldNext DEF Inv
  <1>2. CASE \E k \in Slot, a \in Aruid, x \in ApplicationId : Registered(k, a, x)
    BY <1>2, RegisteredInv
  <1>3. QED BY <1>1, <1>2, OthersKeep

THEOREM Invariance == Spec => []Inv
  BY InitInv, NextInv, PTL DEF Spec

(* The resources, the keys and the entries keep their types. *)
THEOREM TypeCorrect == Spec => []TypeOK
  <1>1. Inv => TypeOK
    BY DEF Inv
  <1>2. QED BY <1>1, Invariance, PTL

(* While its applet is registered, and the application not registered by   *)
(* another, an entry can be read back by the application's id: whatever    *)
(* else is registered takes later resources and other keys.                *)
THEOREM ReadableWhileRegistered == Spec => []EntryReadableWhileRegistered
  <1>1. Inv => EntryReadableWhileRegistered
    BY DEF Inv, EntryReadableWhileRegistered, HeldIsSealed, Opens
  <1>2. QED BY <1>1, Invariance, PTL

(* Only a resource of the application an entry was generated for opens it, *)
(* a free one included, which answers to the id 0 with the key 0.          *)
THEOREM IsPrivate == Spec => []EntryIsPrivate
  <1>1. Inv => EntryIsPrivate
    <2> SUFFICES ASSUME Inv, NEW i \in Slot, Opens(i, held)
                 PROVE  resources[i].application_id = held.for
      BY DEF EntryIsPrivate
    <2>1. resources[i].used \/ resources[i] = Unused
      BY SlotsAssumption DEF Inv, UsedIsPrefix, Filled, Slot
    <2>2. resources[i].used => resources[i].key # 0
      BY DEF Inv, KeysApart
    <2>3. QED BY <2>1, <2>2 DEF Inv, HeldIsSealed, KeysApart, Opens, Unused
  <1>2. QED BY <1>1, Invariance, PTL

-----------------------------------------------------------------------------
(* The ids of AlbumFileIdGenerator.                                        *)

(* Nothing was issued for a date to come, and if there are ids of the      *)
(* current date, they are of the last timestamp, and at most the counter.  *)
IdInv ==
  /\ IdsTypeOK
  /\ ~ repeated => \A i \in issued : i.date <= Date
  /\ ~ wrapped /\ ~ repeated /\ ~ restarted =>
       \A i \in issued : i.date = Date => last_timestamp = now /\ i.id <= counter
  /\ IdsAreUnique

LEMMA InitIdInv == IdsInit => IdInv
  <1> SUFFICES ASSUME IdsInit PROVE IdInv
    OBVIOUS
  <1>1. last_timestamp \in Time /\ counter \in 0 .. LastId
    BY LastIdAssumption, MaxTimeAssumption DEF IdsInit, Time
  <1>2. now \in Time /\ offset \in Offset
    BY DEF IdsInit
  <1>3. /\ wrapped \in BOOLEAN /\ repeated \in BOOLEAN /\ restarted \in BOOLEAN
        /\ duplicate \in BOOLEAN
    BY DEF IdsInit
  <1>4. issued = {} /\ ~ duplicate
    BY DEF IdsInit
  <1>5. QED BY <1>1, <1>2, <1>3, <1>4 DEF IdInv, IdsTypeOK, IdsAreUnique

LEMMA SumOfNats == \A m, n \in Nat : m + n \in Nat
  OBVIOUS

LEMMA DateType == IdsTypeOK => now \in Nat /\ offset \in Nat /\ Date \in Nat
  BY MaxTimeAssumption DEF IdsTypeOK, Time, Offset, Date

LEMMA NextIdType == IdsTypeOK /\ [IdsNext]_idsVars => IdsTypeOK'
  <1> SUFFICES ASSUME IdsTypeOK, [IdsNext]_idsVars PROVE IdsTypeOK'
    OBVIOUS
  <1>1. CASE SetClock
    <2>1. repeated' \in BOOLEAN /\ now' \in Time /\ offset' \in Offset
      BY <1>1 DEF SetClock
    <2>2. QED BY <1>1, <2>1 DEF SetClock, IdsTypeOK, generatorVars
  <1>2. CASE Restart
    <2>1. last_timestamp' \in Time /\ counter' \in 0 .. LastId
      BY <1>2, LastIdAssumption, MaxTimeAssumption DEF Restart, Time
    <2>2. restarted' \in BOOLEAN
      BY <1>2 DEF Restart
    <2>3. QED BY <1>2, <2>1, <2>2 DEF Restart, IdsTypeOK
  <1>3. CASE GenerateFileId
    <2>1. NextId \in 0 .. LastId
      BY LastIdAssumption DEF NextId, SameSecond, IdsTypeOK
    <2>2. [date |-> Date, id |-> NextId] \in [date: Nat, id: 0 .. LastId]
      BY <2>1, DateType
    <2>3. QED BY <1>3, <2>1, <2>2 DEF GenerateFileId, IdsTypeOK
  <1>4. CASE UNCHANGED idsVars
    BY <1>4 DEF idsVars, generatorVars, exceptions, IdsTypeOK
  <1>5. QED BY <1>1, <1>2, <1>3, <1>4 DEF IdsNext

LEMMA NextIdInv == IdInv /\ [IdsNext]_idsVars => IdInv'
  <1> SUFFICES ASSUME IdInv, [IdsNext]_idsVars PROVE IdInv'
    OBVIOUS
  <1>t. IdsTypeOK /\ IdsTypeOK'
    BY NextIdType DEF IdInv
  <1>n. /\ now \in Nat /\ Date \in Nat /\ Date' \in Nat
        /\ counter \in Nat /\ LastId \in Nat
        /\ \A i \in issued : i.date \in Nat /\ i.id \in Nat
    <2>1. now \in Nat /\ Date \in Nat
      BY <1>t, DateType
    <2>2. Date' \in Nat
      <3>1. now' \in 0 .. MaxTime /\ offset' \in 0 .. MaxOffset
        BY <1>t DEF IdsTypeOK, Time, Offset
      <3>2. now' \in Nat /\ offset' \in Nat
        BY <3>1, MaxTimeAssumption
      <3>3. QED BY <3>2, SumOfNats DEF Date
    <2>3. counter \in Nat /\ LastId \in Nat
      BY <1>t, LastIdAssumption DEF IdsTypeOK
    <2>4. \A i \in issued : i.date \in Nat /\ i.id \in Nat
      BY <1>t, LastIdAssumption DEF IdsTypeOK
    <2>5. QED BY <2>1, <2>2, <2>3, <2>4
  <1>1. CASE SetClock
    (* Another second, or another offset, has a later date, without ids. *)
    <2>1. UNCHANGED << last_timestamp, counter, issued, wrapped, restarted, duplicate >>
      BY <1>1 DEF SetClock, generatorVars
    <2>2. ~ repeated' => ~ repeated /\ ~ (Date' < Date) /\ (Date' = Date => now' = now)
      BY <1>1 DEF SetClock
    <2>3. ~ repeated' => \A i \in issued' : i.date <= Date'
      BY <1>n, <2>1, <2>2 DEF IdInv
    <2>4. ~ wrapped' /\ ~ repeated' /\ ~ restarted' =>
            \A i \in issued' : i.date = Date' => last_timestamp' = now' /\ i.id <= counter'
      BY <1>n, <2>1, <2>2 DEF IdInv
    <2>5. IdsAreUnique'
      BY <2>1, <2>2 DEF IdInv, IdsAreUnique
    <2>6. QED BY <1>t, <2>3, <2>4, <2>5 DEF IdInv
  <1>2. CASE Restart
    <2>1. UNCHANGED << now, offset, issued, wrapped, repeated, duplicate >>
      BY <1>2 DEF Restart
    <2>2. Date' = Date
      BY <2>1 DEF Date
    <2>3. ~ restarted' => ~ restarted /\ \A i \in issued : i.date # Date
      BY <1>2 DEF Restart
    <2>4. QED BY <1>t, <2>1, <2>2, <2>3 DEF IdInv, IdsAreUnique
  <1>3. CASE GenerateFileId
    <2> DEFINE new == [date |-> Date, id |-> NextId]
    <2>1. /\ counter' = NextId /\ last_timestamp' = now
          /\ UNCHANGED << now, offset, repeated, restarted >>
      BY <1>3 DEF GenerateFileId
    <2>2. issued' \subseteq issued \cup {new} /\ (duplicate' => duplicate \/ new \in issued)
      <3>1. \/ issued' = issued \cup {new} /\ (duplicate' <=> duplicate \/ new \in issued)
            \/ issued' = issued /\ duplicate' = duplicate
        BY <1>3 DEF GenerateFileId
      <3>2. QED BY <3>1
    <2>3. ~ wrapped' => ~ wrapped /\ ~ (last_timestamp = now /\ counter = LastId)
      BY <1>3 DEF GenerateFileId
    <2>4. Date' = Date
      BY <2>1 DEF Date
    <2>5. ~ repeated' => \A i \in issued' : i.date <= Date'
      BY <1>n, <2>1, <2>2, <2>4 DEF IdInv
    <2>6. NextId \in Nat
      BY <1>t, <1>n, <2>1 DEF IdsTypeOK
    <2>7. ASSUME ~ wrapped', ~ repeated', ~ restarted'
          PROVE  \A i \in issued : i.date = Date => i.id < NextId
      (* If there are ids of this date, the counter moves on. *)
      <3>1. SUFFICES ASSUME NEW i \in issued, i.date = Date PROVE i.id < NextId
        OBVIOUS
      <3>2. last_timestamp = now /\ i.id <= counter
        BY <2>1, <2>3, <2>7, <3>1 DEF IdInv
      <3>3. SameSecond
        BY <1>t, <1>n, <2>3, <2>7, <3>2 DEF SameSecond, IdsTypeOK
      <3>4. QED BY <1>n, <3>2, <3>3 DEF NextId
    <2>8. ~ wrapped' /\ ~ repeated' /\ ~ restarted' =>
            \A i \in issued' : i.date = Date' => last_timestamp' = now' /\ i.id <= counter'
      BY <1>n, <2>1, <2>2, <2>4, <2>6, <2>7
    <2>9. IdsAreUnique'
      <3>1. SUFFICES ASSUME ~ wrapped', ~ repeated', ~ restarted' PROVE ~ duplicate'
        BY DEF IdsAreUnique
      <3>2. new \notin issued
        BY <2>7, <2>6, <3>1
      <3>3. QED BY <2>1, <2>2, <2>3, <3>1, <3>2 DEF IdInv, IdsAreUnique
    <2>10. QED BY <1>t, <2>5, <2>8, <2>9 DEF IdInv
  <1>4. CASE UNCHANGED idsVars
    <2>1. UNCHANGED << last_timestamp, counter, now, issued, wrapped, repeated, restarted,
                       duplicate >> /\ Date' = Date
      BY <1>4 DEF idsVars, generatorVars, exceptions, Date
    <2>2. QED BY <1>t, <2>1 DEF IdInv, IdsAreUnique
  <1>5. QED BY <1>1, <1>2, <1>3, <1>4 DEF IdsNext

(* The counter never exceeds LastId, so that it always fits the two digits *)
(* it has in a file name, whatever the clock and restarts do.             *)
THEOREM CounterBounded == IdsSpec => []IdsTypeOK
  <1>1. IdInv => IdsTypeOK
    BY DEF IdInv
  <1>2. IdsInit => IdInv
    BY InitIdInv
  <1>3. IdInv /\ [IdsNext]_idsVars => IdInv'
    BY NextIdInv
  <1>4. QED BY <1>1, <1>2, <1>3, PTL DEF IdsSpec

(* GenerateFileId hands out no id twice, unless a local date is repeated,  *)
(* a second sees more than LastId + 1 calls or a restart falls into a      *)
(* second with ids: for every LastId, and every course of the clock and of *)
(* the local time.                                                         *)
THEOREM UniqueIds == IdsSpec => []IdsAreUnique
  <1>1. IdInv => IdsAreUnique
    BY DEF IdInv
  <1>2. IdsInit => IdInv
    BY InitIdInv
  <1>3. IdInv /\ [IdsNext]_idsVars => IdInv'
    BY NextIdInv
  <1>4. QED BY <1>1, <1>2, <1>3, PTL DEF IdsSpec

=============================================================================
