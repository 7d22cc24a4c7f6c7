----------------------- MODULE ApplicationAlbumManager -----------------------
(***************************************************************************)
(* The ApplicationAlbumManager: the applets registered by the control      *)
(* service, each with an application id and a random key, and the          *)
(* application album entries encrypted and decrypted with those keys.      *)
(* Every operation runs under the manager's own mutex and calls nothing    *)
(* that blocks, so it is one action; both server threads perform them.     *)
(*                                                                         *)
(* A key is the number of keys generated before it, plus one; the key of a *)
(* slot that was never used is zero, here 0. An encrypted entry is the     *)
(* entry with the key; decrypted with another key it is noise, whose       *)
(* application id is not the expected one. `version` is never set to       *)
(* anything but 0, so the branches for other versions are left out.        *)
(***************************************************************************)
EXTENDS Integers, Sequences

CONSTANTS
  Slots,                \* how many resources there are: 4 in the program
  Aruid,                \* applet resource user ids, 0 among them
  ApplicationId         \* application ids, 0 among them

ASSUME SlotsAssumption == Slots \in Nat
ASSUME AruidAssumption == Aruid \subseteq Nat /\ ApplicationId \subseteq Nat /\ 0 \in ApplicationId

Slot == 1 .. Slots

VARIABLES
  resources,            \* Slot -> ApplicationResource
  keys,                 \* how many keys have been generated
  held,                 \* an encrypted entry some client has kept
  ended,                \* its applet was unregistered, or its application registered
                        \* once more, since it was generated (history)
  reply                 \* the last call, its argument and its result

vars == << resources, keys, held, ended, reply >>

Resource == [used: BOOLEAN, aruid: Nat, application_id: Nat, version: Nat, key: Nat]
Unused   == [used |-> FALSE, aruid |-> 0, application_id |-> 0, version |-> 0, key |-> 0]

(* An application album entry: the application id in the entry's file id,  *)
(* the key, the application id it was generated for and (history) the      *)
(* applet whose resource had the key.                                      *)
Sealed  == [entry: ApplicationId, key: Nat, for: ApplicationId, by: Nat]
NotHeld == [entry |-> 0, key |-> 0, for |-> 0, by |-> 0]

Init ==
  /\ resources = [i \in Slot |-> Unused]
  /\ keys = 0
  /\ held = NotHeld
  /\ ended = FALSE
  /\ reply = [op |-> "None", arg |-> 0, result |-> "Success", value |-> 0]

Answer(op, arg, result, value) ==
  reply' = [op |-> op, arg |-> arg, result |-> result, value |-> value]

(* The slot a loop over the resources stops at: the first that matches.    *)
IsFirst(i, S) == i \in S /\ \A j \in S : i <= j

(* Fault: a resource in use counts as free. *)
FreeSlotsFault == Slot

FreeSlots == {i \in Slot : ~ resources[i].used}

AruidSlots(a) == {i \in Slot : resources[i].aruid = a}

ApplicationSlots(x) == {i \in Slot : resources[i].application_id = x}

-----------------------------------------------------------------------------

(* Fault: all resources share a key. *)
NewKeyShared == 1

(* The random key: none generated before, and not zero. *)
NewKey == keys + 1

RegisterAppletResourceUserId(a, x) ==
  \/ \E i \in Slot :
       /\ IsFirst(i, FreeSlots)
       /\ resources[i].aruid # a
       /\ resources' = [resources EXCEPT ![i] =
            [used |-> TRUE, aruid |-> a, application_id |-> x, version |-> 0, key |-> NewKey]]
       /\ keys' = keys + 1
       /\ ended' = (ended \/ x = held.for)
       /\ Answer("Register", a, "Success", x)
       /\ UNCHANGED held
  \/ /\ \E i \in Slot : IsFirst(i, FreeSlots) /\ resources[i].aruid = a
     /\ Answer("Register", a, "ControlAlreadyOpen", x)
     /\ UNCHANGED << resources, keys, held, ended >>
  \/ /\ FreeSlots = {}
     /\ Answer("Register", a, "ControlResourceLimit", x)
     /\ UNCHANGED << resources, keys, held, ended >>

(* The loop variable is a copy of the resource: what is cleared is the     *)
(* copy.                                                                   *)
UnregisterAppletResourceUserId(a) ==
  /\ Answer("Unregister", a, "Success", 0)
  /\ ended' = (ended \/ a = held.by)
  /\ UNCHANGED << resources, keys, held >>

GetApplicationIdFromAruid(a) ==
  /\ \/ \E i \in Slot :
          /\ IsFirst(i, AruidSlots(a))
          /\ Answer("GetApplicationId", a, "Success", resources[i].application_id)
     \/ AruidSlots(a) = {} /\ Answer("GetApplicationId", a, "ControlNotOpened", 0)
  /\ UNCHANGED << resources, keys, held, ended >>

CheckApplicationIdRegistered(x) ==
  /\ Answer("CheckRegistered", x,
            IF ApplicationSlots(x) = {} THEN "ControlNotOpened" ELSE "Success", 0)
  /\ UNCHANGED << resources, keys, held, ended >>

(* The version is stored in a copy of the resource, too. *)
SetShimLibraryVersion(version, a) ==
  /\ Answer("SetVersion", a,
       IF AruidSlots(a) = {} THEN "ControlNotOpened"
       ELSE IF version = 1 THEN "Success" ELSE "AlbumOutOfRange", version)
  /\ UNCHANGED << resources, keys, held, ended >>

(* EncryptV0 with the key of the first resource of the application; the    *)
(* client may keep the result.                                             *)
GenerateApplicationAlbumEntry(entry, x) ==
  \/ \E i \in Slot :
       /\ IsFirst(i, ApplicationSlots(x))
       /\ \/ /\ held' = [entry |-> entry, key |-> resources[i].key, for |-> x,
                        by |-> resources[i].aruid]
             /\ ended' = FALSE
          \/ UNCHANGED << held, ended >>
       /\ Answer("Generate", x, "Success", 0)
       /\ UNCHANGED << resources, keys >>
  \/ /\ ApplicationSlots(x) = {}
     /\ Answer("Generate", x, "ControlNotOpened", 0)
     /\ UNCHANGED << resources, keys, held, ended >>

(* GetAlbumEntryFromApplicationAlbumEntryV0Impl with slot i. *)
Opens(i, sealed) == sealed.key = resources[i].key /\ sealed.entry = resources[i].application_id

Read(S, arg) ==
  /\ \/ \E i \in Slot :
          /\ IsFirst(i, S)
          /\ IF Opens(i, held)
             THEN Answer("Read", arg, "Success", held.entry)
             ELSE Answer("Read", arg, "AlbumInvalidApplicationId", 0)
     \/ S = {} /\ Answer("Read", arg, "ControlNotOpened", 0)
  /\ UNCHANGED << resources, keys, held, ended >>

GetAlbumEntryFromApplicationAlbumEntry(x) == Read(ApplicationSlots(x), x)
GetAlbumEntryFromApplicationAlbumEntryAruid(a) == Read(AruidSlots(a), a)

Next ==
  \/ \E a \in Aruid :
       \/ UnregisterAppletResourceUserId(a)
       \/ \E x \in ApplicationId : RegisterAppletResourceUserId(a, x)
       \/ GetApplicationIdFromAruid(a)
       \/ \E version \in 0 .. 2 : SetShimLibraryVersion(version, a)
       \/ GetAlbumEntryFromApplicationAlbumEntryAruid(a)
  \/ \E x \in ApplicationId :
       \/ CheckApplicationIdRegistered(x)
       \/ \E entry \in ApplicationId : GenerateApplicationAlbumEntry(entry, x)
       \/ GetAlbumEntryFromApplicationAlbumEntry(x)

Spec == Init /\ [][Next]_vars

-----------------------------------------------------------------------------

TypeOK ==
  /\ resources \in [Slot -> Resource]
  /\ keys \in Nat
  /\ held \in Sealed /\ ended \in BOOLEAN
  /\ reply.op \in {"None", "Register", "Unregister", "GetApplicationId", "CheckRegistered",
                   "SetVersion", "Generate", "Read"}

(* An entry generated for an application, if it is one of that             *)
(* application, can be read back by its id for as long as the applet that  *)
(* was found for it is registered and no other applet registers the        *)
(* application, whatever other applets do. (The id 0 is answered by free   *)
(* resources and is excepted.)                                             *)
EntryReadableWhileRegistered ==
  held.for # 0 /\ held.entry = held.for /\ ~ ended =>
    \E i \in Slot : IsFirst(i, ApplicationSlots(held.for)) /\ Opens(i, held)

(* No resource of another application opens an entry, even when the entry  *)
(* names that application.                                                 *)
EntryIsPrivate ==
  \A i \in Slot : Opens(i, held) => resources[i].application_id = held.for

-----------------------------------------------------------------------------
(* What the comments of the code say of the resources, and the code does   *)
(* not do.                                                                 *)

(* "Clear field.": an applet that was unregistered has no resource any     *)
(* more. (The id 0 is the one of the free resources.)                      *)
UnregisteredIsCleared ==
  reply.op = "Unregister" /\ reply.arg # 0 => AruidSlots(reply.arg) = {}

(* "Find unused or own resource.": an applet that is registered already    *)
(* gets no second resource.                                                *)
OwnResourceIsFound ==
  \A i, j \in Slot :
    resources[i].used /\ resources[j].used /\ resources[i].aruid = resources[j].aruid => i = j

(* The resources follow the calls of RegisterAppletResourceUserId and      *)
(* UnregisterAppletResourceUserId: an applet has at most one, and none     *)
(* once it was unregistered.                                               *)
ResourcesFollowCalls == UnregisteredIsCleared /\ OwnResourceIsFound

=============================================================================
