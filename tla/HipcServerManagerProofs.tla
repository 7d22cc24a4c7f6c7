----------------------- MODULE HipcServerManagerProofs -----------------------
(***************************************************************************)
(* Proofs about HipcServerManager, for any ports, any limit of sessions    *)
(* and any session memory that holds the sessions of the ports.            *)
(***************************************************************************)
EXTENDS HipcServerManager, SequenceTheorems, FunctionTheorems, FiniteSetTheorems, TLAPS

Live == {i \in Session : ~ IsFree(i)}

Processing == pc \in {"accept", "receive", "process"}

Hand == IF Processing THEN {selected} ELSE {}

(* The list, what waits to be moved to it and what is processed are apart, *)
(* and together they are the ports and the live sessions.                  *)
Apart ==
  pc # "aborted" =>
    /\ IsInjective(waitable) /\ IsInjective(waitlist)
    /\ ToSet(waitable) \cap ToSet(waitlist) = {}
    /\ Hand \cap (ToSet(waitable) \cup ToSet(waitlist)) = {}
    /\ ToSet(waitable) \cup ToSet(waitlist) \cup Hand = Server \cup Live

(* The sessions that came from port s. *)
From(s) == {i \in Session : origin[i] = s}

(* The kernel counts for a port its backlog and its sessions. *)
Counted == \A s \in Server : connected[s] = backlog[s] + Cardinality(From(s))

OriginIsLive == \A i \in Session : IsFree(i) => origin[i] = None

(* A port is turned to only for a connection, which no one else accepts. *)
HasConnection == pc = "accept" => backlog[selected] > 0

AbortedFull == pc = "aborted" => NoMemory

Inv ==
  /\ TypeOK
  /\ Apart
  /\ Counted
  /\ OriginIsLive
  /\ HasConnection
  /\ AbortedFull

-----------------------------------------------------------------------------
(* Lists of holders. *)

LEMMA Concatenated ==
  ASSUME NEW S, NEW s \in Seq(S), NEW t \in Seq(S)
  PROVE  /\ s \o t \in Seq(S)
         /\ ToSet(s \o t) = ToSet(s) \cup ToSet(t)
         /\ IsInjective(s \o t) <=>
              IsInjective(s) /\ IsInjective(t) /\ ToSet(s) \cap ToSet(t) = {}
  <1>1. PICK m \in Nat : m = Len(s) /\ DOMAIN s = 1 .. m
    BY LenProperties
  <1>2. PICK n \in Nat : n = Len(t) /\ DOMAIN t = 1 .. n
    BY LenProperties
  <1> DEFINE u == s \o t
  <1>3. /\ u \in Seq(S) /\ Len(u) = m + n
        /\ \A i \in 1 .. (m + n) : u[i] = IF i <= m THEN s[i] ELSE t[i - m]
    BY <1>1, <1>2, ConcatProperties
  <1> HIDE DEF u
  <1>4. DOMAIN u = 1 .. (m + n)
    BY <1>3, LenProperties
  <1>5. /\ \A i \in 1 .. m : i \in 1 .. (m + n) /\ u[i] = s[i]
        /\ \A j \in 1 .. n : m + j \in 1 .. (m + n) /\ u[m + j] = t[j]
        /\ \A i \in 1 .. (m + n) : i \in 1 .. m \/ (i - m \in 1 .. n /\ m + (i - m) = i)
    BY <1>3
  <1>6. ToSet(u) = ToSet(s) \cup ToSet(t)
    <2>1. ASSUME NEW i \in 1 .. (m + n) PROVE u[i] \in ToSet(s) \cup ToSet(t)
      <3>1. CASE i \in 1 .. m
        BY <1>1, <1>5, <3>1 DEF ToSet
      <3>2. CASE i - m \in 1 .. n /\ m + (i - m) = i
        BY <1>2, <1>5, <3>2 DEF ToSet
      <3>3. QED BY <1>5, <3>1, <3>2
    <2>2. ASSUME NEW i \in 1 .. m PROVE s[i] \in ToSet(u)
      BY <1>4, <1>5 DEF ToSet
    <2>3. ASSUME NEW j \in 1 .. n PROVE t[j] \in ToSet(u)
      BY <1>4, <1>5 DEF ToSet
    <2>4. QED BY <1>1, <1>2, <1>4, <2>1, <2>2, <2>3 DEF ToSet
  <1>7. ASSUME IsInjective(u)
        PROVE  IsInjective(s) /\ IsInjective(t) /\ ToSet(s) \cap ToSet(t) = {}
    <2>1. \A i, j \in 1 .. (m + n) : u[i] = u[j] => i = j
      BY <1>4, <1>7 DEF IsInjective
    <2>2. \A i, j \in 1 .. m : s[i] = s[j] => i = j
      <3> SUFFICES ASSUME NEW i \in 1 .. m, NEW j \in 1 .. m, s[i] = s[j] PROVE i = j
        OBVIOUS
      <3>1. u[i] = u[j] /\ i \in 1 .. (m + n) /\ j \in 1 .. (m + n)
        BY <1>5
      <3>2. QED BY <2>1, <3>1
    <2>3. \A i, j \in 1 .. n : t[i] = t[j] => i = j
      <3> SUFFICES ASSUME NEW i \in 1 .. n, NEW j \in 1 .. n, t[i] = t[j] PROVE i = j
        OBVIOUS
      <3>1. m + i = m + j
        BY <1>5, <2>1
      <3>2. QED BY <3>1
    <2>4. \A i \in 1 .. m, j \in 1 .. n : s[i] # t[j]
      <3> SUFFICES ASSUME NEW i \in 1 .. m, NEW j \in 1 .. n, s[i] = t[j] PROVE FALSE
        OBVIOUS
      <3>1. i = m + j
        BY <1>5, <2>1
      <3>2. QED BY <3>1
    <2>5. QED BY <1>1, <1>2, <2>2, <2>3, <2>4 DEF IsInjective, ToSet
  <1>8. ASSUME IsInjective(s), IsInjective(t), ToSet(s) \cap ToSet(t) = {}
        PROVE  IsInjective(u)
    <2>1. \A i, j \in 1 .. m : s[i] = s[j] => i = j
      BY <1>1, <1>8 DEF IsInjective
    <2>2. \A i, j \in 1 .. n : t[i] = t[j] => i = j
      BY <1>2, <1>8 DEF IsInjective
    <2>3. \A i \in 1 .. m, j \in 1 .. n : s[i] # t[j]
      BY <1>1, <1>2, <1>8 DEF ToSet
    <2>4. SUFFICES ASSUME NEW i \in 1 .. (m + n), NEW j \in 1 .. (m + n), u[i] = u[j]
                   PROVE  i = j
      BY <1>4 DEF IsInjective
    <2>5. CASE i \in 1 .. m /\ j \in 1 .. m
      BY <1>5, <2>1, <2>4, <2>5
    <2>6. CASE i \in 1 .. m /\ j \notin 1 .. m
      BY <1>3, <1>5, <2>3, <2>4, <2>6
    <2>7. CASE i \notin 1 .. m /\ j \in 1 .. m
      BY <1>3, <1>5, <2>3, <2>4, <2>7
    <2>8. CASE i \notin 1 .. m /\ j \notin 1 .. m
      <3>1. i - m \in 1 .. n /\ j - m \in 1 .. n /\ t[i - m] = t[j - m]
        BY <1>3, <1>5, <2>4, <2>8
      <3>2. i - m = j - m
        BY <2>2, <3>1
      <3>3. QED BY <3>2
    <2>9. QED BY <2>5, <2>6, <2>7, <2>8
  <1>9. QED BY <1>3, <1>6, <1>7, <1>8 DEF u

LEMMA Single ==
  ASSUME NEW S, NEW x \in S
  PROVE  /\ << x >> \in Seq(S) /\ ToSet(<< x >>) = {x} /\ IsInjective(<< x >>)
  BY DEF ToSet, IsInjective

LEMMA Pair ==
  ASSUME NEW S, NEW x \in S, NEW y \in S, x # y
  PROVE  /\ << x, y >> \in Seq(S) /\ ToSet(<< x, y >>) = {x, y} /\ IsInjective(<< x, y >>)
  BY DEF ToSet, IsInjective

(* A holder is unlinked: the others remain, each once. *)
LEMMA Unlinked ==
  ASSUME NEW S, NEW s \in Seq(S), NEW k \in DOMAIN s, IsInjective(s)
  PROVE  /\ RemoveAt(s, k) \in Seq(S)
         /\ ToSet(RemoveAt(s, k)) = ToSet(s) \ {s[k]}
         /\ IsInjective(RemoveAt(s, k))
  <1>1. PICK n \in Nat : n = Len(s) /\ DOMAIN s = 1 .. n
    BY LenProperties
  <1>2. k \in 1 .. n /\ \A i \in 1 .. n : s[i] \in S
    BY <1>1, ElementOfSeq
  <1> DEFINE a == SubSeq(s, 1, k - 1)
             b == SubSeq(s, k + 1, n)
  <1>3. /\ a \in Seq(S) /\ Len(a) = k - 1
        /\ \A i \in 1 .. k - 1 : a[i] = s[i]
    <2>1. /\ \A i \in 1 .. k - 1 : s[i] \in S
          /\ 1 \in Int /\ k - 1 \in Int
      BY <1>2
    <2>2. /\ a \in Seq(S)
          /\ Len(a) = IF 1 <= k - 1 THEN k - 1 - 1 + 1 ELSE 0
          /\ \A i \in 1 .. k - 1 - 1 + 1 : a[i] = s[1 + i - 1]
      BY <2>1, SubSeqProperties
    <2> HIDE DEF a
    <2>3. QED BY <1>2, <2>2
  <1>4. /\ b \in Seq(S) /\ Len(b) = n - k
        /\ \A i \in 1 .. n - k : b[i] = s[k + i]
    <2>1. /\ \A i \in k + 1 .. n : s[i] \in S
          /\ k + 1 \in Int /\ n \in Int
      BY <1>2
    <2>2. /\ b \in Seq(S)
          /\ Len(b) = IF k + 1 <= n THEN n - (k + 1) + 1 ELSE 0
          /\ \A i \in 1 .. n - (k + 1) + 1 : b[i] = s[(k + 1) + i - 1]
      BY <2>1, SubSeqProperties
    <2> HIDE DEF b
    <2>3. QED BY <1>2, <2>2
  <1>5. RemoveAt(s, k) = a \o b
    BY <1>1 DEF RemoveAt
  <1> HIDE DEF a, b
  <1>6. DOMAIN a = 1 .. (k - 1) /\ DOMAIN b = 1 .. (n - k)
    BY <1>3, <1>4, LenProperties
  <1>7. \A i, j \in 1 .. n : s[i] = s[j] => i = j
    BY <1>1 DEF IsInjective
  <1>8. /\ \A i \in 1 .. (k - 1) : i \in 1 .. n /\ i # k
        /\ \A j \in 1 .. (n - k) : k + j \in 1 .. n /\ k + j # k
        /\ \A i \in 1 .. n : i = k \/ i \in 1 .. (k - 1) \/ (i - k \in 1 .. (n - k) /\ k + (i - k) = i)
    BY <1>2
  <1>9. IsInjective(a) /\ IsInjective(b)
    <2>1. \A i, j \in 1 .. (k - 1) : a[i] = a[j] => i = j
      BY <1>3, <1>7, <1>8
    <2>2. \A i, j \in 1 .. (n - k) : b[i] = b[j] => i = j
      <3> SUFFICES ASSUME NEW i \in 1 .. (n - k), NEW j \in 1 .. (n - k), b[i] = b[j]
                   PROVE  i = j
        OBVIOUS
      <3>1. k + i = k + j
        BY <1>4, <1>7, <1>8
      <3>2. QED BY <1>2, <3>1
    <2>3. QED BY <1>6, <2>1, <2>2 DEF IsInjective
  <1>10. ToSet(a) \cap ToSet(b) = {}
    <2>1. \A i \in 1 .. (k - 1), j \in 1 .. (n - k) : i # k + j
      BY <1>2
    <2>2. \A i \in 1 .. (k - 1), j \in 1 .. (n - k) : a[i] # b[j]
      BY <1>3, <1>4, <1>7, <1>8, <2>1
    <2>3. QED BY <1>6, <2>2 DEF ToSet
  <1>11. ToSet(a) \cup ToSet(b) = ToSet(s) \ {s[k]}
    <2>1. ToSet(a) \subseteq ToSet(s) \ {s[k]}
      BY <1>1, <1>2, <1>3, <1>6, <1>7, <1>8 DEF ToSet
    <2>2. ToSet(b) \subseteq ToSet(s) \ {s[k]}
      BY <1>1, <1>2, <1>4, <1>6, <1>7, <1>8 DEF ToSet
    <2>3. ASSUME NEW i \in 1 .. n, i # k PROVE s[i] \in ToSet(a) \cup ToSet(b)
      <3>1. CASE i \in 1 .. (k - 1)
        BY <1>3, <1>6, <3>1 DEF ToSet
      <3>2. CASE i - k \in 1 .. (n - k) /\ k + (i - k) = i
        BY <1>4, <1>6, <3>2 DEF ToSet
      <3>3. QED BY <1>8, <2>3, <3>1, <3>2
    <2>4. ToSet(s) \ {s[k]} \subseteq ToSet(a) \cup ToSet(b)
      BY <1>1, <2>3 DEF ToSet
    <2>5. QED BY <2>1, <2>2, <2>4
  <1>12. QED BY <1>3, <1>4, <1>5, <1>9, <1>10, <1>11, Concatenated

-----------------------------------------------------------------------------
(* The steps. *)

LEMMA HoldersApart ==
  /\ Server \cap Session = {} /\ None \notin Holder
  /\ \A i \in Session : i \in Nat
  <1>1. \A i \in Session : i \in Nat
    BY CountAssumption DEF Session
  <1>2. QED BY <1>1, ServiceAssumption DEF Holder

LEMMA SelectedIsLive ==
  ASSUME Inv, Processing
  PROVE  /\ selected \in Holder /\ selected \notin ToSet(waitable) \cup ToSet(waitlist)
         /\ ToSet(waitable) \cup ToSet(waitlist) \cup {selected} = Server \cup Live
         /\ selected \in Session => ~ IsFree(selected)
  <1>1. selected \in Holder /\ pc # "aborted"
    BY DEF Inv, TypeOK, Processing, Holder
  <1>2. /\ selected \notin ToSet(waitable) \cup ToSet(waitlist)
        /\ ToSet(waitable) \cup ToSet(waitlist) \cup {selected} = Server \cup Live
    BY <1>1 DEF Inv, Apart, Hand
  <1>3. QED BY <1>1, <1>2, HoldersApart DEF Live

(* What is registered again keeps the lists apart. *)
LEMMA Registered ==
  ASSUME Inv, Processing, NEW holders \in Seq(Holder), IsInjective(holders),
         ToSet(holders) \cap (ToSet(waitable) \cup ToSet(waitlist)) = {},
         Server \cup Live' = ToSet(waitable) \cup ToSet(waitlist) \cup ToSet(holders),
         waitlist' = waitlist \o holders, UNCHANGED waitable, pc' = "move"
  PROVE  waitlist' \in Seq(Holder) /\ Apart'
  <1>1. waitable \in Seq(Holder) /\ waitlist \in Seq(Holder)
    BY DEF Inv, TypeOK
  <1>2. /\ IsInjective(waitable) /\ IsInjective(waitlist)
        /\ ToSet(waitable) \cap ToSet(waitlist) = {}
    BY DEF Inv, Apart, Processing
  <1>3. /\ waitlist' \in Seq(Holder)
        /\ ToSet(waitlist') = ToSet(waitlist) \cup ToSet(holders)
        /\ IsInjective(waitlist')
    BY <1>1, <1>2, Concatenated
  <1>4. Hand' = {}
    BY DEF Hand, Processing
  <1>5. /\ ToSet(waitable) \cap ToSet(waitlist') = {}
        /\ ToSet(waitable) \cup ToSet(waitlist') \cup Hand' = Server \cup Live'
    BY <1>2, <1>3, <1>4
  <1>6. QED BY <1>2, <1>3, <1>4, <1>5 DEF Apart

(* A step that leaves the lists and the sets of live sessions alone. *)
LEMMA ListsKept ==
  ASSUME Inv, UNCHANGED << waitable, waitlist >>, Live' = Live, Hand' = Hand, pc # "aborted"
  PROVE  Apart'
  BY DEF Inv, Apart

LEMMA FromFinite ==
  \A s : IsFiniteSet(From(s)) /\ Cardinality(From(s)) \in Nat
  <1>1. IsFiniteSet(Session)
    BY CountAssumption, FS_Interval DEF Session
  <1>2. \A s : From(s) \in SUBSET Session
    BY DEF From
  <1>3. QED BY <1>1, <1>2, FS_Subset, FS_CardinalityType

LEMMA ConnectStep ==
  ASSUME Inv, NEW s \in Server, Connect(s)
  PROVE  Inv'
  <1>1. /\ pc # "aborted" /\ connected[s] < MaxSessions
        /\ connected' = [connected EXCEPT ![s] = @ + 1]
        /\ backlog' = [backlog EXCEPT ![s] = @ + 1]
        /\ UNCHANGED << session, origin, waitable, waitlist, notify, pc, selected, command >>
    BY DEF Connect
  <1>2. \A q \in Server : backlog[q] \in Nat /\ connected[q] \in Nat /\ Cardinality(From(q)) \in Nat
    BY FromFinite, CountAssumption DEF Inv, TypeOK
  <1>3. Counted'
    <2> SUFFICES ASSUME NEW q \in Server PROVE (connected[q] = backlog[q] + Cardinality(From(q)))'
      BY DEF Counted
    <2>1. From(q)' = From(q)
      BY <1>1 DEF From
    <2>2. connected[q] = backlog[q] + Cardinality(From(q))
      BY DEF Inv, Counted
    <2>3. /\ connected'[q] = IF q = s THEN connected[q] + 1 ELSE connected[q]
          /\ backlog'[q] = IF q = s THEN backlog[q] + 1 ELSE backlog[q]
      BY <1>1 DEF Inv, TypeOK
    <2>4. QED BY <1>2, <2>1, <2>2, <2>3
  <1>4. TypeOK'
    <2>1. backlog[s] <= connected[s]
      BY <1>2 DEF Inv, Counted
    <2>2. connected[s] + 1 \in 0 .. MaxSessions /\ backlog[s] + 1 \in 0 .. MaxSessions
      BY <1>1, <1>2, <2>1, CountAssumption
    <2>3. /\ connected' \in [Server -> 0 .. MaxSessions]
          /\ backlog' \in [Server -> 0 .. MaxSessions]
      BY <1>1, <2>2 DEF Inv, TypeOK
    <2>4. QED BY <1>1, <2>3 DEF Inv, TypeOK
  <1>5. Apart'
    BY <1>1 DEF Inv, Apart, Live, IsFree, Hand, Processing
  <1>6. OriginIsLive' /\ AbortedFull'
    BY <1>1 DEF Inv, OriginIsLive, AbortedFull, IsFree
  <1>7. HasConnection'
    BY <1>1, <1>2 DEF Inv, TypeOK, HasConnection
  <1>8. QED BY <1>3, <1>4, <1>5, <1>6, <1>7 DEF Inv

(* A step of a client changes one session, which stays live. *)
LEMMA SessionChanged ==
  ASSUME Inv, pc # "aborted", NEW i \in Session, ~ IsFree(i),
         NEW to \in Request \cup {"Idle", "Served", "Closed"},
         session' = [session EXCEPT ![i] = to],
         UNCHANGED << kernel, origin, waitable, waitlist >>,
         Hand' = Hand, pc' # "aborted",
         notify' \in BOOLEAN, command' \in Request \cup {None},
         UNCHANGED selected, pc' \in {"move", "wait", "accept", "receive", "process"},
         pc' = "accept" => pc = "accept",
         pc' \in {"receive", "process"} => selected \in Session
  PROVE  Inv'
  <1>1. session \in [Session -> Request \cup {"Free", "Idle", "Served", "Closed"}]
    BY DEF Inv, TypeOK
  <1>2. \A j \in Session : IsFree(j)' <=> IsFree(j)
    BY <1>1 DEF IsFree, Request
  <1>3. Live' = Live
    BY <1>2 DEF Live
  <1>4. TypeOK'
    <2>1. session' \in [Session -> Request \cup {"Free", "Idle", "Served", "Closed"}]
      BY <1>1
    <2>2. QED BY <2>1 DEF Inv, TypeOK, kernel
  <1>5. Apart'
    BY <1>3, ListsKept
  <1>6. Counted'
    BY DEF Inv, Counted, From, kernel
  <1>7. OriginIsLive'
    BY <1>2 DEF Inv, OriginIsLive
  <1>8. HasConnection' /\ AbortedFull'
    BY DEF Inv, HasConnection, AbortedFull, kernel
  <1>9. QED BY <1>4, <1>5, <1>6, <1>7, <1>8 DEF Inv

LEMMA ClientStep ==
  ASSUME Inv, NEW i \in Session, CloseHandle(i) \/ \E r \in Request : SendRequest(i, r)
  PROVE  Inv'
  <1>1. /\ pc # "aborted" /\ session[i] # "Free"
        /\ UNCHANGED << kernel, origin, waitable, waitlist, notify, pc, selected, command >>
    BY DEF CloseHandle, SendRequest, Request
  <1>2. PICK to \in Request \cup {"Idle", "Served", "Closed"} :
          session' = [session EXCEPT ![i] = to]
    BY DEF CloseHandle, SendRequest
  <1>3. ~ IsFree(i) /\ Hand' = Hand
    BY <1>1 DEF IsFree, Hand, Processing
  <1>4. /\ notify' \in BOOLEAN /\ command' \in Request \cup {None}
        /\ pc' \in {"move", "wait", "accept", "receive", "process"}
        /\ (pc' = "accept" => pc = "accept")
        /\ (pc' \in {"receive", "process"} => selected \in Session)
    BY <1>1 DEF Inv, TypeOK
  <1>5. QED BY <1>1, <1>2, <1>3, <1>4, SessionChanged

LEMMA ProcessWaitListStep == Inv /\ ProcessWaitList => Inv'
  <1> SUFFICES ASSUME Inv, ProcessWaitList PROVE Inv'
    OBVIOUS
  <1>1. /\ pc = "move" /\ pc' = "wait" /\ waitable' = waitable \o waitlist /\ waitlist' = << >>
        /\ UNCHANGED << kernel, session, origin, notify, selected, command >>
    BY DEF ProcessWaitList, Moved
  <1>2. /\ waitable \in Seq(Holder) /\ waitlist \in Seq(Holder)
        /\ IsInjective(waitable) /\ IsInjective(waitlist)
        /\ ToSet(waitable) \cap ToSet(waitlist) = {}
        /\ ToSet(waitable) \cup ToSet(waitlist) = Server \cup Live
    BY <1>1 DEF Inv, TypeOK, Apart, Hand, Processing
  <1>3. /\ waitable' \in Seq(Holder) /\ IsInjective(waitable')
        /\ ToSet(waitable') = Server \cup Live
    BY <1>1, <1>2, Concatenated
  <1>4. waitlist' \in Seq(Holder) /\ IsInjective(waitlist') /\ ToSet(waitlist') = {}
    BY <1>1, EmptySeq DEF IsInjective, ToSet
  <1>5. Apart'
    <2>1. Live' = Live /\ Hand' = {}
      BY <1>1 DEF Live, IsFree, Hand, Processing
    <2>2. QED BY <1>3, <1>4, <2>1 DEF Apart
  <1>6. TypeOK'
    BY <1>1, <1>3, <1>4 DEF Inv, TypeOK, kernel
  <1>7. Counted' /\ OriginIsLive' /\ HasConnection' /\ AbortedFull'
    BY <1>1 DEF Inv, Counted, From, OriginIsLive, HasConnection, AbortedFull, IsFree, kernel
  <1>8. QED BY <1>5, <1>6, <1>7 DEF Inv

LEMMA NotifiedStep == Inv /\ Notified => Inv'
  <1> SUFFICES ASSUME Inv, Notified PROVE Inv'
    OBVIOUS
  <1>1. /\ pc = "wait" /\ pc' = "move" /\ notify' = FALSE
        /\ UNCHANGED << kernel, session, origin, waitable, waitlist, selected, command >>
    BY DEF Notified
  <1>2. TypeOK'
    BY <1>1 DEF Inv, TypeOK, kernel
  <1>3. Apart'
    <2>1. Live' = Live /\ Hand' = Hand
      BY <1>1 DEF Live, IsFree, Hand, Processing
    <2>2. QED BY <1>1, <2>1, ListsKept
  <1>4. Counted' /\ OriginIsLive' /\ HasConnection' /\ AbortedFull'
    BY <1>1 DEF Inv, Counted, From, OriginIsLive, HasConnection, AbortedFull, IsFree, kernel
  <1>5. QED BY <1>2, <1>3, <1>4 DEF Inv

LEMMA WaitSignaledStep == Inv /\ WaitSignaled => Inv'
  <1> SUFFICES ASSUME Inv, WaitSignaled PROVE Inv'
    OBVIOUS
  <1>1. /\ pc = "wait" /\ pc' = IF selected' \in Server THEN "accept" ELSE "receive"
        /\ UNCHANGED << kernel, session, origin, waitlist, notify, command >>
    BY DEF WaitSignaled
  <1>2. PICK k \in DOMAIN waitable :
          Signalled(waitable[k]) /\ selected' = waitable[k] /\ waitable' = RemoveAt(waitable, k)
    BY DEF WaitSignaled
  <1>3. /\ waitable \in Seq(Holder) /\ IsInjective(waitable)
        /\ ToSet(waitable) \cap ToSet(waitlist) = {}
        /\ IsInjective(waitlist)
        /\ ToSet(waitable) \cup ToSet(waitlist) = Server \cup Live
    BY <1>1 DEF Inv, TypeOK, Apart, Hand, Processing
  <1>4. /\ waitable' \in Seq(Holder) /\ IsInjective(waitable')
        /\ ToSet(waitable') = ToSet(waitable) \ {selected'}
    BY <1>2, <1>3, Unlinked
  <1>5. selected' \in Holder /\ selected' \in ToSet(waitable)
    <2>1. DOMAIN waitable = 1 .. Len(waitable)
      BY <1>3, LenProperties
    <2>2. QED BY <1>2, <1>3, <2>1, ElementOfSeq DEF ToSet
  <1>6. Apart'
    <2>1. Live' = Live /\ Hand' = {selected'}
      BY <1>1 DEF Live, IsFree, Hand, Processing
    <2>2. QED BY <1>1, <1>3, <1>4, <1>5, <2>1 DEF Apart
  <1>7. TypeOK'
    <2>1. /\ pc' \in {"accept", "receive"}
          /\ (pc' = "accept" => selected' \in Server)
          /\ (pc' = "receive" => selected' \in Session)
      BY <1>1, <1>5 DEF Holder
    <2>2. QED BY <1>1, <1>4, <1>5, <2>1 DEF Inv, TypeOK, kernel
  <1>8. HasConnection'
    BY <1>1, <1>2 DEF HasConnection, Signalled, kernel
  <1>9. Counted' /\ OriginIsLive' /\ AbortedFull'
    BY <1>1 DEF Inv, Counted, From, OriginIsLive, AbortedFull, IsFree, kernel
  <1>10. QED BY <1>6, <1>7, <1>8, <1>9 DEF Inv

(* The loop aborts. *)
LEMMA AbortStep ==
  ASSUME Inv, Abort, UNCHANGED waitable
  PROVE  Inv'
  <1>1. /\ NoMemory /\ pc' = "aborted"
        /\ UNCHANGED << kernel, session, origin, waitable, waitlist, notify, selected, command >>
    BY DEF Abort
  <1>2. TypeOK'
    BY <1>1 DEF Inv, TypeOK, kernel
  <1>3. Apart' /\ HasConnection' /\ AbortedFull'
    BY <1>1 DEF Apart, HasConnection, AbortedFull, NoMemory, IsFree
  <1>4. Counted' /\ OriginIsLive'
    BY <1>1 DEF Inv, Counted, From, OriginIsLive, IsFree, kernel
  <1>5. QED BY <1>2, <1>3, <1>4 DEF Inv

LEMMA ProcessForServerStep == Inv /\ ProcessForServer => Inv'
  <1> SUFFICES ASSUME Inv, ProcessForServer PROVE Inv'
    OBVIOUS
  <1>1. pc = "accept" /\ UNCHANGED waitable /\ Processing
    BY DEF ProcessForServer, Processing
  <1>2. CASE Abort
    BY <1>1, <1>2, AbortStep
  <1>3. ASSUME NEW i \in Session, IsFree(i),
               backlog' = [backlog EXCEPT ![selected] = @ - 1],
               session' = [session EXCEPT ![i] = "Idle"],
               origin' = [origin EXCEPT ![i] = selected],
               RegisterToWaitList(AfterAccept(i)), Return, UNCHANGED connected
        PROVE  Inv'
    <2>1. /\ selected \in Server /\ selected \in Holder /\ i \in Holder /\ i # selected
          /\ i \notin Server
      BY <1>1, HoldersApart DEF Inv, TypeOK, Holder
    <2>2. /\ selected \notin ToSet(waitable) \cup ToSet(waitlist)
          /\ ToSet(waitable) \cup ToSet(waitlist) \cup {selected} = Server \cup Live
      BY <1>1, SelectedIsLive
    <2>3. /\ session \in [Session -> Request \cup {"Free", "Idle", "Served", "Closed"}]
          /\ origin \in [Session -> Server \cup {None}]
          /\ backlog \in [Server -> 0 .. MaxSessions]
      BY DEF Inv, TypeOK
    <2>4. \A j \in Session : IsFree(j)' <=> IsFree(j) /\ j # i
      BY <1>3, <2>3 DEF IsFree
    <2>5. Live' = Live \cup {i} /\ i \notin Live
      BY <1>3, <2>4 DEF Live
    <2>6. pc' = "move" /\ selected' = None /\ command' = None /\ notify' = TRUE
          /\ waitlist' = waitlist \o << i, selected >>
      BY <1>3 DEF Return, RegisterToWaitList, AfterAccept
    <2>7. waitlist' \in Seq(Holder) /\ Apart'
      <3>1. /\ << i, selected >> \in Seq(Holder) /\ IsInjective(<< i, selected >>)
            /\ ToSet(<< i, selected >>) = {i, selected}
        BY <2>1, Pair
      <3>2. {i, selected} \cap (ToSet(waitable) \cup ToSet(waitlist)) = {}
        BY <2>1, <2>2, <2>5
      <3>3. Server \cup Live' = ToSet(waitable) \cup ToSet(waitlist) \cup {i, selected}
        BY <2>2, <2>5
      <3>4. QED BY <1>1, <2>6, <3>1, <3>2, <3>3, Registered
    <2>8. /\ backlog[selected] \in Nat /\ backlog[selected] > 0
          /\ backlog' \in [Server -> 0 .. MaxSessions]
      <3>1. backlog[selected] \in 0 .. MaxSessions /\ backlog[selected] > 0
        BY <1>1, <2>1, <2>3 DEF Inv, HasConnection
      <3>2. backlog[selected] - 1 \in 0 .. MaxSessions /\ backlog[selected] \in Nat
        BY <3>1, CountAssumption
      <3>3. backlog' \in [Server -> 0 .. MaxSessions]
        BY <1>3, <2>3, <3>2
      <3>4. QED BY <3>1, <3>2, <3>3
    <2>9. TypeOK'
      <3>1. /\ session' \in [Session -> Request \cup {"Free", "Idle", "Served", "Closed"}]
            /\ origin' \in [Session -> Server \cup {None}]
        BY <1>3, <2>1, <2>3
      <3>2. QED BY <1>1, <1>3, <2>6, <2>7, <2>8, <3>1 DEF Inv, TypeOK
    <2>10. Counted'
      <3> SUFFICES ASSUME NEW q \in Server
                   PROVE  (connected[q] = backlog[q] + Cardinality(From(q)))'
        BY DEF Counted
      <3>1. connected[q] = backlog[q] + Cardinality(From(q)) /\ origin[i] = None
        BY <1>3 DEF Inv, Counted, OriginIsLive
      <3>2. /\ IsFiniteSet(From(q)) /\ Cardinality(From(q)) \in Nat /\ i \notin From(q)
            /\ backlog[q] \in Nat
        <4>1. backlog[q] \in Nat
          BY <2>3, CountAssumption
        <4>2. IsFiniteSet(From(q)) /\ Cardinality(From(q)) \in Nat
          BY FromFinite
        <4>3. i \notin From(q)
          BY <3>1, ServiceAssumption DEF From
        <4>4. QED BY <4>1, <4>2, <4>3
      <3>3. CASE q = selected
        <4>1. From(q)' = From(q) \cup {i}
          BY <1>3, <2>3, <3>3 DEF From
        <4>2. Cardinality(From(q) \cup {i}) = Cardinality(From(q)) + 1
          BY <3>2, FS_AddElement
        <4>3. backlog'[q] = backlog[q] - 1 /\ connected'[q] = connected[q]
          BY <1>3, <2>3, <3>3
        <4>4. QED BY <3>1, <3>2, <4>1, <4>2, <4>3
      <3>4. CASE q # selected
        <4>1. From(q)' = From(q)
          BY <1>3, <2>3, <3>1, <3>4, ServiceAssumption DEF From
        <4>2. backlog'[q] = backlog[q] /\ connected'[q] = connected[q]
          BY <1>3, <2>3, <3>4
        <4>3. QED BY <3>1, <4>1, <4>2
      <3>5. QED BY <3>3, <3>4
    <2>11. OriginIsLive'
      <3> SUFFICES ASSUME NEW j \in Session, IsFree(j)' PROVE origin'[j] = None
        BY DEF OriginIsLive
      <3>1. IsFree(j) /\ j # i
        BY <2>4
      <3>2. QED BY <1>3, <2>3, <3>1 DEF Inv, OriginIsLive
    <2>12. HasConnection' /\ AbortedFull'
      BY <2>6 DEF HasConnection, AbortedFull
    <2>13. QED BY <2>7, <2>9, <2>10, <2>11, <2>12 DEF Inv
  <1>4. QED BY <1>2, <1>3 DEF ProcessForServer, MayAllocate

(* A session ends: its memory is free, and the kernel forgets it. *)
LEMMA SessionClosed ==
  ASSUME Inv, pc \in {"receive", "process"}, CloseSessionImpl(selected)
  PROVE  Inv'
  <1>1. /\ session' = [session EXCEPT ![selected] = "Free"]
        /\ connected' = [s \in Server |-> connected[s] - (IF origin[selected] = s THEN 1 ELSE 0)]
        /\ origin' = [origin EXCEPT ![selected] = None]
        /\ pc' = "move" /\ selected' = None /\ command' = None
        /\ UNCHANGED << backlog, waitable, waitlist, notify >>
    BY DEF CloseSessionImpl, Released, Return
  <1>2. selected \in Session /\ selected \notin Server
    BY HoldersApart DEF Inv, TypeOK
  <1>3. /\ session \in [Session -> Request \cup {"Free", "Idle", "Served", "Closed"}]
        /\ origin \in [Session -> Server \cup {None}]
        /\ backlog \in [Server -> 0 .. MaxSessions]
        /\ connected \in [Server -> 0 .. MaxSessions]
    BY DEF Inv, TypeOK
  <1>4. /\ selected \notin ToSet(waitable) \cup ToSet(waitlist)
        /\ ToSet(waitable) \cup ToSet(waitlist) \cup {selected} = Server \cup Live
    BY SelectedIsLive DEF Processing
  <1>5. \A j \in Session : IsFree(j)' <=> IsFree(j) \/ j = selected
    BY <1>1, <1>3 DEF IsFree
  <1>6. Live' = Live \ {selected}
    BY <1>5 DEF Live
  <1>7. Apart'
    <2>1. Hand' = {}
      BY <1>1 DEF Hand, Processing
    <2>2. ToSet(waitable) \cup ToSet(waitlist) = Server \cup Live'
      BY <1>2, <1>4, <1>6
    <2>3. IsInjective(waitable) /\ IsInjective(waitlist) /\ ToSet(waitable) \cap ToSet(waitlist) = {}
      BY DEF Inv, Apart
    <2>4. QED BY <1>1, <2>1, <2>2, <2>3 DEF Apart
  <1>8. ASSUME NEW q \in Server
        PROVE  /\ connected'[q] \in 0 .. MaxSessions
               /\ connected'[q] = backlog'[q] + Cardinality(From(q)')
    <2>1. connected[q] = backlog[q] + Cardinality(From(q))
      BY DEF Inv, Counted
    <2>2. IsFiniteSet(From(q)) /\ Cardinality(From(q)) \in Nat
      BY FromFinite
    <2>3. backlog[q] \in Nat /\ connected[q] \in 0 .. MaxSessions /\ MaxSessions \in Nat
      BY <1>3, CountAssumption
    <2>4. From(q)' = From(q) \ {selected}
      BY <1>1, <1>2, <1>3, ServiceAssumption DEF From
    <2>5. selected \in From(q) <=> origin[selected] = q
      BY <1>2 DEF From
    <2>6. /\ IsFiniteSet(From(q)') /\ Cardinality(From(q)') \in Nat
          /\ Cardinality(From(q)') =
               IF origin[selected] = q THEN Cardinality(From(q)) - 1 ELSE Cardinality(From(q))
      BY <2>2, <2>4, <2>5, FS_RemoveElement, FS_CardinalityType
    <2>7. connected'[q] = IF origin[selected] = q THEN connected[q] - 1 ELSE connected[q]
      BY <1>1, <2>3
    <2>8. backlog'[q] = backlog[q]
      BY <1>1
    <2>9. QED BY <2>1, <2>2, <2>3, <2>6, <2>7, <2>8
  <1>9. Counted'
    BY <1>8 DEF Counted
  <1>10. TypeOK'
    <2>1. connected' \in [Server -> 0 .. MaxSessions]
      <3>1. connected' = [s \in Server |-> connected'[s]]
        BY <1>1
      <3>2. QED BY <1>8, <3>1
    <2>2. /\ session' \in [Session -> Request \cup {"Free", "Idle", "Served", "Closed"}]
          /\ origin' \in [Session -> Server \cup {None}]
      BY <1>1, <1>3
    <2>3. QED BY <1>1, <2>1, <2>2 DEF Inv, TypeOK
  <1>11. OriginIsLive'
    <2> SUFFICES ASSUME NEW j \in Session, IsFree(j)' PROVE origin'[j] = None
      BY DEF OriginIsLive
    <2>1. IsFree(j) \/ j = selected
      BY <1>5
    <2>2. QED BY <1>1, <1>3, <2>1 DEF Inv, OriginIsLive
  <1>12. HasConnection' /\ AbortedFull'
    BY <1>1 DEF HasConnection, AbortedFull
  <1>13. QED BY <1>7, <1>9, <1>10, <1>11, <1>12 DEF Inv

LEMMA ReceiveRequestStep == Inv /\ ReceiveRequest => Inv'
  <1> SUFFICES ASSUME Inv, ReceiveRequest PROVE Inv'
    OBVIOUS
  <1>1. /\ pc = "receive" /\ pc' = "process" /\ HasRequest(selected)
        /\ command' = session[selected]
        /\ session' = [session EXCEPT ![selected] = "Served"]
        /\ UNCHANGED << kernel, origin, waitable, waitlist, notify, selected >>
    BY DEF ReceiveRequest
  <1>2. PICK i \in Session : i = selected
    BY <1>1 DEF Inv, TypeOK
  <1>3. ~ IsFree(i)
    BY <1>1, <1>2, SelectedIsLive DEF Processing
  <1>4. command' \in Request \cup {None} /\ notify' \in BOOLEAN
    BY <1>1 DEF HasRequest, Inv, TypeOK
  <1>5. Hand' = Hand
    BY <1>1 DEF Hand, Processing
  <1>6. "Served" \in Request \cup {"Idle", "Served", "Closed"} /\ pc # "aborted" /\ pc' # "aborted"
    BY <1>1
  <1>7. QED BY <1>1, <1>2, <1>3, <1>4, <1>5, <1>6, SessionChanged

LEMMA ProcessCallStep == Inv /\ ProcessCall => Inv'
  <1> SUFFICES ASSUME Inv, ProcessCall PROVE Inv'
    OBVIOUS
  <1>1. /\ pc = "process" /\ session' = Replied(session, selected)
        /\ waitlist' = waitlist \o << selected >> /\ notify' = TRUE
        /\ pc' = "move" /\ selected' = None /\ command' = None
        /\ UNCHANGED << kernel, origin, waitable >>
    BY DEF ProcessCall, RegisterToWaitList, Return
  <1>2. selected \in Session /\ selected \in Holder /\ Processing
    BY <1>1 DEF Inv, TypeOK, Holder, Processing
  <1>3. /\ selected \notin ToSet(waitable) \cup ToSet(waitlist)
        /\ ToSet(waitable) \cup ToSet(waitlist) \cup {selected} = Server \cup Live
    BY <1>2, SelectedIsLive
  <1>4. session \in [Session -> Request \cup {"Free", "Idle", "Served", "Closed"}]
    BY DEF Inv, TypeOK
  <1>5. /\ session' \in [Session -> Request \cup {"Free", "Idle", "Served", "Closed"}]
        /\ \A j \in Session : IsFree(j)' <=> IsFree(j)
    BY <1>1, <1>4 DEF Replied, IsFree
  <1>6. Live' = Live
    BY <1>5 DEF Live
  <1>7. waitlist' \in Seq(Holder) /\ Apart'
    <2>1. /\ << selected >> \in Seq(Holder) /\ IsInjective(<< selected >>)
          /\ ToSet(<< selected >>) = {selected}
      BY <1>2, Single
    <2>2. /\ {selected} \cap (ToSet(waitable) \cup ToSet(waitlist)) = {}
          /\ Server \cup Live' = ToSet(waitable) \cup ToSet(waitlist) \cup {selected}
      BY <1>3, <1>6
    <2>3. QED BY <1>1, <1>2, <2>1, <2>2, Registered
  <1>8. TypeOK'
    BY <1>1, <1>5, <1>7 DEF Inv, TypeOK, kernel
  <1>9. Counted' /\ OriginIsLive'
    BY <1>1, <1>5 DEF Inv, Counted, From, OriginIsLive, kernel
  <1>10. HasConnection' /\ AbortedFull'
    BY <1>1 DEF HasConnection, AbortedFull
  <1>11. QED BY <1>7, <1>8, <1>9, <1>10 DEF Inv

LEMMA ProcessOpenStep == Inv /\ ProcessOpen => Inv'
  <1> SUFFICES ASSUME Inv, ProcessOpen PROVE Inv'
    OBVIOUS
  <1>1. pc = "process" /\ UNCHANGED waitable /\ Processing
    BY DEF ProcessOpen, Processing
  <1>2. CASE Abort
    BY <1>1, <1>2, AbortStep
  <1>3. ASSUME NEW i \in Session, IsFree(i),
               session' = Replied([session EXCEPT ![i] = "Idle"], selected),
               origin' = [origin EXCEPT ![i] = None],
               RegisterToWaitList(<< i, selected >>), Return, UNCHANGED kernel
        PROVE  Inv'
    <2>1. selected \in Session /\ ~ IsFree(selected) /\ i # selected
          /\ selected \in Holder /\ i \in Holder
      BY <1>1, <1>3, SelectedIsLive DEF Inv, TypeOK, Holder
    <2>2. i \notin Server
      BY HoldersApart
    <2>3. /\ selected \notin ToSet(waitable) \cup ToSet(waitlist)
          /\ ToSet(waitable) \cup ToSet(waitlist) \cup {selected} = Server \cup Live
      BY <1>1, SelectedIsLive
    <2>4. /\ session \in [Session -> Request \cup {"Free", "Idle", "Served", "Closed"}]
          /\ origin \in [Session -> Server \cup {None}]
      BY DEF Inv, TypeOK
    <2>5. /\ session' \in [Session -> Request \cup {"Free", "Idle", "Served", "Closed"}]
          /\ \A j \in Session : IsFree(j)' <=> IsFree(j) /\ j # i
      BY <1>3, <2>1, <2>4 DEF Replied, IsFree
    <2>6. Live' = Live \cup {i} /\ i \notin Live
      BY <1>3, <2>5 DEF Live
    <2>7. origin' = origin
      <3>1. origin[i] = None
        BY <1>3 DEF Inv, OriginIsLive
      <3>2. QED BY <1>3, <2>4, <3>1
    <2>8. /\ pc' = "move" /\ selected' = None /\ command' = None /\ notify' = TRUE
          /\ waitlist' = waitlist \o << i, selected >>
      BY <1>3 DEF Return, RegisterToWaitList
    <2>9. waitlist' \in Seq(Holder) /\ Apart'
      <3>1. /\ << i, selected >> \in Seq(Holder) /\ IsInjective(<< i, selected >>)
            /\ ToSet(<< i, selected >>) = {i, selected}
        BY <2>1, Pair
      <3>2. {i, selected} \cap (ToSet(waitable) \cup ToSet(waitlist)) = {}
        BY <2>2, <2>3, <2>6, <2>1
      <3>3. Server \cup Live' = ToSet(waitable) \cup ToSet(waitlist) \cup {i, selected}
        BY <2>3, <2>6
      <3>4. QED BY <1>1, <2>8, <3>1, <3>2, <3>3, Registered
    <2>10. TypeOK'
      BY <1>1, <1>3, <2>5, <2>7, <2>8, <2>9 DEF Inv, TypeOK, kernel
    <2>11. Counted' /\ OriginIsLive'
      BY <1>3, <2>5, <2>7 DEF Inv, Counted, From, OriginIsLive, kernel
    <2>12. HasConnection' /\ AbortedFull'
      BY <2>8 DEF HasConnection, AbortedFull
    <2>13. QED BY <2>9, <2>10, <2>11, <2>12 DEF Inv
  <1>4. QED BY <1>2, <1>3 DEF ProcessOpen, MayAllocate

-----------------------------------------------------------------------------

LEMMA ServicesLinked ==
  /\ Services \in Seq(Holder) /\ IsInjective(Services) /\ ToSet(Services) = Server
  <1>1. Services \in Seq(Server)
    BY ServiceAssumption
  <1>2. /\ Len(Services) \in Nat /\ \A j \in 1 .. Len(Services) : Services[j] \in Server
        /\ Services \in [1 .. Len(Services) -> Server]
    BY <1>1, LenProperties, ElementOfSeq
  <1>3. Services \in Seq(Holder)
    BY <1>1, <1>2 DEF Holder
  <1>4. QED BY <1>3, ServiceAssumption DEF Server

LEMMA InvInit == Init => Inv
  <1> SUFFICES ASSUME Init PROVE Inv
    OBVIOUS
  <1>1. 0 \in 0 .. MaxSessions /\ 0 \in Nat
    BY CountAssumption
  <1>2. << >> \in Seq(Holder) /\ ToSet(<< >>) = {} /\ IsInjective(<< >>)
    BY EmptySeq DEF ToSet, IsInjective
  <1>3. Live = {} /\ Hand = {}
    BY DEF Init, Live, IsFree, Hand, Processing
  <1>4. TypeOK
    <2>1. backlog \in [Server -> 0 .. MaxSessions] /\ connected \in [Server -> 0 .. MaxSessions]
      BY <1>1 DEF Init
    <2>2. QED BY <1>2, <2>1, ServicesLinked DEF Init, TypeOK
  <1>5. Apart
    BY <1>2, <1>3, ServicesLinked DEF Init, Apart
  <1>6. Counted
    <2> SUFFICES ASSUME NEW q \in Server PROVE connected[q] = backlog[q] + Cardinality(From(q))
      BY DEF Counted
    <2>1. From(q) = {}
      BY ServiceAssumption DEF Init, From
    <2>2. Cardinality(From(q)) = 0
      BY <2>1, FS_EmptySet
    <2>3. QED BY <2>2 DEF Init
  <1>7. OriginIsLive /\ HasConnection /\ AbortedFull
    BY DEF Init, OriginIsLive, HasConnection, AbortedFull
  <1>8. QED BY <1>4, <1>5, <1>6, <1>7 DEF Inv

LEMMA InvStutter == Inv /\ UNCHANGED vars => Inv'
  BY DEF vars, kernel, Inv, TypeOK, Apart, Hand, Processing, Live, IsFree, Counted, From,
         OriginIsLive, HasConnection, AbortedFull, NoMemory

LEMMA InvNext == Inv /\ [Next]_vars => Inv'
  <1> SUFFICES ASSUME Inv, [Next]_vars PROVE Inv'
    OBVIOUS
  <1>1. CASE ProcessForSession
    <2>1. CASE ReceiveClosed
      BY <2>1, SessionClosed DEF ReceiveClosed
    <2>2. CASE ProcessClose
      BY <2>2, SessionClosed DEF ProcessClose
    <2>3. QED BY <1>1, <2>1, <2>2, ReceiveRequestStep, ProcessCallStep, ProcessOpenStep
              DEF ProcessForSession
  <1>2. CASE LoopProcess
    BY <1>1, <1>2, ProcessWaitListStep, NotifiedStep, WaitSignaledStep, ProcessForServerStep
       DEF LoopProcess
  <1>3. CASE Client
    BY <1>3, ConnectStep, ClientStep DEF Client
  <1>4. CASE Terminated \/ UNCHANGED vars
    BY <1>4, InvStutter DEF Terminated
  <1>5. QED BY <1>2, <1>3, <1>4 DEF Next

LEMMA InvHolds == Spec => []Inv
  BY InvInit, InvNext, PTL DEF Spec

(* The kernel's counts of a port stay between zero and its limit, and the  *)
(* loop has a port or a session in hand when it needs one.                 *)
THEOREM TypeCorrect == Spec => []TypeOK
  <1>1. Inv => TypeOK
    BY DEF Inv
  <1>2. QED BY <1>1, InvHolds, PTL

LEMMA LinkedByInv == Inv => LinkedOnce
  <1> SUFFICES ASSUME Inv, pc # "aborted"
               PROVE  /\ IsInjective(Linked)
                      /\ ToSet(Linked) = Server \cup {i \in Session : ~ IsFree(i)}
    BY DEF LinkedOnce
  <1>1. /\ waitable \in Seq(Holder) /\ waitlist \in Seq(Holder)
        /\ IsInjective(waitable) /\ IsInjective(waitlist)
        /\ ToSet(waitable) \cap ToSet(waitlist) = {}
        /\ Hand \cap (ToSet(waitable) \cup ToSet(waitlist)) = {}
        /\ ToSet(waitable) \cup ToSet(waitlist) \cup Hand = Server \cup Live
    BY DEF Inv, TypeOK, Apart
  <1>2. InHand \in Seq(Holder) /\ ToSet(InHand) = Hand /\ IsInjective(InHand)
    <2>1. CASE Processing
      <3>1. InHand = << selected >> /\ Hand = {selected}
        BY <2>1 DEF InHand, Hand, Processing
      <3>2. selected \in Holder
        BY <2>1, SelectedIsLive
      <3>3. QED BY <3>1, <3>2, Single
    <2>2. CASE ~ Processing
      <3>1. InHand = << >> /\ Hand = {}
        BY <2>2 DEF InHand, Hand, Processing
      <3>2. QED BY <3>1, EmptySeq DEF ToSet, IsInjective
    <2>3. QED BY <2>1, <2>2
  <1> DEFINE both == waitable \o waitlist
  <1>3. both \in Seq(Holder) /\ IsInjective(both) /\ ToSet(both) = ToSet(waitable) \cup ToSet(waitlist)
    BY <1>1, Concatenated
  <1>4. Linked = both \o InHand
    BY DEF Linked
  <1> HIDE DEF both
  <1>5. IsInjective(Linked) /\ ToSet(Linked) = ToSet(both) \cup ToSet(InHand)
    <2>1. ToSet(both) \cap ToSet(InHand) = {}
      BY <1>1, <1>2, <1>3
    <2>2. QED BY <1>2, <1>3, <1>4, <2>1, Concatenated
  <1>6. QED BY <1>1, <1>2, <1>3, <1>5 DEF Live

(* No port and no session is ever lost between two requests or linked      *)
(* twice, and memory is given back only when nothing links to it: every    *)
(* handler's way back to the list, its early returns included, preserves   *)
(* this, for any number of ports and sessions.                             *)
THEOREM EveryHolderLinked == Spec => []LinkedOnce
  BY InvHolds, LinkedByInv, PTL

(* The sessions of all ports are at most the limit times the ports.        *)
LEMMA SessionsOfPorts ==
  ASSUME Inv
  PROVE  LET ofPorts == {i \in Session : origin[i] \in Server}
         IN  IsFiniteSet(ofPorts) /\ Cardinality(ofPorts) <= Len(Services) * MaxSessions
  <1> DEFINE ofPorts == {i \in Session : origin[i] \in Server}
             Place == 1 .. MaxSessions
  <1>1. MaxSessions \in Nat /\ IsFiniteSet(Place) /\ Cardinality(Place) = MaxSessions
    BY CountAssumption, FS_Interval
  <1>2. IsFiniteSet(Server) /\ Cardinality(Server) = Len(Services)
    <2>1. PICK n \in Nat : n = Len(Services) /\ DOMAIN Services = 1 .. n
                           /\ Services \in [1 .. n -> Server]
      BY ServiceAssumption, LenProperties
    <2>2. \A s \in Server : \E j \in 1 .. n : Services[j] = s
      BY <2>1 DEF Server, ToSet
    <2>3. Services \in Bijection(1 .. n, Server)
      BY <2>1, <2>2, ServiceAssumption DEF Bijection, Injection, Surjection
    <2>4. IsFiniteSet(1 .. n) /\ Cardinality(1 .. n) = n
      BY FS_Interval
    <2>5. QED BY <2>1, <2>3, <2>4, FS_Bijection DEF ExistsBijection
  (* The sessions of a port are numbered up to the limit. *)
  <1>3. ASSUME NEW s \in Server PROVE \E f : f \in Injection(From(s), Place)
    <2>1. PICK n \in Nat : n = Cardinality(From(s))
      BY FromFinite
    <2>2. n <= MaxSessions
      <3>1. connected[s] = backlog[s] + n /\ backlog[s] \in Nat /\ connected[s] \in 0 .. MaxSessions
        BY <1>1, <2>1 DEF Inv, Counted, TypeOK
      <3>2. QED BY <1>1, <3>1
    <2>3. ExistsBijection(From(s), 1 .. n)
      BY <2>1, FromFinite, FS_CardinalityType, Fun_ExistsBijSymmetric
    <2>4. PICK f : f \in Bijection(From(s), 1 .. n)
      BY <2>3 DEF ExistsBijection
    <2>5. f \in [From(s) -> 1 .. n] /\ IsInjective(f)
      BY <2>4 DEF Bijection, Injection
    <2>6. \A k \in 1 .. n : k \in Place
      BY <1>1, <2>2
    <2>7. f \in [From(s) -> Place]
      <3> HIDE DEF Place
      <3>1. QED BY <2>5, <2>6
    <2>8. QED BY <2>5, <2>7 DEF Injection
  <1> DEFINE rank == [s \in Server |-> CHOOSE f : f \in Injection(From(s), Place)]
             seat == [i \in ofPorts |-> << origin[i], rank[origin[i]][i] >>]
  <1>4. \A s \in Server : rank[s] \in [From(s) -> Place] /\ IsInjective(rank[s])
    BY <1>3 DEF Injection
  <1> HIDE DEF rank, Place
  <1>5. seat \in Injection(ofPorts, Server \X Place)
    <2>1. \A i \in ofPorts : origin[i] \in Server /\ i \in From(origin[i])
      BY DEF From
    <2>2. seat \in [ofPorts -> Server \X Place]
      BY <1>4, <2>1
    <2>3. ASSUME NEW i \in ofPorts, NEW j \in ofPorts, seat[i] = seat[j] PROVE i = j
      <3>1. origin[i] = origin[j] /\ rank[origin[i]][i] = rank[origin[j]][j]
        BY <2>3
      <3>2. PICK s \in Server : s = origin[i] /\ s = origin[j]
        BY <2>1, <3>1
      <3>3. i \in From(s) /\ j \in From(s) /\ rank[s][i] = rank[s][j]
        BY <2>1, <3>1, <3>2
      <3>4. QED BY <1>4, <3>3 DEF IsInjective
    <2> HIDE DEF seat, ofPorts
    <2>4. IsInjective(seat)
      BY <2>2, <2>3 DEF IsInjective
    <2>5. QED BY <2>2, <2>4 DEF Injection
  <1> HIDE DEF seat
  <1>6. IsFiniteSet(Server \X Place) /\ Cardinality(Server \X Place) = Len(Services) * MaxSessions
    BY <1>1, <1>2, FS_Product
  <1>7. IsFiniteSet(ofPorts) /\ Cardinality(ofPorts) <= Cardinality(Server \X Place)
    BY <1>5, <1>6, FS_Injection
  <1>8. QED BY <1>6, <1>7

LEMMA FitByInv == Inv => PortsFitInMemory
  <1> SUFFICES ASSUME Inv, pc = "aborted"
               PROVE  Cardinality({i \in Session : origin[i] = None /\ IsAlive(i)})
                        >= SessionCount - Len(Services) * MaxSessions
    BY DEF PortsFitInMemory
  <1> DEFINE ofPorts == {i \in Session : origin[i] \in Server}
             ofObjects == {i \in Session : origin[i] = None /\ IsAlive(i)}
             most == Len(Services) * MaxSessions
  <1>1. IsFiniteSet(ofPorts) /\ Cardinality(ofPorts) <= most
    BY SessionsOfPorts
  <1>2. SessionCount \in Nat /\ most \in Nat
    <2>1. PICK n \in Nat : n = Len(Services)
      BY ServiceAssumption, LenProperties
    <2>2. MaxSessions \in Nat /\ SessionCount \in Nat
      BY CountAssumption
    <2>3. n * MaxSessions \in Nat
      BY <2>2
    <2>4. most = n * MaxSessions
      BY <2>1, Zenon
    <2> HIDE DEF most
    <2>5. QED BY <2>2, <2>3, <2>4, Zenon
  <1>3. IsFiniteSet(Session) /\ Cardinality(Session) = SessionCount
    <2> HIDE DEF most
    <2>1. PICK n \in Nat : n = SessionCount
      BY <1>2, Zenon
    <2>2. IsFiniteSet(1 .. n) /\ Cardinality(1 .. n) = n
      BY FS_Interval
    <2>3. QED BY <2>1, <2>2, Zenon DEF Session
  <1>4. ofObjects = Session \ ofPorts
    <2>1. \A i \in Session : IsAlive(i)
      BY DEF Inv, TypeOK, AbortedFull, NoMemory, IsFree, IsAlive
    <2>2. \A i \in Session : origin[i] = None <=> origin[i] \notin Server
      BY ServiceAssumption DEF Inv, TypeOK
    <2>3. QED BY <2>1, <2>2
  <1>5. Session \cap ofPorts = ofPorts
    OBVIOUS
  <1> HIDE DEF ofPorts, ofObjects, most
  <1>6. Cardinality(ofObjects) = SessionCount - Cardinality(ofPorts)
    BY <1>3, <1>4, <1>5, FS_Difference
  <1>7. Cardinality(ofPorts) \in Nat
    BY <1>1, FS_CardinalityType
  <1>8. Cardinality(ofObjects) >= SessionCount - most
    BY <1>1, <1>2, <1>6, <1>7
  <1>9. QED BY <1>8 DEF ofObjects, most

(* The connections of the ports alone never exhaust session_storages: the  *)
(* process aborts only when sessions opened for objects took the rest, for *)
(* any ports and sizes with room for every port's limit.                   *)
THEOREM AbortNeedsObjects == Spec => []PortsFitInMemory
  BY InvHolds, FitByInv, PTL

=============================================================================
