------------------------- MODULE HipcServerManager -------------------------
(***************************************************************************)
(* The loop of a service thread: ServerManagerBase waits for its ports and *)
(* sessions, accepts a connection or serves one request, and links what it *)
(* took back to its list. capsrv runs two managers, one for caps:c, one    *)
(* for caps:a and caps:u, each on a thread of its own, and never stops     *)
(* them.                                                                   *)
(*                                                                         *)
(* A session is its memory, session_storages[i]. The kernel's share (the   *)
(* clients' ends of ports and sessions, waiting for the first of several   *)
(* objects) is modelled from its use. The handlers of capsrv never defer a *)
(* request, its managers have no domains and no mitm servers, and a kernel *)
(* call that aborts the process when it fails is taken to succeed.         *)
(***************************************************************************)
EXTENDS Integers, Sequences, FiniteSets, SequencesExt, Functions

CONSTANTS
  Services,       \* the ports, in the order in which they are registered
  MaxSessions,    \* the kernel's limit of sessions connected through one port
  SessionCount,   \* the size of session_storages
  None            \* no holder, no request; no port, of a session made for an object

Server == ToSet(Services)

Session == 1 .. SessionCount

(* Requests by what the loop does for them: a command that is answered, one *)
(* that opens another session (OpenAccessorSession, CloneCurrentObject),    *)
(* and a Close command or one that cannot be parsed or dispatched.          *)
Request == {"Call", "Open", "Close"}

ASSUME ServiceAssumption ==
  /\ Services \in Seq(Server) /\ IsInjective(Services)
  /\ \A s \in Server : s \notin Nat
  /\ None \notin Server \cup Nat \cup Request
ASSUME CountAssumption ==
  /\ MaxSessions \in Nat \ {0}
  /\ SessionCount \in Nat
  /\ Len(Services) * MaxSessions <= SessionCount

VARIABLES
  backlog,        \* for each port, the connections to be accepted
  connected,      \* for each port, the sessions the kernel counts
  session,        \* for each memory: "Free", or what the client has done
  origin,         \* for each memory, the port its session came from
  waitable,       \* the list of waitable_manager, its two events aside
  waitlist,       \* what was registered since the list was last moved
  notify,         \* notify_event
  pc,
  selected,       \* the holder taken off the list, while it is processed
  command         \* the request received, while it is processed

vars == << backlog, connected, session, origin, waitable, waitlist, notify,
           pc, selected, command >>

kernel == << backlog, connected >>

IsFree(i) == session[i] = "Free"

HasRequest(i) == session[i] \in Request

IsAlive(i) == session[i] \in Request \cup {"Idle", "Served", "Closed"}

(* What svcWaitSynchronization takes for signalled. *)
Signalled(h) ==
  IF h \in Server THEN backlog[h] > 0 ELSE HasRequest(h) \/ session[h] = "Closed"

Init ==
  /\ backlog = [s \in Server |-> 0]
  /\ connected = [s \in Server |-> 0]
  /\ session = [i \in Session |-> "Free"]
  /\ origin = [i \in Session |-> None]
  /\ waitable = Services
  /\ waitlist = << >>
  /\ notify = FALSE
  /\ pc = "move"
  /\ selected = None
  /\ command = None

-----------------------------------------------------------------------------

(* The clients. *)

Connect(s) ==
  /\ pc # "aborted"
  /\ connected[s] < MaxSessions
  /\ connected' = [connected EXCEPT ![s] = @ + 1]
  /\ backlog' = [backlog EXCEPT ![s] = @ + 1]
  /\ UNCHANGED << session, origin, waitable, waitlist, notify, pc, selected, command >>

SendRequest(i, r) ==
  /\ pc # "aborted"
  /\ session[i] = "Idle"
  /\ session' = [session EXCEPT ![i] = r]
  /\ UNCHANGED << kernel, origin, waitable, waitlist, notify, pc, selected, command >>

(* A client closes its handle, or ends, with a request under way or not. *)
CloseHandle(i) ==
  /\ pc # "aborted"
  /\ session[i] \in Request \cup {"Idle", "Served"}
  /\ session' = [session EXCEPT ![i] = "Closed"]
  /\ UNCHANGED << kernel, origin, waitable, waitlist, notify, pc, selected, command >>

-----------------------------------------------------------------------------

(* Fault: what was registered last is waited for first. *)
MovedFault(list, new) == new \o list

(* MoveAllWaitableHolder splices the new holders in at the end. *)
Moved(list, new) == list \o new

ProcessWaitList ==
  /\ pc = "move"
  /\ waitable' = Moved(waitable, waitlist)
  /\ waitlist' = << >>
  /\ pc' = "wait"
  /\ UNCHANGED << kernel, session, origin, notify, selected, command >>

(* WaitAny looks at the events before it looks at any handle. *)
Notified ==
  /\ pc = "wait"
  /\ notify
  /\ notify' = FALSE
  /\ pc' = "move"
  /\ UNCHANGED << kernel, session, origin, waitable, waitlist, selected, command >>

(* The kernel returns the first handle of the list that is signalled. *)
WaitSignaled ==
  /\ pc = "wait"
  /\ ~ notify
  /\ \E k \in DOMAIN waitable :
       /\ Signalled(waitable[k])
       /\ \A j \in 1 .. k - 1 : ~ Signalled(waitable[j])
       /\ selected' = waitable[k]
       /\ waitable' = RemoveAt(waitable, k)
  /\ pc' = IF selected' \in Server THEN "accept" ELSE "receive"
  /\ UNCHANGED << kernel, session, origin, waitlist, notify, command >>

(* AllocateSession: the first memory that is free. *)
MayAllocate(i) == IsFree(i) /\ \A j \in 1 .. i - 1 : ~ IsFree(j)

NoMemory == \A i \in Session : ~ IsFree(i)

(* RegisterToWaitList, of one or more holders in turn. *)
RegisterToWaitList(holders) ==
  /\ waitlist' = waitlist \o holders
  /\ notify' = TRUE

(* Out of session memory: Process fails, or RegisterSession does. *)
Abort ==
  /\ NoMemory
  /\ pc' = "aborted"
  /\ UNCHANGED << kernel, session, origin, waitlist, notify, selected, command >>

(* Process returns, and the loop begins again. *)
Return ==
  /\ pc' = "move"
  /\ selected' = None
  /\ command' = None

(* Fault: the port is not registered again. *)
AfterAcceptFault(i) == << i >>

(* What ProcessForServer registers: the new session, and the port on exit. *)
AfterAccept(i) == << i, selected >>

ProcessForServer ==
  /\ pc = "accept"
  /\ \/ \E i \in Session :
          /\ MayAllocate(i)
          /\ backlog' = [backlog EXCEPT ![selected] = @ - 1]
          /\ session' = [session EXCEPT ![i] = "Idle"]
          /\ origin' = [origin EXCEPT ![i] = selected]
          /\ RegisterToWaitList(AfterAccept(i))
          /\ Return
          /\ UNCHANGED connected
     \/ Abort
  /\ UNCHANGED waitable

(* Fault: FreeSession is forgotten. *)
ReleasedFault(i) == [session EXCEPT ![i] = "Leaked"]

Released(i) == [session EXCEPT ![i] = "Free"]

(* CloseSessionImpl. With both its ends closed, the kernel's session ends. *)
CloseSessionImpl(i) ==
  /\ session' = Released(i)
  /\ connected' = [s \in Server |-> connected[s] - (IF origin[i] = s THEN 1 ELSE 0)]
  /\ origin' = [origin EXCEPT ![i] = None]
  /\ Return
  /\ UNCHANGED << backlog, waitable, waitlist, notify >>

(* ReceiveRequest of a session whose client is gone. *)
ReceiveClosed ==
  /\ pc = "receive"
  /\ session[selected] = "Closed"
  /\ CloseSessionImpl(selected)

ReceiveRequest ==
  /\ pc = "receive"
  /\ HasRequest(selected)
  /\ command' = session[selected]
  /\ session' = [session EXCEPT ![selected] = "Served"]
  /\ pc' = "process"
  /\ UNCHANGED << kernel, origin, waitable, waitlist, notify, selected >>

(* The reply, which a client that is gone does not take. *)
Replied(f, i) == [f EXCEPT ![i] = IF @ = "Served" THEN "Idle" ELSE @]

ProcessCall ==
  /\ pc = "process" /\ command = "Call"
  /\ session' = Replied(session, selected)
  /\ RegisterToWaitList(<< selected >>)
  /\ Return
  /\ UNCHANGED << kernel, origin, waitable >>

(* A session for the object a command returns is made before the reply. *)
ProcessOpen ==
  /\ pc = "process" /\ command = "Open"
  /\ \/ \E i \in Session :
          /\ MayAllocate(i)
          /\ session' = Replied([session EXCEPT ![i] = "Idle"], selected)
          /\ origin' = [origin EXCEPT ![i] = None]
          /\ RegisterToWaitList(<< i, selected >>)
          /\ Return
          /\ UNCHANGED kernel
     \/ Abort
  /\ UNCHANGED waitable

(* A Close command, and every request that is not processed. *)
ProcessClose ==
  /\ pc = "process" /\ command = "Close"
  /\ CloseSessionImpl(selected)

ProcessForSession ==
  \/ ReceiveClosed \/ ReceiveRequest
  \/ ProcessCall \/ ProcessOpen \/ ProcessClose

LoopProcess ==
  \/ ProcessWaitList \/ Notified \/ WaitSignaled
  \/ ProcessForServer \/ ProcessForSession

Client ==
  \/ \E s \in Server : Connect(s)
  \/ \E i \in Session : CloseHandle(i) \/ \E r \in Request : SendRequest(i, r)

(* The process is gone. *)
Terminated == pc = "aborted" /\ UNCHANGED vars

Next == LoopProcess \/ Client \/ Terminated

Spec == Init /\ [][Next]_vars /\ WF_vars(LoopProcess)

-----------------------------------------------------------------------------

Holder == Server \cup Session

(* Every variable has its type; the loop has its command and its holder    *)
(* when it needs them; the kernel counts the sessions and the backlog of a *)
(* port.                                                                   *)
TypeOK ==
  /\ backlog \in [Server -> 0 .. MaxSessions]
  /\ connected \in [Server -> 0 .. MaxSessions]
  /\ session \in [Session -> Request \cup {"Free", "Idle", "Served", "Closed"}]
  /\ origin \in [Session -> Server \cup {None}]
  /\ waitable \in Seq(Holder)
  /\ waitlist \in Seq(Holder)
  /\ notify \in BOOLEAN
  /\ pc \in {"move", "wait", "accept", "receive", "process", "aborted"}
  /\ selected \in Holder \cup {None}
  /\ command \in Request \cup {None}
  /\ pc = "accept" => selected \in Server
  /\ pc \in {"receive", "process"} => selected \in Session

(* What the loop took off its list and has not put back. *)
InHand == IF pc \in {"accept", "receive", "process"} THEN << selected >> ELSE << >>

Linked == waitable \o waitlist \o InHand

(* Every port and every live session is linked exactly once, or is the one *)
(* that is being processed: none is lost between its requests, none is     *)
(* linked twice, and the memory of a session is given back only when       *)
(* nothing links to it (WaitSignaled unlinks, RegisterToWaitList and       *)
(* ProcessForServer's scope exit link, CloseSessionImpl finalizes).        *)
LinkedOnce ==
  pc # "aborted" =>
    /\ IsInjective(Linked)
    /\ ToSet(Linked) = Server \cup {i \in Session : ~ IsFree(i)}

(* The sessions of the ports alone never use up session_storages: the      *)
(* loop aborts (WaitAndProcessImpl and SetOutObjectImpl) only when the     *)
(* sessions opened for objects fill what is left beside the ports.         *)
PortsFitInMemory ==
  pc = "aborted" =>
    Cardinality({i \in Session : origin[i] = None /\ IsAlive(i)})
      >= SessionCount - Len(Services) * MaxSessions

(* Every request is answered, or its session is closed: other clients that *)
(* keep sending cannot starve it, because the loop waits for the first of  *)
(* its list and puts what it has served at the end.                        *)
RequestIsServed ==
  \A i \in Session : HasRequest(i) ~> ~ HasRequest(i) \/ pc = "aborted"

(* Every port with a connection in its backlog is turned to. *)
ConnectionIsAccepted ==
  \A s \in Server : backlog[s] > 0 ~> (pc = "accept" /\ selected = s) \/ pc = "aborted"

=============================================================================
