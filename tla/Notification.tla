---------------------------- MODULE Notification ----------------------------
(***************************************************************************)
(* Long polls and the map of active clients                                *)
(* (server/src/metadata/notification.rs and the handler poll of mod.rs).   *)
(*                                                                         *)
(* register hands out the Notify of a uuid, creating it if the map has     *)
(* none; notify leaves a permit in every Notify but the committer's; the   *)
(* handler that ends takes the uuid out of the map, whoever put it there.  *)
(* A Notify is known by a number, its handle; it outlives its map entry    *)
(* for as long as a handler holds it.  A handler can be dropped while it   *)
(* waits (its client hung up): then nothing takes the entry out.           *)
(*                                                                         *)
(* Polls are numbered in the order they arrive.                            *)
(***************************************************************************)
EXTENDS Naturals

CONSTANTS Clients,   \* uuids
          MaxPolls   \* bound on the number of polls

ASSUME NotificationAssumption == MaxPolls \in Nat

Polls == 1 .. MaxPolls
NoHandle == 0

VARIABLES clients,  \* uuid -> handle in the map, NoHandle if there is no entry
          permit,   \* handles that hold a permit
          poll,     \* the poll handlers
          displaced \* history: polls whose map entry another poll of their uuid took out

notificationVars == <<clients, permit, poll, displaced>>

\* waiting: notified() is pending; ended: woken or timed out, the entry not
\* yet removed; live: the client still waits for the response.
PollState == {"unborn", "waiting", "ended", "gone"}

NotificationTypeOK ==
  /\ clients \in [Clients -> 0 .. MaxPolls]
  /\ permit \subseteq Polls
  /\ poll \in [Polls -> [state : PollState, live : BOOLEAN,
                         uuid : Clients, handle : 0 .. MaxPolls]]
  /\ displaced \subseteq Polls

NotificationInit ==
  /\ clients = [u \in Clients |-> NoHandle]
  /\ permit = {}
  /\ poll = [k \in Polls |-> [state |-> "unborn", live |-> FALSE,
                              uuid |-> CHOOSE u \in Clients : TRUE, handle |-> NoHandle]]
  /\ displaced = {}

Waiting(k) == poll[k].state = "waiting"

\* The poll loop of a client is sequential: it has one poll at a time.
PollingClient(u) == \E k \in Polls : poll[k].uuid = u /\ poll[k].live

\* Another poll of the client of j that is about to be answered, or was after
\* j registered: its client had given up on it, and the server had not noticed.
Overtaken(j) ==
  \/ j \in displaced
  \/ \E k \in Polls \ {j} : poll[k].uuid = poll[j].uuid /\ poll[k].state = "ended"

----------------------------------------------------------------------------

\* poll up to its await: register.  A new Notify takes the poll's number.
PollStart(u) ==
  \E k \in Polls :
    /\ poll[k].state = "unborn"
    /\ \A j \in Polls : j < k => poll[j].state # "unborn"
    /\ ~ PollingClient(u)
    /\ LET handle == IF clients[u] = NoHandle THEN k ELSE clients[u]
       IN  /\ clients' = [clients EXCEPT ![u] = handle]
           /\ poll' = [poll EXCEPT ![k] = [state |-> "waiting", live |-> TRUE,
                                           uuid |-> u, handle |-> handle]]
    /\ UNCHANGED <<permit, displaced>>

\* notified() returns: one waiter takes the permit.
PollWoken(k) ==
  /\ Waiting(k)
  /\ poll[k].handle \in permit
  /\ permit' = permit \ {poll[k].handle}
  /\ poll' = [poll EXCEPT ![k].state = "ended"]
  /\ UNCHANGED <<clients, displaced>>

\* The server-side timeout, or the shutdown token.
PollTimesOut(k) ==
  /\ Waiting(k)
  /\ poll' = [poll EXCEPT ![k].state = "ended"]
  /\ UNCHANGED <<clients, permit, displaced>>

\* remove(&query.uuid), and the response.
PollReturn(k) ==
  /\ poll[k].state = "ended"
  /\ clients' = [clients EXCEPT ![poll[k].uuid] = NoHandle]
  /\ poll' = [poll EXCEPT ![k].state = "gone", ![k].live = FALSE]
  /\ displaced' = displaced \cup {j \in Polls \ {k} : Waiting(j) /\ poll[j].uuid = poll[k].uuid}
  /\ UNCHANGED permit

\* The client gives up: its timeout (60 s) is shorter than the poll it asks
\* for (70 s).
ClientHangsUp(k) ==
  /\ poll[k].live
  /\ poll' = [poll EXCEPT ![k].live = FALSE]
  /\ UNCHANGED <<clients, permit, displaced>>

\* The server notices, and drops the handler at its await.
PollDropped(k) ==
  /\ Waiting(k) /\ ~ poll[k].live
  /\ poll' = [poll EXCEPT ![k].state = "gone"]
  /\ UNCHANGED <<clients, permit, displaced>>

\* Mutants: the test on the uuid inverted; clients with no entry notified too.
NotifyCommitter(u) ==
  /\ permit' = permit \cup ({clients[u]} \ {NoHandle})
  /\ UNCHANGED <<clients, poll, displaced>>

NotifyAbsent(u) ==
  /\ permit' = permit \cup {clients[v] : v \in Clients \ {u}}
  /\ UNCHANGED <<clients, poll, displaced>>

\* notify(uuid), called by commit
Notify(u) ==
  /\ permit' = permit \cup ({clients[v] : v \in Clients \ {u}} \ {NoHandle})
  /\ UNCHANGED <<clients, poll, displaced>>

PollNext ==
  \/ \E u \in Clients : PollStart(u)
  \/ \E k \in Polls : \/ PollWoken(k) \/ PollTimesOut(k) \/ PollReturn(k)
                      \/ ClientHangsUp(k) \/ PollDropped(k)
=============================================================================
