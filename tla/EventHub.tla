------------------------------ MODULE EventHub ------------------------------
(***************************************************************************)
(* The WebSocket hub: connections that come, subscribe, break and go, and  *)
(* publications, which are coroutines on the server's event loop.  A       *)
(* publication goes through the dict of clients in the order in which they *)
(* came and awaits one send after another; during an await everything else *)
(* may run.                                                                *)
(*                                                                         *)
(* Abstracted: a client's key, id(websocket), is its place, as if no id    *)
(* came twice; events are of one channel and one project (Here); what an   *)
(* event says, its sequence number included, does not matter, since a      *)
(* dashboard that hears one reads the state again.  The answers to         *)
(* messages, pings among them, are left out.                               *)
(***************************************************************************)
EXTENDS Integers, FiniteSets

CONSTANTS
  Clients,      \* dashboards, each with one connection at a time
  Projects,     \* project ids that dashboards subscribe to
  Here,         \* the project of the events
  Messages,     \* what dashboards send to the hub
  MaxArrivals,  \* bound: connections made
  MaxPubs       \* bound: publications that await a send at the same time

Message == [action : {"subscribe", "unsubscribe"}, channel : BOOLEAN, projects : SUBSET Projects]

ASSUME HubAssumption ==
  /\ Here \in Projects /\ Messages \subseteq Message
  /\ MaxArrivals \in Nat /\ MaxPubs \in Nat /\ IsFiniteSet(Clients)

VARIABLES
  conn,       \* of every dashboard, its connection
  arrivals,   \* connections made so far
  scheduled,  \* publications handed to the event loop and not begun
  pubs        \* publications that await a send

hub == <<conn, arrivals, scheduled, pubs>>

\* A connection: open, not broken, in _clients, its place in the order of that
\* dict, and what it is subscribed to.  heard: an event came
\* that the dashboard has not acted on.  History: current, the dashboard shows
\* the stored state; missed, events may have passed it by since it read that.
Conn == [open : BOOLEAN, up : BOOLEAN, known : BOOLEAN, at : 0..MaxArrivals,
         channel : BOOLEAN, projects : SUBSET Projects,
         heard : BOOLEAN, current : BOOLEAN, missed : BOOLEAN]

NoConn == [open |-> FALSE, up |-> FALSE, known |-> FALSE, at |-> 0,
           channel |-> FALSE, projects |-> {},
           heard |-> FALSE, current |-> FALSE, missed |-> TRUE]

\* A publication awaits the send to a client, which was at this place;
\* size is that of the dict when the loop over it began, seen the entries it has
\* come through, stale the places of clients to which a send failed; no tells publications apart.
Pub == [no : 1..MaxPubs, to : Clients, at : 1..MaxArrivals,
        seen : Nat, size : Nat, stale : SUBSET (1..MaxArrivals)]

HubInit ==
  /\ conn = [c \in Clients |-> NoConn]
  /\ arrivals = 0 /\ scheduled = 0 /\ pubs = {}

\* publish's filter: the channel, and no project or this one.
Wants(k) == k.channel /\ (k.projects = {} \/ Here \in k.projects)

Entries(cs) == {c \in Clients : cs[c].known}

\* run_coroutine_threadsafe: the event loop will run the publication.
Emit == scheduled' = scheduled + 1 /\ UNCHANGED <<conn, arrivals, pubs>>

-----------------------------------------------------------------------------
(* Connections.                                                            *)

Connect(c) ==
  /\ ~conn[c].open /\ arrivals < MaxArrivals
  /\ arrivals' = arrivals + 1
  /\ conn' = [conn EXCEPT ![c] = [NoConn EXCEPT !.open = TRUE, !.up = TRUE, !.known = TRUE,
                                                !.at = arrivals + 1]]
  /\ UNCHANGED <<scheduled, pubs>>

\* A message of the dashboard.  History: what it does not want passes it by.
Receive(c, m) ==
  /\ conn[c].open /\ conn[c].up
  /\ LET k == IF m.action = "subscribe"
                THEN [conn[c] EXCEPT !.channel = @ \/ m.channel, !.projects = @ \cup m.projects]
                ELSE [conn[c] EXCEPT !.channel = @ /\ ~m.channel, !.projects = @ \ m.projects]
     IN  /\ k # conn[c]
         /\ conn' = [conn EXCEPT ![c] = [k EXCEPT !.missed = @ \/ ~Wants(k) \/ ~Wants(conn[c])]]
  /\ UNCHANGED <<arrivals, scheduled, pubs>>

\* The network fails; nobody has noticed yet.  History: what the dashboard shows
\* no longer matters.
Break(c) ==
  /\ conn[c].open /\ conn[c].up
  /\ conn' = [conn EXCEPT ![c] = [@ EXCEPT !.up = FALSE, !.heard = FALSE,
                                            !.current = FALSE, !.missed = TRUE]]
  /\ UNCHANGED <<arrivals, scheduled, pubs>>

\* The handler of the connection ends, for whatever reason.
Leave(c) ==
  /\ conn[c].open
  /\ conn' = [conn EXCEPT ![c] = NoConn]
  /\ UNCHANGED <<arrivals, scheduled, pubs>>

-----------------------------------------------------------------------------
(* Publications: from one await to the next.                               *)

\* The entries of the dict after the place a publication p has come to, and the
\* clients among them that it is for.
After(p, cs) == {c \in Entries(cs) : cs[c].at > p.at}
Ahead(p, cs) == {c \in After(p, cs) : Wants(cs[c])}

\* The entries the loop goes through up to the next client, or to its end.
Passed(p, cs) == {d \in After(p, cs) : \A c \in Ahead(p, cs) : cs[d].at <= cs[c].at}

\* The loop may not go on: the dict has another size than when it began, or
\* yields more entries than it had then.
Changed(p, cs) ==
  p.size # Cardinality(Entries(cs)) \/ p.seen + Cardinality(Passed(p, cs)) > p.size

\* RuntimeError: nobody catches it, and no stale client is taken out.
CutShort(p, others, cs) ==
  /\ Changed(p, cs)
  /\ pubs' = others
  /\ conn' = [c \in Clients |-> [cs[c] EXCEPT !.missed = @ \/ c \in Ahead(p, cs)]]

NextSend(p, others, cs) ==
  /\ ~Changed(p, cs)
  /\ \E c \in Ahead(p, cs) \cap Passed(p, cs) :
       pubs' = others \cup {[p EXCEPT !.to = c, !.at = cs[c].at, !.seen = @ + Cardinality(Passed(p, cs))]}
  /\ conn' = cs

\* The clients whose send failed are taken out.
Finish(p, others, cs) ==
  /\ ~Changed(p, cs) /\ Ahead(p, cs) = {}
  /\ pubs' = others
  /\ conn' = [c \in Clients |-> [cs[c] EXCEPT !.known = @ /\ cs[c].at \notin p.stale]]

\* Mutant of Visit: the publication ends with the first client it reaches.
VisitOnce(p, others, cs) ==
  \/ p.at = 0 /\ NextSend(p, others, cs)
  \/ (p.at > 0 \/ Ahead(p, cs) = {}) /\ pubs' = others /\ conn' = cs

Visit(p, others, cs) == NextSend(p, others, cs) \/ Finish(p, others, cs)

GoOn(p, others, cs) == CutShort(p, others, cs) \/ Visit(p, others, cs)

FreeNo == CHOOSE n \in 1..MaxPubs : \A p \in pubs : p.no # n

Begin ==
  /\ scheduled > 0 /\ Cardinality(pubs) < MaxPubs
  /\ scheduled' = scheduled - 1
  /\ Visit([no |-> FreeNo, to |-> CHOOSE c \in Clients : TRUE, at |-> 0, seen |-> 0,
           size |-> Cardinality(Entries(conn)), stale |-> {}], pubs, conn)
  /\ UNCHANGED arrivals

\* It is still the connection that the publication found.
Reaches(p) == conn[p.to].open /\ conn[p.to].up /\ conn[p.to].at = p.at

SendOk(p) ==
  /\ Reaches(p)
  /\ GoOn(p, pubs \ {p}, [conn EXCEPT ![p.to].heard = TRUE])
  /\ UNCHANGED <<arrivals, scheduled>>

\* A send to a broken connection raises, or goes nowhere.
SendLost(p) ==
  /\ ~Reaches(p)
  /\ \E s \in {p.stale, p.stale \cup {p.at}} : GoOn([p EXCEPT !.stale = s], pubs \ {p}, conn)
  /\ UNCHANGED <<arrivals, scheduled>>

-----------------------------------------------------------------------------
PublishStep == Begin \/ \E p \in pubs : SendOk(p) \/ SendLost(p)

ConnStep(c, messages) ==
  Connect(c) \/ Break(c) \/ Leave(c) \/ \E m \in messages : Receive(c, m)

(* Properties.                                                             *)

\* Types.
HubOK ==
  /\ conn \in [Clients -> Conn] /\ pubs \subseteq Pub
  /\ arrivals \in 0..MaxArrivals /\ scheduled \in Nat

\* ws.py:111-116: whose send failed is taken out.  That hits no connection that
\* works, though others may come and go between the failure and the removal.
ConnectedIsKnown == \A c \in Clients : conn[c].open /\ conn[c].up => conn[c].known

\* A dashboard has been connected and subscribed ever since it read the state.
Follows(c) == conn[c].open /\ conn[c].up /\ Wants(conn[c]) /\ ~conn[c].missed

\* It has heard an event, or one is on its way through the hub: not begun, or
\* at a place of the dict that is not past its own.
Coming(c) ==
  \/ conn[c].heard \/ scheduled > 0
  \/ \E p \in pubs : p.at < conn[c].at \/ (p.to = c /\ p.at = conn[c].at)

\* What makes these inductive: no two connections have had the same place, and
\* what a publication holds to be stale is broken or gone.
PlaceInv ==
  /\ \A c \in Clients : conn[c].open => conn[c].at \in 1..arrivals
  /\ \A c \in Clients : conn[c].known => conn[c].open
  /\ \A c, d \in Clients : conn[c].open /\ conn[d].open /\ conn[c].at = conn[d].at => c = d
  /\ \A p \in pubs : p.at \in 1..arrivals /\ p.stale \subseteq 1..arrivals
  /\ \A p \in pubs, c \in Clients : conn[c].open /\ conn[c].at = p.at => c = p.to
  /\ \A p \in pubs, c \in Clients : conn[c].open /\ conn[c].at \in p.stale => ~conn[c].up
  /\ ConnectedIsKnown
=============================================================================
