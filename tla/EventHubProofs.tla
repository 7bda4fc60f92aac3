--------------------------- MODULE EventHubProofs ---------------------------
(***************************************************************************)
(* The hub for any number of dashboards, connections and publications:     *)
(* what a publication does to the dict of clients, and that no event is    *)
(* lost on its way to a dashboard that follows.  The hub is an open        *)
(* system: QuickActions drives it, and QuickActionsProofs puts these       *)
(* lemmas about its steps together.                                        *)
(***************************************************************************)
EXTENDS EventHub, FiniteSetTheorems, TLAPS

HubTypes == HubOK /\ IsFiniteSet(pubs)

\* A publication before its first send, or under way.
Draft == [no : 1..MaxPubs, to : Clients \cup {CHOOSE c \in Clients : TRUE}, at : 0..MaxArrivals,
          seen : Nat, size : Nat, stale : SUBSET (1..MaxArrivals)]

\* A connection after a publication has gone on: only whether it is in the dict, and
\* whether events have passed it by, may have changed.
SameConn(k, k1) ==
  /\ k1.open = k.open /\ k1.up = k.up /\ k1.at = k.at
  /\ k1.channel = k.channel /\ k1.projects = k.projects
  /\ k1.heard = k.heard /\ k1.current = k.current
  /\ k.missed => k1.missed
  /\ k1.known => k.known

\* A publication p has moved to the next client, c, that it is for.
MovedTo(p, q, c, cs) ==
  /\ c \in Ahead(p, cs)
  /\ q \in Pub /\ q.to = c /\ q.at = cs[c].at /\ q.stale = p.stale
  /\ \A d \in Ahead(p, cs) : q.at <= cs[d].at

-----------------------------------------------------------------------------
(* What a publication does until its next await.                           *)

\* The entries of the dict are finitely many.
LEMMA PassedCount ==
  ASSUME NEW p, NEW cs
  PROVE  Cardinality(Passed(p, cs)) \in Nat /\ Cardinality(Entries(cs)) \in Nat
<1>1. Passed(p, cs) \in SUBSET Clients /\ Entries(cs) \in SUBSET Clients
  BY DEF Passed, After, Entries
<1>2. IsFiniteSet(Passed(p, cs)) /\ IsFiniteSet(Entries(cs))
  BY <1>1, FS_Subset, HubAssumption
<1> QED
  BY <1>2, FS_CardinalityType

\* Going on leaves connections as they are, but for the history and for the stale
\* ones; the publication ends, or moves to the nearest client ahead; and if it ends
\* with clients ahead of it, they have missed an event.
LEMMA GoOnEffect ==
  ASSUME NEW p \in Draft, NEW others, NEW cs \in [Clients -> Conn], GoOn(p, others, cs),
         \A c \in Clients : cs[c].known => cs[c].at >= 1
  PROVE  /\ conn' \in [Clients -> Conn]
         /\ \A c \in Clients : /\ SameConn(cs[c], conn'[c])
                               /\ cs[c].known /\ ~conn'[c].known => cs[c].at \in p.stale
         /\ \/ pubs' = others /\ \A c \in Ahead(p, cs) : conn'[c].missed
            \/ \E c \in Clients, q \in Pub : MovedTo(p, q, c, cs) /\ pubs' = others \cup {q}
<1>1. CASE CutShort(p, others, cs)
  <2>1. conn' = [c \in Clients |-> [cs[c] EXCEPT !.missed = @ \/ c \in Ahead(p, cs)]] /\ pubs' = others
    BY <1>1 DEF CutShort
  <2>2. ASSUME NEW c \in Clients
        PROVE  /\ conn'[c] \in Conn /\ SameConn(cs[c], conn'[c]) /\ conn'[c].known = cs[c].known
               /\ c \in Ahead(p, cs) => conn'[c].missed
    <3>1. cs[c] \in Conn /\ conn'[c] = [cs[c] EXCEPT !.missed = @ \/ c \in Ahead(p, cs)]
      BY <2>1
    <3> DEFINE b == cs[c].missed \/ c \in Ahead(p, cs)
    <3>2. b \in BOOLEAN
      OBVIOUS
    <3>3. conn'[c] = [cs[c] EXCEPT !.missed = b]
      BY <3>1
    <3>4. cs[c].missed => b
      OBVIOUS
    <3>5. c \in Ahead(p, cs) => b
      OBVIOUS
    <3> HIDE DEF b
    <3>6. conn'[c] \in Conn /\ conn'[c].missed = b
      BY <3>1, <3>2, <3>3 DEF Conn
    <3>7. SameConn(cs[c], conn'[c]) /\ conn'[c].known = cs[c].known
      BY <3>1, <3>3, <3>4, <3>6 DEF Conn, SameConn
    <3> QED
      BY <3>5, <3>6, <3>7
  <2>3. conn' \in [Clients -> Conn]
    BY <2>1, <2>2
  <2>4. Ahead(p, cs) \subseteq Clients
    BY DEF Ahead, After, Entries
  <2> QED
    BY <2>1, <2>2, <2>3, <2>4
<1>2. CASE NextSend(p, others, cs)
  <2>1. PICK c \in Ahead(p, cs) \cap Passed(p, cs) :
          pubs' = others \cup {[p EXCEPT !.to = c, !.at = cs[c].at, !.seen = @ + Cardinality(Passed(p, cs))]}
    BY <1>2 DEF NextSend
  <2> DEFINE q == [p EXCEPT !.to = c, !.at = cs[c].at, !.seen = @ + Cardinality(Passed(p, cs))]
  <2>2. c \in Clients /\ cs[c].known /\ cs[c] \in Conn
    BY <2>1 DEF Ahead, After, Entries
  <2>3. cs[c].at \in 1..MaxArrivals
    BY <2>2, HubAssumption DEF Conn
  <2>4. q \in Pub /\ q.to = c /\ q.at = cs[c].at /\ q.stale = p.stale
    <3>1. p.seen + Cardinality(Passed(p, cs)) \in Nat
      BY PassedCount DEF Draft
    <3> QED
      BY <2>2, <2>3, <3>1 DEF Draft, Pub
  <2>5. \A d \in Ahead(p, cs) : cs[c].at <= cs[d].at
    BY <2>1 DEF Passed
  <2>6. pubs' = others \cup {q}
    BY <2>1
  <2> HIDE DEF q
  <2>7. MovedTo(p, q, c, cs)
    BY <2>1, <2>4, <2>5 DEF MovedTo
  <2>8. conn' = cs
    BY <1>2 DEF NextSend
  <2>9. \A d \in Clients : SameConn(cs[d], conn'[d])
    BY <2>8 DEF SameConn
  <2> QED
    BY <2>2, <2>4, <2>6, <2>7, <2>8, <2>9
<1>3. CASE Finish(p, others, cs)
  <2>1. /\ conn' = [c \in Clients |-> [cs[c] EXCEPT !.known = @ /\ cs[c].at \notin p.stale]]
        /\ pubs' = others /\ Ahead(p, cs) = {}
    BY <1>3 DEF Finish
  <2>2. ASSUME NEW c \in Clients
        PROVE  /\ conn'[c] \in Conn /\ SameConn(cs[c], conn'[c])
               /\ cs[c].known /\ ~conn'[c].known => cs[c].at \in p.stale
    <3>1. cs[c] \in Conn /\ conn'[c] = [cs[c] EXCEPT !.known = @ /\ cs[c].at \notin p.stale]
      BY <2>1
    <3> DEFINE b == cs[c].known /\ cs[c].at \notin p.stale
    <3>2. b \in BOOLEAN
      OBVIOUS
    <3>3. conn'[c] = [cs[c] EXCEPT !.known = b]
      BY <3>1
    <3>4. b => cs[c].known
      OBVIOUS
    <3>5. cs[c].known /\ ~b => cs[c].at \in p.stale
      OBVIOUS
    <3> HIDE DEF b
    <3>6. conn'[c] \in Conn /\ conn'[c].known = b
      BY <3>1, <3>2, <3>3 DEF Conn
    <3>7. SameConn(cs[c], conn'[c])
      BY <3>1, <3>3, <3>4, <3>6 DEF Conn, SameConn
    <3> QED
      BY <3>5, <3>6, <3>7
  <2>3. conn' \in [Clients -> Conn]
    BY <2>1, <2>2
  <2> QED
    BY <2>1, <2>2, <2>3
<1> QED
  BY <1>1, <1>2, <1>3 DEF GoOn, Visit

\* As long as fewer than MaxPubs publications await a send, a number is free.
LEMMA FreeNumber ==
  ASSUME HubTypes, Cardinality(pubs) < MaxPubs
  PROVE  FreeNo \in 1..MaxPubs
<1> DEFINE number == [p \in pubs |-> p.no]
           Used == {p.no : p \in pubs}
<1>1. number \in Surjection(pubs, Used)
  BY DEF Surjection
<1>2. IsFiniteSet(Used) /\ Cardinality(Used) <= Cardinality(pubs)
  BY <1>1, FS_Surjection DEF HubTypes
<1>3. MaxPubs \in Nat /\ Cardinality(pubs) \in Nat
  BY HubAssumption, FS_CardinalityType DEF HubTypes
<1>4. Cardinality(1..MaxPubs) = MaxPubs
  BY <1>3, FS_Interval
<1>5. Cardinality(Used) \in Nat
  BY <1>2, FS_CardinalityType
<1>6. ~(1..MaxPubs \subseteq Used)
  <2>1. 1..MaxPubs \in SUBSET Used => Cardinality(1..MaxPubs) <= Cardinality(Used)
    BY <1>2, FS_Subset
  <2> QED
    BY <1>2, <1>3, <1>4, <1>5, <2>1
<1>7. \E n \in 1..MaxPubs : \A p \in pubs : p.no # n
  BY <1>6
<1> QED
  BY <1>7 DEF FreeNo

-----------------------------------------------------------------------------
(* A publication's step: a publication p goes on among the others, over a  *)
(* dict cs that the step has brought up to date.                           *)

Goes(p, others, cs) ==
  /\ p \in Draft /\ others \subseteq pubs /\ cs \in [Clients -> Conn]
  /\ GoOn(p, others, cs)
  /\ \A c \in Clients :
       /\ SameConn([conn[c] EXCEPT !.heard = cs[c].heard], cs[c]) /\ cs[c].known = conn[c].known
       /\ cs[c].missed = conn[c].missed
  /\ p.stale \subseteq 1..arrivals
  /\ \A c \in Clients : conn[c].open /\ conn[c].at \in p.stale => ~conn[c].up
  /\ arrivals' = arrivals /\ scheduled' \in Nat
  /\ \A c \in Clients : Follows(c) /\ Coming(c) =>
       \/ cs[c].heard \/ scheduled' > 0 \/ p.at < conn[c].at
       \/ \E q \in others : q.at < conn[c].at \/ (q.to = c /\ q.at = conn[c].at)

\* A connection is the same as itself.
LEMMA SameDict ==
  ASSUME NEW k \in Conn
  PROVE  SameConn([k EXCEPT !.heard = k.heard], k)
BY DEF SameConn, Conn

\* A publication that awaits a send is a draft.
LEMMA PubIsDraft == Pub \subseteq Draft
<1>1. 1..MaxArrivals \subseteq 0..MaxArrivals
  BY HubAssumption
<1> QED
  BY <1>1 DEF Pub, Draft

\* Each step of a publication has this form, whether it begins, has reached a
\* client, or has not.
LEMMA PublishGoes ==
  ASSUME HubTypes, PlaceInv, PublishStep
  PROVE  \E p, others, cs : Goes(p, others, cs)
<1>0. conn \in [Clients -> Conn] /\ arrivals \in 0..MaxArrivals /\ scheduled \in Nat /\ pubs \subseteq Pub
  BY DEF HubTypes, HubOK
<1>1. \A c \in Clients : SameConn([conn[c] EXCEPT !.heard = conn[c].heard], conn[c])
  BY <1>0, SameDict
<1>2. CASE Begin
  <2> DEFINE p == [no |-> FreeNo, to |-> CHOOSE c \in Clients : TRUE, at |-> 0, seen |-> 0,
                   size |-> Cardinality(Entries(conn)), stale |-> {}]
  <2>1. p \in Draft
    <3>1. FreeNo \in 1..MaxPubs
      BY <1>2, FreeNumber DEF Begin
    <3>2. Cardinality(Entries(conn)) \in Nat
      BY PassedCount
    <3>3. 0 \in 0..MaxArrivals
      BY HubAssumption
    <3> QED
      BY <3>1, <3>2, <3>3 DEF Draft
  <2>2. p.stale = {} /\ p.at = 0
    OBVIOUS
  <2>3. Visit(p, pubs, conn) /\ scheduled' = scheduled - 1 /\ scheduled > 0 /\ arrivals' = arrivals
    BY <1>2 DEF Begin
  <2> HIDE DEF p
  <2>4. GoOn(p, pubs, conn)
    BY <2>3 DEF GoOn
  <2>5. \A c \in Clients : Follows(c) => p.at < conn[c].at
    BY <1>0, <2>2 DEF Follows, PlaceInv
  <2>6. scheduled' \in Nat
    BY <1>0, <2>3
  <2>7. p.stale \subseteq 1..arrivals /\ \A c \in Clients : conn[c].at \notin p.stale
    BY <2>2
  <2>8. Goes(p, pubs, conn)
    BY <1>0, <1>1, <2>1, <2>3, <2>4, <2>5, <2>6, <2>7 DEF Goes
  <2> QED
    BY <2>8
<1>3. ASSUME NEW p \in pubs, SendOk(p) PROVE \E q, others, cs : Goes(q, others, cs)
  <2> DEFINE cs == [conn EXCEPT ![p.to].heard = TRUE]
             others == pubs \ {p}
  <2>1. p \in Pub /\ p \in Draft /\ p.to \in Clients
    BY <1>0, PubIsDraft DEF Pub
  <2>2. /\ Reaches(p) /\ GoOn(p, others, cs) /\ arrivals' = arrivals /\ scheduled' = scheduled
    BY <1>3 DEF SendOk
  <2>3. [conn[p.to] EXCEPT !.heard = TRUE] \in Conn
    <3>1. \A k \in Conn : [k EXCEPT !.heard = TRUE] \in Conn
      BY DEF Conn
    <3>2. conn[p.to] \in Conn
      BY <1>0, <2>1
    <3> QED
      BY <3>1, <3>2
  <2>4. /\ cs \in [Clients -> Conn] /\ cs[p.to] = [conn[p.to] EXCEPT !.heard = TRUE]
        /\ \A c \in Clients : c # p.to => cs[c] = conn[c]
    BY <1>0, <2>1, <2>3
  <2>5. /\ cs[p.to].heard /\ cs[p.to].known = conn[p.to].known
        /\ cs[p.to].missed = conn[p.to].missed
    BY <1>0, <2>1, <2>4 DEF Conn
  <2>6. SameConn([conn[p.to] EXCEPT !.heard = cs[p.to].heard], cs[p.to])
    <3>1. cs[p.to] \in Conn /\ conn[p.to] \in Conn
      BY <1>0, <2>1, <2>4
    <3>2. /\ cs[p.to].open = conn[p.to].open /\ cs[p.to].up = conn[p.to].up /\ cs[p.to].at = conn[p.to].at
          /\ cs[p.to].channel = conn[p.to].channel /\ cs[p.to].projects = conn[p.to].projects
          /\ cs[p.to].current = conn[p.to].current
      BY <2>4, <3>1 DEF Conn
    <3> HIDE DEF cs
    <3> QED
      BY <2>5, <3>1, <3>2 DEF SameConn, Conn
  <2> HIDE DEF cs
  <2>7. \A c \in Clients : /\ SameConn([conn[c] EXCEPT !.heard = cs[c].heard], cs[c])
                           /\ cs[c].known = conn[c].known /\ cs[c].missed = conn[c].missed
    BY <1>1, <2>4, <2>5, <2>6
  <2>8. p.stale \subseteq 1..arrivals /\ \A c \in Clients : conn[c].open /\ conn[c].at \in p.stale => ~conn[c].up
    BY DEF PlaceInv
  <2>9. ASSUME NEW c \in Clients, Follows(c), Coming(c)
        PROVE  \/ cs[c].heard \/ scheduled' > 0 \/ p.at < conn[c].at
               \/ \E q \in others : q.at < conn[c].at \/ (q.to = c /\ q.at = conn[c].at)
    <3>1. CASE conn[c].heard \/ scheduled > 0
      BY <2>2, <2>4, <2>5, <3>1
    <3>2. CASE \E q \in pubs : q.at < conn[c].at \/ (q.to = c /\ q.at = conn[c].at)
      <4>1. PICK q \in pubs : q.at < conn[c].at \/ (q.to = c /\ q.at = conn[c].at)
        BY <3>2
      <4>2. CASE q = p
        BY <2>5, <4>1, <4>2
      <4>3. CASE q # p
        BY <4>1, <4>3
      <4> QED
        BY <4>2, <4>3
    <3> QED
      BY <2>9, <3>1, <3>2 DEF Coming
  <2>10. others \subseteq pubs
    OBVIOUS
  <2> HIDE DEF others
  <2>11. Goes(p, others, cs)
    BY <1>0, <2>1, <2>2, <2>4, <2>7, <2>8, <2>9, <2>10 DEF Goes
  <2> QED
    BY <2>11
<1>4. ASSUME NEW p \in pubs, SendLost(p) PROVE \E q, others, cs : Goes(q, others, cs)
  <2> DEFINE others == pubs \ {p}
  <2>1. p \in Pub /\ p \in Draft /\ p.at \in 1..MaxArrivals
    BY <1>0, PubIsDraft DEF Pub
  <2>2. PICK s \in {p.stale, p.stale \cup {p.at}} : GoOn([p EXCEPT !.stale = s], others, conn)
    BY <1>4 DEF SendLost
  <2> DEFINE q == [p EXCEPT !.stale = s]
  <2>3. ~Reaches(p) /\ arrivals' = arrivals /\ scheduled' = scheduled
    BY <1>4 DEF SendLost
  <2>4. q \in Draft /\ q.at = p.at /\ q.stale = s
    <3>1. s \subseteq 1..MaxArrivals
      BY <2>1, <2>2 DEF Pub
    <3> QED
      BY <2>1, <3>1 DEF Draft
  <2>5. GoOn(q, others, conn)
    BY <2>2
  <2> HIDE DEF q
  <2>6. s \subseteq 1..arrivals
    BY <2>2 DEF PlaceInv
  <2>7. ASSUME NEW c \in Clients, conn[c].open, conn[c].at \in s PROVE ~conn[c].up
    <3>1. CASE conn[c].at \in p.stale
      BY <2>7, <3>1 DEF PlaceInv
    <3>2. CASE conn[c].at = p.at
      <4>1. c = p.to
        BY <2>7, <3>2 DEF PlaceInv
      <4> QED
        BY <2>3, <2>7, <3>2, <4>1 DEF Reaches
    <3> QED
      BY <2>2, <2>7, <3>1, <3>2
  <2>8. ASSUME NEW c \in Clients, Follows(c), Coming(c)
        PROVE  \/ conn[c].heard \/ scheduled' > 0 \/ q.at < conn[c].at
               \/ \E r \in others : r.at < conn[c].at \/ (r.to = c /\ r.at = conn[c].at)
    <3>1. ~(p.to = c /\ p.at = conn[c].at)
      BY <2>3, <2>8 DEF Reaches, Follows
    <3>2. CASE \E r \in pubs : r.at < conn[c].at \/ (r.to = c /\ r.at = conn[c].at)
      <4>1. PICK r \in pubs : r.at < conn[c].at \/ (r.to = c /\ r.at = conn[c].at)
        BY <3>2
      <4>2. CASE r = p
        BY <2>4, <3>1, <4>1, <4>2
      <4>3. CASE r # p
        BY <4>1, <4>3
      <4> QED
        BY <4>2, <4>3
    <3> QED
      BY <2>3, <2>8, <3>2 DEF Coming
  <2>9. others \subseteq pubs
    OBVIOUS
  <2> HIDE DEF others
  <2>10. Goes(q, others, conn)
    BY <1>0, <1>1, <2>3, <2>4, <2>5, <2>6, <2>7, <2>8, <2>9 DEF Goes
  <2> QED
    BY <2>10
<1> QED
  BY <1>2, <1>3, <1>4 DEF PublishStep

\* What a publication's step does, connection by connection and to the publications.
LEMMA PublishEffect ==
  ASSUME HubTypes, PlaceInv, PublishStep
  PROVE  /\ HubTypes' /\ arrivals' = arrivals
         /\ \A c \in Clients :
              /\ conn'[c].open = conn[c].open /\ conn'[c].up = conn[c].up /\ conn'[c].at = conn[c].at
              /\ conn'[c].channel = conn[c].channel /\ conn'[c].projects = conn[c].projects
              /\ conn'[c].current = conn[c].current
              /\ Follows(c)' => Follows(c)
              /\ Follows(c)' /\ Coming(c) => Coming(c)'
         /\ PlaceInv'
<1>0. conn \in [Clients -> Conn] /\ arrivals \in 0..MaxArrivals /\ scheduled \in Nat
      /\ pubs \subseteq Pub /\ IsFiniteSet(pubs)
  BY DEF HubTypes, HubOK
<1>1. PICK p, others, cs : Goes(p, others, cs)
  BY PublishGoes
<1>2. /\ p \in Draft /\ others \subseteq pubs /\ cs \in [Clients -> Conn] /\ GoOn(p, others, cs)
      /\ arrivals' = arrivals /\ scheduled' \in Nat
      /\ p.stale \subseteq 1..arrivals
      /\ \A c \in Clients : conn[c].open /\ conn[c].at \in p.stale => ~conn[c].up
  BY <1>1 DEF Goes
<1>3. \A c \in Clients :
        /\ cs[c].open = conn[c].open /\ cs[c].up = conn[c].up /\ cs[c].at = conn[c].at
        /\ cs[c].channel = conn[c].channel /\ cs[c].projects = conn[c].projects
        /\ cs[c].current = conn[c].current /\ cs[c].known = conn[c].known /\ cs[c].missed = conn[c].missed
  <2> SUFFICES ASSUME NEW c \in Clients
               PROVE  /\ cs[c].open = conn[c].open /\ cs[c].up = conn[c].up /\ cs[c].at = conn[c].at
                      /\ cs[c].channel = conn[c].channel /\ cs[c].projects = conn[c].projects
                      /\ cs[c].current = conn[c].current /\ cs[c].known = conn[c].known
                      /\ cs[c].missed = conn[c].missed
    OBVIOUS
  <2> DEFINE k == [conn[c] EXCEPT !.heard = cs[c].heard]
  <2>1. SameConn(k, cs[c]) /\ cs[c].known = conn[c].known /\ cs[c].missed = conn[c].missed
    BY <1>1 DEF Goes
  <2>2. /\ k.open = conn[c].open /\ k.up = conn[c].up /\ k.at = conn[c].at
        /\ k.channel = conn[c].channel /\ k.projects = conn[c].projects /\ k.current = conn[c].current
    BY <1>0 DEF Conn
  <2> HIDE DEF k
  <2> QED
    BY <2>1, <2>2 DEF SameConn
<1>4. \A c \in Clients : cs[c].known => cs[c].at >= 1
  BY <1>0, <1>3 DEF PlaceInv
<1>5. /\ conn' \in [Clients -> Conn]
      /\ \A c \in Clients : /\ SameConn(cs[c], conn'[c])
                            /\ cs[c].known /\ ~conn'[c].known => cs[c].at \in p.stale
      /\ \/ pubs' = others /\ \A c \in Ahead(p, cs) : conn'[c].missed
         \/ \E c \in Clients, q \in Pub : MovedTo(p, q, c, cs) /\ pubs' = others \cup {q}
  BY <1>2, <1>4, GoOnEffect
<1>6. \A c \in Clients :
        /\ conn'[c].open = conn[c].open /\ conn'[c].up = conn[c].up /\ conn'[c].at = conn[c].at
        /\ conn'[c].channel = conn[c].channel /\ conn'[c].projects = conn[c].projects
        /\ conn'[c].current = conn[c].current
        /\ conn[c].missed => conn'[c].missed
        /\ conn'[c].known => conn[c].known
        /\ conn[c].known /\ ~conn'[c].known => conn[c].at \in p.stale
        /\ conn'[c].heard = cs[c].heard
  BY <1>3, <1>5 DEF SameConn
<1>7. \A c \in Clients : Wants(conn'[c]) <=> Wants(conn[c])
  BY <1>6 DEF Wants
<1>8. \A c \in Clients : Follows(c)' => Follows(c)
  BY <1>6, <1>7 DEF Follows
<1>9. IsFiniteSet(others)
  BY <1>0, <1>2, FS_Subset
<1>10. HubTypes'
  <2>1. pubs' \subseteq Pub
    BY <1>0, <1>2, <1>5
  <2>2. IsFiniteSet(pubs')
    BY <1>5, <1>9, FS_AddElement
  <2> QED
    BY <1>0, <1>2, <1>5, <2>1, <2>2 DEF HubTypes, HubOK
\* A new publication is at the place of a connection that the hub knows.
<1>11. ASSUME NEW q \in pubs', q \notin pubs
       PROVE  /\ \E c \in Clients : MovedTo(p, q, c, cs)
              /\ q.at \in 1..arrivals /\ q.stale = p.stale
              /\ conn[q.to].open /\ conn[q.to].at = q.at /\ q.to \in Clients
  <2>1. PICK c \in Clients : MovedTo(p, q, c, cs)
    BY <1>2, <1>5, <1>11
  <2>2. cs[c].known /\ q.to = c /\ q.at = cs[c].at /\ q.stale = p.stale
    BY <2>1 DEF MovedTo, Ahead, After, Entries
  <2>3. conn[c].open /\ conn[c].at = q.at /\ conn[c].at \in 1..arrivals
    BY <1>3, <2>2 DEF PlaceInv
  <2> QED
    BY <2>1, <2>2, <2>3
<1>12. PlaceInv'
  <2>1. ConnectedIsKnown'
    BY <1>2, <1>6 DEF PlaceInv, ConnectedIsKnown
  <2>2. \A q \in pubs' : q.at \in 1..arrivals /\ q.stale \subseteq 1..arrivals
    BY <1>2, <1>11 DEF PlaceInv
  <2>3. ASSUME NEW q \in pubs', NEW c \in Clients, conn'[c].open, conn'[c].at = q.at PROVE c = q.to
    <3>1. CASE q \in pubs
      BY <1>6, <2>3, <3>1 DEF PlaceInv
    <3>2. CASE q \notin pubs
      BY <1>6, <1>11, <2>3, <3>2 DEF PlaceInv
    <3> QED
      BY <3>1, <3>2
  <2>4. ASSUME NEW q \in pubs', NEW c \in Clients, conn'[c].open, conn'[c].at \in q.stale
        PROVE  ~conn'[c].up
    <3>1. CASE q \in pubs
      BY <1>6, <2>4, <3>1 DEF PlaceInv
    <3>2. CASE q \notin pubs
      BY <1>2, <1>6, <1>11, <2>4, <3>2
    <3> QED
      BY <3>1, <3>2
  <2>5. /\ \A c \in Clients : conn'[c].open => conn'[c].at \in 1..arrivals
        /\ \A c \in Clients : conn'[c].known => conn'[c].open
        /\ \A c, d \in Clients : conn'[c].open /\ conn'[d].open /\ conn'[c].at = conn'[d].at => c = d
    BY <1>6 DEF PlaceInv
  <2> QED
    BY <1>2, <2>1, <2>2, <2>3, <2>4, <2>5 DEF PlaceInv
\* The event that was on its way still is.
<1>13. ASSUME NEW c \in Clients, Follows(c)', Coming(c) PROVE Coming(c)'
  <2>1. Follows(c) /\ conn[c].open /\ conn[c].up /\ conn[c].known
    BY <1>8, <1>13 DEF Follows, PlaceInv, ConnectedIsKnown
  <2>2. \/ cs[c].heard \/ scheduled' > 0 \/ p.at < conn[c].at
        \/ \E q \in others : q.at < conn[c].at \/ (q.to = c /\ q.at = conn[c].at)
    BY <1>1, <1>13, <2>1 DEF Goes
  <2>3. CASE cs[c].heard \/ scheduled' > 0
    BY <1>6, <2>3 DEF Coming
  <2>4. CASE \E q \in others : q.at < conn[c].at \/ (q.to = c /\ q.at = conn[c].at)
    <3>1. others \subseteq pubs'
      BY <1>5
    <3> QED
      BY <1>6, <2>4, <3>1 DEF Coming
  <2>5. CASE p.at < conn[c].at
    <3>1. Wants(cs[c])
      BY <1>3, <2>1 DEF Follows, Wants
    <3>2. c \in Ahead(p, cs)
      BY <1>2, <1>3, <1>0, <2>1, <2>5, <3>1 DEF Ahead, After, Entries, Draft, Conn
    <3>3. ~conn'[c].missed
      BY <1>13 DEF Follows
    <3>4. PICK d \in Clients, q \in Pub : MovedTo(p, q, d, cs) /\ pubs' = others \cup {q}
      BY <1>5, <3>2, <3>3
    <3>5. q.at <= conn[c].at /\ q.at = conn[d].at /\ q.to = d /\ conn[d].known
      BY <1>3, <3>2, <3>4 DEF MovedTo, Ahead, After, Entries
    <3>6. q.at \in Nat /\ conn[c].at \in Nat
      BY <1>0 DEF Pub, Conn
    <3>7. q.at < conn[c].at \/ q.to = c
      <4>1. conn[d].open
        BY <3>5 DEF PlaceInv
      <4>2. conn[d].at = conn[c].at => c = d
        BY <2>1, <4>1 DEF PlaceInv
      <4> QED
        BY <3>5, <3>6, <4>2
    <3>8. q.at < conn[c].at \/ (q.to = c /\ q.at = conn[c].at)
      BY <3>5, <3>7
    <3> QED
      BY <1>6, <3>4, <3>8 DEF Coming
  <2> QED
    BY <2>2, <2>3, <2>4, <2>5
<1> QED
  BY <1>2, <1>6, <1>8, <1>10, <1>12, <1>13

-----------------------------------------------------------------------------
(* Connections that come, change and go.                                   *)

\* What a connection may become without disturbing the others: it keeps its place,
\* and stays in the dict while it works; or it goes, or is new.
LEMMA ConnChange ==
  ASSUME HubTypes, PlaceInv, NEW c \in Clients, NEW k \in Conn, conn' = [conn EXCEPT ![c] = k],
         pubs' = pubs, scheduled' = scheduled,
         \/ ~k.open /\ ~k.known /\ arrivals' = arrivals
         \/ /\ conn[c].open /\ k.open /\ k.at = conn[c].at /\ k.known = conn[c].known
            /\ k.up => conn[c].up
            /\ arrivals' = arrivals
         \/ /\ k.open /\ k.up /\ k.known /\ k.at = arrivals + 1
            /\ arrivals' = arrivals + 1 /\ arrivals < MaxArrivals
  PROVE  HubTypes' /\ PlaceInv'
<1>1. conn \in [Clients -> Conn] /\ arrivals \in 0..MaxArrivals /\ MaxArrivals \in Nat
  BY HubAssumption DEF HubTypes, HubOK
<1>2. conn'[c] = k /\ \A d \in Clients : d # c => conn'[d] = conn[d]
  BY <1>1
<1>3. HubTypes'
  BY <1>1 DEF HubTypes, HubOK
<1>4. 1..arrivals \subseteq 1..arrivals'
  BY <1>1
\* Who is connected afterwards was so before, at the same place.
<1>5. CASE \/ ~k.open /\ ~k.known
           \/ /\ conn[c].open /\ k.open /\ k.at = conn[c].at /\ k.known = conn[c].known
              /\ k.up => conn[c].up
  <2>1. \A d \in Clients : conn'[d].open => /\ conn[d].open /\ conn'[d].at = conn[d].at
                                            /\ conn'[d].known = conn[d].known
                                            /\ conn'[d].up => conn[d].up
    BY <1>2, <1>5
  <2>2. \A d \in Clients : conn'[d].open => conn'[d].at \in 1..arrivals'
    BY <1>4, <2>1 DEF PlaceInv
  <2>3. \A d \in Clients : conn'[d].known => conn'[d].open
    BY <1>2, <1>5 DEF PlaceInv
  <2>4. \A d, e \in Clients : conn'[d].open /\ conn'[e].open /\ conn'[d].at = conn'[e].at => d = e
    BY <2>1 DEF PlaceInv
  <2>5. \A p \in pubs : p.at \in 1..arrivals' /\ p.stale \subseteq 1..arrivals'
    BY <1>4 DEF PlaceInv
  <2>6. \A p \in pubs, d \in Clients : conn'[d].open /\ conn'[d].at = p.at => d = p.to
    BY <2>1 DEF PlaceInv
  <2>7. \A p \in pubs, d \in Clients : conn'[d].open /\ conn'[d].at \in p.stale => ~conn'[d].up
    BY <2>1 DEF PlaceInv
  <2>8. ConnectedIsKnown'
    BY <2>1 DEF PlaceInv, ConnectedIsKnown
  <2> QED
    BY <1>3, <2>2, <2>3, <2>4, <2>5, <2>6, <2>7, <2>8 DEF PlaceInv
<1>6. CASE k.open /\ k.up /\ k.known /\ k.at = arrivals + 1 /\ arrivals' = arrivals + 1
  <2>1. \A d \in Clients : conn[d].open => conn[d].at # k.at
    BY <1>1, <1>6 DEF PlaceInv
  <2>2. \A p \in pubs : p.at # k.at /\ k.at \notin p.stale
    BY <1>1, <1>6 DEF PlaceInv
  <2>3. k.at \in 1..arrivals'
    BY <1>1, <1>6
  <2>4. \A d \in Clients : conn'[d].open => conn'[d].at \in 1..arrivals'
    BY <1>2, <1>4, <2>3 DEF PlaceInv
  <2>5. \A d \in Clients : conn'[d].known => conn'[d].open
    BY <1>2, <1>6 DEF PlaceInv
  <2>6. \A d, e \in Clients : conn'[d].open /\ conn'[e].open /\ conn'[d].at = conn'[e].at => d = e
    BY <1>2, <2>1 DEF PlaceInv
  <2>7. \A p \in pubs : p.at \in 1..arrivals' /\ p.stale \subseteq 1..arrivals'
    BY <1>4 DEF PlaceInv
  <2>8. \A p \in pubs, d \in Clients : conn'[d].open /\ conn'[d].at = p.at => d = p.to
    BY <1>2, <2>2 DEF PlaceInv
  <2>9. \A p \in pubs, d \in Clients : conn'[d].open /\ conn'[d].at \in p.stale => ~conn'[d].up
    BY <1>2, <2>2 DEF PlaceInv
  <2>10. ConnectedIsKnown'
    BY <1>2, <1>6 DEF PlaceInv, ConnectedIsKnown
  <2> QED
    BY <1>3, <2>4, <2>5, <2>6, <2>7, <2>8, <2>9, <2>10 DEF PlaceInv
<1> QED
  BY <1>3, <1>5, <1>6

\* What connections do keeps the hub in order.  A dashboard that follows afterwards
\* did so before, shows what it showed, and an event on its way to it still is.
LEMMA ConnEffect ==
  ASSUME HubTypes, PlaceInv, NEW c \in Clients, NEW messages \in SUBSET Messages,
         ConnStep(c, messages)
  PROVE  /\ HubTypes' /\ PlaceInv'
         /\ \A d \in Clients \ {c} : conn'[d] = conn[d]
         /\ \A d \in Clients :
              Follows(d)' => /\ Follows(d) /\ conn'[d].current = conn[d].current
                             /\ Coming(d) => Coming(d)'
<1>1. /\ conn \in [Clients -> Conn] /\ conn[c] \in Conn /\ arrivals \in 0..MaxArrivals
      /\ MaxArrivals \in Nat
  BY HubAssumption DEF HubTypes, HubOK
<1>2. NoConn \in Conn /\ ~NoConn.open /\ ~NoConn.known /\ NoConn.missed
  BY <1>1 DEF NoConn, Conn
<1>3. ASSUME NEW k \in Conn, conn' = [conn EXCEPT ![c] = k], pubs' = pubs, scheduled' = scheduled,
             k.open /\ k.up /\ Wants(k) /\ ~k.missed
               => Follows(c) /\ k.at = conn[c].at /\ k.current = conn[c].current /\ k.heard = conn[c].heard
      PROVE  /\ \A d \in Clients \ {c} : conn'[d] = conn[d]
             /\ \A d \in Clients :
                  Follows(d)' => /\ Follows(d) /\ conn'[d].current = conn[d].current
                                 /\ Coming(d) => Coming(d)'
  <2>1. conn'[c] = k /\ \A d \in Clients : d # c => conn'[d] = conn[d]
    BY <1>1, <1>3
  <2> QED
    BY <1>3, <2>1 DEF Follows, Coming
<1>4. CASE Connect(c)
  <2> DEFINE k == [NoConn EXCEPT !.open = TRUE, !.up = TRUE, !.known = TRUE, !.at = arrivals + 1]
  <2>1. conn' = [conn EXCEPT ![c] = k] /\ pubs' = pubs /\ scheduled' = scheduled
        /\ arrivals < MaxArrivals /\ arrivals' = arrivals + 1
    BY <1>4 DEF Connect
  <2>2. k \in Conn /\ k.open /\ k.up /\ k.known /\ k.at = arrivals + 1 /\ k.missed
    <3>1. arrivals + 1 \in 0..MaxArrivals
      BY <1>1, <2>1
    <3> QED
      BY <1>2, <3>1 DEF Conn
  <2> HIDE DEF k
  <2> QED
    BY <1>3, <2>1, <2>2, ConnChange
<1>5. CASE Break(c)
  <2> DEFINE k == [conn[c] EXCEPT !.up = FALSE, !.heard = FALSE, !.current = FALSE, !.missed = TRUE]
  <2>1. conn' = [conn EXCEPT ![c] = k] /\ pubs' = pubs /\ scheduled' = scheduled
        /\ arrivals' = arrivals /\ conn[c].open
    BY <1>5 DEF Break
  <2>2. k \in Conn /\ k.open = conn[c].open /\ ~k.up /\ k.known = conn[c].known /\ k.at = conn[c].at
    BY <1>1 DEF Conn
  <2> HIDE DEF k
  <2> QED
    BY <1>3, <2>1, <2>2, ConnChange
<1>6. CASE Leave(c)
  <2>1. conn' = [conn EXCEPT ![c] = NoConn] /\ pubs' = pubs /\ scheduled' = scheduled
        /\ arrivals' = arrivals
    BY <1>6 DEF Leave
  <2> QED
    BY <1>2, <1>3, <2>1, ConnChange
<1>7. ASSUME NEW m \in messages, Receive(c, m)
      PROVE  /\ HubTypes' /\ PlaceInv'
             /\ \A d \in Clients \ {c} : conn'[d] = conn[d]
             /\ \A d \in Clients :
                  Follows(d)' => /\ Follows(d) /\ conn'[d].current = conn[d].current
                                 /\ Coming(d) => Coming(d)'
  <2> DEFINE k == IF m.action = "subscribe"
                    THEN [conn[c] EXCEPT !.channel = @ \/ m.channel, !.projects = @ \cup m.projects]
                    ELSE [conn[c] EXCEPT !.channel = @ /\ ~m.channel, !.projects = @ \ m.projects]
  <2>1. m \in Message
    BY HubAssumption
  <2>2. /\ k \in Conn /\ k.open = conn[c].open /\ k.up = conn[c].up /\ k.known = conn[c].known
        /\ k.at = conn[c].at /\ k.heard = conn[c].heard /\ k.current = conn[c].current
        /\ k.missed = conn[c].missed
    <3>1. CASE m.action = "subscribe"
      <4> DEFINE ch == conn[c].channel \/ m.channel
                 pr == conn[c].projects \cup m.projects
      <4>1. ch \in BOOLEAN /\ pr \in SUBSET Projects
        BY <1>1, <2>1 DEF Message, Conn
      <4>2. k = [conn[c] EXCEPT !.channel = ch, !.projects = pr]
        BY <3>1
      <4> HIDE DEF ch, pr, k
      <4> QED
        BY <1>1, <4>1, <4>2 DEF Conn
    <3>2. CASE m.action # "subscribe"
      <4> DEFINE ch == conn[c].channel /\ ~m.channel
                 pr == conn[c].projects \ m.projects
      <4>1. ch \in BOOLEAN /\ pr \in SUBSET Projects
        BY <1>1, <2>1 DEF Message, Conn
      <4>2. k = [conn[c] EXCEPT !.channel = ch, !.projects = pr]
        BY <3>2
      <4> HIDE DEF ch, pr, k
      <4> QED
        BY <1>1, <4>1, <4>2 DEF Conn
    <3> QED
      BY <3>1, <3>2
  <2> DEFINE missed == k.missed \/ ~Wants(k) \/ ~Wants(conn[c])
             next == [k EXCEPT !.missed = missed]
  <2>3. conn' = [conn EXCEPT ![c] = next] /\ pubs' = pubs /\ scheduled' = scheduled
        /\ arrivals' = arrivals /\ conn[c].open /\ conn[c].up
    BY <1>7 DEF Receive
  <2> HIDE DEF k
  <2>4. missed \in BOOLEAN /\ (~missed => ~conn[c].missed /\ Wants(conn[c]))
    BY <2>2
  <2> HIDE DEF missed
  <2>5. /\ next \in Conn /\ next.open = conn[c].open /\ next.up = conn[c].up /\ next.known = conn[c].known
        /\ next.at = conn[c].at /\ next.heard = conn[c].heard /\ next.current = conn[c].current
        /\ next.missed = missed
    BY <2>2, <2>4 DEF Conn
  <2> HIDE DEF next
  <2>6. HubTypes' /\ PlaceInv'
    BY <2>3, <2>5, ConnChange
  <2>7. ~next.missed => Follows(c)
    BY <2>3, <2>4, <2>5 DEF Follows
  <2> QED
    BY <1>3, <2>3, <2>5, <2>6, <2>7
<1> QED
  BY <1>4, <1>5, <1>6, <1>7 DEF ConnStep
=============================================================================
