------------------------------ MODULE MCQuick ------------------------------
(***************************************************************************)
(* QuickActions for TLC: what dashboards say to the hub, and five worlds.  *)
(* In the first, two dashboards follow one run; in the second, one of them *)
(* also changes its subscriptions.  In the others nobody looks: clients    *)
(* request runs up to the limit, and the server may die; a command line    *)
(* runs beside it, and either may die; a user's shortcut is no pattern.    *)
(***************************************************************************)
EXTENDS QuickActions

CONSTANTS c1, c2, q1, q2, x1

Follow == [action |-> "subscribe", channel |-> TRUE, projects |-> {}]

MCMessages ==
  {Follow,
   [action |-> "subscribe", channel |-> FALSE, projects |-> {"there"}],
   [action |-> "unsubscribe", channel |-> FALSE, projects |-> {"there"}]}

Calm == [runs |-> {}, clients |-> {}, messages |-> {}, promotions |-> TRUE, badShortcuts |-> FALSE, crashes |-> 0]

MCWorlds ==
  {[Calm EXCEPT !.runs = {q1}, !.clients = {c1, c2}, !.messages = {Follow}, !.promotions = FALSE],
   [Calm EXCEPT !.runs = {q1}, !.clients = {c1}, !.messages = MCMessages],
   [Calm EXCEPT !.runs = {q1, q2}, !.crashes = 1],
   [Calm EXCEPT !.runs = {q1, x1}, !.crashes = 1],
   [Calm EXCEPT !.runs = {q1, q2}, !.badShortcuts = TRUE]}
=============================================================================
