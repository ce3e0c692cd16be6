------------------------------- MODULE Relay --------------------------------
(***************************************************************************)
(* What a proxy between two peers promises, for every direction w of every *)
(* connection: bytes leave it in the order they came, never more of them   *)
(* than came, and a byte the proxy has taken is lost only when the         *)
(* connection it was meant for is down.  A connection that is down stays   *)
(* down.  scripts/proxy.py (module Proxy) is shown to implement this.      *)
(***************************************************************************)
EXTENDS Integers

CONSTANTS Dirs, Dest(_)   \* the directions; the connection that Dirs w feeds

VARIABLES
  sent,  \* sent[w]: bytes the source of w has sent
  took,  \* bytes the proxy has taken over
  out,   \* bytes it has handed to the destination
  lost,  \* bytes it has given up
  up     \* is the connection that w reads usable?

vars == <<sent, took, out, lost, up>>

RelayInit ==
  /\ sent = [w \in Dirs |-> 0]
  /\ took = [w \in Dirs |-> 0]
  /\ out = [w \in Dirs |-> 0]
  /\ lost = [w \in Dirs |-> 0]
  /\ up = [w \in Dirs |-> TRUE]

Send(w) ==
  /\ up[w]
  /\ sent' = [sent EXCEPT ![w] = @ + 1]
  /\ UNCHANGED <<took, out, lost, up>>

Take(w) ==
  /\ \E n \in 1 .. (sent[w] - took[w]) : took' = [took EXCEPT ![w] = @ + n]
  /\ UNCHANGED <<sent, out, lost, up>>

Deliver(w) ==
  /\ up[Dest(w)]
  /\ out[w] + lost[w] < took[w]
  /\ out' = [out EXCEPT ![w] = @ + 1]
  /\ UNCHANGED <<sent, took, lost, up>>

Lose(w) ==
  /\ ~up[Dest(w)]
  /\ lost' = [lost EXCEPT ![w] = took[w] - out[w]]
  /\ UNCHANGED <<sent, took, out, up>>

Fail(w) ==
  /\ up' = [up EXCEPT ![w] = FALSE]
  /\ UNCHANGED <<sent, took, out, lost>>

RelayNext ==
  \E w \in Dirs : Send(w) \/ Take(w) \/ Deliver(w) \/ Lose(w) \/ Fail(w)

RelaySpec == RelayInit /\ [][RelayNext]_vars
=============================================================================
