------------------------------- MODULE Proxy --------------------------------
(***************************************************************************)
(* The byte-counting TCP proxy of scripts/proxy.py.                        *)
(*                                                                         *)
(* The main thread accepts a client socket k, connects a server socket v   *)
(* and starts two worker threads: t2 relays v to k, t1 relays k to v.      *)
(* Every worker is named by the socket it READS, an element of             *)
(* Ends == Conns \X {"k", "v"}; it writes to the opposite end.  The        *)
(* counter c2s is count["k"] and s2c is count["v"].                        *)
(*                                                                         *)
(* Bytes are counted, not spelled: TCP and the one worker per direction    *)
(* keep them in order, so the properties only need how many there are.     *)
(* The kernel's TCP sockets, the peers and the delivery of signals are     *)
(* external to the program; they are modelled from the way it uses them.   *)
(***************************************************************************)
EXTENDS Integers, Sequences, FiniteSetsExt

CONSTANTS
  Conns,    \* connections that clients may open
  NoConn,   \* no connection: the main thread has not accepted one yet
  Payload,  \* Payload[s]: bytes the peer of side s sends on a connection
  Chunk,    \* most bytes one recv returns (1024 in the code)
  SndBuf,   \* bytes the kernel holds for a peer that does not read
  PeerEnds, \* how a peer may leave an undisturbed connection: fin, reset
  Faults,   \* may a call of the main thread raise?
  Signals   \* how many SIGINTs and SIGTERMs arrive, at most

Sides == {"k", "v"}

Ends == Conns \X Sides

ASSUME ConstantsOK ==
  /\ NoConn \notin Conns
  /\ Payload \in [Sides -> Nat]
  /\ Chunk \in Nat \ {0}
  /\ SndBuf \in Nat \ {0}
  /\ PeerEnds \subseteq {"fin", "reset"}
  /\ Faults \in BOOLEAN
  /\ Signals \in Nat

VARIABLES
  \* the main thread: doProxyMain and the handlers that run on it
  mpc,      \* where doProxyMain is
  mconn,    \* the connection it is setting up or taking down
  workers,  \* the list of registered connections
  todo,     \* the part of that list the final loop has not reached
  handler,  \* which print of inthandler is next, "no" outside it
  printed,  \* what inthandler printed
  sigs,     \* signals that may still arrive
  \* the worker threads
  wpc,      \* where the worker is
  hold,     \* bytes of b that are not yet sent
  part,     \* has the current send already copied some bytes?
  tmp,      \* the value of the counter that += has loaded
  count,    \* c2s and s2c
  \* the sockets of the proxy and the peers behind them
  fd,       \* the descriptor of the Python socket object
  shut,     \* has the proxy called shutdown(SHUT_RDWR)?
  peer,     \* what the peer has done to the connection
  tosend,   \* bytes the peer still means to send
  inq,      \* bytes received by the kernel and not yet by the worker
  outq,     \* bytes accepted for the peer that it has not read
  \* history
  rcvd,     \* bytes that recv has returned to the worker
  fwd       \* bytes that send has accepted from the worker

mainVars == <<mpc, mconn, workers, todo>>
sigVars  == <<handler, printed, sigs>>
workVars == <<wpc, hold, part, tmp, count>>
sockVars == <<fd, shut>>
peerVars == <<peer, tosend>>
histVars == <<rcvd, fwd>>
vars == <<mainVars, sigVars, workVars, sockVars, peerVars, inq, outq, histVars>>

TryPcs  == {"bind", "accept", "connect", "start2", "start1", "append"}
KillPcs == {"shutA", "closeA", "shutB", "closeB"}
MainPcs == TryPcs \cup KillPcs \cup {"clean", "join1", "join2", "end"}
WorkPcs == KillPcs \cup {"none", "call", "recv", "load", "store", "send", "done"}

Opp(w) == <<w[1], IF w[2] = "k" THEN "v" ELSE "k">>

\* Neither direction of the proxy's socket x will carry another byte.
Down(x) == shut[x] \/ peer[x] = "reset"

Smaller(a, b) == IF a < b THEN a ELSE b

Init ==
  /\ mpc = "bind"
  /\ mconn = NoConn
  /\ workers = <<>>
  /\ todo = <<>>
  /\ handler = "no"
  /\ printed = [c2s |-> 0, s2c |-> 0, total |-> 0]
  /\ sigs = Signals
  /\ wpc = [w \in Ends |-> "none"]
  /\ hold = [w \in Ends |-> 0]
  /\ part = [w \in Ends |-> FALSE]
  /\ tmp = [w \in Ends |-> 0]
  /\ count = [s \in Sides |-> 0]
  /\ fd = [x \in Ends |-> "none"]
  /\ shut = [x \in Ends |-> FALSE]
  /\ peer = [x \in Ends |-> "open"]
  /\ tosend = [x \in Ends |-> Payload[x[2]]]
  /\ inq = [x \in Ends |-> 0]
  /\ outq = [x \in Ends |-> 0]
  /\ rcvd = [w \in Ends |-> 0]
  /\ fwd = [w \in Ends |-> 0]

-----------------------------------------------------------------------------
(* killp(a, b): shutdown and close a, then shutdown and close b.  The first *)
(* call that raises ends the function, for `ignored` swallows the           *)
(* exception around all four.                                               *)

\* Mutant: killp gives up after its first socket.
AfterKillFirstOnly == [shutA |-> "closeA", closeA |-> "ret",
                       shutB |-> "closeB", closeB |-> "ret"]

\* Mutant: killp shuts both sockets down and closes only the second.
AfterKillSkipsClose == [shutA |-> "shutB", closeA |-> "shutB",
                        shutB |-> "closeB", closeB |-> "ret"]

AfterKill == [shutA |-> "closeA", closeA |-> "shutB",
              shutB |-> "closeB", closeB |-> "ret"]

KillSocket(pc, a, b) == IF pc \in {"shutA", "closeA"} THEN a ELSE b

\* shutdown raises EBADF on a closed socket object and ENOTCONN once the
\* connection is gone; after both ends have finished it may be gone already.
ShutdownMustRaise(x) == fd[x] = "closed" \/ peer[x] = "reset"
ShutdownMayRaise(x)  == ShutdownMustRaise(x) \/ (shut[x] /\ peer[x] = "fin")

\* Mutant: killp closes without a shutdown before.
killpCloseOnly(pc, a, b, next) ==
  \/ /\ pc \in {"shutA", "shutB"}
     /\ next = AfterKill[pc]
     /\ UNCHANGED sockVars
  \/ /\ pc \in {"closeA", "closeB"}
     /\ fd' = [fd EXCEPT ![KillSocket(pc, a, b)] = "closed"]
     /\ next = AfterKill[pc]
     /\ UNCHANGED shut

\* One call of killp(a, b) by a thread at pc, which then continues at next.
killp(pc, a, b, next) ==
  LET x == KillSocket(pc, a, b) IN
  \/ /\ pc \in {"shutA", "shutB"}
     /\ ~ShutdownMustRaise(x)
     /\ shut' = [shut EXCEPT ![x] = TRUE]
     /\ next = AfterKill[pc]
     /\ UNCHANGED fd
  \/ /\ pc \in {"shutA", "shutB"}
     /\ ShutdownMayRaise(x)
     /\ next = "ret"
     /\ UNCHANGED sockVars
  \/ /\ pc \in {"closeA", "closeB"}
     /\ fd' = [fd EXCEPT ![x] = "closed"]
     /\ next = AfterKill[pc]
     /\ UNCHANGED shut

-----------------------------------------------------------------------------
(* worker(client, server, direction), with w the end it reads.              *)

\* client.recv(1024): on a closed socket object it raises, b stays empty.
RecvCall(w) ==
  /\ wpc[w] = "call"
  /\ wpc' = [wpc EXCEPT ![w] = IF fd[w] = "closed" THEN "shutA" ELSE "recv"]
  /\ UNCHANGED <<mainVars, sigVars, hold, part, tmp, count, sockVars, peerVars,
                 inq, outq, histVars>>

\* The blocked recv returns what the kernel holds; data comes before an end.
RecvData(w) ==
  /\ wpc[w] = "recv"
  /\ inq[w] > 0
  /\ LET n == Smaller(inq[w], Chunk) IN
       /\ hold' = [hold EXCEPT ![w] = n]
       /\ inq' = [inq EXCEPT ![w] = @ - n]
       /\ rcvd' = [rcvd EXCEPT ![w] = @ + n]
  /\ wpc' = [wpc EXCEPT ![w] = "load"]
  /\ UNCHANGED <<mainVars, sigVars, part, tmp, count, sockVars, peerVars, outq, fwd>>

\* Mutant: the worker looks whether the peer has left before it receives.
RecvEndEarly(w) ==
  /\ wpc[w] = "recv"
  /\ peer[w] # "open" \/ shut[w]
  /\ wpc' = [wpc EXCEPT ![w] = "shutA"]
  /\ UNCHANGED <<mainVars, sigVars, hold, part, tmp, count, sockVars, peerVars,
                 inq, outq, histVars>>

\* len(b) = 0: end of file, an error (ignored), or a local shutdown.
RecvEnd(w) ==
  /\ wpc[w] = "recv"
  /\ inq[w] = 0
  /\ peer[w] # "open" \/ shut[w]
  /\ wpc' = [wpc EXCEPT ![w] = "shutA"]
  /\ UNCHANGED <<mainVars, sigVars, hold, part, tmp, count, sockVars, peerVars,
                 inq, outq, histVars>>

\* c2s += len(b): the interpreter loads the global, and may switch threads
\* before it stores the sum.
LoadCount(w) ==
  /\ wpc[w] = "load"
  /\ tmp' = [tmp EXCEPT ![w] = count[w[2]]]
  /\ wpc' = [wpc EXCEPT ![w] = "store"]
  /\ UNCHANGED <<mainVars, sigVars, hold, part, count, sockVars, peerVars,
                 inq, outq, histVars>>

\* Mutant: the size of the buffer is counted, not the length of b.
StoreChunk(w) ==
  /\ wpc[w] = "store"
  /\ count' = [count EXCEPT ![w[2]] = tmp[w] + Chunk]
  /\ tmp' = [tmp EXCEPT ![w] = 0]
  /\ wpc' = [wpc EXCEPT ![w] = "send"]
  /\ UNCHANGED <<mainVars, sigVars, hold, part, sockVars, peerVars,
                 inq, outq, histVars>>

StoreCount(w) ==
  /\ wpc[w] = "store"
  /\ count' = [count EXCEPT ![w[2]] = tmp[w] + hold[w]]
  /\ tmp' = [tmp EXCEPT ![w] = 0]
  /\ wpc' = [wpc EXCEPT ![w] = "send"]
  /\ UNCHANGED <<mainVars, sigVars, hold, part, sockVars, peerVars,
                 inq, outq, histVars>>

\* Mutant: send returns once some bytes are taken, as on a non-blocking socket.
SendOnce(w) ==
  LET o == Opp(w) IN
  /\ wpc[w] = "send"
  /\ ~Down(o)
  /\ outq[o] < SndBuf
  /\ outq' = [outq EXCEPT ![o] = @ + 1]
  /\ fwd' = [fwd EXCEPT ![w] = @ + 1]
  /\ hold' = [hold EXCEPT ![w] = 0]
  /\ wpc' = [wpc EXCEPT ![w] = "call"]
  /\ UNCHANGED <<mainVars, sigVars, part, tmp, count, sockVars, peerVars, inq, rcvd>>

\* Mutant: bytes for a connection that is down are reported as sent.
SendBlind(w) ==
  LET o == Opp(w) IN
  /\ wpc[w] = "send"
  /\ outq[o] < SndBuf
  /\ outq' = [outq EXCEPT ![o] = @ + 1]
  /\ fwd' = [fwd EXCEPT ![w] = @ + 1]
  /\ hold' = [hold EXCEPT ![w] = @ - 1]
  /\ part' = [part EXCEPT ![w] = hold[w] > 1]
  /\ wpc' = [wpc EXCEPT ![w] = IF hold[w] > 1 THEN "send" ELSE "call"]
  /\ UNCHANGED <<mainVars, sigVars, tmp, count, sockVars, peerVars, inq, rcvd>>

\* server.send(b): the kernel takes one more byte while it has room.
SendByte(w) ==
  LET o == Opp(w) IN
  /\ wpc[w] = "send"
  /\ ~Down(o)
  /\ outq[o] < SndBuf
  /\ outq' = [outq EXCEPT ![o] = @ + 1]
  /\ fwd' = [fwd EXCEPT ![w] = @ + 1]
  /\ hold' = [hold EXCEPT ![w] = @ - 1]
  /\ part' = [part EXCEPT ![w] = hold[w] > 1]
  /\ wpc' = [wpc EXCEPT ![w] = IF hold[w] > 1 THEN "send" ELSE "call"]
  /\ UNCHANGED <<mainVars, sigVars, tmp, count, sockVars, peerVars, inq, rcvd>>

\* The destination went down after part of b was taken: send returns a short
\* count, which the worker does not look at.
SendShort(w) ==
  /\ wpc[w] = "send"
  /\ part[w]
  /\ Down(Opp(w))
  /\ hold' = [hold EXCEPT ![w] = 0]
  /\ part' = [part EXCEPT ![w] = FALSE]
  /\ wpc' = [wpc EXCEPT ![w] = "call"]
  /\ UNCHANGED <<mainVars, sigVars, tmp, count, sockVars, peerVars, inq, outq, histVars>>

\* The destination was down already: send raises.
SendRaise(w) ==
  /\ wpc[w] = "send"
  /\ ~part[w]
  /\ Down(Opp(w)) \/ fd[Opp(w)] = "closed"
  /\ hold' = [hold EXCEPT ![w] = 0]
  /\ wpc' = [wpc EXCEPT ![w] = "shutA"]
  /\ UNCHANGED <<mainVars, sigVars, part, tmp, count, sockVars, peerVars,
                 inq, outq, histVars>>

WorkerKill(w) ==
  \E next \in KillPcs \cup {"ret"} :
    /\ killp(wpc[w], w, Opp(w), next)
    /\ wpc' = [wpc EXCEPT ![w] = IF next = "ret" THEN "done" ELSE next]
    /\ UNCHANGED <<mainVars, sigVars, hold, part, tmp, count, peerVars,
                   inq, outq, histVars>>

worker(w) ==
  \/ RecvCall(w) \/ RecvData(w) \/ RecvEnd(w)
  \/ LoadCount(w) \/ StoreCount(w)
  \/ SendByte(w) \/ SendShort(w) \/ SendRaise(w)
  \/ WorkerKill(w)

-----------------------------------------------------------------------------
(* doProxyMain.  While inthandler runs, the main thread runs nothing else.  *)

MainAt(pc) == mpc = pc /\ handler = "no"

\* socket, setsockopt, bind and listen; workers = [] follows.
Listen ==
  /\ MainAt("bind")
  /\ mpc' = "accept"
  /\ UNCHANGED <<mconn, workers, todo, sigVars, workVars, sockVars, peerVars,
                 inq, outq, histVars>>

\* Mutant: the accepted socket is not bound to k.
AcceptUnbound(c) ==
  /\ MainAt("accept")
  /\ fd[<<c, "k">>] = "none"
  /\ fd' = [fd EXCEPT ![<<c, "k">>] = "open"]
  /\ mpc' = "connect"
  /\ UNCHANGED <<mconn, workers, todo, sigVars, workVars, shut, peerVars, inq, outq, histVars>>

Accept(c) ==
  /\ MainAt("accept")
  /\ fd[<<c, "k">>] = "none"
  /\ fd' = [fd EXCEPT ![<<c, "k">>] = "open"]
  /\ mconn' = c
  /\ mpc' = "connect"
  /\ UNCHANGED <<workers, todo, sigVars, workVars, shut, peerVars, inq, outq, histVars>>

Connect ==
  /\ MainAt("connect")
  /\ fd' = [fd EXCEPT ![<<mconn, "v">>] = "open"]
  /\ mpc' = "start2"
  /\ UNCHANGED <<mconn, workers, todo, sigVars, workVars, shut, peerVars,
                 inq, outq, histVars>>

\* t2.start() comes before t1.start().
StartWorker(pc, s, next) ==
  /\ MainAt(pc)
  /\ wpc' = [wpc EXCEPT ![<<mconn, s>>] = "call"]
  /\ mpc' = next
  /\ UNCHANGED <<mconn, workers, todo, sigVars, hold, part, tmp, count, sockVars,
                 peerVars, inq, outq, histVars>>

Register ==
  /\ MainAt("append")
  /\ workers' = Append(workers, mconn)
  /\ mpc' = "accept"
  /\ UNCHANGED <<mconn, todo, sigVars, workVars, sockVars, peerVars, inq, outq, histVars>>

\* Where an exception raised at pc takes the main thread: the except clause and
\* then the final loop; past a bind that never assigned workers, out of the
\* function; out of killp, whose `ignored` swallows it, to t1.join().
RaisedTo(pc) ==
  CASE pc = "bind"             -> "end"
    [] pc \in TryPcs \ {"bind"} -> "clean"
    [] pc \in KillPcs          -> "join1"
    [] OTHER                   -> "end"

\* An OSError of bind, accept or connect, or a thread that cannot be started.
\* signalhandler(None, None) then assigns a local variable, and nothing else.
MainFails ==
  /\ Faults
  /\ handler = "no"
  /\ mpc \in TryPcs \ {"append"}
  /\ mpc' = RaisedTo(mpc)
  /\ todo' = workers
  /\ UNCHANGED <<mconn, workers, sigVars, workVars, sockVars, peerVars,
                 inq, outq, histVars>>

\* for t1,t2,k,v in workers
NextToClean ==
  /\ MainAt("clean")
  /\ IF todo = <<>>
     THEN mpc' = "end" /\ UNCHANGED <<mconn, todo>>
     ELSE mpc' = "shutA" /\ mconn' = Head(todo) /\ todo' = Tail(todo)
  /\ UNCHANGED <<workers, sigVars, workVars, sockVars, peerVars, inq, outq, histVars>>

MainKill ==
  /\ handler = "no"
  /\ \E next \in KillPcs \cup {"ret"} :
       /\ killp(mpc, <<mconn, "k">>, <<mconn, "v">>, next)
       /\ mpc' = IF next = "ret" THEN "join1" ELSE next
  /\ UNCHANGED <<mconn, workers, todo, sigVars, workVars, peerVars, inq, outq, histVars>>

Join(pc, s, next) ==
  /\ MainAt(pc)
  /\ wpc[<<mconn, s>>] = "done"
  /\ mpc' = next
  /\ UNCHANGED <<mconn, workers, todo, sigVars, workVars, sockVars, peerVars,
                 inq, outq, histVars>>

doProxyMain ==
  \/ Listen
  \/ \E c \in Conns : Accept(c)
  \/ Connect
  \/ StartWorker("start2", "v", "start1")
  \/ StartWorker("start1", "k", "append")
  \/ Register
  \/ MainFails
  \/ NextToClean
  \/ MainKill
  \/ Join("join1", "k", "join2")
  \/ Join("join2", "v", "clean")

-----------------------------------------------------------------------------
(* Signals.  inthandler runs on the main thread, between two of its steps.  *)

Sigint ==
  /\ sigs > 0
  /\ handler = "no"
  /\ mpc # "end"
  /\ handler' = "c2s"
  /\ sigs' = sigs - 1
  /\ UNCHANGED <<mainVars, printed, workVars, sockVars, peerVars, inq, outq, histVars>>

\* signalhandler: `running = False` binds a local name; the global stays True.
Sigterm ==
  /\ sigs > 0
  /\ handler = "no"
  /\ mpc # "end"
  /\ sigs' = sigs - 1
  /\ UNCHANGED <<mainVars, handler, printed, workVars, sockVars, peerVars,
                 inq, outq, histVars>>

PrintC2S ==
  /\ handler = "c2s"
  /\ printed' = [printed EXCEPT !.c2s = count["k"]]
  /\ handler' = "s2c"
  /\ UNCHANGED <<mainVars, sigs, workVars, sockVars, peerVars, inq, outq, histVars>>

PrintS2C ==
  /\ handler = "s2c"
  /\ printed' = [printed EXCEPT !.s2c = count["v"]]
  /\ handler' = "total"
  /\ UNCHANGED <<mainVars, sigs, workVars, sockVars, peerVars, inq, outq, histVars>>

\* Mutant: the total leaves out one direction.
PrintTotalOne ==
  /\ handler = "total"
  /\ printed' = [printed EXCEPT !.total = count["k"]]
  /\ handler' = "no"
  /\ mpc' = RaisedTo(mpc)
  /\ todo' = IF mpc \in TryPcs THEN workers ELSE todo
  /\ UNCHANGED <<mconn, workers, sigs, workVars, sockVars, peerVars, inq, outq, histVars>>

\* The third print; sys.stdout.flush() then raises NameError, for the script
\* does not import sys, and exit() is never reached.
PrintTotal ==
  /\ handler = "total"
  /\ printed' = [printed EXCEPT !.total = count["k"] + count["v"]]
  /\ handler' = "no"
  /\ mpc' = RaisedTo(mpc)
  /\ todo' = IF mpc \in TryPcs THEN workers ELSE todo
  /\ UNCHANGED <<mconn, workers, sigs, workVars, sockVars, peerVars, inq, outq, histVars>>

inthandler == Sigint \/ PrintC2S \/ PrintS2C \/ PrintTotal

-----------------------------------------------------------------------------
(* The peers, and the network between them and the proxy's sockets.         *)

PeerSend(x) ==
  /\ fd[x] # "none"
  /\ peer[x] = "open"
  /\ ~shut[x]
  /\ tosend[x] > 0
  /\ tosend' = [tosend EXCEPT ![x] = @ - 1]
  /\ inq' = [inq EXCEPT ![x] = @ + 1]
  /\ UNCHANGED <<mainVars, sigVars, workVars, sockVars, peer, outq, histVars>>

PeerRead(x) ==
  /\ outq[x] > 0
  /\ outq' = [outq EXCEPT ![x] = @ - 1]
  /\ UNCHANGED <<mainVars, sigVars, workVars, sockVars, peerVars, inq, histVars>>

\* The peer ends its direction of the connection.
PeerFin(x) ==
  /\ "fin" \in PeerEnds
  /\ fd[x] # "none"
  /\ peer[x] = "open"
  /\ peer' = [peer EXCEPT ![x] = "fin"]
  /\ UNCHANGED <<mainVars, sigVars, workVars, sockVars, tosend, inq, outq, histVars>>

\* The connection is aborted: by the peer, or, once the proxy has shut its
\* socket down, by the kernel when more data arrives for it.
PeerReset(x) ==
  /\ fd[x] # "none"
  /\ peer[x] # "reset"
  /\ "reset" \in PeerEnds \/ shut[x]
  /\ peer' = [peer EXCEPT ![x] = "reset"]
  /\ UNCHANGED <<mainVars, sigVars, workVars, sockVars, tosend, inq, outq, histVars>>

Peers ==
  \E x \in Ends : PeerSend(x) \/ PeerRead(x) \/ PeerFin(x) \/ PeerReset(x)

Next ==
  \/ doProxyMain
  \/ \E w \in Ends : worker(w)
  \/ inthandler
  \/ Sigterm
  \/ Peers

Spec == Init /\ [][Next]_vars

\* Every thread runs; a handler that has begun runs to its end; the peers read
\* what they are sent.  Nothing makes a peer send, close or connect, and
\* nothing makes a call of the main thread fail.
Fairness ==
  /\ \A w \in Ends : WF_vars(worker(w))
  /\ WF_vars(PrintC2S \/ PrintS2C \/ PrintTotal)
  /\ WF_vars(NextToClean \/ MainKill
               \/ Join("join1", "k", "join2") \/ Join("join2", "v", "clean"))
  /\ \A x \in Ends : WF_vars(PeerRead(x))

FairSpec == Spec /\ Fairness

-----------------------------------------------------------------------------
(* Properties.                                                              *)

\* The variables of doProxyMain, inthandler, the workers and the sockets have
\* the shapes the code gives them.
TypeOK ==
  /\ mpc \in MainPcs
  /\ mconn \in Conns \cup {NoConn}
  /\ mpc \notin {"bind", "accept", "clean", "end"} => mconn \in Conns
  /\ workers \in Seq(Conns)
  /\ todo \in Seq(Conns)
  /\ handler \in {"no", "c2s", "s2c", "total"}
  /\ printed \in [c2s : Nat, s2c : Nat, total : Nat]
  /\ sigs \in Nat
  /\ wpc \in [Ends -> WorkPcs]
  /\ hold \in [Ends -> Nat]
  /\ part \in [Ends -> BOOLEAN]
  /\ tmp \in [Ends -> Nat]
  /\ count \in [Sides -> Nat]
  /\ fd \in [Ends -> {"none", "open", "closed"}]
  /\ shut \in [Ends -> BOOLEAN]
  /\ peer \in [Ends -> {"open", "fin", "reset"}]
  /\ tosend \in [Ends -> Nat]
  /\ inq \in [Ends -> Nat]
  /\ outq \in [Ends -> 0 .. SndBuf]
  /\ rcvd \in [Ends -> Nat]
  /\ fwd \in [Ends -> Nat]

\* No worker is stranded: killp never closes a socket it has not shut down.
\* close alone would not wake a thread that sits in recv or send on the socket.
ClosedWasShut ==
  \A x \in Ends : fd[x] = "closed" => shut[x]

\* The relay loses nothing silently: every byte that recv returned to a worker
\* was accepted by send or is still in its hands, unless the connection it was
\* meant for is down.  (worker ignores the count that send returns.)
NoSilentLoss ==
  \A w \in Ends : rcvd[w] # fwd[w] + hold[w] => Down(Opp(w))

\* A worker that turns to killp while both connections are up does so at the
\* end of file, with every byte its peer ever sent already forwarded.
GiveUpOnlyWhenDrained ==
  \A w \in Ends :
    wpc[w] = "shutA" /\ ~Down(w) /\ ~Down(Opp(w)) =>
      peer[w] = "fin" /\ fwd[w] = Payload[w[2]] - tosend[w]

\* The relay that the peers see.
PromisedRelay == INSTANCE Relay WITH
  Dirs <- Ends,
  Dest <- Opp,
  sent <- [w \in Ends |-> Payload[w[2]] - tosend[w]],
  took <- rcvd,
  out  <- fwd,
  lost <- [w \in Ends |-> rcvd[w] - fwd[w] - hold[w]],
  up   <- [w \in Ends |-> ~Down(w)]

\* The proxy implements Relay: workers, killp and the main thread together keep
\* order and number of the bytes of every direction, through every failure.
RelaysFaithfully == PromisedRelay!RelaySpec

Total(f, s) == MapThenSumSet(LAMBDA c : f[<<c, s>>], Conns)

\* Bytes a worker has received and `+=` has not yet stored.
Uncounted == [w \in Ends |-> IF wpc[w] \in {"load", "store"} THEN hold[w] ELSE 0]

\* With several connections two workers of one direction race on the counter
\* and updates are lost, but the counter never claims a byte too many.
CountNeverOvershoots ==
  \A s \in Sides : count[s] + Total(Uncounted, s) <= Total(rcvd, s)

\* With one connection, the way dmc.sh and ffmc.sh use the proxy, each counter
\* is exact: all bytes recv returned but those being added right now.
CountsExact ==
  \A w \in Ends : count[w[2]] + Uncounted[w] = rcvd[w]

\* The three numbers inthandler prints are read one by one while the workers
\* run.  With one connection the total may exceed the sum of the other two,
\* but is never below it, nor above the bytes received.
ReportConsistent ==
  handler = "no" =>
    /\ printed.c2s + printed.s2c <= printed.total
    /\ \A c \in Conns : printed.total <= rcvd[<<c, "k">>] + rcvd[<<c, "v">>]

\* No descriptor leaks when nobody resets a connection: after both workers of
\* a connection have returned, both its sockets are closed (the sockets stay
\* referenced by the list workers, so nothing else would close them).
NoDescriptorLeak ==
  \A c \in Conns :
    /\ wpc[<<c, "k">>] = "done"
    /\ wpc[<<c, "v">>] = "done"
    /\ ~(mconn = c /\ mpc \in KillPcs)
    => fd[<<c, "k">>] = "closed" /\ fd[<<c, "v">>] = "closed"

\* When one peer leaves a connection that both workers serve, killp takes the
\* other peer's connection down as well, so that it does not wait for ever.
LossReachesOtherPeer ==
  \A w \in Ends :
    (peer[w] # "open" /\ wpc[w] # "none" /\ wpc[Opp(w)] # "none") ~> Down(Opp(w))

Registered == \A w \in Ends : wpc[w] # "none" => \E i \in DOMAIN workers : workers[i] = w[1]

\* The final loop of doProxyMain takes all workers down and ends, if it starts
\* when every started worker is in the list and no further signal arrives.
CleanupTerminates ==
  (MainAt("clean") /\ Registered /\ todo = workers /\ sigs = 0)
    ~> (mpc = "end" /\ \A w \in Ends : wpc[w] \in {"none", "done"})

=============================================================================
