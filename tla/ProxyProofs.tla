---------------------------- MODULE ProxyProofs -----------------------------
(***************************************************************************)
(* Theorems about Proxy, for every set of connections, payload, chunk and  *)
(* buffer size, with resets, failures and signals: its types, the order of *)
(* shutdown and close, the fate of every byte, that it implements Relay,   *)
(* that no descriptor is left open, and that the counters are exact.       *)
(***************************************************************************)
EXTENDS Proxy, TLAPS

(***************************************************************************)
(* The type invariant, strengthened until it is inductive.                 *)
(***************************************************************************)

\* A worker holds bytes exactly between recv and the end of send, and only a
\* send can be half done.
Hands ==
  \A w \in Ends :
    /\ wpc[w] \in {"load", "store", "send"} <=> hold[w] > 0
    /\ part[w] => wpc[w] = "send"

\* A connection that is not set up yet has no worker.
Fresh ==
  /\ \A c \in Conns : fd[<<c, "k">>] = "none" =>
       wpc[<<c, "k">>] = "none" /\ wpc[<<c, "v">>] = "none"
  /\ mpc \in {"connect", "start2"} =>
       /\ fd[<<mconn, "k">>] # "none"
       /\ wpc[<<mconn, "k">>] = "none" /\ wpc[<<mconn, "v">>] = "none"
  /\ mpc = "start1" => fd[<<mconn, "k">>] # "none" /\ wpc[<<mconn, "k">>] = "none"

TypeInv == TypeOK /\ Hands /\ Fresh

-----------------------------------------------------------------------------
\* The two ends of a connection; Opp, the socket a worker writes to, is the
\* other one.
LEMMA EndFacts ==
  /\ \A w \in Ends :
       /\ w[1] \in Conns /\ w[2] \in Sides /\ w = <<w[1], w[2]>>
       /\ Opp(w) \in Ends /\ Opp(w) # w /\ Opp(Opp(w)) = w
  /\ \A c \in Conns :
       /\ <<c, "k">> \in Ends /\ <<c, "v">> \in Ends
       /\ Opp(<<c, "k">>) = <<c, "v">> /\ Opp(<<c, "v">>) = <<c, "k">>
BY DEF Ends, Sides, Opp

\* Initially no thread runs and nothing was received.
LEMMA TypeInvInit == Init => TypeInv
BY ConstantsOK DEF Init, TypeInv, TypeOK, Hands, Fresh, Ends, Sides, MainPcs, TryPcs, WorkPcs

\* One call of killp: shutdown is for ever, a socket is closed only after the
\* shutdown of the same socket, and no call sets a socket up.
LEMMA KillFacts ==
  ASSUME TypeOK, NEW a \in Ends, NEW b \in Ends, NEW pc, NEW next,
         killp(pc, a, b, next)
  PROVE  /\ pc \in KillPcs
         /\ fd' \in [Ends -> {"none", "open", "closed"}]
         /\ shut' \in [Ends -> BOOLEAN]
         /\ \A x \in Ends : fd'[x] # fd[x] => fd'[x] = "closed"
         /\ \A x \in Ends : shut[x] => shut'[x]
         /\ \A x \in Ends : fd'[x] = "closed" /\ fd[x] # "closed" =>
              (pc = "closeA" /\ x = a) \/ (pc = "closeB" /\ x = b)
         /\ next = "closeA" => shut'[a]
         /\ next = "closeB" => shut'[b]
         /\ next # "shutA"
<1> DEFINE x == KillSocket(pc, a, b)
<1>x. x \in Ends BY Zenon DEF KillSocket
<1>a. /\ pc = "shutA" => AfterKill[pc] = "closeA" /\ x = a
      /\ pc = "shutB" => AfterKill[pc] = "closeB" /\ x = b
      /\ pc = "closeA" => AfterKill[pc] = "shutB" /\ x = a
      /\ pc = "closeB" => AfterKill[pc] = "ret" /\ x = b
  BY DEF AfterKill, KillSocket
<1> HIDE DEF x
<1>1. CASE /\ pc \in {"shutA", "shutB"} /\ shut' = [shut EXCEPT ![x] = TRUE]
           /\ next = AfterKill[pc] /\ UNCHANGED fd
  BY <1>1, <1>a, <1>x, Zenon DEF KillPcs, TypeOK
<1>2. CASE pc \in {"shutA", "shutB"} /\ next = "ret" /\ UNCHANGED sockVars
  BY <1>2, Zenon DEF KillPcs, sockVars, TypeOK
<1>3. CASE /\ pc \in {"closeA", "closeB"} /\ fd' = [fd EXCEPT ![x] = "closed"]
           /\ next = AfterKill[pc] /\ UNCHANGED shut
  BY <1>3, <1>a, <1>x, ZenonT(60) DEF KillPcs, TypeOK
<1> QED BY <1>1, <1>2, <1>3, Zenon DEF killp, x

\* Every step of a worker keeps the types, and bytes in its hands while it
\* counts and sends them.
LEMMA TypeInvWorker ==
  ASSUME TypeInv, NEW w \in Ends, worker(w)
  PROVE  TypeInv'
<1> USE ConstantsOK DEF mainVars, sigVars, sockVars, peerVars, histVars
<1>e. w[2] \in Sides /\ Opp(w) \in Ends
  BY EndFacts, Zenon
<1>1. CASE RecvCall(w)
  <2>1. TypeOK'
    BY <1>1, Zenon DEF RecvCall, WorkPcs, KillPcs, TypeInv, TypeOK
  <2>2. Hands'
    BY <1>1, ZenonT(60) DEF RecvCall, WorkPcs, KillPcs, TypeInv, TypeOK, Hands
  <2>3. Fresh'
    BY <1>1, EndFacts, Zenon DEF RecvCall, WorkPcs, KillPcs, TypeInv, TypeOK, Fresh
  <2> QED BY <2>1, <2>2, <2>3, Zenon DEF TypeInv
<1>2. CASE RecvData(w)
  <2> DEFINE n == Smaller(inq[w], Chunk)
  <2>y. hold \in [Ends -> Nat] /\ inq \in [Ends -> Nat] /\ rcvd \in [Ends -> Nat]
    BY Zenon DEF TypeInv, TypeOK
  <2>p. inq[w] > 0
    BY <1>2, Zenon DEF RecvData
  <2>n. n \in 1 .. inq[w]
    BY <2>y, <2>p DEF Smaller
  <2>m. /\ hold' = [hold EXCEPT ![w] = n]
        /\ inq' = [inq EXCEPT ![w] = @ - n]
        /\ rcvd' = [rcvd EXCEPT ![w] = @ + n]
    BY <1>2, Zenon DEF RecvData
  <2> HIDE DEF n
  <2>h. hold' \in [Ends -> Nat]
    BY <2>n, <2>m, <2>y
  <2>i. inq' \in [Ends -> Nat]
    BY <2>n, <2>m, <2>y, SMTT(30)
  <2>r. rcvd' \in [Ends -> Nat]
    BY <2>n, <2>m, <2>y, SMTT(30)
  <2>w. wpc' \in [Ends -> WorkPcs]
    BY <1>2, Zenon DEF RecvData, WorkPcs, TypeInv, TypeOK
  <2>1. TypeOK'
    BY <1>2, <2>h, <2>i, <2>r, <2>w, Zenon DEF RecvData, TypeInv, TypeOK
  <2>2. Hands'
    BY <1>2, <2>n, <2>m DEF RecvData, WorkPcs, KillPcs, TypeInv, TypeOK, Hands
  <2>3. Fresh'
    BY <1>2, EndFacts, Zenon DEF RecvData, WorkPcs, KillPcs, TypeInv, TypeOK, Fresh
  <2> QED BY <2>1, <2>2, <2>3, Zenon DEF TypeInv
<1>3. CASE RecvEnd(w)
  <2>1. TypeOK'
    BY <1>3, Zenon DEF RecvEnd, WorkPcs, KillPcs, TypeInv, TypeOK
  <2>2. Hands'
    BY <1>3, ZenonT(60) DEF RecvEnd, WorkPcs, KillPcs, TypeInv, TypeOK, Hands
  <2>3. Fresh'
    BY <1>3, EndFacts, Zenon DEF RecvEnd, WorkPcs, KillPcs, TypeInv, TypeOK, Fresh
  <2> QED BY <2>1, <2>2, <2>3, Zenon DEF TypeInv
<1>4. CASE LoadCount(w)
  <2>1. TypeOK'
    BY <1>4, <1>e, Zenon DEF LoadCount, WorkPcs, KillPcs, TypeInv, TypeOK
  <2>2. Hands'
    BY <1>4, ZenonT(60) DEF LoadCount, WorkPcs, KillPcs, TypeInv, TypeOK, Hands
  <2>3. Fresh'
    BY <1>4, EndFacts, Zenon DEF LoadCount, WorkPcs, KillPcs, TypeInv, TypeOK, Fresh
  <2> QED BY <2>1, <2>2, <2>3, Zenon DEF TypeInv
<1>5. CASE StoreCount(w)
  <2>n. tmp[w] + hold[w] \in Nat
    <3>1. tmp \in [Ends -> Nat] /\ hold \in [Ends -> Nat]
      BY Zenon DEF TypeInv, TypeOK
    <3> QED BY <3>1
  <2>c. count' \in [Sides -> Nat]
    <3> DEFINE n == tmp[w] + hold[w]
    <3>1. count' = [count EXCEPT ![w[2]] = n]
      BY <1>5, Zenon DEF StoreCount
    <3> HIDE DEF n
    <3> QED BY <1>e, <2>n, <3>1, Zenon DEF n, TypeInv, TypeOK
  <2>t. tmp' \in [Ends -> Nat]
    BY <1>5, Zenon DEF StoreCount, TypeInv, TypeOK
  <2>w. wpc' \in [Ends -> WorkPcs]
    BY <1>5, Zenon DEF StoreCount, WorkPcs, TypeInv, TypeOK
  <2>1. TypeOK'
    BY <1>5, <2>c, <2>t, <2>w, Zenon DEF StoreCount, TypeInv, TypeOK
  <2>2. Hands'
    BY <1>5, ZenonT(60) DEF StoreCount, WorkPcs, KillPcs, TypeInv, TypeOK, Hands
  <2>3. Fresh'
    BY <1>5, EndFacts, Zenon DEF StoreCount, WorkPcs, KillPcs, TypeInv, TypeOK, Fresh
  <2> QED BY <2>1, <2>2, <2>3, Zenon DEF TypeInv
<1>6. CASE SendByte(w)
  <2>h. hold[w] \in Nat /\ hold[w] > 0
    BY <1>6, Zenon DEF SendByte, TypeInv, TypeOK, Hands
  <2>y. /\ hold \in [Ends -> Nat] /\ fwd \in [Ends -> Nat]
        /\ hold' = [hold EXCEPT ![w] = @ - 1] /\ fwd' = [fwd EXCEPT ![w] = @ + 1]
    BY <1>6, Zenon DEF SendByte, TypeInv, TypeOK
  <2>t. hold' \in [Ends -> Nat] /\ hold'[w] = hold[w] - 1
    BY <2>h, <2>y, SMTT(30)
  <2>o. outq' \in [Ends -> 0 .. SndBuf]
    <3> DEFINE o == Opp(w)
    <3>1. /\ outq[o] < SndBuf
          /\ outq' = [outq EXCEPT ![o] = @ + 1]
      BY <1>6, Zenon DEF SendByte
    <3>2. o \in Ends /\ outq \in [Ends -> 0 .. SndBuf]
      BY <1>e, Zenon DEF TypeInv, TypeOK
    <3> HIDE DEF o
    <3>3. outq[o] + 1 \in 0 .. SndBuf
      BY <3>1, <3>2
    <3> QED BY <3>1, <3>2, <3>3, Zenon
  <2>f. fwd' \in [Ends -> Nat]
    BY <2>y, SMTT(30)
  <2>w. wpc' \in [Ends -> WorkPcs]
    BY <1>6, Zenon DEF SendByte, WorkPcs, TypeInv, TypeOK
  <2>p. part' \in [Ends -> BOOLEAN]
    <3>1. (hold[w] > 1) \in BOOLEAN
      BY <2>h
    <3> QED BY <1>6, <3>1, Zenon DEF SendByte, TypeInv, TypeOK
  <2>1. TypeOK'
    BY <1>6, <2>t, <2>o, <2>f, <2>w, <2>p, Zenon DEF SendByte, TypeInv, TypeOK
  <2>2. Hands'
    <3> SUFFICES ASSUME NEW u \in Ends
                 PROVE  /\ wpc'[u] \in {"load", "store", "send"} <=> hold'[u] > 0
                        /\ part'[u] => wpc'[u] = "send"
      BY Zenon DEF Hands
    <3>1. CASE u = w
      <4>1. wpc'[w] = (IF hold[w] > 1 THEN "send" ELSE "call")
        BY <1>6, Zenon DEF SendByte, TypeInv, TypeOK
      <4>2. part'[w] = (hold[w] > 1)
        BY <1>6, Zenon DEF SendByte, TypeInv, TypeOK
      <4>3. wpc'[w] \in {"load", "store", "send"} <=> hold'[w] > 0
        BY <2>h, <2>t, <4>1
      <4>4. CASE hold[w] > 1
        BY <3>1, <4>3, <4>1, <4>4, Zenon
      <4>5. CASE ~(hold[w] > 1)
        <5>1. ~part'[w] BY <4>2, <4>5, Zenon
        <5> QED BY <3>1, <4>3, <5>1, Zenon
      <4> QED BY <4>4, <4>5, Zenon
    <3>2. CASE u # w
      BY <1>6, <3>2, Zenon DEF SendByte, TypeInv, TypeOK, Hands
    <3> QED BY <3>1, <3>2, Zenon
  <2>3. Fresh'
    BY <1>6, EndFacts, ZenonT(60) DEF SendByte, WorkPcs, KillPcs, TypeInv, TypeOK, Fresh
  <2> QED BY <2>1, <2>2, <2>3, Zenon DEF TypeInv
<1>7. CASE SendShort(w)
  <2>1. TypeOK'
    BY <1>7, Zenon DEF SendShort, WorkPcs, KillPcs, TypeInv, TypeOK
  <2>2. Hands'
    BY <1>7 DEF SendShort, WorkPcs, KillPcs, TypeInv, TypeOK, Hands
  <2>3. Fresh'
    BY <1>7, EndFacts, Zenon DEF SendShort, WorkPcs, KillPcs, TypeInv, TypeOK, Fresh
  <2> QED BY <2>1, <2>2, <2>3, Zenon DEF TypeInv
<1>8. CASE SendRaise(w)
  <2>1. TypeOK'
    BY <1>8, ZenonT(60) DEF SendRaise, WorkPcs, KillPcs, TypeInv, TypeOK
  <2>2. Hands'
    BY <1>8 DEF SendRaise, WorkPcs, KillPcs, TypeInv, TypeOK, Hands
  <2>3. Fresh'
    BY <1>8, EndFacts, ZenonT(60) DEF SendRaise, WorkPcs, KillPcs, TypeInv, TypeOK, Fresh
  <2> QED BY <2>1, <2>2, <2>3, Zenon DEF TypeInv
<1>9. CASE WorkerKill(w)
  <2> PICK next \in KillPcs \cup {"ret"} :
        /\ killp(wpc[w], w, Opp(w), next)
        /\ wpc' = [wpc EXCEPT ![w] = IF next = "ret" THEN "done" ELSE next]
    BY <1>9, Zenon DEF WorkerKill
  <2>k. /\ wpc[w] \in KillPcs
        /\ fd' \in [Ends -> {"none", "open", "closed"}] /\ shut' \in [Ends -> BOOLEAN]
        /\ \A x \in Ends : fd'[x] = "none" => fd[x] = "none"
    BY <1>e, KillFacts, Zenon DEF TypeInv
  <2>w. wpc' \in [Ends -> WorkPcs] /\ wpc'[w] \in KillPcs \cup {"done"}
    BY ZenonT(60) DEF WorkPcs, TypeInv, TypeOK
  <2>u. UNCHANGED <<mpc, mconn, workers, todo, handler, printed, sigs, hold, part, tmp,
                    count, peer, tosend, inq, outq, rcvd, fwd>>
    BY <1>9, Zenon DEF WorkerKill
  <2>1. TypeOK'
    BY <2>k, <2>w, <2>u, Zenon DEF TypeInv, TypeOK
  <2>v. \A x \in Ends : x # w => wpc'[x] = wpc[x]
    BY Zenon DEF TypeInv, TypeOK
  <2>2. Hands'
    BY <2>k, <2>w, <2>u, <2>v, ZenonT(120) DEF KillPcs, TypeInv, TypeOK, Hands
  <2>n. /\ \A x \in Ends : wpc[x] = "none" => wpc'[x] = "none"
        /\ \A x \in Ends : fd'[x] = "none" => fd[x] = "none"
    BY <2>k, <2>w, <2>v, Zenon DEF KillPcs, TypeInv, TypeOK
  <2>3. Fresh'
    BY <2>n, <2>u, EndFacts, Zenon DEF TypeInv, TypeOK, Fresh
  <2> QED BY <2>1, <2>2, <2>3, Zenon DEF TypeInv
<1> QED BY <1>1, <1>2, <1>3, <1>4, <1>5, <1>6, <1>7, <1>8, <1>9, Zenon DEF worker

\* A worker that starts has no bytes in its hands, and neither had the idle one.
LEMMA HandsAfterStart ==
  ASSUME Hands, NEW x \in Ends, wpc[x] = "none", wpc \in [Ends -> WorkPcs],
         wpc' = [wpc EXCEPT ![x] = "call"], hold' = hold, part' = part
  PROVE  Hands'
<1> SUFFICES ASSUME NEW u \in Ends
             PROVE  /\ wpc'[u] \in {"load", "store", "send"} <=> hold[u] > 0
                    /\ part[u] => wpc'[u] = "send"
  BY Zenon DEF Hands
<1>1. wpc'[u] = IF u = x THEN "call" ELSE wpc[u]
  BY Zenon
<1> QED BY <1>1, Zenon DEF Hands

\* Every step of the main thread starts workers only on fresh connections.
LEMMA TypeInvMain ==
  ASSUME TypeInv, doProxyMain
  PROVE  TypeInv'
<1> USE ConstantsOK, EndFacts DEF sigVars, workVars, sockVars, peerVars, histVars
<1>1. CASE Listen
  <2>1. TypeOK'
    BY <1>1, Zenon DEF Listen, MainAt, MainPcs, TryPcs, KillPcs, TypeInv, TypeOK
  <2>2. Hands'
    BY <1>1, Zenon DEF Listen, TypeInv, Hands
  <2>3. Fresh'
    BY <1>1, Zenon DEF Listen, MainAt, MainPcs, TryPcs, KillPcs, TypeInv, TypeOK, Fresh
  <2> QED BY <2>1, <2>2, <2>3, Zenon DEF TypeInv
<1>2. CASE Connect
  <2>1. TypeOK'
    BY <1>2, Zenon DEF Connect, MainAt, MainPcs, TryPcs, KillPcs, TypeInv, TypeOK
  <2>2. Hands'
    BY <1>2, Zenon DEF Connect, TypeInv, Hands
  <2>3. Fresh'
    BY <1>2, ZenonT(60) DEF Connect, MainAt, MainPcs, TryPcs, KillPcs, TypeInv, TypeOK, Fresh
  <2> QED BY <2>1, <2>2, <2>3, Zenon DEF TypeInv
<1>3. CASE StartWorker("start2", "v", "start1")
  <2>m. mconn \in Conns /\ <<mconn, "v">> \in Ends /\ wpc[<<mconn, "v">>] = "none"
    BY <1>3, Zenon DEF StartWorker, MainAt, TypeInv, TypeOK, Fresh
  <2>1. TypeOK'
    BY <1>3, <2>m, Zenon DEF StartWorker, MainPcs, TryPcs, WorkPcs, TypeInv, TypeOK
  <2>w. /\ wpc' = [wpc EXCEPT ![<<mconn, "v">>] = "call"]
        /\ hold' = hold /\ part' = part /\ wpc \in [Ends -> WorkPcs]
    BY <1>3, Zenon DEF StartWorker, TypeInv, TypeOK
  <2>2. Hands'
    BY <2>m, <2>w, HandsAfterStart, Zenon DEF TypeInv
  <2>f. fd[<<mconn, "k">>] # "none"
    BY <1>3, <2>m, Zenon DEF StartWorker, MainAt, TypeInv, Fresh
  <2>3. Fresh'
    BY <1>3, <2>m, <2>f, Zenon DEF StartWorker, MainAt, TypeInv, TypeOK, Fresh
  <2> QED BY <2>1, <2>2, <2>3, Zenon DEF TypeInv
<1>4. CASE StartWorker("start1", "k", "append")
  <2>m. mconn \in Conns /\ <<mconn, "k">> \in Ends /\ wpc[<<mconn, "k">>] = "none"
    BY <1>4, Zenon DEF StartWorker, MainAt, TypeInv, TypeOK, Fresh
  <2>1. TypeOK'
    BY <1>4, <2>m, Zenon DEF StartWorker, MainPcs, TryPcs, WorkPcs, TypeInv, TypeOK
  <2>w. /\ wpc' = [wpc EXCEPT ![<<mconn, "k">>] = "call"]
        /\ hold' = hold /\ part' = part /\ wpc \in [Ends -> WorkPcs]
    BY <1>4, Zenon DEF StartWorker, TypeInv, TypeOK
  <2>2. Hands'
    BY <2>m, <2>w, HandsAfterStart, Zenon DEF TypeInv
  <2>f. fd[<<mconn, "k">>] # "none"
    BY <1>4, <2>m, Zenon DEF StartWorker, MainAt, TypeInv, Fresh
  <2>3. Fresh'
    BY <1>4, <2>m, <2>f, ZenonT(60) DEF StartWorker, MainAt, TypeInv, TypeOK, Fresh
  <2> QED BY <2>1, <2>2, <2>3, Zenon DEF TypeInv
<1>5. CASE Register
  <2>a. mconn \in Conns /\ workers' \in Seq(Conns)
    BY <1>5 DEF Register, MainAt, TypeInv, TypeOK
  <2>1. TypeOK'
    BY <1>5, <2>a, Zenon DEF Register, MainPcs, TryPcs, TypeInv, TypeOK
  <2>2. Hands'
    BY <1>5, Zenon DEF Register, TypeInv, Hands
  <2>3. Fresh'
    BY <1>5, Zenon DEF Register, MainAt, MainPcs, TryPcs, KillPcs, TypeInv, TypeOK, Fresh
  <2> QED BY <2>1, <2>2, <2>3, Zenon DEF TypeInv
<1>6. CASE MainFails
  <2>1. TypeOK'
    BY <1>6, Zenon DEF MainFails, MainAt, MainPcs, TryPcs, KillPcs, RaisedTo, TypeInv, TypeOK
  <2>2. Hands'
    BY <1>6, Zenon DEF MainFails, TypeInv, Hands
  <2>3. Fresh'
    BY <1>6, Zenon DEF MainFails, MainAt, MainPcs, TryPcs, KillPcs, RaisedTo, TypeInv, TypeOK, Fresh
  <2> QED BY <2>1, <2>2, <2>3, Zenon DEF TypeInv
<1>7. CASE NextToClean
  <2>a. ASSUME todo = <<>> PROVE TypeOK'
    BY <1>7, <2>a, ZenonT(60) DEF NextToClean, MainPcs, TypeInv, TypeOK
  <2>b. ASSUME todo # <<>> PROVE TypeOK'
    <3>1. Head(todo) \in Conns /\ Tail(todo) \in Seq(Conns)
      BY <2>b, SMTT(60) DEF TypeInv, TypeOK
    <3> QED BY <1>7, <2>b, <3>1, ZenonT(60) DEF NextToClean, MainPcs, KillPcs, TypeInv, TypeOK
  <2>1. TypeOK'
    BY <2>a, <2>b, Zenon
  <2>2. Hands'
    BY <1>7, Zenon DEF NextToClean, TypeInv, Hands
  <2>3. Fresh'
    BY <1>7, Zenon DEF NextToClean, MainAt, MainPcs, TryPcs, KillPcs, TypeInv, TypeOK, Fresh
  <2> QED BY <2>1, <2>2, <2>3, Zenon DEF TypeInv
<1>8. CASE MainKill
  <2> PICK next \in KillPcs \cup {"ret"} :
        /\ killp(mpc, <<mconn, "k">>, <<mconn, "v">>, next)
        /\ mpc' = IF next = "ret" THEN "join1" ELSE next
    BY <1>8, Zenon DEF MainKill
  <2>p. mpc \in KillPcs
    BY Zenon DEF killp, KillPcs
  <2>m. mconn \in Conns
    BY <2>p, Zenon DEF KillPcs, TypeInv, TypeOK
  <2>k. /\ fd' \in [Ends -> {"none", "open", "closed"}] /\ shut' \in [Ends -> BOOLEAN]
        /\ \A x \in Ends : fd'[x] = "none" => fd[x] = "none"
    BY <2>m, KillFacts, Zenon DEF TypeInv
  <2>w. mpc' \in KillPcs \cup {"join1"}
    BY Zenon
  <2>u. UNCHANGED <<mconn, workers, todo, handler, printed, sigs, wpc, hold, part, tmp,
                    count, peer, tosend, inq, outq, rcvd, fwd>>
    BY <1>8, Zenon DEF MainKill
  <2>1. TypeOK'
    BY <2>k, <2>m, <2>w, <2>u, Zenon DEF MainPcs, TypeInv, TypeOK
  <2>2. Hands'
    BY <2>u, Zenon DEF TypeInv, Hands
  <2>3. Fresh'
    BY <2>k, <2>w, <2>u, Zenon DEF KillPcs, TypeInv, Fresh
  <2> QED BY <2>1, <2>2, <2>3, Zenon DEF TypeInv
<1>9. CASE Join("join1", "k", "join2")
  <2>1. TypeOK'
    BY <1>9, Zenon DEF Join, MainAt, MainPcs, TryPcs, KillPcs, TypeInv, TypeOK
  <2>2. Hands'
    BY <1>9, Zenon DEF Join, TypeInv, Hands
  <2>3. Fresh'
    BY <1>9, Zenon DEF Join, MainAt, MainPcs, TryPcs, KillPcs, TypeInv, TypeOK, Fresh
  <2> QED BY <2>1, <2>2, <2>3, Zenon DEF TypeInv
<1>10. CASE Join("join2", "v", "clean")
  <2>1. TypeOK'
    BY <1>10, Zenon DEF Join, MainAt, MainPcs, TryPcs, KillPcs, TypeInv, TypeOK
  <2>2. Hands'
    BY <1>10, Zenon DEF Join, TypeInv, Hands
  <2>3. Fresh'
    BY <1>10, Zenon DEF Join, MainAt, MainPcs, TryPcs, KillPcs, TypeInv, TypeOK, Fresh
  <2> QED BY <2>1, <2>2, <2>3, Zenon DEF TypeInv
<1>11. ASSUME NEW c \in Conns, Accept(c) PROVE TypeInv'
  <2>1. TypeOK'
    BY <1>11, Zenon DEF Accept, MainAt, MainPcs, TryPcs, KillPcs, TypeInv, TypeOK
  <2>2. Hands'
    BY <1>11, Zenon DEF Accept, TypeInv, Hands
  <2>3. Fresh'
    BY <1>11, ZenonT(60) DEF Accept, MainAt, MainPcs, TryPcs, KillPcs, TypeInv, TypeOK, Fresh
  <2> QED BY <2>1, <2>2, <2>3, Zenon DEF TypeInv
<1> QED BY <1>1, <1>2, <1>3, <1>4, <1>5, <1>6, <1>7, <1>8, <1>9, <1>10, <1>11, Zenon DEF doProxyMain

\* So do the signal handlers, which only move the main thread on.
LEMMA TypeInvSignal ==
  ASSUME TypeInv, inthandler \/ Sigterm
  PROVE  TypeInv'
<1> USE ConstantsOK DEF mainVars, workVars, sockVars, peerVars, histVars
<1>1. CASE Sigint
  <2>1. TypeOK'
    BY <1>1, SMTT(60) DEF Sigint, TypeInv, TypeOK
  <2>2. Hands'
    BY <1>1, Zenon DEF Sigint, TypeInv, Hands
  <2>3. Fresh'
    BY <1>1, Zenon DEF Sigint, TypeInv, TypeOK, Fresh
  <2> QED BY <2>1, <2>2, <2>3, Zenon DEF TypeInv
<1>2. CASE Sigterm
  <2>1. TypeOK'
    BY <1>2 DEF Sigterm, TypeInv, TypeOK
  <2>2. Hands'
    BY <1>2, Zenon DEF Sigterm, TypeInv, Hands
  <2>3. Fresh'
    BY <1>2, Zenon DEF Sigterm, TypeInv, TypeOK, Fresh
  <2> QED BY <2>1, <2>2, <2>3, Zenon DEF TypeInv
<1>3. CASE PrintC2S
  <2>1. TypeOK'
    BY <1>3, Zenon DEF PrintC2S, Sides, TypeInv, TypeOK
  <2>2. Hands'
    BY <1>3, Zenon DEF PrintC2S, TypeInv, Hands
  <2>3. Fresh'
    BY <1>3, Zenon DEF PrintC2S, TypeInv, TypeOK, Fresh
  <2> QED BY <2>1, <2>2, <2>3, Zenon DEF TypeInv
<1>4. CASE PrintS2C
  <2>1. TypeOK'
    BY <1>4, Zenon DEF PrintS2C, Sides, TypeInv, TypeOK
  <2>2. Hands'
    BY <1>4, Zenon DEF PrintS2C, TypeInv, Hands
  <2>3. Fresh'
    BY <1>4, Zenon DEF PrintS2C, TypeInv, TypeOK, Fresh
  <2> QED BY <2>1, <2>2, <2>3, Zenon DEF TypeInv
<1>5. CASE PrintTotal
  <2>m. mpc' \in MainPcs /\ (mpc' \notin {"bind", "accept", "clean", "end"} => mconn \in Conns)
    BY <1>5, Zenon DEF PrintTotal, RaisedTo, MainPcs, TryPcs, KillPcs, TypeInv, TypeOK
  <2>p. printed' \in [c2s : Nat, s2c : Nat, total : Nat]
    <3>1. count["k"] + count["v"] \in Nat
      BY SMTT(60) DEF Sides, TypeInv, TypeOK
    <3>2. /\ printed \in [c2s : Nat, s2c : Nat, total : Nat]
          /\ printed' = [printed EXCEPT !.total = count["k"] + count["v"]]
      BY <1>5, Zenon DEF PrintTotal, TypeInv, TypeOK
    <3> QED BY <3>1, <3>2, Zenon
  <2>1. TypeOK'
    BY <1>5, <2>m, <2>p, Zenon DEF PrintTotal, TypeInv, TypeOK
  <2>2. Hands'
    BY <1>5, Zenon DEF PrintTotal, TypeInv, Hands
  <2>3. Fresh'
    BY <1>5, Zenon DEF PrintTotal, RaisedTo, MainPcs, TryPcs, KillPcs, TypeInv, TypeOK, Fresh
  <2> QED BY <2>1, <2>2, <2>3, Zenon DEF TypeInv
<1> QED BY <1>1, <1>2, <1>3, <1>4, <1>5, Zenon DEF inthandler

\* And the peers, which touch no thread.
LEMMA TypeInvPeers ==
  ASSUME TypeInv, Peers
  PROVE  TypeInv'
<1> USE ConstantsOK DEF mainVars, sigVars, workVars, sockVars, peerVars, histVars
<1> PICK x \in Ends : PeerSend(x) \/ PeerRead(x) \/ PeerFin(x) \/ PeerReset(x)
  BY Zenon DEF Peers
<1>1. CASE PeerSend(x)
  <2>y. /\ tosend \in [Ends -> Nat] /\ inq \in [Ends -> Nat] /\ tosend[x] > 0
        /\ tosend' = [tosend EXCEPT ![x] = @ - 1] /\ inq' = [inq EXCEPT ![x] = @ + 1]
    BY <1>1, Zenon DEF PeerSend, TypeInv, TypeOK
  <2>t. tosend' \in [Ends -> Nat]
    BY <2>y, SMTT(30)
  <2>i. inq' \in [Ends -> Nat]
    BY <2>y, SMTT(30)
  <2>1. TypeOK'
    BY <1>1, <2>t, <2>i, Zenon DEF PeerSend, TypeInv, TypeOK
  <2>2. Hands'
    BY <1>1, Zenon DEF PeerSend, TypeInv, Hands
  <2>3. Fresh'
    BY <1>1, Zenon DEF PeerSend, TypeInv, TypeOK, Fresh
  <2> QED BY <2>1, <2>2, <2>3, Zenon DEF TypeInv
<1>2. CASE PeerRead(x)
  <2>o. outq' \in [Ends -> 0 .. SndBuf]
    <3>1. /\ outq \in [Ends -> 0 .. SndBuf] /\ outq[x] > 0
          /\ outq' = [outq EXCEPT ![x] = @ - 1]
      BY <1>2, Zenon DEF PeerRead, TypeInv, TypeOK
    <3> QED BY <3>1, SMTT(30)
  <2>1. TypeOK'
    BY <1>2, <2>o, Zenon DEF PeerRead, TypeInv, TypeOK
  <2>2. Hands'
    BY <1>2, Zenon DEF PeerRead, TypeInv, Hands
  <2>3. Fresh'
    BY <1>2, Zenon DEF PeerRead, TypeInv, TypeOK, Fresh
  <2> QED BY <2>1, <2>2, <2>3, Zenon DEF TypeInv
<1>3. CASE PeerFin(x)
  <2>1. TypeOK'
    BY <1>3, Zenon DEF PeerFin, TypeInv, TypeOK
  <2>2. Hands'
    BY <1>3, Zenon DEF PeerFin, TypeInv, Hands
  <2>3. Fresh'
    BY <1>3, Zenon DEF PeerFin, TypeInv, TypeOK, Fresh
  <2> QED BY <2>1, <2>2, <2>3, Zenon DEF TypeInv
<1>4. CASE PeerReset(x)
  <2>1. TypeOK'
    BY <1>4, Zenon DEF PeerReset, TypeInv, TypeOK
  <2>2. Hands'
    BY <1>4, Zenon DEF PeerReset, TypeInv, Hands
  <2>3. Fresh'
    BY <1>4, Zenon DEF PeerReset, TypeInv, TypeOK, Fresh
  <2> QED BY <2>1, <2>2, <2>3, Zenon DEF TypeInv
<1> QED BY <1>1, <1>2, <1>3, <1>4, Zenon

\* The inductive step of the type invariant.
LEMMA TypeInvNext == TypeInv /\ [Next]_vars => TypeInv'
<1> SUFFICES ASSUME TypeInv, [Next]_vars PROVE TypeInv'
  BY Zenon
<1>1. CASE UNCHANGED vars
  BY <1>1, Zenon DEF vars, mainVars, sigVars, workVars, sockVars, peerVars, histVars,
              TypeInv, TypeOK, Hands, Fresh
<1> QED BY <1>1, TypeInvWorker, TypeInvMain, TypeInvSignal, TypeInvPeers, Zenon DEF Next

\* Every reachable state of the proxy is well typed, whatever its threads,
\* its peers and the signals do.
THEOREM TypeCorrect == Spec => []TypeOK
<1>1. TypeInv => TypeOK BY Zenon DEF TypeInv
<1> QED BY <1>1, TypeInvInit, TypeInvNext, PTL DEF Spec
-----------------------------------------------------------------------------
(***************************************************************************)
(* Sockets of the proxy are shut down before they are closed.              *)
(***************************************************************************)

\* A thread about to close a socket has shut it down.
KillOrder ==
  /\ \A w \in Ends : wpc[w] = "closeA" => shut[w]
  /\ \A w \in Ends : wpc[w] = "closeB" => shut[Opp(w)]
  /\ mpc = "closeA" => shut[<<mconn, "k">>]
  /\ mpc = "closeB" => shut[<<mconn, "v">>]

CloseInv == ClosedWasShut /\ KillOrder

\* A step that neither closes nor sets up a socket, nor brings a thread to a
\* close, keeps CloseInv.
LEMMA CloseInvKept ==
  ASSUME TypeInv, CloseInv, UNCHANGED sockVars, TypeOK',
         \A w \in Ends : wpc'[w] # wpc[w] => wpc'[w] \notin {"closeA", "closeB"},
         <<mpc, mconn>>' # <<mpc, mconn>> => mpc' \notin {"closeA", "closeB"}
  PROVE  CloseInv'
<1>1. ClosedWasShut'
  BY Zenon DEF sockVars, CloseInv, ClosedWasShut
<1>2. KillOrder'
  BY Zenon DEF sockVars, CloseInv, KillOrder
<1> QED BY <1>1, <1>2, Zenon DEF CloseInv

\* The steps of a worker: only its killp touches a socket.
LEMMA CloseInvWorker ==
  ASSUME TypeInv, CloseInv, NEW w \in Ends, worker(w), TypeInv'
  PROVE  CloseInv'
<1>1. CASE WorkerKill(w)
  <2> PICK next \in KillPcs \cup {"ret"} :
        /\ killp(wpc[w], w, Opp(w), next)
        /\ wpc' = [wpc EXCEPT ![w] = IF next = "ret" THEN "done" ELSE next]
    BY <1>1, Zenon DEF WorkerKill
  <2>k. /\ \A x \in Ends : shut[x] => shut'[x]
        /\ \A x \in Ends : fd'[x] = "closed" /\ fd[x] # "closed" =>
             (wpc[w] = "closeA" /\ x = w) \/ (wpc[w] = "closeB" /\ x = Opp(w))
        /\ next = "closeA" => shut'[w]
        /\ next = "closeB" => shut'[Opp(w)]
    BY EndFacts, KillFacts DEF TypeInv
  <2>1. ClosedWasShut'
    BY <2>k, EndFacts, Zenon DEF CloseInv, ClosedWasShut, KillOrder
  <2>m. UNCHANGED <<mpc, mconn>>
    BY <1>1, Zenon DEF WorkerKill, mainVars
  <2>c. mpc \in {"closeA", "closeB"} => mconn \in Conns
    BY Zenon DEF TypeInv, TypeOK
  <2>w. /\ wpc'[w] \in {"closeA", "closeB"} => wpc'[w] = next
        /\ \A u \in Ends : u # w => wpc'[u] = wpc[u]
    BY ZenonT(60) DEF TypeInv, TypeOK
  <2>2. KillOrder'
    BY <2>k, <2>m, <2>c, <2>w, EndFacts DEF CloseInv, KillOrder
  <2> QED BY <2>1, <2>2, Zenon DEF CloseInv
<1>2. ASSUME \/ RecvCall(w) \/ RecvData(w) \/ RecvEnd(w) \/ LoadCount(w) \/ StoreCount(w)
             \/ SendByte(w) \/ SendShort(w) \/ SendRaise(w)
      PROVE  CloseInv'
  <2>1. UNCHANGED <<mpc, mconn>> /\ UNCHANGED sockVars
    BY <1>2, Zenon DEF RecvCall, RecvData, RecvEnd, LoadCount, StoreCount, SendByte, SendShort,
                SendRaise, mainVars
  <2>2. \E p \in {"shutA", "recv", "load", "store", "send", "call"} : wpc' = [wpc EXCEPT ![w] = p]
    BY <1>2, Zenon DEF RecvCall, RecvData, RecvEnd, LoadCount, StoreCount, SendByte, SendShort, SendRaise
  <2>3. \A u \in Ends : wpc'[u] # wpc[u] => wpc'[u] \notin {"closeA", "closeB"}
    BY <2>2, ZenonT(60) DEF TypeInv, TypeOK
  <2> QED BY <2>1, <2>3, CloseInvKept, Zenon DEF TypeInv
<1> QED BY <1>1, <1>2, Zenon DEF worker

\* The steps of the main thread, which kills each registered pair in turn.
LEMMA CloseInvMain ==
  ASSUME TypeInv, CloseInv, doProxyMain, TypeInv'
  PROVE  CloseInv'
<1> USE DEF workVars
<1>1. CASE MainKill
  <2> PICK next \in KillPcs \cup {"ret"} :
        /\ killp(mpc, <<mconn, "k">>, <<mconn, "v">>, next)
        /\ mpc' = IF next = "ret" THEN "join1" ELSE next
    BY <1>1, Zenon DEF MainKill
  <2>p. mpc \in KillPcs
    BY Zenon DEF killp, KillPcs
  <2>m. mconn \in Conns
    BY <2>p, Zenon DEF KillPcs, TypeInv, TypeOK
  <2>k. /\ \A x \in Ends : shut[x] => shut'[x]
        /\ \A x \in Ends : fd'[x] = "closed" /\ fd[x] # "closed" =>
             \/ mpc = "closeA" /\ x = <<mconn, "k">>
             \/ mpc = "closeB" /\ x = <<mconn, "v">>
        /\ next = "closeA" => shut'[<<mconn, "k">>]
        /\ next = "closeB" => shut'[<<mconn, "v">>]
    BY <2>m, EndFacts, KillFacts DEF TypeInv
  <2>u. UNCHANGED <<mconn, wpc>>
    BY <1>1, Zenon DEF MainKill
  <2>1. ClosedWasShut'
    BY <2>k, <2>m, EndFacts, Zenon DEF CloseInv, ClosedWasShut, KillOrder
  <2>2. KillOrder'
    BY <2>k, <2>m, <2>u, EndFacts, Zenon DEF CloseInv, KillOrder
  <2> QED BY <2>1, <2>2, Zenon DEF CloseInv
<1>2. ASSUME NEW x \in Ends, fd' = [fd EXCEPT ![x] = "open"], UNCHANGED <<shut, wpc>>,
             mpc' \in {"connect", "start2"}
      PROVE  CloseInv'
  BY <1>2, ZenonT(60) DEF CloseInv, ClosedWasShut, KillOrder, TypeInv, TypeOK
<1>3. ASSUME NEW c \in Conns, Accept(c) PROVE CloseInv'
  BY <1>2, <1>3, EndFacts, Zenon DEF Accept
<1>4. CASE Connect
  <2>1. mconn \in Conns
    BY <1>4, Zenon DEF Connect, MainAt, TypeInv, TypeOK
  <2> QED BY <1>2, <1>4, <2>1, EndFacts, Zenon DEF Connect
<1>5. ASSUME NEW s \in Sides, NEW pc \in {"start1", "start2"}, NEW next \in {"start1", "append"},
             StartWorker(pc, s, next)
      PROVE  CloseInv'
  <2>1. \A w \in Ends : wpc'[w] # wpc[w] => wpc'[w] \notin {"closeA", "closeB"}
    BY <1>5, Zenon DEF StartWorker, TypeInv, TypeOK
  <2> QED BY <1>5, <2>1, CloseInvKept, Zenon DEF StartWorker, TypeInv
<1>6. ASSUME UNCHANGED <<sockVars, workVars>>, mpc' \notin {"closeA", "closeB"}
      PROVE  CloseInv'
  BY <1>6, CloseInvKept, Zenon DEF TypeInv
<1>7. CASE Listen \/ Register \/ NextToClean
           \/ Join("join1", "k", "join2") \/ Join("join2", "v", "clean")
  BY <1>6, <1>7, Zenon DEF Listen, Register, NextToClean, Join
<1>8. CASE MainFails
  BY <1>6, <1>8, Zenon DEF MainFails, RaisedTo, TryPcs, KillPcs
<1> QED BY <1>1, <1>3, <1>4, <1>5, <1>7, <1>8, Zenon DEF doProxyMain, Sides

\* The inductive step for the other actors: they touch no descriptor, and a
\* signal takes the main thread out of killp, never into it.
LEMMA CloseInvNext == TypeInv /\ TypeInv' /\ CloseInv /\ [Next]_vars => CloseInv'
<1> SUFFICES ASSUME TypeInv, TypeInv', CloseInv, [Next]_vars PROVE CloseInv'
  BY Zenon
<1> USE DEF mainVars, workVars, sockVars
<1>1. ASSUME UNCHANGED <<sockVars, workVars>>,
             UNCHANGED mainVars \/ mpc' \notin {"closeA", "closeB"}
      PROVE  CloseInv'
  BY <1>1, CloseInvKept, Zenon DEF TypeInv
<1>2. CASE inthandler \/ Sigterm
  BY <1>1, <1>2, Zenon DEF inthandler, Sigint, Sigterm, PrintC2S, PrintS2C, PrintTotal, RaisedTo,
                    TryPcs, KillPcs
<1>3. CASE Peers
  BY <1>1, <1>3, Zenon DEF Peers, PeerSend, PeerRead, PeerFin, PeerReset
<1>4. CASE UNCHANGED vars
  BY <1>1, <1>4, Zenon DEF vars
<1> QED BY <1>2, <1>3, <1>4, CloseInvWorker, CloseInvMain, Zenon DEF Next

\* killp of the workers and of the final loop never closes a socket that was
\* not shut down first, so no thread sleeps on a closed socket for ever.
THEOREM ShutBeforeClose == Spec => []ClosedWasShut
<1>1. Init => CloseInv
  BY EndFacts, ZenonT(60) DEF Init, CloseInv, ClosedWasShut, KillOrder
<1>2. CloseInv => ClosedWasShut
  BY Zenon DEF CloseInv
<1> QED BY <1>1, <1>2, TypeInvInit, TypeInvNext, CloseInvNext, PTL DEF Spec

-----------------------------------------------------------------------------
(***************************************************************************)
(* No byte is lost in the proxy while the connection it is meant for is    *)
(* up, and a worker gives up only when it has forwarded everything.        *)
(***************************************************************************)

\* Conservation: every byte a peer means to send is still with it, in the
\* kernel, or was received; and a worker forwards only what it received.
Conserved ==
  \A w \in Ends :
    /\ rcvd[w] + inq[w] + tosend[w] = Payload[w[2]]
    /\ fwd[w] + hold[w] <= rcvd[w]

FlowInv == Conserved /\ NoSilentLoss /\ GiveUpOnlyWhenDrained

\* A connection that is down stays down.
LEMMA DownForEver ==
  ASSUME TypeInv, [Next]_vars, NEW x \in Ends, Down(x)
  PROVE  Down(x)'
<1> USE DEF Down, mainVars, sigVars, workVars, sockVars, peerVars, histVars
<1>1. ASSUME NEW a \in Ends, NEW b \in Ends, NEW pc, NEW next, killp(pc, a, b, next), UNCHANGED peer
      PROVE  Down(x)'
  BY <1>1, KillFacts, Zenon DEF TypeInv
<1>2. ASSUME NEW w \in Ends, worker(w) PROVE Down(x)'
  <2>1. CASE WorkerKill(w)
    BY <1>1, <2>1, EndFacts, Zenon DEF WorkerKill
  <2>2. CASE UNCHANGED <<sockVars, peerVars>>
    BY <2>2, Zenon
  <2> QED BY <1>2, <2>1, <2>2, Zenon DEF worker, RecvCall, RecvData, RecvEnd, LoadCount, StoreCount,
             SendByte, SendShort, SendRaise
<1>3. CASE doProxyMain
  <2>1. CASE MainKill
    <3>1. mconn \in Conns
      BY <2>1, Zenon DEF MainKill, killp, TypeInv, TypeOK
    <3> QED BY <1>1, <2>1, <3>1, EndFacts, Zenon DEF MainKill
  <2>2. CASE UNCHANGED <<shut, peerVars>>
    BY <2>2, Zenon
  <2> QED BY <1>3, <2>1, <2>2, Zenon DEF doProxyMain, Listen, Accept, Connect, StartWorker, Register,
             MainFails, NextToClean, Join
<1>4. CASE Peers
  BY <1>4, ZenonT(60) DEF Peers, PeerSend, PeerRead, PeerFin, PeerReset, TypeInv, TypeOK
<1>5. CASE inthandler \/ Sigterm \/ UNCHANGED vars
  BY <1>5, Zenon DEF inthandler, Sigint, Sigterm, PrintC2S, PrintS2C, PrintTotal, vars
<1> QED BY <1>2, <1>3, <1>4, <1>5, Zenon DEF Next

\* A step that moves no byte, ends no direction and sends no worker to killp
\* keeps FlowInv.
LEMMA FlowInvKept ==
  ASSUME TypeInv, TypeInv', FlowInv, [Next]_vars,
         UNCHANGED <<hold, inq, tosend, histVars>>,
         \A w \in Ends : wpc'[w] = "shutA" /\ wpc[w] # "shutA" => Down(w) \/ Down(Opp(w)),
         \A w \in Ends : peer'[w] = peer[w] \/ peer'[w] = "reset" \/ peer[w] = "open"
  PROVE  FlowInv'
<1>1. Conserved'
  BY Zenon DEF FlowInv, Conserved, histVars
<1>2. NoSilentLoss'
  BY DownForEver, EndFacts, Zenon DEF FlowInv, NoSilentLoss, histVars
<1>3. GiveUpOnlyWhenDrained'
  <2> SUFFICES ASSUME NEW w \in Ends, wpc'[w] = "shutA", ~Down(w)', ~Down(Opp(w))'
               PROVE  peer'[w] = "fin" /\ fwd'[w] = Payload[w[2]] - tosend'[w]
    BY Zenon DEF GiveUpOnlyWhenDrained, Down
  <2>1. ~Down(w) /\ ~Down(Opp(w)) /\ wpc[w] = "shutA"
    BY DownForEver, EndFacts, Zenon
  <2>2. peer[w] = "fin" /\ fwd[w] = Payload[w[2]] - tosend[w]
    BY <2>1, Zenon DEF FlowInv, GiveUpOnlyWhenDrained
  <2> QED BY <2>2, Zenon DEF Down, histVars
<1> QED BY <1>1, <1>2, <1>3, Zenon DEF FlowInv

\* A step that changes one direction w only, and not the state of any
\* connection, keeps FlowInv if it keeps it for w.
LEMMA FlowInvLocal ==
  ASSUME TypeInv, TypeInv', FlowInv, NEW w \in Ends, UNCHANGED <<sockVars, peer>>,
         \A u \in Ends : u # w =>
           /\ wpc'[u] = wpc[u] /\ hold'[u] = hold[u] /\ inq'[u] = inq[u]
           /\ tosend'[u] = tosend[u] /\ rcvd'[u] = rcvd[u] /\ fwd'[u] = fwd[u],
         rcvd'[w] + inq'[w] + tosend'[w] = rcvd[w] + inq[w] + tosend[w],
         fwd'[w] + hold'[w] <= rcvd'[w],
         rcvd'[w] # fwd'[w] + hold'[w] => Down(Opp(w)),
         wpc'[w] = "shutA" /\ ~Down(w) /\ ~Down(Opp(w)) =>
           peer[w] = "fin" /\ fwd'[w] = Payload[w[2]] - tosend'[w]
  PROVE  FlowInv'
<1>d. \A u \in Ends : Down(u)' = Down(u) /\ Down(Opp(u))' = Down(Opp(u))
  BY Zenon DEF Down, sockVars
<1>1. Conserved'
  BY ZenonT(60) DEF FlowInv, Conserved
<1>2. NoSilentLoss'
  BY <1>d, Zenon DEF FlowInv, NoSilentLoss, Down, sockVars
<1>3. GiveUpOnlyWhenDrained'
  BY <1>d, ZenonT(60) DEF FlowInv, GiveUpOnlyWhenDrained, Down, sockVars
<1> QED BY <1>1, <1>2, <1>3, Zenon DEF FlowInv

\* The steps of a worker.
LEMMA FlowInvWorker ==
  ASSUME TypeInv, TypeInv', CloseInv, FlowInv, NEW w \in Ends, worker(w), [Next]_vars
  PROVE  FlowInv'
<1> USE ConstantsOK DEF sockVars, peerVars, histVars
<1>e. Opp(w) \in Ends /\ w[2] \in Sides
  BY EndFacts, Zenon
<1>t. /\ hold[w] \in Nat /\ rcvd[w] \in Nat /\ fwd[w] \in Nat /\ inq[w] \in Nat /\ tosend[w] \in Nat
      /\ hold'[w] \in Nat /\ Payload[w[2]] \in Nat
  BY <1>e, ZenonT(60) DEF TypeInv, TypeOK
<1>f. /\ rcvd[w] + inq[w] + tosend[w] = Payload[w[2]]
      /\ fwd[w] + hold[w] <= rcvd[w]
      /\ rcvd[w] # fwd[w] + hold[w] => Down(Opp(w))
  BY Zenon DEF FlowInv, Conserved, NoSilentLoss
<1>h. /\ wpc[w] = "recv" => hold[w] = 0
      /\ wpc[w] = "send" => hold[w] > 0
  BY <1>t DEF TypeInv, Hands
<1>1. CASE RecvCall(w)
  <2>1. fd[w] = "closed" => Down(w)
    BY Zenon DEF CloseInv, ClosedWasShut, Down
  <2> QED BY <1>1, <2>1, FlowInvKept, ZenonT(120) DEF RecvCall, TypeInv, TypeOK
<1>2. CASE RecvData(w)
  <2> DEFINE n == Smaller(inq[w], Chunk)
  <2>1. n \in Nat
    BY <1>t, Zenon DEF Smaller
  <2>2. /\ hold' = [hold EXCEPT ![w] = n]
        /\ inq' = [inq EXCEPT ![w] = @ - n]
        /\ rcvd' = [rcvd EXCEPT ![w] = @ + n]
        /\ wpc' = [wpc EXCEPT ![w] = "load"]
        /\ wpc[w] = "recv"
        /\ UNCHANGED <<sockVars, peer, tosend, fwd>>
    BY <1>2, Zenon DEF RecvData
  <2> HIDE DEF n
  <2>3. /\ hold'[w] = n /\ inq'[w] = inq[w] - n /\ rcvd'[w] = rcvd[w] + n /\ wpc'[w] = "load"
        /\ fwd'[w] = fwd[w] /\ tosend'[w] = tosend[w]
    BY <2>2 DEF TypeInv, TypeOK
  <2>4. \A u \in Ends : u # w =>
           /\ wpc'[u] = wpc[u] /\ hold'[u] = hold[u] /\ inq'[u] = inq[u]
           /\ tosend'[u] = tosend[u] /\ rcvd'[u] = rcvd[u] /\ fwd'[u] = fwd[u]
    BY <2>2 DEF TypeInv, TypeOK
  <2>5. /\ rcvd'[w] + inq'[w] + tosend'[w] = rcvd[w] + inq[w] + tosend[w]
        /\ fwd'[w] + hold'[w] <= rcvd'[w]
        /\ rcvd'[w] # fwd'[w] + hold'[w] => Down(Opp(w))
    BY <1>f, <1>h, <1>t, <2>1, <2>2, <2>3, SMTT(60)
  <2> QED BY <2>2, <2>3, <2>4, <2>5, FlowInvLocal, Zenon
<1>3. CASE RecvEnd(w)
  <2>1. /\ wpc[w] = "recv" /\ inq[w] = 0 /\ (peer[w] # "open" \/ shut[w])
        /\ wpc' = [wpc EXCEPT ![w] = "shutA"]
        /\ UNCHANGED <<sockVars, peer, hold, inq, tosend, rcvd, fwd>>
    BY <1>3, Zenon DEF RecvEnd
  <2>2. ~Down(w) => peer[w] = "fin"
    BY <2>1, Zenon DEF Down, TypeInv, TypeOK
  <2>3. ~Down(Opp(w)) => fwd[w] = Payload[w[2]] - tosend[w]
    BY <1>f, <1>h, <1>t, <2>1
  <2>4. \A u \in Ends : u # w => wpc'[u] = wpc[u]
    BY <2>1, ZenonT(120) DEF TypeInv, TypeOK
  <2> QED BY <1>f, <2>1, <2>2, <2>3, <2>4, FlowInvLocal, ZenonT(60)
<1>4. CASE LoadCount(w)
  BY <1>4, FlowInvKept, ZenonT(60) DEF LoadCount, TypeInv, TypeOK
<1>5. CASE StoreCount(w)
  BY <1>5, FlowInvKept, ZenonT(60) DEF StoreCount, TypeInv, TypeOK
<1>6. CASE SendByte(w)
  <2>1. /\ wpc[w] = "send"
        /\ fwd' = [fwd EXCEPT ![w] = @ + 1]
        /\ hold' = [hold EXCEPT ![w] = @ - 1]
        /\ wpc' = [wpc EXCEPT ![w] = IF hold[w] > 1 THEN "send" ELSE "call"]
        /\ UNCHANGED <<sockVars, peer, inq, tosend, rcvd>>
    BY <1>6, Zenon DEF SendByte
  <2>2. fwd'[w] = fwd[w] + 1 /\ hold'[w] = hold[w] - 1 /\ wpc'[w] # "shutA"
    BY <2>1, ZenonT(120) DEF TypeInv, TypeOK
  <2>3. \A u \in Ends : u # w =>
           /\ wpc'[u] = wpc[u] /\ hold'[u] = hold[u] /\ inq'[u] = inq[u]
           /\ tosend'[u] = tosend[u] /\ rcvd'[u] = rcvd[u] /\ fwd'[u] = fwd[u]
    BY <2>1 DEF TypeInv, TypeOK
  <2>4. fwd'[w] + hold'[w] = fwd[w] + hold[w]
    BY <1>t, <2>2
  <2> QED BY <1>f, <2>1, <2>2, <2>3, <2>4, FlowInvLocal, ZenonT(60)
<1>7. ASSUME SendShort(w) \/ SendRaise(w) PROVE FlowInv'
  <2>1. Down(Opp(w))
    BY <1>7, <1>e, Zenon DEF SendShort, SendRaise, Down, CloseInv, ClosedWasShut
  <2>2. /\ hold' = [hold EXCEPT ![w] = 0]
        /\ wpc' = [wpc EXCEPT ![w] = "call"] \/ wpc' = [wpc EXCEPT ![w] = "shutA"]
        /\ UNCHANGED <<sockVars, peer, inq, tosend, rcvd, fwd>>
    BY <1>7, Zenon DEF SendShort, SendRaise
  <2>t. hold \in [Ends -> Nat] /\ wpc \in [Ends -> WorkPcs]
    BY Zenon DEF TypeInv, TypeOK
  <2>3. \A u \in Ends : u # w => wpc'[u] = wpc[u] /\ hold'[u] = hold[u]
    BY <2>2, <2>t, Zenon
  <2>4. hold'[w] = 0
    BY <2>2, <2>t, Zenon
  <2>5. fwd'[w] + hold'[w] <= rcvd'[w]
    BY <1>f, <1>t, <2>2, <2>4
  <2> QED BY <2>1, <2>2, <2>3, <2>5, FlowInvLocal, Zenon
<1>8. CASE WorkerKill(w)
  <2> PICK next \in KillPcs \cup {"ret"} :
        /\ killp(wpc[w], w, Opp(w), next)
        /\ wpc' = [wpc EXCEPT ![w] = IF next = "ret" THEN "done" ELSE next]
    BY <1>8, Zenon DEF WorkerKill
  <2>1. next # "shutA"
    BY <1>e, KillFacts DEF TypeInv
  <2>2. \A u \in Ends : wpc'[u] = "shutA" => wpc[u] = "shutA"
    BY <2>1, ZenonT(60) DEF TypeInv, TypeOK
  <2> QED BY <1>8, <2>2, FlowInvKept, Zenon DEF WorkerKill
<1> QED BY <1>1, <1>2, <1>3, <1>4, <1>5, <1>6, <1>7, <1>8, Zenon DEF worker

\* The steps of a peer: it sends only while its direction is open.
LEMMA FlowInvPeers ==
  ASSUME TypeInv, TypeInv', FlowInv, Peers, [Next]_vars
  PROVE  FlowInv'
<1> PICK x \in Ends : PeerSend(x) \/ PeerRead(x) \/ PeerFin(x) \/ PeerReset(x)
  BY Zenon DEF Peers
<1> USE DEF workVars, sockVars, peerVars, histVars
<1>1. CASE PeerSend(x)
  <2>1. /\ peer[x] = "open"
        /\ tosend' = [tosend EXCEPT ![x] = @ - 1]
        /\ inq' = [inq EXCEPT ![x] = @ + 1]
        /\ UNCHANGED <<sockVars, peer, wpc, hold, rcvd, fwd>>
    BY <1>1, Zenon DEF PeerSend
  <2>2. tosend'[x] = tosend[x] - 1 /\ inq'[x] = inq[x] + 1
    BY <2>1, ZenonT(60) DEF TypeInv, TypeOK
  <2>3. \A u \in Ends : u # x => tosend'[u] = tosend[u] /\ inq'[u] = inq[u]
    BY <2>1, ZenonT(120) DEF TypeInv, TypeOK
  <2>4. rcvd[x] \in Nat /\ inq[x] \in Nat /\ tosend[x] \in Nat
    BY Zenon DEF TypeInv, TypeOK
  <2>5. rcvd'[x] + inq'[x] + tosend'[x] = rcvd[x] + inq[x] + tosend[x]
    BY <2>1, <2>2, <2>4
  <2>6. /\ fwd[x] + hold[x] <= rcvd[x]
        /\ rcvd[x] # fwd[x] + hold[x] => Down(Opp(x))
        /\ ~(wpc[x] = "shutA" /\ ~Down(x) /\ ~Down(Opp(x)))
    BY <2>1, Zenon DEF FlowInv, Conserved, NoSilentLoss, GiveUpOnlyWhenDrained
  <2> QED BY <2>1, <2>3, <2>5, <2>6, FlowInvLocal, Zenon
<1>2. CASE PeerRead(x)
  BY <1>2, FlowInvKept, Zenon DEF PeerRead
<1>3. CASE PeerFin(x) \/ PeerReset(x)
  <2>1. \A w \in Ends : peer'[w] = peer[w] \/ peer'[w] = "reset" \/ peer[w] = "open"
    <3>1. peer \in [Ends -> {"open", "fin", "reset"}]
      BY Zenon DEF TypeInv, TypeOK
    <3>2. \/ peer[x] = "open" /\ peer' = [peer EXCEPT ![x] = "fin"]
          \/ peer' = [peer EXCEPT ![x] = "reset"]
      BY <1>3, Zenon DEF PeerFin, PeerReset
    <3> QED BY <3>1, <3>2, Zenon
  <2> QED BY <1>3, <2>1, FlowInvKept, Zenon DEF PeerFin, PeerReset
<1> QED BY <1>1, <1>2, <1>3, Zenon

\* The inductive step: the main thread and the signals move no byte.
LEMMA FlowInvNext == TypeInv /\ TypeInv' /\ CloseInv /\ FlowInv /\ [Next]_vars => FlowInv'
<1> SUFFICES ASSUME TypeInv, TypeInv', CloseInv, FlowInv, [Next]_vars PROVE FlowInv'
  BY Zenon
<1> USE DEF workVars, peerVars, histVars
<1>1. ASSUME NEW s \in Sides, NEW pc, NEW next, StartWorker(pc, s, next) PROVE FlowInv'
  BY <1>1, FlowInvKept, ZenonT(60) DEF StartWorker, TypeInv, TypeOK
<1>2. CASE UNCHANGED <<workVars, peerVars, inq, outq, histVars>>
  BY <1>2, FlowInvKept, Zenon
<1>3. CASE doProxyMain
  BY <1>1, <1>2, <1>3, ZenonT(60) DEF doProxyMain, Sides, Listen, Accept, Connect, Register, MainFails,
                          NextToClean, MainKill, Join
<1>4. CASE inthandler \/ Sigterm \/ UNCHANGED vars
  BY <1>2, <1>4, Zenon DEF inthandler, Sigint, Sigterm, PrintC2S, PrintS2C, PrintTotal, vars
<1> QED BY <1>3, <1>4, FlowInvWorker, FlowInvPeers, Zenon DEF Next

\* All invariants together.
LEMMA Invariants == Spec => [](TypeInv /\ CloseInv /\ FlowInv)
<1>1. Init => CloseInv
  BY EndFacts, Zenon DEF Init, CloseInv, ClosedWasShut, KillOrder
<1>2. Init => FlowInv
  <2> SUFFICES ASSUME Init PROVE FlowInv
    BY Zenon
  <2>1. Conserved
    BY ConstantsOK, EndFacts, SMTT(60) DEF Init, Conserved
  <2>2. NoSilentLoss /\ GiveUpOnlyWhenDrained
    BY DEF Init, NoSilentLoss, GiveUpOnlyWhenDrained
  <2> QED BY <2>1, <2>2, Zenon DEF FlowInv
<1> QED BY <1>1, <1>2, TypeInvInit, TypeInvNext, CloseInvNext, FlowInvNext, PTL DEF Spec

\* Nothing that recv returned disappears while its destination is up, although
\* worker ignores what send returns.
THEOREM LossOnlyWhenDown == Spec => []NoSilentLoss
<1>1. FlowInv => NoSilentLoss BY Zenon DEF FlowInv
<1> QED BY <1>1, Invariants, PTL

\* A worker that calls killp while both connections are up has forwarded all
\* its peer sent.
THEOREM DrainedBeforeKill == Spec => []GiveUpOnlyWhenDrained
<1>1. FlowInv => GiveUpOnlyWhenDrained BY Zenon DEF FlowInv
<1> QED BY <1>1, Invariants, PTL

-----------------------------------------------------------------------------
(***************************************************************************)
(* Proxy implements Relay: every step of the proxy, of its peers and of    *)
(* the signals is a step of the abstract relay or leaves it unchanged.     *)
(***************************************************************************)

\* The state of the relay that a state of the proxy stands for.
SentBar == [w \in Ends |-> Payload[w[2]] - tosend[w]]
LostBar == [w \in Ends |-> rcvd[w] - fwd[w] - hold[w]]
UpBar   == [w \in Ends |-> ~Down(w)]

\* A step that changes no state the relay has is a stutter of the relay.
LEMMA Stutter ==
  ASSUME UNCHANGED <<tosend, rcvd, fwd, hold, shut, peer>>
  PROVE  UNCHANGED PromisedRelay!vars
BY Zenon DEF PromisedRelay!vars, Down

\* A step that takes one connection down, and changes nothing else the relay
\* has, is the relay's Fail.
LEMMA FailStep ==
  ASSUME TypeInv, NEW x \in Ends, UNCHANGED <<tosend, rcvd, fwd, hold>>, Down(x)',
         \A y \in Ends : y # x => Down(y)' = Down(y)
  PROVE  PromisedRelay!RelayNext
<1>1. UpBar' = [UpBar EXCEPT ![x] = FALSE]
  BY Zenon DEF UpBar
<1>2. PromisedRelay!Fail(x)
  BY <1>1, Zenon DEF PromisedRelay!Fail, UpBar
<1> QED BY <1>2, Zenon DEF PromisedRelay!RelayNext

\* One call of killp takes down one connection, or nothing.
LEMMA KillIsFail ==
  ASSUME TypeInv, NEW a \in Ends, NEW b \in Ends, NEW pc, NEW next, killp(pc, a, b, next),
         UNCHANGED <<tosend, rcvd, fwd, hold, peer>>
  PROVE  PromisedRelay!RelayNext \/ UNCHANGED PromisedRelay!vars
<1> DEFINE x == KillSocket(pc, a, b)
<1>x. x \in Ends BY Zenon DEF KillSocket
<1>1. CASE UNCHANGED shut
  BY <1>1, Stutter, Zenon
<1>2. CASE shut' = [shut EXCEPT ![x] = TRUE]
  <2> HIDE DEF x
  <2>1. Down(x)' /\ \A y \in Ends : y # x => Down(y)' = Down(y)
    BY <1>2, <1>x, Zenon DEF Down, TypeInv, TypeOK
  <2> QED BY <1>x, <2>1, FailStep, Zenon
<1> QED BY <1>1, <1>2, Zenon DEF killp, sockVars

\* recv, send and a failing send are the relay's Take, Deliver and Lose.
LEMMA WorkerSteps ==
  ASSUME TypeInv, CloseInv, FlowInv, NEW w \in Ends, worker(w)
  PROVE  PromisedRelay!RelayNext \/ UNCHANGED PromisedRelay!vars
<1> USE ConstantsOK DEF sockVars, peerVars, histVars
<1>e. Opp(w) \in Ends /\ w[2] \in Sides
  BY EndFacts, Zenon
<1>t. /\ hold[w] \in Nat /\ rcvd[w] \in Nat /\ fwd[w] \in Nat /\ inq[w] \in Nat /\ tosend[w] \in Nat
      /\ Payload[w[2]] \in Nat
      /\ rcvd[w] + inq[w] + tosend[w] = Payload[w[2]]
  BY <1>e, Zenon DEF TypeInv, TypeOK, FlowInv, Conserved
<1>h. /\ wpc[w] = "recv" => hold[w] = 0
      /\ wpc[w] = "send" => hold[w] > 0
  BY <1>t DEF TypeInv, Hands
<1>1. CASE RecvCall(w) \/ RecvEnd(w) \/ LoadCount(w) \/ StoreCount(w)
  BY <1>1, Stutter, Zenon DEF RecvCall, RecvEnd, LoadCount, StoreCount
<1>2. CASE RecvData(w)
  <2> DEFINE n == Smaller(inq[w], Chunk)
  <2>1. n \in 1 .. inq[w]
    BY <1>2, <1>t DEF RecvData, Smaller
  <2>2. /\ hold' = [hold EXCEPT ![w] = n]
        /\ rcvd' = [rcvd EXCEPT ![w] = rcvd[w] + n]
        /\ hold[w] = 0
        /\ UNCHANGED <<sockVars, peer, tosend, fwd>>
    BY <1>2, <1>h, Zenon DEF RecvData
  <2> HIDE DEF n
  <2>3. UNCHANGED <<SentBar, fwd, UpBar>>
    BY <2>2, Zenon DEF SentBar, UpBar, Down
  <2>4. LostBar' = LostBar
    <3>t. rcvd \in [Ends -> Nat] /\ fwd \in [Ends -> Nat] /\ hold \in [Ends -> Nat]
      BY Zenon DEF TypeInv, TypeOK
    <3>1. ASSUME NEW u \in Ends PROVE rcvd'[u] - fwd'[u] - hold'[u] = rcvd[u] - fwd[u] - hold[u]
      BY <3>t, <2>1, <2>2, SMTT(30)
    <3> QED BY <3>1, Zenon DEF LostBar
  <2>5. SentBar[w] - rcvd[w] = inq[w]
    BY <1>t DEF SentBar
  <2>6. PromisedRelay!Take(w)
    BY <2>1, <2>2, <2>3, <2>4, <2>5, Zenon DEF PromisedRelay!Take, SentBar, LostBar, UpBar
  <2> QED BY <2>6, Zenon DEF PromisedRelay!RelayNext
<1>3. CASE SendByte(w)
  <2>1. /\ wpc[w] = "send" /\ ~Down(Opp(w))
        /\ fwd' = [fwd EXCEPT ![w] = fwd[w] + 1]
        /\ hold' = [hold EXCEPT ![w] = hold[w] - 1]
        /\ UNCHANGED <<sockVars, peer, tosend, rcvd>>
    BY <1>3, Zenon DEF SendByte
  <2>2. UNCHANGED <<SentBar, rcvd, UpBar>>
    BY <2>1, ZenonT(60) DEF SentBar, UpBar, Down
  <2>3. LostBar' = LostBar
    <3>t. rcvd \in [Ends -> Nat] /\ fwd \in [Ends -> Nat] /\ hold \in [Ends -> Nat]
      BY Zenon DEF TypeInv, TypeOK
    <3>1. ASSUME NEW u \in Ends PROVE rcvd'[u] - fwd'[u] - hold'[u] = rcvd[u] - fwd[u] - hold[u]
      BY <3>t, <2>1, SMTT(30)
    <3> QED BY <3>1, Zenon DEF LostBar
  <2>4. UpBar[Opp(w)] /\ fwd[w] + LostBar[w] < rcvd[w]
    <3>1. UpBar[Opp(w)]
      BY <1>e, <2>1, Zenon DEF UpBar
    <3>2. LostBar[w] = rcvd[w] - fwd[w] - hold[w]
      BY Zenon DEF LostBar
    <3> QED BY <1>h, <1>t, <2>1, <3>1, <3>2, SMTT(60)
  <2>5. PromisedRelay!Deliver(w)
    BY <2>1, <2>2, <2>3, <2>4, Zenon DEF PromisedRelay!Deliver, SentBar, LostBar, UpBar
  <2> QED BY <2>5, Zenon DEF PromisedRelay!RelayNext
<1>4. CASE SendShort(w) \/ SendRaise(w)
  <2>1. ~UpBar[Opp(w)]
    BY <1>4, <1>e, Zenon DEF SendShort, SendRaise, UpBar, Down, CloseInv, ClosedWasShut
  <2>2. hold' = [hold EXCEPT ![w] = 0] /\ UNCHANGED <<sockVars, peer, tosend, rcvd, fwd>>
    BY <1>4, Zenon DEF SendShort, SendRaise
  <2>3. UNCHANGED <<SentBar, rcvd, fwd, UpBar>>
    BY <2>2, Zenon DEF SentBar, UpBar, Down
  <2>4. LostBar' = [LostBar EXCEPT ![w] = rcvd[w] - fwd[w]]
    <3>1. ASSUME NEW u \in Ends
          PROVE  rcvd'[u] - fwd'[u] - hold'[u] =
                   IF u = w THEN rcvd[w] - fwd[w] ELSE rcvd[u] - fwd[u] - hold[u]
      <4>1. hold'[u] = IF u = w THEN 0 ELSE hold[u]
        BY <2>2, Zenon DEF TypeInv, TypeOK
      <4> QED BY <1>t, <2>2, <4>1, SMTT(60)
    <3> QED BY <3>1, Zenon DEF LostBar
  <2>5. PromisedRelay!Lose(w)
    BY <2>1, <2>3, <2>4, Zenon DEF PromisedRelay!Lose, SentBar, LostBar, UpBar
  <2> QED BY <2>5, Zenon DEF PromisedRelay!RelayNext
<1>5. CASE WorkerKill(w)
  BY <1>5, <1>e, KillIsFail, Zenon DEF WorkerKill
<1> QED BY <1>1, <1>2, <1>3, <1>4, <1>5, Zenon DEF worker

\* The steps of a peer are the relay's Send and Fail, or invisible to it.
LEMMA PeerSteps ==
  ASSUME TypeInv, Peers
  PROVE  PromisedRelay!RelayNext \/ UNCHANGED PromisedRelay!vars
<1> PICK x \in Ends : PeerSend(x) \/ PeerRead(x) \/ PeerFin(x) \/ PeerReset(x)
  BY Zenon DEF Peers
<1> USE DEF workVars, sockVars, peerVars, histVars
<1>1. CASE PeerSend(x)
  <2>1. /\ ~Down(x)
        /\ tosend' = [tosend EXCEPT ![x] = tosend[x] - 1]
        /\ UNCHANGED <<sockVars, peer, rcvd, fwd, hold>>
    BY <1>1, Zenon DEF PeerSend, Down
  <2>2. UNCHANGED <<rcvd, fwd, LostBar, UpBar>> /\ UpBar[x]
    BY <2>1, Zenon DEF LostBar, UpBar, Down
  <2>3. SentBar' = [SentBar EXCEPT ![x] = SentBar[x] + 1]
    <3>1. ASSUME NEW u \in Ends
          PROVE  Payload[u[2]] - tosend'[u] =
                   IF u = x THEN Payload[x[2]] - tosend[x] + 1 ELSE Payload[u[2]] - tosend[u]
      <4>1. u[2] \in Sides /\ Payload[u[2]] \in Nat /\ tosend[u] \in Nat
        BY EndFacts, ConstantsOK, ZenonT(60) DEF TypeInv, TypeOK
      <4>2. tosend'[u] = IF u = x THEN tosend[x] - 1 ELSE tosend[u]
        BY <2>1, Zenon DEF TypeInv, TypeOK
      <4> QED BY <4>1, <4>2
    <3> QED BY <3>1, Zenon DEF SentBar
  <2>4. PromisedRelay!Send(x)
    BY <2>2, <2>3, Zenon DEF PromisedRelay!Send, SentBar, LostBar, UpBar
  <2> QED BY <2>4, Zenon DEF PromisedRelay!RelayNext
<1>2. CASE PeerRead(x)
  BY <1>2, Stutter, Zenon DEF PeerRead
<1>3. CASE PeerFin(x)
  <2>1. \A y \in Ends : Down(y)' = Down(y)
    BY <1>3, Zenon DEF PeerFin, Down, TypeInv, TypeOK
  <2> QED BY <1>3, <2>1, Zenon DEF PeerFin, PromisedRelay!vars
<1>4. CASE PeerReset(x)
  <2>1. Down(x)' /\ \A y \in Ends : y # x => Down(y)' = Down(y)
    BY <1>4, Zenon DEF PeerReset, Down, TypeInv, TypeOK
  <2> QED BY <1>4, <2>1, FailStep, Zenon DEF PeerReset
<1> QED BY <1>1, <1>2, <1>3, <1>4, Zenon

\* Every step of the proxy is a step of the relay, or invisible to it.
LEMMA RelayStep ==
  TypeInv /\ CloseInv /\ FlowInv /\ [Next]_vars => [PromisedRelay!RelayNext]_(PromisedRelay!vars)
<1> SUFFICES ASSUME TypeInv, CloseInv, FlowInv, [Next]_vars
             PROVE  PromisedRelay!RelayNext \/ UNCHANGED PromisedRelay!vars
  BY Zenon
<1> USE DEF workVars, sockVars, peerVars, histVars
<1>1. CASE doProxyMain
  <2>1. CASE MainKill
    <3>1. mconn \in Conns
      BY <2>1, Zenon DEF MainKill, killp, TypeInv, TypeOK
    <3> QED BY <2>1, <3>1, EndFacts, KillIsFail, Zenon DEF MainKill
  <2>2. CASE UNCHANGED <<tosend, rcvd, fwd, hold, shut, peer>>
    BY <2>2, Stutter, Zenon
  <2> QED BY <1>1, <2>1, <2>2, Zenon DEF doProxyMain, Listen, Accept, Connect, StartWorker, Register,
             MainFails, NextToClean, Join
<1>2. CASE inthandler \/ Sigterm \/ UNCHANGED vars
  BY <1>2, Stutter, Zenon DEF inthandler, Sigint, Sigterm, PrintC2S, PrintS2C, PrintTotal, vars
<1> QED BY <1>1, <1>2, WorkerSteps, PeerSteps, Zenon DEF Next

\* The proxy implements the relay: through resets, failures and signals, every
\* direction of every connection delivers what it took, in number and order,
\* and loses bytes only once their destination is down.
THEOREM ProxyImplementsRelay == Spec => RelaysFaithfully
<1>1. Init => PromisedRelay!RelayInit
  <2> SUFFICES ASSUME Init PROVE PromisedRelay!RelayInit
    BY Zenon
  <2>1. \A w \in Ends : Payload[w[2]] - tosend[w] = 0
    BY ConstantsOK, EndFacts DEF Init
  <2>2. \A w \in Ends : Down(w) = FALSE
    BY Zenon DEF Init, Down
  <2>3. \A w \in Ends : rcvd[w] - fwd[w] - hold[w] = 0
    BY DEF Init
  <2> QED BY <2>1, <2>2, <2>3, ZenonT(60) DEF PromisedRelay!RelayInit, Init
<1> QED BY <1>1, Invariants, RelayStep, PTL DEF Spec, RelaysFaithfully, PromisedRelay!RelaySpec

-----------------------------------------------------------------------------
(***************************************************************************)
(* When nobody resets a connection and no signal takes the main thread out *)
(* of killp, every socket that is shut down is closed.                     *)
(***************************************************************************)

\* A thread has shut x down and is about to close it.
Closing(x) ==
  \/ wpc[x] = "closeA" \/ wpc[Opp(x)] = "closeB"
  \/ mconn = x[1] /\ mpc = (IF x[2] = "k" THEN "closeA" ELSE "closeB")

\* The connections that the main thread sets up or takes down were accepted.
Accepted ==
  /\ \A i \in DOMAIN workers : fd[<<workers[i], "k">>] # "none"
  /\ \A i \in DOMAIN todo : fd[<<todo[i], "k">>] # "none"
  /\ mpc \in KillPcs \cup {"connect", "start2", "start1", "append"} => fd[<<mconn, "k">>] # "none"

\* The server socket of a connection is not touched before it is connected.
Unshut ==
  /\ \A c \in Conns : fd[<<c, "k">>] = "none" => ~shut[<<c, "v">>]
  /\ mpc = "connect" => ~shut[<<mconn, "v">>]

\* Where a worker is once its killp is past the shutdown of its own socket.
ShutPcs == {"closeA", "shutB", "closeB", "done"}

Quiet == sigs = 0 /\ handler = "no"
ResetWasShut == \A x \in Ends : peer[x] = "reset" => shut[x]
ShutIsClosing == \A x \in Ends : shut[x] /\ fd[x] # "closed" => Closing(x)
DoneWasShut == \A w \in Ends : wpc[w] \in ShutPcs => shut[w]

LeakInv == Quiet /\ Accepted /\ Unshut /\ ResetWasShut /\ ShutIsClosing /\ DoneWasShut

\* What a step may do to the sockets: set up none that was closed, shut down
\* one it goes on to close, and leave killp only with a socket closed.
SocketStep ==
  /\ \A x \in Ends : fd[x] # "none" => fd'[x] # "none"
  /\ \A x \in Ends : fd'[x] # "closed" => fd[x] # "closed"
  /\ \A x \in Ends : shut[x] => shut'[x]
  /\ \A x \in Ends : shut'[x] /\ ~shut[x] =>
       Closing(x)' /\ fd[<<x[1], "k">>] # "none" /\ ~(mpc = "connect" /\ mconn = x[1])
  /\ \A x \in Ends : Closing(x) => Closing(x)' \/ fd'[x] = "closed"
  /\ \A x \in Ends : peer'[x] = "reset" => peer[x] = "reset" \/ shut[x]
  /\ \A w \in Ends : wpc'[w] \in ShutPcs => shut'[w]

\* One call of killp shuts down only what it closes next, and where shutdown
\* raises for its first socket, that socket was shut down before.
LEMMA KillCloses ==
  ASSUME TypeInv, CloseInv, ResetWasShut, NEW a \in Ends, NEW b \in Ends, NEW pc, NEW next,
         killp(pc, a, b, next)
  PROVE  /\ \A x \in Ends : shut'[x] /\ ~shut[x] =>
              (x = a /\ next = "closeA") \/ (x = b /\ next = "closeB")
         /\ pc = "closeA" => fd'[a] = "closed"
         /\ pc = "closeB" => fd'[b] = "closed"
         /\ pc = "shutA" => shut'[a]
<1> DEFINE x == KillSocket(pc, a, b)
<1>x. x \in Ends BY Zenon DEF KillSocket
<1>a. /\ pc = "shutA" => AfterKill[pc] = "closeA" /\ x = a
      /\ pc = "shutB" => AfterKill[pc] = "closeB" /\ x = b
      /\ pc = "closeA" => x = a
      /\ pc = "closeB" => x = b
  BY DEF AfterKill, KillSocket
<1>t. fd \in [Ends -> {"none", "open", "closed"}] /\ shut \in [Ends -> BOOLEAN]
  BY Zenon DEF TypeInv, TypeOK
<1> HIDE DEF x
<1>1. CASE /\ pc \in {"shutA", "shutB"} /\ shut' = [shut EXCEPT ![x] = TRUE]
           /\ next = AfterKill[pc] /\ UNCHANGED fd
  BY <1>1, <1>a, <1>x, <1>t, Zenon
<1>2. CASE pc \in {"shutA", "shutB"} /\ ShutdownMayRaise(x) /\ UNCHANGED sockVars
  <2>1. shut[x]
    BY <1>2, <1>x, Zenon DEF ShutdownMayRaise, ShutdownMustRaise, CloseInv, ClosedWasShut, ResetWasShut
  <2> QED BY <1>2, <1>a, <2>1, Zenon DEF sockVars
<1>3. CASE pc \in {"closeA", "closeB"} /\ fd' = [fd EXCEPT ![x] = "closed"] /\ UNCHANGED shut
  BY <1>3, <1>a, <1>x, <1>t, Zenon
<1> QED BY <1>1, <1>2, <1>3, Zenon DEF killp, x

\* A step that touches no socket and moves no thread into or out of killp's
\* calls, but to its first one.
LEMMA SocketsLeft ==
  ASSUME LeakInv, UNCHANGED <<fd, shut>>,
         \A x \in Ends : peer'[x] = "reset" => peer[x] = "reset" \/ shut[x],
         \A w \in Ends : wpc'[w] # wpc[w] => wpc[w] \notin ShutPcs /\ wpc'[w] \notin ShutPcs,
         <<mpc, mconn>>' # <<mpc, mconn>> =>
           mpc \notin {"closeA", "closeB"} /\ mpc' \notin {"closeA", "closeB"}
  PROVE  SocketStep
<1>1. ASSUME NEW x \in Ends, Closing(x) PROVE Closing(x)'
  <2>1. wpc[x] = "closeA" => wpc'[x] = "closeA"
    BY Zenon DEF ShutPcs
  <2>2. wpc[Opp(x)] = "closeB" => wpc'[Opp(x)] = "closeB"
    BY EndFacts, Zenon DEF ShutPcs
  <2>3. mpc \in {"closeA", "closeB"} => mpc' = mpc /\ mconn' = mconn
    BY Zenon
  <2> QED BY <1>1, <2>1, <2>2, <2>3, Zenon DEF Closing
<1>2. \A w \in Ends : wpc'[w] \in ShutPcs => shut'[w]
  BY Zenon DEF LeakInv, DoneWasShut, ShutPcs
<1> QED BY <1>1, <1>2, Zenon DEF SocketStep

\* The steps of a worker on the sockets.
LEMMA SocketsWorker ==
  ASSUME TypeInv, TypeInv', CloseInv, LeakInv, NEW w \in Ends, worker(w)
  PROVE  SocketStep
<1>w. wpc \in [Ends -> WorkPcs]
  BY Zenon DEF TypeInv, TypeOK
<1>1. CASE WorkerKill(w)
  <2> PICK next \in KillPcs \cup {"ret"} :
        /\ killp(wpc[w], w, Opp(w), next)
        /\ wpc' = [wpc EXCEPT ![w] = IF next = "ret" THEN "done" ELSE next]
    BY <1>1, Zenon DEF WorkerKill
  <2>e. Opp(w) \in Ends /\ Opp(Opp(w)) = w /\ Opp(w)[1] = w[1]
    BY EndFacts DEF Opp
  <2>k. /\ wpc[w] \in KillPcs
        /\ \A x \in Ends : fd'[x] # fd[x] => fd'[x] = "closed"
        /\ \A x \in Ends : shut[x] => shut'[x]
    BY <2>e, KillFacts, Zenon DEF TypeInv
  <2>c. /\ \A x \in Ends : shut'[x] /\ ~shut[x] =>
             (x = w /\ next = "closeA") \/ (x = Opp(w) /\ next = "closeB")
        /\ wpc[w] = "closeA" => fd'[w] = "closed"
        /\ wpc[w] = "closeB" => fd'[Opp(w)] = "closed"
        /\ wpc[w] = "shutA" => shut'[w]
    BY <2>e, KillCloses, Zenon DEF LeakInv
  <2>m. UNCHANGED <<mpc, mconn, peer>>
    BY <1>1, Zenon DEF WorkerKill, mainVars, peerVars
  <2>u. /\ wpc'[w] = IF next = "ret" THEN "done" ELSE next
        /\ \A u \in Ends : u # w => wpc'[u] = wpc[u]
    BY <1>w, Zenon
  <2>f. fd[<<w[1], "k">>] # "none" /\ ~(mpc = "connect" /\ mconn = w[1])
    <3>1. wpc[<<w[1], "k">>] # "none" \/ wpc[<<w[1], "v">>] # "none"
      BY <2>k, EndFacts, SMT DEF KillPcs, Sides
    <3> QED BY <3>1, EndFacts, Zenon DEF TypeInv, Fresh
  <2>1. \A x \in Ends : shut'[x] /\ ~shut[x] =>
       Closing(x)' /\ fd[<<x[1], "k">>] # "none" /\ ~(mpc = "connect" /\ mconn = x[1])
    <3>1. next = "closeA" => Closing(w)'
      BY <2>u, Zenon DEF Closing
    <3>2. next = "closeB" => Closing(Opp(w))'
      BY <2>u, <2>e, Zenon DEF Closing
    <3> QED BY <2>c, <2>e, <2>f, <3>1, <3>2, Zenon
  <2>2. ASSUME NEW x \in Ends, Closing(x) PROVE Closing(x)' \/ fd'[x] = "closed"
    <3>1. CASE wpc[x] = "closeA"
      <4>1. x # w => wpc'[x] = "closeA"
        BY <2>u, <3>1, Zenon
      <4> QED BY <2>c, <3>1, <4>1, Zenon DEF Closing
    <3>2. CASE wpc[Opp(x)] = "closeB"
      <4>1. Opp(x) # w => wpc'[Opp(x)] = "closeB"
        BY <2>u, <3>2, EndFacts, Zenon
      <4>2. Opp(x) = w => x = Opp(w)
        BY EndFacts, Zenon
      <4> QED BY <2>c, <3>2, <4>1, <4>2, Zenon DEF Closing
    <3>3. CASE mconn = x[1] /\ mpc = (IF x[2] = "k" THEN "closeA" ELSE "closeB")
      BY <2>m, <3>3, Zenon DEF Closing
    <3> QED BY <2>2, <3>1, <3>2, <3>3, Zenon DEF Closing
  <2>3. \A u \in Ends : wpc'[u] \in ShutPcs => shut'[u]
    <3>1. ASSUME NEW u \in Ends, u # w, wpc'[u] \in ShutPcs PROVE shut'[u]
      BY <2>u, <2>k, <3>1, Zenon DEF LeakInv, DoneWasShut, ShutPcs
    <3>2. shut'[w]
      BY <2>c, <2>k, Zenon DEF LeakInv, DoneWasShut, ShutPcs, KillPcs
    <3> QED BY <3>1, <3>2, Zenon
  <2>4. \A x \in Ends : /\ fd[x] # "none" => fd'[x] # "none"
                        /\ fd'[x] # "closed" => fd[x] # "closed"
    BY <2>k, Zenon
  <2> QED BY <2>k, <2>m, <2>1, <2>2, <2>3, <2>4, Zenon DEF SocketStep
<1>2. ASSUME \/ RecvCall(w) \/ RecvData(w) \/ RecvEnd(w) \/ LoadCount(w) \/ StoreCount(w)
             \/ SendByte(w) \/ SendShort(w) \/ SendRaise(w)
      PROVE  SocketStep
  <2>1. UNCHANGED <<mpc, mconn>> /\ UNCHANGED <<fd, shut>> /\ UNCHANGED peer
    BY <1>2, Zenon DEF RecvCall, RecvData, RecvEnd, LoadCount, StoreCount, SendByte, SendShort,
                SendRaise, mainVars, sockVars, peerVars
  <2>2. /\ \E p \in {"shutA", "recv", "load", "store", "send", "call"} : wpc' = [wpc EXCEPT ![w] = p]
        /\ wpc[w] \in {"recv", "load", "store", "send", "call"}
    BY <1>2, Zenon DEF RecvCall, RecvData, RecvEnd, LoadCount, StoreCount, SendByte, SendShort, SendRaise
  <2>3. \A u \in Ends : wpc'[u] # wpc[u] => wpc[u] \notin ShutPcs /\ wpc'[u] \notin ShutPcs
    BY <1>w, <2>2, ZenonT(60) DEF ShutPcs
  <2> QED BY <2>1, <2>3, SocketsLeft, Zenon
<1> QED BY <1>1, <1>2, Zenon DEF worker

\* The steps of the main thread on the sockets.
LEMMA SocketsMain ==
  ASSUME TypeInv, TypeInv', CloseInv, LeakInv, doProxyMain
  PROVE  SocketStep
<1> USE DEF workVars, sockVars, peerVars
<1>1. CASE MainKill
  <2> PICK next \in KillPcs \cup {"ret"} :
        /\ killp(mpc, <<mconn, "k">>, <<mconn, "v">>, next)
        /\ mpc' = IF next = "ret" THEN "join1" ELSE next
    BY <1>1, Zenon DEF MainKill
  <2>p. mpc \in KillPcs
    BY Zenon DEF killp, KillPcs
  <2>m. mconn \in Conns
    BY <2>p, Zenon DEF KillPcs, TypeInv, TypeOK
  <2>e. <<mconn, "k">> \in Ends /\ <<mconn, "v">> \in Ends
    BY <2>m, EndFacts, Zenon
  <2>k. /\ \A x \in Ends : fd'[x] # fd[x] => fd'[x] = "closed"
        /\ \A x \in Ends : shut[x] => shut'[x]
    BY <2>e, KillFacts, Zenon DEF TypeInv
  <2>c. /\ \A x \in Ends : shut'[x] /\ ~shut[x] =>
             (x = <<mconn, "k">> /\ next = "closeA") \/ (x = <<mconn, "v">> /\ next = "closeB")
        /\ mpc = "closeA" => fd'[<<mconn, "k">>] = "closed"
        /\ mpc = "closeB" => fd'[<<mconn, "v">>] = "closed"
    BY <2>e, KillCloses, Zenon DEF LeakInv
  <2>u. UNCHANGED <<mconn, wpc, peer>>
    BY <1>1, Zenon DEF MainKill
  <2>1. \A x \in Ends : shut'[x] /\ ~shut[x] =>
       Closing(x)' /\ fd[<<x[1], "k">>] # "none" /\ ~(mpc = "connect" /\ mconn = x[1])
    <3>1. <<mconn, "k">>[1] = mconn /\ <<mconn, "v">>[1] = mconn
          /\ <<mconn, "k">>[2] = "k" /\ <<mconn, "v">>[2] = "v"
      BY SMT
    <3>2. \A x \in Ends : x = <<mconn, "k">> /\ next = "closeA" => Closing(x)'
      BY <2>u, <3>1, Zenon DEF Closing
    <3>3. \A x \in Ends : x = <<mconn, "v">> /\ next = "closeB" => Closing(x)'
      BY <2>u, <3>1, Zenon DEF Closing
    <3>4. fd[<<mconn, "k">>] # "none" /\ mpc # "connect"
      BY <2>p, Zenon DEF LeakInv, Accepted, KillPcs
    <3> QED BY <2>c, <3>1, <3>2, <3>3, <3>4, Zenon
  <2>2. ASSUME NEW x \in Ends, Closing(x) PROVE Closing(x)' \/ fd'[x] = "closed"
    <3>1. CASE wpc[x] = "closeA" \/ wpc[Opp(x)] = "closeB"
      BY <2>u, <3>1, Zenon DEF Closing
    <3>2. CASE mconn = x[1] /\ mpc = (IF x[2] = "k" THEN "closeA" ELSE "closeB")
      <4>1. x = IF x[2] = "k" THEN <<mconn, "k">> ELSE <<mconn, "v">>
        BY <3>2, EndFacts, SMT DEF Sides
      <4> QED BY <2>c, <3>2, <4>1, Zenon
    <3> QED BY <2>2, <3>1, <3>2, Zenon DEF Closing
  <2>3. \A u \in Ends : wpc'[u] \in ShutPcs => shut'[u]
    BY <2>u, <2>k, Zenon DEF LeakInv, DoneWasShut
  <2>4. \A x \in Ends : /\ fd[x] # "none" => fd'[x] # "none"
                        /\ fd'[x] # "closed" => fd[x] # "closed"
    BY <2>k, Zenon
  <2> QED BY <2>k, <2>u, <2>1, <2>2, <2>3, <2>4, Zenon DEF SocketStep
<1>2. ASSUME NEW x \in Ends, fd' = [fd EXCEPT ![x] = "open"], UNCHANGED <<shut, wpc, peer>>,
             mpc \notin {"closeA", "closeB"}, fd[x] # "closed"
      PROVE  SocketStep
  <2>1. \A y \in Ends : fd'[y] = fd[y] \/ (fd'[y] = "open" /\ fd[y] # "closed")
    BY <1>2, Zenon DEF TypeInv, TypeOK
  <2>2. \A y \in Ends : /\ fd[y] # "none" => fd'[y] # "none"
                        /\ fd'[y] # "closed" => fd[y] # "closed"
    BY <2>1, Zenon
  <2>3. \A y \in Ends : Closing(y) => Closing(y)'
    BY <1>2, Zenon DEF Closing
  <2>4. \A u \in Ends : wpc'[u] \in ShutPcs => shut'[u]
    BY <1>2, Zenon DEF LeakInv, DoneWasShut
  <2> QED BY <1>2, <2>2, <2>3, <2>4, Zenon DEF SocketStep
<1>3. ASSUME NEW c \in Conns, Accept(c) PROVE SocketStep
  BY <1>2, <1>3, EndFacts, Zenon DEF Accept, MainAt
<1>4. CASE Connect
  <2>1. mconn \in Conns
    BY <1>4, Zenon DEF Connect, MainAt, TypeInv, TypeOK
  <2>2. fd[<<mconn, "v">>] # "closed"
    BY <1>4, <2>1, EndFacts, Zenon DEF Connect, MainAt, LeakInv, Unshut, CloseInv, ClosedWasShut
  <2> QED BY <1>2, <1>4, <2>1, <2>2, EndFacts, Zenon DEF Connect, MainAt
<1>5. ASSUME UNCHANGED <<sockVars, peer>>, mpc' \notin {"closeA", "closeB"},
             mpc \notin {"closeA", "closeB"},
             \A w \in Ends : wpc'[w] # wpc[w] => wpc[w] \notin ShutPcs /\ wpc'[w] \notin ShutPcs
      PROVE  SocketStep
  BY <1>5, SocketsLeft, Zenon
<1>6. CASE StartWorker("start2", "v", "start1") \/ StartWorker("start1", "k", "append")
  <2>1. \E s \in Sides : wpc' = [wpc EXCEPT ![<<mconn, s>>] = "call"] /\ wpc[<<mconn, s>>] = "none"
    BY <1>6, Zenon DEF StartWorker, MainAt, Sides, TypeInv, Fresh
  <2>2. \A w \in Ends : wpc'[w] # wpc[w] => wpc[w] \notin ShutPcs /\ wpc'[w] \notin ShutPcs
    BY <2>1, Zenon DEF TypeInv, TypeOK, ShutPcs
  <2> QED BY <1>5, <1>6, <2>2, Zenon DEF StartWorker, MainAt
<1>7. CASE Listen \/ Register \/ NextToClean
           \/ Join("join1", "k", "join2") \/ Join("join2", "v", "clean")
  BY <1>5, <1>7, Zenon DEF Listen, Register, NextToClean, Join, MainAt
<1>8. CASE MainFails
  BY <1>5, <1>8, Zenon DEF MainFails, RaisedTo, TryPcs, KillPcs
<1> QED BY <1>1, <1>3, <1>4, <1>6, <1>7, <1>8, Zenon DEF doProxyMain

\* The main thread registers and takes down only what it has accepted.
LEMMA AcceptedNext ==
  ASSUME TypeInv, LeakInv, Accepted, SocketStep, [Next]_vars
  PROVE  Accepted'
<1> USE DEF mainVars
<1>t. workers \in Seq(Conns) /\ todo \in Seq(Conns)
  BY Zenon DEF TypeInv, TypeOK
<1>s. \A c \in Conns : fd[<<c, "k">>] # "none" => fd'[<<c, "k">>] # "none"
  BY EndFacts, Zenon DEF SocketStep
<1>w. \A i \in DOMAIN workers : workers[i] \in Conns /\ fd'[<<workers[i], "k">>] # "none"
  <2>1. \A i \in DOMAIN workers : workers[i] \in Conns
    BY <1>t, SMT
  <2> QED BY <2>1, <1>s, Zenon DEF Accepted
<1>d. \A i \in DOMAIN todo : todo[i] \in Conns /\ fd'[<<todo[i], "k">>] # "none"
  <2>1. \A i \in DOMAIN todo : todo[i] \in Conns
    BY <1>t, SMT
  <2> QED BY <2>1, <1>s, Zenon DEF Accepted
<1>m. mpc \in KillPcs \cup {"connect", "start2", "start1", "append"} => fd'[<<mconn, "k">>] # "none"
  <2>1. mpc \in KillPcs \cup {"connect", "start2", "start1", "append"} => mconn \in Conns
    BY Zenon DEF TypeInv, TypeOK, KillPcs
  <2> QED BY <2>1, <1>s, Zenon DEF Accepted
<1>0. ASSUME UNCHANGED workers, todo' = todo \/ todo' = workers,
             mpc' \notin KillPcs \cup {"connect", "start2", "start1", "append"}
               \/ fd'[<<mconn', "k">>] # "none"
      PROVE  Accepted'
  BY <1>0, <1>w, <1>d, Zenon DEF Accepted
<1>1. CASE Register
  <2>1. \A i \in DOMAIN workers' : workers'[i] = mconn \/ \E j \in DOMAIN workers : workers'[i] = workers[j]
    BY <1>1, <1>t, SMT DEF Register
  <2>2. fd'[<<mconn, "k">>] # "none"
    BY <1>1, <1>m, Zenon DEF Register, MainAt
  <2>3. \A i \in DOMAIN workers' : fd'[<<workers'[i], "k">>] # "none"
    BY <2>1, <2>2, <1>w, Zenon
  <2> QED BY <1>1, <2>3, <1>d, Zenon DEF Register, Accepted, KillPcs
<1>2. CASE NextToClean
  <2>1. CASE todo = <<>>
    BY <1>0, <1>2, <2>1, Zenon DEF NextToClean, KillPcs
  <2>2. CASE todo # <<>>
    <3>1. \A i \in DOMAIN todo' : \E j \in DOMAIN todo : todo'[i] = todo[j]
      BY <1>2, <1>t, <2>2, SMT DEF NextToClean
    <3>2. \E j \in DOMAIN todo : mconn' = todo[j]
      BY <1>2, <1>t, <2>2, SMT DEF NextToClean
    <3>3. \A i \in DOMAIN todo' : fd'[<<todo'[i], "k">>] # "none"
      BY <3>1, <1>d, Zenon
    <3>4. fd'[<<mconn', "k">>] # "none"
      BY <3>2, <1>d, Zenon
    <3>5. UNCHANGED workers
      BY <1>2, Zenon DEF NextToClean
    <3> QED BY <3>3, <3>4, <3>5, <1>w, Zenon DEF Accepted
  <2> QED BY <2>1, <2>2, Zenon
<1>3. ASSUME NEW c \in Conns, Accept(c) PROVE Accepted'
  <2>1. fd'[<<c, "k">>] = "open"
    BY <1>3, EndFacts, Zenon DEF Accept, TypeInv, TypeOK
  <2> QED BY <1>0, <1>3, <2>1, Zenon DEF Accept
<1>4. CASE Connect \/ StartWorker("start2", "v", "start1") \/ StartWorker("start1", "k", "append")
  BY <1>0, <1>4, <1>m, Zenon DEF Connect, StartWorker, MainAt
<1>5. CASE Listen \/ MainFails \/ Join("join1", "k", "join2") \/ Join("join2", "v", "clean")
  BY <1>0, <1>5, Zenon DEF Listen, MainFails, RaisedTo, TryPcs, Join, KillPcs
<1>6. CASE MainKill
  <2>1. mpc \in KillPcs
    BY <1>6, Zenon DEF MainKill, killp, KillPcs
  <2> QED BY <1>0, <1>6, <1>m, <2>1, Zenon DEF MainKill
<1>7. CASE UNCHANGED mainVars
  BY <1>0, <1>7, <1>m, Zenon
<1>8. CASE PrintTotal
  BY <1>8, Zenon DEF PrintTotal, LeakInv, Quiet
<1>9. ASSUME NEW w \in Ends, worker(w) PROVE UNCHANGED mainVars
  BY <1>9, Zenon DEF worker, RecvCall, RecvData, RecvEnd, LoadCount, StoreCount, SendByte, SendShort,
              SendRaise, WorkerKill
<1>10. CASE Peers \/ Sigint \/ Sigterm \/ PrintC2S \/ PrintS2C
  BY <1>7, <1>10, Zenon DEF Peers, PeerSend, PeerRead, PeerFin, PeerReset, Sigint, Sigterm, PrintC2S,
                    PrintS2C
<1>11. CASE doProxyMain
  BY <1>1, <1>2, <1>3, <1>4, <1>5, <1>6, <1>11, Zenon DEF doProxyMain
<1> QED BY <1>7, <1>8, <1>9, <1>10, <1>11, Zenon DEF Next, inthandler, vars

\* The inductive step.
LEMMA LeakInvNext ==
  ASSUME "reset" \notin PeerEnds
  PROVE  TypeInv /\ TypeInv' /\ CloseInv /\ LeakInv /\ [Next]_vars => LeakInv'
<1> SUFFICES ASSUME TypeInv, TypeInv', CloseInv, LeakInv, [Next]_vars PROVE LeakInv'
  BY Zenon
<1> USE DEF mainVars, sigVars, workVars, sockVars, peerVars
<1>q. /\ ~inthandler /\ ~Sigterm
      /\ doProxyMain \/ (\E w \in Ends : worker(w)) \/ Peers \/ UNCHANGED vars
  <2>1. ~(sigs > 0)
    BY DEF LeakInv, Quiet
  <2>2. ~inthandler /\ ~Sigterm
    BY <2>1, Zenon DEF LeakInv, Quiet, inthandler, Sigint, Sigterm, PrintC2S, PrintS2C, PrintTotal
  <2> QED BY <2>2, Zenon DEF Next
<1>s. SocketStep
  <2>1. CASE Peers
    <3>1. \A x \in Ends : peer'[x] = "reset" => peer[x] = "reset" \/ shut[x]
      <4>p. peer \in [Ends -> {"open", "fin", "reset"}]
        BY Zenon DEF TypeInv, TypeOK
      <4>1. \/ UNCHANGED peer
            \/ \E x \in Ends : peer' = [peer EXCEPT ![x] = "fin"]
            \/ \E x \in Ends : shut[x] /\ peer' = [peer EXCEPT ![x] = "reset"]
        BY <2>1, Zenon DEF Peers, PeerSend, PeerRead, PeerFin, PeerReset
      <4> QED BY <4>p, <4>1, Zenon
    <3>2. UNCHANGED <<fd, shut>> /\ UNCHANGED <<mpc, mconn>> /\ UNCHANGED wpc
      BY <2>1, Zenon DEF Peers, PeerSend, PeerRead, PeerFin, PeerReset
    <3> QED BY <3>1, <3>2, SocketsLeft, Zenon
  <2>2. CASE UNCHANGED vars
    BY <2>2, SocketsLeft, Zenon DEF vars
  <2> QED BY <1>q, <2>1, <2>2, SocketsMain, SocketsWorker, Zenon
<1>1. Quiet'
  <2>1. CASE doProxyMain
    BY <2>1, Zenon DEF doProxyMain, Listen, Accept, Connect, StartWorker, Register, MainFails,
                NextToClean, MainKill, Join, LeakInv, Quiet
  <2>2. ASSUME NEW w \in Ends, worker(w) PROVE Quiet'
    BY <2>2, Zenon DEF worker, RecvCall, RecvData, RecvEnd, LoadCount, StoreCount, SendByte, SendShort,
                SendRaise, WorkerKill, LeakInv, Quiet
  <2>3. CASE Peers \/ UNCHANGED vars
    BY <2>3, Zenon DEF Peers, PeerSend, PeerRead, PeerFin, PeerReset, vars, LeakInv, Quiet
  <2> QED BY <1>q, <2>1, <2>2, <2>3, Zenon
<1>2. Accepted'
  BY <1>s, AcceptedNext, Zenon DEF LeakInv
<1>3. Unshut'
  <2>1. ASSUME NEW c \in Conns, fd'[<<c, "k">>] = "none" PROVE ~shut'[<<c, "v">>]
    <3>1. fd[<<c, "k">>] = "none" /\ ~shut[<<c, "v">>]
      BY <1>s, <2>1, EndFacts, Zenon DEF SocketStep, LeakInv, Unshut
    <3>2. <<c, "v">>[1] = c
      BY SMT
    <3> QED BY <1>s, <3>1, <3>2, EndFacts, Zenon DEF SocketStep
  <2>2. ASSUME mpc' = "connect" PROVE ~shut'[<<mconn', "v">>]
    <3>1. \/ \E c \in Conns : Accept(c)
          \/ mpc = "connect" /\ UNCHANGED mconn
      <4>1. CASE doProxyMain
        <5>1. MainKill => mpc' # "connect"
          <6> SUFFICES ASSUME MainKill PROVE mpc' # "connect"
            BY Zenon
          <6> PICK next \in KillPcs \cup {"ret"} : mpc' = IF next = "ret" THEN "join1" ELSE next
            BY Zenon DEF MainKill
          <6> QED BY Zenon DEF KillPcs
        <5>2. MainFails => mpc' # "connect"
          BY Zenon DEF MainFails, RaisedTo, TryPcs, KillPcs
        <5> QED BY <2>2, <4>1, <5>1, <5>2, Zenon DEF doProxyMain, Listen, Connect, StartWorker, Register,
                        NextToClean, Join
      <4>2. ASSUME NEW w \in Ends, worker(w) PROVE UNCHANGED mainVars
        BY <4>2, Zenon DEF worker, RecvCall, RecvData, RecvEnd, LoadCount, StoreCount, SendByte,
                    SendShort, SendRaise, WorkerKill
      <4>3. CASE Peers \/ UNCHANGED vars
        BY <2>2, <4>3, Zenon DEF Peers, PeerSend, PeerRead, PeerFin, PeerReset, vars
      <4> QED BY <1>q, <2>2, <4>1, <4>2, <4>3, Zenon
    <3>2. CASE \E c \in Conns : Accept(c)
      BY <3>2, Zenon DEF Accept, LeakInv, Unshut
    <3>3. CASE mpc = "connect" /\ UNCHANGED mconn
      <4>1. mconn \in Conns /\ ~shut[<<mconn, "v">>]
        BY <3>3, Zenon DEF LeakInv, Unshut, TypeInv, TypeOK
      <4>2. <<mconn, "v">>[1] = mconn
        BY SMT
      <4> QED BY <1>s, <3>3, <4>1, <4>2, EndFacts, Zenon DEF SocketStep
    <3> QED BY <3>1, <3>2, <3>3, Zenon
  <2> QED BY <2>1, <2>2, Zenon DEF Unshut
<1>4. ResetWasShut'
  BY <1>s, Zenon DEF SocketStep, LeakInv, ResetWasShut
<1>5. ShutIsClosing'
  BY <1>s, Zenon DEF SocketStep, LeakInv, ShutIsClosing
<1>6. DoneWasShut'
  BY <1>s, Zenon DEF SocketStep, DoneWasShut
<1> QED BY <1>1, <1>2, <1>3, <1>4, <1>5, <1>6, Zenon DEF LeakInv

\* Where no peer resets its connection and no signal arrives, killp of the two
\* workers and of the final loop, which may all run at once, leave no socket
\* of a finished connection open: a shutdown raises only where another thread
\* has shut the same socket down, and that one goes on to close it.
THEOREM DescriptorsClosed ==
  ASSUME "reset" \notin PeerEnds, Signals = 0
  PROVE  Spec => []NoDescriptorLeak
<1>1. Init => LeakInv
  <2> SUFFICES ASSUME Init PROVE LeakInv
    BY Zenon
  <2>1. Quiet
    BY Zenon DEF Init, Quiet
  <2>2. Accepted
    BY DEF Init, Accepted, KillPcs
  <2>3. Unshut
    BY EndFacts, Zenon DEF Init, Unshut
  <2>4. ResetWasShut /\ ShutIsClosing /\ DoneWasShut
    BY Zenon DEF Init, ResetWasShut, ShutIsClosing, DoneWasShut, ShutPcs
  <2> QED BY <2>1, <2>2, <2>3, <2>4, Zenon DEF LeakInv
<1>2. LeakInv => NoDescriptorLeak
  <2> SUFFICES ASSUME LeakInv, NEW c \in Conns, wpc[<<c, "k">>] = "done", wpc[<<c, "v">>] = "done",
                      ~(mconn = c /\ mpc \in KillPcs)
               PROVE  fd[<<c, "k">>] = "closed" /\ fd[<<c, "v">>] = "closed"
    BY Zenon DEF NoDescriptorLeak
  <2>1. shut[<<c, "k">>] /\ shut[<<c, "v">>]
    BY EndFacts, Zenon DEF LeakInv, DoneWasShut, ShutPcs
  <2>2. <<c, "k">>[1] = c /\ <<c, "v">>[1] = c
    BY SMT
  <2>3. ~Closing(<<c, "k">>) /\ ~Closing(<<c, "v">>)
    BY <2>2, EndFacts, Zenon DEF Closing, KillPcs
  <2> QED BY <2>1, <2>3, EndFacts, Zenon DEF LeakInv, ShutIsClosing
<1>3. TypeInv /\ TypeInv' /\ CloseInv /\ LeakInv /\ [Next]_vars => LeakInv'
  BY LeakInvNext
<1> QED BY <1>1, <1>2, <1>3, Invariants, PTL DEF Spec

-----------------------------------------------------------------------------
(***************************************************************************)
(* With one connection the counters and the report of inthandler are right.*)
(***************************************************************************)

\* What += has loaded is still the value of the counter.
LoadedIsCurrent == \A w \in Ends : wpc[w] = "store" => tmp[w] = count[w[2]]

\* What inthandler has printed so far.
PrintedSoFar ==
  /\ handler \in {"s2c", "total"} => printed.c2s <= count["k"]
  /\ handler = "total" => printed.s2c <= count["v"]

CountInv == CountsExact /\ LoadedIsCurrent /\ PrintedSoFar /\ ReportConsistent

\* A step of nobody's recv or += keeps the counters exact.
LEMMA CountsKept ==
  ASSUME CountInv, UNCHANGED <<count, rcvd, tmp>>,
         \A w \in Ends : wpc[w] \in {"load", "store"} \/ wpc'[w] \in {"load", "store"} =>
                           wpc'[w] = wpc[w] /\ hold'[w] = hold[w]
  PROVE  CountsExact' /\ LoadedIsCurrent'
<1>1. ASSUME NEW w \in Ends PROVE Uncounted'[w] = Uncounted[w]
  BY Zenon DEF Uncounted
<1>2. CountsExact'
  BY <1>1, Zenon DEF CountInv, CountsExact
<1>3. LoadedIsCurrent'
  BY Zenon DEF CountInv, LoadedIsCurrent
<1> QED BY <1>2, <1>3, Zenon

\* Counters that only grow keep what inthandler has printed true.
LEMMA ReportKept ==
  ASSUME TypeInv, TypeInv', CountInv, UNCHANGED <<handler, printed>>,
         \A s \in Sides : count[s] <= count'[s],
         \A w \in Ends : rcvd[w] <= rcvd'[w]
  PROVE  PrintedSoFar' /\ ReportConsistent'
<1>t. /\ count["k"] \in Nat /\ count["v"] \in Nat /\ count'["k"] \in Nat /\ count'["v"] \in Nat
      /\ \A w \in Ends : rcvd[w] \in Nat /\ rcvd'[w] \in Nat
  BY Zenon DEF TypeInv, TypeOK, Sides
<1>p. printed.c2s \in Nat /\ printed.s2c \in Nat /\ printed.total \in Nat
  BY SMT DEF TypeInv, TypeOK
<1>c. count["k"] <= count'["k"] /\ count["v"] <= count'["v"]
  BY Zenon DEF Sides
<1>1. PrintedSoFar'
  <2>1. /\ handler \in {"s2c", "total"} => printed.c2s <= count'["k"]
        /\ handler = "total" => printed.s2c <= count'["v"]
    BY <1>t, <1>p, <1>c, SMT DEF CountInv, PrintedSoFar
  <2> QED BY <2>1, Zenon DEF PrintedSoFar
<1>2. ReportConsistent'
  <2>1. ASSUME handler = "no", NEW d \in Conns
        PROVE  printed.total <= rcvd'[<<d, "k">>] + rcvd'[<<d, "v">>]
    <3>1. printed.total <= rcvd[<<d, "k">>] + rcvd[<<d, "v">>]
      BY <2>1, Zenon DEF CountInv, ReportConsistent
    <3>2. /\ rcvd[<<d, "k">>] <= rcvd'[<<d, "k">>] /\ rcvd[<<d, "v">>] <= rcvd'[<<d, "v">>]
          /\ rcvd[<<d, "k">>] \in Nat /\ rcvd[<<d, "v">>] \in Nat
          /\ rcvd'[<<d, "k">>] \in Nat /\ rcvd'[<<d, "v">>] \in Nat
      BY <1>t, EndFacts, Zenon
    <3> QED BY <1>p, <3>1, <3>2
  <2> QED BY <2>1, Zenon DEF CountInv, ReportConsistent
<1> QED BY <1>1, <1>2, Zenon

\* The steps of the only worker of each direction.
LEMMA CountInvWorker ==
  ASSUME NEW c, Conns = {c}, TypeInv, TypeInv', CountInv, NEW w \in Ends, worker(w)
  PROVE  CountInv'
<1> USE DEF sigVars, histVars
<1>e. w[2] \in Sides /\ \A u \in Ends : u[2] = w[2] => u = w
  BY EndFacts, SMT
<1>t. /\ wpc \in [Ends -> WorkPcs] /\ hold \in [Ends -> Nat] /\ tmp \in [Ends -> Nat]
      /\ count \in [Sides -> Nat] /\ rcvd \in [Ends -> Nat]
  BY Zenon DEF TypeInv, TypeOK
<1>s. UNCHANGED <<handler, printed>>
  BY Zenon DEF worker, RecvCall, RecvData, RecvEnd, LoadCount, StoreCount, SendByte, SendShort,
              SendRaise, WorkerKill
<1>g. \A x \in Sides : count[x] <= count[x]
  BY <1>t, SMT
<1>r. \A u \in Ends : rcvd[u] <= rcvd[u]
  BY <1>t, SMT
<1>x. CountsExact /\ LoadedIsCurrent
  BY Zenon DEF CountInv
<1>1. CASE \/ RecvCall(w) \/ RecvEnd(w) \/ SendByte(w) \/ SendShort(w) \/ SendRaise(w) \/ WorkerKill(w)
  <2>1. UNCHANGED <<count, rcvd, tmp>>
    BY <1>1, Zenon DEF RecvCall, RecvEnd, SendByte, SendShort, SendRaise, WorkerKill
  <2>2. /\ wpc[w] \notin {"load", "store"}
        /\ \E p \in WorkPcs \ {"load", "store"} : wpc' = [wpc EXCEPT ![w] = p]
    <3>1. CASE WorkerKill(w)
      <4> PICK next \in KillPcs \cup {"ret"} :
            /\ killp(wpc[w], w, Opp(w), next)
            /\ wpc' = [wpc EXCEPT ![w] = IF next = "ret" THEN "done" ELSE next]
        BY <3>1, Zenon DEF WorkerKill
      <4>1. wpc[w] \notin {"load", "store"}
        BY Zenon DEF killp
      <4>2. (IF next = "ret" THEN "done" ELSE next) \in WorkPcs \ {"load", "store"}
        BY Zenon DEF KillPcs, WorkPcs
      <4> QED BY <4>1, <4>2, Zenon
    <3>2. ASSUME NEW p \in {"call", "recv", "send", "shutA"}, wpc' = [wpc EXCEPT ![w] = p],
                 wpc[w] \in {"call", "recv", "send"}
          PROVE  /\ wpc[w] \notin {"load", "store"}
                 /\ \E q \in WorkPcs \ {"load", "store"} : wpc' = [wpc EXCEPT ![w] = q]
      <4>1. p \in WorkPcs \ {"load", "store"}
        BY <3>2, Zenon DEF WorkPcs, KillPcs
      <4> QED BY <3>2, <4>1, Zenon
    <3>3. CASE RecvCall(w) \/ RecvEnd(w)
      BY <3>2, <3>3, Zenon DEF RecvCall, RecvEnd
    <3>4. CASE SendByte(w) \/ SendShort(w) \/ SendRaise(w)
      BY <3>2, <3>4, Zenon DEF SendByte, SendShort, SendRaise
    <3> QED BY <1>1, <3>1, <3>3, <3>4, Zenon
  <2>3. \A u \in Ends : u # w => hold'[u] = hold[u]
    BY <1>1, <1>t, Zenon DEF RecvCall, RecvEnd, SendByte, SendShort, SendRaise, WorkerKill
  <2>4. wpc'[w] \notin {"load", "store"} /\ \A u \in Ends : u # w => wpc'[u] = wpc[u]
    BY <2>2, <1>t, Zenon
  <2>5. \A u \in Ends : wpc[u] \in {"load", "store"} \/ wpc'[u] \in {"load", "store"} =>
                          wpc'[u] = wpc[u] /\ hold'[u] = hold[u]
    BY <2>2, <2>3, <2>4, Zenon
  <2>6. CountsExact' /\ LoadedIsCurrent'
    BY <2>1, <2>5, CountsKept, Zenon
  <2>7. /\ \A x \in Sides : count[x] <= count'[x]
        /\ \A u \in Ends : rcvd[u] <= rcvd'[u]
    BY <1>g, <1>r, <2>1, Zenon
  <2>8. PrintedSoFar' /\ ReportConsistent'
    BY <1>s, <2>7, ReportKept, Zenon
  <2> QED BY <2>6, <2>8, Zenon DEF CountInv
<1>2. CASE RecvData(w)
  <2> DEFINE n == Smaller(inq[w], Chunk)
  <2>n. n \in Nat
    BY ConstantsOK, Zenon DEF Smaller, TypeInv, TypeOK
  <2>1. /\ wpc[w] = "recv" /\ wpc' = [wpc EXCEPT ![w] = "load"]
        /\ hold' = [hold EXCEPT ![w] = n]
        /\ rcvd' = [rcvd EXCEPT ![w] = rcvd[w] + n]
        /\ UNCHANGED <<tmp, count>>
    BY <1>2, Zenon DEF RecvData
  <2> HIDE DEF n
  <2>2. /\ wpc'[w] = "load" /\ hold'[w] = n /\ rcvd'[w] = rcvd[w] + n
        /\ \A u \in Ends : u # w => wpc'[u] = wpc[u] /\ hold'[u] = hold[u] /\ rcvd'[u] = rcvd[u]
    BY <1>t, <2>1, Zenon
  <2>3. CountsExact'
    <3>1. count[w[2]] + n = rcvd[w] + n
      <4>1. Uncounted[w] = 0
        BY <2>1, Zenon DEF Uncounted
      <4>2. count[w[2]] + 0 = rcvd[w]
        BY <1>x, <4>1, Zenon DEF CountsExact
      <4>3. count[w[2]] \in Nat
        BY <1>t, <1>e, Zenon
      <4> QED BY <4>2, <4>3, <2>n
    <3>2. Uncounted'[w] = n
      BY <2>2, Zenon DEF Uncounted
    <3>3. \A u \in Ends : u # w => Uncounted'[u] = Uncounted[u]
      BY <2>2, Zenon DEF Uncounted
    <3> QED BY <1>x, <2>1, <2>2, <3>1, <3>2, <3>3, Zenon DEF CountsExact
  <2>4. LoadedIsCurrent'
    BY <1>x, <2>1, <2>2, Zenon DEF LoadedIsCurrent
  <2>5. \A u \in Ends : rcvd[u] <= rcvd'[u]
    BY <1>t, <2>n, <2>2, SMT
  <2>6. PrintedSoFar' /\ ReportConsistent'
    BY <1>s, <1>g, <2>1, <2>5, ReportKept, Zenon
  <2> QED BY <2>3, <2>4, <2>6, Zenon DEF CountInv
<1>3. CASE LoadCount(w)
  <2>1. /\ wpc[w] = "load" /\ wpc' = [wpc EXCEPT ![w] = "store"]
        /\ tmp' = [tmp EXCEPT ![w] = count[w[2]]]
        /\ UNCHANGED <<hold, count, rcvd>>
    BY <1>3, Zenon DEF LoadCount
  <2>2. /\ wpc'[w] = "store" /\ tmp'[w] = count[w[2]]
        /\ \A u \in Ends : u # w => wpc'[u] = wpc[u] /\ tmp'[u] = tmp[u]
    BY <1>t, <2>1, Zenon
  <2>3. \A u \in Ends : Uncounted'[u] = Uncounted[u]
    BY <2>1, <2>2, Zenon DEF Uncounted
  <2>4. CountsExact'
    BY <1>x, <2>1, <2>3, Zenon DEF CountsExact
  <2>5. LoadedIsCurrent'
    BY <1>x, <2>1, <2>2, Zenon DEF LoadedIsCurrent
  <2>6. PrintedSoFar' /\ ReportConsistent'
    BY <1>s, <1>g, <1>r, <2>1, ReportKept, Zenon
  <2> QED BY <2>4, <2>5, <2>6, Zenon DEF CountInv
<1>4. CASE StoreCount(w)
  <2>1. /\ wpc[w] = "store" /\ wpc' = [wpc EXCEPT ![w] = "send"]
        /\ count' = [count EXCEPT ![w[2]] = tmp[w] + hold[w]]
        /\ tmp' = [tmp EXCEPT ![w] = 0]
        /\ UNCHANGED <<hold, rcvd>>
    BY <1>4, Zenon DEF StoreCount
  <2>2. /\ wpc'[w] = "send" /\ count'[w[2]] = tmp[w] + hold[w]
        /\ \A u \in Ends : u # w => wpc'[u] = wpc[u] /\ tmp'[u] = tmp[u]
        /\ \A x \in Sides : x # w[2] => count'[x] = count[x]
    BY <1>e, <1>t, <2>1, Zenon
  <2>3. tmp[w] = count[w[2]]
    BY <1>x, <2>1, Zenon DEF LoadedIsCurrent
  <2>o. \A u \in Ends : u # w => u[2] # w[2] /\ count'[u[2]] = count[u[2]]
    BY <1>e, <2>2, EndFacts, Zenon
  <2>4. CountsExact'
    <3>1. count'[w[2]] + 0 = rcvd[w]
      <4>1. Uncounted[w] = hold[w]
        BY <2>1, Zenon DEF Uncounted
      <4>2. count[w[2]] + hold[w] = rcvd[w]
        BY <1>x, <4>1, Zenon DEF CountsExact
      <4>3. count[w[2]] \in Nat /\ hold[w] \in Nat
        BY <1>t, <1>e, Zenon
      <4> QED BY <2>2, <2>3, <4>2, <4>3
    <3>2. Uncounted'[w] = 0
      BY <2>2, Zenon DEF Uncounted
    <3>3. \A u \in Ends : u # w => Uncounted'[u] = Uncounted[u]
      BY <2>1, <2>2, Zenon DEF Uncounted
    <3> QED BY <1>x, <2>1, <2>o, <3>1, <3>2, <3>3, Zenon DEF CountsExact
  <2>5. LoadedIsCurrent'
    BY <1>x, <2>2, <2>o, Zenon DEF LoadedIsCurrent
  <2>6. \A x \in Sides : count[x] <= count'[x]
    BY <1>t, <1>e, <2>2, <2>3, SMT
  <2>7. PrintedSoFar' /\ ReportConsistent'
    BY <1>s, <1>r, <2>1, <2>6, ReportKept, Zenon
  <2> QED BY <2>4, <2>5, <2>7, Zenon DEF CountInv
<1> QED BY <1>1, <1>2, <1>3, <1>4, Zenon DEF worker

\* The three prints of inthandler, each of which may read a newer counter.
LEMMA CountInvReport ==
  ASSUME NEW c, Conns = {c}, TypeInv, TypeInv', CountInv, inthandler \/ Sigterm
  PROVE  CountInv'
<1> USE DEF workVars, histVars
<1>u. UNCHANGED <<count, rcvd, tmp>> /\ UNCHANGED <<wpc, hold>>
  BY Zenon DEF inthandler, Sigint, Sigterm, PrintC2S, PrintS2C, PrintTotal
<1>1. CountsExact' /\ LoadedIsCurrent'
  BY <1>u, CountsKept, Zenon
<1>t. printed \in [c2s : Nat, s2c : Nat, total : Nat]
  BY Zenon DEF TypeInv, TypeOK
<1>c. count["k"] \in Nat /\ count["v"] \in Nat
  BY Zenon DEF TypeInv, TypeOK, Sides
<1>g. count["k"] <= count["k"] /\ count["v"] <= count["v"]
  BY <1>c
<1>2. CASE Sigint \/ Sigterm
  <2>1. UNCHANGED <<printed, count, rcvd>> /\ (handler' = "c2s" \/ UNCHANGED handler)
    BY <1>2, <1>u, Zenon DEF Sigint, Sigterm
  <2>2. PrintedSoFar' /\ ReportConsistent'
    BY <2>1, Zenon DEF CountInv, PrintedSoFar, ReportConsistent
  <2> QED BY <1>1, <2>2, Zenon DEF CountInv
<1>3. CASE PrintC2S
  <2>1. handler' = "s2c" /\ printed'.c2s = count["k"]
    BY <1>3, <1>t, SMT DEF PrintC2S
  <2>2. PrintedSoFar' /\ ReportConsistent'
    BY <2>1, <1>g, <1>u, Zenon DEF PrintedSoFar, ReportConsistent
  <2> QED BY <1>1, <2>2, Zenon DEF CountInv
<1>4. CASE PrintS2C
  <2>1. handler = "s2c" /\ handler' = "total" /\ printed'.s2c = count["v"] /\ printed'.c2s = printed.c2s
    BY <1>4, <1>t, SMT DEF PrintS2C
  <2>2. printed.c2s <= count["k"]
    BY <2>1, Zenon DEF CountInv, PrintedSoFar
  <2>3. PrintedSoFar' /\ ReportConsistent'
    BY <2>1, <2>2, <1>g, <1>u, Zenon DEF PrintedSoFar, ReportConsistent
  <2> QED BY <1>1, <2>3, Zenon DEF CountInv
<1>5. CASE PrintTotal
  <2>1. /\ handler = "total" /\ handler' = "no" /\ printed'.total = count["k"] + count["v"]
        /\ printed'.s2c = printed.s2c /\ printed'.c2s = printed.c2s
    BY <1>5, <1>t, SMT DEF PrintTotal
  <2>2. printed.c2s <= count["k"] /\ printed.s2c <= count["v"]
    BY <2>1, Zenon DEF CountInv, PrintedSoFar
  <2>3. printed'.c2s + printed'.s2c <= printed'.total
    BY <1>t, <1>c, <2>1, <2>2, SMT
  <2>4. ASSUME NEW d \in Conns PROVE printed'.total <= rcvd'[<<d, "k">>] + rcvd'[<<d, "v">>]
    <3>1. \A w \in Ends : /\ count[w[2]] + Uncounted[w] = rcvd[w]
                          /\ Uncounted[w] \in Nat /\ rcvd[w] \in Nat
      BY Zenon DEF CountInv, CountsExact, Uncounted, TypeInv, TypeOK
    <3>2. <<d, "k">>[2] = "k" /\ <<d, "v">>[2] = "v" /\ <<d, "k">> \in Ends /\ <<d, "v">> \in Ends
      BY EndFacts, SMT
    <3>3. /\ count["k"] + Uncounted[<<d, "k">>] = rcvd[<<d, "k">>]
          /\ count["v"] + Uncounted[<<d, "v">>] = rcvd[<<d, "v">>]
          /\ Uncounted[<<d, "k">>] \in Nat /\ Uncounted[<<d, "v">>] \in Nat
      BY <3>1, <3>2, Zenon
    <3>4. count["k"] + count["v"] <= rcvd[<<d, "k">>] + rcvd[<<d, "v">>]
      BY <1>c, <3>3
    <3> QED BY <1>u, <2>1, <3>4, Zenon
  <2>5. PrintedSoFar' /\ ReportConsistent'
    BY <2>1, <2>3, <2>4, Zenon DEF PrintedSoFar, ReportConsistent
  <2> QED BY <1>1, <2>5, Zenon DEF CountInv
<1> QED BY <1>2, <1>3, <1>4, <1>5, Zenon DEF inthandler

\* The inductive step: nobody else touches a counter.
LEMMA CountInvNext ==
  ASSUME NEW c, Conns = {c}
  PROVE  TypeInv /\ TypeInv' /\ CountInv /\ [Next]_vars => CountInv'
<1> SUFFICES ASSUME TypeInv, TypeInv', CountInv, [Next]_vars PROVE CountInv'
  BY Zenon
<1> USE DEF sigVars, workVars, histVars
<1>1. ASSUME UNCHANGED <<count, rcvd, tmp, hold>>, UNCHANGED <<handler, printed>>,
             \A w \in Ends : wpc'[w] # wpc[w] =>
               wpc[w] \notin {"load", "store"} /\ wpc'[w] \notin {"load", "store"}
      PROVE  CountInv'
  <2>1. CountsExact' /\ LoadedIsCurrent'
    BY <1>1, CountsKept, Zenon
  <2>2. /\ \A s \in Sides : count[s] <= count[s]
        /\ \A w \in Ends : rcvd[w] <= rcvd[w]
    <3>1. count \in [Sides -> Nat] /\ rcvd \in [Ends -> Nat]
      BY Zenon DEF TypeInv, TypeOK
    <3> QED BY <3>1, SMT
  <2>3. PrintedSoFar' /\ ReportConsistent'
    BY <1>1, <2>2, ReportKept, Zenon
  <2> QED BY <2>1, <2>3, Zenon DEF CountInv
<1>2. CASE StartWorker("start2", "v", "start1") \/ StartWorker("start1", "k", "append")
  <2>1. \E s \in Sides : wpc' = [wpc EXCEPT ![<<mconn, s>>] = "call"] /\ wpc[<<mconn, s>>] = "none"
    BY <1>2, Zenon DEF StartWorker, MainAt, Sides, TypeInv, Fresh
  <2>2. \A w \in Ends : wpc'[w] # wpc[w] =>
          wpc[w] \notin {"load", "store"} /\ wpc'[w] \notin {"load", "store"}
    BY <2>1, Zenon DEF TypeInv, TypeOK
  <2> QED BY <1>1, <1>2, <2>2, Zenon DEF StartWorker
<1>3. CASE UNCHANGED <<sigVars, workVars, histVars>>
  BY <1>1, <1>3, Zenon
<1>4. CASE doProxyMain
  BY <1>2, <1>3, <1>4, Zenon DEF doProxyMain, Listen, Accept, Connect, Register, MainFails, NextToClean,
                        MainKill, Join
<1>5. CASE Peers \/ UNCHANGED vars
  BY <1>3, <1>5, Zenon DEF Peers, PeerSend, PeerRead, PeerFin, PeerReset, vars
<1> QED BY <1>4, <1>5, CountInvWorker, CountInvReport, Zenon DEF Next

\* The invariant of the counters, for one connection.
LEMMA Counters ==
  ASSUME NEW c, Conns = {c}
  PROVE  Spec => []CountInv
<1>1. Init => CountInv
  <2> SUFFICES ASSUME Init PROVE CountInv
    BY Zenon
  <2>1. CountsExact
    BY EndFacts, SMT DEF Init, CountsExact, Uncounted
  <2>2. LoadedIsCurrent /\ PrintedSoFar
    BY Zenon DEF Init, LoadedIsCurrent, PrintedSoFar
  <2>3. ReportConsistent
    BY EndFacts, SMT DEF Init, ReportConsistent
  <2> QED BY <2>1, <2>2, <2>3, Zenon DEF CountInv
<1>2. TypeInv /\ TypeInv' /\ CountInv /\ [Next]_vars => CountInv'
  BY CountInvNext
<1> QED BY <1>1, <1>2, TypeInvInit, TypeInvNext, PTL DEF Spec

\* With one connection += loses no update: c2s and s2c are the bytes received,
\* but for those that a worker is adding right now.
THEOREM CountersExact ==
  ASSUME NEW c, Conns = {c}
  PROVE  Spec => []CountsExact
<1>1. CountInv => CountsExact BY Zenon DEF CountInv
<1>2. Spec => []CountInv BY Counters
<1> QED BY <1>1, <1>2, PTL

\* With one connection the report of inthandler, which reads the counters while
\* the workers add to them, never shows a total below its parts or above what
\* was received.
THEOREM ReportTruthful ==
  ASSUME NEW c, Conns = {c}
  PROVE  Spec => []ReportConsistent
<1>1. CountInv => ReportConsistent BY Zenon DEF CountInv
<1>2. Spec => []CountInv BY Counters
<1> QED BY <1>1, <1>2, PTL
=============================================================================
