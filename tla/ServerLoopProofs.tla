------------------------- MODULE ServerLoopProofs -------------------------
(***************************************************************************)
(* The server never waits in recv(), for any number of clients.  What the  *)
(* pass relies on is that no client is in the list twice, so that one read *)
(* early in the pass is not met again: hence a client that connects is not *)
(* waiting or listed already, which is Apart below.                        *)
(***************************************************************************)
EXTENDS ServerLoop, SeqLemmas

Apart ==
  /\ IsInjective(cli_list)
  /\ IsInjective(backlog)
  /\ Range(backlog) \cap Clients = {}
  /\ pc # "done" => \A p \in Peer :
       peer[p] = "away" => p \notin Range(backlog) \cup Clients

IInv == TypeOK /\ NeverBlocks /\ Apart

-----------------------------------------------------------------------------
(* Taking the head off a list without repetitions.                         *)
LEMMA HeadTailRange ==
  ASSUME NEW S, NEW s \in Seq(S), s # <<>>, IsInjective(s)
  PROVE  /\ Head(s) \in S /\ Tail(s) \in Seq(S)
         /\ Range(Tail(s)) = Range(s) \ {Head(s)}
         /\ Head(s) \in Range(s)
         /\ IsInjective(Tail(s))
<1>1. /\ Len(s) \in Nat /\ Len(s) > 0 /\ DOMAIN s = 1 .. Len(s)
      /\ Head(s) = s[1]
  BY EmptySeq, LenProperties
<1>2. /\ Head(s) \in S /\ Tail(s) \in Seq(S) /\ Len(Tail(s)) = Len(s) - 1
      /\ \A j \in 1 .. Len(Tail(s)) : Tail(s)[j] = s[j + 1]
  BY HeadTailProperties
<1>3. DOMAIN Tail(s) = 1 .. Len(s) - 1
  BY <1>2, LenProperties
<1>4. \A j \in 1 .. Len(s) - 1 : j + 1 \in 1 .. Len(s) /\ j + 1 # 1
  BY <1>1
<1>5. \A k \in 1 .. Len(s) : k # 1 => k - 1 \in 1 .. Len(s) - 1 /\ (k - 1) + 1 = k
  BY <1>1
<1>6. Range(Tail(s)) \subseteq Range(s) \ {Head(s)}
  BY <1>1, <1>2, <1>3, <1>4 DEF Range, IsInjective
<1>7. ASSUME NEW x \in Range(s) \ {Head(s)} PROVE x \in Range(Tail(s))
  <2>1. PICK k \in 1 .. Len(s) : s[k] = x
    BY <1>1 DEF Range
  <2>2. k # 1
    BY <1>1, <1>7, <2>1
  <2>3. k - 1 \in 1 .. Len(s) - 1 /\ Tail(s)[k - 1] = x
    BY <1>2, <1>5, <2>1, <2>2
  <2> QED BY <1>3, <2>3 DEF Range
<1>8. IsInjective(Tail(s))
  <2>1. SUFFICES ASSUME NEW j \in 1 .. Len(s) - 1, NEW k \in 1 .. Len(s) - 1,
                        Tail(s)[j] = Tail(s)[k]
                 PROVE  j = k
    BY <1>3 DEF IsInjective
  <2>2. s[j + 1] = s[k + 1] /\ j + 1 \in DOMAIN s /\ k + 1 \in DOMAIN s
    BY <1>1, <1>2, <1>4, <2>1
  <2>3. j + 1 = k + 1
    BY <2>2 DEF IsInjective
  <2> QED BY <1>1, <2>3
<1>9. Head(s) \in Range(s)
  BY <1>1 DEF Range
<1> QED BY <1>2, <1>6, <1>7, <1>8, <1>9

(* The index as a number, for the arithmetic.                              *)
LEMMA IndexType ==
  ASSUME TypeOK
  PROVE  i \in Nat /\ i >= 1 /\ i + 1 \in Nat \ {0}
<1>1. i \in Nat \ {0}
  BY DEF TypeOK
<1> QED BY <1>1

(* An element the loop still has to look at is a client.                   *)
LEMMA ListElement ==
  ASSUME TypeOK, NEW k \in i .. Len(cli_list)
  PROVE  /\ k \in 1 .. Len(cli_list) /\ k \in Nat /\ Len(cli_list) \in Nat
         /\ cli_list[k] \in Clients /\ cli_list[k] \in Peer
<1>1. Len(cli_list) \in Nat /\ DOMAIN cli_list = 1 .. Len(cli_list)
  BY LenProperties DEF TypeOK
<1>2. k \in 1 .. Len(cli_list) /\ k \in Nat
  <2>1. i \in Nat /\ i >= 1
    BY IndexType
  <2> QED BY <1>1, <2>1
<1>3. cli_list[k] \in Peer
  BY <1>2, ElementOfSeq DEF TypeOK
<1> QED BY <1>1, <1>2, <1>3 DEF Clients, Range

-----------------------------------------------------------------------------
LEMMA InitIInv == Init => IInv
<1> SUFFICES ASSUME Init PROVE IInv
  OBVIOUS
<1>1. cli_list = <<>> /\ backlog = <<>> /\ Clients = {} /\ Range(backlog) = {}
  BY DEF Init, Clients, Range
<1>2. inbox \in [Peer -> Seq({"request", "exit"})]
  <2>1. <<>> \in Seq({"request", "exit"})
    BY EmptySeq
  <2> QED BY <2>1 DEF Init
<1>3. TypeOK
  <2>1. cli_list \in Seq(Peer) /\ backlog \in Seq(Peer)
    BY <1>1, EmptySeq
  <2> QED BY <1>2, <2>1 DEF Init, TypeOK
<1>4. NeverBlocks
  BY DEF Init, NeverBlocks
<1>5. Apart
  BY <1>1 DEF Apart, IsInjective
<1> QED BY <1>3, <1>4, <1>5 DEF IInv

LEMMA ConnectKeeps ==
  ASSUME IInv, NEW p \in Peer, Connect(p)
  PROVE  IInv'
<1>0. /\ TypeOK /\ backlog \in Seq(Peer)
      /\ pc \notin {"free", "done"} /\ peer[p] = "away"
      /\ peer' = [peer EXCEPT ![p] = "connected"]
      /\ backlog' = Append(backlog, p)
      /\ UNCHANGED <<pc, cli_list, i, readfds, inbox, stdin>>
  BY DEF IInv, TypeOK, Connect
<1>1. p \notin Range(backlog) /\ p \notin Clients
  BY <1>0 DEF IInv, Apart
<1>2. /\ backlog' \in Seq(Peer)
      /\ Range(backlog') = Range(backlog) \cup {p}
      /\ IsInjective(backlog')
  BY <1>0, <1>1, AppendRange DEF IInv, Apart
<1>3. Clients' = Clients
  BY <1>0 DEF Clients
<1>4. /\ peer' \in [Peer -> {"away", "connected", "logging on", "on", "leaving"}]
      /\ \A q \in Peer : peer'[q] = "away" => q # p /\ peer[q] = "away"
  BY <1>0 DEF TypeOK
<1>5. TypeOK'
  BY <1>0, <1>2, <1>4 DEF TypeOK
<1>6. NeverBlocks'
  BY <1>0 DEF IInv, NeverBlocks
<1>7. Apart'
  BY <1>0, <1>1, <1>2, <1>3, <1>4 DEF IInv, Apart
<1> QED BY <1>5, <1>6, <1>7 DEF IInv

(* A request that arrives only adds to an inbox.                           *)
LEMMA ArrivalKeeps ==
  ASSUME IInv, NEW p \in Peer, NEW m \in {"request", "exit"},
         inbox' \in [Peer -> Seq({"request", "exit"})],
         \A q \in Peer : inbox[q] # <<>> => inbox'[q] # <<>>,
         peer' \in [Peer -> {"away", "connected", "logging on", "on", "leaving"}],
         \A q \in Peer : peer'[q] = "away" => peer[q] = "away",
         UNCHANGED <<pc, backlog, cli_list, i, readfds, stdin>>
  PROVE  IInv'
<1>1. TypeOK'
  BY DEF IInv, TypeOK
<1>2. NeverBlocks'
  <2>1. SUFFICES ASSUME pc = "pass", NEW k \in i .. Len(cli_list),
                        cli_list[k] \in readfds
                 PROVE  inbox'[cli_list[k]] # <<>>
    BY DEF NeverBlocks
  <2>2. inbox[cli_list[k]] # <<>> /\ cli_list[k] \in Peer
    BY <2>1, ListElement DEF IInv, NeverBlocks
  <2> QED BY <2>2
<1>3. Apart'
  BY DEF IInv, Apart, Clients
<1> QED BY <1>1, <1>2, <1>3 DEF IInv

LEMMA SendLogonKeeps ==
  ASSUME IInv, NEW p \in Peer, SendLogon(p)
  PROVE  IInv'
<1>1. <<"request">> \in Seq({"request", "exit"}) /\ <<"request">> # <<>>
  OBVIOUS
<1>2. /\ inbox' = [inbox EXCEPT ![p] = <<"request">>]
      /\ peer' = [peer EXCEPT ![p] = "logging on"]
      /\ inbox \in [Peer -> Seq({"request", "exit"})]
      /\ peer \in [Peer -> {"away", "connected", "logging on", "on", "leaving"}]
      /\ UNCHANGED <<pc, backlog, cli_list, i, readfds, stdin>>
  BY DEF SendLogon, IInv, TypeOK
<1>3. inbox' \in [Peer -> Seq({"request", "exit"})]
      /\ \A q \in Peer : inbox[q] # <<>> => inbox'[q] # <<>>
  BY <1>1, <1>2
<1>4. /\ peer' \in [Peer -> {"away", "connected", "logging on", "on", "leaving"}]
      /\ \A q \in Peer : peer'[q] = "away" => peer[q] = "away"
  BY <1>2
<1> QED BY <1>2, <1>3, <1>4, ArrivalKeeps

LEMMA SendOnKeeps ==
  ASSUME IInv, NEW p \in Peer, SendRequest(p) \/ SendExit(p)
  PROVE  IInv'
<1>0. PICK m \in {"request", "exit"} : inbox' = [inbox EXCEPT ![p] = Append(@, m)]
  BY DEF SendRequest, SendExit
<1>1. /\ peer' = peer \/ peer' = [peer EXCEPT ![p] = "leaving"]
      /\ UNCHANGED <<pc, backlog, cli_list, i, readfds, stdin>>
  BY DEF SendRequest, SendExit
<1>2. /\ inbox \in [Peer -> Seq({"request", "exit"})]
      /\ peer \in [Peer -> {"away", "connected", "logging on", "on", "leaving"}]
  BY DEF IInv, TypeOK
<1>3. /\ Append(inbox[p], m) \in Seq({"request", "exit"})
      /\ Append(inbox[p], m) # <<>>
  <2>1. inbox[p] \in Seq({"request", "exit"})
    BY <1>2
  <2>2. Len(inbox[p]) \in Nat /\ Len(Append(inbox[p], m)) = Len(inbox[p]) + 1
        /\ Append(inbox[p], m) \in Seq({"request", "exit"})
    BY <2>1, AppendRange, LenProperties
  <2>3. Len(<<>>) = 0
    BY EmptySeq
  <2>4. Append(inbox[p], m) # <<>>
    <3>1. SUFFICES ASSUME Append(inbox[p], m) = <<>> PROVE FALSE
      OBVIOUS
    <3>2. Len(inbox[p]) + 1 = 0
      BY <2>2, <2>3, <3>1
    <3> QED BY <2>2, <3>2
  <2> QED BY <2>2, <2>4
<1>4. inbox' \in [Peer -> Seq({"request", "exit"})]
      /\ \A q \in Peer : inbox[q] # <<>> => inbox'[q] # <<>>
  BY <1>0, <1>2, <1>3
<1>5. /\ peer' \in [Peer -> {"away", "connected", "logging on", "on", "leaving"}]
      /\ \A q \in Peer : peer'[q] = "away" => peer[q] = "away"
  BY <1>1, <1>2
<1> QED BY <1>1, <1>4, <1>5, ArrivalKeeps

LEMMA TypeLineKeeps ==
  ASSUME IInv, TypeLine
  PROVE  IInv'
<1>1. TypeOK'
  BY DEF IInv, TypeOK, TypeLine
<1>2. NeverBlocks' /\ Apart'
  BY DEF IInv, TypeLine, NeverBlocks, Apart, Clients
<1> QED BY <1>1, <1>2 DEF IInv

LEMMA CheckDirectInputKeeps ==
  ASSUME IInv, CheckDirectInput
  PROVE  IInv'
<1>0. TypeOK
  BY DEF IInv
<1>1. TypeOK'
  <2>1. i' \in Nat \ {0}
    <3>1. i' = i \/ i' = 1
      BY DEF CheckDirectInput
    <3>2. i \in Nat \ {0}
      BY <1>0 DEF TypeOK
    <3> QED BY <3>1, <3>2
  <2>2. pc' \in {"select", "pass", "shutdown", "free", "done"} /\ stdin' = "quiet"
        /\ UNCHANGED <<backlog, cli_list, readfds, inbox, peer>>
    BY <1>0 DEF TypeOK, CheckDirectInput
  <2> QED BY <1>0, <2>1, <2>2 DEF TypeOK
<1>2. NeverBlocks' /\ Apart'
  BY DEF IInv, CheckDirectInput, NeverBlocks, Apart, Clients
<1> QED BY <1>1, <1>2 DEF IInv

LEMMA TakeNewConnectionKeeps ==
  ASSUME IInv, TakeNewConnection
  PROVE  IInv'
<1> DEFINE p == Head(backlog)
<1>0. /\ TypeOK /\ cli_list \in Seq(Peer) /\ backlog \in Seq(Peer)
      /\ pc = "select" /\ backlog # <<>>
      /\ cli_list' = Append(cli_list, p)
      /\ backlog' = Tail(backlog)
      /\ UNCHANGED <<pc, i, readfds, inbox, peer, stdin>>
  BY DEF IInv, TypeOK, TakeNewConnection
<1>1. /\ p \in Peer /\ backlog' \in Seq(Peer)
      /\ Range(backlog') = Range(backlog) \ {p}
      /\ p \in Range(backlog)
      /\ IsInjective(backlog')
  BY <1>0, HeadTailRange DEF IInv, Apart
<1>2. p \notin Clients
  BY <1>1 DEF IInv, Apart
<1>3. /\ cli_list' \in Seq(Peer) /\ IsInjective(cli_list')
      /\ Clients' = Clients \cup {p}
  BY <1>0, <1>1, <1>2, AppendRange DEF IInv, Apart, Clients
<1>4. TypeOK'
  BY <1>0, <1>1, <1>3 DEF TypeOK
<1>5. NeverBlocks'
  BY <1>0 DEF NeverBlocks
<1>6. Apart'
  BY <1>0, <1>1, <1>3 DEF IInv, Apart
<1> QED BY <1>4, <1>5, <1>6 DEF IInv

(* What select() reports has something to read.                            *)
LEMMA StartPassKeeps ==
  ASSUME IInv, StartPass
  PROVE  IInv'
<1>0. /\ TypeOK /\ readfds' = Readable /\ pc' = "pass" /\ i' = 1
      /\ pc = "select"
      /\ UNCHANGED <<backlog, cli_list, inbox, peer, stdin>>
  BY DEF IInv, StartPass
<1>1. Clients \subseteq Peer
  <2>1. DOMAIN cli_list = 1 .. Len(cli_list)
    BY <1>0, LenProperties DEF TypeOK
  <2>2. \A k \in 1 .. Len(cli_list) : cli_list[k] \in Peer
    BY <1>0, ElementOfSeq DEF TypeOK
  <2> QED BY <2>1, <2>2 DEF Clients, Range
<1>2. TypeOK'
  <2>1. i' \in Nat \ {0} /\ readfds' \in SUBSET Peer
    BY <1>0, <1>1 DEF Readable
  <2> QED BY <1>0, <2>1 DEF TypeOK
<1>3. NeverBlocks'
  BY <1>0 DEF NeverBlocks, Readable
<1>4. Apart'
  BY <1>0 DEF IInv, Apart, Clients
<1> QED BY <1>2, <1>3, <1>4 DEF IInv

(* Once the client at the index has been read, the clients behind it still *)
(* have what select() saw, whether or not the list has closed a gap there. *)
LEMMA PassAdvances ==
  ASSUME IInv, pc = "pass", UNCHANGED <<pc, readfds>>, i' = i + 1,
         i <= Len(cli_list),
         cli_list' = cli_list \/ cli_list' = RemoveAt(cli_list, i),
         \A q \in Peer \ {cli_list[i]} : inbox'[q] = inbox[q]
  PROVE  NeverBlocks'
<1>0. TypeOK /\ cli_list \in Seq(Peer) /\ i \in Nat /\ i >= 1 /\ Len(cli_list) \in Nat
  <2>1. TypeOK /\ cli_list \in Seq(Peer)
    BY DEF IInv, TypeOK
  <2> QED BY <2>1, IndexType, LenProperties
<1>1. \A k \in i + 1 .. Len(cli_list) :
        /\ k \in i .. Len(cli_list) /\ cli_list[k] \in Peer \ {cli_list[i]}
        /\ cli_list[k] \in readfds => inbox'[cli_list[k]] # <<>>
  <2>1. SUFFICES ASSUME NEW k \in i + 1 .. Len(cli_list)
                 PROVE  /\ k \in i .. Len(cli_list)
                        /\ cli_list[k] \in Peer \ {cli_list[i]}
                        /\ cli_list[k] \in readfds => inbox'[cli_list[k]] # <<>>
    OBVIOUS
  <2>2. k \in i .. Len(cli_list) /\ i \in i .. Len(cli_list) /\ k # i
    BY <1>0
  <2>3. k \in DOMAIN cli_list /\ i \in DOMAIN cli_list /\ cli_list[k] \in Peer
    BY <1>0, <2>2, ListElement, LenProperties
  <2>4. cli_list[k] # cli_list[i]
    BY <2>2, <2>3 DEF IInv, Apart, IsInjective
  <2>5. cli_list[k] \in readfds => inbox[cli_list[k]] # <<>>
    BY <2>2 DEF IInv, NeverBlocks
  <2> QED BY <2>2, <2>3, <2>4, <2>5
<1>2. SUFFICES ASSUME NEW k \in i + 1 .. Len(cli_list'), cli_list'[k] \in readfds
               PROVE  inbox'[cli_list'[k]] # <<>>
  BY DEF NeverBlocks
<1>3. CASE cli_list' = cli_list
  BY <1>1, <1>2, <1>3
<1>4. CASE cli_list' = RemoveAt(cli_list, i)
  <2>1. i \in 1 .. Len(cli_list)
    BY <1>0
  <2>2. /\ Len(cli_list') = Len(cli_list) - 1
        /\ \A j \in 1 .. Len(cli_list) - 1 :
             cli_list'[j] = IF j < i THEN cli_list[j] ELSE cli_list[j + 1]
    BY <1>0, <1>4, <2>1, RemoveAtElements
  <2>3. k \in 1 .. Len(cli_list) - 1 /\ ~(k < i) /\ k + 1 \in i + 1 .. Len(cli_list)
    BY <1>0, <1>2, <2>2
  <2>4. cli_list'[k] = cli_list[k + 1]
    BY <2>2, <2>3
  <2> QED BY <1>1, <1>2, <2>3, <2>4
<1> QED BY <1>3, <1>4

LEMMA PassOverKeeps ==
  ASSUME IInv, PassOver
  PROVE  IInv'
<1>0. /\ TypeOK /\ pc = "pass" /\ i' = i + 1 /\ i <= Len(cli_list)
      /\ UNCHANGED <<pc, backlog, cli_list, readfds, inbox, peer, stdin>>
  BY DEF IInv, PassOver
<1>1. TypeOK'
  <2>1. i' \in Nat \ {0}
    BY <1>0, IndexType
  <2> QED BY <1>0, <2>1 DEF TypeOK
<1>2. NeverBlocks'
  BY <1>0, PassAdvances
<1>3. Apart'
  BY <1>0 DEF IInv, Apart, Clients
<1> QED BY <1>1, <1>2, <1>3 DEF IInv

(* Reading a client empties its inbox and nobody else's.                   *)
LEMMA ReadingEmpties ==
  ASSUME IInv, NEW p \in Peer, Reading(p)
  PROVE  /\ inbox' \in [Peer -> Seq({"request", "exit"})]
         /\ \A q \in Peer \ {cli_list[i]} : inbox'[q] = inbox[q]
         /\ i \in 1 .. Len(cli_list) /\ p = cli_list[i] /\ pc = "pass"
         /\ i <= Len(cli_list)
<1>1. inbox \in [Peer -> Seq({"request", "exit"})] /\ TypeOK
  BY DEF IInv, TypeOK
<1>2. inbox' = [inbox EXCEPT ![p] = <<>>] /\ p = cli_list[i]
      /\ i <= Len(cli_list) /\ pc = "pass"
  BY DEF Reading
<1>3. <<>> \in Seq({"request", "exit"})
  BY EmptySeq
<1>4. Len(cli_list) \in Nat
  BY LenProperties DEF IInv, TypeOK
<1>5. i \in 1 .. Len(cli_list)
  BY <1>1, <1>2, <1>4, IndexType
<1> QED BY <1>1, <1>2, <1>3, <1>5

(* A request and a refused logon: the list stays as it is, and the client  *)
(* is not away afterwards.                                                 *)
LEMMA HandledKeeps ==
  ASSUME IInv, NEW p \in Peer, HandleRequest(p) \/ RefuseLogon(p)
  PROVE  IInv'
<1>0. /\ TypeOK /\ Reading(p) /\ i' = i + 1
      /\ UNCHANGED <<pc, backlog, cli_list, readfds, stdin>>
      /\ \/ peer' = peer
         \/ peer' = [peer EXCEPT ![p] = "on"]
         \/ peer' = [peer EXCEPT ![p] = "connected"]
  BY DEF IInv, HandleRequest, RefuseLogon
<1>1. /\ peer' \in [Peer -> {"away", "connected", "logging on", "on", "leaving"}]
      /\ \A q \in Peer : peer'[q] = "away" => peer[q] = "away"
  <2>1. peer \in [Peer -> {"away", "connected", "logging on", "on", "leaving"}]
    BY <1>0 DEF TypeOK
  <2> QED BY <1>0, <2>1
<1>2. TypeOK'
  <2>1. i' \in Nat \ {0}
    BY <1>0, IndexType
  <2>2. inbox' \in [Peer -> Seq({"request", "exit"})]
    BY <1>0, ReadingEmpties
  <2> QED BY <1>0, <1>1, <2>1, <2>2 DEF TypeOK
<1>3. NeverBlocks'
  BY <1>0, ReadingEmpties, PassAdvances
<1>4. Apart'
  BY <1>0, <1>1 DEF IInv, Apart, Clients
<1> QED BY <1>2, <1>3, <1>4 DEF IInv

(* The client that leaves was listed once, and is nowhere afterwards.      *)
LEMMA HandleExitKeeps ==
  ASSUME IInv, NEW p \in Peer, HandleExit(p)
  PROVE  IInv'
<1>0. /\ TypeOK /\ cli_list \in Seq(Peer) /\ IsInjective(cli_list)
      /\ Reading(p) /\ i' = i + 1
      /\ peer' = [peer EXCEPT ![p] = "away"]
      /\ cli_list' = RemoveAt(cli_list, i)
      /\ UNCHANGED <<pc, backlog, readfds, stdin>>
  BY DEF IInv, TypeOK, Apart, HandleExit
<1>1. i \in 1 .. Len(cli_list) /\ p = cli_list[i] /\ pc = "pass"
  BY <1>0, ReadingEmpties
<1>2. /\ cli_list' \in Seq(Peer) /\ IsInjective(cli_list')
      /\ Clients' = Clients \ {p}
  BY <1>0, <1>1, RemoveAtElements, RemoveAtRange DEF Clients
<1>3. p \in Clients
  <2>1. i \in DOMAIN cli_list
    BY <1>0, <1>1, LenProperties
  <2> QED BY <1>1, <2>1 DEF Clients, Range
<1>4. /\ peer' \in [Peer -> {"away", "connected", "logging on", "on", "leaving"}]
      /\ \A q \in Peer : peer'[q] = "away" => q = p \/ peer[q] = "away"
  <2>1. peer \in [Peer -> {"away", "connected", "logging on", "on", "leaving"}]
    BY <1>0 DEF TypeOK
  <2> QED BY <1>0, <2>1
<1>5. TypeOK'
  <2>1. i' \in Nat \ {0}
    BY <1>0, IndexType
  <2>2. inbox' \in [Peer -> Seq({"request", "exit"})]
    BY <1>0, ReadingEmpties
  <2> QED BY <1>0, <1>2, <1>4, <2>1, <2>2 DEF TypeOK
<1>6. NeverBlocks'
  BY <1>0, ReadingEmpties, PassAdvances
<1>7. Apart'
  BY <1>0, <1>1, <1>2, <1>3, <1>4 DEF IInv, Apart
<1> QED BY <1>5, <1>6, <1>7 DEF IInv

LEMMA EndPassKeeps ==
  ASSUME IInv, EndPass
  PROVE  IInv'
<1>0. /\ TypeOK /\ pc = "pass" /\ pc' = "select" /\ readfds' = {} /\ i' = 1
      /\ UNCHANGED <<backlog, cli_list, inbox, peer, stdin>>
  BY DEF IInv, EndPass
<1>1. TypeOK'
  <2>1. i' \in Nat \ {0} /\ readfds' \in SUBSET Peer
    BY <1>0
  <2> QED BY <1>0, <2>1 DEF TypeOK
<1>2. NeverBlocks' /\ Apart'
  BY <1>0 DEF IInv, NeverBlocks, Apart, Clients
<1> QED BY <1>1, <1>2 DEF IInv

LEMMA ShutdownClientKeeps ==
  ASSUME IInv, ShutdownClient
  PROVE  IInv'
<1>0. /\ TypeOK /\ cli_list \in Seq(Peer) /\ IsInjective(cli_list)
      /\ pc \in {"shutdown", "free"} /\ i' = i + 1 /\ i <= Len(cli_list)
      /\ cli_list' = RemoveAt(cli_list, i)
      /\ UNCHANGED <<pc, backlog, readfds, inbox, peer, stdin>>
  BY DEF IInv, TypeOK, Apart, ShutdownClient
<1>1. i \in 1 .. Len(cli_list)
  BY <1>0, IndexType, LenProperties
<1>2. /\ cli_list' \in Seq(Peer) /\ IsInjective(cli_list')
      /\ Clients' = Clients \ {cli_list[i]}
  BY <1>0, <1>1, RemoveAtElements, RemoveAtRange DEF Clients
<1>3. TypeOK'
  <2>1. i' \in Nat \ {0}
    BY <1>0, IndexType
  <2> QED BY <1>0, <1>2, <2>1 DEF TypeOK
<1>4. NeverBlocks'
  BY <1>0 DEF NeverBlocks
<1>5. Apart'
  BY <1>0, <1>2 DEF IInv, Apart
<1> QED BY <1>3, <1>4, <1>5 DEF IInv

LEMMA CloseServerSocketKeeps ==
  ASSUME IInv, CloseServerSocket
  PROVE  IInv'
<1>0. /\ TypeOK /\ pc = "shutdown" /\ pc' = "free" /\ i' = 1 /\ backlog' = <<>>
      /\ peer' = [p \in Peer |-> IF p \in Range(backlog) THEN "away" ELSE peer[p]]
      /\ inbox' = [p \in Peer |-> IF p \in Range(backlog) THEN <<>> ELSE inbox[p]]
      /\ UNCHANGED <<cli_list, readfds, stdin>>
  BY DEF IInv, CloseServerSocket
<1>1. TypeOK'
  <2>1. <<>> \in Seq({"request", "exit"}) /\ <<>> \in Seq(Peer)
    BY EmptySeq
  <2>2. /\ inbox \in [Peer -> Seq({"request", "exit"})]
        /\ peer \in [Peer -> {"away", "connected", "logging on", "on", "leaving"}]
    BY <1>0 DEF TypeOK
  <2>3. inbox' \in [Peer -> Seq({"request", "exit"})]
    <3>1. \A p \in Peer : (IF p \in Range(backlog) THEN <<>> ELSE inbox[p])
                           \in Seq({"request", "exit"})
      BY <2>1, <2>2
    <3> QED BY <1>0, <3>1
  <2>4. peer' \in [Peer -> {"away", "connected", "logging on", "on", "leaving"}]
    BY <1>0, <2>2
  <2>5. backlog' \in Seq(Peer) /\ i' \in Nat \ {0}
    BY <1>0, <2>1
  <2> QED BY <1>0, <2>3, <2>4, <2>5 DEF TypeOK
<1>2. NeverBlocks'
  BY <1>0 DEF NeverBlocks
<1>3. Apart'
  <2>1. Range(backlog') = {} /\ IsInjective(backlog')
    BY <1>0 DEF Range, IsInjective
  <2>2. Clients' = Clients
    BY <1>0 DEF Clients
  <2>3. \A p \in Peer : peer'[p] = "away" => p \notin Clients
    BY <1>0 DEF IInv, Apart
  <2> QED BY <1>0, <2>1, <2>2, <2>3 DEF IInv, Apart
<1> QED BY <1>1, <1>2, <1>3 DEF IInv

LEMMA TerminateKeeps ==
  ASSUME IInv, Terminate
  PROVE  IInv'
<1>0. /\ TypeOK /\ pc' = "done"
      /\ peer' = [p \in Peer |-> "away"]
      /\ inbox' = [p \in Peer |-> <<>>]
      /\ UNCHANGED <<backlog, cli_list, i, readfds, stdin>>
  BY DEF IInv, Terminate
<1>1. TypeOK'
  <2>1. <<>> \in Seq({"request", "exit"})
    BY EmptySeq
  <2>2. inbox' \in [Peer -> Seq({"request", "exit"})]
    BY <1>0, <2>1
  <2> QED BY <1>0, <2>2 DEF TypeOK
<1>2. NeverBlocks'
  BY <1>0 DEF NeverBlocks
<1>3. Apart'
  BY <1>0 DEF IInv, Apart, Clients
<1> QED BY <1>1, <1>2, <1>3 DEF IInv

-----------------------------------------------------------------------------
LEMMA ServerKeeps ==
  ASSUME IInv, Server
  PROVE  IInv'
<1>1. CASE CheckDirectInput
  BY <1>1, CheckDirectInputKeeps
<1>2. CASE TakeNewConnection
  BY <1>2, TakeNewConnectionKeeps
<1>3. CASE StartPass
  BY <1>3, StartPassKeeps
<1>4. CASE PassOver
  BY <1>4, PassOverKeeps
<1>5. ASSUME NEW p \in Peer, Handle(p) PROVE IInv'
  BY <1>5, HandledKeeps, HandleExitKeeps DEF Handle
<1>6. CASE EndPass
  BY <1>6, EndPassKeeps
<1>7. CASE ShutdownClient
  BY <1>7, ShutdownClientKeeps
<1>8. CASE CloseServerSocket
  BY <1>8, CloseServerSocketKeeps
<1>9. CASE Terminate
  BY <1>9, TerminateKeeps
<1> QED BY <1>1, <1>2, <1>3, <1>4, <1>5, <1>6, <1>7, <1>8, <1>9 DEF Server

LEMMA NextKeeps == IInv /\ [Next]_vars => IInv'
<1> SUFFICES ASSUME IInv, [Next]_vars PROVE IInv'
  OBVIOUS
<1>1. CASE Server
  BY <1>1, ServerKeeps
<1>2. ASSUME NEW p \in Peer,
             Connect(p) \/ SendLogon(p) \/ SendRequest(p) \/ SendExit(p)
      PROVE  IInv'
  BY <1>2, ConnectKeeps, SendLogonKeeps, SendOnKeeps
<1>3. CASE TypeLine
  BY <1>3, TypeLineKeeps
<1>4. CASE UNCHANGED vars
  BY <1>4 DEF vars, IInv, TypeOK, NeverBlocks, Apart, Clients
<1> QED BY <1>1, <1>2, <1>3, <1>4 DEF Next, Environment

(* The inductive invariant, which says besides that no client is listed,   *)
(* or waits to be accepted, twice, holds of every run of the loop.         *)
THEOREM Invariance == Spec => []IInv
<1> QED BY InitIInv, NextKeeps, PTL DEF Spec

(* Type correctness of the loop's state; above all, an index that is never *)
(* below the first element of the client list.                             *)
THEOREM TypeCorrect == Spec => []TypeOK
<1>1. IInv => TypeOK
  BY DEF IInv
<1> QED BY <1>1, Invariance, PTL

(* However many clients there are, and however they are listed, read and   *)
(* removed in a pass, recv() is only called on a socket with something to  *)
(* read: the one thread of the server never sleeps there.                  *)
THEOREM NeverSleepsInRecv == Spec => []NeverBlocks
<1>1. IInv => NeverBlocks
  BY DEF IInv
<1> QED BY <1>1, Invariance, PTL
=============================================================================
