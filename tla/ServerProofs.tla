---------------------------- MODULE ServerProofs -----------------------------
(***************************************************************************)
(* Proofs, for every number of peers, descriptors, slots and rows, that    *)
(* the server's state keeps its types and that descriptors and slots stay  *)
(* in step (SocketOwnership).  The two are proved together: closing a      *)
(* client is only well defined because a connected client has a descriptor *)
(* and a peer, and that is SocketOwnership.  On these rest the proofs of   *)
(* the promises of Sessions and, at the end, of rendering: the shared      *)
(* buffer, the rows shown and their colours.                               *)
(***************************************************************************)
EXTENDS ServerProps, SequenceTheorems, WellFoundedInduction, TLAPS

(* The types of the variables that SocketOwnership relates. *)
TableTypes ==
  /\ conn \in [Peers -> ConnStates]
  /\ sock \in [Fds -> Peers \cup {NoPeer}]
  /\ connected \in [Slots -> BOOLEAN]
  /\ socket \in [Slots -> Fds \cup {NoFd}]

(* The inductive invariant behind SocketOwnership. *)
TableInv == TableTypes /\ SocketOwnership

ownVars == <<conn, sock, connected, socket>>

-----------------------------------------------------------------------------
(* What the operations on the table preserve *)

(* A connected client has a descriptor and a peer whose connection is not gone. *)
LEMMA ClientHasPeer ==
  ASSUME TableInv, NEW s \in Slots, connected[s]
  PROVE  /\ socket[s] \in Fds
         /\ PeerOf(s) \in Peers
         /\ conn[PeerOf(s)] \notin {"idle", "gone"}
  BY SocketsAssumption DEF TableInv, SocketOwnership, PeerOf

(* Nothing that leaves the table and the connections alone disturbs it. *)
LEMMA TableUnchanged ==
  ASSUME TableInv, UNCHANGED ownVars
  PROVE  TableInv'
  BY DEF TableInv, TableTypes, SocketOwnership, ownVars

(* Peers and network move connections, but neither start nor finish those the
   server holds. *)
LEMMA ConnectionsMove ==
  ASSUME TableInv, UNCHANGED <<sock, connected, socket>>,
         conn' \in [Peers -> ConnStates],
         \A p \in Peers : conn[p] \notin {"idle", "gone"} => conn'[p] \notin {"idle", "gone"}
  PROVE  TableInv'
<1>1. TableTypes'
  BY DEF TableInv, TableTypes
<1>2. \A f \in Fds : sock[f] # NoPeer => conn'[sock[f]] \notin {"idle", "gone"}
  <2> TAKE f \in Fds
  <2> HAVE sock[f] # NoPeer
  <2>1. sock[f] \in Peers
    BY DEF TableInv, TableTypes
  <2> QED
    BY <2>1 DEF TableInv, SocketOwnership
<1> QED
  BY <1>1, <1>2 DEF TableInv, SocketOwnership

(* Closing a connected client, wherever it happens. *)
LEMMA CloseClientKeepsTable ==
  ASSUME TableInv, NEW s \in Slots, connected[s], CloseClient(s)
  PROVE  TableInv'
<1> DEFINE f0 == socket[s]
           p0 == PeerOf(s)
<1>1. f0 \in Fds /\ p0 \in Peers /\ p0 = sock[f0]
  BY ClientHasPeer DEF PeerOf
<1>2. /\ connected' = [connected EXCEPT ![s] = FALSE]
      /\ socket' = [socket EXCEPT ![s] = NoFd]
      /\ sock' = [sock EXCEPT ![f0] = NoPeer]
      /\ conn' = [conn EXCEPT ![p0] = "gone"]
  BY DEF CloseClient
<1> HIDE DEF f0, p0
<1>3. TableTypes'
  BY <1>1, <1>2 DEF TableInv, TableTypes, ConnStates
<1>4. \A t \in Slots : connected'[t] => t # s /\ connected[t] /\ socket'[t] = socket[t]
  BY <1>2 DEF TableInv, TableTypes
<1>5. \A t \in Slots : connected'[t] => socket[t] # f0
  BY <1>4 DEF TableInv, SocketOwnership, f0
<1>6. \A t \in Slots : connected'[t] => socket'[t] \in Fds /\ sock'[socket'[t]] \in Peers
  BY <1>1, <1>2, <1>4, <1>5 DEF TableInv, TableTypes, SocketOwnership
<1>7. \A t \in Slots : ~connected'[t] => socket'[t] = NoFd
  BY <1>2 DEF TableInv, TableTypes, SocketOwnership
<1>8. \A t, u \in Slots : connected'[t] /\ connected'[u] /\ socket'[t] = socket'[u] => t = u
  BY <1>4 DEF TableInv, SocketOwnership
<1>9. \A f \in Fds : sock'[f] # NoPeer => f # f0 /\ sock'[f] = sock[f]
  BY <1>1, <1>2 DEF TableInv, TableTypes
<1>10. \A f \in Fds : sock'[f] # NoPeer => \E t \in Slots : connected'[t] /\ socket'[t] = f
  <2> TAKE f \in Fds
  <2> HAVE sock'[f] # NoPeer
  <2>1. PICK t \in Slots : connected[t] /\ socket[t] = f
    BY <1>9 DEF TableInv, SocketOwnership
  <2>2. t # s
    BY <2>1, <1>9 DEF f0
  <2> QED
    BY <2>1, <2>2, <1>2 DEF TableInv, TableTypes
<1>11. \A f, g \in Fds : sock'[f] = sock'[g] /\ sock'[f] # NoPeer => f = g
  BY <1>9 DEF TableInv, SocketOwnership
<1>12. \A f \in Fds : sock'[f] # NoPeer => conn'[sock'[f]] \notin {"idle", "gone"}
  <2> TAKE f \in Fds
  <2> HAVE sock'[f] # NoPeer
  <2>1. sock[f] \in Peers /\ sock'[f] = sock[f] /\ f # f0
    BY <1>9 DEF TableInv, TableTypes
  <2>2. sock[f] # p0
    BY <2>1, <1>1, SocketsAssumption DEF TableInv, SocketOwnership
  <2> QED
    BY <2>1, <2>2, <1>2, SocketsAssumption DEF TableInv, TableTypes, SocketOwnership
<1> QED
  BY <1>3, <1>6, <1>7, <1>8, <1>10, <1>11, <1>12 DEF TableInv, SocketOwnership

(* A connection is accepted into the first free slot, or lost on the way. *)
LEMMA AcceptKeepsTable ==
  ASSUME TableInv, AcceptClient
  PROVE  TableInv'
<1>0. PICK p \in Backlog, f \in FreeFds, s \in Slots :
        /\ FirstFree(s)
        /\ \E res \in SendResults(p) :
             \/ /\ res # "epipe"
                /\ connected' = [connected EXCEPT ![s] = TRUE]
                /\ socket' = [socket EXCEPT ![s] = f]
                /\ sock' = [sock EXCEPT ![f] = p]
                /\ conn' = AfterSend(p, res)
             \/ /\ res = "epipe"
                /\ socket' = [socket EXCEPT ![s] = NoFd]
                /\ conn' = [conn EXCEPT ![p] = "gone"]
                /\ UNCHANGED <<connected, sock>>
  BY DEF AcceptClient
<1>1. PICK res \in SendResults(p) :
        /\ FirstFree(s)
        /\ \/ /\ res # "epipe"
              /\ connected' = [connected EXCEPT ![s] = TRUE]
              /\ socket' = [socket EXCEPT ![s] = f]
              /\ sock' = [sock EXCEPT ![f] = p]
              /\ conn' = AfterSend(p, res)
           \/ /\ res = "epipe"
              /\ socket' = [socket EXCEPT ![s] = NoFd]
              /\ conn' = [conn EXCEPT ![p] = "gone"]
              /\ UNCHANGED <<connected, sock>>
  BY <1>0
<1>2. /\ p \in Peers /\ f \in Fds /\ ~connected[s]
      /\ conn[p] \notin {"idle", "gone"}
      /\ \A g \in Fds : sock[g] # p
      /\ sock[f] = NoPeer
  BY <1>1 DEF Backlog, FreeFds, FirstFree
<1>3. CASE /\ connected' = [connected EXCEPT ![s] = TRUE]
           /\ socket' = [socket EXCEPT ![s] = f]
           /\ sock' = [sock EXCEPT ![f] = p]
           /\ conn' = AfterSend(p, res)
  <2>1. /\ conn' \in [Peers -> ConnStates]
        /\ \A q \in Peers : conn[q] \notin {"idle", "gone"} => conn'[q] \notin {"idle", "gone"}
    BY <1>2, <1>3 DEF AfterSend, TableInv, TableTypes, ConnStates
  <2>2. TableTypes'
    BY <2>1, <1>2, <1>3 DEF TableInv, TableTypes
  <2>3. \A t \in Slots : t # s => connected'[t] = connected[t] /\ socket'[t] = socket[t]
    BY <1>3 DEF TableInv, TableTypes
  <2>4. connected'[s] /\ socket'[s] = f /\ sock'[f] = p
    BY <1>2, <1>3 DEF TableInv, TableTypes
  <2>5. \A g \in Fds : g # f => sock'[g] = sock[g]
    BY <1>3 DEF TableInv, TableTypes
  <2>6. \A t \in Slots : connected[t] => socket[t] \in Fds /\ socket[t] # f
    BY <1>2, SocketsAssumption DEF TableInv, SocketOwnership
  <2>7. \A t \in Slots : connected'[t] => socket'[t] \in Fds /\ sock'[socket'[t]] \in Peers
    BY <1>2, <2>3, <2>4, <2>5, <2>6 DEF TableInv, SocketOwnership
  <2>8. \A t \in Slots : ~connected'[t] => socket'[t] = NoFd
    BY <2>3, <2>4 DEF TableInv, SocketOwnership
  <2>9. \A t, u \in Slots : connected'[t] /\ connected'[u] /\ socket'[t] = socket'[u] => t = u
    BY <2>3, <2>4, <2>6 DEF TableInv, SocketOwnership
  <2>10. \A g \in Fds : sock'[g] # NoPeer => \E t \in Slots : connected'[t] /\ socket'[t] = g
    <3> TAKE g \in Fds
    <3> HAVE sock'[g] # NoPeer
    <3>1. CASE g = f
      BY <3>1, <2>4
    <3>2. CASE g # f
      <4>1. PICK t \in Slots : connected[t] /\ socket[t] = g
        BY <3>2, <2>5 DEF TableInv, SocketOwnership
      <4> QED
        BY <4>1, <2>3, <1>2
    <3> QED
      BY <3>1, <3>2
  <2>11. \A g, h \in Fds : sock'[g] = sock'[h] /\ sock'[g] # NoPeer => g = h
    BY <1>2, <2>4, <2>5 DEF TableInv, SocketOwnership
  <2>12. \A g \in Fds : sock'[g] # NoPeer => conn'[sock'[g]] \notin {"idle", "gone"}
    <3> TAKE g \in Fds
    <3> HAVE sock'[g] # NoPeer
    <3>1. sock'[g] \in Peers
      BY <2>2 DEF TableTypes
    <3>2. conn[sock'[g]] \notin {"idle", "gone"}
      BY <1>2, <2>4, <2>5 DEF TableInv, SocketOwnership
    <3> QED
      BY <3>1, <3>2, <2>1
  <2> QED
    BY <2>2, <2>7, <2>8, <2>9, <2>10, <2>11, <2>12 DEF TableInv, SocketOwnership
<1>4. CASE /\ socket' = [socket EXCEPT ![s] = NoFd]
           /\ conn' = [conn EXCEPT ![p] = "gone"]
           /\ UNCHANGED <<connected, sock>>
  <2>1. socket' = socket
    BY <1>2, <1>4 DEF TableInv, TableTypes, SocketOwnership
  <2>2. TableTypes'
    BY <1>2, <1>4, <2>1 DEF TableInv, TableTypes, ConnStates
  <2>3. \A g \in Fds : sock[g] # NoPeer => conn'[sock[g]] \notin {"idle", "gone"}
    BY <1>2, <1>4 DEF TableInv, TableTypes, SocketOwnership
  <2> QED
    BY <1>4, <2>1, <2>2, <2>3 DEF TableInv, SocketOwnership
<1> QED
  BY <1>1, <1>3, <1>4

(* network_destroy leaves no client and no descriptor. *)
LEMMA CloseAllKeepsTable ==
  ASSUME TableInv, CloseAll
  PROVE  TableInv'
<1>1. TableTypes'
  BY DEF TableInv, TableTypes, CloseAll, ConnStates
<1>2. \A f \in Fds : sock'[f] = NoPeer
  BY DEF CloseAll, TableInv, TableTypes, SocketOwnership
<1>3. \A s \in Slots : connected'[s] = FALSE /\ socket'[s] = NoFd
  BY DEF CloseAll, TableInv, TableTypes, SocketOwnership
<1> QED
  BY <1>1, <1>2, <1>3 DEF TableInv, SocketOwnership

-----------------------------------------------------------------------------
(* The invariant *)

(* A send that does not close the client leaves the table alone. *)
LEMMA SendKeepsTable ==
  ASSUME TableInv, NEW s \in Slots, NEW res, connected[s],
         conn' = AfterSend(PeerOf(s), res), UNCHANGED <<sock, connected, socket>>
  PROVE  TableInv'
<1>1. /\ conn' \in [Peers -> ConnStates]
      /\ \A q \in Peers : conn[q] \notin {"idle", "gone"} => conn'[q] \notin {"idle", "gone"}
  BY ClientHasPeer DEF AfterSend, TableInv, TableTypes, ConnStates
<1> QED
  BY <1>1, ConnectionsMove

(* One step per action that moves a connection or the table. *)
LEMMA TableStep ==
  ASSUME TableInv, [Next]_vars
  PROVE  TableInv'
<1> USE DEF worldVars, sockVars, tableVars, ownVars
<1>1. CASE Accept
  BY <1>1, AcceptKeepsTable DEF Accept
<1>2. CASE RecvFails
  BY <1>2, CloseClientKeepsTable DEF RecvFails, RecvError
<1>3. CASE Recv
  <2>1. PICK n \in 1 .. Len(inbox[PeerOf(turn)]), quits \in BOOLEAN :
          RecvMessages(turn, n, quits)
    BY <1>3 DEF Recv
  <2>2. connected[turn] /\ turn \in Slots
    BY <1>3 DEF Recv
  <2>3. CASE quits
    BY <2>1, <2>2, <2>3, CloseClientKeepsTable DEF RecvMessages
  <2>4. CASE ~quits
    BY <2>1, <2>4, TableUnchanged DEF RecvMessages
  <2> QED
    BY <2>3, <2>4
<1>4. CASE SendRow
  <2>1. PICK res \in {"all", "short", "epipe", "error"} : RenderRow(turn, res)
    BY <1>4 DEF SendRow
  <2>2. connected[turn] /\ turn \in Slots
    BY <1>4, <2>1 DEF SendRow, RenderRow, Drawing
  <2>3. CASE ClosesClient(res)
    BY <2>1, <2>2, <2>3, CloseClientKeepsTable DEF RenderRow
  <2>4. CASE ~ClosesClient(res)
    BY <2>1, <2>2, <2>4, SendKeepsTable DEF RenderRow
  <2> QED
    BY <2>3, <2>4
<1>5. CASE Shutdown
  BY <1>5, CloseAllKeepsTable DEF Shutdown
<1>6. CASE Outside
  <2>1. PICK p \in Peers : PeerStep(p) \/ AnswerReset(p)
    BY <1>6 DEF Outside
  <2>2. /\ conn' \in [Peers -> ConnStates]
        /\ \A q \in Peers : conn[q] \notin {"idle", "gone"} => conn'[q] \notin {"idle", "gone"}
        /\ sock' = sock
    BY <2>1 DEF PeerStep, Connect, Type, Resize, Split, HangUp, Abort, AnswerReset,
                TableInv, TableTypes, ConnStates
  <2> QED
    BY <1>6, <2>2, ConnectionsMove DEF Outside
<1>7. CASE UNCHANGED ownVars
  BY <1>7, TableUnchanged
<1>8. ASSUME \/ Allocate \/ GameInit \/ TestRunning
             \/ AcceptOverflow \/ AcceptNothing \/ RecvNothing \/ RecvUnknownActor
             \/ RecvDone \/ Tick \/ Render \/ RenderUnknownActor
             \/ SendResized \/ SendNothing \/ SendDone \/ Sigint \/ UNCHANGED vars
      PROVE  UNCHANGED ownVars
  BY <1>8 DEF Allocate, GameInit, TestRunning, AcceptOverflow, AcceptNothing,
    RecvNothing, RecvUnknownActor, RecvDone, Tick, Render, RedrawAll,
    RenderUnknownActor, SendResized, RenderResized, SendNothing, SendDone, Sigint, vars
<1> QED
  BY <1>1, <1>2, <1>3, <1>4, <1>5, <1>6, <1>7, <1>8
     DEF Next, MainThread, NetworkUpdate, Rendering

(***************************************************************************)
(* In every instance of the server, descriptors and slots stay in step:    *)
(* nothing leaks and nobody shares, whichever path closed which client     *)
(* (network.c push_client, client_recv, client.c client_close).            *)
(***************************************************************************)
THEOREM SocketsOwned == Spec => []SocketOwnership
<1>1. Init => TableInv
  BY SocketsAssumption DEF Init, SocketsInit, ClientsInit, TableInv, TableTypes,
     SocketOwnership, ConnStates
<1>2. TableInv /\ [Next]_vars => TableInv'
  BY TableStep
<1>3. TableInv => SocketOwnership
  BY DEF TableInv
<1> QED
  BY <1>1, <1>2, <1>3, PTL DEF Spec

-----------------------------------------------------------------------------
(* Type correctness *)

(* The types of the other variables, in the three groups the actions touch. *)
PeerTypes ==
  /\ inbox \in [Peers -> Seq(Messages)]
  /\ shown \in [Peers -> SUBSET Rows]
  /\ disturbed \in [Peers -> BOOLEAN]

DrawTypes ==
  /\ resized \in [Slots -> BOOLEAN]
  /\ scanline \in [Slots -> 0 .. DISPLAY_HEIGHT]
  /\ buffer \in {<<>>} \cup {<<s>> : s \in Slots}

ColourTypes ==
  /\ cached \in [Slots -> Colours \cup {0}]
  /\ pen \in [Peers -> Colours \cup {0}]
  /\ stained \in [Peers -> SUBSET Rows]

LoopTypes ==
  /\ phase \in Phases
  /\ turn \in 0 .. PLAYER_COUNT
  /\ running \in BOOLEAN
  /\ action \in [Slots -> {"none", "move"}]
  /\ gcd \in [Slots -> 0 .. GcdMove]

TypeInv == TableInv /\ PeerTypes /\ DrawTypes /\ ColourTypes /\ LoopTypes

(* The five parts make up TypeOK. *)
LEMMA TypeInvIsEnough == TypeInv => TypeOK
  BY DEF TypeInv, TableInv, TableTypes, PeerTypes, DrawTypes, ColourTypes, LoopTypes,
     TypeOK, SocketsTypeOK, ClientsTypeOK

(* Receiving from an inbox, losing its messages, or getting a new one. *)
LEMMA InboxTypes ==
  ASSUME PeerTypes, NEW p \in Peers
  PROVE  /\ \A n \in Nat : [inbox EXCEPT ![p] = SubSeq(@, n + 1, Len(@))]
                                \in [Peers -> Seq(Messages)]
         /\ [inbox EXCEPT ![p] = <<>>] \in [Peers -> Seq(Messages)]
         /\ \A m \in Messages :
              /\ [inbox EXCEPT ![p] = Append(@, m)] \in [Peers -> Seq(Messages)]
              /\ \A i \in 1 .. Len(inbox[p]) :
                   [inbox EXCEPT ![p][i] = m] \in [Peers -> Seq(Messages)]
<1>1. inbox \in [Peers -> Seq(Messages)] /\ inbox[p] \in Seq(Messages)
  BY DEF PeerTypes
<1>2. \A n \in Nat : SubSeq(inbox[p], n + 1, Len(inbox[p])) \in Seq(Messages)
  <2> TAKE n \in Nat
  <2>1. \A i \in n + 1 .. Len(inbox[p]) : inbox[p][i] \in Messages
    BY <1>1, ElementOfSeq
  <2> QED
    BY <1>1, <2>1, SubSeqProperties, LenProperties
<1>3. <<>> \in Seq(Messages)
  BY EmptySeq
<1>4. \A m \in Messages : Append(inbox[p], m) \in Seq(Messages)
  BY <1>1, AppendProperties
<1>5. \A m \in Messages, i \in 1 .. Len(inbox[p]) :
        [inbox[p] EXCEPT ![i] = m] \in Seq(Messages)
  BY <1>1, ExceptSeq
<1> QED
  BY <1>1, <1>2, <1>3, <1>4, <1>5

(* Inboxes and what terminals show keep their types in every step. *)
LEMMA PeerTypesStep ==
  ASSUME TypeInv, [Next]_vars
  PROVE  PeerTypes'
<1> USE DEF worldVars, sockVars, termVars, tableVars, drawVars
<1>1. CASE Accept
  <2>1. PICK p \in Peers : inbox' = inbox \/ inbox' = [inbox EXCEPT ![p] = <<>>]
    BY <1>1 DEF Accept, AcceptClient, Backlog
  <2>2. UNCHANGED termVars
    BY <1>1 DEF Accept, AcceptClient
  <2>3. inbox' \in [Peers -> Seq(Messages)]
    <3>1. [inbox EXCEPT ![p] = <<>>] \in [Peers -> Seq(Messages)]
      BY InboxTypes DEF TypeInv
    <3> QED
      BY <2>1, <3>1 DEF PeerTypes, TypeInv
  <2> QED
    BY <2>2, <2>3 DEF PeerTypes, TypeInv
<1>2. CASE Recv
  <2>1. PICK n \in 1 .. Len(inbox[PeerOf(turn)]), quits \in BOOLEAN :
          RecvMessages(turn, n, quits)
    BY <1>2 DEF Recv
  <2>2. PeerOf(turn) \in Peers
    BY <1>2, ClientHasPeer DEF Recv, TypeInv
  <2>3. n \in Nat
    OBVIOUS
  <2> DEFINE p == PeerOf(turn)
  <2>4. /\ \/ inbox' = [inbox EXCEPT ![p] = <<>>]
           \/ inbox' = [inbox EXCEPT ![p] = SubSeq(@, n + 1, Len(@))]
        /\ UNCHANGED <<shown, disturbed>>
    BY <2>1 DEF RecvMessages
  <2>5. p \in Peers /\ PeerTypes
    BY <2>2 DEF TypeInv
  <2> HIDE DEF p
  <2>6. inbox' \in [Peers -> Seq(Messages)]
    <3>1. [inbox EXCEPT ![p] = SubSeq(@, n + 1, Len(@))] \in [Peers -> Seq(Messages)]
      BY <2>3, <2>5, InboxTypes
    <3>2. [inbox EXCEPT ![p] = <<>>] \in [Peers -> Seq(Messages)]
      BY <2>5, InboxTypes
    <3> QED
      BY <2>4, <3>1, <3>2
  <2> QED
    BY <2>4, <2>5, <2>6 DEF PeerTypes
<1>3. CASE Render
  BY <1>3 DEF Render, RedrawAll, PeerTypes, TypeInv, Rows
<1>4. CASE SendResized
  BY <1>4 DEF SendResized, RenderResized, PeerTypes, TypeInv
<1>5. CASE SendRow
  <2>1. PICK res \in {"all", "short", "epipe", "error"} : RenderRow(turn, res)
    BY <1>5 DEF SendRow
  <2>2. turn \in Slots /\ connected[turn] /\ scanline[turn] < DISPLAY_HEIGHT
    BY <1>5, <2>1 DEF SendRow, RenderRow, Drawing
  <2>3. scanline[turn] \in Rows
    BY <2>2, SocketsAssumption DEF TypeInv, DrawTypes, Rows
  <2>4. PeerOf(turn) \in Peers
    BY <2>2, ClientHasPeer DEF TypeInv
  <2>5. inbox' \in [Peers -> Seq(Messages)]
    BY <2>1, <2>4, InboxTypes DEF RenderRow, TypeInv, PeerTypes
  <2>6. shown' \in [Peers -> SUBSET Rows]
    BY <2>1, <2>3, <2>4 DEF RenderRow, TypeInv, PeerTypes
  <2> QED
    BY <2>1, <2>5, <2>6 DEF RenderRow, TypeInv, PeerTypes
<1>6. CASE Outside
  <2>1. PICK p \in Peers : PeerStep(p) \/ AnswerReset(p)
    BY <1>6 DEF Outside
  <2>2. CASE Type(p)
    <3>1. \E m \in Messages : inbox' = [inbox EXCEPT ![p] = Append(@, m)]
      BY <2>2, SocketsAssumption DEF Type, Messages
    <3> QED
      BY <2>2, <3>1, InboxTypes DEF Type, TypeInv, PeerTypes
  <2>3. CASE Resize(p)
    <3>1. inbox' \in [Peers -> Seq(Messages)]
      BY <2>3, InboxTypes DEF Resize, Messages, TypeInv
    <3> QED
      BY <2>3, <3>1 DEF Resize, TypeInv, PeerTypes
  <2>4. CASE Split(p)
    <3>1. \E m \in Messages, i \in 1 .. Len(inbox[p]) : inbox' = [inbox EXCEPT ![p][i] = m]
      BY <2>4 DEF Split, Messages
    <3> QED
      BY <2>4, <3>1, InboxTypes DEF Split, TypeInv, PeerTypes
  <2>5. CASE Connect(p) \/ HangUp(p) \/ Abort(p) \/ AnswerReset(p)
    BY <2>5 DEF Connect, HangUp, Abort, AnswerReset, TypeInv, PeerTypes
  <2> QED
    BY <2>1, <2>2, <2>3, <2>4, <2>5 DEF PeerStep
<1>7. ASSUME \/ Allocate \/ GameInit \/ TestRunning
             \/ AcceptOverflow \/ AcceptNothing \/ RecvNothing \/ RecvFails
             \/ RecvUnknownActor \/ RecvDone \/ Tick \/ RenderUnknownActor
             \/ SendNothing \/ SendDone \/ Shutdown \/ Sigint \/ UNCHANGED vars
      PROVE  PeerTypes'
  <2>1. UNCHANGED <<inbox, shown, disturbed>>
    BY <1>7 DEF Allocate, GameInit, TestRunning, AcceptOverflow, AcceptNothing, RecvNothing,
      RecvFails, RecvError, RecvUnknownActor, RecvDone, Tick, RenderUnknownActor,
      SendNothing, SendDone, Shutdown, CloseAll, Sigint, vars
  <2> QED
    BY <2>1 DEF TypeInv, PeerTypes
<1> QED
  BY <1>1, <1>2, <1>3, <1>4, <1>5, <1>6, <1>7 DEF Next, MainThread, NetworkUpdate, Rendering

(* So do scanlines, resizes and the owner of the output buffer. *)
LEMMA DrawTypesStep ==
  ASSUME TypeInv, [Next]_vars
  PROVE  DrawTypes'
<1> USE SocketsAssumption, ClientsAssumption
    DEF worldVars, sockVars, termVars, tableVars, drawVars
<1>1. CASE Accept
  BY <1>1 DEF Accept, AcceptClient, TypeInv, DrawTypes
<1>2. CASE Recv
  <2>1. PICK n \in 1 .. Len(inbox[PeerOf(turn)]), quits \in BOOLEAN :
          RecvMessages(turn, n, quits)
    BY <1>2 DEF Recv
  <2> QED
    BY <2>1 DEF RecvMessages, TypeInv, DrawTypes
<1>3. CASE Render
  BY <1>3 DEF Render, RedrawAll, TypeInv, DrawTypes
<1>4. CASE SendResized
  BY <1>4 DEF SendResized, RenderResized, TypeInv, DrawTypes
<1>5. CASE SendRow
  <2>1. PICK res \in {"all", "short", "epipe", "error"} : RenderRow(turn, res)
    BY <1>5 DEF SendRow
  <2>2. turn \in Slots /\ scanline[turn] < DISPLAY_HEIGHT
    BY <1>5, <2>1 DEF SendRow, RenderRow, Drawing
  <2>3. scanline[turn] + 1 \in 0 .. DISPLAY_HEIGHT
    BY <2>2 DEF TypeInv, DrawTypes
  <2> QED
    BY <2>1, <2>3 DEF RenderRow, BufferAfter, TypeInv, DrawTypes
<1>6. ASSUME \/ Allocate \/ GameInit \/ TestRunning
             \/ AcceptOverflow \/ AcceptNothing \/ RecvNothing \/ RecvFails
             \/ RecvUnknownActor \/ RecvDone \/ Tick \/ RenderUnknownActor \/ Outside
             \/ SendNothing \/ SendDone \/ Shutdown \/ Sigint \/ UNCHANGED vars
      PROVE  DrawTypes'
  <2>1. UNCHANGED drawVars
    BY <1>6 DEF Allocate, GameInit, TestRunning, AcceptOverflow, AcceptNothing, RecvNothing,
      RecvFails, RecvError, RecvUnknownActor, RecvDone, Tick, RenderUnknownActor, Outside,
      SendNothing, SendDone, Shutdown, CloseAll, Sigint, vars
  <2> QED
    BY <2>1 DEF TypeInv, DrawTypes
<1> QED
  BY <1>1, <1>2, <1>3, <1>4, <1>5, <1>6 DEF Next, MainThread, NetworkUpdate, Rendering

(* A row of any colours, however much of it arrives. *)
LEMMA RowColoursTypes ==
  ASSUME ColourTypes, NEW s \in Slots, NEW p \in Peers, NEW res,
         scanline[s] \in Rows, RowColours(s, p, res)
  PROVE  ColourTypes'
<1>1. PICK cells \in [1 .. DISPLAY_WIDTH -> Colours],
           pens \in [0 .. DISPLAY_WIDTH -> Colours \cup {0}] :
        /\ cached' = IF DISPLAY_WIDTH = 0 THEN cached
                     ELSE [cached EXCEPT ![s] = cells[DISPLAY_WIDTH]]
        /\ \/ UNCHANGED <<pen, stained>>
           \/ Paints(p, scanline[s], pens, cells, DISPLAY_WIDTH, pens[DISPLAY_WIDTH])
           \/ \E n \in 0 .. DISPLAY_WIDTH - 1 :
                \E after \in {pens[n], pens[n + 1]} :
                  Paints(p, scanline[s], pens, cells, n, after)
  BY DEF RowColours
<1>2. cached' \in [Slots -> Colours \cup {0}]
  <2>1. DISPLAY_WIDTH # 0 => cells[DISPLAY_WIDTH] \in Colours
    BY ClientsAssumption
  <2> QED
    BY <1>1, <2>1 DEF ColourTypes
<1>3. UNCHANGED <<pen, stained>>
      \/ \E n \in 0 .. DISPLAY_WIDTH, after \in Colours \cup {0} :
           Paints(p, scanline[s], pens, cells, n, after)
  <2>1. \A n \in 0 .. DISPLAY_WIDTH : pens[n] \in Colours \cup {0}
    OBVIOUS
  <2>2. \A n \in 0 .. DISPLAY_WIDTH - 1 : n \in 0 .. DISPLAY_WIDTH /\ n + 1 \in 0 .. DISPLAY_WIDTH
    BY ClientsAssumption
  <2>3. DISPLAY_WIDTH \in 0 .. DISPLAY_WIDTH
    BY ClientsAssumption
  <2> QED
    BY <1>1, <2>1, <2>2, <2>3
<1>4. /\ pen' \in [Peers -> Colours \cup {0}]
      /\ stained' \in [Peers -> SUBSET Rows]
  BY <1>3 DEF Paints, ColourTypes
<1> QED
  BY <1>2, <1>4 DEF ColourTypes

(* So do the colours the server believes in and those the terminals use: what
   a row leaves behind is the colour of one of its cells, or an earlier one. *)
LEMMA ColourTypesStep ==
  ASSUME TypeInv, [Next]_vars
  PROVE  ColourTypes'
<1> USE DEF worldVars, sockVars, termVars, tableVars, drawVars, colourVars
<1>1. CASE Accept
  BY <1>1 DEF Accept, AcceptClient, TypeInv, ColourTypes
<1>2. CASE Recv
  <2>1. PICK n \in 1 .. Len(inbox[PeerOf(turn)]), quits \in BOOLEAN :
          RecvMessages(turn, n, quits)
    BY <1>2 DEF Recv
  <2> QED
    BY <2>1 DEF RecvMessages, TypeInv, ColourTypes
<1>3. CASE SendResized
  BY <1>3 DEF SendResized, RenderResized, TypeInv, ColourTypes
<1>4. CASE SendRow
  <2>1. PICK res \in {"all", "short", "epipe", "error"} : RenderRow(turn, res)
    BY <1>4 DEF SendRow
  <2>2. turn \in Slots /\ connected[turn] /\ scanline[turn] < DISPLAY_HEIGHT
    BY <1>4, <2>1 DEF SendRow, RenderRow, Drawing
  <2>3. scanline[turn] \in Rows
    BY <2>2, SocketsAssumption DEF TypeInv, DrawTypes, Rows
  <2>4. PeerOf(turn) \in Peers
    BY <2>2, ClientHasPeer DEF TypeInv
  <2>5. RowColours(turn, PeerOf(turn), res)
    BY <2>1 DEF RenderRow
  <2> QED
    BY <2>2, <2>3, <2>4, <2>5, RowColoursTypes DEF TypeInv
<1>5. ASSUME \/ Allocate \/ GameInit \/ TestRunning
             \/ AcceptOverflow \/ AcceptNothing \/ RecvNothing \/ RecvFails
             \/ RecvUnknownActor \/ RecvDone \/ Tick \/ Render \/ RenderUnknownActor
             \/ Outside \/ SendNothing \/ SendDone \/ Shutdown \/ Sigint \/ UNCHANGED vars
      PROVE  ColourTypes'
  <2>1. UNCHANGED <<cached, pen, stained>>
    BY <1>5 DEF Allocate, GameInit, TestRunning, AcceptOverflow, AcceptNothing, RecvNothing,
      RecvFails, RecvError, RecvUnknownActor, RecvDone, Tick, Render, RedrawAll,
      RenderUnknownActor, Outside, SendNothing, SendDone, Shutdown, CloseAll, Sigint, vars
  <2> QED
    BY <2>1 DEF TypeInv, ColourTypes
<1> QED
  BY <1>1, <1>2, <1>3, <1>4, <1>5 DEF Next, MainThread, NetworkUpdate, Rendering

(* So do the phase of the loop, buffered actions and cooldowns. *)
LEMMA LoopTypesStep ==
  ASSUME TypeInv, [Next]_vars
  PROVE  LoopTypes'
<1> USE ClientsAssumption, ServerAssumption
    DEF TypeInv, LoopTypes, loopVars, playerVars, Goto, NextTurn, Stay, Slots,
        Phases, StartPhases, LoopPhases
<1>1. CASE Recv
  <2>1. phase' \in Phases /\ turn' \in 0 .. PLAYER_COUNT /\ running' \in BOOLEAN
    BY <1>1 DEF Recv
  <2>2. /\ gcd' = gcd
        /\ \E a \in {"none", "move"} : action' = [action EXCEPT ![turn] = a]
    BY <1>1 DEF Recv
  <2> QED
    BY <2>1, <2>2
<1>2. CASE Tick
  <2>1. PICK dt \in DTs, unobstructed \in SUBSET Active :
          /\ gcd' = [s \in Slots |->
               IF MayAct(s, dt) /\ action[s] = "move" /\ s \in unobstructed THEN GcdMove
               ELSE IF s \in Active THEN Remaining(s, dt) ELSE gcd[s]]
          /\ action' = [s \in Slots |-> IF MayAct(s, dt) THEN "none" ELSE action[s]]
    BY <1>2 DEF Tick
  <2>2. \A s \in Slots : Remaining(s, dt) \in 0 .. GcdMove
    BY DEF Remaining
  <2>3. gcd' \in [Slots -> 0 .. GcdMove]
    BY <2>1, <2>2
  <2>4. action' \in [Slots -> {"none", "move"}]
    BY <2>1
  <2>5. phase' \in Phases /\ turn' \in 0 .. PLAYER_COUNT /\ running' \in BOOLEAN
    BY <1>2 DEF Tick
  <2> QED
    BY <2>3, <2>4, <2>5
<1>3. ASSUME \/ RecvNothing \/ RecvFails \/ SendRow \/ SendNothing
             \/ Accept \/ SendResized
      PROVE  LoopTypes'
  <2>1. /\ UNCHANGED <<phase, running, action, gcd>>
        /\ turn' = turn \/ (turn \in Slots /\ turn' = turn + 1)
    BY <1>3 DEF RecvNothing, RecvFails, SendRow, SendNothing, Accept, SendResized
  <2> QED
    BY <2>1
<1>4. ASSUME \/ Allocate \/ GameInit \/ TestRunning
             \/ AcceptOverflow \/ AcceptNothing \/ RecvUnknownActor \/ RecvDone
             \/ Render \/ RenderUnknownActor \/ SendDone \/ Shutdown \/ Sigint
      PROVE  LoopTypes'
  <2>1. /\ UNCHANGED <<action, gcd>>
        /\ phase' \in Phases /\ turn' \in {0, turn} /\ running' \in BOOLEAN
    BY <1>4 DEF Allocate, GameInit, TestRunning, AcceptOverflow, AcceptNothing,
      RecvUnknownActor, RecvDone, Render, RenderUnknownActor, SendDone, Shutdown, Sigint
  <2> QED
    BY <2>1
<1>5. ASSUME Outside \/ UNCHANGED vars
      PROVE  LoopTypes'
  BY <1>5 DEF Outside, vars
<1> QED
  BY <1>1, <1>2, <1>3, <1>4, <1>5 DEF Next, MainThread, NetworkUpdate, Rendering

(* All of it holds of a server that starts. *)
LEMMA InitTypes == Init => TypeInv
<1> SUFFICES ASSUME Init PROVE TypeInv
  OBVIOUS
<1> USE SocketsAssumption, ClientsAssumption, ServerAssumption
    DEF Init, SocketsInit, ClientsInit
<1>1. TableInv
  BY DEF TableInv, TableTypes, SocketOwnership, ConnStates
<1>2. PeerTypes
  BY EmptySeq DEF PeerTypes
<1>3. DrawTypes
  BY DEF DrawTypes
<1>4. ColourTypes
  BY DEF ColourTypes
<1>5. LoopTypes
  <2>1. turn \in 0 .. PLAYER_COUNT /\ gcd \in [Slots -> 0 .. GcdMove]
    OBVIOUS
  <2>2. action \in [Slots -> {"none", "move"}] /\ running \in BOOLEAN
    OBVIOUS
  <2>3. phase \in Phases
    BY DEF Phases, StartPhases
  <2> QED
    BY <2>1, <2>2, <2>3 DEF LoopTypes
<1> QED
  BY <1>1, <1>2, <1>3, <1>4, <1>5 DEF TypeInv

(* The types and who owns what, as one invariant that other proofs cite. *)
LEMMA TypeInvHolds == Spec => []TypeInv
<1>1. TypeInv /\ [Next]_vars => TypeInv'
  BY TableStep, PeerTypesStep, DrawTypesStep, ColourTypesStep, LoopTypesStep DEF TypeInv
<1> QED
  BY <1>1, InitTypes, PTL DEF Spec

(***************************************************************************)
(* Every variable of the server keeps its type: no slot index, scanline or *)
(* cooldown leaves its range (client.c scanline, gcd.h gcd_tick).          *)
(***************************************************************************)
THEOREM TypeCorrect == Spec => []TypeOK
  BY TypeInvHolds, TypeInvIsEnough, PTL

-----------------------------------------------------------------------------
(* The steps, sorted by what they do to clients, terminals and drawing *)

(* Those that do nothing to them. *)
Quiet == \/ Allocate \/ GameInit \/ TestRunning
         \/ AcceptOverflow \/ AcceptNothing \/ RecvNothing \/ RecvUnknownActor \/ RecvDone
         \/ Tick \/ RenderUnknownActor \/ SendNothing \/ SendDone
         \/ Sigint \/ UNCHANGED vars

(* Every step is one of the nine kinds that the proofs below go through. *)
LEMMA Kinds ==
  ASSUME [Next]_vars
  PROVE  \/ Accept \/ RecvFails \/ Recv \/ Render \/ SendResized \/ SendRow \/ Shutdown
         \/ Outside \/ Quiet
  BY DEF Next, MainThread, NetworkUpdate, Rendering, Quiet

(* A quiet step leaves the world as it was; one that leaves the send phase or
   moves on to another client has nothing to send to this one. *)
LEMMA QuietSteps ==
  ASSUME Quiet
  PROVE  /\ UNCHANGED worldVars
         /\ phase = "send" => \/ phase' = phase /\ turn' = turn
                              \/ turn \in Slots /\ SendNothing
                              \/ turn = PLAYER_COUNT
<1>1. UNCHANGED worldVars
  BY DEF Quiet, Allocate, GameInit, TestRunning, AcceptOverflow, AcceptNothing, RecvNothing,
    RecvUnknownActor, RecvDone, Tick, RenderUnknownActor, SendNothing, SendDone, Sigint,
    worldVars, vars
<1>2. ASSUME phase = "send"
      PROVE  \/ phase' = phase /\ turn' = turn
             \/ turn \in Slots /\ SendNothing
             \/ turn = PLAYER_COUNT
  BY <1>2 DEF Quiet, Allocate, GameInit, TestRunning, AcceptOverflow, AcceptNothing,
    RecvNothing, RecvUnknownActor, RecvDone, Tick, RenderUnknownActor, SendNothing, SendDone,
    Sigint, vars, loopVars
<1> QED
  BY <1>1, <1>2

(* No two clients write to one terminal. *)
LEMMA TerminalsApart ==
  ASSUME TableInv, NEW s \in Slots, NEW t \in Slots, connected[s], connected[t],
         PeerOf(s) = PeerOf(t)
  PROVE  s = t
  BY ClientHasPeer, SocketsAssumption DEF TableInv, SocketOwnership, PeerOf

(* Whoever stays connected while another client is closed keeps its terminal. *)
LEMMA OthersKeepTerminal ==
  ASSUME TableInv, NEW s \in Slots, connected[s], CloseClient(s),
         NEW t \in Slots, connected'[t]
  PROVE  t # s /\ connected[t] /\ PeerOf(t)' = PeerOf(t)
<1>1. t # s /\ connected[t] /\ socket'[t] = socket[t]
  BY DEF CloseClient, TableInv, TableTypes
<1>2. socket[t] # socket[s] /\ socket[t] \in Fds
  BY <1>1 DEF TableInv, SocketOwnership
<1>3. sock'[socket[t]] = sock[socket[t]]
  BY <1>2 DEF CloseClient, TableInv, TableTypes
<1> QED
  BY <1>1, <1>3 DEF PeerOf

(* So does everybody while a new client is let in, or turned away. *)
LEMMA NewcomerApart ==
  ASSUME TableInv, AcceptClient
  PROVE  \E p \in Backlog, s \in Slots :
           /\ scanline' = [scanline EXCEPT ![s] = 0]
           /\ ~connected[s]
           /\ \A t \in Slots \ {s} : /\ connected'[t] <=> connected[t]
                                     /\ connected[t] => PeerOf(t)' = PeerOf(t)
           /\ \/ connected'[s] /\ PeerOf(s)' = p /\ conn'[p] \notin {"idle", "gone"}
              \/ ~connected'[s] /\ conn'[p] = "gone"
           /\ \A q \in Peers \ {p} : conn'[q] = conn[q]
<1>1. PICK p \in Backlog, f \in FreeFds, s \in Slots :
        /\ FirstFree(s)
        /\ scanline' = [scanline EXCEPT ![s] = 0]
        /\ \/ /\ connected' = [connected EXCEPT ![s] = TRUE]
              /\ socket' = [socket EXCEPT ![s] = f]
              /\ sock' = [sock EXCEPT ![f] = p]
              /\ \E res \in SendResults(p) : conn' = AfterSend(p, res)
           \/ /\ socket' = [socket EXCEPT ![s] = NoFd]
              /\ conn' = [conn EXCEPT ![p] = "gone"]
              /\ UNCHANGED <<connected, sock>>
  BY DEF AcceptClient
<1>2. f \in Fds /\ sock[f] = NoPeer /\ ~connected[s]
  BY <1>1 DEF FreeFds, FirstFree
<1>3. \A t \in Slots : connected[t] => socket[t] \in Fds /\ socket[t] # f
  BY <1>2, SocketsAssumption DEF TableInv, SocketOwnership
<1>4. \A t \in Slots \ {s} : /\ connected'[t] <=> connected[t]
                             /\ connected[t] => PeerOf(t)' = PeerOf(t)
  BY <1>1, <1>2, <1>3 DEF TableInv, TableTypes, PeerOf
<1>5. p \in Peers /\ conn[p] \notin {"idle", "gone"}
  BY DEF Backlog
<1>6. /\ \/ connected'[s] /\ PeerOf(s)' = p /\ conn'[p] \notin {"idle", "gone"}
         \/ ~connected'[s] /\ conn'[p] = "gone"
      /\ \A q \in Peers \ {p} : conn'[q] = conn[q]
  BY <1>1, <1>2, <1>5 DEF TableInv, TableTypes, PeerOf, AfterSend
<1>7. scanline' = [scanline EXCEPT ![s] = 0] /\ ~connected[s]
  BY <1>1, <1>2
<1> WITNESS p \in Backlog, s \in Slots
<1> QED
  BY <1>4, <1>6, <1>7

-----------------------------------------------------------------------------
(* The refinement of Sessions *)

(* The seat of a peer is the slot of the client that writes to it. *)
SeatsRight ==
  \A p \in Peers :
    /\ \A s \in Slots : connected[s] /\ PeerOf(s) = p => seat[p] = s
    /\ seat[p] # NoSlot => /\ seat[p] \in Slots
                           /\ connected[seat[p]] /\ PeerOf(seat[p]) = p

LEMMA SeatsAreRight == TableInv => SeatsRight
<1> SUFFICES ASSUME TableInv, NEW p \in Peers
             PROVE  /\ \A s \in Slots : connected[s] /\ PeerOf(s) = p => seat[p] = s
                    /\ seat[p] # NoSlot => /\ seat[p] \in Slots
                                           /\ connected[seat[p]] /\ PeerOf(seat[p]) = p
  BY DEF SeatsRight
<1>1. CASE \E s \in Slots : connected[s] /\ PeerOf(s) = p
  <2>1. seat[p] = CHOOSE s \in Slots : connected[s] /\ PeerOf(s) = p
    BY <1>1 DEF seat
  <2>2. seat[p] \in Slots /\ connected[seat[p]] /\ PeerOf(seat[p]) = p
    BY <1>1, <2>1
  <2> QED
    BY <2>2, TerminalsApart
<1>2. CASE ~\E s \in Slots : connected[s] /\ PeerOf(s) = p
  BY <1>2 DEF seat
<1> QED
  BY <1>1, <1>2

(* Whatever the server does, the two are functions of the peers. *)
AbstractTypes ==
  /\ seat \in [Peers -> Slots \cup {NoSlot}]
  /\ stage \in [Peers -> Promise!Stages]

LEMMA AbstractTyped == AbstractTypes
<1>1. seat \in [Peers -> Slots \cup {NoSlot}]
  BY DEF seat
<1>2. stage \in [Peers -> Promise!Stages]
  BY DEF stage, Promise!Stages
<1> QED
  BY <1>1, <1>2 DEF AbstractTypes

(***************************************************************************)
(* Every step but an arrival and a seating is, for Sessions, that some     *)
(* group leaves, which may be empty: its clients, and only they, are       *)
(* closed, and its connections, and only they, are gone.                   *)
(***************************************************************************)
LEMMA Leaving ==
  ASSUME TableInv, TableInv', NEW group \in SUBSET Peers,
         \A s \in Slots : connected'[s] <=> connected[s] /\ PeerOf(s) \notin group,
         \A s \in Slots : connected'[s] => PeerOf(s)' = PeerOf(s),
         \A p \in group : conn[p] \notin {"idle", "gone"} /\ conn'[p] = "gone",
         \A p \in Peers \ group : /\ conn'[p] = "idle" <=> conn[p] = "idle"
                                  /\ conn'[p] = "gone" <=> conn[p] = "gone"
  PROVE  Promise!Leave(group)
<1>1. SeatsRight /\ SeatsRight'
  BY SeatsAreRight, PTL
<1>2. ASSUME NEW p \in Peers
      PROVE  seat'[p] = IF p \in group THEN NoSlot ELSE seat[p]
  <2>1. CASE p \in group \/ seat[p] = NoSlot
    <3>1. \A s \in Slots : ~(connected'[s] /\ PeerOf(s)' = p)
      BY <1>1, <2>1, PropsAssumption DEF SeatsRight
    <3>2. seat'[p] = NoSlot
      BY <1>1, <3>1 DEF SeatsRight
    <3> QED
      BY <2>1, <3>2
  <2>2. CASE p \notin group /\ seat[p] # NoSlot
    <3>1. seat[p] \in Slots /\ connected'[seat[p]] /\ PeerOf(seat[p])' = p
      BY <1>1, <2>2 DEF SeatsRight, PeerOf
    <3> QED
      BY <1>1, <2>2, <3>1 DEF SeatsRight, PeerOf
  <2> QED
    BY <2>1, <2>2
<1>3. \A p \in group : stage[p] \in {"waiting", "seated"}
  BY DEF stage
<1>4. \A p \in Peers : stage'[p] = IF p \in group THEN "left" ELSE stage[p]
  BY <1>2 DEF stage
<1>5. seat' = [p \in Peers |-> IF p \in group THEN NoSlot ELSE seat[p]]
  BY <1>2 DEF seat
<1>6. stage' = [p \in Peers |-> IF p \in group THEN "left" ELSE stage[p]]
  BY <1>4 DEF stage
<1> QED
  BY <1>3, <1>5, <1>6 DEF Promise!Leave

(* Arrive: the kernel has a connection for the server. *)
LEMMA Arriving ==
  ASSUME TableInv, NEW p \in Peers, Connect(p), UNCHANGED tableVars
  PROVE  Promise!Arrive(p)
<1>1. conn[p] = "idle" /\ conn' = [conn EXCEPT ![p] = "open"] /\ sock' = sock
  BY DEF Connect
<1>2. seat' = seat
  BY <1>1 DEF seat, tableVars, PeerOf
<1>3. seat[p] = NoSlot
  BY <1>1, SeatsAreRight, ClientHasPeer DEF SeatsRight
<1>4. \A q \in Peers : stage'[q] = IF q = p THEN "waiting" ELSE stage[q]
  BY <1>1, <1>2, <1>3 DEF stage, TableInv, TableTypes
<1>5. stage[p] = "away"
  BY <1>1 DEF stage
<1>6. stage' = [stage EXCEPT ![p] = "waiting"]
  BY <1>4 DEF stage
<1> QED
  BY <1>2, <1>5, <1>6 DEF Promise!Arrive

(* Sit, or Leave of somebody who waits: accept_clients lets a peer in, or loses
   it while it greets it. *)
LEMMA Sitting ==
  ASSUME TableInv, TableInv', AcceptClient
  PROVE  \/ \E p \in Peers, s \in Slots : Promise!Sit(p, s)
         \/ \E group \in SUBSET Peers : Promise!Leave(group)
<1>1. PICK p \in Backlog, s \in Slots :
        /\ ~connected[s]
        /\ \A t \in Slots \ {s} : /\ connected'[t] <=> connected[t]
                                  /\ connected[t] => PeerOf(t)' = PeerOf(t)
        /\ \/ connected'[s] /\ PeerOf(s)' = p /\ conn'[p] \notin {"idle", "gone"}
           \/ ~connected'[s] /\ conn'[p] = "gone"
        /\ \A q \in Peers \ {p} : conn'[q] = conn[q]
  BY NewcomerApart
<1>2. /\ p \in Peers /\ conn[p] \notin {"idle", "gone"}
      /\ \A f \in Fds : sock[f] # p
  BY DEF Backlog
<1>3. \A t \in Slots : connected[t] => PeerOf(t) # p
  BY <1>2, ClientHasPeer DEF PeerOf
<1>4. SeatsRight /\ SeatsRight'
  BY SeatsAreRight, PTL
<1>5. AbstractTypes /\ AbstractTypes'
  BY AbstractTyped, PTL
<1>6. CASE connected'[s] /\ PeerOf(s)' = p /\ conn'[p] \notin {"idle", "gone"}
  <2>1. seat[p] = NoSlot /\ \A q \in Peers : seat[q] # s
    BY <1>1, <1>2, <1>3, <1>4, PropsAssumption DEF SeatsRight
  <2>2. seat'[p] = s
    BY <1>2, <1>4, <1>6 DEF SeatsRight
  <2>3. ASSUME NEW q \in Peers \ {p}
        PROVE  seat'[q] = seat[q]
    <3>1. \A t \in Slots : connected'[t] /\ PeerOf(t)' = q <=> connected[t] /\ PeerOf(t) = q
      BY <1>1, <1>6
    <3> QED
      BY <1>4, <3>1, PropsAssumption DEF SeatsRight
  <2>4. seat' = [seat EXCEPT ![p] = s]
    BY <1>2, <1>5, <2>2, <2>3 DEF AbstractTypes
  <2>5. stage[p] = "waiting" /\ stage'[p] = "seated"
    BY <1>2, <1>6, <2>1, <2>2, PropsAssumption DEF stage
  <2>6. \A q \in Peers \ {p} : stage'[q] = stage[q]
    BY <1>1, <2>3 DEF stage
  <2>7. stage' = [stage EXCEPT ![p] = "seated"]
    BY <1>2, <1>5, <2>5, <2>6 DEF AbstractTypes
  <2> QED
    BY <1>2, <2>1, <2>4, <2>5, <2>7 DEF Promise!Sit
<1>7. CASE ~connected'[s] /\ conn'[p] = "gone"
  <2>1. Promise!Leave({p})
    BY <1>1, <1>2, <1>3, <1>7, Leaving
  <2> QED
    BY <1>2, <2>1
<1> QED
  BY <1>1, <1>6, <1>7

(* Closing a client, for whatever reason, is that its peer leaves. *)
LEMMA ClosingIsLeaving ==
  ASSUME TableInv, TableInv', NEW s \in Slots, connected[s], CloseClient(s)
  PROVE  \E group \in SUBSET Peers : Promise!Leave(group)
<1> DEFINE p == PeerOf(s)
<1>1. p \in Peers /\ conn[p] \notin {"idle", "gone"}
  BY ClientHasPeer
<1>2. conn' = [conn EXCEPT ![p] = "gone"] /\ connected' = [connected EXCEPT ![s] = FALSE]
  BY DEF CloseClient
<1>3. \A t \in Slots : connected'[t] => PeerOf(t)' = PeerOf(t)
  BY OthersKeepTerminal
<1>4. \A t \in Slots : connected'[t] <=> connected[t] /\ PeerOf(t) \notin {p}
  BY <1>2, TerminalsApart DEF TableInv, TableTypes
<1>5. /\ \A q \in {p} : conn[q] \notin {"idle", "gone"} /\ conn'[q] = "gone"
      /\ \A q \in Peers \ {p} : /\ conn'[q] = "idle" <=> conn[q] = "idle"
                                /\ conn'[q] = "gone" <=> conn[q] = "gone"
  BY <1>1, <1>2 DEF TableInv, TableTypes
<1>6. Promise!Leave({p})
  <2> DEFINE group == {p}
  <2>1. /\ group \in SUBSET Peers
        /\ \A t \in Slots : connected'[t] <=> connected[t] /\ PeerOf(t) \notin group
        /\ \A q \in group : conn[q] \notin {"idle", "gone"} /\ conn'[q] = "gone"
        /\ \A q \in Peers \ group : /\ conn'[q] = "idle" <=> conn[q] = "idle"
                                    /\ conn'[q] = "gone" <=> conn[q] = "gone"
    BY <1>1, <1>4, <1>5
  <2> HIDE DEF group, p
  <2>2. Promise!Leave(group)
    BY <1>3, <2>1, Leaving
  <2> QED
    BY <2>2 DEF group
<1> QED
  BY <1>1, <1>6

(* A step that lets nobody in, closes nobody and starts or finishes no
   connection is one in which nobody leaves. *)
LEMMA NobodyLeaves ==
  ASSUME TableInv, TableInv', UNCHANGED <<sock, connected, socket>>,
         \A p \in Peers : /\ conn'[p] = "idle" <=> conn[p] = "idle"
                          /\ conn'[p] = "gone" <=> conn[p] = "gone"
  PROVE  \E group \in SUBSET Peers : Promise!Leave(group)
<1> DEFINE group == {}
<1>1. /\ group \in SUBSET Peers
      /\ \A s \in Slots : connected'[s] <=> connected[s] /\ PeerOf(s) \notin group
      /\ \A s \in Slots : connected'[s] => PeerOf(s)' = PeerOf(s)
      /\ \A p \in group : conn[p] \notin {"idle", "gone"} /\ conn'[p] = "gone"
      /\ \A p \in Peers \ group : /\ conn'[p] = "idle" <=> conn[p] = "idle"
                                  /\ conn'[p] = "gone" <=> conn[p] = "gone"
  BY DEF PeerOf
<1> HIDE DEF group
<1> QED
  BY <1>1, Leaving

(* At shutdown everybody leaves who had come. *)
LEMMA EverybodyLeaves ==
  ASSUME TableInv, TableInv', CloseAll
  PROVE  \E group \in SUBSET Peers : Promise!Leave(group)
<1> DEFINE group == {p \in Peers : conn[p] \notin {"idle", "gone"}}
<1>1. \A s \in Slots : connected[s] => PeerOf(s) \in group
  BY ClientHasPeer
<1>2. /\ group \in SUBSET Peers
      /\ \A s \in Slots : connected'[s] <=> connected[s] /\ PeerOf(s) \notin group
      /\ \A s \in Slots : connected'[s] => PeerOf(s)' = PeerOf(s)
  BY <1>1 DEF CloseAll
<1>3. /\ \A p \in group : conn[p] \notin {"idle", "gone"} /\ conn'[p] = "gone"
      /\ \A p \in Peers \ group : /\ conn'[p] = "idle" <=> conn[p] = "idle"
                                  /\ conn'[p] = "gone" <=> conn[p] = "gone"
  BY DEF CloseAll
<1> HIDE DEF group
<1> QED
  BY <1>2, <1>3, Leaving

(* Every step of the server is an arrival, a seating or a leaving. *)
LEMMA SessionsStep ==
  ASSUME TableInv, [Next]_vars
  PROVE  Promise!Next
<1>0. TableInv'
  BY TableStep
<1>1. CASE Accept
  BY <1>0, <1>1, Sitting DEF Accept, Promise!Next
<1>2. CASE RecvFails
  BY <1>0, <1>2, ClosingIsLeaving DEF RecvFails, RecvError, Promise!Next
<1>3. CASE Recv
  <2>1. PICK n \in 1 .. Len(inbox[PeerOf(turn)]), quits \in BOOLEAN :
          RecvMessages(turn, n, quits)
    BY <1>3 DEF Recv
  <2>2. turn \in Slots /\ connected[turn]
    BY <1>3 DEF Recv
  <2>3. CASE quits
    BY <1>0, <2>1, <2>2, <2>3, ClosingIsLeaving DEF RecvMessages, Promise!Next
  <2>4. CASE ~quits
    BY <1>0, <2>1, <2>4, NobodyLeaves DEF RecvMessages, tableVars, Promise!Next
  <2> QED
    BY <2>3, <2>4
<1>4. CASE SendRow
  <2>1. PICK res \in {"all", "short", "epipe", "error"} : RenderRow(turn, res)
    BY <1>4 DEF SendRow
  <2>2. turn \in Slots /\ connected[turn]
    BY <1>4, <2>1 DEF SendRow, RenderRow, Drawing
  <2>3. CASE ClosesClient(res)
    BY <1>0, <2>1, <2>2, <2>3, ClosingIsLeaving DEF RenderRow, Promise!Next
  <2>4. CASE ~ClosesClient(res)
    <3>1. /\ conn' = AfterSend(PeerOf(turn), res)
          /\ UNCHANGED <<sock, connected, socket>>
      BY <2>1, <2>4 DEF RenderRow, tableVars
    <3>2. \A p \in Peers : /\ conn'[p] = "idle" <=> conn[p] = "idle"
                           /\ conn'[p] = "gone" <=> conn[p] = "gone"
      BY <2>2, <3>1, ClientHasPeer DEF AfterSend, TableInv, TableTypes
    <3> QED
      BY <1>0, <3>1, <3>2, NobodyLeaves DEF Promise!Next
  <2> QED
    BY <2>3, <2>4
<1>5. CASE Shutdown
  BY <1>0, <1>5, EverybodyLeaves DEF Shutdown, Promise!Next
<1>6. CASE Outside
  <2>1. PICK p \in Peers : PeerStep(p) \/ AnswerReset(p)
    BY <1>6 DEF Outside
  <2>2. CASE Connect(p)
    BY <1>6, <2>2, Arriving DEF Outside, Promise!Next
  <2>3. CASE ~Connect(p)
    <3>1. /\ \A q \in Peers : /\ conn'[q] = "idle" <=> conn[q] = "idle"
                              /\ conn'[q] = "gone" <=> conn[q] = "gone"
          /\ sock' = sock
      BY <2>1, <2>3 DEF PeerStep, Type, Resize, Split, HangUp, Abort, AnswerReset, TableInv,
        TableTypes
    <3> QED
      BY <1>0, <1>6, <3>1, NobodyLeaves DEF Outside, tableVars, Promise!Next
  <2> QED
    BY <2>2, <2>3
<1>7. ASSUME Render \/ SendResized \/ Quiet
      PROVE  UNCHANGED <<conn, sock, connected, socket>>
  BY <1>7, QuietSteps DEF Render, RedrawAll, SendResized, RenderResized, worldVars, sockVars,
    tableVars
<1>8. CASE Render \/ SendResized \/ Quiet
  BY <1>0, <1>7, <1>8, NobodyLeaves DEF Promise!Next
<1> QED
  BY <1>1, <1>2, <1>3, <1>4, <1>5, <1>6, <1>8, Kinds

(***************************************************************************)
(* The server implements Sessions: a peer is given a slot nobody else has, *)
(* keeps that slot until it leaves, and never comes back, through every    *)
(* interleaving of accepts, receives and sends with the network            *)
(* (network.c push_client, client_recv; client.c client_send).             *)
(***************************************************************************)
THEOREM ServerImplementsSessions == Spec => ImplementsSessions
<1>1. Init => Promise!Init
  BY PropsAssumption DEF Init, SocketsInit, ClientsInit, Promise!Init, stage, seat
<1>2. TableInv /\ [Next]_vars => [Promise!Next]_<<stage, seat>>
  BY SessionsStep
<1>3. Spec => []TableInv
  BY TypeInvHolds, PTL DEF TypeInv
<1> QED
  BY <1>1, <1>2, <1>3, PTL DEF Spec, ImplementsSessions, Promise!Spec, Promise!vars

-----------------------------------------------------------------------------
(* Sound connections *)

(* Only the three ways OpenPeerKept allows end the session of an open peer: a
   failed recv or send is never met on a connection that is sound. *)
LEMMA OpenPeerStep ==
  ASSUME TypeInv, [Next]_vars, NEW p \in Peers, conn[p] = "open", conn'[p] = "gone"
  PROVE  phase = "stop" \/ (phase = "recv" /\ Quitting(p))
<1> USE DEF TypeInv, TableInv, TableTypes
<1>1. CASE Accept
  <2>1. PICK q \in Backlog :
          \E res \in SendResults(q) :
            \/ res # "epipe" /\ conn' = AfterSend(q, res)
            \/ res = "epipe" /\ conn' = [conn EXCEPT ![q] = "gone"]
    BY <1>1 DEF Accept, AcceptClient
  <2>2. PICK res \in SendResults(q) :
          \/ res # "epipe" /\ conn' = AfterSend(q, res)
          \/ res = "epipe" /\ conn' = [conn EXCEPT ![q] = "gone"]
    BY <2>1
  <2>3. q = p /\ res = "epipe"
    BY <2>2 DEF AfterSend
  <2> QED
    BY <2>2, <2>3 DEF SendResults
<1>2. CASE RecvFails
  <2>1. /\ turn \in Slots /\ connected[turn] /\ conn[PeerOf(turn)] = "reset"
        /\ conn' = [conn EXCEPT ![PeerOf(turn)] = "gone"]
    BY <1>2 DEF RecvFails, RecvError, RecvBroken, RecvFailsOn, CloseClient
  <2> QED
    BY <2>1
<1>3. CASE Recv
  <2>1. PICK n \in 1 .. Len(inbox[PeerOf(turn)]), quits \in BOOLEAN :
          /\ quits => {inbox[PeerOf(turn)][i] : i \in 1 .. n} \cap {"quit", "tail"} # {}
          /\ RecvMessages(turn, n, quits)
    BY <1>3 DEF Recv
  <2>2. /\ conn' = [conn EXCEPT ![PeerOf(turn)] = "gone"]
        /\ quits
    BY <2>1 DEF RecvMessages, CloseClient
  <2>3. p = PeerOf(turn)
    BY <2>2
  <2>4. PICK i \in 1 .. n : inbox[p][i] \in {"quit", "tail"}
    BY <2>1, <2>2, <2>3
  <2> QED
    BY <1>3, <2>3, <2>4 DEF Recv, Quitting
<1>4. CASE SendRow
  <2>1. PICK res \in {"all", "short", "epipe", "error"} : RenderRow(turn, res)
    BY <1>4 DEF SendRow
  <2>2. p = PeerOf(turn) /\ res = "epipe"
    BY <2>1 DEF RenderRow, ClosesClient, CloseClient, AfterSend
  <2> QED
    BY <2>1, <2>2 DEF RenderRow, SendResults
<1>5. CASE Shutdown
  BY <1>5 DEF Shutdown
<1>6. CASE Outside
  <2>1. PICK q \in Peers : PeerStep(q) \/ AnswerReset(q)
    BY <1>6 DEF Outside
  <2> QED
    BY <2>1 DEF PeerStep, Connect, Type, Resize, Split, HangUp, Abort, AnswerReset
<1>7. ASSUME Render \/ SendResized \/ Quiet
      PROVE  conn' = conn
  BY <1>7, QuietSteps DEF Render, RedrawAll, SendResized, RenderResized, worldVars, sockVars
<1> QED
  BY <1>1, <1>2, <1>3, <1>4, <1>5, <1>6, <1>7, Kinds

(***************************************************************************)
(* No peer on a sound connection is hung up on because of how a send or a  *)
(* recv came out (client.c client_send's and client_recv's error paths).   *)
(***************************************************************************)
THEOREM SoundConnectionsKept == Spec => OpenPeerKept
<1>1. TypeInv /\ [Next]_vars
        => [\A p \in Peers : conn[p] = "open" /\ conn'[p] = "gone"
             => phase = "stop" \/ (phase = "recv" /\ Quitting(p))]_vars
  BY OpenPeerStep
<1> QED
  BY <1>1, TypeInvHolds, PTL DEF Spec, OpenPeerKept

-----------------------------------------------------------------------------
(***************************************************************************)
(* client_render: whose the shared buffer is, what the terminals show      *)
(* above the scanline, the colours they show it in, and that the loop does *)
(* not spin.                                                               *)
(***************************************************************************)

(* Every set of natural numbers that is not empty has a least element: what
   induction along a row of cells comes down to. *)
LEMMA LeastNumber ==
  ASSUME NEW T, T \subseteq Nat, T # {}
  PROVE  \E n \in T : \A m \in T : n <= m
<1> DEFINE R == OpToRel(<, Nat)
<1>1. IsWellFoundedOn(R, Nat)
  BY NatLessThanWellFounded
<1>2. \A m, n \in Nat : m < n => <<m, n>> \in R
  BY DEF OpToRel
<1> HIDE DEF R
<1>3. PICK n \in T : \A m \in T : ~(<<m, n>> \in R)
  BY <1>1, WFMin
<1>4. n \in Nat
  BY <1>3
<1>5. \A m \in T : m \in Nat /\ ~(m < n)
  BY <1>2, <1>3, <1>4
<1> QED
  BY <1>3, <1>4, <1>5

-----------------------------------------------------------------------------
(* The shared buffer *)

(* What is written into the buffer is for the client whose turn it is, and the
   turn does not end before it has been sent. *)
LEMMA BufferStep ==
  ASSUME TypeInv, BufferForNobodyElse, [Next]_vars
  PROVE  BufferForNobodyElse'
<1> USE DEF drawVars
<1>1. ASSUME Accept \/ RecvFails \/ Recv \/ Render \/ Shutdown
      PROVE  buffer' = <<>>
  BY <1>1 DEF Accept, AcceptClient, RecvFails, RecvError, Recv, RecvMessages, Render, RedrawAll,
    Shutdown, CloseAll, BufferForNobodyElse
<1>2. CASE SendResized
  <2>1. /\ turn \in Slots /\ connected[turn] /\ phase = "send"
        /\ buffer' = <<turn>> /\ scanline' = [scanline EXCEPT ![turn] = 0]
        /\ UNCHANGED <<connected, phase, turn>>
    BY <1>2 DEF SendResized, RenderResized, Stay, loopVars, tableVars
  <2>2. scanline'[turn] = 0
    BY <2>1 DEF TypeInv, DrawTypes
  <2> QED
    BY <2>1, <2>2 DEF BufferForNobodyElse
<1>3. CASE SendRow
  BY <1>3 DEF SendRow, RenderRow, BufferAfter, BufferForNobodyElse
<1>4. CASE Outside
  BY <1>4 DEF Outside, tableVars, loopVars, BufferForNobodyElse
<1>5. CASE Quiet
  <2> SUFFICES ASSUME buffer # <<>> PROVE BufferForNobodyElse'
    BY <1>5, QuietSteps DEF worldVars, BufferForNobodyElse
  <2>1. /\ phase = "send" /\ turn \in Slots /\ connected[turn] /\ scanline[turn] = 0
    BY DEF BufferForNobodyElse, TypeInv, DrawTypes
  <2>2. turn # PLAYER_COUNT
    BY <2>1, ClientsAssumption DEF Slots
  <2>3. ~SendNothing
    BY <2>1, SocketsAssumption DEF SendNothing, Drawing
  <2>4. UNCHANGED worldVars /\ phase' = phase /\ turn' = turn
    BY <1>5, <2>1, <2>2, <2>3, QuietSteps
  <2> QED
    BY <2>4 DEF worldVars, tableVars, BufferForNobodyElse
<1> QED
  BY <1>1, <1>2, <1>3, <1>4, <1>5, Kinds DEF BufferForNobodyElse

-----------------------------------------------------------------------------
(* The rows above the scanline *)

(* One row more is above the scanline when, and only when, it has been sent
   whole; a screen-clear is sent only while no row is above it. *)
LEMMA RowsAfterSend ==
  ASSUME TypeInv, BufferForNobodyElse, RowsAboveScanline, SendRow
  PROVE  RowsAboveScanline'
<1>1. PICK res \in {"all", "short", "epipe", "error"} : RenderRow(turn, res)
  BY DEF SendRow
<1> DEFINE p == PeerOf(turn)
           row == scanline[turn]
           kept == IF buffer = <<>> THEN shown[p] ELSE {}
<1>2. turn \in Slots /\ connected[turn]
  BY <1>1 DEF SendRow, RenderRow, Drawing
<1>3. p \in Peers /\ row \in Nat
  BY <1>2, ClientHasPeer DEF TypeInv, DrawTypes
<1>4. \A t \in Slots : connected'[t] => connected[t] /\ PeerOf(t)' = PeerOf(t)
  <2>1. CASE ClosesClient(res)
    BY <1>1, <1>2, <2>1, OthersKeepTerminal DEF RenderRow, TypeInv
  <2>2. CASE ~ClosesClient(res)
    BY <1>1, <2>2 DEF RenderRow, tableVars, PeerOf
  <2> QED
    BY <2>1, <2>2
<1>5. /\ disturbed' = disturbed
      /\ \A q \in Peers \ {p} : shown'[q] = shown[q]
      /\ \A t \in Slots \ {turn} : scanline'[t] = scanline[t]
  BY <1>1, <1>3 DEF RenderRow, TypeInv, PeerTypes, DrawTypes
<1>6. ASSUME ~disturbed[p]
      PROVE  0 .. scanline'[turn] - 1 \subseteq shown'[p]
  <2>1. 0 .. row - 1 \subseteq shown[p]
    BY <1>2, <1>6 DEF RowsAboveScanline
  <2>2. 0 .. row - 1 \subseteq kept
    BY <1>3, <2>1 DEF BufferForNobodyElse
  <2>3. CASE res = "all"
    <3>1. scanline'[turn] = row + 1 /\ shown'[p] = kept \cup {row}
      BY <1>1, <1>2, <1>3, <2>3 DEF RenderRow, RowSent, TypeInv, DrawTypes, PeerTypes
    <3> QED
      BY <1>3, <2>2, <3>1
  <2>4. CASE res # "all"
    <3>1. /\ scanline'[turn] = row
          /\ shown'[p] \in {shown[p], kept, kept \ {row}}
      BY <1>1, <1>2, <1>3, <2>4 DEF RenderRow, RowSent, TypeInv, DrawTypes, PeerTypes
    <3>2. row \notin 0 .. row - 1
      BY <1>3
    <3> QED
      BY <2>1, <2>2, <3>1, <3>2
  <2> QED
    BY <2>3, <2>4
<1> HIDE DEF p, row, kept
<1>7. ASSUME NEW t \in Slots, connected'[t], ~disturbed'[PeerOf(t)']
      PROVE  0 .. scanline'[t] - 1 \subseteq shown'[PeerOf(t)']
  <2>1. connected[t] /\ PeerOf(t)' = PeerOf(t) /\ ~disturbed[PeerOf(t)]
    BY <1>4, <1>5, <1>7
  <2>2. CASE t = turn
    BY <1>6, <2>1, <2>2 DEF p
  <2>3. CASE t # turn
    <3>1. PeerOf(t) \in Peers \ {p}
      BY <1>2, <2>1, <2>3, TerminalsApart, ClientHasPeer DEF p, TypeInv
    <3> QED
      BY <1>5, <2>1, <2>3, <3>1 DEF RowsAboveScanline
  <2> QED
    BY <2>2, <2>3
<1> QED
  BY <1>7 DEF RowsAboveScanline

(* Nothing else touches a row above the scanline, unless the terminal itself is
   resized, which is noted. *)
LEMMA RowsStep ==
  ASSUME TypeInv, BufferForNobodyElse, RowsAboveScanline, [Next]_vars
  PROVE  RowsAboveScanline'
<1> USE DEF drawVars
<1>1. ASSUME UNCHANGED <<scanline, shown, disturbed>>,
             \A t \in Slots : connected'[t] => connected[t] /\ PeerOf(t)' = PeerOf(t)
      PROVE  RowsAboveScanline'
  BY <1>1 DEF RowsAboveScanline
<1>2. CASE Accept
  <2>1. PICK s \in Slots :
          /\ scanline' = [scanline EXCEPT ![s] = 0]
          /\ \A t \in Slots \ {s} : connected'[t] => connected[t] /\ PeerOf(t)' = PeerOf(t)
    <3>1. PICK p \in Backlog, s \in Slots :
            /\ scanline' = [scanline EXCEPT ![s] = 0]
            /\ \A t \in Slots \ {s} : /\ connected'[t] <=> connected[t]
                                      /\ connected[t] => PeerOf(t)' = PeerOf(t)
      BY <1>2, NewcomerApart DEF Accept, TypeInv
    <3> QED
      BY <3>1
  <2>2. UNCHANGED <<shown, disturbed>>
    BY <1>2 DEF Accept, AcceptClient, termVars
  <2>3. scanline'[s] = 0 /\ \A t \in Slots \ {s} : scanline'[t] = scanline[t]
    BY <2>1 DEF TypeInv, DrawTypes
  <2> QED
    BY <2>1, <2>2, <2>3 DEF RowsAboveScanline
<1>3. CASE RecvFails
  BY <1>1, <1>3, OthersKeepTerminal DEF RecvFails, RecvError, TypeInv, termVars
<1>4. CASE Recv
  <2>1. PICK n \in 1 .. Len(inbox[PeerOf(turn)]), quits \in BOOLEAN :
          RecvMessages(turn, n, quits)
    BY <1>4 DEF Recv
  <2>2. UNCHANGED <<scanline, shown, disturbed>> /\ turn \in Slots /\ connected[turn]
    BY <1>4, <2>1 DEF Recv, RecvMessages, termVars
  <2>3. CASE quits
    BY <1>1, <2>1, <2>2, <2>3, OthersKeepTerminal DEF RecvMessages, TypeInv
  <2>4. CASE ~quits
    BY <1>1, <2>1, <2>2, <2>4 DEF RecvMessages, tableVars, PeerOf
  <2> QED
    BY <2>3, <2>4
<1>5. CASE Render
  BY <1>5 DEF Render, RedrawAll, sockVars, tableVars, PeerOf, RowsAboveScanline
<1>6. CASE SendResized
  <2>1. /\ turn \in Slots /\ connected[turn]
        /\ scanline' = [scanline EXCEPT ![turn] = 0]
        /\ disturbed' = [disturbed EXCEPT ![PeerOf(turn)] = FALSE]
        /\ UNCHANGED <<connected, shown>> /\ \A t \in Slots : PeerOf(t)' = PeerOf(t)
    BY <1>6 DEF SendResized, RenderResized, sockVars, tableVars, PeerOf
  <2>2. scanline'[turn] = 0 /\ \A t \in Slots \ {turn} : scanline'[t] = scanline[t]
    BY <2>1 DEF TypeInv, DrawTypes
  <2>3. \A t \in Slots \ {turn} : connected[t] => disturbed'[PeerOf(t)] = disturbed[PeerOf(t)]
    BY <2>1, TerminalsApart, ClientHasPeer DEF TypeInv, PeerTypes
  <2> QED
    <3> SUFFICES ASSUME NEW t \in Slots, connected'[t], ~disturbed'[PeerOf(t)']
                 PROVE  0 .. scanline'[t] - 1 \subseteq shown'[PeerOf(t)']
      BY DEF RowsAboveScanline
    <3>1. CASE t = turn
      BY <2>2, <3>1
    <3>2. CASE t # turn
      <4>1. connected[t] /\ PeerOf(t)' = PeerOf(t) /\ shown' = shown /\ scanline'[t] = scanline[t]
        BY <2>1, <2>2, <3>2
      <4>2. ~disturbed[PeerOf(t)]
        BY <2>3, <3>2, <4>1
      <4>3. 0 .. scanline[t] - 1 \subseteq shown[PeerOf(t)]
        BY <4>1, <4>2 DEF RowsAboveScanline
      <4> QED
        BY <4>1, <4>3
    <3> QED
      BY <3>1, <3>2
<1>7. CASE SendRow
  BY <1>7, RowsAfterSend
<1>8. CASE Shutdown
  BY <1>8 DEF Shutdown, CloseAll, RowsAboveScanline
<1>9. CASE Outside
  <2>1. PICK q \in Peers : PeerStep(q) \/ AnswerReset(q)
    BY <1>9 DEF Outside
  <2>2. UNCHANGED <<connected, scanline>> /\ \A t \in Slots : PeerOf(t)' = PeerOf(t)
    BY <1>9, <2>1 DEF Outside, PeerStep, Connect, Type, Resize, Split, HangUp, Abort,
      AnswerReset, tableVars, PeerOf
  <2>3. \A r \in Peers : ~disturbed'[r] => ~disturbed[r] /\ shown'[r] = shown[r]
    BY <2>1 DEF PeerStep, Connect, Type, Resize, Split, HangUp, Abort, AnswerReset, termVars,
      TypeInv, PeerTypes
  <2> SUFFICES ASSUME NEW t \in Slots, connected'[t], ~disturbed'[PeerOf(t)']
               PROVE  0 .. scanline'[t] - 1 \subseteq shown'[PeerOf(t)']
    BY DEF RowsAboveScanline
  <2>4. connected[t] /\ PeerOf(t)' = PeerOf(t) /\ PeerOf(t) \in Peers
    BY <2>2, ClientHasPeer DEF TypeInv
  <2>5. ~disturbed[PeerOf(t)] /\ shown'[PeerOf(t)] = shown[PeerOf(t)]
    BY <2>3, <2>4
  <2> QED
    BY <2>2, <2>4, <2>5 DEF RowsAboveScanline
<1>10. CASE Quiet
  BY <1>1, <1>10, QuietSteps DEF worldVars, sockVars, tableVars, termVars, PeerOf
<1> QED
  BY <1>2, <1>3, <1>4, <1>5, <1>6, <1>7, <1>8, <1>9, <1>10, Kinds

-----------------------------------------------------------------------------
(* The colours of glyphs *)

(***************************************************************************)
(* Every cell of a row is written in its own colour, whatever the server   *)
(* believes of the terminal: the first cell always sets it, and a cell     *)
(* that does not has the colour of the one before.  Of the cells that were *)
(* written in another colour there would be a first one.                   *)
(***************************************************************************)
LEMMA CellsInTheirColour ==
  ASSUME NEW cells \in [1 .. DISPLAY_WIDTH -> Colours],
         NEW pens \in [0 .. DISPLAY_WIDTH -> Colours \cup {0}],
         \A x \in 1 .. DISPLAY_WIDTH :
           \/ pens[x] = cells[x]
           \/ x # 1 /\ cells[x] = cells[x - 1] /\ pens[x] = pens[x - 1]
  PROVE  \A x \in 1 .. DISPLAY_WIDTH : pens[x] = cells[x]
<1> DEFINE Wrong == {x \in 1 .. DISPLAY_WIDTH : pens[x] # cells[x]}
<1> SUFFICES ASSUME Wrong # {} PROVE FALSE
  OBVIOUS
<1>1. Wrong \subseteq Nat
  OBVIOUS
<1> HIDE DEF Wrong
<1>2. PICK x \in Wrong : \A y \in Wrong : x <= y
  BY <1>1, LeastNumber
<1> USE DEF Wrong
<1>3. x # 1 /\ cells[x] = cells[x - 1] /\ pens[x] = pens[x - 1]
  OBVIOUS
<1>4. x - 1 \in 1 .. DISPLAY_WIDTH /\ x - 1 \notin Wrong
  BY <1>2, <1>3, ClientsAssumption
<1> QED
  BY <1>3, <1>4

(* So no part of a row that reaches the terminal stains it. *)
LEMMA RowDoesNotStain ==
  ASSUME ColourTypes, NEW s \in Slots, NEW p \in Peers, NEW res,
         stained[p] = {}, RowColours(s, p, res)
  PROVE  stained' = stained
<1>1. PICK cells \in [1 .. DISPLAY_WIDTH -> Colours],
           pens \in [0 .. DISPLAY_WIDTH -> Colours \cup {0}] :
        /\ \A x \in 1 .. DISPLAY_WIDTH :
             pens[x] = IF Recolours(cells, x, cached[s]) THEN cells[x] ELSE pens[x - 1]
        /\ \/ UNCHANGED <<pen, stained>>
           \/ Paints(p, scanline[s], pens, cells, DISPLAY_WIDTH, pens[DISPLAY_WIDTH])
           \/ \E n \in 0 .. DISPLAY_WIDTH - 1 :
                \E after \in {pens[n], pens[n + 1]} :
                  Paints(p, scanline[s], pens, cells, n, after)
  BY DEF RowColours
<1>2. \A x \in 1 .. DISPLAY_WIDTH : pens[x] = cells[x]
  <2>1. \A x \in 1 .. DISPLAY_WIDTH :
          \/ pens[x] = cells[x]
          \/ x # 1 /\ cells[x] = cells[x - 1] /\ pens[x] = pens[x - 1]
    BY <1>1 DEF Recolours, Before
  <2> QED
    BY <2>1, CellsInTheirColour
<1>3. ASSUME NEW n \in 0 .. DISPLAY_WIDTH, NEW after, Paints(p, scanline[s], pens, cells, n, after)
      PROVE  stained' = stained
  <2>1. ~\E x \in 1 .. n : pens[x] # cells[x]
    BY <1>2, ClientsAssumption
  <2>2. stained' = [stained EXCEPT ![p] = stained[p]]
    BY <1>3, <2>1 DEF Paints
  <2> QED
    BY <2>2 DEF ColourTypes
<1>4. DISPLAY_WIDTH \in 0 .. DISPLAY_WIDTH /\ 0 .. DISPLAY_WIDTH - 1 \subseteq 0 .. DISPLAY_WIDTH
  BY ClientsAssumption
<1> QED
  BY <1>1, <1>3, <1>4

LEMMA ColoursStep ==
  ASSUME TypeInv, TrueColours, [Next]_vars
  PROVE  TrueColours'
<1> USE DEF drawVars, colourVars
<1>1. CASE SendRow
  <2>1. PICK res \in {"all", "short", "epipe", "error"} : RenderRow(turn, res)
    BY <1>1 DEF SendRow
  <2>2. turn \in Slots /\ connected[turn] /\ RowColours(turn, PeerOf(turn), res)
    BY <2>1, <1>1 DEF SendRow, RenderRow, Drawing
  <2>3. PeerOf(turn) \in Peers
    BY <2>2, ClientHasPeer DEF TypeInv
  <2> QED
    BY <2>2, <2>3, RowDoesNotStain DEF TrueColours, TypeInv
<1>2. ASSUME Accept \/ RecvFails \/ Recv \/ Render \/ SendResized \/ Shutdown \/ Outside
      PROVE  stained' = stained
  BY <1>2 DEF Accept, AcceptClient, RecvFails, RecvError, Recv, RecvMessages, Render,
    RedrawAll, SendResized, RenderResized, Shutdown, CloseAll, Outside
<1>3. CASE Quiet
  BY <1>3, QuietSteps DEF worldVars, TrueColours
<1> QED
  BY <1>1, <1>2, <1>3, Kinds DEF TrueColours

-----------------------------------------------------------------------------
(* client_render does not spin *)

LEMMA LoopTurnSendsRow ==
  ASSUME TypeInv, [Next]_vars, phase = "send", turn \in Slots, turn' = turn,
         ~UNCHANGED drawVars
  PROVE  resized[turn] \/ scanline'[turn] = scanline[turn] + 1
<1>1. turn \in Nat
  BY ClientsAssumption DEF Slots
<1>2. CASE SendResized
  BY <1>2 DEF SendResized, RenderResized
<1>3. CASE SendRow
  <2>1. PICK res \in {"all", "short", "epipe", "error"} :
          RenderRow(turn, res) /\ (GivesUp(res) => turn' = turn + 1)
    BY <1>3 DEF SendRow, NextTurn
  <2>2. res = "all"
    BY <1>1, <2>1 DEF GivesUp
  <2>3. scanline' = [scanline EXCEPT ![turn] = @ + 1]
    BY <2>1, <2>2 DEF RenderRow, RowSent
  <2> QED
    BY <2>3 DEF TypeInv, DrawTypes
<1>4. ~(Accept \/ RecvFails \/ Recv \/ Render \/ Shutdown)
  BY DEF Accept, RecvFails, Recv, Render, Shutdown
<1>5. ~(Outside \/ Quiet)
  BY QuietSteps DEF Outside, worldVars
<1> QED
  BY <1>2, <1>3, <1>4, <1>5, Kinds

-----------------------------------------------------------------------------
(* The theorems.  Each invariant is inductive once the types, the owners of
   descriptors and the invariants before it are known. *)

(* It holds of a server that starts. *)
LEMMA DrawingInit == Init => BufferForNobodyElse /\ RowsAboveScanline /\ TrueColours
  BY DEF Init, SocketsInit, ClientsInit, BufferForNobodyElse, RowsAboveScanline, TrueColours

(***************************************************************************)
(* However many clients share server.buffer, what is in it was written for *)
(* the client whose turn it is, who is connected and sends it next:        *)
(* nobody's screen-clear reaches anybody else (client.c client_render).    *)
(***************************************************************************)
THEOREM BufferOwned == Spec => []BufferForNobodyElse
<1>1. Init => BufferForNobodyElse
  BY DrawingInit
<1>2. TypeInv /\ BufferForNobodyElse /\ [Next]_vars => BufferForNobodyElse'
  BY BufferStep
<1> QED
  BY <1>1, <1>2, TypeInvHolds, PTL DEF Spec

(***************************************************************************)
(* Through complete, short and failed sends, new frames, resizes and slots *)
(* that change hands, a terminal shows the current Display in all rows     *)
(* above the scanline (client.c client_render, client_set_dirty).          *)
(***************************************************************************)
THEOREM RowsTrue == Spec => []RowsAboveScanline
<1>1. Init => RowsAboveScanline
  BY DrawingInit
<1>2. TypeInv /\ BufferForNobodyElse /\ RowsAboveScanline /\ [Next]_vars => RowsAboveScanline'
  BY RowsStep
<1> QED
  BY <1>1, <1>2, TypeInvHolds, BufferOwned, PTL DEF Spec

(***************************************************************************)
(* The colours a client is believed to have (terminal.fg, bg) may be wrong *)
(* after a short send, and no glyph is ever shown in a wrong one: for any  *)
(* width of the screen and any set of colours (client.c                    *)
(* client_render_row).                                                     *)
(***************************************************************************)
THEOREM ColoursTrue == Spec => []TrueColours
<1>1. Init => TrueColours
  BY DrawingInit
<1>2. TypeInv /\ TrueColours /\ [Next]_vars => TrueColours'
  BY ColoursStep
<1> QED
  BY <1>1, <1>2, TypeInvHolds, PTL DEF Spec

(***************************************************************************)
(* A turn of client_render's loop that is not the last either clears a     *)
(* resized terminal or has sent a row: no client holds the others up for   *)
(* longer than its rows last (client.c client_render).                     *)
(***************************************************************************)
THEOREM RenderNeverSpins == Spec => NoBusySending
<1>1. TypeInv /\ [Next]_vars
        => [phase = "send" /\ turn \in Slots /\ turn' = turn
             => resized[turn] \/ scanline'[turn] = scanline[turn] + 1]_drawVars
  BY LoopTurnSendsRow
<1> QED
  BY <1>1, TypeInvHolds, PTL DEF Spec, NoBusySending
=============================================================================
