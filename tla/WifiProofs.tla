------------------------------ MODULE WifiProofs ------------------------------
(***************************************************************************)
(* Proofs about the ESP32's way onto the network, for every number of      *)
(* retries and of events that may wait: what the counter and the two bits  *)
(* of the event group mean, whatever order losses, addresses, the handler  *)
(* and app_main come in.                                                   *)
(***************************************************************************)
EXTENDS Wifi, SequenceTheorems, FiniteSetTheorems, TLAPS

Starting == {"STA_START", "STA_DISCONNECTED"}

(* Nothing happens before the station is started. *)
NotStarted ==
  /\ main = "setup" <=> driver = "off"
  /\ driver = "off" => events = <<>> /\ bits = {} /\ outcome = "none" /\ ~hadIp

(***************************************************************************)
(* The strengthening of TriesUntilGivenUp: the event that makes a resting  *)
(* station connect is the last that waits, as nothing happens to a station *)
(* that rests; so nothing waits any more once it has given up.             *)
(***************************************************************************)
OneStarter ==
  /\ \A i \in DOMAIN events : events[i] \in Starting => i = Len(events) /\ driver = "idle"
  /\ driver = "idle" /\ "FAIL" \notin bits => /\ events # <<>>
                                              /\ events[Len(events)] \in Starting
  /\ "FAIL" \in bits => driver = "idle" /\ events = <<>>

(* The retries are the losses since the last address, until it has given up. *)
RetriesCountLosses ==
  IF "FAIL" \in bits THEN losses = ESP_MAXIMUM_RETRY + 1 ELSE losses = retries

(* CONNECTED says that there has been an address, as soon as it is handled. *)
BitsTrue ==
  /\ "CONNECTED" \in bits => hadIp
  /\ \A i \in DOMAIN events : events[i] = "GOT_IP" => hadIp
  /\ hadIp => "CONNECTED" \in bits \/ \E i \in DOMAIN events : events[i] = "GOT_IP"
  /\ outcome = "connected" => "CONNECTED" \in bits
  /\ outcome = "failed" => "FAIL" \in bits /\ ~hadIp

IInv == TypeOK /\ NotStarted /\ OneStarter /\ RetriesCountLosses /\ BitsTrue

-----------------------------------------------------------------------------
(* What handling the first event and adding a last one do to the queue *)

LEMMA Handling ==
  ASSUME IInv, NEW e, Handle(e)
  PROVE  /\ events # <<>> /\ events[1] = e /\ e \in Events
         /\ events' \in Seq(Events) /\ Len(events') = Len(events) - 1
         /\ \A i \in DOMAIN events' : events'[i] = events[i + 1]
         /\ e \in Starting => events' = <<>> /\ Len(events) = 1 /\ driver = "idle"
         /\ "FAIL" \notin bits /\ driver # "off"
<1>1. /\ events \in Seq(Events) /\ events # <<>> /\ Head(events) = e
      /\ events' = Tail(events)
  BY DEF Handle, IInv, TypeOK
<1>2. /\ e = events[1] /\ Len(events) \in Nat \ {0} /\ DOMAIN events = 1 .. Len(events)
      /\ Tail(events) \in Seq(Events) /\ Len(Tail(events)) = Len(events) - 1
      /\ \A i \in 1 .. Len(events) - 1 : Tail(events)[i] = events[i + 1]
  BY <1>1
<1>3. e \in Events
  BY <1>1
<1>4. ASSUME e \in Starting
      PROVE  events' = <<>> /\ Len(events) = 1 /\ driver = "idle"
  <2>1. Len(events) = 1 /\ driver = "idle"
    BY <1>2, <1>4 DEF IInv, OneStarter
  <2> QED
    BY <1>1, <1>2, <2>1
<1> QED
  BY <1>1, <1>2, <1>3, <1>4 DEF IInv, OneStarter, NotStarted

LEMMA Happening ==
  ASSUME IInv, NEW e \in Events, Len(events) < MaxEvents, events' = Append(events, e)
  PROVE  /\ events' \in Seq(Events) /\ Len(events') = Len(events) + 1
         /\ Len(events') <= MaxEvents + 1 /\ events' # <<>>
         /\ DOMAIN events' = 1 .. Len(events) + 1 /\ DOMAIN events = 1 .. Len(events)
         /\ Len(events) \in Nat
         /\ \A i \in DOMAIN events : events'[i] = events[i]
         /\ events'[Len(events')] = e
  BY WifiAssumption DEF IInv, TypeOK

-----------------------------------------------------------------------------
(* The invariant *)

(* The steps of app_main. *)
LEMMA AppMainStep ==
  ASSUME IInv, AppMain
  PROVE  IInv'
<1> USE DEF driverVars, handlerVars, mainVars
<1>1. CASE StartStation
  <2>1. /\ events = <<>> /\ events' = <<"STA_START">> /\ driver' = "idle" /\ main' = "waiting"
        /\ UNCHANGED <<hadIp, retries, bits, losses, outcome>> /\ bits = {}
        /\ outcome = "none" /\ ~hadIp
    BY <1>1 DEF StartStation, IInv, NotStarted
  <2>2. /\ events' \in Seq(Events) /\ Len(events') = 1 /\ events'[1] = "STA_START"
        /\ DOMAIN events' = {1}
    BY <2>1 DEF Events
  <2>3. TypeOK'
    BY <2>1, <2>2, WifiAssumption DEF IInv, TypeOK
  <2>4. OneStarter'
    BY <2>1, <2>2 DEF OneStarter, Starting
  <2> QED
    BY <2>1, <2>3, <2>4 DEF IInv, NotStarted, RetriesCountLosses, BitsTrue
<1>2. CASE WaitBits
  <2>1. UNCHANGED <<driver, events, hadIp, retries, bits, losses>>
    BY <1>2 DEF WaitBits
  <2>2. /\ main = "waiting" /\ bits # {} /\ main' = "up"
        /\ outcome' = IF "CONNECTED" \in bits THEN "connected" ELSE "failed"
    BY <1>2 DEF WaitBits, Result
  <2>3. TypeOK' /\ NotStarted' /\ OneStarter' /\ RetriesCountLosses'
    BY <2>1, <2>2 DEF IInv, TypeOK, NotStarted, OneStarter, RetriesCountLosses
  <2>4. ASSUME "CONNECTED" \notin bits
        PROVE  "FAIL" \in bits /\ ~hadIp
    <3>1. "FAIL" \in bits
      BY <2>2, <2>4 DEF IInv, TypeOK, Bits
    <3>2. DOMAIN events = {}
      BY <3>1 DEF IInv, OneStarter
    <3> QED
      BY <2>4, <3>1, <3>2 DEF IInv, BitsTrue
  <2> QED
    BY <2>1, <2>2, <2>3, <2>4 DEF IInv, BitsTrue
<1>3. CASE StartGame
  BY <1>3 DEF StartGame, IInv, TypeOK, NotStarted, OneStarter, RetriesCountLosses, BitsTrue
<1> QED
  BY <1>1, <1>2, <1>3 DEF AppMain

(* The steps of event_handler. *)
LEMMA EventHandlerStep ==
  ASSUME IInv, EventHandler
  PROVE  IInv'
<1> USE WifiAssumption DEF driverVars, handlerVars, mainVars
<1>1. CASE OnStart \/ Retry
  <2>1. PICK e \in Starting : Handle(e)
    BY <1>1 DEF OnStart, Retry, Starting
  <2>2. /\ events' = <<>> /\ "FAIL" \notin bits /\ driver # "off"
        /\ driver' = "connecting" /\ UNCHANGED <<bits, main, outcome, hadIp>>
    BY <1>1, <2>1, Handling DEF OnStart, Retry, Connect, Handle
  <2>3. losses = retries /\ losses \in Nat /\ retries \in Nat
    BY <2>2 DEF IInv, TypeOK, RetriesCountLosses
  <2>4. /\ retries' \in 0 .. ESP_MAXIMUM_RETRY /\ losses' = retries'
    BY <1>1, <2>3 DEF OnStart, Retry, MayRetry, OneMore, IInv, TypeOK
  <2>5. \A i \in DOMAIN events : events[i] # "GOT_IP"
    <3>1. events[1] \in Starting /\ Len(events) = 1
      BY <2>1, Handling
    <3> QED
      BY <3>1 DEF Starting, IInv, TypeOK
  <2>6. TypeOK'
    BY <2>2, <2>4 DEF IInv, TypeOK
  <2>7. BitsTrue'
    BY <2>2, <2>5 DEF IInv, BitsTrue, TypeOK
  <2> QED
    BY <2>2, <2>4, <2>6, <2>7 DEF IInv, NotStarted, OneStarter, RetriesCountLosses
<1>2. CASE GiveUp
  <2>1. Handle("STA_DISCONNECTED") /\ "STA_DISCONNECTED" \in Starting
    BY <1>2 DEF GiveUp, Starting
  <2>2. /\ events' = <<>> /\ "FAIL" \notin bits /\ driver # "off"
        /\ driver' = driver /\ bits' = bits \cup {"FAIL"}
        /\ UNCHANGED <<main, outcome, hadIp, retries>>
    BY <1>2, <2>1, Handling DEF GiveUp, Handle
  <2>3. retries = ESP_MAXIMUM_RETRY /\ losses = retries
    BY <1>2, <2>2 DEF GiveUp, MayRetry, IInv, TypeOK, RetriesCountLosses
  <2>4. losses' = ESP_MAXIMUM_RETRY + 1
    BY <1>2, <2>3 DEF GiveUp, OneMore
  <2>5. driver = "idle" /\ \A i \in DOMAIN events : events[i] # "GOT_IP"
    <3>1. events[1] = "STA_DISCONNECTED" /\ Len(events) = 1 /\ driver = "idle"
      BY <2>1, Handling
    <3> QED
      BY <3>1 DEF IInv, TypeOK
  <2>6. TypeOK'
    BY <2>2, <2>4 DEF IInv, TypeOK, Bits
  <2>7. BitsTrue'
    BY <2>2, <2>5 DEF IInv, BitsTrue, TypeOK
  <2> QED
    BY <2>2, <2>4, <2>5, <2>6, <2>7 DEF IInv, NotStarted, OneStarter, RetriesCountLosses
<1>3. CASE OnGotIp \/ OnOther
  <2>1. PICK e \in {"GOT_IP", "STA_CONNECTED"} :
          /\ Handle(e)
          /\ bits' = IF e = "GOT_IP" THEN bits \cup {"CONNECTED"} ELSE bits
    BY <1>3 DEF OnGotIp, OnOther
  <2>2. /\ driver' = driver /\ UNCHANGED <<main, outcome, hadIp>>
        /\ \/ retries' = 0 /\ losses' = 0
           \/ UNCHANGED <<retries, losses>>
    BY <1>3 DEF OnGotIp, OnOther, Handle, RetriesAfterIp, RetriesAfterOther
  <2>3. /\ events # <<>> /\ events[1] = e /\ "FAIL" \notin bits /\ driver # "off"
        /\ events' \in Seq(Events) /\ Len(events') = Len(events) - 1
        /\ \A i \in DOMAIN events' : events'[i] = events[i + 1]
    BY <2>1, Handling
  <2>4. /\ events \in Seq(Events) /\ Len(events) \in Nat \ {0}
        /\ DOMAIN events = 1 .. Len(events) /\ DOMAIN events' = 1 .. Len(events) - 1
    BY <2>3 DEF IInv, TypeOK
  <2>5. "FAIL" \notin bits'
    BY <2>1, <2>3
  <2>6. TypeOK'
    BY <2>1, <2>2, <2>3, <2>4 DEF IInv, TypeOK, Bits
  <2>7. OneStarter'
    <3>1. \A i \in DOMAIN events' : events'[i] \in Starting => i = Len(events') /\ driver' = "idle"
      BY <2>2, <2>3, <2>4 DEF IInv, OneStarter
    <3>2. ASSUME driver' = "idle"
          PROVE  events' # <<>> /\ events'[Len(events')] \in Starting
      <4>1. events[Len(events)] \in Starting
        BY <2>2, <2>3, <3>2 DEF IInv, OneStarter
      <4>2. Len(events) # 1
        BY <2>3, <4>1 DEF Starting
      <4> QED
        BY <2>3, <2>4, <4>1, <4>2
    <3> QED
      BY <2>5, <3>1, <3>2 DEF OneStarter
  <2>8. BitsTrue'
    <3>1. 1 \in DOMAIN events /\ \A i \in DOMAIN events' : i + 1 \in DOMAIN events
      BY <2>4
    <3>2. e = "GOT_IP" => hadIp
      BY <2>3, <3>1 DEF IInv, BitsTrue
    <3>3. \A i \in DOMAIN events' : events'[i] = "GOT_IP" => hadIp
      BY <2>3, <3>1 DEF IInv, BitsTrue
    <3>4. ASSUME hadIp, "CONNECTED" \notin bits'
          PROVE  \E i \in DOMAIN events' : events'[i] = "GOT_IP"
      <4>1. e # "GOT_IP" /\ "CONNECTED" \notin bits
        BY <2>1, <3>4
      <4>2. PICK i \in DOMAIN events : events[i] = "GOT_IP"
        BY <3>4, <4>1 DEF IInv, BitsTrue
      <4>3. i - 1 \in DOMAIN events' /\ events'[i - 1] = events[i]
        BY <2>3, <2>4, <4>1, <4>2
      <4> QED
        BY <4>2, <4>3
    <3> QED
      BY <2>1, <2>2, <3>2, <3>3, <3>4 DEF IInv, BitsTrue
  <2> QED
    BY <2>1, <2>2, <2>3, <2>5, <2>6, <2>7, <2>8 DEF IInv, NotStarted, RetriesCountLosses
<1> QED
  BY <1>1, <1>2, <1>3 DEF EventHandler

(* The steps of the driver. *)
LEMMA DriverStep ==
  ASSUME IInv, Driver
  PROVE  IInv'
<1> USE WifiAssumption DEF driverVars, handlerVars, mainVars
<1> DEFINE Effect(e) ==
      /\ Happens(e)
      /\ driver \in {"connecting", "associated", "online"}
      /\ driver' \in {"idle", "associated", "online"}
      /\ driver' = "idle" <=> e \in Starting
      /\ IF e = "GOT_IP" THEN hadIp' = TRUE ELSE hadIp' = hadIp
<1>1. \E e \in Events : Effect(e)
  <2>1. CASE Associate
    <3>1. Effect("STA_CONNECTED")
      BY <2>1 DEF Associate, Starting
    <3> QED
      BY <3>1 DEF Events
  <2>2. CASE Refused \/ LoseLink
    <3>1. Effect("STA_DISCONNECTED")
      BY <2>2 DEF Refused, LoseLink, Starting
    <3> QED
      BY <3>1 DEF Events
  <2>3. CASE GetAddress
    <3>1. Effect("GOT_IP")
      BY <2>3 DEF GetAddress, Starting
    <3> QED
      BY <3>1 DEF Events
  <2> QED
    BY <2>1, <2>2, <2>3 DEF Driver
<1>2. PICK e \in Events : Effect(e)
  BY <1>1
<1>3. /\ UNCHANGED <<retries, bits, losses, main, outcome>>
      /\ "FAIL" \notin bits /\ driver \notin {"off", "idle"} /\ main # "setup"
  BY <1>2 DEF Happens, IInv, OneStarter, NotStarted
<1>4. /\ events' \in Seq(Events) /\ Len(events') = Len(events) + 1
      /\ Len(events') <= MaxEvents + 1 /\ events' # <<>>
      /\ DOMAIN events' = 1 .. Len(events) + 1 /\ DOMAIN events = 1 .. Len(events)
      /\ Len(events) \in Nat
      /\ \A i \in DOMAIN events : events'[i] = events[i]
      /\ events'[Len(events')] = e
  BY <1>2, Happening DEF Happens
<1>5. TypeOK'
  BY <1>2, <1>3, <1>4 DEF IInv, TypeOK
<1>6. NotStarted'
  BY <1>2, <1>3, <1>4 DEF IInv, NotStarted
<1>7. OneStarter'
  <2>1. \A i \in DOMAIN events : events[i] \notin Starting
    BY <1>3 DEF IInv, OneStarter
  <2>2. \A i \in DOMAIN events' : events'[i] \in Starting => i = Len(events') /\ driver' = "idle"
    BY <1>2, <1>4, <2>1
  <2> QED
    BY <1>2, <1>3, <1>4, <2>2 DEF OneStarter
<1>8. RetriesCountLosses'
  BY <1>3 DEF IInv, RetriesCountLosses
<1>9. BitsTrue'
  <2>1. hadIp' => "CONNECTED" \in bits \/ \E i \in DOMAIN events' : events'[i] = "GOT_IP"
    <3>1. CASE e = "GOT_IP"
      BY <1>4, <3>1
    <3>2. CASE e # "GOT_IP"
      <4>1. hadIp' = hadIp /\ DOMAIN events \subseteq DOMAIN events'
        BY <1>2, <1>4, <3>2
      <4> QED
        BY <1>4, <4>1 DEF IInv, BitsTrue
    <3> QED
      BY <3>1, <3>2
  <2>2. \A i \in DOMAIN events' : events'[i] = "GOT_IP" => hadIp'
    BY <1>2, <1>4 DEF IInv, BitsTrue
  <2> QED
    BY <1>2, <1>3, <2>1, <2>2 DEF IInv, BitsTrue
<1> QED
  BY <1>5, <1>6, <1>7, <1>8, <1>9 DEF IInv

LEMMA InvHolds == Spec => []IInv
<1>1. Init => IInv
  <2> SUFFICES ASSUME Init PROVE IInv
    OBVIOUS
  <2> USE WifiAssumption DEF Init
  <2>1. events \in Seq(Events) /\ Len(events) = 0 /\ DOMAIN events = {}
    OBVIOUS
  <2>2. retries \in 0 .. ESP_MAXIMUM_RETRY /\ losses \in 0 .. ESP_MAXIMUM_RETRY + 1
    OBVIOUS
  <2>3. bits \subseteq Bits /\ hadIp \in BOOLEAN
    OBVIOUS
  <2>4. TypeOK
    BY <2>1, <2>2, <2>3 DEF TypeOK
  <2> QED
    BY <2>1, <2>4 DEF IInv, NotStarted, OneStarter, RetriesCountLosses, BitsTrue
<1>2. IInv /\ UNCHANGED vars => IInv'
  BY DEF vars, driverVars, handlerVars, mainVars, IInv, TypeOK, NotStarted, OneStarter,
    RetriesCountLosses, BitsTrue
<1>3. IInv /\ [Next]_vars => IInv'
  BY <1>2, AppMainStep, EventHandlerStep, DriverStep DEF Next
<1> QED
  BY <1>1, <1>3, PTL DEF Spec

-----------------------------------------------------------------------------
(* The theorems *)

(* Every variable keeps its type: in particular no more connects are counted
   than ESP_MAXIMUM_RETRY (tcp_server.c event_handler). *)
THEOREM TypeCorrect == Spec => []TypeOK
  BY InvHolds, PTL DEF IInv

(***************************************************************************)
(* A station that rests has given up, or exactly one event waits on which  *)
(* it will connect or give up; none waits while it does not rest           *)
(* (event_handler's two calls of esp_wifi_connect).                        *)
(***************************************************************************)
THEOREM OneAttemptAtATime == Spec => []TriesUntilGivenUp
<1>1. IInv => TriesUntilGivenUp
  <2> SUFFICES ASSUME IInv, main # "setup"
               PROVE  Cardinality(Starters) + (IF "FAIL" \in bits THEN 1 ELSE 0)
                        = (IF driver = "idle" THEN 1 ELSE 0)
    BY DEF TriesUntilGivenUp
  <2>1. Starters = {i \in DOMAIN events : events[i] \in Starting}
    BY DEF Starters, Starting
  <2>2. CASE driver = "idle" /\ "FAIL" \notin bits
    <3>1. Starters = {Len(events)}
      BY <2>1, <2>2 DEF IInv, TypeOK, OneStarter
    <3>2. Cardinality(Starters) = 1
      BY <3>1, FS_Singleton
    <3> QED
      BY <2>2, <3>2
  <2>3. CASE driver # "idle" \/ "FAIL" \in bits
    <3>1. Starters = {}
      BY <2>1, <2>3 DEF IInv, OneStarter
    <3>2. Cardinality(Starters) = 0
      BY <3>1, FS_EmptySet
    <3> QED
      BY <2>3, <3>2 DEF IInv, OneStarter
  <2> QED
    BY <2>2, <2>3
<1> QED
  BY <1>1, InvHolds, PTL

(***************************************************************************)
(* FAIL is set only when ESP_MAXIMUM_RETRY retries have failed after the   *)
(* last address, and then for good (event_handler, s_retry_num).           *)
(***************************************************************************)
THEOREM GivesUpAfterAllRetries == Spec => []GivesUpLate
<1>1. IInv => GivesUpLate
  BY DEF IInv, RetriesCountLosses, GivesUpLate
<1> QED
  BY <1>1, InvHolds, PTL

(***************************************************************************)
(* wifi_setup reports failure just when there never was an address, though *)
(* both bits may be set, one long after the other, before it wakes up.     *)
(***************************************************************************)
THEOREM SetupOutcomeTrue == Spec => []OutcomeTrue
<1>1. IInv => OutcomeTrue
  BY DEF IInv, TypeOK, BitsTrue, OutcomeTrue
<1> QED
  BY <1>1, InvHolds, PTL
=============================================================================
