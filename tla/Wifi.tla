-------------------------------- MODULE Wifi --------------------------------
(***************************************************************************)
(* The ESP32's way onto the network: wifi_setup starts the station and     *)
(* waits for one of two event bits; a handler, run by the event loop's own *)
(* task, connects, retries and sets them; then app_main starts the game.   *)
(* The driver below esp_wifi_connect is taken as the handler relies on it: *)
(* every call leads to an event, and events are handled in order.          *)
(***************************************************************************)
EXTENDS Integers, Sequences, FiniteSets

CONSTANTS
  ESP_MAXIMUM_RETRY,   \* 10
  MaxEvents            \* bound on the events that wait for the handler

ASSUME WifiAssumption == ESP_MAXIMUM_RETRY \in Nat /\ MaxEvents \in Nat \ {0}

VARIABLES
  driver,     \* "off", "idle", "connecting", "associated" (no address yet), "online"
  events,     \* events that have happened and were not handled yet
  retries,    \* connects since the last address
  bits,       \* event_group_wifi: subset of {"CONNECTED", "FAIL"}
  main,       \* app_main: "setup", "waiting", "up", "game", "returned"
  outcome,    \* how wifi_setup ended: "none" before, "connected", "failed"
  losses,     \* disconnections handled since the last address was
  hadIp       \* the station has had an address

driverVars  == <<driver, hadIp>>
handlerVars == <<retries, bits, losses>>
mainVars    == <<main, outcome>>
vars == <<driverVars, events, handlerVars, mainVars>>

Bits == {"CONNECTED", "FAIL"}
Events == {"STA_START", "STA_CONNECTED", "STA_DISCONNECTED", "GOT_IP"}

(* Attempts never exceed what is allowed, and only these events are seen. *)
TypeOK ==
  /\ driver \in {"off", "idle", "connecting", "associated", "online"}
  /\ events \in Seq(Events) /\ Len(events) <= MaxEvents + 1
  /\ retries \in 0 .. ESP_MAXIMUM_RETRY
  /\ bits \subseteq Bits /\ outcome \in {"none", "connected", "failed"}
  /\ main \in {"setup", "waiting", "up", "game", "returned"}
  /\ losses \in 0 .. ESP_MAXIMUM_RETRY + 1
  /\ hadIp \in BOOLEAN

Init ==
  /\ driver = "off" /\ events = <<>> /\ hadIp = FALSE
  /\ retries = 0 /\ bits = {} /\ losses = 0
  /\ main = "setup" /\ outcome = "none"

-----------------------------------------------------------------------------
(* app_main and wifi_setup *)

(* The handlers are registered when esp_wifi_start makes the first event. *)
StartStation ==
  /\ main = "setup" /\ main' = "waiting"
  /\ driver' = "idle" /\ events' = Append(events, "STA_START")
  /\ UNCHANGED <<hadIp, handlerVars, outcome>>

(* xEventGroupWaitBits, without a limit, and the tests of what it returns:
   FAIL counts alone.  The bits are not cleared. *)
Result_FailFirst == IF "FAIL" \in bits THEN "failed" ELSE "connected"   \* mutant
Result == IF "CONNECTED" \in bits THEN "connected" ELSE "failed"

WaitBits ==
  /\ main = "waiting" /\ bits # {}
  /\ main' = "up" /\ outcome' = Result
  /\ UNCHANGED <<driverVars, events, handlerVars>>

(* app_main goes on whatever came out, if there is memory for the game. *)
StartGame ==
  /\ main = "up" /\ main' \in {"game", "returned"}
  /\ UNCHANGED <<driverVars, events, handlerVars, outcome>>

-----------------------------------------------------------------------------
(* event_handler, called with the first event *)

Handle(e) == /\ events # <<>> /\ Head(events) = e
             /\ events' = Tail(events)
             /\ UNCHANGED <<hadIp, mainVars>>

(* esp_wifi_connect *)
Connect == driver' = "connecting"

OnStart_Silent == Handle("STA_START") /\ UNCHANGED <<driver, handlerVars>>   \* mutant
OnStart ==
  /\ Handle("STA_START")
  /\ Connect
  /\ UNCHANGED handlerVars

(* Counted as far as it takes to give up. *)
OneMore == IF losses > ESP_MAXIMUM_RETRY THEN losses ELSE losses + 1

MayRetry_Once == retries <= ESP_MAXIMUM_RETRY   \* mutant: one too many
MayRetry == retries < ESP_MAXIMUM_RETRY

Retry ==
  /\ Handle("STA_DISCONNECTED") /\ MayRetry
  /\ Connect
  /\ retries' = retries + 1 /\ losses' = OneMore
  /\ UNCHANGED bits

GiveUp ==
  /\ Handle("STA_DISCONNECTED") /\ ~MayRetry
  /\ bits' = bits \cup {"FAIL"}
  /\ losses' = OneMore
  /\ UNCHANGED <<driver, retries>>

RetriesAfterIp_Kept == retries   \* mutant: not reset
RetriesAfterIp == 0

OnGotIp ==
  /\ Handle("GOT_IP")
  /\ retries' = RetriesAfterIp /\ losses' = 0
  /\ bits' = bits \cup {"CONNECTED"}
  /\ UNCHANGED driver

(* The handler is registered for all events of the station. *)
RetriesAfterOther_Reset == 0   \* mutant: an association counts as success
RetriesAfterOther == retries

OnOther ==
  /\ Handle("STA_CONNECTED")
  /\ retries' = RetriesAfterOther
  /\ UNCHANGED <<driver, bits, losses>>

EventHandler == OnStart \/ Retry \/ GiveUp \/ OnGotIp \/ OnOther

-----------------------------------------------------------------------------
(* The driver and the access point *)

Happens(e) == /\ Len(events) < MaxEvents
              /\ events' = Append(events, e)
              /\ UNCHANGED <<handlerVars, mainVars>>

Associate ==
  /\ driver = "connecting" /\ driver' = "associated"
  /\ Happens("STA_CONNECTED")
  /\ UNCHANGED hadIp

Refused ==
  /\ driver = "connecting" /\ driver' = "idle"
  /\ Happens("STA_DISCONNECTED")
  /\ UNCHANGED hadIp

(* A first address, or another one. *)
GetAddress ==
  /\ driver \in {"associated", "online"} /\ driver' = "online"
  /\ Happens("GOT_IP")
  /\ hadIp' = TRUE

LoseLink ==
  /\ driver \in {"associated", "online"} /\ driver' = "idle"
  /\ Happens("STA_DISCONNECTED")
  /\ UNCHANGED hadIp

Driver == Associate \/ Refused \/ GetAddress \/ LoseLink

AppMain == StartStation \/ WaitBits \/ StartGame

Next == AppMain \/ EventHandler \/ Driver

Spec == Init /\ [][Next]_vars

(* Both tasks are scheduled, and the driver answers a connect; that DHCP
   answers, or that a link is ever lost, is not assumed. *)
FairSpec == Spec /\ WF_vars(AppMain) /\ WF_vars(EventHandler) /\ WF_vars(Associate \/ Refused)

-----------------------------------------------------------------------------
(***************************************************************************)
(* A station that rests has given up, or exactly one event waits on which  *)
(* it will connect or, after the last retry, give up, whatever order       *)
(* losses, addresses and the handler come in; and none waits while it does *)
(* not rest: so that esp_wifi_connect, whose result is ignored, is never   *)
(* called while an attempt is under way, nor after it has given up.        *)
(***************************************************************************)
Starters == {i \in DOMAIN events : events[i] \in {"STA_START", "STA_DISCONNECTED"}}

TriesUntilGivenUp ==
  main # "setup" =>
    Cardinality(Starters) + (IF "FAIL" \in bits THEN 1 ELSE 0)
      = (IF driver = "idle" THEN 1 ELSE 0)

(* It gives up only after all retries have failed in a row: an address, once
   handled, gives it all of them back. *)
GivesUpLate == "FAIL" \in bits => losses = ESP_MAXIMUM_RETRY + 1

(* wifi_setup reports a failure only of a station that never had an address,
   though bits may be set and the link come and go before it wakes up. *)
OutcomeTrue == outcome # "none" => (outcome = "connected" <=> hadIp)

(* wifi_setup returns, unless the station stays associated without ever being
   given an address: links that come and go use up the retries. *)
SetupReturns == <>(main \notin {"setup", "waiting"}) \/ <>[](driver = "associated")
=============================================================================
