------------------------------- MODULE Radio -------------------------------
(***************************************************************************)
(* Wi-Fi on the probe: the commands that provision it, the credentials in   *)
(* flash, and the station loop of run, which takes what the commands asked  *)
(* for once per pass and publishes what wifi status answers.                *)
(*                                                                         *)
(* A join blocks the loop for half a minute while commands go on, so a pass *)
(* is three actions: Pass up to the association, JoinEnds, Publish.  The    *)
(* radio driver's own calls succeed; whether a network answers, and at      *)
(* which transmit power, is the environment's choice.                       *)
(***************************************************************************)
EXTENDS Integers, Sequences, Functions

CONSTANTS
  Networks,       \* the networks a host may provision, each an SSID and a password
  Ladder,         \* TX_POWER_LADDER, powers in the order they are tried
  FallbackPasses, \* AP_FALLBACK_PASSES
  HasAp,          \* the image was built with an access point
  Airs,           \* what may answer: each a set of <<network, power>>
  MaxCommands, MaxReboots, MaxAirs \* bounds of the exploration

Ssids     == {n.ssid : n \in Networks}
Passwords == {n.password : n \in Networks}
Powers    == Range(Ladder)

ASSUME NetworksAssumption ==
  /\ Networks \subseteq [ssid : STRING, password : STRING]
  /\ "" \notin Ssids

ASSUME LadderAssumption ==
  /\ Ladder \in Seq(Nat \ {0}) /\ Len(Ladder) > 0
  /\ FallbackPasses \in Nat \ {0}
  /\ HasAp \in BOOLEAN

ASSUME BoundsAssumption ==
  MaxCommands \in Nat /\ MaxReboots \in Nat /\ MaxAirs \in Nat

VARIABLES
  flash,   \* NVS: the credentials and the transmit power that last worked
  control, \* WifiControl, which commands and loop share
  command, \* the Wi-Fi command the Hub is carrying out
  loop,    \* the locals of run's loop, and where it is
  radio,   \* mode of the radio, and the network the station is on
  air,     \* which networks answer, at which powers
  spent,   \* commands, reboots and changes of the air so far
  intent,  \* history: the network the last completed command asked for
  answered,\* history: a command was completed since the probe started
  torn     \* history: a command since then was cut short between its writes

history == <<intent, answered, torn>>
vars == <<flash, control, command, loop, radio, air, spent, history>>

\* What flash may pair, interrupted commands included; no network is "".
Pairs     == [ssid : Ssids, password : Passwords \cup {""}]
NoNetwork == [ssid |-> "", password |-> ""]
MaybePair == Pairs \cup {NoNetwork}

IdleCommand == [op |-> "none", network |-> NoNetwork, stage |-> "idle"]

-----------------------------------------------------------------------------
(* WifiSet and WifiForget: flash first, then WifiControl. *)

Begin(op, n) ==
  /\ command.stage = "idle" /\ spent.commands < MaxCommands
  /\ command' = [op |-> op, network |-> n, stage |-> "ssid"]
  /\ spent' = [spent EXCEPT !.commands = @ + 1]
  /\ UNCHANGED <<flash, control, loop, radio, air, history>>

\* The command ends in an error, which changes nothing more.
FlashFails ==
  /\ command.stage = "ssid" \/ (command.stage = "password" /\ command.op = "set")
  /\ command' = IdleCommand
  /\ torn' = (torn \/ command.stage = "password")
  /\ UNCHANGED <<flash, control, loop, radio, air, spent, intent, answered>>

\* store_wifi_credentials, forget_wifi_credentials: the SSID, "" to forget it.
StoreSsid ==
  /\ command.stage = "ssid"
  /\ flash' = [flash EXCEPT !.ssid = command.network.ssid]
  /\ command' = [command EXCEPT !.stage = "password"]
  /\ UNCHANGED <<control, loop, radio, air, spent, history>>

\* Then the password; an error removing one is ignored.
StorePassword ==
  /\ command.stage = "password"
  /\ \/ flash' = [flash EXCEPT !.password = command.network.password]
     \/ command.op = "forget" /\ UNCHANGED flash
  /\ command' = [command EXCEPT !.stage = "record"]
  /\ UNCHANGED <<control, loop, radio, air, spent, history>>

\* A forget that leaves an earlier request to join pending.
AskedBesides ==
  [pending |-> IF command.op = "forget" THEN control.pending ELSE command.network,
   forget |-> command.op = "forget", ssid |-> command.network.ssid,
   connected |-> control.connected /\ command.op = "set"]

\* What the loop is to do, and what wifi status answers until it publishes.
Asked == [pending |-> command.network, forget |-> command.op = "forget",
          ssid |-> command.network.ssid,
          connected |-> control.connected /\ command.op = "set"]

Record ==
  /\ command.stage = "record"
  /\ control' = Asked
  /\ intent' = command.network /\ answered' = TRUE /\ torn' = FALSE
  /\ command' = IdleCommand
  /\ UNCHANGED <<flash, loop, radio, air, spent>>

-----------------------------------------------------------------------------
(* The station loop. *)

\* load_wifi_credentials
Loaded == IF flash.ssid = "" THEN NoNetwork
          ELSE [ssid |-> flash.ssid, password |-> flash.password]

\* apply_configuration without credentials: the access point, if there is one.
Unprovisioned == [mode |-> IF HasAp THEN "ap" ELSE "station", on |-> NoNetwork]
Station(n)    == [mode |-> "station", on |-> n]

\* start_wifi; commands over USB are already being answered.
StartRadio ==
  /\ loop.at = "boot"
  /\ radio' = IF Loaded = NoNetwork THEN Unprovisioned ELSE Station(NoNetwork)
  /\ loop' = [loop EXCEPT !.at = "load"]
  /\ UNCHANGED <<flash, control, command, air, spent, history>>

LoadCredentials ==
  /\ loop.at = "load"
  /\ loop' = [loop EXCEPT !.at = "sleep", !.credentials = Loaded]
  /\ UNCHANGED <<flash, control, command, radio, air, spent, history>>

Online == radio.on # NoNetwork

\* tx_power_for: the power that worked last time goes first.
Power == IF loop.attempt = 0 /\ flash.power # 0 THEN flash.power
         ELSE Ladder[(loop.attempt % Len(Ladder)) + 1]

\* What the host asked for since the last pass, taken out of WifiControl.
Take == control' = [control EXCEPT !.pending = NoNetwork, !.forget = FALSE]

\* The credentials and the radio once a request to forget has been served.
Kept    == IF control.forget THEN NoNetwork ELSE loop.credentials
Cleared == IF control.forget THEN Unprovisioned ELSE radio

\* join_wifi as far as the association: disconnected, and a station again.
Joining(n, why) == [loop EXCEPT !.at = "joining", !.joins = n, !.why = why,
                                !.credentials = Kept]

\* A request that leaves the access point's window running.
PassRequestInWindow ==
  /\ loop.at = "sleep" /\ control.pending # NoNetwork
  /\ Take
  /\ loop' = [Joining(control.pending, "request") EXCEPT !.attempt = 0]
  /\ radio' = Station(NoNetwork)
  /\ UNCHANGED <<flash, command, air, spent, intent, answered, torn>>

\* The host asked for a network: the ladder starts afresh.
PassRequest ==
  /\ loop.at = "sleep" /\ control.pending # NoNetwork
  /\ Take
  /\ loop' = [Joining(control.pending, "request") EXCEPT !.attempt = 0, !.fallback = 0]
  /\ radio' = Station(NoNetwork)
  /\ UNCHANGED <<flash, command, air, spent, intent, answered, torn>>

\* A count down that does not look whether it has ended.
PassWindowUnended ==
  /\ loop.at = "sleep" /\ control.pending = NoNetwork
  /\ Take
  /\ loop' = [loop EXCEPT !.at = "publish", !.fallback = @ - 1, !.credentials = Kept]
  /\ radio' = Cleared
  /\ UNCHANGED <<flash, command, air, spent, history>>

\* The access point is held open for another pass.
PassWindow ==
  /\ loop.at = "sleep" /\ control.pending = NoNetwork /\ loop.fallback > 0
  /\ Take
  /\ loop' = [loop EXCEPT !.at = "publish", !.fallback = @ - 1, !.credentials = Kept]
  /\ radio' = Cleared
  /\ UNCHANGED <<flash, command, air, spent, history>>

\* Offline with a network to go back to.
PassRetry ==
  /\ loop.at = "sleep" /\ control.pending = NoNetwork /\ loop.fallback = 0
  /\ Cleared.on = NoNetwork /\ Kept # NoNetwork
  /\ Take
  /\ loop' = Joining(Kept, "retry")
  /\ radio' = Station(NoNetwork)
  /\ UNCHANGED <<flash, command, air, spent, history>>

\* Nothing to do.
PassIdle ==
  /\ loop.at = "sleep" /\ control.pending = NoNetwork /\ loop.fallback = 0
  /\ Cleared.on # NoNetwork \/ Kept = NoNetwork
  /\ Take
  /\ loop' = [loop EXCEPT !.at = "publish", !.credentials = Kept]
  /\ radio' = Cleared
  /\ UNCHANGED <<flash, command, air, spent, history>>

\* The association worked: its power is remembered, if flash takes it.
JoinWorks ==
  /\ loop.at = "joining" /\ <<loop.joins, Power>> \in air
  /\ radio' = Station(loop.joins)
  /\ flash' \in {flash, [flash EXCEPT !.power = Power]}
  /\ loop' = [loop EXCEPT !.at = "publish", !.credentials = loop.joins, !.attempt = 0]
  /\ UNCHANGED <<control, command, air, spent, intent, answered, torn>>

\* A counter that starts over once a whole ladder has failed.
NextAttemptRewound == (loop.attempt + 1) % Len(Ladder)

\* One attempt more.  Only zero and the rung matter, so a second ladder stands
\* for all later ones.
NextAttempt == IF loop.attempt + 1 = 2 * Len(Ladder) THEN Len(Ladder)
               ELSE loop.attempt + 1

\* A ladder after which the access point stays down.
LadderNeverSpent == FALSE
\* Every rung in vain: the access point is given back for a while.
LadderSpent == /\ loop.why = "retry" /\ HasAp
               /\ NextAttempt % Len(Ladder) = 0

JoinFails ==
  /\ loop.at = "joining" /\ <<loop.joins, Power>> \notin air
  /\ radio' = IF LadderSpent THEN Unprovisioned ELSE radio
  /\ loop' = [loop EXCEPT !.at = "publish", !.credentials = loop.joins,
                          !.attempt = NextAttempt,
                          !.fallback = IF LadderSpent THEN FallbackPasses ELSE @]
  /\ UNCHANGED <<flash, control, command, air, spent, intent, answered, torn>>

\* A loop that publishes only the name of a network it is on.
PublishJoined ==
  /\ loop.at = "publish"
  /\ control' = [control EXCEPT !.connected = Online, !.ssid = radio.on.ssid]
  /\ loop' = [loop EXCEPT !.at = "sleep"]
  /\ UNCHANGED <<flash, command, radio, air, spent, history>>

\* What wifi status answers from here on.
Publish ==
  /\ loop.at = "publish"
  /\ control' = [control EXCEPT !.connected = Online, !.ssid = loop.credentials.ssid]
  /\ loop' = [loop EXCEPT !.at = "sleep"]
  /\ UNCHANGED <<flash, command, radio, air, spent, history>>

-----------------------------------------------------------------------------
(* The environment. *)

\* Networks come and go; the link the probe was on is lost.
AirChanges ==
  /\ spent.airs < MaxAirs
  /\ air' \in Airs
  /\ radio' = [radio EXCEPT !.on = NoNetwork]
  /\ spent' = [spent EXCEPT !.airs = @ + 1]
  /\ UNCHANGED <<flash, control, command, loop, history>>

FreshControl == [pending |-> NoNetwork, forget |-> FALSE, ssid |-> "",
                 connected |-> FALSE]
FreshLoop == [at |-> "boot", credentials |-> NoNetwork, attempt |-> 0,
              fallback |-> 0, joins |-> NoNetwork, why |-> "retry"]

\* The probe restarts, between two writes of a command if it comes to that.
Reboot ==
  /\ spent.reboots < MaxReboots
  /\ control' = FreshControl /\ loop' = FreshLoop /\ command' = IdleCommand
  /\ radio' = [mode |-> "off", on |-> NoNetwork]
  /\ spent' = [spent EXCEPT !.reboots = @ + 1]
  /\ torn' = (torn \/ command.stage \in {"password", "record"})
  /\ answered' = FALSE
  /\ UNCHANGED <<flash, air, intent>>

Init ==
  /\ \E n \in Networks \cup {NoNetwork}, p \in Powers \cup {0} :
       /\ flash = [ssid |-> n.ssid, password |-> n.password, power |-> p]
       /\ intent = n
  /\ control = FreshControl /\ loop = FreshLoop /\ command = IdleCommand
  /\ radio = [mode |-> "off", on |-> NoNetwork]
  /\ air \in Airs
  /\ spent = [commands |-> 0, reboots |-> 0, airs |-> 0]
  /\ answered = FALSE /\ torn = FALSE

CommandStep == FlashFails \/ StoreSsid \/ StorePassword \/ Record
LoopStep == \/ StartRadio \/ LoadCredentials
            \/ PassRequest \/ PassWindow \/ PassRetry \/ PassIdle
            \/ JoinWorks \/ JoinFails \/ Publish

Next == \/ \E n \in Networks : Begin("set", n)
        \/ Begin("forget", NoNetwork)
        \/ CommandStep \/ LoopStep \/ AirChanges \/ Reboot

Spec == Init /\ [][Next]_vars

\* The loop never ends, and a command under way does.
FairSpec == Spec /\ WF_vars(LoopStep) /\ WF_vars(CommandStep)

-----------------------------------------------------------------------------
FlashType == [ssid : Ssids \cup {""}, password : Passwords \cup {""},
              power : Powers \cup {0}]
ControlType == [pending : Networks \cup {NoNetwork}, forget : BOOLEAN,
                ssid : Ssids \cup {""}, connected : BOOLEAN]
CommandType == [op : {"none", "set", "forget"}, network : Networks \cup {NoNetwork},
                stage : {"idle", "ssid", "password", "record"}]
LoopType == [at : {"boot", "load", "sleep", "joining", "publish"},
             credentials : MaybePair, attempt : 0..(2 * Len(Ladder) - 1),
             fallback : 0..FallbackPasses, joins : MaybePair,
             why : {"request", "retry"}]
RadioType == [mode : {"off", "ap", "station"}, on : MaybePair]
SpentType == [commands : 0..MaxCommands, reboots : 0..MaxReboots, airs : 0..MaxAirs]

\* Every variable keeps its type.
TypeOK ==
  /\ flash \in FlashType
  /\ control \in ControlType
  /\ command \in CommandType
  /\ loop \in LoopType
  /\ radio \in RadioType
  /\ air \in Airs
  /\ spent \in SpentType
  /\ intent \in Networks \cup {NoNetwork}
  /\ answered \in BOOLEAN /\ torn \in BOOLEAN

\* What the loop will work from once it has served what is pending.
Destined == IF control.pending # NoNetwork THEN control.pending
            ELSE IF control.forget THEN NoNetwork
            ELSE IF loop.at = "joining" THEN loop.joins
            ELSE IF loop.at \in {"boot", "load"} THEN Loaded
            ELSE loop.credentials

\* Between commands, flash and loop both hold what the last completed one asked
\* for, or are about to, however a command met a join, a restart or a boot half
\* done; unless one was cut short between its writes.
IntentHeld ==
  command.stage = "idle" /\ ~torn => Loaded = intent /\ Destined = intent

\* While the loop counts the access point's window down, it is on the air.
WindowOpen == loop.fallback > 0 => radio.mode = "ap"

\* A probe with an access point is never out of reach for good: it is on its
\* network or its access point is up, again and again.
WayIn == HasAp => []<>(radio.mode = "ap" \/ Online)

Reachable(n) == \E p \in Powers : <<n, p>> \in air

\* A network that answers at some power of the ladder is joined, whatever power
\* flash remembers, and one that was forgotten is left.
ReachesIntent ==
  []<>(torn \/ radio.on = intent \/ (intent # NoNetwork /\ ~Reachable(intent)))

\* In the end wifi status names the network asked for, and tells whether the
\* probe is on it.
StatusSettles ==
  <>[](torn \/ (control.ssid = intent.ssid /\ control.connected = Online))

\* Once WifiSet has been answered, wifi status names its network (the comment
\* in WifiSet).
StatusNamesNetwork ==
  answered /\ command.stage = "idle" => control.ssid = intent.ssid
=============================================================================
