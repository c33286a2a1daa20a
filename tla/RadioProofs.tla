---------------------------- MODULE RadioProofs ----------------------------
(* Theorems about module Radio: for any networks, ladder, window and air,   *)
(* commands, restarts and passes of the station loop keep flash and loop on *)
(* the network last asked for, and the access point's window on the air.    *)
EXTENDS Radio, TLAPS

-----------------------------------------------------------------------------
(* The inductive invariant. *)

\* A command names a network exactly if it is there to set one.
CommandFormed ==
  /\ command.op \in {"none", "set", "forget"}
  /\ command.stage \in {"idle", "ssid", "password", "record"}
  /\ command.network \in Networks \cup {NoNetwork}
  /\ command.op = "set" => command.network \in Networks
  /\ command.op = "forget" => command.network = NoNetwork
  /\ command.stage # "idle" => command.op # "none"

\* How far into flash the command has got.
FlashFollows ==
  /\ command.stage \in {"password", "record"} => flash.ssid = command.network.ssid
  /\ command.stage = "record" /\ command.op = "set" =>
       flash.password = command.network.password

\* Until a command has written anything, flash and loop hold the last one's
\* network: IntentHeld, kept through the first stage of the next command.
Held == command.stage \in {"idle", "ssid"} /\ ~torn =>
          Loaded = intent /\ Destined = intent

\* The window is counted down only between joins, and only with an access point
\* to hold open.
WindowKept ==
  /\ loop.at \in {"boot", "load", "joining"} => loop.fallback = 0
  /\ loop.fallback > 0 => HasAp /\ radio.mode = "ap"

IInv == TypeOK /\ CommandFormed /\ FlashFollows /\ Held /\ WindowKept

-----------------------------------------------------------------------------
(* What the definitions are worth. *)

\* No network has neither SSID nor password.
LEMMA NoNetworkFacts ==
  /\ NoNetwork.ssid = "" /\ NoNetwork.password = "" /\ NoNetwork \in MaybePair
BY DEF NoNetwork, MaybePair

\* A network that can be provisioned has a name, an SSID and a password of the
\* kinds flash holds (wifi_credentials::decode).
LEMMA NetworkFacts ==
  ASSUME NEW n \in Networks
  PROVE  /\ n = [ssid |-> n.ssid, password |-> n.password]
         /\ n.ssid \in Ssids /\ n.password \in Passwords
         /\ n.ssid # "" /\ n # NoNetwork /\ n \in MaybePair
<1>1. n \in [ssid : STRING, password : STRING]
  BY NetworksAssumption
<1>2. n = [ssid |-> n.ssid, password |-> n.password]
  BY <1>1
<1>3. n.ssid \in Ssids /\ n.password \in Passwords
  BY DEF Ssids, Passwords
<1>4. n.ssid # ""
  BY <1>3, NetworksAssumption
<1>5. n # NoNetwork
  BY <1>4, NoNetworkFacts
<1>6. n \in MaybePair
  BY <1>2, <1>3 DEF MaybePair, Pairs
<1>7. QED
  BY <1>2, <1>3, <1>4, <1>5, <1>6

\* What load_wifi_credentials returns is a pair flash can hold, or none.
LEMMA LoadedPair ==
  ASSUME flash \in FlashType
  PROVE  Loaded \in MaybePair
BY DEF FlashType, Loaded, MaybePair, Pairs, NoNetwork

\* Every attempt has a power (tx_power_for never indexes past the ladder).
LEMMA PowerTyped ==
  ASSUME Ladder \in Seq(Nat \ {0}), Len(Ladder) > 0,
         loop.attempt \in Nat, flash.power \in Powers \cup {0}
  PROVE  Power \in Powers
<1>1. (loop.attempt % Len(Ladder)) + 1 \in 1..Len(Ladder)
  OBVIOUS
<1>2. Ladder[(loop.attempt % Len(Ladder)) + 1] \in Powers
  BY <1>1 DEF Powers, Range
<1>3. QED
  BY <1>2 DEF Power

\* The attempt counter stays within two ladders.
LEMMA AttemptTyped ==
  ASSUME Ladder \in Seq(Nat \ {0}), Len(Ladder) > 0,
         loop.attempt \in 0..(2 * Len(Ladder) - 1)
  PROVE  NextAttempt \in 0..(2 * Len(Ladder) - 1)
BY DEF NextAttempt

\* So it does when the loop starts over.
LEMMA FreshLoopTyped == FreshLoop \in LoopType
<1>1. 0 \in 0..(2 * Len(Ladder) - 1) /\ 0 \in 0..FallbackPasses
  <2>1. Len(Ladder) \in Nat /\ Len(Ladder) > 0
    BY LadderAssumption
  <2>2. QED
    BY <2>1, LadderAssumption
<1>2. QED
  BY <1>1, NoNetworkFacts DEF FreshLoop, LoopType

-----------------------------------------------------------------------------
(* The initial states, and each step. *)

\* A probe that has just been switched on, provisioned or not.
LEMMA InitInvariant == Init => IInv
<1>1. SUFFICES ASSUME Init PROVE IInv
  OBVIOUS
<1>2. PICK n \in Networks \cup {NoNetwork}, p \in Powers \cup {0} :
        /\ flash = [ssid |-> n.ssid, password |-> n.password, power |-> p]
        /\ intent = n
  BY <1>1 DEF Init
<1>3. n = [ssid |-> n.ssid, password |-> n.password]
  BY NetworkFacts DEF NoNetwork
<1>4. Loaded = n
  BY <1>2, <1>3, NetworkFacts, NoNetworkFacts DEF Loaded
<1>5. TypeOK
  <2>1. flash \in FlashType
    BY <1>2, NetworkFacts, NoNetworkFacts DEF FlashType
  <2>2. control \in ControlType
    BY <1>1 DEF Init, FreshControl, ControlType
  <2>3. command \in CommandType
    BY <1>1 DEF Init, IdleCommand, CommandType
  <2>4. loop \in LoopType
    BY <1>1, FreshLoopTyped DEF Init
  <2>5. radio \in RadioType
    BY <1>1, NoNetworkFacts DEF Init, RadioType
  <2>6. spent \in SpentType
    <3>1. 0 \in 0..MaxCommands /\ 0 \in 0..MaxReboots /\ 0 \in 0..MaxAirs
      BY BoundsAssumption
    <3>2. QED
      BY <1>1, <3>1 DEF Init, SpentType
  <2>7. QED
    BY <1>1, <1>2, <2>1, <2>2, <2>3, <2>4, <2>5, <2>6 DEF Init, TypeOK
<1>6. CommandFormed /\ FlashFollows
  BY <1>1 DEF Init, IdleCommand, CommandFormed, FlashFollows
<1>7. Destined = Loaded
  BY <1>1 DEF Init, FreshControl, FreshLoop, Destined
<1>8. WindowKept
  <2>1. loop.fallback = 0
    BY <1>1 DEF Init, FreshLoop
  <2>2. QED
    BY <2>1 DEF WindowKept
<1>9. QED
  BY <1>2, <1>4, <1>5, <1>6, <1>7, <1>8 DEF IInv, Held

\* A Wi-Fi command begins: nothing has been written yet.
LEMMA BeginStep ==
  ASSUME IInv, NEW op \in {"set", "forget"}, NEW n \in Networks \cup {NoNetwork},
         op = "set" => n \in Networks, op = "forget" => n = NoNetwork,
         Begin(op, n)
  PROVE  IInv'
<1>1. command' = [op |-> op, network |-> n, stage |-> "ssid"] /\ command.stage = "idle"
  BY DEF Begin
<1>2. TypeOK'
  <2>1. spent' \in SpentType
    BY BoundsAssumption DEF Begin, IInv, TypeOK, SpentType
  <2>2. command' \in CommandType
    BY <1>1 DEF CommandType
  <2>3. QED
    BY <2>1, <2>2 DEF Begin, IInv, TypeOK, history
<1>3. CommandFormed' /\ FlashFollows'
  BY <1>1 DEF CommandFormed, FlashFollows
<1>4. Held'
  BY <1>1 DEF Begin, history, IInv, Held, Loaded, Destined
<1>5. WindowKept'
  BY DEF Begin, IInv, WindowKept
<1>6. QED
  BY <1>2, <1>3, <1>4, <1>5 DEF IInv

\* A command that could not write to flash.
LEMMA FlashFailsStep ==
  ASSUME IInv, FlashFails
  PROVE  IInv'
<1>1. command' = IdleCommand
  BY DEF FlashFails
<1>2. TypeOK'
  <2>1. command' \in CommandType
    BY <1>1 DEF IdleCommand, CommandType
  <2>2. torn' \in BOOLEAN
    BY DEF FlashFails, IInv, TypeOK
  <2>3. QED
    BY <2>1, <2>2 DEF FlashFails, IInv, TypeOK
<1>3. CommandFormed' /\ FlashFollows'
  BY <1>1 DEF IdleCommand, CommandFormed, FlashFollows
<1>4. Held'
  <2>1. CASE command.stage = "ssid"
    BY <2>1 DEF FlashFails, IInv, Held, Loaded, Destined
  <2>2. CASE command.stage = "password"
    BY <2>2 DEF FlashFails, Held
  <2>3. QED
    BY <2>1, <2>2 DEF FlashFails
<1>5. WindowKept'
  BY DEF FlashFails, IInv, WindowKept
<1>6. QED
  BY <1>2, <1>3, <1>4, <1>5 DEF IInv

\* Each of the two writes of store_wifi_credentials and forget_wifi_credentials.
LEMMA StoreStep ==
  ASSUME IInv, StoreSsid \/ StorePassword
  PROVE  IInv'
<1>1. CASE StoreSsid
  <2>1. /\ command' = [command EXCEPT !.stage = "password"]
        /\ flash' = [flash EXCEPT !.ssid = command.network.ssid]
    BY <1>1 DEF StoreSsid
  <2>2. command.network.ssid \in Ssids \cup {""}
    BY NetworkFacts, NoNetworkFacts DEF IInv, CommandFormed
  <2>3. TypeOK'
    <3>1. flash' \in FlashType /\ command' \in CommandType
      BY <2>1, <2>2 DEF IInv, TypeOK, FlashType, CommandType
    <3>2. QED
      BY <1>1, <3>1 DEF StoreSsid, history, IInv, TypeOK
  <2>4. CommandFormed' /\ FlashFollows'
    BY <2>1, <1>1 DEF StoreSsid, IInv, TypeOK, FlashType, CommandType, CommandFormed,
       FlashFollows
  <2>5. Held' /\ WindowKept'
    BY <1>1, <2>1 DEF StoreSsid, IInv, TypeOK, CommandType, Held, WindowKept
  <2>6. QED
    BY <2>3, <2>4, <2>5 DEF IInv
<1>2. CASE StorePassword
  <2>1. /\ command' = [command EXCEPT !.stage = "record"]
        /\ \/ flash' = [flash EXCEPT !.password = command.network.password]
           \/ command.op = "forget" /\ flash' = flash
    BY <1>2 DEF StorePassword
  <2>2. command.network.password \in Passwords \cup {""}
    BY NetworkFacts, NoNetworkFacts DEF IInv, CommandFormed
  <2>3. TypeOK'
    <3>1. flash' \in FlashType /\ command' \in CommandType
      BY <2>1, <2>2 DEF IInv, TypeOK, FlashType, CommandType
    <3>2. QED
      BY <1>2, <3>1 DEF StorePassword, history, IInv, TypeOK
  <2>4. CommandFormed' /\ FlashFollows'
    BY <2>1, <1>2 DEF StorePassword, IInv, TypeOK, FlashType, CommandType,
       CommandFormed, FlashFollows
  <2>5. Held' /\ WindowKept'
    BY <1>2, <2>1 DEF StorePassword, IInv, TypeOK, CommandType, Held, WindowKept
  <2>6. QED
    BY <2>3, <2>4, <2>5 DEF IInv
<1>3. QED
  BY <1>1, <1>2

\* A command that completes: flash holds its network, the loop is about to.
LEMMA RecordStep ==
  ASSUME IInv, Record
  PROVE  IInv'
<1>1. /\ command.stage = "record" /\ command' = IdleCommand
      /\ control' = Asked /\ intent' = command.network
      /\ UNCHANGED <<flash, loop, radio, air, spent>>
  BY DEF Record
<1>2. command.network.ssid \in Ssids \cup {""}
  BY NetworkFacts, NoNetworkFacts DEF IInv, CommandFormed
<1>3. TypeOK'
  <2>1. control' \in ControlType
    BY <1>1, <1>2 DEF Asked, IInv, CommandFormed, TypeOK, ControlType
  <2>2. command' \in CommandType
    BY <1>1 DEF IdleCommand, CommandType
  <2>3. QED
    BY <1>1, <2>1, <2>2 DEF Record, IInv, CommandFormed, TypeOK
<1>4. CommandFormed' /\ FlashFollows'
  BY <1>1 DEF IdleCommand, CommandFormed, FlashFollows
<1>5. Loaded' = command.network /\ Destined' = command.network
  <2>1. CASE command.op = "set"
    <3>1. /\ command.network \in Networks
          /\ flash.ssid = command.network.ssid
          /\ flash.password = command.network.password
      BY <1>1, <2>1 DEF IInv, CommandFormed, FlashFollows
    <3>2. Loaded = command.network
      BY <3>1, NetworkFacts DEF Loaded
    <3>3. Destined' = command.network
      BY <1>1, <3>1, NetworkFacts DEF Destined, Asked
    <3>4. QED
      BY <1>1, <3>2, <3>3 DEF Loaded
  <2>2. CASE command.op = "forget"
    <3>1. command.network = NoNetwork /\ flash.ssid = ""
      BY <1>1, <2>2, NoNetworkFacts DEF IInv, CommandFormed, FlashFollows
    <3>2. Destined' = NoNetwork
      BY <1>1, <2>2, <3>1 DEF Destined, Asked
    <3>3. QED
      BY <1>1, <3>1, <3>2 DEF Loaded
  <2>3. QED
    BY <1>1, <2>1, <2>2 DEF IInv, CommandFormed
<1>6. WindowKept'
  BY <1>1 DEF IInv, WindowKept
<1>7. QED
  BY <1>1, <1>3, <1>4, <1>5, <1>6 DEF IInv, Held

\* A step of the loop or of the air keeps the invariant if it keeps what the
\* loop is bound for, and the window.
LEMMA LoopKeeps ==
  ASSUME IInv, TypeOK', UNCHANGED <<command, intent, torn>>,
         flash'.ssid = flash.ssid, flash'.password = flash.password,
         Destined' = Destined, WindowKept'
  PROVE  IInv'
<1>1. CommandFormed' /\ FlashFollows'
  BY DEF IInv, CommandFormed, FlashFollows
<1>2. Loaded' = Loaded
  BY DEF Loaded
<1>3. Held'
  BY <1>2 DEF IInv, Held
<1>4. QED
  BY <1>1, <1>3 DEF IInv

\* Taking what is pending leaves WifiControl well formed.
LEMMA TakeTyped ==
  ASSUME TypeOK, Take
  PROVE  /\ control' \in ControlType
         /\ control'.pending = NoNetwork /\ control'.forget = FALSE
BY DEF TypeOK, ControlType, Take

\* So are the loop's credentials and the radio after a request to forget.
LEMMA ForgetTyped ==
  ASSUME TypeOK
  PROVE  /\ Kept \in MaybePair /\ Cleared \in RadioType
         /\ Unprovisioned \in RadioType
         /\ \A n \in MaybePair : Station(n) \in RadioType
BY NoNetworkFacts DEF TypeOK, ControlType, LoopType, RadioType, Kept, Cleared,
   Unprovisioned, Station

\* Starting the radio, and reading the credentials it will work from.
LEMMA BootStep ==
  ASSUME IInv, StartRadio \/ LoadCredentials
  PROVE  IInv'
<1>1. CASE StartRadio
  <2>1. loop' = [loop EXCEPT !.at = "load"] /\ loop.at = "boot"
    BY <1>1 DEF StartRadio
  <2>2. TypeOK'
    <3>1. loop' \in LoopType
      BY <2>1 DEF IInv, TypeOK, LoopType
    <3>2. radio' \in RadioType
      BY <1>1, ForgetTyped, NoNetworkFacts DEF StartRadio, IInv
    <3>3. QED
      BY <1>1, <3>1, <3>2 DEF StartRadio, history, IInv, TypeOK
  <2>3. Destined' = Destined
    BY <1>1, <2>1 DEF StartRadio, IInv, TypeOK, LoopType, Destined, Loaded
  <2>4. WindowKept'
    BY <2>1 DEF IInv, TypeOK, LoopType, WindowKept
  <2>5. QED
    BY <1>1, <2>2, <2>3, <2>4, LoopKeeps DEF StartRadio, history
<1>2. CASE LoadCredentials
  <2>1. loop' = [loop EXCEPT !.at = "sleep", !.credentials = Loaded] /\ loop.at = "load"
    BY <1>2 DEF LoadCredentials
  <2>2. TypeOK'
    <3>1. loop' \in LoopType
      BY <2>1, LoadedPair DEF IInv, TypeOK, LoopType
    <3>2. QED
      BY <1>2, <3>1 DEF LoadCredentials, history, IInv, TypeOK
  <2>3. Destined' = Destined
    BY <1>2, <2>1 DEF LoadCredentials, IInv, TypeOK, LoopType, Destined
  <2>4. WindowKept'
    BY <1>2, <2>1 DEF LoadCredentials, IInv, TypeOK, LoopType, WindowKept
  <2>5. QED
    BY <1>2, <2>2, <2>3, <2>4, LoopKeeps DEF LoadCredentials, history
<1>3. QED
  BY <1>1, <1>2

\* A pass that begins a join, asked for or not.
LEMMA PassJoinStep ==
  ASSUME IInv, PassRequest \/ PassRetry
  PROVE  IInv'
<1>1. TypeOK /\ Take
  BY DEF IInv, PassRequest, PassRetry
<1>2. CASE PassRequest
  <2>1. loop' = [Joining(control.pending, "request") EXCEPT !.attempt = 0, !.fallback = 0]
    BY <1>2 DEF PassRequest
  <2>2. control.pending \in Networks /\ control.pending # NoNetwork
    BY <1>1, <1>2 DEF PassRequest, TypeOK, ControlType
  <2>3. /\ loop' \in LoopType /\ loop'.at = "joining" /\ loop'.fallback = 0
        /\ loop'.joins = control.pending
    <3>1. 0 \in 0..(2 * Len(Ladder) - 1) /\ 0 \in 0..FallbackPasses
      BY FreshLoopTyped DEF FreshLoop, LoopType
    <3>2. control.pending \in MaybePair /\ Kept \in MaybePair
      BY <1>1, <2>2, NetworkFacts, ForgetTyped
    <3>3. QED
      BY <1>1, <2>1, <3>1, <3>2 DEF Joining, TypeOK, LoopType
  <2>4. TypeOK'
    BY <1>1, <1>2, <2>3, TakeTyped, ForgetTyped, NoNetworkFacts DEF PassRequest, TypeOK
  <2>5. Destined' = Destined
    BY <1>1, <2>2, <2>3, TakeTyped DEF Destined
  <2>6. WindowKept'
    BY <2>3 DEF WindowKept
  <2>7. QED
    BY <1>2, <2>4, <2>5, <2>6, LoopKeeps DEF PassRequest
<1>3. CASE PassRetry
  <2>1. loop' = Joining(Kept, "retry") /\ loop.fallback = 0 /\ loop.at = "sleep"
    BY <1>3 DEF PassRetry
  <2>2. /\ loop' \in LoopType /\ loop'.at = "joining" /\ loop'.fallback = 0
        /\ loop'.joins = Kept
    BY <1>1, <2>1, ForgetTyped DEF Joining, TypeOK, LoopType
  <2>3. TypeOK'
    BY <1>1, <1>3, <2>2, TakeTyped, ForgetTyped, NoNetworkFacts
    DEF PassRetry, history, TypeOK
  <2>4. Destined' = Destined
    BY <1>1, <1>3, <2>1, <2>2, TakeTyped DEF PassRetry, Destined, Kept
  <2>5. WindowKept'
    BY <2>2 DEF WindowKept
  <2>6. QED
    BY <1>3, <2>3, <2>4, <2>5, LoopKeeps DEF PassRetry, history
<1>4. QED
  BY <1>2, <1>3

\* A pass that counts the window down, or has nothing to do.
LEMMA PassQuietStep ==
  ASSUME IInv, PassWindow \/ PassIdle
  PROVE  IInv'
<1>1. TypeOK /\ Take
  BY DEF IInv, PassWindow, PassIdle
<1>2. Kept \in MaybePair
  BY <1>1, ForgetTyped
<1>3. /\ loop' \in LoopType /\ loop'.at = "publish" /\ loop'.credentials = Kept
      /\ loop'.fallback <= loop.fallback
  <2>1. CASE PassWindow
    <3>1. loop.fallback - 1 \in 0..FallbackPasses /\ loop.fallback - 1 <= loop.fallback
      BY <1>1, <2>1, LadderAssumption DEF PassWindow, TypeOK, LoopType
    <3>2. loop' = [loop EXCEPT !.at = "publish", !.fallback = loop.fallback - 1,
                               !.credentials = Kept]
      BY <2>1 DEF PassWindow
    <3>3. QED
      BY <1>1, <1>2, <3>1, <3>2 DEF TypeOK, LoopType
  <2>2. CASE PassIdle
    <3>1. loop' = [loop EXCEPT !.at = "publish", !.credentials = Kept]
      BY <2>2 DEF PassIdle
    <3>2. loop.fallback <= loop.fallback
      BY <1>1, LadderAssumption DEF TypeOK, LoopType
    <3>3. QED
      BY <1>1, <1>2, <3>1, <3>2 DEF TypeOK, LoopType
  <2>3. QED
    BY <2>1, <2>2
<1>4. /\ radio' = Cleared /\ loop.at = "sleep" /\ control.pending = NoNetwork
      /\ UNCHANGED <<flash, command, air, spent, history>>
  BY DEF PassWindow, PassIdle
<1>5. TypeOK'
  BY <1>1, <1>3, <1>4, TakeTyped, ForgetTyped DEF history, TypeOK
<1>6. Destined' = Destined
  BY <1>1, <1>3, <1>4, TakeTyped DEF Destined, Kept
<1>7. WindowKept'
  BY <1>1, <1>2, <1>3, <1>4, LadderAssumption
  DEF IInv, TypeOK, LoopType, WindowKept, Cleared, Unprovisioned
<1>8. QED
  BY <1>4, <1>5, <1>6, <1>7, LoopKeeps DEF history

\* A join that worked, or did not: the credentials are what was joined.
LEMMA JoinStep ==
  ASSUME IInv, JoinWorks \/ JoinFails
  PROVE  IInv'
<1>1. TypeOK /\ loop.at = "joining" /\ loop.fallback = 0
  BY DEF IInv, WindowKept, JoinWorks, JoinFails
<1>2. Power \in Powers
  <2>1. loop.attempt \in Nat /\ flash.power \in Powers \cup {0}
    <3>1. Len(Ladder) \in Nat
      BY LadderAssumption
    <3>2. /\ loop.attempt \in 0..(2 * Len(Ladder) - 1)
          /\ flash.power \in Powers \cup {0}
      BY <1>1 DEF TypeOK, LoopType, FlashType
    <3>3. QED
      BY <3>1, <3>2
  <2>2. QED
    BY <2>1, PowerTyped, LadderAssumption
<1>3. CASE JoinWorks
  <2>1. loop' = [loop EXCEPT !.at = "publish", !.credentials = loop.joins, !.attempt = 0]
    BY <1>3 DEF JoinWorks
  <2>2. /\ loop' \in LoopType /\ loop'.at = "publish" /\ loop'.fallback = 0
        /\ loop'.credentials = loop.joins
    <3>1. 0 \in 0..(2 * Len(Ladder) - 1)
      BY FreshLoopTyped DEF FreshLoop, LoopType
    <3>2. QED
      BY <1>1, <2>1, <3>1 DEF TypeOK, LoopType
  <2>3. /\ flash' \in FlashType
        /\ flash'.ssid = flash.ssid /\ flash'.password = flash.password
    BY <1>1, <1>2, <1>3 DEF JoinWorks, TypeOK, FlashType
  <2>4. radio' \in RadioType
    BY <1>1, <1>3, ForgetTyped DEF JoinWorks, TypeOK, LoopType
  <2>5. TypeOK'
    BY <1>1, <1>3, <2>2, <2>3, <2>4 DEF JoinWorks, TypeOK
  <2>6. Destined' = Destined
    BY <1>1, <1>3, <2>2 DEF JoinWorks, Destined
  <2>7. WindowKept'
    BY <2>2 DEF WindowKept
  <2>8. QED
    BY <1>3, <2>3, <2>5, <2>6, <2>7, LoopKeeps DEF JoinWorks
<1>4. CASE JoinFails
  <2>1. loop' = [loop EXCEPT !.at = "publish", !.credentials = loop.joins,
                             !.attempt = NextAttempt,
                             !.fallback = IF LadderSpent THEN FallbackPasses ELSE @]
    BY <1>4 DEF JoinFails
  <2>2. /\ loop' \in LoopType /\ loop'.at = "publish"
        /\ loop'.credentials = loop.joins
        /\ loop'.fallback = IF LadderSpent THEN FallbackPasses ELSE 0
    <3>1. NextAttempt \in 0..(2 * Len(Ladder) - 1)
      BY <1>1, AttemptTyped, LadderAssumption DEF TypeOK, LoopType
    <3>2. FallbackPasses \in 0..FallbackPasses
      BY LadderAssumption
    <3>3. QED
      BY <1>1, <2>1, <3>1, <3>2 DEF TypeOK, LoopType
  <2>3. radio' \in RadioType
    BY <1>1, <1>4, ForgetTyped DEF JoinFails, TypeOK
  <2>4. TypeOK'
    BY <1>1, <1>2, <1>4, <2>2, <2>3 DEF JoinFails, TypeOK
  <2>5. Destined' = Destined
    BY <1>1, <1>4, <2>2 DEF JoinFails, Destined
  <2>6. WindowKept'
    BY <1>4, <2>2 DEF JoinFails, WindowKept, LadderSpent, Unprovisioned
  <2>7. QED
    BY <1>4, <2>4, <2>5, <2>6, LoopKeeps DEF JoinFails
<1>5. QED
  BY <1>3, <1>4

\* Publishing a pass, and changes of the air.
LEMMA PublishStep ==
  ASSUME IInv, Publish \/ AirChanges
  PROVE  IInv'
<1>1. TypeOK
  BY DEF IInv
<1>2. CASE Publish
  <2>1. /\ control' = [control EXCEPT !.connected = Online, !.ssid = loop.credentials.ssid]
        /\ loop' = [loop EXCEPT !.at = "sleep"] /\ loop.at = "publish"
    BY <1>2 DEF Publish
  <2>2. loop.credentials.ssid \in Ssids \cup {""}
    BY <1>1, NoNetworkFacts DEF TypeOK, LoopType, MaybePair, Pairs
  <2>3. control' \in ControlType /\ loop' \in LoopType
    BY <1>1, <2>1, <2>2 DEF TypeOK, ControlType, LoopType, Online
  <2>4. TypeOK'
    BY <1>1, <1>2, <2>3 DEF Publish, history, TypeOK
  <2>5. Destined' = Destined
    BY <1>1, <2>1 DEF TypeOK, ControlType, LoopType, Destined
  <2>6. WindowKept'
    BY <1>1, <1>2, <2>1 DEF Publish, IInv, TypeOK, LoopType, WindowKept
  <2>7. QED
    BY <1>2, <2>4, <2>5, <2>6, LoopKeeps DEF Publish, history
<1>3. CASE AirChanges
  <2>1. radio' \in RadioType /\ radio'.mode = radio.mode
    BY <1>1, <1>3, NoNetworkFacts DEF AirChanges, TypeOK, RadioType
  <2>2. spent' \in SpentType
    BY <1>1, <1>3, BoundsAssumption DEF AirChanges, TypeOK, SpentType
  <2>3. TypeOK'
    BY <1>1, <1>3, <2>1, <2>2 DEF AirChanges, history, TypeOK
  <2>4. Destined' = Destined
    BY <1>3 DEF AirChanges, Destined, Loaded
  <2>5. WindowKept'
    BY <1>3, <2>1 DEF AirChanges, IInv, WindowKept
  <2>6. QED
    BY <1>3, <2>3, <2>4, <2>5, LoopKeeps DEF AirChanges, history
<1>4. QED
  BY <1>2, <1>3

\* A restart: what flash holds is all that is left, and it is what was asked
\* for unless a command was between its writes.
LEMMA RebootStep ==
  ASSUME IInv, Reboot
  PROVE  IInv'
<1>1. TypeOK
  BY DEF IInv
<1>2. /\ control' = FreshControl /\ loop' = FreshLoop /\ command' = IdleCommand
      /\ UNCHANGED <<flash, air, intent>>
  BY DEF Reboot
<1>3. TypeOK'
  <2>1. control' \in ControlType /\ command' \in CommandType
    BY <1>2 DEF FreshControl, ControlType, IdleCommand, CommandType
  <2>2. radio' \in RadioType
    BY NoNetworkFacts DEF Reboot, RadioType
  <2>3. spent' \in SpentType
    BY <1>1, BoundsAssumption DEF Reboot, TypeOK, SpentType
  <2>4. torn' \in BOOLEAN /\ answered' \in BOOLEAN
    BY <1>1 DEF Reboot, TypeOK
  <2>5. QED
    BY <1>1, <1>2, <2>1, <2>2, <2>3, <2>4, FreshLoopTyped DEF TypeOK
<1>4. CommandFormed' /\ FlashFollows'
  BY <1>2 DEF IdleCommand, CommandFormed, FlashFollows
<1>5. Held'
  <2>1. ASSUME ~torn' PROVE command.stage \in {"idle", "ssid"} /\ ~torn
    BY <1>1, <2>1 DEF Reboot, TypeOK, CommandType
  <2>2. Loaded' = Loaded
    BY <1>2 DEF Loaded
  <2>3. Destined' = Loaded'
    BY <1>2 DEF FreshControl, FreshLoop, Destined, Loaded
  <2>4. QED
    BY <1>2, <2>1, <2>2, <2>3 DEF IInv, Held
<1>6. WindowKept'
  <2>1. loop'.fallback = 0
    BY <1>2 DEF FreshLoop
  <2>2. QED
    BY <2>1 DEF WindowKept
<1>7. QED
  BY <1>3, <1>4, <1>5, <1>6 DEF IInv

\* Every step of the commands, the loop and the environment keeps it.
LEMMA StepInvariant == IInv /\ [Next]_vars => IInv'
<1>1. SUFFICES ASSUME IInv, [Next]_vars PROVE IInv'
  OBVIOUS
<1>2. ASSUME NEW n \in Networks, Begin("set", n) PROVE IInv'
  BY <1>1, <1>2, BeginStep
<1>3. CASE Begin("forget", NoNetwork)
  BY <1>1, <1>3, BeginStep
<1>4. CASE CommandStep
  BY <1>1, <1>4, FlashFailsStep, StoreStep, RecordStep DEF CommandStep
<1>5. CASE LoopStep
  BY <1>1, <1>5, BootStep, PassJoinStep, PassQuietStep, JoinStep, PublishStep
  DEF LoopStep
<1>6. CASE AirChanges \/ Reboot
  BY <1>1, <1>6, PublishStep, RebootStep
<1>7. CASE UNCHANGED vars
  BY <1>1, <1>7 DEF vars, history, IInv, TypeOK, CommandFormed, FlashFollows,
     Held, Loaded, Destined, WindowKept
<1>8. QED
  BY <1>1, <1>2, <1>3, <1>4, <1>5, <1>6, <1>7 DEF Next

\* The inductive invariant holds of every behaviour of the probe's Wi-Fi.
THEOREM Inductive == Spec => []IInv
BY InitInvariant, StepInvariant, PTL DEF Spec

-----------------------------------------------------------------------------
(* The properties. *)

\* Every variable keeps its type; the ladder is never indexed past its end.
THEOREM TypeCorrect == Spec => []TypeOK
<1>1. IInv => TypeOK
  BY DEF IInv
<1>2. QED
  BY <1>1, Inductive, PTL

\* Between commands, flash and loop are on the network last asked for, however
\* WifiSet and WifiForget met a join, a restart or a boot half done.
THEOREM IntentKept == Spec => []IntentHeld
<1>1. IInv => IntentHeld
  BY DEF IInv, Held, IntentHeld
<1>2. QED
  BY <1>1, Inductive, PTL

\* The access point is on the air for as long as its window is counted down.
THEOREM WindowStaysOpen == Spec => []WindowOpen
<1>1. IInv => WindowOpen
  BY DEF IInv, WindowKept, WindowOpen
<1>2. QED
  BY <1>1, Inductive, PTL
=============================================================================
