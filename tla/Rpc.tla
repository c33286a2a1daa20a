-------------------------------- MODULE Rpc --------------------------------
(* What the bridge promises its hosts: a remote procedure call.  A call is   *)
(* carried out in its turn or lost, and the host is given only the result of *)
(* the call it is waiting for.  A link that several sessions share may give  *)
(* it the result of an earlier call instead, never of one not carried out.   *)
(* A host may give up; the call it abandoned may still be carried out.       *)
EXTENDS Naturals, Sequences

CONSTANTS
  Links,  \* the links hosts call over
  Shared, \* those that keep the results a session did not collect
  Calls   \* the calls a link may carry: 1, 2, ...

VARIABLES
  call,    \* per link, what became of each call
  waiting, \* per link, the calls the host awaits, in order
  got      \* per link, the call whose result the host was given last

vars == <<call, waiting, got>>

\* The host makes its next call; a link that dies under it loses the call.
Make(l, c) ==
  /\ call[l][c] = "unmade" /\ \A d \in 1..(c - 1) : call[l][d] # "unmade"
  /\ \/ /\ call' = [call EXCEPT ![l][c] = "queued"]
        /\ waiting' = [waiting EXCEPT ![l] = Append(@, c)]
     \/ /\ call' = [call EXCEPT ![l][c] = "lost"]
        /\ waiting' = [waiting EXCEPT ![l] = <<>>]
  /\ UNCHANGED got

\* Carried out, never before an earlier call of the same link.
CarryOut(l, c) ==
  /\ call[l][c] = "queued" /\ \A d \in 1..(c - 1) : call[l][d] # "queued"
  /\ call' = [call EXCEPT ![l][c] = "done"]
  /\ UNCHANGED <<waiting, got>>

\* A connection that ends takes the calls still queued on it with it.
Lose(l, lost) ==
  /\ lost # {} /\ \A c \in lost : call[l][c] = "queued"
  /\ call' = [call EXCEPT ![l] =
       [c \in Calls |-> IF c \in lost THEN "lost" ELSE call[l][c]]]
  /\ UNCHANGED <<waiting, got>>

Answer(l, c) ==
  /\ waiting[l] # <<>> /\ call[l][c] = "done"
  /\ c = Head(waiting[l]) \/ (l \in Shared /\ c < Head(waiting[l]))
  /\ got' = [got EXCEPT ![l] = c]
  /\ \E rest \in {Tail(waiting[l]), <<>>} :
       waiting' = [waiting EXCEPT ![l] = rest]
  /\ UNCHANGED call

GiveUp(l) ==
  /\ waiting[l] # <<>>
  /\ \E rest \in {Tail(waiting[l]), <<>>} :
       waiting' = [waiting EXCEPT ![l] = rest]
  /\ UNCHANGED <<call, got>>

Init ==
  /\ call = [l \in Links |-> [c \in Calls |-> "unmade"]]
  /\ waiting = [l \in Links |-> <<>>]
  /\ got = [l \in Links |-> 0]

Next ==
  \E l \in Links :
    \/ \E c \in Calls : Make(l, c) \/ CarryOut(l, c) \/ Answer(l, c)
    \/ \E lost \in SUBSET Calls : Lose(l, lost)
    \/ GiveUp(l)

Spec == Init /\ [][Next]_vars
=============================================================================
