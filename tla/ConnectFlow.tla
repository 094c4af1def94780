---------------------------- MODULE ConnectFlow ----------------------------
(***************************************************************************)
(* Connecting one provider from the desktop (auth/connect-loopback.ts):    *)
(* each attempt opens a consent page in the browser and a loopback listener*)
(* of its own, which answers one callback; a new attempt, the callback and *)
(* a timer all close the attempt `pending` names.  The screen starts no    *)
(* second attempt before the first call has returned.                      *)
(***************************************************************************)
EXTENDS Naturals, FiniteSets

CONSTANT Attempts  \* attempts the person makes

VARIABLES at,        \* how far startConnectFlow and the callback of each are
          listening, \* attempts whose listener is open
          timer,     \* attempts whose ten minutes are running
          settled,   \* attempts that have answered a callback
          pending,   \* the attempt in the map, 0: none
          exchanges, \* code exchanges made for each attempt
          connected  \* the attempt whose token was saved last, 0: none

vars == <<at, listening, timer, settled, pending, exchanges, connected>>

Ids == 1..Attempts
Starting == {"closing", "bound"}

Init == /\ at = [k \in Ids |-> "none"] /\ listening = {} /\ timer = {}
        /\ settled = {} /\ pending = 0 /\ exchanges = [k \in Ids |-> 0] /\ connected = 0

Go(k, step) == at' = [at EXCEPT ![k] = step]
Begun == {k \in Ids : at[k] # "none"}

CloseFlowLater == pending' = 0 /\ timer' = timer \ {pending} /\ UNCHANGED listening

\* the timer is stopped and the server refuses connections from here on
CloseFlow == /\ pending' = 0 /\ timer' = timer \ {pending}
             /\ listening' = listening \ {pending}

Start(k) ==
  /\ at[k] = "none" /\ k = Cardinality(Begun) + 1
  /\ \A j \in Ids : at[j] \notin Starting
  /\ CloseFlow /\ Go(k, "closing")
  /\ UNCHANGED <<settled, exchanges, connected>>

\* the listener is bound before the timer and the map know of it
Listen(k) ==
  /\ at[k] = "closing" /\ Go(k, "bound")
  /\ listening' = listening \cup {k}
  /\ UNCHANGED <<timer, settled, pending, exchanges, connected>>

ListenFails(k) ==
  /\ at[k] = "closing" /\ Go(k, "over")
  /\ UNCHANGED <<listening, timer, settled, pending, exchanges, connected>>

Register(k) ==
  /\ at[k] = "bound" /\ Go(k, "waiting")
  /\ timer' = timer \cup {k} /\ pending' = k
  /\ UNCHANGED <<listening, settled, exchanges, connected>>

\* the first callback settles the attempt, whatever it carries; a later one
\* gets the page and nothing more
Callback(k) ==
  /\ k \in listening /\ at[k] = "waiting" /\ k \notin settled
  /\ settled' = settled \cup {k} /\ CloseFlow
  /\ \/ Go(k, "exchange")  \* the state this attempt minted, and a code
     \/ Go(k, "over")      \* another state, a denial, no code
  /\ UNCHANGED <<exchanges, connected>>

\* code for token, token saved, connection recorded
Exchange(k) ==
  /\ at[k] = "exchange" /\ Go(k, "over")
  /\ exchanges' = [exchanges EXCEPT ![k] = @ + 1]
  /\ connected' \in {k, connected}
  /\ UNCHANGED <<listening, timer, settled, pending>>

Expire(k) ==
  /\ k \in timer
  /\ pending' = 0 /\ listening' = listening \ {pending} /\ timer' = timer \ {k, pending}
  /\ UNCHANGED <<at, settled, exchanges, connected>>

Next == \E k \in Ids : \/ Start(k) \/ Listen(k) \/ ListenFails(k) \/ Register(k)
                       \/ Callback(k) \/ Exchange(k) \/ Expire(k)

Spec == Init /\ [][Next]_vars
FairSpec == /\ Spec
            /\ \A k \in Ids : WF_vars(Register(k)) /\ WF_vars(Expire(k))
----------------------------------------------------------------------------
TypeOK ==
  /\ at \in [Ids -> {"none", "waiting", "exchange", "over"} \cup Starting]
  /\ listening \subseteq Ids /\ timer \subseteq Ids /\ settled \subseteq Ids
  /\ pending \in 0..Attempts /\ connected \in 0..Attempts
  /\ exchanges \in [Ids -> 0..1]

\* At most one listener is open, and an open one has a timer that will close it
\* (connect-loopback.ts:88-106, 305-330).
OneListener ==
  /\ Cardinality(listening) <= 1
  /\ \A k \in listening : at[k] = "bound" \/ (k \in timer /\ pending = k)

\* A listener does not stay open for ever (connect-loopback.ts:317-325).
ListenerCloses == \A k \in Ids : k \in listening ~> k \notin listening

\* The connection of a newer attempt is not replaced by that of an attempt it
\* superseded (connect-loopback.ts:88-89).
NewestWins == [][connected' >= connected]_vars
=============================================================================
