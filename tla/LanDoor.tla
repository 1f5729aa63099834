------------------------------ MODULE LanDoor -------------------------------
(***************************************************************************)
(* lan_share.rs: the door other devices come in through.                   *)
(*                                                                         *)
(* A share is one listener with its accept thread; the door holds at most  *)
(* one.  Dropping it sets a flag and pokes the listener, which goes when   *)
(* the accept thread has seen the flag.  Each client has a thread of its   *)
(* own, which reads the carrier when it runs.  A client is what it says:   *)
(* the protocol, the sign-in it offers and what it asks for.               *)
(***************************************************************************)
EXTENDS Integers, FiniteSets

CONSTANTS
  Shares,    \* listeners that may ever be opened
  Ports,     \* ports the user may pick
  Logins,    \* sign-ins the user may set; "" is none
  Clients,   \* devices
  Addresses  \* what may carry: addresses of listeners on this machine

ASSUME SharesAreNumbers == Shares \subseteq Nat \ {0}

VARIABLES door, share, client

doorVars == <<door, share, client>>

NoShare == 0
Unborn == [state |-> "unborn"]
Outside == [state |-> "outside"]

DoorInit ==
  /\ door = NoShare
  /\ share = [s \in Shares |-> Unborn]
  /\ client = [c \in Clients |-> Outside]

Listening(s) == share[s].state \in {"open", "stopping"}
Taken(port) == \E s \in Shares : Listening(s) /\ share[s].port = port
Open == door # NoShare

\* What is left of the door when its share is dropped, and with it what it held.
Dropped == [s \in Shares |-> IF s = door THEN [share[s] EXCEPT !.state = "stopping"] ELSE share[s]]

(***************************************************************************)
(* LanDoor.                                                                *)
(***************************************************************************)
\* The new door is bound first; the old one is dropped once it is.
OpenDoor(target, port, login) ==
  /\ ~Taken(port)
  /\ \E s \in Shares :
       /\ share[s] = Unborn /\ (\A r \in Shares : share[r] = Unborn => s <= r)
       /\ share' = [Dropped EXCEPT ![s] =
            [state |-> "open", port |-> port, login |-> login, target |-> target]]
       /\ door' = s
  /\ UNCHANGED client

CloseDoor == door' = NoShare /\ share' = Dropped /\ UNCHANGED client

Retargeted(target) == [share EXCEPT ![door].target = target]
Retarget(target) ==
  /\ share' = IF Open THEN Retargeted(target) ELSE share
  /\ UNCHANGED <<door, client>>

(***************************************************************************)
(* The accept thread, and a client's.                                      *)
(***************************************************************************)
\* The poke, or a client, wakes the accept thread; it sees the flag and the listener goes.
AcceptEnds(s) ==
  /\ share[s].state = "stopping"
  /\ share' = [share EXCEPT ![s].state = "gone"]
  /\ UNCHANGED <<door, client>>

\* What a client may be: SOCKS5 or HTTP, its sign-in, and a request that is a connect, a
\* plain request, one of another kind or one that makes no sense.
Hello == [speaks : {"socks", "http"}, login : Logins, asks : {"connect", "plain", "other", "noise"}]

Accept(s, c) ==
  /\ share[s].state = "open" /\ client[c] = Outside
  /\ \E h \in Hello : client' = [client EXCEPT ![c] = [state |-> "accepted", share |-> s, hello |-> h]]
  /\ UNCHANGED <<door, share>>

\* Mutant: a client that offers no sign-in is let in.
signed_in_politely(hello, login) == hello.login \in {login, ""}

\* Both halves of a sign-in, or none is wanted.
signed_in(hello, login) == login = "" \/ hello.login = login

\* serve_socks5: no method in common, a wrong sign-in, another command, another address
\* type; serve_http: no request, no sign-in, no target.  Then the carrier is asked.
refused(hello, login) ==
  IF hello.speaks = "socks"
  THEN IF ~signed_in(hello, login) THEN IF hello.login = "" THEN "no method" ELSE "wrong"
       ELSE IF hello.asks \in {"plain", "other"} THEN "command"
       ELSE IF hello.asks = "noise" THEN "address" ELSE "no"
  ELSE IF hello.asks = "noise" THEN "bad request"
       ELSE IF ~signed_in(hello, login) THEN "sign in"
       ELSE IF hello.asks = "other" THEN "bad request" ELSE "no"

\* The carrier is read when the thread runs, and is the one this client keeps.
Serve(c, answering) ==
  /\ client[c].state = "accepted"
  /\ LET s == share[client[c].share]
         why == refused(client[c].hello, s.login)
     IN client' = [client EXCEPT ![c] =
          IF why # "no" THEN [state |-> "refused", why |-> why]
          ELSE IF s.target \notin answering THEN [state |-> "refused", why |-> "gateway"]
          ELSE [state |-> "carried", share |-> client[c].share, hello |-> @.hello,
                by |-> s.target]]
  /\ UNCHANGED <<door, share>>

\* A copy that ends, or a carrier that goes, ends the exchange.
Leaves(c) ==
  /\ client[c].state \in {"refused", "carried"}
  /\ client' = [client EXCEPT ![c] = Outside]
  /\ UNCHANGED <<door, share>>

(***************************************************************************)
(* Properties.                                                             *)
(***************************************************************************)
\* Whoever is carried through a share that wants a sign-in has given it.
SignedIn == \A c \in Clients :
  client[c].state = "carried" =>
    share[client[c].share].login \in {"", client[c].hello.login}
=============================================================================
