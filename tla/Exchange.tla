-------------------------------- MODULE Exchange --------------------------------
(***************************************************************************)
(* What the server promises its clients, without descriptors, fd sets,     *)
(* servers or passes: a client asks and is answered, each answer runs from *)
(* its beginning to its end, and nobody is dropped without a reason he     *)
(* knows of.  EventLoop is shown to implement it.                          *)
(***************************************************************************)
EXTENDS Integers

CONSTANT Clients

VARIABLES
  phase,   (* closed, idle, asking, asked (all is read) or answering        *)
  left,    (* how much of the answer is still to come, 0 if there is none   *)
  code,    (* the kind of the answer: ok, error, or NULL                    *)
  gone,    (* the clients that have left                                    *)
  blocked, (* the clients that do not take what they are sent               *)
  told     (* the clients that were told why they are dropped               *)

exchangeVars == <<phase, left, code, gone, blocked, told>>

Init ==
  /\ phase = [c \in Clients |-> "closed"]
  /\ left = [c \in Clients |-> 0]
  /\ code = [c \in Clients |-> "NULL"]
  /\ told = {}

-----------------------------------------------------------------------------
(* What one client may see in a step.                                      *)
Becomes(c, p) == phase'[c] = p /\ left'[c] = 0 /\ code'[c] = "NULL"

Stays(c) == phase'[c] = phase[c] /\ left'[c] = left[c] /\ code'[c] = code[c]

(* A client that connects inherits nothing from an earlier one.            *)
Connects(c) == phase[c] = "closed" /\ Becomes(c, "idle") /\ c \notin gone' \cup told'

Asks(c) == phase[c] \in {"idle", "asking"} /\ (Becomes(c, "asking") \/ Becomes(c, "asked"))

AnswerBegins(c) ==
  /\ phase[c] = "asked" /\ phase'[c] = "answering"
  /\ left'[c] > 0 /\ code'[c] \in {"ok", "error"}

(* The same answer goes on: it is not replaced, repeated or begun again.   *)
AnswerGoesOn(c) ==
  /\ phase[c] = "answering" /\ phase'[c] = "answering"
  /\ left'[c] > 0 /\ left'[c] < left[c] /\ code'[c] = code[c]

(* All of it has come; after an error the connection is closed.            *)
AnswerEnds(c) ==
  /\ phase[c] = "answering"
  /\ Becomes(c, IF code[c] = "ok" THEN "idle" ELSE "closed")

(* A client is dropped if it has left, if it is told (it has asked for     *)
(* nothing), if it never ends asking, or if it does not take its answer.   *)
Drops(c) ==
  /\ phase[c] # "closed" /\ Becomes(c, "closed")
  /\ \/ c \in gone
     \/ phase[c] = "idle" /\ c \in told'
     \/ phase[c] = "asking"
     \/ phase[c] \in {"asked", "answering"} /\ c \in blocked

Step(c) ==
  \/ Stays(c) \/ Connects(c) \/ Asks(c)
  \/ AnswerBegins(c) \/ AnswerGoesOn(c) \/ AnswerEnds(c) \/ Drops(c)

(* Nobody is told anything in the middle of an exchange.                   *)
Telling(c) == c \in told' => c \in told \/ (phase[c] = "idle" /\ phase'[c] = "closed")

Next == \A c \in Clients : Step(c) /\ Telling(c)

SafeSpec == Init /\ [][Next]_exchangeVars

(* Who has asked is answered, or dropped for one of the reasons above.     *)
Waiting(c) == phase[c] \in {"asked", "answering"}
Served == \A c \in Clients : Waiting(c) ~> ~Waiting(c)

Spec == SafeSpec /\ Served
=============================================================================
