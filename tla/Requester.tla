------------------------------ MODULE Requester ------------------------------
(***************************************************************************)
(* What the controller promises whoever talks to it over the serial line:  *)
(* module Controller without the stepper, the sensor, the flash and the    *)
(* clock.  A request may be asked or expire at any moment; it is acted on  *)
(* at most once, and the line that says so is printed in the same step.    *)
(*                                                                         *)
(* ControllerRequests shows that Controller implements this specification. *)
(* SerialLink composes its steps with the host's.                          *)
(***************************************************************************)
EXTENDS Naturals, Sequences

CONSTANTS
    Ids,      \* the ids of requests
    NoId,     \* pendingRequestId while nothing waits
    UpCap     \* lines the controller can print before it has to wait

ASSUME RequesterAssumption == NoId \notin Ids /\ UpCap \in Nat \ {0}

VARIABLES
    request,  \* the id of the request that waits, or NoId
    purpose,  \* and what it asks for
    asked,    \* ids ever used
    locked,   \* the commanded lock target
    engine,   \* whether the engine is on
    down,     \* lines to the controller
    up        \* request lines to the host

outputs == <<locked, engine>>
requesterVars == <<request, purpose, asked, locked, engine, down, up>>

RawCommands == {"STATUS", "START", "STOP", "LOCK", "UNLOCK"}
Refusals == {"UNAUTHORIZED", "DENIED", "BUSY", "ERROR"}
AuthReplies == {"AUTH_PENDING", "AUTHORIZED"} \cup Refusals

Raw(c) == [cmd |-> c, id |-> NoId]
Reply(c, id) == [cmd |-> c, id |-> id]
HostLines == [cmd : RawCommands, id : {NoId}] \cup [cmd : AuthReplies, id : Ids]

StartAuth(p, id) == [cmd |-> "START_AUTH", id |-> id, purpose |-> p]
Ack(id) == [cmd |-> "AUTH_ACK", id |-> id, purpose |-> "none"]
Cancel(id) == [cmd |-> "AUTH_CANCEL", id |-> id, purpose |-> "none"]

RequestLines == [cmd : {"START_AUTH", "AUTH_ACK", "AUTH_CANCEL"}, id : Ids,
                 purpose : {"UNLOCK", "IGNITION", "none"}]

RequesterInit ==
    /\ request = NoId /\ purpose = "UNLOCK" /\ asked = {}
    /\ locked \in BOOLEAN /\ engine = FALSE
    /\ down = << >> /\ up = << >>

Says(line) == Len(up) < UpCap /\ up' = Append(up, line)

Take(line) == down # << >> /\ line = Head(down) /\ down' = Tail(down)

-----------------------------------------------------------------------------
Ask(id) ==
    /\ request = NoId /\ request' = id
    /\ ~engine /\ id \notin asked
    /\ purpose' = IF locked THEN "UNLOCK" ELSE "IGNITION"
    /\ asked' = asked \cup {id}
    /\ Says(StartAuth(purpose', id))
    /\ UNCHANGED <<outputs, down>>

(* The request that waits, if one does, is cancelled. *)
CallOff ==
    /\ request' = NoId
    /\ IF request = NoId THEN UNCHANGED up ELSE Says(Cancel(request))

Expire ==
    /\ request # NoId
    /\ CallOff
    /\ UNCHANGED <<purpose, asked, outputs, down>>

TakeCommand ==
    /\ \/ /\ Take(Raw("STATUS"))
          /\ UNCHANGED <<request, up, outputs>>
       \/ /\ Take(Raw("START"))
          /\ engine' = TRUE
          /\ UNCHANGED <<request, up, locked>>
       \/ /\ Take(Raw("STOP"))
          /\ CallOff
          /\ engine' = FALSE /\ UNCHANGED locked
       \/ /\ \E l \in BOOLEAN : Take(Raw(IF l THEN "LOCK" ELSE "UNLOCK")) /\ locked' = l
          /\ CallOff
          /\ UNCHANGED engine
    /\ UNCHANGED <<purpose, asked>>

(* Only what the purpose still fits is acted on. *)
Fits == (purpose = "UNLOCK") = locked

TakeAuthorized(id) ==
    /\ request = id
    /\ Take(Reply("AUTHORIZED", id))
    /\ request' = NoId
    /\ Says(IF Fits THEN Ack(id) ELSE Cancel(id))
    /\ locked' = (locked /\ ~(Fits /\ purpose = "UNLOCK"))
    /\ engine' = (engine \/ (Fits /\ purpose = "IGNITION"))
    /\ UNCHANGED <<purpose, asked>>

TakeRefusal(id) ==
    /\ request = id
    /\ \E c \in Refusals : Take(Reply(c, id))
    /\ request' = NoId
    /\ UNCHANGED <<purpose, asked, outputs, up>>

(* The deadline has passed: no reply revives the request. *)
TakeLate(id) ==
    /\ request # NoId
    /\ \E c \in AuthReplies : Take(Reply(c, id))
    /\ CallOff
    /\ UNCHANGED <<purpose, asked, outputs>>

TakeUnheeded(id) ==
    /\ \E c \in AuthReplies :
         (c = "AUTH_PENDING" \/ request # id) /\ Take(Reply(c, id))
    /\ UNCHANGED <<request, purpose, asked, outputs, up>>

TakeReply ==
    /\ down # << >>
    /\ \E id \in Ids : TakeAuthorized(id) \/ TakeRefusal(id)
                        \/ TakeLate(id) \/ TakeUnheeded(id)

(* The lock comes back as the flash has it; ids of the boot that ended are *)
(* never used again. *)
Restart ==
    /\ request' = NoId /\ purpose' = "UNLOCK" /\ engine' = FALSE
    /\ locked' \in BOOLEAN
    /\ down' = << >>
    /\ asked' \in SUBSET Ids /\ asked \subseteq asked'
    /\ UNCHANGED up

-----------------------------------------------------------------------------
RequesterNext ==
    \/ \E id \in Ids : Ask(id)
    \/ Expire
    \/ TakeCommand
    \/ TakeReply
    \/ Restart
    \/ /\ Len(down') > Len(down)
       /\ \E line \in HostLines : down' = Append(down, line)
       /\ UNCHANGED <<request, purpose, asked, outputs, up>>
    \/ /\ up # << >> /\ up' = Tail(up)
       /\ UNCHANGED <<request, purpose, asked, outputs, down>>

RequesterSpec == RequesterInit /\ [][RequesterNext]_requesterVars
=============================================================================
