------------------------------- MODULE Client -------------------------------
(***************************************************************************)
(* The terminal client (cmd/prm): one program that handles messages one at *)
(* a time (Update), the goroutines that send it messages, and its          *)
(* connections.                                                            *)
(*                                                                         *)
(* Every call of dialAndAuth has a number, and life says what has become   *)
(* of it: of the goroutine that dials, then of the pump that reads from    *)
(* the connection it made.  A goroutine blocks in Send until its message   *)
(* is handled, so it has at most one message pending, and messages of      *)
(* different goroutines are handled in any order.  Lines on the screen are *)
(* left out.                                                               *)
(***************************************************************************)
EXTENDS Naturals, Sequences, FiniteSets

CONSTANTS
    OpMode,        \* --op: the roster and the pause key
    Accounts,      \* numbers, in the order of the roster
    Bots,          \* those of them that are bots
    MaxFrameSize,
    FrameSizes,    \* lengths of the frames the server may have to send
    OutboundQueueSize,  \* capacity of the server's queue of a connection
    MaxFaults,     \* bound: dials that fail, connections that break, requests refused
    MaxChanges,    \* bound: changes of the server's roster by others
    MaxVerbs       \* bound: presses of the pause key

ASSUME BoundsAssumption ==
    /\ Accounts \subseteq Nat
    /\ OpMode \in BOOLEAN
    /\ MaxFaults \in Nat /\ MaxChanges \in Nat /\ MaxVerbs \in Nat

Dials == 1..(MaxFaults + 1)
Rosters == [here : SUBSET Accounts, paused : SUBSET Bots]
Verbs == [bot : Bots, pause : BOOLEAN]
Frames == [kind : {"members"}, roster : Rosters] \cup [kind : {"chanop_ok", "error"}]

VARIABLES
    life,          \* dial number -> what its goroutine does, see Lives
    alive,         \* dials whose connection works both ways
    dialled,       \* how many dials were started
    wait,          \* the delay and attempt number of the last scheduleReconnect
    cli,           \* model.cli
    reconnecting,  \* model.reconnecting
    reconnectN,    \* model.reconnectN
    start,         \* the Cmd of Init: "join", then "joinedMsg", then "done"
    joins,         \* Cmds of reconnects that have not sent their Join yet
    ticks,         \* membersTick timers
    members,       \* model.members
    rosterCursor,  \* model.rosterCursor
    joined,        \* connections on which the server got a Join
    asked,         \* a Members request is under way on model.cli
    verbs,         \* pause and resume requests under way on model.cli
    replies,       \* the server's send queue of model.cli
    served,        \* the server's roster of the channel
    faults, changes, pressed,  \* history: counters
    quit           \* the program has ended

linkVars == <<life, alive, dialled, wait, cli, reconnecting, reconnectN>>
opVars == <<members, rosterCursor, verbs, served, changes, pressed>>
clientVars == <<linkVars, opVars, start, joins, ticks, joined, asked, replies, faults, quit>>

Lives == {"unused",
          "dialling",      \* in dialAndAuth, or in the delay before it
          "failedMsg",     \* reconnectFailedMsg pending
          "connectedMsg",  \* reconnectedMsg pending
          "pumping",       \* pumpInto reads
          "lostMsg",       \* disconnectMsg pending
          "over"}

NoRoster == [here |-> {}, paused |-> {}]

(* main dials before the program starts, and gives up when that fails. *)
ClientInit ==
    /\ life = [i \in Dials |-> IF i = 1 THEN "pumping" ELSE "unused"]
    /\ alive = {1}
    /\ dialled = 1
    /\ wait = [delay |-> 0, attempt |-> 0]
    /\ cli = 1
    /\ reconnecting = FALSE
    /\ reconnectN = 0
    /\ start = "join"
    /\ joins = 0
    /\ ticks = 0
    /\ members = NoRoster
    /\ rosterCursor = 0
    /\ joined = {}
    /\ asked = FALSE
    /\ verbs = {}
    /\ replies = <<>>
    /\ served \in {[here |-> h, paused |-> {}] : h \in SUBSET Accounts}
    /\ faults = 0
    /\ changes = 0
    /\ pressed = 0
    /\ quit = FALSE
-----------------------------------------------------------------------------
(***************************************************************************)
(* Frames.  Encode accepts a line of MaxFrameSize bytes; the buffer of the *)
(* decoder has room for that many and not for the newline after them.      *)
(***************************************************************************)
Encodable(n) == n <= MaxFrameSize
Decodable(n) == n + 1 <= MaxFrameSize

(* send on model.cli reaches the server while the connection works; the    *)
(* error is ignored otherwise.                                             *)
SendJoin == joined' = IF cli \in alive THEN joined \cup {cli} ELSE joined
SendMembersOnFirst == asked' = (asked \/ (1 \in alive /\ cli = 1))
SendMembers == asked' = (asked \/ cli \in alive)
-----------------------------------------------------------------------------
(***************************************************************************)
(* Faults.                                                                 *)
(***************************************************************************)
Fault == ~quit /\ faults < MaxFaults /\ faults' = faults + 1

(* The network or the server ends the connection. *)
Break(i) ==
    /\ Fault
    /\ i \in alive
    /\ alive' = alive \ {i}
    /\ UNCHANGED <<life, dialled, wait, cli, reconnecting, reconnectN, opVars,
                   start, joins, ticks, joined, asked, replies, quit>>

(* pumpInto returns at the first error of Decode. *)
PumpReturns(i) == life' = [life EXCEPT ![i] = "lostMsg"]
PumpEnds(i) ==
    /\ ~quit
    /\ life[i] = "pumping" /\ i \notin alive
    /\ PumpReturns(i)
    /\ UNCHANGED <<alive, dialled, wait, cli, reconnecting, reconnectN, opVars,
                   start, joins, ticks, joined, asked, replies, faults, quit>>

(* The server sends a frame it may send and the client cannot read.  The   *)
(* pump gives up on a connection that is open.                             *)
DecodeFails(i) ==
    /\ Fault
    /\ life[i] = "pumping" /\ i \in alive
    /\ \E n \in FrameSizes : Encodable(n) /\ ~Decodable(n)
    /\ PumpReturns(i)
    /\ UNCHANGED <<alive, dialled, wait, cli, reconnecting, reconnectN, opVars,
                   start, joins, ticks, joined, asked, replies, quit>>
-----------------------------------------------------------------------------
(***************************************************************************)
(* Reconnecting.                                                           *)
(***************************************************************************)

(* time.Second << attempt in 64 bits.  10^9 = 1953125 * 2^9, so the word   *)
(* is OddPart(attempt) * 2^(9 + attempt); when that is neither zero nor    *)
(* the exact product it is negative or far above 30 seconds.               *)
OddPart(attempt) ==
    IF attempt >= 55 THEN 0 ELSE IF attempt <= 34 THEN 1953125 ELSE 1953125 % 2^(55 - attempt)

(* In seconds. *)
backoffForMillis(attempt) == 1000 * 2^attempt
backoffFor(attempt) ==
    IF OddPart(attempt) = 0 THEN 0 ELSE IF attempt >= 5 THEN 30 ELSE 2^attempt

(* The goroutine i whose message is handled ends, and a dial begins.       *)
scheduleReconnectLeaving(i, delay, attempt) ==
    /\ dialled' = dialled + 1
    /\ wait' = [delay |-> delay, attempt |-> attempt]
    /\ life' = [life EXCEPT ![dialled + 1] = "dialling"]
scheduleReconnect(i, delay, attempt) ==
    /\ dialled' = dialled + 1
    /\ wait' = [delay |-> delay, attempt |-> attempt]
    /\ life' = [life EXCEPT ![i] = "over", ![dialled + 1] = "dialling"]

(* disconnectMsg *)
Disconnected(i) ==
    /\ ~quit
    /\ life[i] = "lostMsg"
    /\ IF reconnecting
       THEN /\ life' = [life EXCEPT ![i] = "over"]
            /\ UNCHANGED <<dialled, wait, reconnecting, reconnectN>>
       ELSE /\ reconnecting' = TRUE
            /\ reconnectN' = 1
            /\ scheduleReconnect(i, 0, 1)
    /\ UNCHANGED <<alive, cli, opVars, start, joins, ticks, joined, asked, replies, faults, quit>>

RedialFails(i) ==
    /\ Fault
    /\ life[i] = "dialling"
    /\ life' = [life EXCEPT ![i] = "failedMsg"]
    /\ UNCHANGED <<alive, dialled, wait, cli, reconnecting, reconnectN, opVars,
                   start, joins, ticks, joined, asked, replies, quit>>

RedialSucceeds(i) ==
    /\ ~quit
    /\ life[i] = "dialling"
    /\ life' = [life EXCEPT ![i] = "connectedMsg"]
    /\ alive' = alive \cup {i}
    /\ UNCHANGED <<dialled, wait, cli, reconnecting, reconnectN, opVars,
                   start, joins, ticks, joined, asked, replies, faults, quit>>

(* reconnectFailedMsg *)
ReconnectFailed(i) ==
    /\ ~quit
    /\ life[i] = "failedMsg"
    /\ reconnectN' = wait.attempt + 1
    /\ scheduleReconnect(i, backoffFor(wait.attempt), wait.attempt + 1)
    /\ UNCHANGED <<alive, cli, reconnecting, opVars, start, joins, ticks, joined, asked, replies,
                   faults, quit>>

(* reconnectedMsg.  The old connection is not closed. *)
Reconnected(i) ==
    /\ ~quit
    /\ life[i] = "connectedMsg"
    /\ cli' = i
    /\ reconnecting' = FALSE
    /\ reconnectN' = 0
    /\ life' = [life EXCEPT ![i] = "pumping"]
    /\ joins' = joins + 1
    /\ asked' = FALSE
    /\ verbs' = {}
    /\ replies' = <<>>
    /\ UNCHANGED <<alive, dialled, wait, members, rosterCursor, served, changes, pressed,
                   start, ticks, joined, faults, quit>>

(* The Cmd of a reconnect sends on the model.cli of the moment.            *)
Rejoin ==
    /\ ~quit
    /\ joins > 0
    /\ joins' = joins - 1
    /\ SendJoin
    /\ UNCHANGED <<linkVars, opVars, start, ticks, asked, replies, faults, quit>>
-----------------------------------------------------------------------------
(***************************************************************************)
(* Start-up and the timer of the roster.                                   *)
(***************************************************************************)
InitJoin ==
    /\ ~quit
    /\ start = "join"
    /\ start' = "joinedMsg"
    /\ SendJoin
    /\ UNCHANGED <<linkVars, opVars, joins, ticks, asked, replies, faults, quit>>

scheduleMembersTick == IF OpMode THEN 1 ELSE 0

Joined ==
    /\ ~quit
    /\ start = "joinedMsg"
    /\ start' = "done"
    /\ IF OpMode THEN SendMembers ELSE UNCHANGED asked
    /\ ticks' = ticks + scheduleMembersTick
    /\ UNCHANGED <<linkVars, opVars, joins, joined, replies, faults, quit>>

MembersTick ==
    /\ ~quit
    /\ ticks > 0
    /\ SendMembers
    /\ ticks' = (ticks - 1) + scheduleMembersTick
    /\ UNCHANGED <<linkVars, opVars, start, joins, joined, replies, faults, quit>>
-----------------------------------------------------------------------------
(***************************************************************************)
(* The roster.                                                             *)
(***************************************************************************)
Pumped(kind) ==
    /\ ~quit
    /\ life[cli] = "pumping" /\ cli \in alive
    /\ replies # <<>> /\ Head(replies).kind = kind
    /\ replies' = Tail(replies)

Clamped(cursor, n) == IF cursor >= n THEN 0 ELSE cursor

(* membersMsg *)
Members ==
    /\ Pumped("members")
    /\ members' = Head(replies).roster
    /\ rosterCursor' = Clamped(rosterCursor, Cardinality(members'.here))
    /\ UNCHANGED <<linkVars, verbs, served, changes, pressed, start, joins, ticks, joined, asked,
                   faults, quit>>

(* chanopOKMsg *)
ChanopOK ==
    /\ Pumped("chanop_ok")
    /\ SendMembers
    /\ UNCHANGED <<linkVars, opVars, start, joins, ticks, joined, faults, quit>>

(* serverErrorMsg: a line on the screen, and nothing is asked again. *)
ServerError ==
    /\ Pumped("error")
    /\ UNCHANGED <<linkVars, opVars, start, joins, ticks, joined, asked, faults, quit>>

(* The keys up and down, r and p. *)
MoveCursor ==
    /\ ~quit /\ OpMode
    /\ \/ rosterCursor > 0 /\ rosterCursor' = rosterCursor - 1
       \/ rosterCursor + 1 < Cardinality(members.here) /\ rosterCursor' = rosterCursor + 1
    /\ UNCHANGED <<linkVars, members, verbs, served, changes, pressed, start, joins, ticks, joined,
                   asked, replies, faults, quit>>

Refresh ==
    /\ ~quit /\ OpMode
    /\ SendMembers
    /\ UNCHANGED <<linkVars, opVars, start, joins, ticks, joined, replies, faults, quit>>

Selected == {a \in members.here : Cardinality({b \in members.here : b < a}) = rosterCursor}

togglePauseSelected ==
    /\ ~quit /\ OpMode
    /\ pressed < MaxVerbs /\ pressed' = pressed + 1
    /\ \E a \in Selected \cap Bots :
          verbs' = IF cli \in alive
                   THEN verbs \cup {[bot |-> a, pause |-> a \notin members.paused]}
                   ELSE verbs
    /\ UNCHANGED <<linkVars, members, rosterCursor, served, changes, start, joins, ticks, joined,
                   asked, replies, faults, quit>>

Quit ==
    /\ ~quit
    /\ quit' = TRUE
    /\ UNCHANGED <<linkVars, opVars, start, joins, ticks, joined, asked, replies, faults>>
-----------------------------------------------------------------------------
(***************************************************************************)
(* The server, as the client sees it.                                      *)
(***************************************************************************)
(* A frame for which the queue has no room is dropped. *)
Enqueue(frame) ==
    replies' = IF Len(replies) < OutboundQueueSize THEN Append(replies, frame) ELSE replies

ServerRoster ==
    /\ ~quit
    /\ asked /\ cli \in alive
    /\ asked' = FALSE
    /\ Enqueue([kind |-> "members", roster |-> served])
    /\ UNCHANGED <<linkVars, opVars, start, joins, ticks, joined, faults, quit>>

(* The channel is gone or closed to the account, the store fails, or the   *)
(* answer is too long for a frame and is not sent at all.                  *)
RosterMissed ==
    /\ Fault
    /\ asked /\ cli \in alive
    /\ asked' = FALSE
    /\ \/ Enqueue([kind |-> "error"])
       \/ (\E n \in FrameSizes : ~Encodable(n)) /\ UNCHANGED replies
    /\ UNCHANGED <<linkVars, opVars, start, joins, ticks, joined, quit>>

(* Whoever has joined may pause and resume. *)
ServerVerb ==
    /\ ~quit
    /\ cli \in alive \cap joined
    /\ \E v \in verbs :
          /\ verbs' = verbs \ {v}
          /\ served' = [served EXCEPT !.paused = IF v.pause THEN @ \cup {v.bot} ELSE @ \ {v.bot}]
    /\ Enqueue([kind |-> "chanop_ok"])
    /\ UNCHANGED <<linkVars, members, rosterCursor, changes, pressed, start, joins, ticks, joined,
                   asked, faults, quit>>

(* Others are refused, and so is an account without the role, or for a bot *)
(* that is gone; or the store fails.                                       *)
VerbRefused ==
    /\ cli \in alive
    /\ Fault \/ (~quit /\ cli \notin joined /\ UNCHANGED faults)
    /\ \E v \in verbs : verbs' = verbs \ {v}
    /\ Enqueue([kind |-> "error"])
    /\ UNCHANGED <<linkVars, members, rosterCursor, served, changes, pressed, start, joins, ticks,
                   joined, asked, quit>>

ServerChanges(a) ==
    /\ ~quit
    /\ changes < MaxChanges /\ changes' = changes + 1
    /\ served' = [served EXCEPT !.here = IF a \in @ THEN @ \ {a} ELSE @ \cup {a}]
    /\ UNCHANGED <<linkVars, members, rosterCursor, verbs, pressed, start, joins, ticks, joined,
                   asked, replies, faults, quit>>
-----------------------------------------------------------------------------
Goroutine(i) ==
    \/ PumpEnds(i) \/ Disconnected(i) \/ RedialSucceeds(i) \/ ReconnectFailed(i) \/ Reconnected(i)
Command == InitJoin \/ Joined \/ Rejoin \/ MembersTick
Incoming == Members \/ ChanopOK \/ ServerError
Server == ServerRoster \/ RosterMissed \/ ServerVerb \/ VerbRefused

ClientNext ==
    \/ \E i \in Dials : Goroutine(i) \/ Break(i) \/ DecodeFails(i) \/ RedialFails(i)
    \/ Command \/ Incoming \/ Server
    \/ MoveCursor \/ Refresh \/ togglePauseSelected \/ Quit
    \/ \E a \in Accounts : ServerChanges(a)

ClientSpec == ClientInit /\ [][ClientNext]_clientVars

(* Goroutines run, timers fire, messages sent to the program are handled,  *)
(* a dial ends, and a server that works answers Members.  A dial ends well *)
(* and the answer is the roster, unless it is one of the MaxFaults.        *)
ClientFairness ==
    /\ \A i \in Dials : WF_clientVars(Goroutine(i))
    /\ WF_clientVars(InitJoin) /\ WF_clientVars(Joined)
    /\ WF_clientVars(Rejoin) /\ WF_clientVars(MembersTick)
    /\ WF_clientVars(Incoming) /\ WF_clientVars(ServerRoster)

ClientFairSpec == ClientSpec /\ ClientFairness
-----------------------------------------------------------------------------
(* Every variable has its type; Dials are never used up. *)
ClientTypeOK ==
    /\ life \in [Dials -> Lives]
    /\ alive \subseteq Dials
    /\ dialled \in Dials
    /\ wait \in [delay : 0..30, attempt : 0..(MaxFaults + 1)]
    /\ cli \in Dials
    /\ reconnecting \in BOOLEAN
    /\ reconnectN \in 0..(MaxFaults + 1)
    /\ start \in {"join", "joinedMsg", "done"}
    /\ joins \in 0..MaxFaults
    /\ ticks \in Nat
    /\ members \in Rosters
    /\ rosterCursor \in Nat
    /\ joined \subseteq Dials
    /\ asked \in BOOLEAN
    /\ verbs \subseteq Verbs
    /\ replies \in Seq(Frames)
    /\ served \in Rosters
    /\ <<faults, changes, pressed>> \in (0..MaxFaults) \X (0..MaxChanges) \X (0..MaxVerbs)
    /\ quit \in BOOLEAN

(* Update's three reconnect messages: however connections break and dials  *)
(* fail, exactly one goroutine is in charge of the link; it pumps the      *)
(* connection the model writes to, or a dial is under way and the model    *)
(* knows.  No second pump, no second chain of dials, and no link that      *)
(* nobody looks after.                                                     *)
InCharge(i) == life[i] \in {"dialling", "failedMsg", "connectedMsg", "pumping", "lostMsg"}
OneDriver ==
    \E i \in Dials :
        /\ InCharge(i)
        /\ \A j \in Dials : InCharge(j) => j = i
        /\ IF reconnecting THEN life[i] \in {"dialling", "failedMsg", "connectedMsg"}
                           ELSE life[i] \in {"pumping", "lostMsg"} /\ i = cli


(* "the [paused] badge": when pauses, resumes and membership settle, and   *)
(* requests are not refused for ever, an operator's roster ends up as the  *)
(* server's: over a reconnect, after answers that failed, were too long or *)
(* found the queue full, and although a refused verb asks for no roster.   *)
RosterCatchesUp == <>[](quit \/ ~OpMode \/ members = served)
=============================================================================
