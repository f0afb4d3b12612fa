------------------------------ MODULE BotPause ------------------------------
(***************************************************************************)
(* The channel-operator verbs of internal/server/chanop.go for one bot in  *)
(* one channel.  Each handler runs in its operator's read loop and takes   *)
(* five steps: the pause row in the store, the webhook manager's pause     *)
(* set, the audit row, the message to the channel, the reply.  Nothing     *)
(* makes the five one, and a restart rebuilds the pause set by Reload.     *)
(***************************************************************************)
EXTENDS Integers, FiniteSets

CONSTANTS
    Operators,     \* connections joined with a moderator role
    Others,        \* connections without one
    MaxActions,    \* bound: verbs issued
    MaxCrashes,    \* bound: crashes of the process
    StoreMayFail   \* whether a call of the store may return an error

ASSUME BotPauseAssumption ==
    /\ Operators \cap Others = {}
    /\ MaxActions \in Nat
    /\ MaxCrashes \in Nat
    /\ StoreMayFail \in BOOLEAN

VARIABLES
    row,       \* the row of channel_bot_pauses exists
    paused,    \* the bot is in Manager.pauses
    req,       \* the request of a connection: [pc, id, pause]
    issued,    \* verbs issued so far
    resumes,   \* history: a resume verb has been issued
    overlap,   \* history: since the last start two verbs were handled at once
    audits,    \* channel_moderation_events: the verbs recorded
    messages,  \* system messages broadcast and put into the history
    unsent,    \* history: verbs whose system message did not fit a frame
    acks,      \* the verbs answered with ChanopOK, [id, pause]
    crashes    \* crashes so far

vars == <<row, paused, req, issued, resumes, overlap, audits, messages, unsent, acks, crashes>>
-----------------------------------------------------------------------------
Conns == Operators \cup Others
Ids == 1..MaxActions
Idle == [pc |-> "idle", id |-> 0, pause |-> FALSE]
PCs == {"idle", "resolve", "persist", "apply", "audit", "emit", "reply"}

Init ==
    /\ row = FALSE
    /\ paused = FALSE
    /\ req = [c \in Conns |-> Idle]
    /\ issued = 0
    /\ resumes = FALSE
    /\ overlap = FALSE
    /\ audits = {}
    /\ messages = {}
    /\ unsent = {}
    /\ acks = {}
    /\ crashes = 0

At(c, pc) == req[c].pc = pc
Goto(c, pc) == req' = [req EXCEPT ![c].pc = pc]
Return(c) == req' = [req EXCEPT ![c] = Idle]
-----------------------------------------------------------------------------
(* A ChanopPauseBot or ChanopResumeBot frame is dispatched. *)
Issue(c, p) ==
    /\ At(c, "idle")
    /\ issued < MaxActions
    /\ issued' = issued + 1
    /\ resumes' = (resumes \/ ~p)
    /\ overlap' = (overlap \/ \E d \in Conns : ~At(d, "idle"))
    /\ req' = [req EXCEPT ![c] = [pc |-> "resolve", id |-> issued + 1, pause |-> p]]
    /\ UNCHANGED <<row, paused, audits, messages, unsent, acks, crashes>>

(* resolveChanopTarget: the role cached on JOIN decides.  Bad names, ids   *)
(* and a failing store refuse an operator too.                             *)
Resolve(c) ==
    /\ At(c, "resolve")
    /\ c \in Operators
    /\ Goto(c, "persist")
    /\ UNCHANGED <<row, paused, issued, resumes, overlap, audits, messages, unsent, acks, crashes>>

Refuse(c) ==
    /\ At(c, "resolve")
    /\ Return(c)
    /\ UNCHANGED <<row, paused, issued, resumes, overlap, audits, messages, unsent, acks, crashes>>

(* SetChannelBotPause upserts, RemoveChannelBotPause deletes; a row that   *)
(* is not there is no error.                                               *)
Persist(c) ==
    /\ At(c, "persist")
    /\ row' = req[c].pause
    /\ Goto(c, "apply")
    /\ UNCHANGED <<paused, issued, resumes, overlap, audits, messages, unsent, acks, crashes>>

(* The store fails: an error frame, and nothing has happened. *)
PersistFailsIgnored(c) ==
    /\ At(c, "persist")
    /\ StoreMayFail
    /\ Goto(c, "apply")
    /\ UNCHANGED <<row, paused, issued, resumes, overlap, audits, messages, unsent, acks, crashes>>
PersistFails(c) ==
    /\ At(c, "persist")
    /\ StoreMayFail
    /\ Return(c)
    /\ UNCHANGED <<row, paused, issued, resumes, overlap, audits, messages, unsent, acks, crashes>>

(* Manager.SetBotPaused. *)
SetBotPaused(c) ==
    /\ At(c, "apply")
    /\ paused' = req[c].pause
    /\ Goto(c, "audit")
    /\ UNCHANGED <<row, issued, resumes, overlap, audits, messages, unsent, acks, crashes>>

(* recordChanopAudit: a failure is only logged. *)
RecordAuditGivesUp(c) ==
    /\ At(c, "audit")
    /\ \/ audits' = audits \cup {req[c].id} /\ Goto(c, "emit")
       \/ StoreMayFail /\ UNCHANGED audits /\ Goto(c, "reply")
    /\ UNCHANGED <<row, paused, issued, resumes, overlap, messages, unsent, acks, crashes>>
RecordAudit(c) ==
    /\ At(c, "audit")
    /\ \/ audits' = audits \cup {req[c].id}
       \/ StoreMayFail /\ UNCHANGED audits
    /\ Goto(c, "emit")
    /\ UNCHANGED <<row, paused, issued, resumes, overlap, messages, unsent, acks, crashes>>

(* emitChanopSystemMsg: broadcast, ring and history queue, unless the      *)
(* message, which carries the operator's reason, does not encode into a    *)
(* frame: that is logged and the handler goes on.                          *)
EmitSystemMsg(c) ==
    /\ At(c, "emit")
    /\ \/ messages' = messages \cup {req[c].id} /\ UNCHANGED unsent
       \/ unsent' = unsent \cup {req[c].id} /\ UNCHANGED messages
    /\ Goto(c, "reply")
    /\ UNCHANGED <<row, paused, issued, resumes, overlap, audits, acks, crashes>>

Reply(c) ==
    /\ At(c, "reply")
    /\ acks' = acks \cup {[id |-> req[c].id, pause |-> req[c].pause]}
    /\ Return(c)
    /\ UNCHANGED <<row, paused, issued, resumes, overlap, audits, messages, unsent, crashes>>

(* The process dies between any two steps and starts again: Reload builds  *)
(* the pause set from ListChannelBotPauses before anybody is served.       *)
ReloadedEmpty == FALSE
Reloaded == row
Restart ==
    /\ crashes < MaxCrashes
    /\ crashes' = crashes + 1
    /\ paused' = Reloaded
    /\ req' = [c \in Conns |-> Idle]
    /\ overlap' = FALSE
    /\ UNCHANGED <<row, issued, resumes, audits, messages, unsent, acks>>
-----------------------------------------------------------------------------
HandlerStep(c) ==
    \/ \E p \in BOOLEAN : Issue(c, p)
    \/ Resolve(c)
    \/ Refuse(c)
    \/ Persist(c)
    \/ PersistFails(c)
    \/ SetBotPaused(c)
    \/ RecordAudit(c)
    \/ EmitSystemMsg(c)
    \/ Reply(c)

Next == (\E c \in Conns : HandlerStep(c)) \/ Restart

Spec == Init /\ [][Next]_vars
-----------------------------------------------------------------------------
(* Every variable has its type. *)
TypeOK ==
    /\ row \in BOOLEAN /\ paused \in BOOLEAN /\ resumes \in BOOLEAN
    /\ req \in [Conns -> [pc : PCs, id : Ids \cup {0}, pause : BOOLEAN]]
    /\ issued \in 0..MaxActions
    /\ overlap \in BOOLEAN /\ audits \subseteq Ids
    /\ messages \subseteq Ids /\ unsent \subseteq Ids
    /\ acks \subseteq [id : Ids, pause : BOOLEAN]
    /\ crashes \in 0..MaxCrashes

Quiescent == \A c \in Conns : At(c, "idle")

(* chanop.go and manager.go, SetBotPaused: when no verb is being handled,  *)
(* the manager suppresses the bot exactly when the pause row exists,       *)
(* through failures of the store and crashes between any two steps, as     *)
(* long as two verbs were not handled at once since the last start.        *)
PausesAgree == (Quiescent /\ ~overlap) => (paused <=> row)

(* chanop.go, handleChanopPauseBot: a pause that was acknowledged to an    *)
(* operator stays in force, in the store and in the manager, through       *)
(* failures of the store, other operators' pauses and restarts, until      *)
(* somebody issues a resume.                                               *)
AckedPauseHolds == (acks # {} /\ ~resumes) => row /\ paused

(* OPERATORS.md: "an operator should never see success without the message *)
(* being visible in the channel": it holds when the audit row is lost, as  *)
(* the document has it, for every message that fits a frame.               *)
SuccessIsVisible == \A a \in acks : a.id \in messages \cup unsent

=============================================================================
