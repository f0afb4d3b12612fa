------------------------------- MODULE Access -------------------------------
(***************************************************************************)
(* Logins, joins and control-plane requests of the running server against  *)
(* the tables of Directory, which admin commands change meanwhile          *)
(* (internal/auth, internal/server/conn.go, internal/rest).                *)
(*                                                                         *)
(* Every store access that can see different data at different times is a  *)
(* step: the credential, the status of its tenant, the access list twice   *)
(* in a join.  A handler works on one frame or request at a time.          *)
(***************************************************************************)
EXTENDS Directory

CONSTANTS
    Conns,  \* client connections
    Reqs    \* REST requests, inbound posts included

Handlers == Conns \cup Reqs

(* Identities.  None, or an account in a tenant. *)
Who == [tenant : Tenants, account : AccountIds]

(* What a handler works on.  late: the credential was revoked, or its      *)
(* tenant suspended, before the request arrived (history).                 *)
Idle == [op |-> "none", pc |-> "idle"]
LoginTasks == [op : {"password"}, pc : {"tenant", "finish"}, tenant : Tenants, name : Names,
               late : BOOLEAN]
BearerTasks == [op : {"token", "rest", "inbound"}, pc : {"lookup"}, cred : TokenIds \cup IntegIds,
                late : BOOLEAN]
FoundTasks == [op : {"token", "rest", "inbound"}, pc : {"tenant", "finish"}, who : Who,
               channel : ChannelIds \cup {None}, cred : TokenIds \cup IntegIds, late : BOOLEAN]
JoinTasks == [op : {"join"}, pc : {"role"}, name : ChanNames, channel : ChannelIds]

Challenges == [tenant : Tenants, account : AccountIds, late : BOOLEAN]
Sessions == [who : Who, proved : AccountIds, late : BOOLEAN]
Seats == [channel : ChannelIds, role : Roles \cup {None}]

VARIABLES
    task,       \* handler -> the frame or request it works on
    chal,       \* Conn.pendingChal
    session,    \* Conn.tenantID, accountID and authed; the credential shown (history)
    joined,     \* Conn.joinedChannels and joinedRoles
    subs,       \* the subscriptions table: tenant, account, channel
    published   \* history: what inbound posts published

sessVars == <<task, chal, session, joined, subs, published>>
vars == <<dirVars, sessVars>>

Init ==
    /\ DirInit
    /\ task = [h \in Handlers |-> Idle]
    /\ chal = [c \in Conns |-> None]
    /\ session = [c \in Conns |-> None]
    /\ joined = [c \in Conns |-> [n \in ChanNames |-> None]]
    /\ subs = {}
    /\ published = {}

Done(h) == task' = [task EXCEPT ![h] = Idle]
-----------------------------------------------------------------------------
(***************************************************************************)
(* Requests arrive.  A connection reads login frames until it is           *)
(* authenticated, and other verbs after that.                              *)
(***************************************************************************)
Suspended(t) == tenants[t] = "suspended"

Revoked(cred) ==
    \E x \in tokens : x.id = cred /\ (x.revoked \/ Suspended(x.tenant))
Disabled(cred) ==
    \E x \in integrations : x.id = cred /\ (x.disabled \/ Suspended(x.tenant))

PasswordRequest(c, t, n) ==
    /\ task[c] = Idle
    /\ session[c] = None
    /\ task' = [task EXCEPT ![c] = [op |-> "password", pc |-> "tenant", tenant |-> t, name |-> n,
                                    late |-> Suspended(t)]]
    /\ UNCHANGED <<dirVars, chal, session, joined, subs, published>>

BearerRequest(h, op, cred, late) ==
    /\ task[h] = Idle
    /\ h \in Conns => session[h] = None
    /\ task' = [task EXCEPT ![h] = [op |-> op, pc |-> "lookup", cred |-> cred, late |-> late]]
    /\ UNCHANGED <<dirVars, chal, session, joined, subs, published>>

(* Any lookup may fail for other reasons: an unknown credential, malformed *)
(* JSON, an id that does not match the path, an adapter that refuses, the  *)
(* store.  The handler answers with an error and changes nothing; a        *)
(* challenge issued before stays pending.                                  *)
Refuse(h) ==
    /\ task[h] # Idle
    /\ Done(h)
    /\ UNCHANGED <<dirVars, chal, session, joined, subs, published>>
-----------------------------------------------------------------------------
(***************************************************************************)
(* AuthenticateToken, the middleware of the REST server and handleInbound: *)
(* the credential first, then the status of its tenant.                    *)
(***************************************************************************)
Found(h, who, channel) ==
    task' = [task EXCEPT ![h] = [op |-> task[h].op, pc |-> "tenant", who |-> who,
                                 channel |-> channel, cred |-> task[h].cred, late |-> task[h].late]]

LookupToken(h) ==
    /\ task[h].op \in {"token", "rest"} /\ task[h].pc = "lookup"
    /\ \E x \in GetTokenByHash(task[h].cred) :
          Found(h, [tenant |-> x.tenant, account |-> x.account], None)
    /\ UNCHANGED <<dirVars, chal, session, joined, subs, published>>

LookupIntegration(h) ==
    /\ task[h].op = "inbound" /\ task[h].pc = "lookup"
    /\ \E x \in GetIntegrationByTokenHash(task[h].cred) :
          Found(h, [tenant |-> x.tenant, account |-> x.account], x.channel)
    /\ UNCHANGED <<dirVars, chal, session, joined, subs, published>>

TenantOf(h) == IF task[h].op = "password" THEN task[h].tenant ELSE task[h].who.tenant

CheckTenantExists(h) ==
    /\ task[h].pc = "tenant"
    /\ tenants[TenantOf(h)] # None
    /\ task' = [task EXCEPT ![h].pc = "finish"]
    /\ UNCHANGED <<dirVars, chal, session, joined, subs, published>>
CheckTenant(h) ==
    /\ task[h].pc = "tenant"
    /\ tenants[TenantOf(h)] = "active"
    /\ task' = [task EXCEPT ![h].pc = "finish"]
    /\ UNCHANGED <<dirVars, chal, session, joined, subs, published>>
-----------------------------------------------------------------------------
(***************************************************************************)
(* Logins.                                                                 *)
(***************************************************************************)

(* BeginPasswordAuth found the account; a newer challenge replaces the     *)
(* pending one.                                                            *)
IssueChallenge(c) ==
    /\ task[c].op = "password" /\ task[c].pc = "finish"
    /\ \E a \in GetAccountByUsername(task[c].tenant, task[c].name) :
          chal' = [chal EXCEPT ![c] = [tenant |-> task[c].tenant, account |-> a.id,
                                       late |-> task[c].late]]
    /\ Done(c)
    /\ UNCHANGED <<dirVars, session, joined, subs, published>>

(* handleAuthResponse with the proof of account a's password.  The         *)
(* challenge is spent whether the proof fits or not.  The status of the    *)
(* tenant is not looked at again.                                          *)
AuthResponseAnyProof(c, a) ==
    /\ task[c] = Idle /\ session[c] = None
    /\ chal[c] # None
    /\ chal' = [chal EXCEPT ![c] = None]
    /\ \E r \in GetAccountByID(chal[c].tenant, chal[c].account) :
          session' = [session EXCEPT ![c] = [who |-> [tenant |-> r.tenant, account |-> r.id],
                                             proved |-> a, late |-> chal[c].late]]
    /\ UNCHANGED <<dirVars, task, joined, subs, published>>
AuthResponse(c, a) ==
    /\ task[c] = Idle /\ session[c] = None
    /\ chal[c] # None
    /\ chal' = [chal EXCEPT ![c] = None]
    /\ \E r \in GetAccountByID(chal[c].tenant, chal[c].account) :
          session' = IF r.id = a
                     THEN [session EXCEPT ![c] = [who |-> [tenant |-> r.tenant, account |-> r.id],
                                                  proved |-> a, late |-> chal[c].late]]
                     ELSE session
    /\ UNCHANGED <<dirVars, task, joined, subs, published>>

(* A challenge pending beside a token login is kept and never used.        *)
TokenLogin(c) ==
    /\ task[c].op = "token" /\ task[c].pc = "finish"
    /\ \E r \in GetAccountByID(task[c].who.tenant, task[c].who.account),
          k \in {x \in tokens : x.id = task[c].cred} :
          session' = [session EXCEPT ![c] = [who |-> [tenant |-> r.tenant, account |-> r.id],
                                             proved |-> k.account, late |-> task[c].late]]
    /\ Done(c)
    /\ UNCHANGED <<dirVars, chal, joined, subs, published>>

Disconnect(c) ==
    /\ task[c] = Idle
    /\ session[c] # None \/ chal[c] # None
    /\ chal' = [chal EXCEPT ![c] = None]
    /\ session' = [session EXCEPT ![c] = None]
    /\ joined' = [joined EXCEPT ![c] = [n \in ChanNames |-> None]]
    /\ UNCHANGED <<dirVars, task, subs, published>>
-----------------------------------------------------------------------------
(***************************************************************************)
(* Verbs of an authenticated connection.                                   *)
(***************************************************************************)
Me(c) == session[c].who

canJoinAnyRole(c, ch) ==
    ch.visibility = "public" \/ GetChannelACL(Me(c).tenant, ch.id, Me(c).account) # {}
canJoin(c, ch) ==
    \/ ch.visibility = "public"
    \/ \E e \in GetChannelACL(Me(c).tenant, ch.id, Me(c).account) : CanJoin(e.role)

JoinCheck(c, n) ==
    /\ task[c] = Idle /\ session[c] # None
    /\ \E ch \in GetChannelByName(Me(c).tenant, n) :
          /\ canJoin(c, ch)
          /\ task' = [task EXCEPT ![c] = [op |-> "join", pc |-> "role", name |-> n,
                                          channel |-> ch.id]]
    /\ UNCHANGED <<dirVars, chal, session, joined, subs, published>>

(* The role is read a second time, and may have changed or gone.           *)
Join(c) ==
    /\ task[c].op = "join"
    /\ LET acls == GetChannelACL(Me(c).tenant, task[c].channel, Me(c).account)
       IN  \E role \in (IF acls = {} THEN {None} ELSE {e.role : e \in acls}) :
              joined' = [joined EXCEPT ![c][task[c].name] =
                            [channel |-> task[c].channel, role |-> role]]
    /\ Done(c)
    /\ UNCHANGED <<dirVars, chal, session, subs, published>>

Part(c, n) ==
    /\ task[c] = Idle /\ session[c] # None
    /\ joined[c][n] # None
    /\ joined' = [joined EXCEPT ![c][n] = None]
    /\ UNCHANGED <<dirVars, task, chal, session, subs, published>>

(* A channel is named in one of two ways: by name or by an id, which may   *)
(* be any tenant's.                                                        *)
resolveChannelIDAnywhere(t, n, i) ==
    IF i # None THEN {x \in channels : x.id = i} ELSE GetChannelByName(t, n)
resolveChannelID(t, n, i) ==
    IF i # None THEN GetChannelByID(t, i) ELSE GetChannelByName(t, n)

(* subops.Create for a bot, over the connection or over REST.              *)
Subscribe(who, n, i) ==
    /\ (n = None) # (i = None)
    /\ \E a \in GetAccountByID(who.tenant, who.account), ch \in resolveChannelID(who.tenant, n, i) :
          /\ a.type = "bot"
          /\ subs' = subs \cup {[tenant |-> who.tenant, account |-> a.id, channel |-> ch.id]}

SubscriptionVerb(c, n, i) ==
    /\ task[c] = Idle /\ session[c] # None
    /\ Subscribe(Me(c), n, i)
    /\ UNCHANGED <<dirVars, task, chal, session, joined, published>>
-----------------------------------------------------------------------------
(***************************************************************************)
(* Authorised REST requests.                                               *)
(***************************************************************************)
RestSubscribe(h, n, i) ==
    /\ task[h].op = "rest" /\ task[h].pc = "finish"
    /\ Subscribe(task[h].who, n, i)
    /\ Done(h)
    /\ UNCHANGED <<dirVars, chal, session, joined, published>>

(* handleInbound hands the event to PublishInbound, which looks up the     *)
(* channel and broadcasts in the name of the integration's account.        *)
PublishInbound(h) ==
    /\ task[h].op = "inbound" /\ task[h].pc = "finish"
    /\ \E ch \in GetChannelByID(task[h].who.tenant, task[h].channel) :
          published' = published \cup {[channel |-> ch.id, tenant |-> ch.tenant,
                                        from |-> task[h].who, late |-> task[h].late]}
    /\ Done(h)
    /\ UNCHANGED <<dirVars, chal, session, joined, subs>>
-----------------------------------------------------------------------------
ConnStep(c) ==
    \/ \E t \in Tenants, n \in Names : PasswordRequest(c, t, n)
    \/ \E k \in TokenIds : BearerRequest(c, "token", k, Revoked(k))
    \/ IssueChallenge(c) \/ TokenLogin(c)
    \/ \E a \in AccountIds : AuthResponse(c, a)
    \/ \E n \in ChanNames : JoinCheck(c, n) \/ Part(c, n)
    \/ \E n \in ChanNames \cup {None}, i \in ChannelIds \cup {None} : SubscriptionVerb(c, n, i)
    \/ Join(c) \/ Disconnect(c)

ReqStep(r) ==
    \/ \E k \in TokenIds : BearerRequest(r, "rest", k, Revoked(k))
    \/ \E i \in IntegIds : BearerRequest(r, "inbound", i, Disabled(i))
    \/ \E n \in ChanNames \cup {None}, i \in ChannelIds \cup {None} : RestSubscribe(r, n, i)
    \/ PublishInbound(r)

Next ==
    \/ DirNext /\ UNCHANGED sessVars
    \/ \E c \in Conns : ConnStep(c)
    \/ \E r \in Reqs : ReqStep(r)
    \/ \E h \in Handlers : LookupToken(h) \/ LookupIntegration(h) \/ CheckTenant(h) \/ Refuse(h)

Spec == Init /\ [][Next]_vars
-----------------------------------------------------------------------------
(* Every variable has its type. *)
TypeOK ==
    /\ DirTypeOK
    /\ task \in [Handlers -> {Idle} \cup LoginTasks \cup BearerTasks \cup FoundTasks \cup JoinTasks]
    /\ chal \in [Conns -> Challenges \cup {None}]
    /\ session \in [Conns -> Sessions \cup {None}]
    /\ joined \in [Conns -> [ChanNames -> Seats \cup {None}]]
    /\ subs \subseteq [tenant : Tenants, account : AccountIds, channel : ChannelIds]
    /\ published \subseteq [channel : ChannelIds, tenant : Tenants, from : Who, late : BOOLEAN]

(* auth.go and conn.go: a connection acts as the account whose password or *)
(* token it showed, in that account's tenant, however requests for several *)
(* accounts, stale challenges and token logins follow each other.          *)
IdentityIsProved ==
    \A c \in Conns : session[c] # None =>
        /\ session[c].proved = Me(c).account
        /\ Linked(Tables, Me(c).tenant, session[c].proved)

(* DESIGN.md, tenancy, and the tenantID of every Store method: what a      *)
(* session, a REST request or an inbound post reaches is of its own        *)
(* tenant, also where another tenant uses the same names, and where a      *)
(* request names a channel by another tenant's id.                         *)
ReachStaysInTenant ==
    /\ \A c \in Conns, n \in ChanNames : joined[c][n] # None =>
          /\ session[c] # None
          /\ \E ch \in GetChannelByID(Me(c).tenant, joined[c][n].channel) : ch.name = n
    /\ \A s \in subs : /\ Placed(Tables, s.tenant, s.channel)
                       /\ LinkedBot(Tables, s.tenant, s.account)
    /\ \A p \in published : p.tenant = p.from.tenant /\ Linked(Tables, p.tenant, p.from.account)

(* Both: the commands tie no row to another tenant, and the server follows *)
(* no reference into one.                                                  *)
TenantsApart == RowsStayInTenant /\ ReachStaysInTenant

(* server.go, canJoin, and the second read in handleJoin: whoever sits in  *)
(* a private channel was once given a role that may join it, and a cached  *)
(* role is one that was given to this account in this channel.             *)
InvitedOnly ==
    \A c \in Conns, n \in ChanNames : joined[c][n] # None =>
        LET seat == joined[c][n]
        IN  /\ seat.role # None => <<seat.channel, Me(c).account, seat.role>> \in granted
            /\ \A ch \in channels : (ch.id = seat.channel /\ ch.visibility = "private") =>
                  \E role \in Roles : CanJoin(role) /\ <<ch.id, Me(c).account, role>> \in granted

(* auth.go, rest.go and inbound.go: a login, a REST request or a post that *)
(* arrives after its token or integration was revoked, or its tenant       *)
(* suspended, never gets through.  One that was under way may.             *)
BarredStaysOut ==
    /\ \A c \in Conns : session[c] # None => ~session[c].late
    /\ \A h \in Handlers : (task[h].op = "rest" /\ task[h].pc = "finish") => ~task[h].late
    /\ \A p \in published : ~p.late
=============================================================================
