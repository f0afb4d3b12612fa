----------------------------- MODULE Directory -----------------------------
(***************************************************************************)
(* The tables that say who exists and who may do what: tenants, accounts,  *)
(* channels with their access lists, bot tokens and inbound integrations   *)
(* (internal/storage/sqlite), as the commands of `prmd admin' change them  *)
(* beside the running server.                                              *)
(*                                                                         *)
(* A row of accounts or channels is never changed or deleted, and nothing  *)
(* but its status changes in a tenant.  What a command has looked up is    *)
(* therefore still true when it writes, and lookups and write are one      *)
(* step.  create-channel writes twice and is two steps.                    *)
(***************************************************************************)
EXTENDS Naturals, FiniteSets

CONSTANTS
    Tenants,      \* slugs, one to one with tenant ids
    Names,        \* usernames; each tenant may have its own
    ChanNames,    \* channel names; each tenant may have its own
    AccountIds, ChannelIds, TokenIds, IntegIds,
    MaxCommands,  \* bound: admin commands
    Seed,         \* the tables when the server starts
    None

Roles == {"owner", "admin", "member", "banned", "channel_op"}
CanJoin(role) == role \in Roles \ {"banned"}

AccountRows == [id : AccountIds, tenant : Tenants, name : Names, type : {"human", "bot"}]
ChannelRows == [id : ChannelIds, tenant : Tenants, name : ChanNames, owner : AccountIds,
                visibility : {"public", "private"}]
AclRows == [tenant : Tenants, channel : ChannelIds, account : AccountIds, role : Roles]
TokenRows == [id : TokenIds, tenant : Tenants, account : AccountIds, revoked : BOOLEAN]
IntegRows == [id : IntegIds, tenant : Tenants, channel : ChannelIds, account : AccountIds,
              disabled : BOOLEAN]

VARIABLES
    tenants,   \* status of each tenant, None before it is created
    accounts, channels, acl, tokens, integrations,
    opening,   \* channels whose create-channel has not written its access list yet
    granted,   \* history: every (channel, account, role) the access lists ever held
    commands   \* history: how many admin commands ran

dirVars == <<tenants, accounts, channels, acl, tokens, integrations, opening, granted, commands>>

(***************************************************************************)
(* Tables in which every reference stays inside its tenant.  Foreign keys  *)
(* only lead to the tenant: the rest is up to the commands.  The id of a   *)
(* token or integration stands for its random secret as well.              *)
(***************************************************************************)
Linked(tab, t, a) == \E x \in tab.accounts : x.tenant = t /\ x.id = a
LinkedBot(tab, t, a) == \E x \in tab.accounts : x.tenant = t /\ x.id = a /\ x.type = "bot"
Placed(tab, t, c) == \E x \in tab.channels : x.tenant = t /\ x.id = c
Consistent(tab) ==
    /\ \A a \in tab.accounts : tab.tenants[a.tenant] # None
    /\ \A c \in tab.channels : Linked(tab, c.tenant, c.owner)
    /\ \A e \in tab.acl : Placed(tab, e.tenant, e.channel) /\ Linked(tab, e.tenant, e.account)
    /\ \A k \in tab.tokens : LinkedBot(tab, k.tenant, k.account)
    /\ \A i \in tab.integrations : Placed(tab, i.tenant, i.channel) /\ Linked(tab, i.tenant, i.account)

TableSets == [tenants : [Tenants -> {None, "active", "suspended"}], accounts : SUBSET AccountRows,
              channels : SUBSET ChannelRows, acl : SUBSET AclRows, tokens : SUBSET TokenRows,
              integrations : SUBSET IntegRows]

(* The primary key of a table. *)
Keyed(rows) == \A x, y \in rows : x.id = y.id => x = y

ASSUME SeedAssumption ==
    /\ Seed \in TableSets /\ Consistent(Seed)
    /\ Keyed(Seed.channels) /\ Keyed(Seed.tokens) /\ Keyed(Seed.integrations)
ASSUME NoneAssumption ==
    /\ None \notin {"active", "suspended"} \cup Roles
    /\ None \notin AccountIds \cup ChannelIds
    /\ MaxCommands \in Nat

DirInit ==
    /\ tenants = Seed.tenants
    /\ accounts = Seed.accounts
    /\ channels = Seed.channels
    /\ acl = Seed.acl
    /\ tokens = Seed.tokens
    /\ integrations = Seed.integrations
    /\ opening = {}
    /\ granted = {<<e.channel, e.account, e.role>> : e \in Seed.acl}
    /\ commands = 0
-----------------------------------------------------------------------------
(***************************************************************************)
(* Lookups.  Each returns the set of rows found: one or none.              *)
(***************************************************************************)
GetAccountByUsername(t, n) == {a \in accounts : a.tenant = t /\ a.name = n}
GetAccountByID(t, i) == {a \in accounts : a.tenant = t /\ a.id = i}
GetChannelByName(t, n) == {c \in channels : c.tenant = t /\ c.name = n}
GetChannelByID(t, i) == {c \in channels : c.tenant = t /\ c.id = i}
GetChannelACL(t, c, a) == {e \in acl : e.tenant = t /\ e.channel = c /\ e.account = a}
GetTokenByHash(k) == {x \in tokens : x.id = k /\ ~x.revoked}
GetIntegrationByTokenHash(i) == {x \in integrations : x.id = i /\ ~x.disabled}

Unused(ids, rows) == ids \ {r.id : r \in rows}
-----------------------------------------------------------------------------
(***************************************************************************)
(* The admin commands that change a table.                                 *)
(***************************************************************************)
Command == commands < MaxCommands /\ commands' = commands + 1

CreateTenant(t) ==
    /\ Command
    /\ tenants[t] = None
    /\ tenants' = [tenants EXCEPT ![t] = "active"]
    /\ UNCHANGED <<accounts, channels, acl, tokens, integrations, opening, granted>>

(* No command suspends a tenant: the operator edits its row. *)
SuspendTenant(t) ==
    /\ Command
    /\ tenants[t] = "active"
    /\ tenants' = [tenants EXCEPT ![t] = "suspended"]
    /\ UNCHANGED <<accounts, channels, acl, tokens, integrations, opening, granted>>

InsertAccount(t, n, type) ==
    /\ GetAccountByUsername(t, n) = {}
    /\ \E i \in Unused(AccountIds, accounts) :
          accounts' = accounts \cup {[id |-> i, tenant |-> t, name |-> n, type |-> type]}

CreateAccount(t, n, type) ==
    /\ Command
    /\ tenants[t] # None
    /\ InsertAccount(t, n, type)
    /\ UNCHANGED <<tenants, channels, acl, tokens, integrations, opening, granted>>

SetChannelACL(t, c, a, role) ==
    /\ acl' = (acl \ GetChannelACL(t, c, a))
                \cup {[tenant |-> t, channel |-> c, account |-> a, role |-> role]}
    /\ granted' = granted \cup {<<c, a, role>>}

InsertChannel(t, n, o, visibility) ==
    /\ GetChannelByName(t, n) = {}
    /\ \E i \in Unused(ChannelIds, channels) :
          /\ channels' = channels \cup {[id |-> i, tenant |-> t, name |-> n, owner |-> o,
                                         visibility |-> visibility]}
          /\ opening' = opening \cup {i}

(* The first write of create-channel. *)
CreateChannel(t, n, u, visibility) ==
    /\ Command
    /\ \E o \in GetAccountByUsername(t, u) : InsertChannel(t, n, o.id, visibility)
    /\ UNCHANGED <<tenants, accounts, acl, tokens, integrations, granted>>

(* Its second write. *)
GrantOwner(c) ==
    /\ c.id \in opening
    /\ SetChannelACL(c.tenant, c.id, c.owner, "owner")
    /\ opening' = opening \ {c.id}
    /\ UNCHANGED <<tenants, accounts, channels, tokens, integrations, commands>>

(* The command dies between the two, or the second fails. *)
CreateAborted(c) ==
    /\ c.id \in opening
    /\ opening' = opening \ {c.id}
    /\ UNCHANGED <<tenants, accounts, channels, acl, tokens, integrations, granted, commands>>

Grant(t, n, u, role) ==
    /\ Command
    /\ \E c \in GetChannelByName(t, n), a \in GetAccountByUsername(t, u) :
          SetChannelACL(t, c.id, a.id, role)
    /\ UNCHANGED <<tenants, accounts, channels, tokens, integrations, opening>>

RemoveChannelACL(t, c, a) == acl' = acl \ GetChannelACL(t, c, a)

Revoke(t, n, u) ==
    /\ Command
    /\ \E c \in GetChannelByName(t, n), a \in GetAccountByUsername(t, u) :
          RemoveChannelACL(t, c.id, a.id)
    /\ UNCHANGED <<tenants, accounts, channels, tokens, integrations, opening, granted>>

CreateToken(t, a) ==
    \E i \in Unused(TokenIds, tokens) :
        tokens' = tokens \cup {[id |-> i, tenant |-> t, account |-> a, revoked |-> FALSE]}

IssueToken(t, u) ==
    /\ Command
    /\ \E a \in GetAccountByUsername(t, u) : a.type = "bot" /\ CreateToken(t, a.id)
    /\ UNCHANGED <<tenants, accounts, channels, acl, integrations, opening, granted>>

SetRevoked(t, k) ==
    \E x \in tokens :
        /\ x.tenant = t /\ x.id = k /\ ~x.revoked
        /\ tokens' = (tokens \ {x}) \cup {[x EXCEPT !.revoked = TRUE]}

RevokeToken(t, k) ==
    /\ Command
    /\ SetRevoked(t, k)
    /\ UNCHANGED <<tenants, accounts, channels, acl, integrations, opening, granted>>

InsertIntegration(t, c, a) ==
    \E i \in Unused(IntegIds, integrations) :
        integrations' = integrations \cup
            {[id |-> i, tenant |-> t, channel |-> c, account |-> a, disabled |-> FALSE]}

CreateIntegration(t, n, u) ==
    /\ Command
    /\ \E c \in GetChannelByName(t, n), a \in GetAccountByUsername(t, u) :
          InsertIntegration(t, c.id, a.id)
    /\ UNCHANGED <<tenants, accounts, channels, acl, tokens, opening, granted>>

(* The row read is written back whole; only this command writes it, and    *)
(* two of them write the same.                                             *)
UpdateIntegration(x, row) == integrations' = (integrations \ {x}) \cup {row}

RevokeIntegration(t, i) ==
    /\ Command
    /\ \E x \in integrations :
          /\ x.tenant = t /\ x.id = i /\ ~x.disabled
          /\ UpdateIntegration(x, [x EXCEPT !.disabled = TRUE])
    /\ UNCHANGED <<tenants, accounts, channels, acl, tokens, opening, granted>>

DirNext ==
    \/ \E t \in Tenants :
          \/ CreateTenant(t) \/ SuspendTenant(t)
          \/ \E k \in TokenIds : RevokeToken(t, k)
          \/ \E i \in IntegIds : RevokeIntegration(t, i)
          \/ \E u \in Names :
                \/ \E type \in {"human", "bot"} : CreateAccount(t, u, type)
                \/ IssueToken(t, u)
                \/ \E n \in ChanNames :
                      \/ \E v \in {"public", "private"} : CreateChannel(t, n, u, v)
                      \/ \E role \in Roles : Grant(t, n, u, role)
                      \/ Revoke(t, n, u)
                      \/ CreateIntegration(t, n, u)
    \/ \E c \in channels : GrantOwner(c) \/ CreateAborted(c)
-----------------------------------------------------------------------------
(* Every table holds rows of its type. *)
Tables == [tenants |-> tenants, accounts |-> accounts, channels |-> channels, acl |-> acl,
           tokens |-> tokens, integrations |-> integrations]
DirTypeOK ==
    /\ Tables \in TableSets
    /\ opening \subseteq ChannelIds
    /\ granted \subseteq ChannelIds \X AccountIds \X Roles
    /\ commands \in 0..MaxCommands

(* sqlite.go, "the multi-tenant isolation guarantee at the storage layer": *)
(* whatever commands run, with the same names in several tenants, every    *)
(* reference between two tables stays inside one tenant: a channel and its *)
(* owner, an access list entry, a token and its bot, an integration.       *)
RowsStayInTenant == Consistent(Tables)
=============================================================================
