---------------------------- MODULE AccessProofs ----------------------------
(***************************************************************************)
(* Nobody is taken for somebody else, nothing reaches across tenants, and  *)
(* who is barred stays out: for any number of tenants, accounts, channels, *)
(* connections and requests, and whatever commands run beside the server.  *)
(*                                                                         *)
(* The proof is in two layers.  DirInv is about the tables, and Grows says *)
(* what a command may do to them: rows stay, revoked and suspended stay    *)
(* so.  SessInv is about connections and requests; it survives every       *)
(* growth, and every step of a handler, which changes no table.            *)
(***************************************************************************)
EXTENDS Access, TLAPS

(* Every entry an access list has was given once. *)
AclGranted == \A e \in acl : <<e.channel, e.account, e.role>> \in granted

DirInv ==
    /\ DirTypeOK
    /\ RowsStayInTenant
    /\ Keyed(channels) /\ Keyed(tokens) /\ Keyed(integrations)
    /\ AclGranted

(* The types of the tables, one by one. *)
Columns ==
    /\ tenants \in [Tenants -> {None, "active", "suspended"}]
    /\ accounts \subseteq AccountRows
    /\ channels \subseteq ChannelRows
    /\ acl \subseteq AclRows
    /\ tokens \subseteq TokenRows
    /\ integrations \subseteq IntegRows
    /\ opening \subseteq ChannelIds
    /\ granted \subseteq ChannelIds \X AccountIds \X Roles
    /\ commands \in 0..MaxCommands

(* RowsStayInTenant, table by table. *)
Account(t, a) == \E x \in accounts : x.tenant = t /\ x.id = a
Bot(t, a) == \E x \in accounts : x.tenant = t /\ x.id = a /\ x.type = "bot"
Chan(t, c) == \E x \in channels : x.tenant = t /\ x.id = c
AccountsIn == \A a \in accounts : tenants[a.tenant] # None
ChannelsIn == \A c \in channels : Account(c.tenant, c.owner)
AclIn == \A e \in acl : Chan(e.tenant, e.channel) /\ Account(e.tenant, e.account)
TokensIn == \A k \in tokens : Bot(k.tenant, k.account)
IntegsIn == \A i \in integrations : Chan(i.tenant, i.channel) /\ Account(i.tenant, i.account)

(* The invariant of the tables in these parts. *)
LEMMA DirInvParts ==
    DirInv <=> /\ Columns
               /\ AccountsIn /\ ChannelsIn /\ AclIn /\ TokensIn /\ IntegsIn
               /\ Keyed(channels) /\ Keyed(tokens) /\ Keyed(integrations)
               /\ AclGranted
<1>1. DirTypeOK <=> Columns
  BY DEF DirTypeOK, Columns, Tables, TableSets
<1>2. RowsStayInTenant <=> AccountsIn /\ ChannelsIn /\ AclIn /\ TokensIn /\ IntegsIn
  BY DEF RowsStayInTenant, Consistent, Tables, Linked, LinkedBot, Placed, Account, Bot, Chan,
         AccountsIn, ChannelsIn, AclIn, TokensIn, IntegsIn
<1> QED BY <1>1, <1>2 DEF DirInv

(* The same of the next state. *)
LEMMA DirInvPartsNext ==
    DirInv' <=> /\ Columns'
                /\ AccountsIn' /\ ChannelsIn' /\ AclIn' /\ TokensIn' /\ IntegsIn'
                /\ Keyed(channels)' /\ Keyed(tokens)' /\ Keyed(integrations)'
                /\ AclGranted'
<1>1. DirTypeOK' <=> Columns'
  BY DEF DirTypeOK, Columns, Tables, TableSets
<1>2. RowsStayInTenant' <=> AccountsIn' /\ ChannelsIn' /\ AclIn' /\ TokensIn' /\ IntegsIn'
  BY DEF RowsStayInTenant, Consistent, Tables, Linked, LinkedBot, Placed, Account, Bot, Chan,
         AccountsIn, ChannelsIn, AclIn, TokensIn, IntegsIn
<1> QED BY <1>1, <1>2 DEF DirInv

(* What commands do to the tables. *)
Grows ==
    /\ \A t \in Tenants : tenants[t] # None => tenants'[t] # None
    /\ \A t \in Tenants : tenants[t] = "suspended" => tenants'[t] = "suspended"
    /\ accounts \subseteq accounts'
    /\ channels \subseteq channels'
    /\ granted \subseteq granted'
    /\ \A x \in tokens : \E y \in tokens' :
          y.id = x.id /\ y.tenant = x.tenant /\ y.account = x.account /\ (x.revoked => y.revoked)
    /\ \A x \in integrations : \E y \in integrations' :
          y.id = x.id /\ y.tenant = x.tenant /\ y.account = x.account /\ (x.disabled => y.disabled)
-----------------------------------------------------------------------------
(***************************************************************************)
(* The commands.                                                           *)
(***************************************************************************)

(* The tables of a server that starts. *)
LEMMA DirInitInv == DirInit => DirInv
<1> SUFFICES ASSUME DirInit PROVE DirInv
  OBVIOUS
<1>1. Tables = [tenants |-> Seed.tenants, accounts |-> Seed.accounts, channels |-> Seed.channels,
                acl |-> Seed.acl, tokens |-> Seed.tokens, integrations |-> Seed.integrations]
  BY DEF DirInit, Tables
<1>2. Tables = Seed
  BY <1>1, SeedAssumption DEF TableSets
<1>3. Keyed(channels) /\ Keyed(tokens) /\ Keyed(integrations)
  BY SeedAssumption DEF DirInit, Keyed
<1>4. Seed.acl \subseteq AclRows
  BY SeedAssumption DEF TableSets
<1>5. DirTypeOK
  BY <1>2, <1>4, SeedAssumption, NoneAssumption DEF DirTypeOK, DirInit, AclRows
<1>6. AclGranted
  BY DEF AclGranted, DirInit
<1> QED BY <1>2, <1>3, <1>5, <1>6, SeedAssumption DEF DirInv, RowsStayInTenant

(* A tenant is created, or suspended. *)
LEMMA TenantKeeps ==
    ASSUME DirInv, NEW t \in Tenants, CreateTenant(t) \/ SuspendTenant(t)
    PROVE  DirInv' /\ Grows
<1> USE DirInvParts, NoneAssumption DEF CreateTenant, SuspendTenant, Command
<1>1. Columns'
  BY DEF Columns
<1>2. \A u \in Tenants : tenants[u] # None => tenants'[u] # None
  BY DEF Columns
<1>3. AccountsIn'
  BY <1>2 DEF AccountsIn, Columns, AccountRows
<1>4. ChannelsIn' /\ AclIn' /\ TokensIn' /\ IntegsIn'
  BY DEF ChannelsIn, AclIn, TokensIn, IntegsIn, Account, Bot, Chan
<1>5. Keyed(channels)' /\ Keyed(tokens)' /\ Keyed(integrations)' /\ AclGranted'
  BY DEF Keyed, AclGranted
<1>6. Grows
  BY <1>2 DEF Grows, Columns
<1> QED BY <1>1, <1>3, <1>4, <1>5, <1>6, DirInvPartsNext

(* An account is inserted. *)
LEMMA CreateAccountKeeps ==
    ASSUME DirInv, NEW t \in Tenants, NEW n \in Names, NEW type \in {"human", "bot"},
           CreateAccount(t, n, type)
    PROVE  DirInv' /\ Grows
<1> USE DirInvParts, NoneAssumption DEF CreateAccount, InsertAccount, Command
<1>1. PICK i \in Unused(AccountIds, accounts) :
          accounts' = accounts \cup {[id |-> i, tenant |-> t, name |-> n, type |-> type]}
  OBVIOUS
<1>2. i \in AccountIds
  BY DEF Unused
<1>3. Columns'
  BY <1>1, <1>2 DEF Columns, AccountRows
<1>4. AccountsIn'
  BY <1>1 DEF AccountsIn
<1>5. ChannelsIn' /\ AclIn' /\ TokensIn' /\ IntegsIn'
  BY <1>1 DEF ChannelsIn, AclIn, TokensIn, IntegsIn, Account, Bot, Chan
<1>6. Keyed(channels)' /\ Keyed(tokens)' /\ Keyed(integrations)' /\ AclGranted'
  BY DEF Keyed, AclGranted
<1>7. Grows
  BY <1>1 DEF Grows
<1> QED BY <1>3, <1>4, <1>5, <1>6, <1>7, DirInvPartsNext

(* An entry of an access list is replaced or added; both ends are in t. *)
LEMMA SetChannelACLKeeps ==
    ASSUME DirInv, NEW t \in Tenants, NEW c \in ChannelIds, NEW a \in AccountIds,
           NEW role \in Roles, Chan(t, c), Account(t, a), SetChannelACL(t, c, a, role),
           opening' \subseteq ChannelIds, commands' \in 0..MaxCommands,
           UNCHANGED <<tenants, accounts, channels, tokens, integrations>>
    PROVE  DirInv' /\ Grows
<1> USE DirInvParts DEF SetChannelACL, GetChannelACL
<1> DEFINE e == [tenant |-> t, channel |-> c, account |-> a, role |-> role]
<1>1. acl' \subseteq acl \cup {e} /\ granted' = granted \cup {<<c, a, role>>}
  OBVIOUS
<1>2. /\ e \in AclRows
      /\ e.tenant = t /\ e.channel = c /\ e.account = a /\ e.role = role
  BY DEF AclRows
<1> HIDE DEF e
<1>3. Columns'
  BY <1>1, <1>2 DEF Columns
<1>4. AccountsIn' /\ ChannelsIn' /\ TokensIn' /\ IntegsIn'
  BY DEF AccountsIn, ChannelsIn, TokensIn, IntegsIn, Account, Bot, Chan
<1>5. AclIn'
  BY <1>1, <1>2 DEF AclIn, Chan, Account
<1>6. Keyed(channels)' /\ Keyed(tokens)' /\ Keyed(integrations)'
  BY DEF Keyed
<1>7. AclGranted'
  BY <1>1, <1>2 DEF AclGranted
<1>8. Grows
  BY <1>1 DEF Grows
<1> QED BY <1>3, <1>4, <1>5, <1>6, <1>7, <1>8, DirInvPartsNext

(* create-channel's first write: the owner was found in the tenant. *)
LEMMA CreateChannelKeeps ==
    ASSUME DirInv, NEW t \in Tenants, NEW n \in ChanNames, NEW u \in Names,
           NEW v \in {"public", "private"}, CreateChannel(t, n, u, v)
    PROVE  DirInv' /\ Grows
<1> USE DirInvParts, NoneAssumption DEF CreateChannel, InsertChannel, Command
<1>1. PICK o \in GetAccountByUsername(t, u) : InsertChannel(t, n, o.id, v)
  OBVIOUS
<1>2. o \in accounts /\ o \in AccountRows /\ o.tenant = t
  BY <1>1 DEF GetAccountByUsername, Columns
<1>3. PICK i \in Unused(ChannelIds, channels) :
          /\ channels' = channels \cup {[id |-> i, tenant |-> t, name |-> n, owner |-> o.id,
                                         visibility |-> v]}
          /\ opening' = opening \cup {i}
  BY <1>1
<1>4. i \in ChannelIds /\ \A x \in channels : x.id # i
  BY DEF Unused
<1> DEFINE c == [id |-> i, tenant |-> t, name |-> n, owner |-> o.id, visibility |-> v]
<1>5. /\ c \in ChannelRows /\ channels' = channels \cup {c}
      /\ c.id = i /\ c.tenant = t /\ c.owner = o.id
  BY <1>2, <1>3, <1>4 DEF ChannelRows, AccountRows
<1> HIDE DEF c
<1>6. Columns'
  BY <1>3, <1>4, <1>5 DEF Columns
<1>7. AccountsIn' /\ AclIn' /\ TokensIn' /\ IntegsIn'
  BY <1>5 DEF AccountsIn, AclIn, TokensIn, IntegsIn, Account, Bot, Chan
<1>8. ChannelsIn'
  BY <1>2, <1>5 DEF ChannelsIn, Account
<1>9. Keyed(channels)'
  BY <1>4, <1>5 DEF Keyed
<1>10. Keyed(tokens)' /\ Keyed(integrations)' /\ AclGranted'
  BY DEF Keyed, AclGranted
<1>11. Grows
  BY <1>5 DEF Grows
<1> QED BY <1>6, <1>7, <1>8, <1>9, <1>10, <1>11, DirInvPartsNext

(* Its second write. *)
LEMMA GrantOwnerKeeps == ASSUME DirInv, NEW c \in channels, GrantOwner(c) PROVE DirInv' /\ Grows
<1> USE DirInvParts DEF GrantOwner
<1>1. c \in ChannelRows
  BY DEF Columns
<1>2. c.tenant \in Tenants /\ c.id \in ChannelIds /\ c.owner \in AccountIds
  BY <1>1 DEF ChannelRows
<1>3. Chan(c.tenant, c.id) /\ Account(c.tenant, c.owner)
  BY DEF Chan, ChannelsIn
<1>4. opening' \subseteq ChannelIds /\ commands' \in 0..MaxCommands /\ "owner" \in Roles
  BY DEF Columns, Roles
<1> QED BY <1>2, <1>3, <1>4, SetChannelACLKeeps

(* create-channel dies before its second write. *)
LEMMA CreateAbortedKeeps == ASSUME DirInv, NEW c \in channels, CreateAborted(c) PROVE DirInv' /\ Grows
<1> USE DirInvParts DEF CreateAborted
<1>1. Columns'
  BY DEF Columns
<1>2. AccountsIn' /\ ChannelsIn' /\ AclIn' /\ TokensIn' /\ IntegsIn'
  BY DEF AccountsIn, ChannelsIn, AclIn, TokensIn, IntegsIn, Account, Bot, Chan
<1>3. Keyed(channels)' /\ Keyed(tokens)' /\ Keyed(integrations)' /\ AclGranted' /\ Grows
  BY DEF Keyed, AclGranted, Grows
<1> QED BY <1>1, <1>2, <1>3, DirInvPartsNext

(* What a name is resolved to lies in the tenant it was looked up in. *)
LEMMA ChannelFound ==
    ASSUME DirInv, NEW t, NEW n, NEW c \in GetChannelByName(t, n)
    PROVE  c \in channels /\ c \in ChannelRows /\ c.id \in ChannelIds /\ Chan(t, c.id)
BY DirInvParts DEF GetChannelByName, Columns, ChannelRows, Chan

(* Also one that was named by its id.                                      *)
LEMMA ChannelResolved ==
    ASSUME DirInv, NEW t, NEW n, NEW i, NEW c \in resolveChannelID(t, n, i)
    PROVE  c.id \in ChannelIds /\ Chan(t, c.id)
<1>1. CASE i # None
  BY <1>1, DirInvParts DEF resolveChannelID, GetChannelByID, Columns, ChannelRows, Chan
<1>2. CASE i = None
  BY <1>2, ChannelFound DEF resolveChannelID
<1> QED BY <1>1, <1>2

(* The same of an account. *)
LEMMA AccountFound ==
    ASSUME DirInv, NEW t, NEW n, NEW a \in GetAccountByUsername(t, n)
    PROVE  a \in accounts /\ a \in AccountRows /\ a.id \in AccountIds /\ Account(t, a.id)
BY DirInvParts DEF GetAccountByUsername, Columns, AccountRows, Account

(* grant. *)
LEMMA GrantKeeps ==
    ASSUME DirInv, NEW t \in Tenants, NEW n \in ChanNames, NEW u \in Names, NEW role \in Roles,
           Grant(t, n, u, role)
    PROVE  DirInv' /\ Grows
<1>1. PICK c \in GetChannelByName(t, n), a \in GetAccountByUsername(t, u) :
          SetChannelACL(t, c.id, a.id, role)
  BY DEF Grant
<1>2. opening' \subseteq ChannelIds /\ commands' \in 0..MaxCommands
  BY DirInvParts, NoneAssumption DEF Grant, Command, Columns
<1> QED BY <1>1, <1>2, ChannelFound, AccountFound, SetChannelACLKeeps DEF Grant

(* revoke: nothing is forgotten of what was once given. *)
LEMMA RevokeKeeps ==
    ASSUME DirInv, NEW t \in Tenants, NEW n \in ChanNames, NEW u \in Names, Revoke(t, n, u)
    PROVE  DirInv' /\ Grows
<1> USE DirInvParts, NoneAssumption DEF Revoke, Command
<1>1. acl' \subseteq acl
  BY DEF RemoveChannelACL
<1>2. Columns'
  BY <1>1 DEF Columns
<1>3. AccountsIn' /\ ChannelsIn' /\ AclIn' /\ TokensIn' /\ IntegsIn'
  BY <1>1 DEF AccountsIn, ChannelsIn, AclIn, TokensIn, IntegsIn, Account, Bot, Chan
<1>4. Keyed(channels)' /\ Keyed(tokens)' /\ Keyed(integrations)' /\ AclGranted' /\ Grows
  BY <1>1 DEF Keyed, AclGranted, Grows
<1> QED BY <1>2, <1>3, <1>4, DirInvPartsNext

(* A token belongs to the bot found in the tenant. *)
LEMMA IssueTokenKeeps ==
    ASSUME DirInv, NEW t \in Tenants, NEW u \in Names, IssueToken(t, u)
    PROVE  DirInv' /\ Grows
<1> USE DirInvParts, NoneAssumption DEF IssueToken, Command
<1>1. PICK a \in GetAccountByUsername(t, u) : a.type = "bot" /\ CreateToken(t, a.id)
  OBVIOUS
<1>2. Bot(t, a.id) /\ a.id \in AccountIds
  BY <1>1 DEF Bot, GetAccountByUsername, Columns, AccountRows
<1>3. PICK i \in Unused(TokenIds, tokens) :
          tokens' = tokens \cup {[id |-> i, tenant |-> t, account |-> a.id, revoked |-> FALSE]}
  BY <1>1 DEF CreateToken
<1>4. i \in TokenIds /\ \A x \in tokens : x.id # i
  BY DEF Unused
<1> DEFINE k == [id |-> i, tenant |-> t, account |-> a.id, revoked |-> FALSE]
<1>5. /\ k \in TokenRows /\ tokens' = tokens \cup {k}
      /\ k.id = i /\ k.tenant = t /\ k.account = a.id
  BY <1>2, <1>3, <1>4 DEF TokenRows
<1> HIDE DEF k
<1>6. Columns'
  BY <1>5 DEF Columns
<1>7. AccountsIn' /\ ChannelsIn' /\ AclIn' /\ IntegsIn'
  BY DEF AccountsIn, ChannelsIn, AclIn, IntegsIn, Account, Chan
<1>8. TokensIn'
  BY <1>2, <1>5 DEF TokensIn, Bot
<1>9. Keyed(tokens)'
  BY <1>4, <1>5 DEF Keyed
<1>10. Keyed(channels)' /\ Keyed(integrations)' /\ AclGranted'
  BY DEF Keyed, AclGranted
<1>11. Grows
  BY <1>5 DEF Grows
<1> QED BY <1>6, <1>7, <1>8, <1>9, <1>10, <1>11, DirInvPartsNext

(* A token that is revoked stays what it was otherwise. *)
LEMMA RevokeTokenKeeps ==
    ASSUME DirInv, NEW t \in Tenants, NEW i \in TokenIds, RevokeToken(t, i)
    PROVE  DirInv' /\ Grows
<1> USE DirInvParts, NoneAssumption DEF RevokeToken, Command
<1>1. PICK x \in tokens : tokens' = (tokens \ {x}) \cup {[x EXCEPT !.revoked = TRUE]}
  BY DEF SetRevoked
<1> DEFINE y == [x EXCEPT !.revoked = TRUE]
<1>2. x \in TokenRows
  BY DEF Columns
<1>3. /\ y \in TokenRows /\ tokens' = (tokens \ {x}) \cup {y}
      /\ y.id = x.id /\ y.tenant = x.tenant /\ y.account = x.account /\ y.revoked = TRUE
  BY <1>1, <1>2 DEF TokenRows
<1> HIDE DEF y
<1>4. Columns'
  BY <1>3 DEF Columns
<1>5. AccountsIn' /\ ChannelsIn' /\ AclIn' /\ IntegsIn'
  BY DEF AccountsIn, ChannelsIn, AclIn, IntegsIn, Account, Chan
<1>6. TokensIn'
  BY <1>3 DEF TokensIn, Bot
<1>7. Keyed(tokens)'
  BY <1>3 DEF Keyed
<1>8. Keyed(channels)' /\ Keyed(integrations)' /\ AclGranted'
  BY DEF Keyed, AclGranted
<1>9. Grows
  BY <1>3 DEF Grows
<1> QED BY <1>4, <1>5, <1>6, <1>7, <1>8, <1>9, DirInvPartsNext

(* The same for integrations. *)
LEMMA CreateIntegrationKeeps ==
    ASSUME DirInv, NEW t \in Tenants, NEW n \in ChanNames, NEW u \in Names,
           CreateIntegration(t, n, u)
    PROVE  DirInv' /\ Grows
<1> USE DirInvParts, NoneAssumption DEF CreateIntegration, Command
<1>1. PICK c \in GetChannelByName(t, n), a \in GetAccountByUsername(t, u) :
          InsertIntegration(t, c.id, a.id)
  OBVIOUS
<1>2. c.id \in ChannelIds /\ a.id \in AccountIds /\ Chan(t, c.id) /\ Account(t, a.id)
  BY <1>1, ChannelFound, AccountFound
<1>3. PICK i \in Unused(IntegIds, integrations) :
          integrations' = integrations \cup
              {[id |-> i, tenant |-> t, channel |-> c.id, account |-> a.id, disabled |-> FALSE]}
  BY <1>1 DEF InsertIntegration
<1>4. i \in IntegIds /\ \A x \in integrations : x.id # i
  BY DEF Unused
<1> DEFINE k == [id |-> i, tenant |-> t, channel |-> c.id, account |-> a.id, disabled |-> FALSE]
<1>5. /\ k \in IntegRows /\ integrations' = integrations \cup {k}
      /\ k.id = i /\ k.tenant = t /\ k.account = a.id /\ k.channel = c.id
  BY <1>2, <1>3, <1>4 DEF IntegRows
<1> HIDE DEF k
<1>6. Columns'
  BY <1>5 DEF Columns
<1>7. AccountsIn' /\ ChannelsIn' /\ AclIn' /\ TokensIn'
  BY DEF AccountsIn, ChannelsIn, AclIn, TokensIn, Account, Bot, Chan
<1>8. IntegsIn'
  BY <1>2, <1>5 DEF IntegsIn, Account, Chan
<1>9. Keyed(integrations)'
  BY <1>4, <1>5 DEF Keyed
<1>10. Keyed(channels)' /\ Keyed(tokens)' /\ AclGranted'
  BY DEF Keyed, AclGranted
<1>11. Grows
  BY <1>5 DEF Grows
<1> QED BY <1>6, <1>7, <1>8, <1>9, <1>10, <1>11, DirInvPartsNext

(* revoke-integration. *)
LEMMA RevokeIntegrationKeeps ==
    ASSUME DirInv, NEW t \in Tenants, NEW i \in IntegIds, RevokeIntegration(t, i)
    PROVE  DirInv' /\ Grows
<1> USE DirInvParts, NoneAssumption DEF RevokeIntegration, Command
<1>1. PICK x \in integrations :
          integrations' = (integrations \ {x}) \cup {[x EXCEPT !.disabled = TRUE]}
  BY DEF UpdateIntegration
<1> DEFINE y == [x EXCEPT !.disabled = TRUE]
<1>2. x \in IntegRows
  BY DEF Columns
<1>3. /\ y \in IntegRows /\ integrations' = (integrations \ {x}) \cup {y}
      /\ y.id = x.id /\ y.tenant = x.tenant /\ y.account = x.account /\ y.channel = x.channel
      /\ y.disabled = TRUE
  BY <1>1, <1>2 DEF IntegRows
<1> HIDE DEF y
<1>4. Columns'
  BY <1>3 DEF Columns
<1>5. AccountsIn' /\ ChannelsIn' /\ AclIn' /\ TokensIn'
  BY DEF AccountsIn, ChannelsIn, AclIn, TokensIn, Account, Bot, Chan
<1>6. IntegsIn'
  BY <1>3 DEF IntegsIn, Account, Chan
<1>7. Keyed(integrations)'
  BY <1>3 DEF Keyed
<1>8. Keyed(channels)' /\ Keyed(tokens)' /\ AclGranted'
  BY DEF Keyed, AclGranted
<1>9. Grows
  BY <1>3 DEF Grows
<1> QED BY <1>4, <1>5, <1>6, <1>7, <1>8, <1>9, DirInvPartsNext

(* Every command keeps the tables consistent and lets them grow. *)
LEMMA DirNextInv == ASSUME DirInv, DirNext PROVE DirInv' /\ Grows
BY TenantKeeps, CreateAccountKeeps, CreateChannelKeeps, GrantOwnerKeeps, CreateAbortedKeeps,
   GrantKeeps, RevokeKeeps, IssueTokenKeeps, RevokeTokenKeeps, CreateIntegrationKeeps,
   RevokeIntegrationKeeps DEF DirNext
-----------------------------------------------------------------------------
(***************************************************************************)
(* Connections and requests.                                               *)
(***************************************************************************)
Tasks == {Idle} \cup LoginTasks \cup BearerTasks \cup FoundTasks \cup JoinTasks

SessTypeOK ==
    /\ task \in [Handlers -> Tasks]
    /\ chal \in [Conns -> Challenges \cup {None}]
    /\ session \in [Conns -> Sessions \cup {None}]
    /\ joined \in [Conns -> [ChanNames -> Seats \cup {None}]]
    /\ subs \subseteq [tenant : Tenants, account : AccountIds, channel : ChannelIds]
    /\ published \subseteq [channel : ChannelIds, tenant : Tenants, from : Who, late : BOOLEAN]

(* A bearer that was looked up was shown. *)
TokenShown(k) ==
    (k.op \in {"token", "rest"} /\ k.pc \in {"tenant", "finish"}) =>
        \E x \in tokens : x.id = k.cred /\ x.tenant = k.who.tenant /\ x.account = k.who.account
IntegShown(k) ==
    (k.op = "inbound" /\ k.pc \in {"tenant", "finish"}) =>
        \E x \in integrations : x.tenant = k.who.tenant /\ x.account = k.who.account

(* A request that came too late is not past the check that will stop it. *)
Stoppable(k) ==
    /\ (k.op = "password" /\ k.pc = "tenant" /\ k.late) => Suspended(k.tenant)
    /\ (k.op \in {"token", "rest"} /\ k.pc = "lookup" /\ k.late) => Revoked(k.cred)
    /\ (k.op = "inbound" /\ k.pc = "lookup" /\ k.late) => Disabled(k.cred)
    /\ (k.op \in {"token", "rest", "inbound"} /\ k.pc = "tenant" /\ k.late) =>
          Suspended(k.who.tenant)
    /\ k.pc = "finish" => ~k.late

(* A channel of the caller's tenant, to which it is invited if need be. *)
Invited(i, a) == \E role \in Roles : CanJoin(role) /\ <<i, a, role>> \in granted
Room(who, i, n) ==
    \E ch \in channels :
        /\ ch.tenant = who.tenant /\ ch.id = i /\ ch.name = n
        /\ ch.visibility = "private" => Invited(i, who.account)

TaskOK(h, k) ==
    /\ TokenShown(k) /\ IntegShown(k) /\ Stoppable(k)
    /\ (h \in Conns /\ k.op = "token") => session[h] = None
    /\ (h \in Conns /\ k.op = "join") => session[h] # None /\ Room(session[h].who, k.channel, k.name)
TasksOK == \A h \in Handlers : TaskOK(h, task[h])

ChallengesOK == \A c \in Conns : chal[c] # None => ~chal[c].late
SessionsOK ==
    \A c \in Conns : session[c] # None =>
        /\ session[c].proved = session[c].who.account
        /\ Account(session[c].who.tenant, session[c].proved)
        /\ ~session[c].late
Seated ==
    \A c \in Conns, n \in ChanNames : joined[c][n] # None =>
        /\ session[c] # None
        /\ Room(session[c].who, joined[c][n].channel, n)
        /\ joined[c][n].role # None =>
              <<joined[c][n].channel, session[c].who.account, joined[c][n].role>> \in granted
SubsIn == \A s \in subs : Chan(s.tenant, s.channel) /\ Bot(s.tenant, s.account)
PublishedIn ==
    \A p \in published : p.tenant = p.from.tenant /\ Account(p.tenant, p.from.account) /\ ~p.late

SessInv ==
    /\ SessTypeOK
    /\ TasksOK
    /\ ChallengesOK /\ SessionsOK /\ Seated
    /\ SubsIn /\ PublishedIn

(* A handler without a task. *)
LEMMA IdleOK == Idle \in Tasks /\ Idle.op = "none" /\ Idle.pc = "idle" /\ \A h : TaskOK(h, Idle)
BY DEF Idle, Tasks, TaskOK, TokenShown, IntegShown, Stoppable

(* Which kind of task a handler has. *)
LEMMA TaskKinds ==
    ASSUME NEW k \in Tasks
    PROVE  /\ k.op = "password" => k \in LoginTasks
           /\ k.pc = "lookup" => k \in BearerTasks
           /\ (k.op # "password" /\ k.pc \in {"tenant", "finish"}) => k \in FoundTasks
           /\ k.op = "join" => k \in JoinTasks
BY DEF Tasks, Idle, LoginTasks, BearerTasks, FoundTasks, JoinTasks

(* Commands disturb nobody: what was found is still there, and who was     *)
(* barred still is.                                                        *)
LEMMA CommandKeeps ==
    ASSUME DirInv, SessInv, Grows, UNCHANGED sessVars
    PROVE  SessInv'
<1> USE DEF SessInv, sessVars
<1>1. SessTypeOK' /\ ChallengesOK'
  BY DEF SessTypeOK, ChallengesOK
<1>2. \A t, a : Account(t, a) => Account(t, a)'
  BY DEF Grows, Account
<1>3. \A t, a : Bot(t, a) => Bot(t, a)'
  BY DEF Grows, Bot
<1>4. \A t, c : Chan(t, c) => Chan(t, c)'
  BY DEF Grows, Chan
<1>5. \A who, i, n : Room(who, i, n) => Room(who, i, n)'
  BY DEF Grows, Room, Invited
<1>6. SessionsOK'
  BY <1>2 DEF SessionsOK
<1>7. Seated'
  BY <1>5 DEF Seated, Grows
<1>8. SubsIn' /\ PublishedIn'
  BY <1>2, <1>3, <1>4 DEF SubsIn, PublishedIn
<1>9. TasksOK'
  <2>0. \A h \in Handlers : task[h] \in Tasks /\ TaskOK(h, task[h]) /\ task'[h] = task[h]
    BY DEF SessTypeOK, TasksOK
  <2> SUFFICES ASSUME NEW h \in Handlers, NEW k \in Tasks, TaskOK(h, k) PROVE TaskOK(h, k)'
    BY <2>0 DEF TasksOK
  <2>1. k \in Tasks /\ TaskOK(h, k)
    OBVIOUS
  <2>2. TokenShown(k)' /\ IntegShown(k)'
    BY <2>1 DEF TaskOK, TokenShown, IntegShown, Grows
  <2>3. Stoppable(k)'
    <3>1. \A t \in Tenants : Suspended(t) => Suspended(t)'
      BY DEF Suspended, Grows
    <3>2. k.op = "password" => k.tenant \in Tenants
      BY <2>1, TaskKinds DEF LoginTasks
    <3>3. (k.op # "password" /\ k.pc = "tenant") => k.who.tenant \in Tenants
      BY <2>1, TaskKinds DEF FoundTasks, Who
    <3>4. \A x \in tokens : x.tenant \in Tenants
      BY DirInvParts DEF Columns, TokenRows
    <3>5. \A x \in integrations : x.tenant \in Tenants
      BY DirInvParts DEF Columns, IntegRows
    <3>6. Revoked(k.cred) => Revoked(k.cred)'
      BY <3>1, <3>4 DEF Revoked, Grows
    <3>7. Disabled(k.cred) => Disabled(k.cred)'
      BY <3>1, <3>5 DEF Disabled, Grows
    <3> QED BY <2>1, <3>1, <3>2, <3>3, <3>6, <3>7 DEF TaskOK, Stoppable
  <2> QED BY <2>1, <2>2, <2>3, <1>5 DEF TaskOK
<1> QED BY <1>1, <1>6, <1>7, <1>8, <1>9
-----------------------------------------------------------------------------
(* What is only read from the tables stays true while they do not change.  *)
LEMMA TablesSame ==
    ASSUME UNCHANGED dirVars
    PROVE  /\ \A t, a : Account(t, a)' <=> Account(t, a)
           /\ \A t, a : Bot(t, a)' <=> Bot(t, a)
           /\ \A t, c : Chan(t, c)' <=> Chan(t, c)
           /\ \A who, i, n : Room(who, i, n)' <=> Room(who, i, n)
           /\ \A k : TokenShown(k)' <=> TokenShown(k)
           /\ \A k : IntegShown(k)' <=> IntegShown(k)
           /\ \A k : Stoppable(k)' <=> Stoppable(k)
           /\ DirInv => DirInv'
<1> USE DEF dirVars
<1>1. \A t, a : (Account(t, a)' <=> Account(t, a)) /\ (Bot(t, a)' <=> Bot(t, a))
  BY DEF Account, Bot
<1>2. \A t, c : Chan(t, c)' <=> Chan(t, c)
  BY DEF Chan
<1>3. \A who, i, n : Room(who, i, n)' <=> Room(who, i, n)
  BY DEF Room, Invited
<1>4. \A k : (TokenShown(k)' <=> TokenShown(k)) /\ (IntegShown(k)' <=> IntegShown(k))
  BY DEF TokenShown, IntegShown
<1>5. \A k : Stoppable(k)' <=> Stoppable(k)
  BY DEF Stoppable, Suspended, Revoked, Disabled
<1>6. DirInv => DirInv'
  BY DEF DirInv, DirTypeOK, RowsStayInTenant, Tables, Keyed, AclGranted
<1> QED BY <1>1, <1>2, <1>3, <1>4, <1>5, <1>6

(* A step of handler h that leaves sessions alone gives it the task k. *)
LEMMA TasksKept ==
    ASSUME SessInv, UNCHANGED <<dirVars, session>>, NEW h \in Handlers, NEW k \in Tasks, TaskOK(h, k),
           task' = [task EXCEPT ![h] = k]
    PROVE  TasksOK' /\ task' \in [Handlers -> Tasks]
<1>1. task' \in [Handlers -> Tasks]
  BY DEF SessInv, SessTypeOK
<1>2. \A g \in Handlers : task'[g] = IF g = h THEN k ELSE task[g]
  BY DEF SessInv, SessTypeOK
<1>3. \A g \in Handlers : TaskOK(g, task'[g])
  BY <1>2 DEF SessInv, TasksOK
<1>4. \A g, j : TaskOK(g, j) => TaskOK(g, j)'
  BY TablesSame DEF TaskOK
<1>5. TasksOK'
  BY <1>3, <1>4 DEF TasksOK
<1> QED BY <1>1, <1>5

(* A step that changes nothing but the task. *)
LEMMA TaskStepKeeps ==
    ASSUME SessInv, UNCHANGED <<dirVars, chal, session, joined, subs, published>>,
           NEW h \in Handlers, NEW k \in Tasks, TaskOK(h, k), task' = [task EXCEPT ![h] = k]
    PROVE  SessInv'
<1>1. TasksOK' /\ task' \in [Handlers -> Tasks]
  BY TasksKept
<1>2. SessTypeOK' /\ ChallengesOK'
  BY <1>1 DEF SessInv, SessTypeOK, ChallengesOK
<1>3. SessionsOK'
  BY TablesSame DEF SessInv, SessionsOK
<1>4. Seated'
  BY TablesSame DEF SessInv, Seated, dirVars
<1>5. SubsIn' /\ PublishedIn'
  BY TablesSame DEF SessInv, SubsIn, PublishedIn
<1> QED BY <1>1, <1>2, <1>3, <1>4, <1>5 DEF SessInv

(* Requests arrive, and are refused. *)
LEMMA PasswordRequestKeeps ==
    ASSUME SessInv, NEW c \in Conns, NEW t \in Tenants, NEW n \in Names, PasswordRequest(c, t, n)
    PROVE  SessInv'
<1> DEFINE k == [op |-> "password", pc |-> "tenant", tenant |-> t, name |-> n, late |-> Suspended(t)]
<1>1. Suspended(t) \in BOOLEAN
  BY DEF Suspended
<1>2. k \in LoginTasks
  BY <1>1 DEF LoginTasks
<1>3. k \in Tasks
  BY <1>2 DEF Tasks
<1>4. TaskOK(c, k)
  BY DEF TaskOK, TokenShown, IntegShown, Stoppable
<1>5. task' = [task EXCEPT ![c] = k] /\ UNCHANGED <<dirVars, chal, session, joined, subs, published>>
  BY DEF PasswordRequest
<1> HIDE DEF k
<1> QED BY <1>3, <1>4, <1>5, TaskStepKeeps DEF Handlers

(* A token or an integration's secret is shown. *)
LEMMA BearerRequestKeeps ==
    ASSUME SessInv, NEW h \in Handlers, NEW op \in {"token", "rest", "inbound"},
           NEW cred \in TokenIds \cup IntegIds, NEW late \in BOOLEAN,
           (op \in {"token", "rest"} /\ late) => Revoked(cred),
           (op = "inbound" /\ late) => Disabled(cred),
           BearerRequest(h, op, cred, late)
    PROVE  SessInv'
<1> DEFINE k == [op |-> op, pc |-> "lookup", cred |-> cred, late |-> late]
<1>1. k \in BearerTasks
  BY DEF BearerTasks
<1>2. k \in Tasks
  BY <1>1 DEF Tasks
<1>3. TaskOK(h, k)
  BY DEF TaskOK, TokenShown, IntegShown, Stoppable, BearerRequest
<1>4. task' = [task EXCEPT ![h] = k] /\ UNCHANGED <<dirVars, chal, session, joined, subs, published>>
  BY DEF BearerRequest
<1> HIDE DEF k
<1> QED BY <1>2, <1>3, <1>4, TaskStepKeeps

(* An error ends the request. *)
LEMMA RefuseKeeps == ASSUME SessInv, NEW h \in Handlers, Refuse(h) PROVE SessInv'
BY IdleOK, TaskStepKeeps DEF Refuse, Done

(* The token found is the one shown; it is not revoked, so only a          *)
(* suspended tenant can have made the request late.                        *)
LEMMA LookupTokenKeeps == ASSUME DirInv, SessInv, NEW h \in Handlers, LookupToken(h) PROVE SessInv'
<1> DEFINE r == task[h]
<1>1. r \in Tasks /\ TaskOK(h, r) /\ r.op \in {"token", "rest"} /\ r.pc = "lookup"
  BY DEF LookupToken, SessInv, SessTypeOK, TasksOK
<1>2. PICK x \in GetTokenByHash(r.cred) :
          Found(h, [tenant |-> x.tenant, account |-> x.account], None)
  BY DEF LookupToken
<1>3. x \in tokens /\ x \in TokenRows /\ x.id = r.cred /\ ~x.revoked
  BY <1>2, DirInvParts DEF GetTokenByHash, Columns
<1>4. x.tenant \in Tenants /\ x.account \in AccountIds
  BY <1>3 DEF TokenRows
<1>5. r \in BearerTasks
  BY <1>1, TaskKinds
<1>6. r.cred \in TokenIds \cup IntegIds /\ r.late \in BOOLEAN
  BY <1>5 DEF BearerTasks
<1> DEFINE k == [op |-> r.op, pc |-> "tenant", who |-> [tenant |-> x.tenant, account |-> x.account],
                 channel |-> None, cred |-> r.cred, late |-> r.late]
<1>7. /\ k \in FoundTasks
      /\ k.op = r.op /\ k.pc = "tenant" /\ k.cred = r.cred /\ k.late = r.late
      /\ k.who.tenant = x.tenant /\ k.who.account = x.account
  BY <1>1, <1>4, <1>6 DEF FoundTasks, Who
<1>8. task' = [task EXCEPT ![h] = k] /\ UNCHANGED <<dirVars, chal, session, joined, subs, published>>
  BY <1>2 DEF LookupToken, Found
<1> HIDE DEF k, r
<1>9. k \in Tasks
  BY <1>7 DEF Tasks
<1>10. r.late => Suspended(x.tenant)
  <2> SUFFICES ASSUME r.late PROVE Suspended(x.tenant)
    OBVIOUS
  <2>1. PICK y \in tokens : y.id = r.cred /\ (y.revoked \/ Suspended(y.tenant))
    BY <1>1 DEF TaskOK, Stoppable, Revoked
  <2>2. y = x
    BY <1>3, <2>1, DirInvParts DEF Keyed
  <2> QED BY <1>3, <2>1, <2>2
<1>11. TaskOK(h, k)
  <2>1. TokenShown(k) /\ IntegShown(k)
    BY <1>1, <1>3, <1>7 DEF TokenShown, IntegShown
  <2>2. Stoppable(k)
    BY <1>1, <1>7, <1>10 DEF Stoppable
  <2> QED BY <1>1, <1>7, <2>1, <2>2 DEF TaskOK
<1> QED BY <1>8, <1>9, <1>11, TaskStepKeeps

(* The same of an integration. *)
LEMMA LookupIntegrationKeeps ==
    ASSUME DirInv, SessInv, NEW h \in Handlers, LookupIntegration(h)
    PROVE  SessInv'
<1> DEFINE r == task[h]
<1>1. r \in Tasks /\ TaskOK(h, r) /\ r.op = "inbound" /\ r.pc = "lookup"
  BY DEF LookupIntegration, SessInv, SessTypeOK, TasksOK
<1>2. PICK x \in GetIntegrationByTokenHash(r.cred) :
          Found(h, [tenant |-> x.tenant, account |-> x.account], x.channel)
  BY DEF LookupIntegration
<1>3. x \in integrations /\ x \in IntegRows /\ x.id = r.cred /\ ~x.disabled
  BY <1>2, DirInvParts DEF GetIntegrationByTokenHash, Columns
<1>4. x.tenant \in Tenants /\ x.account \in AccountIds /\ x.channel \in ChannelIds
  BY <1>3 DEF IntegRows
<1>5. r \in BearerTasks
  BY <1>1, TaskKinds
<1>6. r.cred \in TokenIds \cup IntegIds /\ r.late \in BOOLEAN
  BY <1>5 DEF BearerTasks
<1> DEFINE k == [op |-> r.op, pc |-> "tenant", who |-> [tenant |-> x.tenant, account |-> x.account],
                 channel |-> x.channel, cred |-> r.cred, late |-> r.late]
<1>7. /\ k \in FoundTasks
      /\ k.op = r.op /\ k.pc = "tenant" /\ k.cred = r.cred /\ k.late = r.late
      /\ k.who.tenant = x.tenant /\ k.who.account = x.account
  BY <1>1, <1>4, <1>6 DEF FoundTasks, Who
<1>8. task' = [task EXCEPT ![h] = k] /\ UNCHANGED <<dirVars, chal, session, joined, subs, published>>
  BY <1>2 DEF LookupIntegration, Found
<1> HIDE DEF k, r
<1>9. k \in Tasks
  BY <1>7 DEF Tasks
<1>10. r.late => Suspended(x.tenant)
  <2> SUFFICES ASSUME r.late PROVE Suspended(x.tenant)
    OBVIOUS
  <2>1. PICK y \in integrations : y.id = r.cred /\ (y.disabled \/ Suspended(y.tenant))
    BY <1>1 DEF TaskOK, Stoppable, Disabled
  <2>2. y = x
    BY <1>3, <2>1, DirInvParts DEF Keyed
  <2> QED BY <1>3, <2>1, <2>2
<1>11. TaskOK(h, k)
  <2>1. TokenShown(k) /\ IntegShown(k)
    BY <1>1, <1>3, <1>7 DEF TokenShown, IntegShown
  <2>2. Stoppable(k)
    BY <1>1, <1>7, <1>10 DEF Stoppable
  <2> QED BY <1>1, <1>7, <2>1, <2>2 DEF TaskOK
<1> QED BY <1>8, <1>9, <1>11, TaskStepKeeps

(* A tenant that is active is not suspended: what passes was in time. *)
LEMMA CheckTenantKeeps == ASSUME SessInv, NEW h \in Handlers, CheckTenant(h) PROVE SessInv'
<1> DEFINE r == task[h]
<1> DEFINE k == [r EXCEPT !.pc = "finish"]
<1>1. r \in Tasks /\ TaskOK(h, r) /\ r.pc = "tenant"
  BY DEF CheckTenant, SessInv, SessTypeOK, TasksOK
<1>2. tenants[TenantOf(h)] = "active" /\ task' = [task EXCEPT ![h] = k]
  BY DEF CheckTenant, SessInv, SessTypeOK
<1>3. UNCHANGED <<dirVars, chal, session, joined, subs, published>>
  BY DEF CheckTenant
<1>4. CASE r.op = "password"
  <2>1. r \in LoginTasks
    BY <1>1, <1>4, TaskKinds
  <2>2. k \in LoginTasks /\ k.op = "password" /\ k.pc = "finish" /\ k.late = r.late
    BY <2>1, <1>4 DEF LoginTasks
  <2>3. ~Suspended(r.tenant)
    BY <1>2, <1>4 DEF TenantOf, Suspended
  <2>4. k \in Tasks
    BY <2>2 DEF Tasks
  <2> HIDE DEF k, r
  <2>5. TaskOK(h, k)
    BY <1>1, <1>4, <2>2, <2>3 DEF TaskOK, TokenShown, IntegShown, Stoppable
  <2> QED BY <1>2, <1>3, <2>4, <2>5, TaskStepKeeps
<1>5. CASE r.op # "password"
  <2>1. r \in FoundTasks
    BY <1>1, <1>5, TaskKinds
  <2>2. /\ k \in FoundTasks /\ k.op = r.op /\ k.pc = "finish" /\ k.late = r.late
        /\ k.cred = r.cred /\ k.who = r.who
    BY <2>1 DEF FoundTasks
  <2>3. ~Suspended(r.who.tenant)
    BY <1>2, <1>5 DEF TenantOf, Suspended
  <2>4. k \in Tasks
    BY <2>2 DEF Tasks
  <2>5. r.op \in {"token", "rest", "inbound"}
    BY <2>1 DEF FoundTasks
  <2> HIDE DEF k, r
  <2>6. TokenShown(k) /\ IntegShown(k)
    BY <1>1, <2>2 DEF TaskOK, TokenShown, IntegShown
  <2>7. Stoppable(k)
    BY <1>1, <2>2, <2>3, <2>5 DEF TaskOK, Stoppable
  <2>8. TaskOK(h, k)
    BY <1>1, <2>2, <2>5, <2>6, <2>7 DEF TaskOK
  <2> QED BY <1>2, <1>3, <2>4, <2>8, TaskStepKeeps
<1> QED BY <1>4, <1>5
-----------------------------------------------------------------------------
(***************************************************************************)
(* Logins.                                                                 *)
(***************************************************************************)

(* A step that leaves sessions, seats and what was done with them alone. *)
LEMMA RestKept ==
    ASSUME SessInv, UNCHANGED <<dirVars, session, joined, subs, published>>
    PROVE  SessionsOK' /\ Seated' /\ SubsIn' /\ PublishedIn'
<1>1. SessionsOK'
  BY TablesSame DEF SessInv, SessionsOK
<1>2. Seated'
  BY TablesSame DEF SessInv, Seated, dirVars
<1>3. SubsIn' /\ PublishedIn'
  BY TablesSame DEF SessInv, SubsIn, PublishedIn
<1> QED BY <1>1, <1>2, <1>3

(* A challenge is issued only after the check of the tenant. *)
LEMMA IssueChallengeKeeps == ASSUME DirInv, SessInv, NEW c \in Conns, IssueChallenge(c) PROVE SessInv'
<1>1. c \in Handlers /\ UNCHANGED <<dirVars, session, joined, subs, published>>
      /\ task' = [task EXCEPT ![c] = Idle]
  BY DEF IssueChallenge, Handlers, Done
<1>2. task[c] \in Tasks /\ TaskOK(c, task[c]) /\ task[c].op = "password" /\ task[c].pc = "finish"
  BY <1>1 DEF IssueChallenge, SessInv, SessTypeOK, TasksOK
<1>3. task[c] \in LoginTasks
  BY <1>2, TaskKinds
<1>4. task[c].tenant \in Tenants /\ task[c].late \in BOOLEAN /\ ~task[c].late
  BY <1>2, <1>3 DEF LoginTasks, TaskOK, Stoppable
<1>5. PICK a \in GetAccountByUsername(task[c].tenant, task[c].name) :
          chal' = [chal EXCEPT ![c] = [tenant |-> task[c].tenant, account |-> a.id,
                                       late |-> task[c].late]]
  BY DEF IssueChallenge
<1>6. a.id \in AccountIds
  BY <1>5, AccountFound
<1> DEFINE x == [tenant |-> task[c].tenant, account |-> a.id, late |-> task[c].late]
<1>7. x \in Challenges /\ ~x.late /\ chal' = [chal EXCEPT ![c] = x]
  BY <1>4, <1>5, <1>6 DEF Challenges
<1> HIDE DEF x
<1>8. chal' \in [Conns -> Challenges \cup {None}] /\ ChallengesOK'
  BY <1>7 DEF SessInv, SessTypeOK, ChallengesOK
<1>9. TasksOK' /\ task' \in [Handlers -> Tasks]
  BY <1>1, IdleOK, TasksKept
<1>10. SessTypeOK'
  BY <1>1, <1>8, <1>9 DEF SessInv, SessTypeOK
<1> QED BY <1>1, <1>8, <1>9, <1>10, RestKept DEF SessInv

(* A connection without a session sits nowhere, so that a new session, or  *)
(* none, leaves the others as they were.                                   *)
LEMMA SessionSet ==
    ASSUME SessInv, UNCHANGED <<dirVars, subs, published>>, NEW c \in Conns,
           NEW x \in Sessions \cup {None}, session' = [session EXCEPT ![c] = x],
           x # None => /\ x.proved = x.who.account
                       /\ Account(x.who.tenant, x.proved)
                       /\ ~x.late,
           task' \in [Handlers -> Tasks], task'[c] = Idle,
           \A h \in Handlers : h # c => task'[h] = task[h],
           \A d \in Conns : d # c => joined'[d] = joined[d],
           joined' \in [Conns -> [ChanNames -> Seats \cup {None}]],
           \A n \in ChanNames : joined'[c][n] = None
    PROVE  TasksOK' /\ SessionsOK' /\ Seated' /\ SubsIn' /\ PublishedIn'
<1>1. \A d \in Conns : session'[d] = IF d = c THEN x ELSE session[d]
  BY DEF SessInv, SessTypeOK
<1>2. TasksOK'
  <2>1. \A h \in Handlers : task'[h] = IF h = c THEN Idle ELSE task[h]
    OBVIOUS
  <2> SUFFICES ASSUME NEW h \in Handlers, NEW k, k = IF h = c THEN Idle ELSE task[h]
               PROVE  TaskOK(h, k)'
    BY <2>1 DEF TasksOK
  <2>2. TokenShown(k) /\ IntegShown(k) /\ Stoppable(k)
    BY IdleOK DEF SessInv, TasksOK, TaskOK
  <2>3. CASE h = c
    BY <2>2, <2>3, IdleOK, TablesSame DEF TaskOK
  <2>4. CASE h # c
    <3>1. TaskOK(h, k)
      BY <2>4 DEF SessInv, TasksOK
    <3>2. h \in Conns => session'[h] = session[h]
      BY <1>1, <2>4
    <3> QED BY <3>1, <3>2, TablesSame DEF TaskOK
  <2> QED BY <2>3, <2>4
<1>3. SessionsOK'
  BY <1>1, TablesSame DEF SessInv, SessionsOK
<1>4. Seated'
  <2>1. \A d \in Conns, n \in ChanNames : joined'[d][n] # None =>
            session'[d] = session[d] /\ joined'[d] = joined[d]
    BY <1>1
  <2>2. granted' = granted /\ \A who, i, n : Room(who, i, n) => Room(who, i, n)'
    BY TablesSame DEF dirVars
  <2> QED BY <2>1, <2>2 DEF SessInv, Seated
<1>5. SubsIn' /\ PublishedIn'
  BY TablesSame DEF SessInv, SubsIn, PublishedIn
<1> QED BY <1>2, <1>3, <1>4, <1>5

(* Nobody without a session has a seat. *)
LEMMA NoSeats ==
    ASSUME SessInv, NEW c \in Conns, session[c] = None
    PROVE  \A n \in ChanNames : joined[c][n] = None
BY DEF SessInv, Seated

(* handleAuthResponse: the account of the challenge, if the proof is its. *)
LEMMA AuthResponseKeeps ==
    ASSUME DirInv, SessInv, NEW c \in Conns, NEW a \in AccountIds, AuthResponse(c, a)
    PROVE  SessInv'
<1>1. /\ task[c] = Idle /\ session[c] = None /\ chal[c] # None
      /\ chal' = [chal EXCEPT ![c] = None]
      /\ UNCHANGED <<dirVars, task, joined, subs, published>>
  BY DEF AuthResponse
<1>2. chal' \in [Conns -> Challenges \cup {None}] /\ ChallengesOK'
  BY <1>1 DEF SessInv, SessTypeOK, ChallengesOK
<1>3. PICK r \in GetAccountByID(chal[c].tenant, chal[c].account) :
          session' = IF r.id = a
                     THEN [session EXCEPT ![c] = [who |-> [tenant |-> r.tenant, account |-> r.id],
                                                  proved |-> a, late |-> chal[c].late]]
                     ELSE session
  BY DEF AuthResponse
<1>4. r \in accounts /\ r \in AccountRows
  BY <1>3, DirInvParts DEF GetAccountByID, Columns
<1>5. r.tenant \in Tenants /\ r.id \in AccountIds /\ Account(r.tenant, r.id)
  BY <1>4 DEF AccountRows, Account
<1>6. chal[c] \in Challenges
  BY <1>1 DEF SessInv, SessTypeOK
<1>7. chal[c].late \in BOOLEAN /\ ~chal[c].late
  BY <1>1, <1>6 DEF SessInv, ChallengesOK, Challenges
<1>8. CASE r.id # a
  <2>1. UNCHANGED session
    BY <1>3, <1>8
  <2>2. TasksOK'
    <3>1. \A h, k : TaskOK(h, k) => TaskOK(h, k)'
      BY <1>1, <2>1, TablesSame DEF TaskOK
    <3> QED BY <1>1, <3>1 DEF SessInv, TasksOK
  <2>3. SessTypeOK'
    BY <1>1, <1>2, <2>1 DEF SessInv, SessTypeOK
  <2> QED BY <1>1, <1>2, <2>1, <2>2, <2>3, RestKept DEF SessInv
<1>9. CASE r.id = a
  <2> DEFINE x == [who |-> [tenant |-> r.tenant, account |-> r.id], proved |-> a, late |-> chal[c].late]
  <2>1. /\ x \in Sessions /\ x.proved = a /\ x.who.account = r.id /\ x.who.tenant = r.tenant
        /\ ~x.late /\ session' = [session EXCEPT ![c] = x]
    BY <1>3, <1>5, <1>7, <1>9 DEF Sessions, Who
  <2> HIDE DEF x
  <2>2. session' \in [Conns -> Sessions \cup {None}]
    BY <2>1 DEF SessInv, SessTypeOK
  <2>3. /\ task' \in [Handlers -> Tasks]
        /\ joined' \in [Conns -> [ChanNames -> Seats \cup {None}]]
    BY <1>1 DEF SessInv, SessTypeOK
  <2>4. SessTypeOK'
    BY <1>1, <1>2, <2>2 DEF SessInv, SessTypeOK
  <2>5. x.proved = x.who.account /\ Account(x.who.tenant, x.proved) /\ ~x.late
    BY <2>1, <1>5, <1>9
  <2>6. TasksOK' /\ SessionsOK' /\ Seated' /\ SubsIn' /\ PublishedIn'
    BY <1>1, <2>1, <2>3, <2>5, NoSeats, SessionSet
  <2> QED BY <1>2, <2>4, <2>6 DEF SessInv
<1> QED BY <1>8, <1>9

(* handleTokenAuthRequest: the account of the token that was shown. *)
LEMMA TokenLoginKeeps == ASSUME DirInv, SessInv, NEW c \in Conns, TokenLogin(c) PROVE SessInv'
<1>1. /\ c \in Handlers
      /\ task[c].op = "token" /\ task[c].pc = "finish"
      /\ task' = [task EXCEPT ![c] = Idle]
      /\ UNCHANGED <<dirVars, chal, joined, subs, published>>
  BY DEF TokenLogin, Handlers, Done
<1>2. task[c] \in Tasks /\ TaskOK(c, task[c])
  BY <1>1 DEF SessInv, SessTypeOK, TasksOK
<1>3. task[c] \in FoundTasks
  BY <1>1, <1>2, TaskKinds
<1>4. session[c] = None /\ ~task[c].late /\ TokenShown(task[c])
  BY <1>1, <1>2 DEF TaskOK, Stoppable
<1>5. task[c].late \in BOOLEAN
  BY <1>3 DEF FoundTasks
<1>6. PICK r \in GetAccountByID(task[c].who.tenant, task[c].who.account),
           k \in {x \in tokens : x.id = task[c].cred} :
          session' = [session EXCEPT ![c] = [who |-> [tenant |-> r.tenant, account |-> r.id],
                                             proved |-> k.account, late |-> task[c].late]]
  BY DEF TokenLogin
<1>7. r \in accounts /\ r \in AccountRows /\ r.id = task[c].who.account
  BY <1>6, DirInvParts DEF GetAccountByID, Columns
<1>8. r.tenant \in Tenants /\ r.id \in AccountIds /\ Account(r.tenant, r.id)
  BY <1>7 DEF AccountRows, Account
<1>9. k.account = r.id
  <2>1. PICK y \in tokens : y.id = task[c].cred /\ y.account = task[c].who.account
    BY <1>1, <1>4 DEF TokenShown
  <2>2. y = k
    BY <1>6, <2>1, DirInvParts DEF Keyed
  <2> QED BY <1>7, <2>1, <2>2
<1> DEFINE x == [who |-> [tenant |-> r.tenant, account |-> r.id], proved |-> k.account,
                 late |-> task[c].late]
<1>10. /\ x \in Sessions /\ x.proved = k.account /\ x.who.account = r.id /\ x.who.tenant = r.tenant
       /\ ~x.late /\ session' = [session EXCEPT ![c] = x]
  BY <1>4, <1>5, <1>6, <1>8, <1>9 DEF Sessions, Who
<1> HIDE DEF x
<1>11. session' \in [Conns -> Sessions \cup {None}]
  BY <1>10 DEF SessInv, SessTypeOK
<1>12. /\ task' \in [Handlers -> Tasks] /\ task'[c] = Idle
       /\ \A h \in Handlers : h # c => task'[h] = task[h]
       /\ joined' \in [Conns -> [ChanNames -> Seats \cup {None}]]
  BY <1>1, IdleOK DEF SessInv, SessTypeOK
<1>13. SessTypeOK' /\ ChallengesOK'
  BY <1>1, <1>11, <1>12 DEF SessInv, SessTypeOK, ChallengesOK
<1>14. x.proved = x.who.account /\ Account(x.who.tenant, x.proved) /\ ~x.late
  BY <1>8, <1>9, <1>10
<1>15. TasksOK' /\ SessionsOK' /\ Seated' /\ SubsIn' /\ PublishedIn'
  BY <1>1, <1>4, <1>10, <1>12, <1>14, NoSeats, SessionSet
<1> QED BY <1>13, <1>15 DEF SessInv

(* The connection ends, and with it its session and its seats. *)
LEMMA DisconnectKeeps == ASSUME SessInv, NEW c \in Conns, Disconnect(c) PROVE SessInv'
<1>1. /\ task[c] = Idle
      /\ chal' = [chal EXCEPT ![c] = None]
      /\ session' = [session EXCEPT ![c] = None]
      /\ joined' = [joined EXCEPT ![c] = [n \in ChanNames |-> None]]
      /\ UNCHANGED <<dirVars, task, subs, published>>
  BY DEF Disconnect
<1>2. /\ joined' \in [Conns -> [ChanNames -> Seats \cup {None}]]
      /\ \A n \in ChanNames : joined'[c][n] = None
      /\ \A d \in Conns : d # c => joined'[d] = joined[d]
  BY <1>1 DEF SessInv, SessTypeOK
<1>3. /\ task' \in [Handlers -> Tasks]
      /\ chal' \in [Conns -> Challenges \cup {None}]
      /\ session' \in [Conns -> Sessions \cup {None}]
  BY <1>1 DEF SessInv, SessTypeOK
<1>4. SessTypeOK' /\ ChallengesOK'
  BY <1>1, <1>2, <1>3 DEF SessInv, SessTypeOK, ChallengesOK
<1>5. TasksOK' /\ SessionsOK' /\ Seated' /\ SubsIn' /\ PublishedIn'
  BY <1>1, <1>2, <1>3, SessionSet
<1> QED BY <1>4, <1>5 DEF SessInv
-----------------------------------------------------------------------------
(***************************************************************************)
(* Verbs and requests.                                                     *)
(***************************************************************************)

(* canJoin: a public channel, or a role that may join. *)
LEMMA JoinCheckKeeps ==
    ASSUME DirInv, SessInv, NEW c \in Conns, NEW n \in ChanNames, JoinCheck(c, n)
    PROVE  SessInv'
<1>1. session[c] # None /\ UNCHANGED <<dirVars, chal, session, joined, subs, published>>
  BY DEF JoinCheck
<1>2. PICK ch \in GetChannelByName(Me(c).tenant, n) :
          /\ canJoin(c, ch)
          /\ task' = [task EXCEPT ![c] = [op |-> "join", pc |-> "role", name |-> n,
                                          channel |-> ch.id]]
  BY DEF JoinCheck
<1>3. ch \in channels /\ ch \in ChannelRows /\ ch.id \in ChannelIds
  BY <1>2, ChannelFound
<1>4. ch.tenant = session[c].who.tenant /\ ch.name = n
  BY <1>2 DEF GetChannelByName, Me
<1>5. ch.visibility = "private" => Invited(ch.id, session[c].who.account)
  <2> SUFFICES ASSUME ch.visibility = "private" PROVE Invited(ch.id, session[c].who.account)
    OBVIOUS
  <2>1. PICK e \in GetChannelACL(Me(c).tenant, ch.id, Me(c).account) : CanJoin(e.role)
    BY <1>2 DEF canJoin
  <2>2. e \in acl /\ e \in AclRows /\ e.channel = ch.id /\ e.account = session[c].who.account
    BY <2>1, DirInvParts DEF GetChannelACL, Me, Columns
  <2>3. e.role \in Roles /\ <<e.channel, e.account, e.role>> \in granted
    BY <2>2, DirInvParts DEF AclGranted, AclRows
  <2> QED BY <2>1, <2>2, <2>3 DEF Invited
<1>6. Room(session[c].who, ch.id, n)
  BY <1>3, <1>4, <1>5 DEF Room
<1> DEFINE k == [op |-> "join", pc |-> "role", name |-> n, channel |-> ch.id]
<1>7. /\ k \in JoinTasks /\ task' = [task EXCEPT ![c] = k]
      /\ k.op = "join" /\ k.pc = "role" /\ k.name = n /\ k.channel = ch.id
  BY <1>2, <1>3 DEF JoinTasks
<1> HIDE DEF k
<1>8. k \in Tasks
  BY <1>7 DEF Tasks
<1>9. TaskOK(c, k)
  BY <1>1, <1>6, <1>7 DEF TaskOK, TokenShown, IntegShown, Stoppable
<1> QED BY <1>1, <1>7, <1>8, <1>9, TaskStepKeeps DEF Handlers

(* The seat is that of the check, with the role of the second read. *)
LEMMA JoinKeeps == ASSUME DirInv, SessInv, NEW c \in Conns, Join(c) PROVE SessInv'
<1>1. /\ c \in Handlers /\ task[c].op = "join"
      /\ task' = [task EXCEPT ![c] = Idle]
      /\ UNCHANGED <<dirVars, chal, session, subs, published>>
  BY DEF Join, Handlers, Done
<1>2. task[c] \in Tasks /\ TaskOK(c, task[c])
  BY <1>1 DEF SessInv, SessTypeOK, TasksOK
<1>3. task[c] \in JoinTasks
  BY <1>1, <1>2, TaskKinds
<1>4. task[c].name \in ChanNames /\ task[c].channel \in ChannelIds
  BY <1>3 DEF JoinTasks
<1>5. session[c] # None /\ Room(session[c].who, task[c].channel, task[c].name)
  BY <1>1, <1>2 DEF TaskOK
<1> DEFINE acls == GetChannelACL(Me(c).tenant, task[c].channel, Me(c).account)
<1>6. PICK role \in (IF acls = {} THEN {None} ELSE {e.role : e \in acls}) :
          joined' = [joined EXCEPT ![c][task[c].name] = [channel |-> task[c].channel, role |-> role]]
  BY DEF Join
<1>7. /\ role \in Roles \cup {None}
      /\ role # None => <<task[c].channel, session[c].who.account, role>> \in granted
  <2>1. CASE acls = {}
    BY <1>6, <2>1
  <2>2. CASE acls # {}
    <3>1. PICK e \in acls : role = e.role
      BY <1>6, <2>2
    <3>2. e \in acl /\ e \in AclRows /\ e.channel = task[c].channel /\ e.account = session[c].who.account
      BY <3>1, DirInvParts DEF GetChannelACL, Me, Columns
    <3>3. e.role \in Roles /\ <<e.channel, e.account, e.role>> \in granted
      BY <3>2, DirInvParts DEF AclGranted, AclRows
    <3> QED BY <3>1, <3>2, <3>3
  <2> QED BY <2>1, <2>2
<1> HIDE DEF acls
<1> DEFINE seat == [channel |-> task[c].channel, role |-> role]
<1>8. seat \in Seats /\ seat.channel = task[c].channel /\ seat.role = role
  BY <1>4, <1>7 DEF Seats
<1> HIDE DEF seat
<1>9. joined' = [joined EXCEPT ![c] = [joined[c] EXCEPT ![task[c].name] = seat]]
  BY <1>6 DEF seat, SessInv, SessTypeOK
<1>10. [joined[c] EXCEPT ![task[c].name] = seat] \in [ChanNames -> Seats \cup {None}]
  BY <1>8 DEF SessInv, SessTypeOK
<1>11. joined' \in [Conns -> [ChanNames -> Seats \cup {None}]]
  BY <1>9, <1>10 DEF SessInv, SessTypeOK
<1>12. \A d \in Conns, n \in ChanNames :
           joined'[d][n] = IF d = c /\ n = task[c].name THEN seat ELSE joined[d][n]
  BY <1>4, <1>9 DEF SessInv, SessTypeOK
<1>13. TasksOK' /\ task' \in [Handlers -> Tasks]
  BY <1>1, IdleOK, TasksKept
<1>14. SessTypeOK' /\ ChallengesOK'
  BY <1>1, <1>11, <1>13 DEF SessInv, SessTypeOK, ChallengesOK
<1>15. SessionsOK' /\ SubsIn' /\ PublishedIn'
  BY <1>1, TablesSame DEF SessInv, SessionsOK, SubsIn, PublishedIn
<1>16. Seated'
  <2> SUFFICES ASSUME NEW d \in Conns, NEW n \in ChanNames, joined'[d][n] # None
               PROVE  /\ session[d] # None
                      /\ Room(session[d].who, joined'[d][n].channel, n)
                      /\ joined'[d][n].role # None =>
                            <<joined'[d][n].channel, session[d].who.account,
                              joined'[d][n].role>> \in granted
    BY <1>1, TablesSame DEF Seated, dirVars
  <2>1. CASE d = c /\ n = task[c].name
    BY <1>5, <1>7, <1>8, <1>12, <2>1
  <2>2. CASE ~(d = c /\ n = task[c].name)
    BY <1>12, <2>2 DEF SessInv, Seated
  <2> QED BY <2>1, <2>2
<1> QED BY <1>13, <1>14, <1>15, <1>16 DEF SessInv

(* A seat is given up. *)
LEMMA PartKeeps == ASSUME SessInv, NEW c \in Conns, NEW n \in ChanNames, Part(c, n) PROVE SessInv'
<1>1. /\ joined' = [joined EXCEPT ![c][n] = None]
      /\ UNCHANGED <<dirVars, task, chal, session, subs, published>>
  BY DEF Part
<1>2. joined' = [joined EXCEPT ![c] = [joined[c] EXCEPT ![n] = None]]
  BY <1>1 DEF SessInv, SessTypeOK
<1>3. joined' \in [Conns -> [ChanNames -> Seats \cup {None}]]
  BY <1>2 DEF SessInv, SessTypeOK
<1>4. \A d \in Conns, m \in ChanNames : joined'[d][m] # None => joined'[d][m] = joined[d][m]
  BY <1>2 DEF SessInv, SessTypeOK
<1>5. SessTypeOK' /\ ChallengesOK'
  BY <1>1, <1>3 DEF SessInv, SessTypeOK, ChallengesOK
<1>6. SessionsOK' /\ SubsIn' /\ PublishedIn'
  BY <1>1, TablesSame DEF SessInv, SessionsOK, SubsIn, PublishedIn
<1>7. TasksOK'
  <2>1. \A h, k : TaskOK(h, k) => TaskOK(h, k)'
    BY <1>1, TablesSame DEF TaskOK
  <2> QED BY <1>1, <2>1 DEF SessInv, TasksOK
<1>8. Seated'
  BY <1>1, <1>4, TablesSame DEF SessInv, Seated, dirVars
<1> QED BY <1>5, <1>6, <1>7, <1>8 DEF SessInv

(* subops.Create: bot and channel are found in the caller's tenant,        *)
(* whichever way the channel was named.                                    *)
LEMMA SubscribeKeeps ==
    ASSUME DirInv, SessInv, NEW who \in Who, NEW n, NEW i, Subscribe(who, n, i),
           UNCHANGED dirVars
    PROVE  /\ subs' \subseteq [tenant : Tenants, account : AccountIds, channel : ChannelIds]
           /\ SubsIn'
<1>1. PICK a \in GetAccountByID(who.tenant, who.account), ch \in resolveChannelID(who.tenant, n, i) :
          /\ a.type = "bot"
          /\ subs' = subs \cup {[tenant |-> who.tenant, account |-> a.id, channel |-> ch.id]}
  BY DEF Subscribe
<1>2. a \in accounts /\ a \in AccountRows /\ a.tenant = who.tenant
  BY <1>1, DirInvParts DEF GetAccountByID, Columns
<1>3. a.id \in AccountIds /\ Bot(who.tenant, a.id)
  BY <1>1, <1>2 DEF AccountRows, Bot
<1>4. ch.id \in ChannelIds /\ Chan(who.tenant, ch.id)
  BY <1>1, ChannelResolved
<1>5. who.tenant \in Tenants
  BY DEF Who
<1> DEFINE s == [tenant |-> who.tenant, account |-> a.id, channel |-> ch.id]
<1>6. /\ subs' = subs \cup {s} /\ s \in [tenant : Tenants, account : AccountIds, channel : ChannelIds]
      /\ s.tenant = who.tenant /\ s.account = a.id /\ s.channel = ch.id
  BY <1>1, <1>3, <1>4, <1>5
<1> HIDE DEF s
<1>7. SubsIn'
  BY <1>3, <1>4, <1>6, TablesSame DEF SessInv, SubsIn
<1> QED BY <1>6, <1>7 DEF SessInv, SessTypeOK

(* Over the connection. *)
LEMMA SubscriptionVerbKeeps ==
    ASSUME DirInv, SessInv, NEW c \in Conns, NEW n, NEW i, SubscriptionVerb(c, n, i)
    PROVE  SessInv'
<1>1. session[c] # None /\ Subscribe(Me(c), n, i) /\ UNCHANGED <<dirVars, task, chal, session, joined, published>>
  BY DEF SubscriptionVerb
<1>2. session[c] \in Sessions
  BY <1>1 DEF SessInv, SessTypeOK
<1>3. Me(c) \in Who
  BY <1>2 DEF Sessions, Me
<1>4. subs' \subseteq [tenant : Tenants, account : AccountIds, channel : ChannelIds] /\ SubsIn'
  BY <1>1, <1>3, SubscribeKeeps
<1>5. SessTypeOK' /\ ChallengesOK'
  BY <1>1, <1>4 DEF SessInv, SessTypeOK, ChallengesOK
<1>6. SessionsOK' /\ PublishedIn'
  BY <1>1, TablesSame DEF SessInv, SessionsOK, PublishedIn
<1>7. Seated'
  BY <1>1, TablesSame DEF SessInv, Seated, dirVars
<1>8. TasksOK'
  <2>1. \A h, k : TaskOK(h, k) => TaskOK(h, k)'
    BY <1>1, TablesSame DEF TaskOK
  <2> QED BY <1>1, <2>1 DEF SessInv, TasksOK
<1> QED BY <1>4, <1>5, <1>6, <1>7, <1>8 DEF SessInv

(* Over REST. *)
LEMMA RestSubscribeKeeps ==
    ASSUME DirInv, SessInv, NEW h \in Handlers, NEW n, NEW i, RestSubscribe(h, n, i)
    PROVE  SessInv'
<1>1. /\ task[h].op = "rest" /\ task[h].pc = "finish" /\ Subscribe(task[h].who, n, i)
      /\ task' = [task EXCEPT ![h] = Idle]
      /\ UNCHANGED <<dirVars, chal, session, joined, published>>
  BY DEF RestSubscribe, Done
<1>2. task[h] \in FoundTasks
  BY <1>1, TaskKinds DEF SessInv, SessTypeOK
<1>3. task[h].who \in Who
  BY <1>2 DEF FoundTasks
<1>4. subs' \subseteq [tenant : Tenants, account : AccountIds, channel : ChannelIds] /\ SubsIn'
  BY <1>1, <1>3, SubscribeKeeps
<1>5. TasksOK' /\ task' \in [Handlers -> Tasks]
  BY <1>1, IdleOK, TasksKept
<1>6. SessTypeOK' /\ ChallengesOK'
  BY <1>1, <1>4, <1>5 DEF SessInv, SessTypeOK, ChallengesOK
<1>7. SessionsOK' /\ PublishedIn'
  BY <1>1, TablesSame DEF SessInv, SessionsOK, PublishedIn
<1>8. Seated'
  BY <1>1, TablesSame DEF SessInv, Seated, dirVars
<1> QED BY <1>4, <1>5, <1>6, <1>7, <1>8 DEF SessInv

(* An inbound post is published in the tenant and in the name of the       *)
(* integration that was shown.                                             *)
LEMMA PublishInboundKeeps ==
    ASSUME DirInv, SessInv, NEW h \in Handlers, PublishInbound(h)
    PROVE  SessInv'
<1>1. /\ task[h].op = "inbound" /\ task[h].pc = "finish"
      /\ task' = [task EXCEPT ![h] = Idle]
      /\ UNCHANGED <<dirVars, chal, session, joined, subs>>
  BY DEF PublishInbound, Done
<1>2. task[h] \in Tasks /\ TaskOK(h, task[h])
  BY DEF SessInv, SessTypeOK, TasksOK
<1>3. task[h] \in FoundTasks
  BY <1>1, <1>2, TaskKinds
<1>4. task[h].who \in Who /\ task[h].late \in BOOLEAN
  BY <1>3 DEF FoundTasks
<1>5. ~task[h].late /\ IntegShown(task[h])
  BY <1>1, <1>2 DEF TaskOK, Stoppable
<1>6. Account(task[h].who.tenant, task[h].who.account)
  BY <1>1, <1>5, DirInvParts DEF IntegShown, IntegsIn
<1>7. PICK ch \in GetChannelByID(task[h].who.tenant, task[h].channel) :
          published' = published \cup {[channel |-> ch.id, tenant |-> ch.tenant,
                                        from |-> task[h].who, late |-> task[h].late]}
  BY DEF PublishInbound
<1>8. ch \in ChannelRows /\ ch.tenant = task[h].who.tenant
  BY <1>7, DirInvParts DEF GetChannelByID, Columns
<1>9. ch.id \in ChannelIds /\ ch.tenant \in Tenants
  BY <1>8 DEF ChannelRows
<1> DEFINE p == [channel |-> ch.id, tenant |-> ch.tenant, from |-> task[h].who, late |-> task[h].late]
<1>10. /\ published' = published \cup {p}
       /\ p \in [channel : ChannelIds, tenant : Tenants, from : Who, late : BOOLEAN]
       /\ p.tenant = ch.tenant /\ p.from = task[h].who /\ ~p.late
  BY <1>4, <1>5, <1>7, <1>9
<1> HIDE DEF p
<1>11. PublishedIn'
  BY <1>1, <1>6, <1>8, <1>10, TablesSame DEF SessInv, PublishedIn
<1>12. TasksOK' /\ task' \in [Handlers -> Tasks]
  BY <1>1, IdleOK, TasksKept
<1>13. SessTypeOK' /\ ChallengesOK'
  BY <1>1, <1>10, <1>12 DEF SessInv, SessTypeOK, ChallengesOK
<1>14. SessionsOK' /\ SubsIn'
  BY <1>1, TablesSame DEF SessInv, SessionsOK, SubsIn
<1>15. Seated'
  BY <1>1, TablesSame DEF SessInv, Seated, dirVars
<1> QED BY <1>11, <1>12, <1>13, <1>14, <1>15 DEF SessInv
-----------------------------------------------------------------------------
(***************************************************************************)
(* The invariant, and what follows from it.                                *)
(***************************************************************************)

(* A server that starts. *)
LEMMA InitInv == Init => DirInv /\ SessInv
<1> SUFFICES ASSUME Init PROVE DirInv /\ SessInv
  OBVIOUS
<1>1. DirInv
  BY DirInitInv DEF Init
<1>2. SessTypeOK
  BY IdleOK DEF Init, SessTypeOK
<1>3. TasksOK
  BY IdleOK DEF Init, TasksOK
<1>4. ChallengesOK /\ SessionsOK /\ Seated /\ SubsIn /\ PublishedIn
  BY DEF Init, ChallengesOK, SessionsOK, Seated, SubsIn, PublishedIn
<1> QED BY <1>1, <1>2, <1>3, <1>4 DEF SessInv

(* A frame of a connection. *)
LEMMA ConnStepKeeps ==
    ASSUME DirInv, SessInv, NEW c \in Conns, ConnStep(c)
    PROVE  SessInv' /\ UNCHANGED dirVars
<1>1. CASE \E t \in Tenants, n \in Names : PasswordRequest(c, t, n)
  BY <1>1, PasswordRequestKeeps DEF PasswordRequest
<1>2. CASE \E k \in TokenIds : BearerRequest(c, "token", k, Revoked(k))
  <2>1. PICK k \in TokenIds : BearerRequest(c, "token", k, Revoked(k))
    BY <1>2
  <2>2. Revoked(k) \in BOOLEAN /\ k \in TokenIds \cup IntegIds /\ c \in Handlers
    BY DEF Revoked, Handlers
  <2>3. SessInv'
    BY <2>1, <2>2, BearerRequestKeeps
  <2> QED BY <2>1, <2>3 DEF BearerRequest
<1>3. CASE IssueChallenge(c)
  BY <1>3, IssueChallengeKeeps DEF IssueChallenge
<1>4. CASE TokenLogin(c)
  BY <1>4, TokenLoginKeeps DEF TokenLogin
<1>5. CASE \E a \in AccountIds : AuthResponse(c, a)
  BY <1>5, AuthResponseKeeps DEF AuthResponse
<1>6. CASE \E n \in ChanNames : JoinCheck(c, n)
  BY <1>6, JoinCheckKeeps DEF JoinCheck
<1>7. CASE \E n \in ChanNames : Part(c, n)
  BY <1>7, PartKeeps DEF Part
<1>8. CASE \E n \in ChanNames \cup {None}, i \in ChannelIds \cup {None} : SubscriptionVerb(c, n, i)
  BY <1>8, SubscriptionVerbKeeps DEF SubscriptionVerb
<1>9. CASE Join(c)
  BY <1>9, JoinKeeps DEF Join
<1>10. CASE Disconnect(c)
  BY <1>10, DisconnectKeeps DEF Disconnect
<1> QED BY <1>1, <1>2, <1>3, <1>4, <1>5, <1>6, <1>7, <1>8, <1>9, <1>10 DEF ConnStep

(* A request over HTTP. *)
LEMMA ReqStepKeeps ==
    ASSUME DirInv, SessInv, NEW r \in Reqs, ReqStep(r)
    PROVE  SessInv' /\ UNCHANGED dirVars
<1>1. r \in Handlers
  BY DEF Handlers
<1>2. CASE \E k \in TokenIds : BearerRequest(r, "rest", k, Revoked(k))
  <2>1. PICK k \in TokenIds : BearerRequest(r, "rest", k, Revoked(k))
    BY <1>2
  <2>2. Revoked(k) \in BOOLEAN /\ k \in TokenIds \cup IntegIds
    BY DEF Revoked
  <2>3. SessInv'
    BY <1>1, <2>1, <2>2, BearerRequestKeeps
  <2> QED BY <2>1, <2>3 DEF BearerRequest
<1>3. CASE \E i \in IntegIds : BearerRequest(r, "inbound", i, Disabled(i))
  <2>1. PICK i \in IntegIds : BearerRequest(r, "inbound", i, Disabled(i))
    BY <1>3
  <2>2. Disabled(i) \in BOOLEAN /\ i \in TokenIds \cup IntegIds
    BY DEF Disabled
  <2>3. SessInv'
    BY <1>1, <2>1, <2>2, BearerRequestKeeps
  <2> QED BY <2>1, <2>3 DEF BearerRequest
<1>4. CASE \E n \in ChanNames \cup {None}, i \in ChannelIds \cup {None} : RestSubscribe(r, n, i)
  BY <1>1, <1>4, RestSubscribeKeeps DEF RestSubscribe
<1>5. CASE PublishInbound(r)
  BY <1>1, <1>5, PublishInboundKeeps DEF PublishInbound
<1> QED BY <1>2, <1>3, <1>4, <1>5 DEF ReqStep

(* Every step. *)
LEMMA NextInv == DirInv /\ SessInv /\ [Next]_vars => (DirInv /\ SessInv)'
<1> SUFFICES ASSUME DirInv, SessInv, [Next]_vars PROVE DirInv' /\ SessInv'
  OBVIOUS
<1>1. CASE DirNext /\ UNCHANGED sessVars
  BY <1>1, DirNextInv, CommandKeeps
<1>2. CASE \E c \in Conns : ConnStep(c)
  BY <1>2, ConnStepKeeps, TablesSame
<1>3. CASE \E r \in Reqs : ReqStep(r)
  BY <1>3, ReqStepKeeps, TablesSame
<1>4. CASE \E h \in Handlers : LookupToken(h) \/ LookupIntegration(h) \/ CheckTenant(h) \/ Refuse(h)
  <2>1. PICK h \in Handlers : LookupToken(h) \/ LookupIntegration(h) \/ CheckTenant(h) \/ Refuse(h)
    BY <1>4
  <2>2. SessInv'
    BY <2>1, LookupTokenKeeps, LookupIntegrationKeeps, CheckTenantKeeps, RefuseKeeps
  <2>3. UNCHANGED dirVars
    BY <2>1 DEF LookupToken, LookupIntegration, CheckTenant, Refuse
  <2> QED BY <2>2, <2>3, TablesSame
<1>5. CASE UNCHANGED vars
  <2>1. UNCHANGED dirVars /\ UNCHANGED sessVars
    BY <1>5 DEF vars
  <2>2. Grows
    BY <2>1 DEF dirVars, Grows
  <2> QED BY <2>1, <2>2, TablesSame, CommandKeeps
<1> QED BY <1>1, <1>2, <1>3, <1>4, <1>5 DEF Next

(* The invariant of every behaviour. *)
LEMMA InvHolds == Spec => [](DirInv /\ SessInv)
BY InitInv, NextInv, PTL DEF Spec

(* Tables, tasks, challenges, sessions and seats keep their types under    *)
(* every command, frame and request.                                       *)
THEOREM AccessTypeCorrect == Spec => []TypeOK
<1>1. DirInv /\ SessInv => TypeOK
  BY DEF DirInv, SessInv, SessTypeOK, Tasks, TypeOK
<1> QED BY <1>1, InvHolds, PTL

(* auth.go and conn.go: a connection acts as the account whose password or *)
(* token it showed, and in that account's tenant.                          *)
THEOREM Identities == Spec => []IdentityIsProved
<1>1. DirInv /\ SessInv => IdentityIsProved
  BY DEF SessInv, SessionsOK, Account, IdentityIsProved, Me, Linked, Tables
<1> QED BY <1>1, InvHolds, PTL

(* The tenantID of every Store method: no row refers to another tenant,    *)
(* and no session, request or post reaches into one.                       *)
THEOREM Isolation == Spec => []TenantsApart
<1>1. DirInv /\ SessInv => TenantsApart
  <2> SUFFICES ASSUME DirInv, SessInv PROVE TenantsApart
    OBVIOUS
  <2>1. RowsStayInTenant
    BY DEF DirInv
  <2>2. \A c \in Conns, n \in ChanNames : joined[c][n] # None =>
            /\ session[c] # None
            /\ \E ch \in GetChannelByID(Me(c).tenant, joined[c][n].channel) : ch.name = n
    <3> SUFFICES ASSUME NEW c \in Conns, NEW n \in ChanNames, joined[c][n] # None
                 PROVE  /\ session[c] # None
                        /\ \E ch \in GetChannelByID(Me(c).tenant, joined[c][n].channel) : ch.name = n
      OBVIOUS
    <3>1. session[c] # None /\ Room(Me(c), joined[c][n].channel, n)
      BY DEF SessInv, Seated, Me
    <3>2. PICK ch \in channels :
              ch.tenant = Me(c).tenant /\ ch.id = joined[c][n].channel /\ ch.name = n
      BY <3>1 DEF Room
    <3>3. ch \in GetChannelByID(Me(c).tenant, joined[c][n].channel)
      BY <3>2 DEF GetChannelByID
    <3> QED BY <3>1, <3>2, <3>3
  <2>3. \A s \in subs : Placed(Tables, s.tenant, s.channel) /\ LinkedBot(Tables, s.tenant, s.account)
    BY DEF SessInv, SubsIn, Chan, Bot, Placed, LinkedBot, Tables
  <2>4. \A p \in published : p.tenant = p.from.tenant /\ Linked(Tables, p.tenant, p.from.account)
    BY DEF SessInv, PublishedIn, Account, Linked, Tables
  <2> QED BY <2>1, <2>2, <2>3, <2>4 DEF TenantsApart, ReachStaysInTenant
<1> QED BY <1>1, InvHolds, PTL

(* server.go, canJoin: whoever sits in a private channel was once invited, *)
(* and holds no role that was never given to it.                           *)
THEOREM InvitationsHold == Spec => []InvitedOnly
<1>1. DirInv /\ SessInv => InvitedOnly
  <2> SUFFICES ASSUME DirInv, SessInv, NEW c \in Conns, NEW n \in ChanNames, joined[c][n] # None
               PROVE  /\ joined[c][n].role # None =>
                            <<joined[c][n].channel, Me(c).account, joined[c][n].role>> \in granted
                      /\ \A ch \in channels :
                            (ch.id = joined[c][n].channel /\ ch.visibility = "private") =>
                               \E role \in Roles :
                                  CanJoin(role) /\ <<ch.id, Me(c).account, role>> \in granted
    BY DEF InvitedOnly
  <2>1. /\ Room(Me(c), joined[c][n].channel, n)
        /\ joined[c][n].role # None =>
              <<joined[c][n].channel, Me(c).account, joined[c][n].role>> \in granted
    BY DEF SessInv, Seated, Me
  <2>2. \A ch \in channels : (ch.id = joined[c][n].channel /\ ch.visibility = "private") =>
            Invited(ch.id, Me(c).account)
    BY <2>1 DEF Room, DirInv, Keyed
  <2> QED BY <2>1, <2>2 DEF Invited
<1> QED BY <1>1, InvHolds, PTL

(* auth.go, rest.go and inbound.go: what arrives after its credential was  *)
(* revoked or its tenant suspended never gets through.                     *)
THEOREM BarredOut == Spec => []BarredStaysOut
<1>1. DirInv /\ SessInv => BarredStaysOut
  BY DEF SessInv, SessionsOK, TasksOK, TaskOK, Stoppable, PublishedIn, BarredStaysOut
<1> QED BY <1>1, InvHolds, PTL
=============================================================================
