------------------------------ MODULE MCAccess ------------------------------
(* An instance of Access for TLC: two tenants that use the same names.     *)
EXTENDS Access, TLC

CONSTANTS t1, t2, ann, ops, a1, a2, h1, h2, k1, i1, c1, r1

(* The tables after create-tenant t1, with a bot called ann and her        *)
(* private channel ops; t2 is to come.                                     *)
SeedTables ==
    [tenants |-> (t1 :> "active" @@ t2 :> None),
     accounts |-> {[id |-> a1, tenant |-> t1, name |-> ann, type |-> "bot"]},
     channels |-> {[id |-> h1, tenant |-> t1, name |-> ops, owner |-> a1,
                    visibility |-> "private"]},
     acl |-> {[tenant |-> t1, channel |-> h1, account |-> a1, role |-> "owner"]},
     tokens |-> {},
     integrations |-> {}]
=============================================================================
