----------------------------- MODULE MCPgStore ------------------------------
(***************************************************************************)
(* Instances of PgStore for TLC.                                            *)
(***************************************************************************)
EXTENDS PgStore, TLC

CONSTANTS w1, w2, w3, s1, a1, a2, global, t1, t2

(* w1 writes for tenant t1, the others without a scope.                     *)
TenantAndUnscoped == [w \in Writers |-> IF w = w1 THEN t1 ELSE Unscoped]

NoTenants == [w \in Writers |-> Unscoped]

(* The writers without a scope are interchangeable.                         *)
UnscopedWriters == Permutations({w2, w3})

OfTenant == [s \in Streams |-> t1]

OfEverything == [s \in Streams |-> Unscoped]

=============================================================================
