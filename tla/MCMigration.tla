---------------------------- MODULE MCMigration ----------------------------
(***************************************************************************)
(* Two sign-ups, a login and a migration by a handler of one administrator *)
(* beside a migration of the package, both for one field.  A sign-up may   *)
(* be in progress beside the other, and while the process ends.  Searches  *)
(* find the inn with ratings and the mill with nothing.                    *)
(***************************************************************************)
EXTENDS Migration

Of(op, password) == [op |-> op, user |-> "ann", password |-> password]
Migrate(op, field) == [op |-> op, field |-> field]

MCRequest == [
    s1 |-> Of("signup", "one"),
    s2 |-> Of("signup", "two"),
    l1 |-> Of("login", "one"),
    m1 |-> Migrate("migrate", "url"),
    a1 |-> Migrate("add", "url")]

MCMayOverlap == {{"s1", "s2"}, {"s2", "m1"}}

MCStored == {[inn |-> {"ratings"}, mill |-> {}]}
=============================================================================
