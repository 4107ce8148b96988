------------------------------ MODULE NameScope ------------------------------
(***************************************************************************)
(* _utils.NameScope: the names a module or a function has given out.  A    *)
(* name is <<base>>, or <<base, n>> for "base.n", which is how deduplicate *)
(* writes the names it makes up; the empty name <<"">> is always in use.   *)
(* No name is ever given back.                                             *)
(***************************************************************************)
EXTENDS Integers, Sequences, FiniteSets, FiniteSetsExt

NewScope == [used |-> {<<"">>}, counts |-> [b \in {} |-> 0]]

IsUsed(scope, name) == name \in scope.used

Counted(scope, base) == IF base \in DOMAIN scope.counts THEN scope.counts[base] ELSE 0

\* deduplicate: the next number of this base that makes a name not in use.
\* The name it returns is not registered.
FreshNumber(scope, base) ==
    Min({n \in Counted(scope, base) + 1 .. Counted(scope, base) + Cardinality(scope.used) + 1 :
            ~IsUsed(scope, Append(base, n))})

\* Mutant: the number is not remembered.
DeduplicateAgain(scope, name) ==
    IF ~IsUsed(scope, name) THEN [scope |-> scope, name |-> name]
    ELSE [scope |-> scope, name |-> Append(name, FreshNumber(scope, name))]

Deduplicate(scope, name) ==
    IF ~IsUsed(scope, name) THEN [scope |-> scope, name |-> name]
    ELSE LET n == FreshNumber(scope, name)
         IN [scope |-> [scope EXCEPT !.counts = [b \in DOMAIN @ \cup {name} |->
                                                    IF b = name THEN n ELSE @[b]]],
             name |-> Append(name, n)]

CanRegister(scope, name, dedup) == dedup \/ ~IsUsed(scope, name)

\* register, where it does not raise DuplicatedNameError.
Register(scope, name, dedup) ==
    LET d == IF dedup THEN Deduplicate(scope, name) ELSE [scope |-> scope, name |-> name]
    IN [d EXCEPT !.scope.used = @ \cup {d.name}]
=============================================================================
